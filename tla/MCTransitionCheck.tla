-------------------------- MODULE MCTransitionCheck --------------------------
(* Three tuples over two keys of each type: two generations of keys, and one *)
(* that mixes them; the timing policies and set-ups of nodes that differ in  *)
(* what the check makes of them.                                             *)
EXTENDS TransitionCheck

T(s, t) == [session |-> s, temporal |-> t]
MCTuple == {T(1, 1), T(2, 2), T(2, 1)}

Enforcement(b, g) == [babe |-> b, grandpa |-> g]
Legacy == [enforcement |-> None, profile |-> "absent", eligible |-> FALSE,
           qualified |-> FALSE, warning |-> FALSE, blocked |-> FALSE,
           quality |-> "absent", lifecycle |-> "other"]
Strict == [Legacy EXCEPT !.enforcement = Enforcement(TRUE, "Strict"),
             !.profile = "STRICT", !.eligible = TRUE, !.qualified = TRUE,
             !.quality = "enough"]
Early  == [Strict EXCEPT !.profile = "EARLY_TESTNET", !.qualified = FALSE,
             !.warning = TRUE, !.quality = "low"]
MCTiming ==
  {Legacy, Strict, Early,
   [Strict EXCEPT !.eligible = FALSE, !.blocked = TRUE],
   [Strict EXCEPT !.qualified = FALSE],
   [Strict EXCEPT !.quality = "low"],
   [Strict EXCEPT !.enforcement = Enforcement(TRUE, "LogOnly")],
   [Early EXCEPT !.enforcement = Enforcement(FALSE, "LogOnly"),
                 !.lifecycle = "TIME_ENFORCEMENT_DISABLED"],
   [Early EXCEPT !.lifecycle = "ELIGIBLE_WITH_WARNINGS"],
   [Early EXCEPT !.warning = FALSE]}

Good == [policy |-> "Safe", candidate |-> "account", mapped |-> 2, minimum |-> 2,
         release |-> "new", synced |-> TRUE]
MCNode == {Good, [Good EXCEPT !.policy = "Unsafe"], [Good EXCEPT !.candidate = None],
           [Good EXCEPT !.candidate = "other"], [Good EXCEPT !.mapped = 1],
           [Good EXCEPT !.minimum = 1], [Good EXCEPT !.minimum = 3],
           [Good EXCEPT !.synced = FALSE], [Good EXCEPT !.release = "old"]}

\* Waiting, active, registered with the mixed tuple, chilled, not registered.
Registered == [bonded |-> TRUE, intent |-> TRUE, next |-> T(1, 1), queued |-> None,
               active |-> None, session |-> 0, index |-> None, fork |-> "a"]
Accounts == {Registered,
             [Registered EXCEPT !.queued = T(1, 1), !.active = T(1, 1), !.index = 1],
             [Registered EXCEPT !.next = T(2, 1)],
             [Registered EXCEPT !.intent = FALSE],
             [Registered EXCEPT !.next = None]}

\* A node or a timing policy that is not the usual one.
Situations == {<<n, Legacy>> : n \in MCNode} \cup {<<Good, t>> : t \in MCTiming}

MCSetup ==
  {[account |-> a, node |-> s[1], timing |-> s[2], keystore |-> All(T(1, 1)),
    expected |-> T(1, 1), qualified |-> 1] : a \in Accounts, s \in Situations}
  \cup
  {[account |-> a, node |-> Good, timing |-> Legacy, keystore |-> All(T(1, 1)),
    expected |-> c[1], qualified |-> c[2]] :
     a \in Accounts, c \in {<<None, 1>>, <<T(1, 1), None>>}}
=============================================================================
