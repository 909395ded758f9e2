-------------------------- MODULE CandidateAccount --------------------------
(***************************************************************************)
(* What the wallet promises about the staking account, without the runs    *)
(* that work on it: the finalized account takes the four steps to a        *)
(* candidate in their order, each once, each with one paid call, and never *)
(* spends what the next call needs.  The promise is void once two runs     *)
(* overlapped or the node forgot a transaction: from then on a call may    *)
(* come too late, and the runtime does with it what it can.                *)
(***************************************************************************)
EXTENDS Integers

CONSTANTS Stake, Keys, NoKeys, Fee, Deposit

VARIABLES account, void

vars == <<account, void>>

Account == [nonce : Nat, free : Nat, pw : Nat, active : Nat,
            keys : Keys \cup {NoKeys}, intent : BOOLEAN]

Init ==
  /\ account \in Account /\ void = FALSE
  /\ account.active <= account.pw
  /\ account.keys # NoKeys \/ account.intent => account.active > 0

-----------------------------------------------------------------------------
(* The calls, as the runtime executes them.  Each costs its fee.           *)
Paid(a) == [a EXCEPT !.nonce = @ + 1, !.free = @ - Fee]

Lock(n) ==
  /\ account.free >= n + Fee + Deposit
  /\ account' = Paid([account EXCEPT !.pw = @ + n, !.free = @ - n])

Bond(s) ==
  /\ account.active = 0 /\ account.pw >= s
  /\ account' = Paid([account EXCEPT !.active = s])

SetKeys(k) ==
  /\ account.active > 0
  /\ account' = Paid([account EXCEPT !.keys = k])

Validate ==
  /\ account.active > 0
  /\ account' = Paid([account EXCEPT !.intent = TRUE])

Fails == account' = Paid(account)

-----------------------------------------------------------------------------
\* One step towards the candidate: a call that the account needs, after which
\* it still has its deposit and the fee of a call.
Enroll ==
  /\ \/ \E s \in Stake : account.active = 0 /\ account.pw < s /\ Lock(s - account.pw)
     \/ \E s \in Stake : Bond(s)
     \/ \E k \in Keys : account.keys = NoKeys /\ SetKeys(k)
     \/ account.keys # NoKeys /\ ~account.intent /\ Validate
  /\ account'.free >= Deposit + Fee

\* What comes too late.
Stray ==
  /\ void
  /\ \/ \E n \in 0 .. account.free : Lock(n)
     \/ \E s \in Stake : Bond(s)
     \/ \E k \in Keys : SetKeys(k)
     \/ Validate
     \/ Fails

Spoil == void' = TRUE /\ UNCHANGED account

Next == \/ account.free >= Fee /\ (Enroll \/ Stray) /\ UNCHANGED void
        \/ Spoil

Spec == Init /\ [][Next]_vars

\* The promise: the order of the steps shows in every account; no bond or intent
\* is ever undone, and unless the promise is void no lock or set of keys follows
\* the one that was enough.
Ordered ==
  /\ account \in Account
  /\ account.active <= account.pw
  /\ account.keys # NoKeys \/ account.intent => account.active > 0

Forward ==
  [][/\ account.active > 0 => account'.active = account.active
     /\ account.pw <= account'.pw
     /\ account.intent => account'.intent
     /\ ~void' /\ account.keys # NoKeys => account'.keys = account.keys
     /\ ~void' /\ account.active > 0 => account'.pw = account.pw]_vars
=============================================================================
