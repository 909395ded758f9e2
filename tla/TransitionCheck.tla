--------------------------- MODULE TransitionCheck ---------------------------
(***************************************************************************)
(* lib/validator_transition.py and lib/validator_receipt.py: the check an  *)
(* operator runs before validator mode is enabled (--check-account).  It   *)
(* reads the account's state at one finalized block, proves custody of the *)
(* expected key tuple, takes a readiness report of the node, asks for the  *)
(* canonical block of the report's authorship proof, compares the runtime  *)
(* with the reviewed identity, and puts a receipt together.                *)
(*                                                                         *)
(* Between any two of these calls the chain finalizes blocks and sessions, *)
(* the owner submits transactions, keys enter and leave the keystore, the  *)
(* runtime is upgraded, peers and time come and go.  Node and chain are    *)
(* external; a tuple of seven keys is one of two parts, the temporal key   *)
(* and the six others.                                                     *)
(***************************************************************************)
EXTENDS Naturals, Sequences, FiniteSets

CONSTANTS
  None,        \* no tuple, no account, no qualification
  Absent,      \* a field an older node does not report
  Key,         \* public keys of each type
  Tuple,       \* the key tuples that occur: functions from Part to Key
  Index,       \* the indices an authority may have in a session
  Timing,      \* the timing policies a node may report
  Node,        \* how nodes may be set up: peers, policy, release
  Setup,       \* what the check may meet when it starts
  MaxHeight,   \* bound of the finalized chain
  MaxMoves     \* bound of the changes during the check

Part    == {"session", "temporal"}
Fork    == {"a", "b"}
Keys    == Part \X Key
\* The session belongs to the block; the index is the account's among the
\* authorities of the session.
Account == [bonded : BOOLEAN, intent : BOOLEAN, next : Tuple \cup {None},
            queued : Tuple \cup {None}, active : Tuple \cup {None},
            session : Nat, index : Index \cup {None}, fork : Fork]

\* A candidate is bonded: the staking pallet sees to it.
ASSUME TransitionAssumption ==
  /\ Tuple \subseteq [Part -> Key]
  /\ None \notin Tuple /\ None \notin Index /\ None \notin Fork /\ None \notin {1, 2} /\ Absent \notin Tuple \cup {None}
  /\ \A s \in Setup : /\ s.account \in Account /\ (s.account.intent => s.account.bonded)
                      /\ s.keystore \subseteq Keys /\ s.node \in Node /\ s.timing \in Timing
                      /\ s.expected \in Tuple \cup {None} /\ s.qualified \in {1, 2, None}
  /\ \A n \in Node : n.minimum \in Nat /\ n.mapped \in Nat
  /\ MaxHeight \in Nat \ {0} /\ MaxMoves \in Nat

VARIABLES
  chain,      \* the account at each finalized block, and the block's fork
  best,       \* the fork of the best block above the finalized ones
  keystore,   \* the keys of each type the node holds
  node,       \* RPC policy, candidate account, peers, release, sync and role
  time,       \* whether time has converged and the node would author
  runtime,    \* version of the runtime
  moves,      \* changes so far
  timing,     \* the timing policy of the node's reports
  expected,   \* --expected-session-keys
  qualified,  \* the runtime version of the --qualification document
  pc,
  head,       \* the finalized height the check reads at
  read,       \* the account's state there
  custody,    \* the node proved custody of the expected tuple
  report,     \* the readiness report
  canonical,  \* the canonical block at the height of the authorship proof
  spec,       \* the runtime version the check saw
  receipt,
  moment      \* chain and keystore when custody was proved and when the
              \* report was made: for the properties only

env  == <<chain, best, keystore, node, time, runtime, moves>>
args == <<timing, expected, qualified>>
vars == <<chain, best, keystore, node, time, runtime, moves, timing, expected,
          qualified, pc, head, read, custody, report, canonical, spec, receipt, moment>>

All(t)  == {<<p, t[p]>> : p \in Part}
Latest  == chain[Len(chain)]
Height  == Len(chain)

Label == {"head", "storage", "custody", "observe", "report", "proof", "runtime",
          "metadata", "receipt", "done", "error"}

TypeOK ==
  /\ chain \in Seq(Account) /\ Height \in 1 .. MaxHeight
  /\ best \in Fork
  /\ keystore \subseteq Keys
  /\ node \in Node
  /\ time \in [converged : BOOLEAN, ready : BOOLEAN]
  /\ runtime \in {1, 2}
  /\ moves \in 0 .. MaxMoves
  /\ timing \in Timing
  /\ expected \in Tuple \cup {None}
  /\ qualified \in {1, 2, None}
  /\ pc \in Label
  /\ head \in 0 .. Height
  /\ custody \in BOOLEAN
  /\ canonical \in Fork \cup {None}
  /\ spec \in 0 .. 2
  /\ pc \in {"custody", "observe", "report", "proof", "runtime", "metadata", "receipt"} =>
       read \in Account
  /\ pc = "done" => receipt.safe = (receipt.failed = {})

NoReceipt == [failed |-> {"none"}, safe |-> FALSE, author |-> FALSE, proven |-> FALSE]

\* Setup says what the check may meet: the account, its node and keys, and the
\* arguments of the command.
Init ==
  \E s \in Setup :
    /\ chain = <<s.account>> /\ best = s.account.fork
    /\ keystore = s.keystore /\ node = s.node /\ timing = s.timing
    /\ expected = s.expected /\ qualified = s.qualified
    /\ time \in [converged : {TRUE}, ready : BOOLEAN]
    /\ runtime = 1 /\ moves = 0
    /\ pc = "head" /\ head = 0 /\ read = None /\ custody = FALSE /\ report = None
    /\ canonical = None /\ spec = 0 /\ receipt = NoReceipt
    /\ moment = [custody |-> {}, report |-> None]

-----------------------------------------------------------------------------
(* What changes around the check: all of it external.                      *)
Running == pc \notin {"head", "done", "error"}

Moves == /\ Running
         /\ moves < MaxMoves
         /\ moves' = moves + 1
         /\ UNCHANGED <<args, pc, head, read, custody, report, canonical, spec,
                        receipt, moment>>

\* A transaction of the account, or the start of a session, is finalized:
\* an account is unbonded only after it was chilled, and it is queued, and
\* one session later active, with the keys of the moment it was elected and
\* with an index that is another one in every session.
Transactions(a) ==
       {[a EXCEPT !.next = t] : t \in Tuple}
  \cup {[a EXCEPT !.intent = i] : i \in {FALSE, a.bonded}}
  \cup {[a EXCEPT !.bonded = a.intent]}
  \cup {[a EXCEPT !.queued = IF a.intent THEN a.next ELSE None, !.active = a.queued,
                  !.session = @ + 1, !.index = i] :
          i \in IF a.queued = None THEN {None} ELSE Index}

Finalize ==
  /\ Moves
  /\ Height < MaxHeight
  /\ \E a \in Transactions(Latest) : chain' = Append(chain, [a EXCEPT !.fork = best])
  /\ UNCHANGED <<best, keystore, node, time, runtime>>

Reorganize ==
  /\ Moves
  /\ \E f \in Fork \ {best} : best' = f
  /\ UNCHANGED <<chain, keystore, node, time, runtime>>

\* New keys are made, or the keystore is replaced by another one.
ChangeKeys ==
  /\ Moves
  /\ \E t \in Tuple : keystore' \in {keystore \cup All(t), All(t)}
  /\ UNCHANGED <<chain, best, node, time, runtime>>

ChangeNode ==
  /\ Moves
  /\ \/ node' \in Node /\ node'.release = node.release /\ UNCHANGED <<time, runtime>>
     \/ time' \in [converged : BOOLEAN, ready : BOOLEAN] /\ UNCHANGED <<node, runtime>>
     \/ runtime' = 2 /\ UNCHANGED <<node, time>>
  /\ UNCHANGED <<chain, best, keystore>>

-----------------------------------------------------------------------------
(* temporal_getValidatorReadiness, external: the node discovers the account *)
(* its keys are registered for, and compares its keystore with the chain.   *)
Holds(t) == t # None /\ All(t) \subseteq keystore

Readiness(proof) ==
  LET mine == node.candidate = "account" IN
  [candidate |-> node.candidate,
   expected  |-> IF mine THEN Latest.next ELSE None,
   observed  |-> keystore,
   flags     |-> mine /\ Latest.intent /\ Holds(Latest.next),
   queued    |-> IF node.release = "old" THEN Absent ELSE Latest.queued,
   matches   |-> Holds(Latest.queued),
   mapping   |-> Holds(Latest.active),
   index     |-> Latest.index,
   time      |-> time,
   node      |-> node,
   proof     |-> proof]

\* Its authorship proof: a block, perhaps not final, or no longer on the chain,
\* and the index of its author in the session of that block.
Proofs ==
  {None} \cup (IF \E n \in 1 .. Height : chain[n].active # None
               THEN [number : 1 .. Height + 1, fork : Fork, index : Index] ELSE {})

BlockHash(n) == IF n > Height THEN best ELSE chain[n].fork

-----------------------------------------------------------------------------
(* Mutants: definitions with a plausible mistake in them, put in the place *)
(* of the ones they are named after to show that a property notices; none  *)
(* is part of the specification.                                           *)

\* The header of the best block is taken for the finalized one.
ReadBestHead ==
  /\ pc = "head"
  /\ head' = Height + 1
  /\ pc' = "storage"
  /\ UNCHANGED <<env, args, read, custody, report, canonical, spec, receipt, moment>>

\* The node's own comparison of its keys with the chain is trusted.
ObservedCustodyByFlags(r) == r.flags

\* Each registered key is looked for among the observed ones only.
KeyFailuresObserved(r) ==
  {p \in Part : read.next # None /\ <<p, read.next[p]>> \notin r.observed}

\* A proof for a block above the finalized one is accepted.
AskedOfAnyHeight(p) == p # None /\ p.index = report.index

\* Convergence alone is asked of an active authority.
TimeFailuresConverged(r) == IF r.time.converged THEN {} ELSE {"time"}

\* A candidate that is not queued yet is a failure.
QueuedFailuresAbsent(r) ==
  IF r.queued \in {Absent, expected} THEN {} ELSE {"queued"}

\* The runtime's version is compared, its metadata is not.
QualificationFailuresVersion(metadata) ==
  IF qualified = None \/ spec # qualified THEN {"qualification"} ELSE {}

-----------------------------------------------------------------------------
(* The check *)

\* A refused, lost or malformed answer, at any call: no receipt.
Fails ==
  /\ Running \/ pc = "head"
  /\ pc' = "error"
  /\ UNCHANGED <<env, args, head, read, custody, report, canonical, spec, receipt, moment>>

ReadHead ==
  /\ pc = "head"
  /\ head' = Height
  /\ pc' = "storage"
  /\ UNCHANGED <<env, args, read, custody, report, canonical, spec, receipt, moment>>

\* Session.Validators, Staking.Bonded and Validators and Session.NextKeys,
\* all at the hash that was read.
ReadStorage ==
  /\ pc = "storage"
  /\ read' = chain[head]
  /\ pc' = "custody"
  /\ UNCHANGED <<env, args, head, custody, report, canonical, spec, receipt, moment>>

\* author_hasSessionKeys; under the Safe policy it is rejected, and a first
\* readiness report is asked for instead.
AskCustody ==
  /\ pc = "custody"
  /\ IF expected # None /\ node.policy = "Safe"
     THEN pc' = "observe" /\ UNCHANGED <<custody, moment>>
     ELSE /\ pc' = "report"
          /\ custody' = (expected # None /\ Holds(expected))
          /\ moment' = [moment EXCEPT !.custody = keystore]
  /\ UNCHANGED <<env, args, head, read, report, canonical, spec, receipt>>

\* The observed public keys prove custody, whatever the aggregate flags of the
\* report say; a tuple of another candidate does not.
ObservedCustody(r) ==
  /\ r.candidate \in {None, "account"}
  /\ \A p \in Part :
       /\ <<p, expected[p]>> \in r.observed
       /\ r.expected # None =>
            r.expected[p] = expected[p] /\ <<p, r.expected[p]>> \in r.observed

\* validate_timing_policy: the fields a newer node adds must agree with each
\* other and with readyToAuthor.
ValidTiming(t, ready) ==
  /\ t.enforcement # None =>
       /\ t.enforcement.babe = (t.enforcement.grandpa # "LogOnly")
       /\ ready => t.enforcement.babe
  /\ t.profile # "absent" =>
       /\ t.eligible = ~t.blocked
       /\ t.warning = (t.profile = "EARLY_TESTNET" /\ t.eligible /\ ~t.qualified)
       /\ t.profile = "STRICT" /\ t.eligible => t.qualified
       /\ ready => t.eligible
  /\ ready /\ t.profile # "EARLY_TESTNET" => t.quality \in {"absent", "enough"}
  /\ t.lifecycle = "ELIGIBLE_WITH_WARNINGS" => ready /\ t.profile # "absent" /\ t.warning
  /\ t.lifecycle = "TIME_ENFORCEMENT_DISABLED" =>
       t.enforcement # None /\ ~t.enforcement.babe /\ ~ready

\* capture_readiness and validate_readiness; what is malformed is an error.
Captured(r) == ValidTiming(timing, r.time.ready)

Observe ==
  /\ pc = "observe"
  /\ Captured(Readiness(None))
  /\ custody' = ObservedCustody(Readiness(None))
  /\ moment' = [moment EXCEPT !.custody = keystore]
  /\ pc' = "report"
  /\ UNCHANGED <<env, args, head, read, report, canonical, spec, receipt>>

Report ==
  /\ pc = "report"
  /\ Captured(Readiness(None))
  /\ \E p \in Proofs : report' = Readiness(p)
  /\ moment' = [moment EXCEPT !.report = [account |-> Latest, keystore |-> keystore]]
  /\ pc' = "proof"
  /\ UNCHANGED <<env, args, head, read, custody, canonical, spec, receipt>>

\* The canonical hash is asked for only if the index of the proof is the
\* producer's at the time of the report, whichever session the block is of, and
\* the block is not above the finalized one.
AskedOf(p) == p # None /\ p.index = report.index /\ p.number <= head

AskProof ==
  /\ pc = "proof"
  /\ canonical' = IF read.active # None /\ AskedOf(report.proof)
                  THEN BlockHash(report.proof.number) ELSE None
  /\ pc' = IF qualified = None THEN "receipt" ELSE "runtime"
  /\ UNCHANGED <<env, args, head, read, custody, report, spec, receipt, moment>>

ReadRuntime ==
  /\ pc = "runtime"
  /\ spec' = runtime
  /\ pc' = "metadata"
  /\ UNCHANGED <<env, args, head, read, custody, report, canonical, receipt, moment>>

-----------------------------------------------------------------------------
(* The verdict *)
If(condition, stage) == IF condition THEN {stage} ELSE {}

Active   == read.active # None
Authored == canonical # None /\ canonical = report.proof.fork

\* Each registered key is the one the node expects, and it holds it: the entry of
\* its type, which for the temporal key is there a second time.
KeyFailures(r) ==
  {p \in Part : /\ read.next # None
                /\ \/ r.expected = None
                   \/ r.expected[p] # read.next[p]
                   \/ <<p, read.next[p]>> \notin r.observed}

\* An account that is queued is queued with the expected tuple; one that is
\* not elected yet, or a node too old to tell, is no failure.
QueuedFailures(r) ==
  If(/\ r.queued \notin {Absent, None} /\ expected # None
     /\ r.queued # expected \/ ~r.matches, "queued")

PeerFailures(n) ==
       If(n.minimum < 2, "policy")
  \cup If(n.mapped < 2 \/ n.mapped < n.minimum, "peers")

\* An active authority must have converged and be ready to author.
TimeFailures(r) == If(~r.time.converged \/ ~r.time.ready, "time")

\* The qualification is required; runtime and metadata are its own.
QualificationFailures(metadata) ==
  If(qualified = None \/ spec # qualified \/ metadata # qualified, "qualification")

Failures(metadata) ==
       If(~read.bonded \/ ~read.intent, "candidacy")
  \cup If(read.next = None \/ read.next # expected \/ ~custody, "tuple")
  \cup KeyFailures(report)
  \cup If(report.candidate = "other", "account")
  \cup If(~report.node.synced, "sync")
  \cup PeerFailures(report.node)
  \cup If(~report.flags, "readiness")
  \cup QueuedFailures(report)
  \cup (IF Active THEN If(~report.mapping, "mapping") \cup TimeFailures(report)
                       \cup If(~Authored, "authorship")
                  ELSE {})
  \cup QualificationFailures(metadata)

\* check_transition and transition_receipt; the exit code is 0 if it is safe.
Conclude ==
  /\ pc \in {"receipt", "metadata"}
  /\ LET failed == Failures(runtime) IN
     receipt' = [failed |-> failed,
                 safe   |-> failed = {},
                 author |-> failed = {} /\ Active,
                 proven |-> failed = {} /\ Active /\ Authored]
  /\ pc' = "done"
  /\ UNCHANGED <<env, args, head, read, custody, report, canonical, spec, moment>>

Check == \/ ReadHead \/ ReadStorage \/ AskCustody \/ Observe \/ Report
         \/ AskProof \/ ReadRuntime \/ Conclude

World == Finalize \/ Reorganize \/ ChangeKeys \/ ChangeNode

Next == Check \/ Fails \/ World

Spec == Init /\ [][Next]_vars

-----------------------------------------------------------------------------
(* Properties *)

\* README and docs/validator-self-join.md have the operator act on a safe
\* verdict.  Though it is put together from answers given at different
\* moments, all of it held at one: when the report was made the account was
\* bonded, a candidate, and registered with the expected tuple, the node held
\* every key of it, and no other tuple was queued; and the same registration
\* is in the finalized block the receipt names.
SafeIsOneMoment ==
  receipt.safe =>
    LET then == moment.report IN
    /\ \A a \in {then.account, chain[head]} : a.bonded /\ a.intent /\ a.next = expected
    /\ All(expected) \subseteq then.keystore
    /\ report.queued # Absent => then.account.queued \in {None, expected}

\* A receipt names local custody only if the node held the whole tuple when it
\* was asked, under the Safe policy (where the readiness report stands in for
\* author_hasSessionKeys) as under the Unsafe one.
CustodyIsTrue ==
  custody => expected # None /\ All(expected) \subseteq moment.custody

\* authorshipProven: the block of the proof is final, whatever the best chain
\* was when its hash was asked for, and if it is of the session of the report,
\* its author's index was the account's own.  No more can be said: the code
\* compares indices only, and in a session before the index was another
\* validator's.  It is roko-validator-watch that takes a baseline in every
\* session (AcceptedIsAuthored in ValidatorWatch).
AuthorshipIsFinal ==
  receipt.proven =>
    LET proof == report.proof IN
    /\ proof.number <= Height
    /\ chain[proof.number].fork = proof.fork
    /\ chain[proof.number].session = moment.report.account.session =>
         chain[proof.number].index = proof.index

\* safeToAuthor, which the receipt derives without looking at readyToAuthor:
\* the node was ready and converged, its policy is enforced, and it takes part
\* with the quality of time its profile asks for.
AuthorsOnTime ==
  receipt.author =>
    /\ report.time = [converged |-> TRUE, ready |-> TRUE]
    /\ timing.enforcement # None => timing.enforcement.grandpa # "LogOnly"
    /\ timing.profile # "absent" => ~timing.blocked
    /\ timing.profile = "STRICT" => timing.qualified
    /\ timing.quality \in {"low", "none"} => timing.profile = "EARLY_TESTNET" /\ ~timing.blocked

\* A safe verdict is about the runtime that was reviewed: an upgrade between
\* the calls, up to the last one, is noticed.
QualifiedRuntime == receipt.safe => runtime = qualified

\* A registered candidate that waits for its election or its session, on a node
\* where all is as it should be and stays so, passes: to be absent from the
\* queued set is recorded and not held against it (issue #1).
Waiting ==
  /\ moves = 0 /\ qualified = runtime
  /\ Latest.intent /\ Latest.next = expected /\ Holds(expected)
  /\ Latest.active = None /\ Latest.queued \in {None, expected}
  /\ node.candidate = "account" /\ node.synced
  /\ node.minimum >= 2 /\ node.mapped >= node.minimum

WaitingIsAccepted == pc = "done" /\ Waiting => receipt.safe
=============================================================================
