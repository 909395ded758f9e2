----------------------------- MODULE WalletEnroll -----------------------------
(***************************************************************************)
(* wallet/cli.mjs and wallet/logic.mjs: roko-validator-wallet plan and     *)
(* enroll.  A run reads the finalized state of one staking account, sends  *)
(* the one call that is missing (lock, bond, setKeys, validate), waits     *)
(* until it is finalized, and starts over, at most MaxIterations times.    *)
(* It may time out or die while its transaction lives on; the operator     *)
(* then runs it again.                                                     *)
(*                                                                         *)
(* The chain and the pool of the local node are external.  A transaction   *)
(* is live from its submission until it is finalized or gone for good;     *)
(* seen holds the live ones that the local node knows of.                  *)
(***************************************************************************)
EXTENDS Integers, FiniteSets

CONSTANTS
  Run,           \* the invocations
  Stake,         \* the values of --stake-planck
  Keys, NoKeys,  \* the session keys of the packages; no keys registered
  Free, Locked,  \* native and pwROKO balances the account may start with
  MinBond, Fee, Deposit,  \* minValidatorBond, fee of a call, existential deposit
  MaxIterations, \* 5, the bound of the loop
  Faults         \* what may go wrong

ASSUME WalletAssumption ==
  /\ Stake \subseteq Nat \ {0}
  /\ NoKeys \notin Keys
  /\ Free \subseteq Nat /\ Locked \subseteq Nat
  /\ MinBond \in Nat /\ Fee \in Nat /\ Deposit \in Nat /\ MaxIterations \in Nat
  /\ IsFiniteSet(Run)

VARIABLES
  acct,    \* the staking account in the latest finalized block
  seen,    \* runs whose transaction the local node knows and has not finalized
  pc,      \* what each run does next
  args,    \* its command line and package
  view,    \* the account at the finalized head it read
  iter,    \* iterations it completed
  tx,      \* its latest transaction
  fate,    \* and what became of it
  result,  \* how the run ended
  overlapped, restarted  \* runs overlapped, the node restarted with transactions pending

chain == <<acct, seen, fate>>
past  == <<overlapped, restarted>>
vars  == <<acct, seen, pc, args, view, iter, tx, fate, result, overlapped, restarted>>

-----------------------------------------------------------------------------
Call    == {"lock", "bond", "setKeys", "validate"}
Account == [nonce : Nat, free : Nat, pw : Nat, active : Nat,
            keys : Keys \cup {NoKeys}, intent : BOOLEAN]
Tx      == [call : Call \cup {"none"}, amount : Nat, nonce : Nat]
Args    == [stake : Stake, keys : Keys, execute : BOOLEAN]
NoTx    == [call |-> "none", amount |-> 0, nonce |-> 0]
Label   == {"idle", "check", "read", "index", "decide", "sign", "submit", "wait", "ended"}
Result  == {"none", "registered", "planned", "refused", "rejected", "failed",
            "unknown", "diverged", "dead"}

TypeOK ==
  /\ acct \in Account
  /\ seen \subseteq Run
  /\ pc \in [Run -> Label]
  /\ args \in [Run -> Args]
  /\ view \in [Run -> Account]
  /\ iter \in [Run -> 0 .. MaxIterations]
  /\ tx \in [Run -> Tx]
  /\ fate \in [Run -> {"none", "live", "ok", "failed", "gone"}]
  /\ result \in [Run -> Result]
  /\ overlapped \in BOOLEAN /\ restarted \in BOOLEAN

\* A funded account with nothing done, or some of the steps done before.
Init ==
  /\ acct \in [nonce : {0}, free : Free, pw : Locked, active : Locked,
               keys : Keys \cup {NoKeys}, intent : BOOLEAN]
  /\ acct.active <= acct.pw
  /\ acct.keys # NoKeys => acct.active > 0
  /\ acct.intent => acct.active > 0
  /\ seen = {}
  /\ pc = [r \in Run |-> "idle"]
  /\ args \in [Run -> Args]
  /\ view = [r \in Run |-> acct]
  /\ iter = [r \in Run |-> 0]
  /\ tx = [r \in Run |-> NoTx]
  /\ fate = [r \in Run |-> "none"]
  /\ result = [r \in Run |-> "none"]
  /\ overlapped = FALSE /\ restarted = FALSE

-----------------------------------------------------------------------------
(* Mutants: definitions with a plausible mistake in them, put in the place *)
(* of the ones they are named after to show that a property notices; none  *)
(* is part of the specification.                                           *)

\* Other session keys are not refused.
ConflictBondOnly(a, x) == a.active \in 1 .. x.stake - 1

\* The call to bond precedes the lock that it needs.
NextStepBondFirst(a, x) ==
  CASE a.active = 0 /\ a.pw < x.stake  -> "bond"
    [] a.active = 0 /\ a.pw >= x.stake -> "lock"
    [] a.active > 0 /\ a.keys = NoKeys -> "setKeys"
    [] a.active > 0 /\ a.keys # NoKeys /\ ~a.intent -> "validate"
    [] OTHER -> "none"

\* An account with session keys is taken for a candidate.
NextStepNoIntent(a, x) ==
  CASE a.active = 0 /\ a.pw < x.stake  -> "lock"
    [] a.active = 0 /\ a.pw >= x.stake -> "bond"
    [] a.active > 0 /\ a.keys = NoKeys -> "setKeys"
    [] OTHER -> "none"

\* The amount is computed for every call; or it is the whole stake.
LockAmountAlways(a, x) == x.stake - a.pw

LockAmountWhole(a, x) == x.stake

\* Only the amount is compared with the balance.
AffordableNoReserve(a, x) == a.free >= IF a.active = 0 /\ a.pw < x.stake THEN x.stake - a.pw ELSE 0

\* Pending transactions are not looked for.
CheckIndexSkipped(r) ==
  /\ pc[r] = "index"
  /\ pc' = [pc EXCEPT ![r] = "decide"]
  /\ UNCHANGED <<past, chain, args, view, iter, tx, result>>

\* The loop has one iteration less.
CheckFourTimes(r) ==
  /\ pc[r] = "check"
  /\ \/ iter[r] + 1 < MaxIterations /\ pc' = [pc EXCEPT ![r] = "read"] /\ UNCHANGED result
     \/ /\ iter[r] + 1 = MaxIterations
        /\ pc' = [pc EXCEPT ![r] = "ended"] /\ result' = [result EXCEPT ![r] = "diverged"]
  /\ UNCHANGED <<past, chain, args, view, iter, tx>>

\* A transaction that was dropped or replaced is tried again.
NotFinalizedRetries(r) ==
  /\ pc[r] = "wait"
  /\ fate[r] = "gone"
  /\ pc' = [pc EXCEPT ![r] = "check"]
  /\ iter' = [iter EXCEPT ![r] = @ + 1]
  /\ UNCHANGED <<past, chain, args, view, tx, result>>

-----------------------------------------------------------------------------
\* The next nonce the local node hands out: after the finalized transactions
\* and those it knows in an unbroken sequence.
Pending ==
  LET taken == {tx[q].nonce : q \in seen}
  IN  CHOOSE n \in acct.nonce .. acct.nonce + Cardinality(Run) :
        n \notin taken /\ acct.nonce .. n - 1 \subseteq taken

\* nextStep refuses other session keys and a bond below the stake.
Conflict(a, x) == a.keys \notin {NoKeys, x.keys} \/ a.active \in 1 .. x.stake - 1

\* The call that is missing from account a, or none.
NextStep(a, x) ==
  CASE a.active = 0 /\ a.pw < x.stake  -> "lock"
    [] a.active = 0 /\ a.pw >= x.stake -> "bond"
    [] a.active > 0 /\ a.keys = NoKeys -> "setKeys"
    [] a.active > 0 /\ a.keys # NoKeys /\ ~a.intent -> "validate"
    [] OTHER -> "none"

LockAmount(a, x) == IF NextStep(a, x) = "lock" THEN x.stake - a.pw ELSE 0

\* The spendable balance covers the amount, the deposit and twice the fee.
Affordable(a, x) == a.free >= Deposit + 2 * Fee + LockAmount(a, x)

\* The runtime: whether call t, sent with arguments x, succeeds, and its effect.
Succeeds(a, t, x) ==
  CASE t.call = "lock" -> a.free >= t.amount + Fee + Deposit
    [] t.call = "bond" -> a.active = 0 /\ a.pw >= x.stake /\ x.stake >= MinBond
    [] OTHER           -> a.active > 0 /\ a.active >= MinBond

Effect(a, t, x) ==
  CASE t.call = "lock"    -> [a EXCEPT !.pw = @ + t.amount, !.free = @ - t.amount]
    [] t.call = "bond"    -> [a EXCEPT !.active = x.stake]
    [] t.call = "setKeys" -> [a EXCEPT !.keys = x.keys]
    [] OTHER              -> [a EXCEPT !.intent = TRUE]

Goto(r, label) == pc' = [pc EXCEPT ![r] = label]

\* main() throws, returns or is ended: a transaction it sent lives on.
End(r, why) == /\ Goto(r, "ended")
               /\ result' = [result EXCEPT ![r] = why]

Over(r) == pc[r] \in {"idle", "ended"}

-----------------------------------------------------------------------------
Start(r) ==
  /\ pc[r] = "idle"
  /\ overlapped' = (overlapped \/ \E q \in Run : ~Over(q))
  /\ Goto(r, "check")
  /\ UNCHANGED <<chain, args, view, iter, tx, result, restarted>>

\* The loop's bound; then the package's expiry, the chain, runtime and peer of
\* the node, its sync state (and before the first iteration its finality).
Check(r) ==
  /\ pc[r] = "check"
  /\ \/ iter[r] < MaxIterations /\ Goto(r, "read") /\ UNCHANGED result
     \/ iter[r] < MaxIterations /\ "unfit" \in Faults /\ End(r, "refused")
     \/ iter[r] = MaxIterations /\ End(r, "diverged")
  /\ UNCHANGED <<past, chain, args, view, iter, tx>>

\* Every storage query is made at one finalized head.
Read(r) ==
  /\ pc[r] = "read"
  /\ view' = [view EXCEPT ![r] = acct]
  /\ Goto(r, "index")
  /\ UNCHANGED <<past, chain, args, iter, tx, result>>

\* accountNextIndex answers for the pool and the best block of a later moment.
CheckIndex(r) ==
  /\ pc[r] = "index"
  /\ \/ Pending = view[r].nonce /\ Goto(r, "decide") /\ UNCHANGED result
     \/ Pending # view[r].nonce /\ End(r, "refused")
  /\ UNCHANGED <<past, chain, args, view, iter, tx>>

Decide(r) ==
  LET a == view[r]
      x == args[r]
      fits == x.stake >= MinBond /\ ~Conflict(a, x)
      step == NextStep(a, x)
  IN
  /\ pc[r] = "decide"
  /\ \/ ~fits /\ End(r, "refused") /\ UNCHANGED tx
     \/ fits /\ step = "none" /\ End(r, "registered") /\ UNCHANGED tx
     \/ fits /\ step # "none" /\ ~Affordable(a, x) /\ End(r, "refused") /\ UNCHANGED tx
     \/ /\ fits /\ step # "none" /\ Affordable(a, x)
        /\ \/ ~x.execute /\ End(r, "planned") /\ UNCHANGED tx
           \/ /\ x.execute
              /\ tx' = [tx EXCEPT ![r] = [call |-> step, amount |-> LockAmount(a, x), nonce |-> 0]]
              /\ Goto(r, "sign")
              /\ UNCHANGED result
  /\ UNCHANGED <<past, chain, args, view, iter>>

\* signAndSend with nonce -1 asks the node for the next nonce once more ...
Sign(r) ==
  /\ pc[r] = "sign"
  /\ tx' = [tx EXCEPT ![r].nonce = Pending]
  /\ Goto(r, "submit")
  /\ UNCHANGED <<past, chain, args, view, iter, result>>

\* ... and submits.  The node refuses a nonce that is used or taken; its answer
\* may be lost.
Submit(r) ==
  LET accepted == /\ tx[r].nonce >= acct.nonce
                  /\ \A q \in seen : tx[q].nonce # tx[r].nonce
  IN
  /\ pc[r] = "submit"
  /\ \/ /\ accepted
        /\ seen' = seen \cup {r}
        /\ fate' = [fate EXCEPT ![r] = "live"]
        /\ \/ Goto(r, "wait") /\ UNCHANGED result
           \/ "net" \in Faults /\ End(r, "rejected")
     \/ ~accepted /\ End(r, "rejected") /\ UNCHANGED <<seen, fate>>
  /\ UNCHANGED <<past, acct, args, view, iter, tx>>

\* finalized() resolves: the next iteration.
Finalized(r) ==
  /\ pc[r] = "wait"
  /\ fate[r] = "ok"
  /\ iter' = [iter EXCEPT ![r] = @ + 1]
  /\ fate' = [fate EXCEPT ![r] = "none"]
  /\ Goto(r, "check")
  /\ UNCHANGED <<past, acct, seen, args, view, tx, result>>

\* It rejects: a dispatch failure; invalid, dropped or usurped; the timer.
NotFinalized(r) ==
  /\ pc[r] = "wait"
  /\ \/ fate[r] = "failed" /\ End(r, "failed")
     \/ fate[r] = "gone" /\ End(r, "rejected")
     \/ "timeout" \in Faults /\ End(r, "unknown")
  /\ UNCHANGED <<past, chain, args, view, iter, tx>>

\* The 900 s deadline, a lost SSH session, a kill.
Die(r) ==
  /\ "kill" \in Faults
  /\ ~Over(r)
  /\ End(r, "dead")
  /\ UNCHANGED <<past, chain, args, view, iter, tx>>

-----------------------------------------------------------------------------
(* The chain, and the pool of the local node *)
Include(r) ==
  LET ok   == Succeeds(acct, tx[r], args[r])
      same == {q \in Run \ {r} : fate[q] = "live" /\ tx[q].nonce = tx[r].nonce}
      done == IF ok THEN Effect(acct, tx[r], args[r]) ELSE acct
  IN
  /\ fate[r] = "live"
  /\ tx[r].nonce = acct.nonce
  /\ acct.free >= Fee
  /\ acct' = [done EXCEPT !.nonce = acct.nonce + 1, !.free = @ - Fee]
  /\ fate' = [q \in Run |-> IF q = r THEN IF ok THEN "ok" ELSE "failed"
                            ELSE IF q \in same THEN "gone" ELSE fate[q]]
  /\ seen' = seen \ ({r} \cup same)
  /\ UNCHANGED <<past, pc, args, view, iter, tx, result>>

\* Its mortal era ends, or the pools evict it.
Drop(r) ==
  /\ "drop" \in Faults
  /\ fate[r] = "live"
  /\ fate' = [fate EXCEPT ![r] = "gone"]
  /\ seen' = seen \ {r}
  /\ UNCHANGED <<past, acct, pc, args, view, iter, tx, result>>

\* A restarted node has an empty pool; the network may still hold, and give
\* back, what was in it.
Forget ==
  /\ "restart" \in Faults
  /\ seen # {}
  /\ seen' = {}
  /\ restarted' = TRUE
  /\ UNCHANGED <<overlapped, acct, fate, pc, args, view, iter, tx, result>>

Return(r) ==
  /\ fate[r] = "live" /\ r \notin seen
  /\ \A q \in seen : tx[q].nonce # tx[r].nonce
  /\ seen' = seen \cup {r}
  /\ UNCHANGED <<past, acct, fate, pc, args, view, iter, tx, result>>

-----------------------------------------------------------------------------
Step(r) ==
  \/ Check(r) \/ Read(r) \/ CheckIndex(r) \/ Decide(r) \/ Sign(r) \/ Submit(r)
  \/ Finalized(r) \/ NotFinalized(r)

Chain(r) == Include(r) \/ Drop(r) \/ Return(r)

Next == Forget \/ \E r \in Run : Start(r) \/ Step(r) \/ Die(r) \/ Chain(r)

Spec == Init /\ [][Next]_vars

\* RPC calls return; an affordable transaction with the next nonce is finalized.
FairSpec == Spec /\ \A r \in Run : WF_vars(Step(r)) /\ WF_vars(Include(r))

-----------------------------------------------------------------------------
(* Properties *)

Live  == {r \in Run : fate[r] = "live"}
Clean == ~overlapped /\ ~restarted

\* cli.mjs:65: nothing is sent while the account has an unfinalized
\* transaction, of this run or of one that timed out or died before it.
AloneInFlight == Clean => \A q, r \in Live : q = r

\* docs/validator-node-wallet.md, "lock enough ROKO to reach the requested
\* pwROKO balance": a lock ends exactly at the stake a run asked for.
Locks == acct'.pw # acct.pw => \E r \in Run : args[r].execute /\ acct'.pw = args[r].stake

LocksEnough == [][Clean' => Locks]_vars

\* The same for runs made one after the other, whatever the node does.
RerunLocksEnough == [][~overlapped' => Locks]_vars

\* logic.test.mjs, "partial completion resumes each step and never rotates
\* keys": keys once registered stay, whatever package a later run brings.
NeverRotatesKeys == [][Clean' /\ acct.keys # NoKeys => acct'.keys = acct.keys]_vars

\* docs, "Rerunning checks finalized state and skips completed steps": each
\* call that reaches the chain succeeds and does something not done before.
SkipsCompleted ==
  [][Clean' /\ acct'.nonce # acct.nonce =>
       \/ acct'.pw # acct.pw \/ acct'.active # acct.active
       \/ acct'.keys # acct.keys \/ acct'.intent # acct.intent]_vars

\* "candidate registration finalized" is printed only for an account that is
\* bonded for the stake, with the keys of the package and the intent, and that
\* stays so; also when runs with the same keys overlap.
SameKeys == \A q, r \in Run : args[q].keys = args[r].keys

RegisteredIsReal ==
  \A r \in Run : result[r] = "registered" /\ (Clean \/ SameKeys) =>
    acct.active >= args[r].stake /\ acct.keys = args[r].keys /\ acct.intent

\* Four calls and a last look fit into the loop: "State did not converge" is
\* never printed, not even when runs overlap.
Converges == \A r \in Run : result[r] # "diverged"

\* All of this as a machine: the runs take the account through the four steps
\* of the abstract account, and what overlapping runs or a forgetful node send
\* too late still is a call of its owner that the runtime can refuse.
Abstract == INSTANCE CandidateAccount WITH account <- acct, void <- ~Clean

ImplementsCandidateAccount == Abstract!Spec

\* What makes these inductive.  A run in the loop has an iteration left.
InLoop ==
  \A r \in Run : pc[r] \in Label \ {"idle", "check", "ended"} => iter[r] < MaxIterations

OneAtATime == \A q, r \in Run : Over(q) \/ Over(r) \/ q = r

\* The transaction of run r has the next nonce, and is the call that the
\* account still needs and can pay.
CallIsDue(r) ==
  /\ args[r].execute /\ args[r].stake >= MinBond /\ ~Conflict(acct, args[r])
  /\ tx[r].call = NextStep(acct, args[r]) /\ tx[r].call # "none"
  /\ tx[r].amount = LockAmount(acct, args[r])
  /\ Affordable(acct, args[r])

\* After the pending-index check, and while its nonce lasts, what a run read is
\* the account as it is: nothing in flight can change it.
ViewIsCurrent(r) ==
  /\ pc[r] = "index" => /\ view[r].nonce <= acct.nonce
                        /\ view[r].nonce = acct.nonce => view[r] = acct
  /\ pc[r] \in {"decide", "sign", "submit"} => Live = {} /\ view[r] = acct
  /\ pc[r] \in {"sign", "submit"} => CallIsDue(r)
  /\ pc[r] = "submit" \/ r \in Live => tx[r].nonce = acct.nonce
  /\ r \in Live => CallIsDue(r)

CleanInv ==
  Clean => /\ OneAtATime /\ AloneInFlight
           /\ seen = Live
           /\ \A r \in Run : ViewIsCurrent(r)

\* The account never goes back: from a to b it locks and keeps what it has.
Grows(a, b) ==
  /\ a.pw <= b.pw
  /\ a.active > 0 => b.active = a.active
  /\ a.keys # NoKeys => b.keys # NoKeys
  /\ a.intent => b.intent

\* How many of the four steps lie behind an account.
Rank == [lock |-> 0, bond |-> 1, setKeys |-> 2, validate |-> 3, none |-> 4]
Stage(a, x) == Rank[NextStep(a, x)]

\* Each iteration takes the account one step further, whoever else works on it.
Progress(r) ==
  /\ Grows(view[r], acct)
  /\ iter[r] <= Stage(acct, args[r])
  /\ pc[r] \in {"index", "decide"} => iter[r] <= Stage(view[r], args[r])
  /\ pc[r] \in {"sign", "submit", "wait"} =>
       /\ tx[r].call = NextStep(view[r], args[r]) /\ tx[r].call # "none"
       /\ tx[r].amount = LockAmount(view[r], args[r])
       /\ iter[r] <= Rank[tx[r].call]
  /\ pc[r] = "wait" /\ fate[r] = "ok" => Rank[tx[r].call] < Stage(acct, args[r])
  /\ result[r] = "diverged" => iter[r] = MaxIterations

\* What a registered run saw, and why it is still so.
Registration(r) ==
  /\ result[r] = "registered" =>
       /\ pc[r] = "ended"
       /\ view[r].active > 0 /\ view[r].active >= args[r].stake
       /\ view[r].keys = args[r].keys /\ view[r].intent
  /\ SameKeys /\ view[r].keys = args[r].keys => acct.keys = args[r].keys

WalletInv ==
  /\ TypeOK /\ InLoop /\ CleanInv /\ RegisteredIsReal
  /\ \A r \in Run : Progress(r) /\ Registration(r)

\* A run ends registered, or planned if that is all it was asked for, or is
\* refused because the account has other keys, a smaller bond or no funds.
Unfit(r) == \/ args[r].stake < MinBond \/ Conflict(acct, args[r])
            \/ ~Affordable(acct, args[r])

Completes ==
  \A r \in Run : pc[r] = "check" ~>
    \/ overlapped
    \/ result[r] = "registered"
    \/ result[r] = "planned" /\ ~args[r].execute
    \/ result[r] = "refused" /\ Unfit(r)
=============================================================================
