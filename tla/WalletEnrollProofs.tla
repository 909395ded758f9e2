-------------------------- MODULE WalletEnrollProofs --------------------------
(***************************************************************************)
(* For any number of runs, any balances, stakes and faults: the state is   *)
(* well typed, and as long as runs do not overlap and the node keeps its   *)
(* pool, at most one transaction is in flight, a lock ends at the stake,   *)
(* keys are never replaced, and every call on the chain does something.    *)
(***************************************************************************)
EXTENDS WalletEnroll, FiniteSetTheorems, WellFoundedInduction, TLAPS

\* The nonces of a chain with fewer transactions than the interval is long do
\* not fill it: system_accountNextIndex has an answer.
LEMMA FreeNonce ==
  ASSUME TypeOK
  PROVE  \E n \in acct.nonce .. acct.nonce + Cardinality(Run) : n \notin {tx[q].nonce : q \in seen}
<1> DEFINE I == acct.nonce .. acct.nonce + Cardinality(Run)
           f == [n \in I |-> CHOOSE q \in seen : tx[q].nonce = n]
<1>1. acct.nonce \in Nat
  BY DEF TypeOK, Account
<1>2. IsFiniteSet(Run) /\ Cardinality(Run) \in Nat
  BY WalletAssumption, FS_CardinalityType
<1>3. IsFiniteSet(seen) /\ Cardinality(seen) <= Cardinality(Run) /\ Cardinality(seen) \in Nat
  BY <1>2, FS_Subset, FS_CardinalityType DEF TypeOK
<1>4. IsFiniteSet(I) /\ Cardinality(I) = Cardinality(Run) + 1
  <2> DEFINE a == acct.nonce
             b == acct.nonce + Cardinality(Run)
  <2>1. a \in Int /\ b \in Int /\ ~(a > b) /\ b - a + 1 = Cardinality(Run) + 1
    BY <1>1, <1>2
  <2> HIDE DEF a, b
  <2>2. IsFiniteSet(a .. b) /\ Cardinality(a .. b) = IF a > b THEN 0 ELSE b - a + 1
    BY <2>1, FS_Interval, Zenon
  <2> QED
    BY <2>1, <2>2 DEF a, b
<1> SUFFICES ASSUME \A n \in I : \E q \in seen : tx[q].nonce = n
             PROVE  FALSE
  OBVIOUS
<1>5. \A n \in I : f[n] \in seen /\ tx[f[n]].nonce = n
  OBVIOUS
<1>6. f \in [I -> seen]
  BY <1>5
<1>7. \E x, y \in I : x # y /\ f[x] = f[y]
  <2>1. Cardinality(seen) < Cardinality(I)
    BY <1>2, <1>3, <1>4
  <2> HIDE DEF I, f
  <2> QED
    BY <1>3, <1>4, <1>6, <2>1, FS_PigeonHole
<1> QED
  BY <1>5, <1>7

\* The answer is a number that no known transaction has, not below the nonce
\* of the account.
LEMMA PendingIsFree ==
  ASSUME TypeOK
  PROVE  /\ Pending \in Nat /\ Pending >= acct.nonce
         /\ Pending \notin {tx[q].nonce : q \in seen}
         /\ acct.nonce .. Pending - 1 \subseteq {tx[q].nonce : q \in seen}
<1> DEFINE taken == {tx[q].nonce : q \in seen}
           free  == {n \in acct.nonce .. acct.nonce + Cardinality(Run) : n \notin taken}
<1>1. acct.nonce \in Nat /\ Cardinality(Run) \in Nat
  BY WalletAssumption, FS_CardinalityType DEF TypeOK, Account
<1>2. free # {} /\ free \subseteq Nat
  BY FreeNonce, <1>1
<1>3. PICK n \in free : \A m \in free : ~(m < n)
  <2> HIDE DEF free
  <2>1. PICK n \in free : \A m \in free : ~(<<m, n>> \in OpToRel(<, Nat))
    BY <1>2, NatLessThanWellFounded, WFMin
  <2>2. \A m \in free : m < n => <<m, n>> \in OpToRel(<, Nat)
    BY <1>2, <2>1 DEF OpToRel
  <2> QED
    BY <2>1, <2>2
<1>4. n \notin taken /\ acct.nonce .. n - 1 \subseteq taken
  BY <1>1, <1>3
<1> HIDE DEF taken
<1>5. \E k \in acct.nonce .. acct.nonce + Cardinality(Run) :
        k \notin taken /\ acct.nonce .. k - 1 \subseteq taken
  BY <1>3, <1>4
<1>6. /\ Pending \in acct.nonce .. acct.nonce + Cardinality(Run)
      /\ Pending \notin taken /\ acct.nonce .. Pending - 1 \subseteq taken
  BY <1>5 DEF Pending, taken
<1> QED
  BY <1>1, <1>6 DEF taken

-----------------------------------------------------------------------------
LEMMA ConstantTypes ==
  /\ Stake \subseteq Nat \ {0} /\ NoKeys \notin Keys
  /\ MinBond \in Nat /\ Fee \in Nat /\ Deposit \in Nat /\ MaxIterations \in Nat
  BY WalletAssumption

\* nextStep answers with one of the four calls or with none, and the amount of
\* a lock is what is missing from the stake.
LEMMA NextStepType ==
  ASSUME NEW a \in Account, NEW x \in Args
  PROVE  /\ NextStep(a, x) \in Call \cup {"none"}
         /\ LockAmount(a, x) \in Nat
         /\ NextStep(a, x) = "lock" => a.active = 0 /\ a.pw < x.stake
         /\ NextStep(a, x) = "bond" => a.active = 0 /\ a.pw >= x.stake
         /\ NextStep(a, x) = "setKeys" => a.active > 0 /\ a.keys = NoKeys
         /\ NextStep(a, x) = "validate" => a.active > 0 /\ a.keys # NoKeys /\ ~a.intent
         /\ NextStep(a, x) = "none" => a.active > 0 /\ a.keys # NoKeys /\ a.intent
<1>1. /\ a.pw \in Nat /\ a.active \in Nat /\ x.stake \in Nat /\ a.intent \in BOOLEAN
  BY ConstantTypes DEF Account, Args
<1>2. CASE a.active = 0 /\ a.pw < x.stake
  <2>1. NextStep(a, x) = "lock"
    BY <1>1, <1>2 DEF NextStep
  <2> QED
    BY <1>1, <1>2, <2>1 DEF LockAmount, Call
<1>3. CASE a.active = 0 /\ a.pw >= x.stake
  <2>1. NextStep(a, x) = "bond"
    BY <1>1, <1>3 DEF NextStep
  <2> QED
    BY <1>1, <1>3, <2>1 DEF LockAmount, Call
<1>4. CASE a.active > 0 /\ a.keys = NoKeys
  <2>1. NextStep(a, x) = "setKeys"
    BY <1>1, <1>4 DEF NextStep
  <2> QED
    BY <1>1, <1>4, <2>1 DEF LockAmount, Call
<1>5. CASE a.active > 0 /\ a.keys # NoKeys /\ ~a.intent
  <2>1. NextStep(a, x) = "validate"
    BY <1>1, <1>5 DEF NextStep
  <2> QED
    BY <1>1, <1>5, <2>1 DEF LockAmount, Call
<1>6. CASE a.active > 0 /\ a.keys # NoKeys /\ a.intent
  <2>1. NextStep(a, x) = "none"
    BY <1>1, <1>6 DEF NextStep
  <2> QED
    BY <1>1, <1>6, <2>1 DEF LockAmount
<1> QED
  BY <1>1, <1>2, <1>3, <1>4, <1>5, <1>6

\* A call that the chain executes leaves a well-typed account, of which the
\* fee can be paid.
LEMMA EffectType ==
  ASSUME NEW a \in Account, NEW t \in Tx, NEW x \in Args, a.free >= Fee, Succeeds(a, t, x)
  PROVE  /\ Effect(a, t, x) \in Account
         /\ Effect(a, t, x).nonce = a.nonce
         /\ Effect(a, t, x).free >= Fee
<1>1. /\ a.pw \in Nat /\ a.free \in Nat /\ a.nonce \in Nat /\ t.amount \in Nat
      /\ x.stake \in Nat /\ x.keys \in Keys
  BY ConstantTypes DEF Account, Tx, Args
<1>2. CASE t.call = "lock"
  <2>1. a.free >= t.amount + Fee + Deposit
    BY <1>2 DEF Succeeds
  <2>2. Effect(a, t, x) = [a EXCEPT !.pw = @ + t.amount, !.free = @ - t.amount]
    BY <1>2 DEF Effect
  <2>3. a.free - t.amount \in Nat /\ a.free - t.amount >= Fee /\ a.pw + t.amount \in Nat
    BY <1>1, <2>1, ConstantTypes
  <2> QED
    BY <2>2, <2>3 DEF Account
<1>3. CASE t.call = "bond"
  <2>1. Effect(a, t, x) = [a EXCEPT !.active = x.stake]
    BY <1>3 DEF Effect
  <2> QED
    BY <1>1, <2>1 DEF Account
<1>4. CASE t.call = "setKeys"
  <2>1. Effect(a, t, x) = [a EXCEPT !.keys = x.keys]
    BY <1>4 DEF Effect
  <2> QED
    BY <1>1, <2>1 DEF Account
<1>5. CASE t.call \notin {"lock", "bond", "setKeys"}
  <2>1. Effect(a, t, x) = [a EXCEPT !.intent = TRUE]
    BY <1>5 DEF Effect
  <2> QED
    BY <1>1, <2>1 DEF Account
<1> QED
  BY <1>2, <1>3, <1>4, <1>5

\* A block that holds the transaction of run r leaves a well-typed account,
\* its nonce one higher.
LEMMA IncludeType ==
  ASSUME TypeOK, NEW r \in Run, Include(r)
  PROVE  acct' \in Account /\ acct'.nonce = acct.nonce + 1
<1> DEFINE done == IF Succeeds(acct, tx[r], args[r]) THEN Effect(acct, tx[r], args[r]) ELSE acct
<1>1. acct \in Account /\ tx[r] \in Tx /\ args[r] \in Args /\ acct.free >= Fee
  BY DEF TypeOK, Include
<1>2. done \in Account /\ done.nonce = acct.nonce /\ done.free >= Fee
  BY <1>1, EffectType
<1>3. acct' = [done EXCEPT !.nonce = acct.nonce + 1, !.free = @ - Fee]
  BY DEF Include
<1> HIDE DEF done
<1>4. done.free - Fee \in Nat /\ acct.nonce + 1 \in Nat
  BY <1>1, <1>2, ConstantTypes DEF Account
<1> QED
  BY <1>2, <1>3, <1>4 DEF Account

\* One step keeps the types, and the place of a run in its loop.
LEMMA TypeStep ==
  TypeOK /\ InLoop /\ [Next]_vars => TypeOK' /\ InLoop'
<1> SUFFICES ASSUME TypeOK, InLoop, [Next]_vars PROVE TypeOK' /\ InLoop'
  OBVIOUS
<1> USE DEF TypeOK, InLoop, Label, Result, past, chain, Goto, End
<1>1. CASE UNCHANGED vars
  BY <1>1 DEF vars
<1>2. CASE Forget
  BY <1>2 DEF Forget
<1>3. ASSUME NEW r \in Run, Start(r) PROVE TypeOK' /\ InLoop'
  BY <1>3 DEF Start
<1>4. ASSUME NEW r \in Run, Die(r) PROVE TypeOK' /\ InLoop'
  BY <1>4 DEF Die
<1>5. ASSUME NEW r \in Run, Chain(r) PROVE TypeOK' /\ InLoop'
  <2>1. CASE Include(r)
    <3>1. acct' \in Account
      BY <2>1, IncludeType
    <3> QED
      BY <2>1, <3>1 DEF Include
  <2>2. CASE Drop(r) \/ Return(r)
    BY <2>2 DEF Drop, Return
  <2> QED
    BY <1>5, <2>1, <2>2 DEF Chain
<1>6. ASSUME NEW r \in Run, Step(r) PROVE TypeOK' /\ InLoop'
  <2>1. CASE Check(r)
    <3>1. iter[r] # MaxIterations => iter[r] < MaxIterations
      BY ConstantTypes
    <3> QED
      BY <2>1, <3>1 DEF Check
  <2>2. CASE Read(r)
    BY <2>2 DEF Read
  <2>3. CASE CheckIndex(r)
    BY <2>3 DEF CheckIndex
  <2>4. CASE Decide(r)
    <3>1. view[r] \in Account /\ args[r] \in Args
      OBVIOUS
    <3>2. /\ NextStep(view[r], args[r]) \in Call \cup {"none"}
          /\ LockAmount(view[r], args[r]) \in Nat
      BY <3>1, NextStepType
    <3>3. [call |-> NextStep(view[r], args[r]), amount |-> LockAmount(view[r], args[r]),
           nonce |-> 0] \in Tx
      BY <3>2 DEF Tx
    <3>4. tx' \in [Run -> Tx]
      BY <2>4, <3>3 DEF Decide
    <3> QED
      BY <2>4, <3>4 DEF Decide
  <2>5. CASE Sign(r)
    <3>1. Pending \in Nat
      BY PendingIsFree
    <3>2. tx' \in [Run -> Tx]
      BY <2>5, <3>1 DEF Sign, Tx
    <3> QED
      BY <2>5, <3>2 DEF Sign
  <2>6. CASE Submit(r)
    BY <2>6 DEF Submit
  <2>7. CASE Finalized(r)
    <3>1. iter[r] < MaxIterations /\ iter[r] + 1 \in 0 .. MaxIterations
      BY <2>7, ConstantTypes DEF Finalized
    <3> QED
      BY <2>7, <3>1 DEF Finalized
  <2>8. CASE NotFinalized(r)
    BY <2>8 DEF NotFinalized
  <2> QED
    BY <1>6, <2>1, <2>2, <2>3, <2>4, <2>5, <2>6, <2>7, <2>8 DEF Step
<1> QED
  BY <1>1, <1>2, <1>3, <1>4, <1>5, <1>6 DEF Next

\* The program starts well typed.
LEMMA TypeInit == Init => TypeOK /\ InLoop
<1> SUFFICES ASSUME Init PROVE TypeOK /\ InLoop
  OBVIOUS
<1>1. acct \in Account
  <2>1. acct \in [nonce : {0}, free : Free, pw : Locked, active : Locked,
                  keys : Keys \cup {NoKeys}, intent : BOOLEAN]
    BY DEF Init
  <2>2. /\ acct.nonce \in {0} /\ acct.free \in Free /\ acct.pw \in Locked
        /\ acct.active \in Locked /\ acct.keys \in Keys \cup {NoKeys} /\ acct.intent \in BOOLEAN
        /\ acct = [nonce |-> acct.nonce, free |-> acct.free, pw |-> acct.pw,
                   active |-> acct.active, keys |-> acct.keys, intent |-> acct.intent]
    BY <2>1
  <2>3. acct.nonce \in Nat /\ acct.free \in Nat /\ acct.pw \in Nat /\ acct.active \in Nat
    BY <2>2, WalletAssumption
  <2> QED
    BY <2>2, <2>3 DEF Account
<1>2. NoTx \in Tx
  BY DEF NoTx, Tx
<1>3. MaxIterations \in Nat
  BY ConstantTypes
<1>4. /\ pc = [r \in Run |-> "idle"] /\ iter = [r \in Run |-> 0] /\ tx = [r \in Run |-> NoTx]
      /\ fate = [r \in Run |-> "none"] /\ result = [r \in Run |-> "none"]
      /\ view = [r \in Run |-> acct] /\ args \in [Run -> Args]
      /\ seen = {} /\ overlapped = FALSE /\ restarted = FALSE
  BY DEF Init
<1>5. InLoop
  BY <1>4 DEF InLoop
<1>6. /\ pc \in [Run -> Label] /\ iter \in [Run -> 0 .. MaxIterations]
      /\ fate \in [Run -> {"none", "live", "ok", "failed", "gone"}]
      /\ result \in [Run -> Result]
  BY <1>3, <1>4 DEF Label, Result
<1>7. tx \in [Run -> Tx] /\ view \in [Run -> Account]
  BY <1>1, <1>2, <1>4
<1> QED
  BY <1>1, <1>4, <1>5, <1>6, <1>7 DEF TypeOK

\* Every variable keeps its type, whatever goes wrong.
THEOREM TypeCorrect == Spec => []TypeOK
  BY TypeInit, TypeStep, PTL DEF Spec

-----------------------------------------------------------------------------
(* Runs that do not overlap, and a node that keeps its pool *)

\* Whether a call is due depends on the account, the command line and the call.
LEMMA DueFrame ==
  ASSUME NEW r \in Run, acct' = acct, args' = args, tx'[r] = tx[r], CallIsDue(r)
  PROVE  CallIsDue(r)'
  BY DEF CallIsDue

\* A run that is over has no say but for a transaction that is in flight.
LEMMA OverView ==
  ASSUME NEW r \in Run, Over(r), r \in Live => tx[r].nonce = acct.nonce /\ CallIsDue(r)
  PROVE  ViewIsCurrent(r)
  BY DEF Over, ViewIsCurrent

\* main() and finalized() keep the invariant.
LEMMA CleanRun ==
  ASSUME TypeOK, CleanInv, NEW r \in Run, Step(r) \/ Die(r), Clean'
  PROVE  CleanInv'
<1> USE DEF Goto, End, chain, past
<1>1. Clean /\ UNCHANGED <<past, acct, args>>
  BY DEF Clean, Step, Die, Check, Read, CheckIndex, Decide, Sign, Submit, Finalized, NotFinalized
<1>2. /\ OneAtATime /\ AloneInFlight /\ seen = Live /\ \A q \in Run : ViewIsCurrent(q)
  BY <1>1 DEF CleanInv
<1>3. /\ pc \in [Run -> Label] /\ tx \in [Run -> Tx] /\ view \in [Run -> Account]
      /\ args \in [Run -> Args] /\ DOMAIN fate = Run /\ acct \in Account
  BY DEF TypeOK
<1>4. ~Over(r)
  BY DEF Step, Die, Over, Check, Read, CheckIndex, Decide, Sign, Submit, Finalized, NotFinalized
<1>5. \A q \in Run \ {r} : Over(q)
  BY <1>2, <1>4 DEF OneAtATime
<1>6. \A q \in Run \ {r} : pc'[q] = pc[q] /\ tx'[q] = tx[q] /\ fate'[q] = fate[q]
  BY <1>3 DEF Step, Die, Check, Read, CheckIndex, Decide, Sign, Submit, Finalized, NotFinalized, TypeOK
<1>7. OneAtATime'
  BY <1>5, <1>6 DEF OneAtATime, Over
<1>8. \A q \in Run \ {r} : ViewIsCurrent(q)'
  <2> SUFFICES ASSUME NEW q \in Run \ {r} PROVE ViewIsCurrent(q)'
    OBVIOUS
  <2>1. Over(q)'
    BY <1>5, <1>6 DEF Over
  <2>2. q \in Live => tx[q].nonce = acct.nonce /\ CallIsDue(q)
    BY <1>2 DEF ViewIsCurrent
  <2>3. (q \in Live)' => q \in Live
    BY <1>6 DEF Live
  <2>4. CallIsDue(q) => CallIsDue(q)'
    BY <1>1, <1>6, DueFrame
  <2> QED
    BY <1>1, <1>6, <2>1, <2>2, <2>3, <2>4 DEF Over, ViewIsCurrent
<1>9. ASSUME Live' = Live, seen' = seen, ViewIsCurrent(r)' PROVE CleanInv'
  <2>1. AloneInFlight'
    BY <1>1, <1>2, <1>9 DEF AloneInFlight
  <2> QED
    BY <1>2, <1>7, <1>8, <1>9, <2>1 DEF CleanInv
<1>10. r \in Live => tx[r].nonce = acct.nonce /\ CallIsDue(r)
  BY <1>2 DEF ViewIsCurrent
<1>11. ASSUME tx' = tx, pc'[r] \notin {"index", "decide", "sign", "submit"}, Live' = Live,
              seen' = seen
       PROVE  CleanInv'
  <2>1. CallIsDue(r) => CallIsDue(r)'
    BY <1>1, <1>11, DueFrame
  <2> QED
    BY <1>1, <1>9, <1>10, <1>11, <2>1 DEF ViewIsCurrent
<1>12. CASE Check(r) \/ NotFinalized(r) \/ Die(r)
  <2>1. Live' = Live /\ seen' = seen /\ tx' = tx
    BY <1>12 DEF Check, NotFinalized, Die, Live
  <2>2. pc'[r] \in {"read", "ended"}
    BY <1>3, <1>12 DEF Check, NotFinalized, Die
  <2> QED
    BY <1>11, <2>1, <2>2
<1>13. CASE Finalized(r)
  <2>1. Live' = Live /\ seen' = seen /\ tx' = tx
    BY <1>3, <1>13 DEF Finalized, Live
  <2>2. pc'[r] = "check"
    BY <1>3, <1>13 DEF Finalized
  <2> QED
    BY <1>11, <2>1, <2>2
<1>14. CASE Read(r)
  <2>1. Live' = Live /\ seen' = seen /\ tx' = tx
    BY <1>14 DEF Read, Live
  <2>2. pc'[r] = "index" /\ view'[r] = acct
    BY <1>3, <1>14 DEF Read
  <2>3. acct.nonce \in Nat
    BY <1>3 DEF Account
  <2>4. CallIsDue(r) => CallIsDue(r)'
    BY <1>1, <2>1, DueFrame
  <2> QED
    BY <1>1, <1>9, <1>10, <2>1, <2>2, <2>3, <2>4 DEF ViewIsCurrent
<1>15. CASE CheckIndex(r)
  <2>1. Live' = Live /\ seen' = seen /\ tx' = tx /\ view' = view
    BY <1>15 DEF CheckIndex, Live
  <2>2. CASE pc'[r] = "ended"
    BY <1>11, <2>1, <2>2
  <2>3. CASE pc'[r] = "decide"
    <3>1. Pending = view[r].nonce
      BY <1>3, <1>15, <2>3 DEF CheckIndex
    <3>2. pc[r] = "index"
      BY <1>15 DEF CheckIndex
    <3>3. view[r].nonce = acct.nonce /\ view[r] = acct
      <4>1. view[r].nonce <= acct.nonce /\ (view[r].nonce = acct.nonce => view[r] = acct)
        BY <1>2, <3>2 DEF ViewIsCurrent
      <4>2. acct.nonce \in Nat /\ Pending \in Nat /\ Pending >= acct.nonce
        BY <1>3, PendingIsFree DEF Account
      <4> QED
        BY <3>1, <4>1, <4>2
    <3>4. Live = {}
      <4>1. \A q \in Live : tx[q].nonce = acct.nonce
        BY <1>2 DEF Live, ViewIsCurrent
      <4>2. Pending \notin {tx[q].nonce : q \in seen}
        BY PendingIsFree
      <4> QED
        BY <1>2, <3>1, <3>3, <4>1, <4>2
    <3> QED
      BY <1>1, <1>9, <2>1, <2>3, <3>3, <3>4 DEF ViewIsCurrent
  <2> QED
    BY <1>3, <1>15, <2>2, <2>3 DEF CheckIndex
<1>16. CASE Decide(r)
  <2>1. Live' = Live /\ seen' = seen /\ view' = view
    BY <1>16 DEF Decide, Live
  <2>2. Live = {} /\ view[r] = acct
    BY <1>2, <1>16 DEF Decide, ViewIsCurrent
  <2>3. CASE pc'[r] = "ended"
    BY <1>9, <2>1, <2>2, <2>3 DEF ViewIsCurrent
  <2>4. CASE pc'[r] = "sign"
    <3>1. CallIsDue(r)'
      <4>1. /\ args[r].execute /\ args[r].stake >= MinBond /\ ~Conflict(acct, args[r])
            /\ NextStep(acct, args[r]) # "none" /\ Affordable(acct, args[r])
            /\ tx'[r] = [call |-> NextStep(acct, args[r]),
                         amount |-> LockAmount(acct, args[r]), nonce |-> 0]
        BY <1>3, <1>16, <2>2, <2>4 DEF Decide
      <4> QED
        BY <1>1, <4>1 DEF CallIsDue
    <3> QED
      BY <1>1, <1>9, <2>1, <2>2, <2>4, <3>1 DEF ViewIsCurrent
  <2> QED
    BY <1>3, <1>16, <2>3, <2>4 DEF Decide
<1>17. CASE Sign(r)
  <2>1. Live' = Live /\ seen' = seen /\ view' = view /\ pc'[r] = "submit"
    BY <1>3, <1>17 DEF Sign, Live
  <2>2. Live = {} /\ view[r] = acct /\ CallIsDue(r)
    BY <1>2, <1>17 DEF Sign, ViewIsCurrent
  <2>3. Pending = acct.nonce
    <3>1. acct.nonce \in Nat /\ Pending \in Nat /\ Pending >= acct.nonce
          /\ acct.nonce .. Pending - 1 \subseteq {tx[q].nonce : q \in seen}
      BY <1>3, PendingIsFree DEF Account
    <3>2. acct.nonce .. Pending - 1 = {}
      BY <1>2, <2>2, <3>1
    <3> QED
      BY <3>1, <3>2
  <2>4. tx'[r] = [tx[r] EXCEPT !.nonce = acct.nonce]
    BY <1>3, <1>17, <2>3 DEF Sign
  <2>5. tx'[r].nonce = acct.nonce /\ tx'[r].call = tx[r].call /\ tx'[r].amount = tx[r].amount
    BY <1>3, <2>4 DEF Tx
  <2>6. CallIsDue(r)'
    BY <1>1, <2>2, <2>5 DEF CallIsDue
  <2> QED
    BY <1>1, <1>9, <2>1, <2>2, <2>5, <2>6 DEF ViewIsCurrent
<1>18. CASE Submit(r)
  <2>1. Live = {} /\ CallIsDue(r) /\ tx[r].nonce = acct.nonce /\ tx' = tx
    BY <1>2, <1>18 DEF Submit, ViewIsCurrent
  <2>2. pc'[r] \in {"wait", "ended"}
    BY <1>3, <1>18 DEF Submit
  <2>3. CASE UNCHANGED <<seen, fate>>
    <3>1. Live' = Live
      BY <2>3 DEF Live
    <3> QED
      BY <1>11, <2>1, <2>2, <2>3, <3>1
  <2>4. CASE seen' = seen \cup {r} /\ fate' = [fate EXCEPT ![r] = "live"]
    <3>1. Live' = {r} /\ seen' = Live'
      BY <1>2, <1>3, <2>1, <2>4 DEF Live
    <3>2. CallIsDue(r)'
      BY <1>1, <2>1, DueFrame
    <3>3. ViewIsCurrent(r)'
      BY <1>1, <2>1, <2>2, <3>2 DEF ViewIsCurrent
    <3>4. AloneInFlight'
      BY <3>1 DEF AloneInFlight
    <3> QED
      BY <1>7, <1>8, <3>1, <3>3, <3>4 DEF CleanInv
  <2> QED
    BY <1>18, <2>3, <2>4 DEF Submit
<1> QED
  BY <1>12, <1>13, <1>14, <1>15, <1>16, <1>17, <1>18 DEF Step

\* The chain and the pool of the node keep it: finality or loss of the one
\* transaction in flight leaves none.
LEMMA CleanChain ==
  ASSUME TypeOK, CleanInv, NEW r \in Run, Chain(r), Clean'
  PROVE  CleanInv'
<1>1. Clean /\ UNCHANGED <<past, pc, args, view, iter, tx, result>>
  BY DEF Clean, past, Chain, Include, Drop, Return
<1>2. /\ OneAtATime /\ AloneInFlight /\ seen = Live /\ \A q \in Run : ViewIsCurrent(q)
  BY <1>1 DEF CleanInv
<1>3. DOMAIN fate = Run /\ acct \in Account
  BY DEF TypeOK
<1>4. r \in Live
  BY DEF Chain, Include, Drop, Return, Live
<1>5. Live = {r}
  BY <1>1, <1>2, <1>4 DEF AloneInFlight, Live
<1>6. ~Return(r)
  BY <1>2, <1>4 DEF Return
<1>7. Live' = {} /\ seen' = {}
  <2>1. CASE Include(r)
    <3>1. \A q \in Run : fate'[q] = "live" => q # r /\ fate[q] = "live"
      BY <2>1 DEF Include
    <3>2. seen' \subseteq seen \ {r}
      BY <2>1 DEF Include
    <3> QED
      BY <1>2, <1>5, <3>1, <3>2 DEF Live
  <2>2. CASE Drop(r)
    BY <1>2, <1>3, <1>5, <2>2 DEF Drop, Live
  <2> QED
    BY <1>6, <2>1, <2>2 DEF Chain
<1>8. \A q \in Run : pc[q] \notin {"decide", "sign", "submit"}
  BY <1>2, <1>4 DEF ViewIsCurrent
<1>9. acct' = acct \/ acct'.nonce = acct.nonce + 1
  BY <1>6, IncludeType DEF Chain, Drop
<1>10. ASSUME NEW q \in Run PROVE ViewIsCurrent(q)'
  <2>1. pc[q] = "index" => view[q].nonce <= acct.nonce
                            /\ (view[q].nonce = acct.nonce => view[q] = acct)
    BY <1>2 DEF ViewIsCurrent
  <2>2. view[q].nonce \in Nat /\ acct.nonce \in Nat
    BY DEF TypeOK, Account
  <2>3. pc[q] = "index" => view[q].nonce <= acct'.nonce
                            /\ (view[q].nonce = acct'.nonce => view[q] = acct')
    BY <1>9, <2>1, <2>2
  <2> QED
    BY <1>1, <1>7, <1>8, <2>3 DEF ViewIsCurrent
<1>11. OneAtATime' /\ AloneInFlight'
  BY <1>1, <1>2, <1>7 DEF OneAtATime, AloneInFlight, Over
<1> QED
  BY <1>7, <1>10, <1>11 DEF CleanInv

\* One step keeps the invariant.
LEMMA CleanStep ==
  TypeOK /\ CleanInv /\ [Next]_vars => CleanInv'
<1> SUFFICES ASSUME TypeOK, CleanInv, [Next]_vars, Clean' PROVE CleanInv'
  BY DEF CleanInv
<1>1. CASE UNCHANGED vars
  <2>1. UNCHANGED Live /\ \A r \in Run : ViewIsCurrent(r)' = ViewIsCurrent(r)
    BY <1>1 DEF vars, Live, ViewIsCurrent, CallIsDue
  <2> QED
    BY <1>1, <2>1 DEF vars, CleanInv, Clean, OneAtATime, AloneInFlight, Over
<1>2. CASE Forget
  BY <1>2 DEF Forget, Clean
<1>3. ASSUME NEW r \in Run, Start(r) PROVE CleanInv'
  <2>1. Clean /\ UNCHANGED <<chain, args, view, iter, tx, result>> /\ Live' = Live
    BY <1>3 DEF Start, Clean, chain, Live
  <2>2. \A q \in Run : Over(q)
    BY <1>3 DEF Start, Clean
  <2>3. /\ AloneInFlight /\ seen = Live /\ \A q \in Run : ViewIsCurrent(q)
    BY <2>1 DEF CleanInv
  <2>4. \A q \in Run : pc'[q] = IF q = r THEN "check" ELSE pc[q]
    BY <1>3 DEF Start, Goto, TypeOK
  <2>5. ASSUME NEW q \in Run PROVE ViewIsCurrent(q)'
    <3>1. q \in Live => tx[q].nonce = acct.nonce /\ CallIsDue(q)
      BY <2>3 DEF ViewIsCurrent
    <3>2. CallIsDue(q) => CallIsDue(q)'
      BY <2>1, DueFrame DEF chain
    <3>3. pc'[q] \in {"idle", "check", "ended"}
      BY <2>2, <2>4 DEF Over
    <3> QED
      BY <2>1, <3>1, <3>2, <3>3 DEF ViewIsCurrent, chain
  <2> QED
    BY <2>1, <2>2, <2>3, <2>4, <2>5 DEF CleanInv, OneAtATime, AloneInFlight, Over, chain
<1> QED
  BY <1>1, <1>2, <1>3, CleanRun, CleanChain DEF Next

\* A call that is due and finalized is the one that was missing, and the runtime
\* executes it.
LEMMA DueSucceeds ==
  ASSUME TypeOK, NEW r \in Run, Include(r), CallIsDue(r)
  PROVE  /\ args[r].execute /\ tx[r].call \in Call
         /\ tx[r].call = "lock" => /\ acct.active = 0 /\ acct.pw < args[r].stake
                                  /\ tx[r].amount = args[r].stake - acct.pw
                                  /\ acct.free >= Deposit + 2 * Fee + tx[r].amount
         /\ tx[r].call = "bond" => acct.active = 0 /\ acct.pw >= args[r].stake
         /\ tx[r].call = "setKeys" => acct.active > 0 /\ acct.keys = NoKeys
         /\ tx[r].call = "validate" =>
              acct.active > 0 /\ acct.keys # NoKeys /\ ~acct.intent
         /\ acct.free >= Deposit + 2 * Fee
         /\ Succeeds(acct, tx[r], args[r])
         /\ Effect(acct, tx[r], args[r]) \in Account
         /\ acct' = [Effect(acct, tx[r], args[r]) EXCEPT !.nonce = acct.nonce + 1,
                                                       !.free = @ - Fee]
<1> DEFINE a == acct
           x == args[r]
           t == tx[r]
<1>1. a \in Account /\ x \in Args /\ t \in Tx
  BY DEF TypeOK
<1>2. /\ a.pw \in Nat /\ a.free \in Nat /\ a.active \in Nat /\ x.stake \in Nat \ {0}
      /\ x.keys \in Keys /\ a.intent \in BOOLEAN /\ t.amount \in Nat
  BY <1>1, ConstantTypes DEF Account, Args, Tx
<1>3. /\ x.execute /\ x.stake >= MinBond /\ a.active \notin 1 .. x.stake - 1
      /\ t.call = NextStep(a, x) /\ t.call # "none" /\ t.amount = LockAmount(a, x)
      /\ a.free >= Deposit + 2 * Fee + LockAmount(a, x)
  BY DEF CallIsDue, Conflict, Affordable
<1>4. /\ t.call \in Call
      /\ t.call = "lock" => a.active = 0 /\ a.pw < x.stake /\ t.amount = x.stake - a.pw
      /\ t.call = "bond" => a.active = 0 /\ a.pw >= x.stake
      /\ t.call = "setKeys" => a.active > 0 /\ a.keys = NoKeys
      /\ t.call = "validate" => a.active > 0 /\ a.keys # NoKeys /\ ~a.intent
  BY <1>1, <1>3, NextStepType DEF LockAmount
<1> HIDE DEF a, x, t
<1>5. a.free >= Deposit + 2 * Fee /\ a.free >= Deposit + 2 * Fee + t.amount
  BY <1>2, <1>3, ConstantTypes
<1>6. Succeeds(a, t, x)
  <2>1. CASE t.call = "lock"
    <3>1. a.free >= t.amount + Fee + Deposit
      BY <1>2, <1>5, ConstantTypes
    <3> QED
      BY <2>1, <3>1 DEF Succeeds
  <2>2. CASE t.call = "bond"
    BY <1>2, <1>3, <1>4, <2>2 DEF Succeeds
  <2>3. CASE t.call \in {"setKeys", "validate"}
    <3>1. a.active > 0 /\ a.active >= MinBond
      BY <1>2, <1>3, <1>4, <2>3, ConstantTypes
    <3> QED
      BY <2>3, <3>1 DEF Succeeds
  <2> QED
    BY <1>4, <2>1, <2>2, <2>3 DEF Call
<1>7. acct' = [Effect(a, t, x) EXCEPT !.nonce = a.nonce + 1, !.free = @ - Fee]
  BY <1>6 DEF Include, a, x, t
<1>8. Effect(a, t, x) \in Account
  BY <1>1, <1>6, EffectType DEF Include, a
<1> QED
  BY <1>3, <1>4, <1>5, <1>6, <1>7, <1>8 DEF a, x, t

\* Its effect is the account's next stage.
LEMMA DueEffect ==
  ASSUME TypeOK, NEW r \in Run, Include(r), CallIsDue(r)
  PROVE  /\ tx[r].call = "lock" => acct'.pw = args[r].stake /\ acct'.pw # acct.pw
         /\ tx[r].call # "lock" => acct'.pw = acct.pw
         /\ tx[r].call = "bond" => acct'.active # acct.active
         /\ tx[r].call = "setKeys" => acct.keys = NoKeys /\ acct'.keys # NoKeys
         /\ tx[r].call # "setKeys" => acct'.keys = acct.keys
         /\ tx[r].call = "validate" => acct'.intent # acct.intent
         /\ tx[r].call \in Call /\ args[r].execute
<1> DEFINE a == acct
           x == args[r]
           t == tx[r]
<1>1. a \in Account /\ x \in Args /\ t \in Tx
  BY DEF TypeOK
<1>2. /\ a.pw \in Nat /\ a.active \in Nat /\ x.stake \in Nat \ {0}
      /\ x.keys \in Keys /\ a.intent \in BOOLEAN /\ t.amount \in Nat
  BY <1>1, ConstantTypes DEF Account, Args, Tx
<1>3. /\ x.execute /\ t.call \in Call
      /\ t.call = "lock" => a.active = 0 /\ a.pw < x.stake /\ t.amount = x.stake - a.pw
      /\ t.call = "bond" => a.active = 0
      /\ t.call = "setKeys" => a.keys = NoKeys
      /\ t.call = "validate" => ~a.intent
  BY DueSucceeds
<1>4. /\ acct' = [Effect(a, t, x) EXCEPT !.nonce = a.nonce + 1, !.free = @ - Fee]
      /\ Effect(a, t, x) \in Account
  BY DueSucceeds
<1> HIDE DEF a, x, t
<1>5. /\ acct'.pw = Effect(a, t, x).pw /\ acct'.active = Effect(a, t, x).active
      /\ acct'.keys = Effect(a, t, x).keys /\ acct'.intent = Effect(a, t, x).intent
  BY <1>4 DEF Account
<1>6. CASE t.call = "lock"
  <2>1. Effect(a, t, x) = [a EXCEPT !.pw = @ + t.amount, !.free = @ - t.amount]
    BY <1>6 DEF Effect
  <2>2. Effect(a, t, x).pw = a.pw + t.amount /\ Effect(a, t, x).keys = a.keys
    BY <1>1, <2>1 DEF Account
  <2>3. a.pw + t.amount = x.stake /\ x.stake # a.pw
    BY <1>2, <1>3, <1>6
  <2> QED
    BY <1>3, <1>5, <1>6, <2>2, <2>3 DEF a, x, t
<1>7. CASE t.call = "bond"
  <2>1. Effect(a, t, x) = [a EXCEPT !.active = x.stake]
    BY <1>7 DEF Effect
  <2>2. /\ Effect(a, t, x).active = x.stake /\ Effect(a, t, x).keys = a.keys
        /\ Effect(a, t, x).pw = a.pw
    BY <1>1, <2>1 DEF Account
  <2> QED
    BY <1>2, <1>3, <1>5, <1>7, <2>2 DEF a, x, t
<1>8. CASE t.call = "setKeys"
  <2>1. Effect(a, t, x) = [a EXCEPT !.keys = x.keys]
    BY <1>8 DEF Effect
  <2>2. Effect(a, t, x).keys = x.keys /\ Effect(a, t, x).pw = a.pw
    BY <1>1, <2>1 DEF Account
  <2>3. x.keys # NoKeys
    BY <1>2, ConstantTypes
  <2> QED
    BY <1>3, <1>5, <1>8, <2>2, <2>3 DEF a, x, t
<1>9. CASE t.call = "validate"
  <2>1. Effect(a, t, x) = [a EXCEPT !.intent = TRUE]
    BY <1>9 DEF Effect
  <2>2. /\ Effect(a, t, x).intent = TRUE /\ Effect(a, t, x).keys = a.keys
        /\ Effect(a, t, x).pw = a.pw
    BY <1>1, <2>1 DEF Account
  <2> QED
    BY <1>3, <1>5, <1>9, <2>2 DEF a, x, t
<1> QED
  BY <1>3, <1>6, <1>7, <1>8, <1>9 DEF Call, t

\* Only the finality of a call changes the account.
LEMMA AccountStep ==
  ASSUME [Next]_vars, acct' # acct
  PROVE  \E r \in Run : Include(r)
<1>1. \A r \in Run : ~Start(r) /\ ~Step(r) /\ ~Die(r) /\ ~Drop(r) /\ ~Return(r)
  BY DEF Start, Step, Die, Drop, Return, Check, Read, CheckIndex, Decide, Sign, Submit,
     Finalized, NotFinalized, chain
<1> QED
  BY <1>1 DEF Next, vars, Forget, Chain

\* What becomes of the account is what the invariant says is due.
LEMMA AccountChange ==
  ASSUME WalletInv, [Next]_vars, Clean', acct' # acct
  PROVE  \E r \in Run : Include(r) /\ CallIsDue(r)
<1>1. PICK r \in Run : Include(r)
  BY AccountStep
<1>2. CleanInv /\ Clean /\ r \in Live
  BY <1>1 DEF WalletInv, Include, Clean, past, Live
<1> QED
  BY <1>1, <1>2 DEF CleanInv, ViewIsCurrent

-----------------------------------------------------------------------------
(* The loop, with whatever overlap and faults *)

\* The stage of an account is the rank of the call that it needs next.
LEMMA StageType ==
  ASSUME NEW a \in Account, NEW x \in Args
  PROVE  /\ Stage(a, x) \in 0 .. 4
         /\ Stage(a, x) = 0 <=> a.active = 0 /\ a.pw < x.stake
         /\ Stage(a, x) = 1 <=> a.active = 0 /\ a.pw >= x.stake
         /\ Stage(a, x) = 2 <=> a.active > 0 /\ a.keys = NoKeys
         /\ Stage(a, x) = 3 <=> a.active > 0 /\ a.keys # NoKeys /\ ~a.intent
         /\ Stage(a, x) = 4 <=> a.active > 0 /\ a.keys # NoKeys /\ a.intent
<1>1. a.active \in Nat /\ a.pw \in Nat /\ x.stake \in Nat /\ a.intent \in BOOLEAN
  BY ConstantTypes DEF Account, Args
<1>2. /\ Rank["lock"] = 0 /\ Rank["bond"] = 1 /\ Rank["setKeys"] = 2
      /\ Rank["validate"] = 3 /\ Rank["none"] = 4
  BY DEF Rank
<1> QED
  BY <1>1, <1>2, NextStepType DEF Stage, Call

\* An account that grows needs no earlier call again.
LEMMA GrowsStage ==
  ASSUME NEW a \in Account, NEW b \in Account, NEW x \in Args, Grows(a, b)
  PROVE  Stage(a, x) <= Stage(b, x)
<1>1. /\ a.active \in Nat /\ a.pw \in Nat /\ a.intent \in BOOLEAN
      /\ b.active \in Nat /\ b.pw \in Nat /\ b.intent \in BOOLEAN /\ x.stake \in Nat
  BY ConstantTypes DEF Account, Args
<1>2. /\ a.pw <= b.pw /\ (a.active > 0 => b.active = a.active)
      /\ (a.keys # NoKeys => b.keys # NoKeys) /\ (a.intent => b.intent)
  BY DEF Grows
<1>3. Stage(a, x) \in 0 .. 4 /\ Stage(b, x) \in 0 .. 4
  BY StageType
<1>4. CASE a.active = 0
  <2>1. Stage(a, x) <= 1 /\ (Stage(a, x) = 1 <=> a.pw >= x.stake)
    BY <1>1, <1>4, StageType
  <2>2. Stage(b, x) = 0 <=> b.active = 0 /\ b.pw < x.stake
    BY StageType
  <2> QED
    BY <1>1, <1>2, <1>3, <2>1, <2>2
<1>5. CASE a.active > 0
  <2>1. b.active > 0
    BY <1>2, <1>5
  <2> QED
    BY <1>1, <1>2, <1>3, <1>5, <2>1, StageType
<1> QED
  BY <1>1, <1>4, <1>5

LEMMA GrowsTransitive ==
  ASSUME NEW a \in Account, NEW b \in Account, NEW c \in Account, Grows(a, b), Grows(b, c)
  PROVE  Grows(a, c)
<1>1. /\ a.active \in Nat /\ a.pw \in Nat /\ b.active \in Nat /\ b.pw \in Nat
      /\ c.active \in Nat /\ c.pw \in Nat
  BY DEF Account
<1> QED
  BY <1>1 DEF Grows

\* A call that is finalized makes the account grow, and one that also succeeds
\* leaves it where the call would not be needed.
LEMMA IncludeGrows ==
  ASSUME TypeOK, NEW r \in Run, Include(r)
  PROVE  /\ Grows(acct, acct')
         /\ acct'.keys # acct.keys => acct'.keys = args[r].keys
         /\ fate'[r] = "ok" =>
              /\ tx[r].call = "lock" => acct'.pw = acct.pw + tx[r].amount
              /\ tx[r].call = "bond" => acct'.active > 0
              /\ tx[r].call = "setKeys" => acct'.active > 0 /\ acct'.keys # NoKeys
              /\ tx[r].call \notin {"lock", "bond", "setKeys"} =>
                   acct'.active > 0 /\ acct'.keys = acct.keys /\ acct'.intent
<1> DEFINE a == acct
           x == args[r]
           t == tx[r]
           ok == Succeeds(a, t, x)
           done == IF ok THEN Effect(a, t, x) ELSE a
<1>1. a \in Account /\ x \in Args /\ t \in Tx /\ a.free >= Fee
  BY DEF TypeOK, Include
<1>2. /\ a.pw \in Nat /\ a.active \in Nat /\ x.stake \in Nat \ {0} /\ t.amount \in Nat
      /\ x.keys \in Keys /\ x.keys # NoKeys /\ a.intent \in BOOLEAN
  BY <1>1, ConstantTypes DEF Account, Args, Tx
<1>3. done \in Account
  BY <1>1, EffectType
<1>4. acct' = [done EXCEPT !.nonce = a.nonce + 1, !.free = @ - Fee]
  BY DEF Include
<1>5. fate'[r] = "ok" => ok
  BY DEF Include, TypeOK
<1> HIDE DEF a, x, t, ok, done
<1>6. /\ acct'.pw = done.pw /\ acct'.active = done.active
      /\ acct'.keys = done.keys /\ acct'.intent = done.intent
  BY <1>3, <1>4 DEF Account
<1> DEFINE Goal ==
      /\ Grows(a, done)
      /\ done.keys # a.keys => done.keys = x.keys
      /\ ok =>
           /\ t.call = "lock" => done.pw = a.pw + t.amount
           /\ t.call = "bond" => done.active > 0
           /\ t.call = "setKeys" => done.active > 0 /\ done.keys # NoKeys
           /\ t.call \notin {"lock", "bond", "setKeys"} =>
                done.active > 0 /\ done.keys = a.keys /\ done.intent
<1>7. SUFFICES Goal
  <2>1. Grows(a, done) => Grows(a, acct')
    BY <1>6 DEF Grows
  <2> QED
    BY <1>5, <1>6, <2>1 DEF a, x, t
<1>8. CASE ~ok
  BY <1>2, <1>8 DEF Grows, done
<1>9. CASE ok /\ t.call = "lock"
  <2>1. done = [a EXCEPT !.pw = @ + t.amount, !.free = @ - t.amount]
    BY <1>9 DEF Effect, done
  <2>2. /\ done.pw = a.pw + t.amount /\ done.active = a.active
        /\ done.keys = a.keys /\ done.intent = a.intent
    BY <1>1, <2>1 DEF Account
  <2> QED
    BY <1>2, <1>9, <2>2 DEF Grows
<1>10. CASE ok /\ t.call = "bond"
  <2>1. done = [a EXCEPT !.active = x.stake] /\ a.active = 0
    BY <1>10 DEF Effect, Succeeds, done, ok
  <2>2. /\ done.pw = a.pw /\ done.active = x.stake
        /\ done.keys = a.keys /\ done.intent = a.intent
    BY <1>1, <2>1 DEF Account
  <2> QED
    BY <1>2, <1>10, <2>1, <2>2 DEF Grows
<1>11. CASE ok /\ t.call = "setKeys"
  <2>1. done = [a EXCEPT !.keys = x.keys] /\ a.active > 0
    BY <1>11 DEF Effect, Succeeds, done, ok
  <2>2. /\ done.pw = a.pw /\ done.active = a.active
        /\ done.keys = x.keys /\ done.intent = a.intent
    BY <1>1, <2>1 DEF Account
  <2> QED
    BY <1>2, <1>11, <2>1, <2>2 DEF Grows
<1>12. CASE ok /\ t.call \notin {"lock", "bond", "setKeys"}
  <2>1. done = [a EXCEPT !.intent = TRUE] /\ a.active > 0
    BY <1>12 DEF Effect, Succeeds, done, ok
  <2>2. /\ done.pw = a.pw /\ done.active = a.active
        /\ done.keys = a.keys /\ done.intent = TRUE
    BY <1>1, <2>1 DEF Account
  <2> QED
    BY <1>2, <1>12, <2>1, <2>2 DEF Grows
<1> QED
  BY <1>8, <1>9, <1>10, <1>11, <1>12

\* What a step leaves alone, but for the place in the loop.
LEMMA ProgressFrame ==
  ASSUME NEW r \in Run, Progress(r),
         acct' = acct, args' = args, view'[r] = view[r], iter'[r] = iter[r],
         tx'[r].call = tx[r].call, tx'[r].amount = tx[r].amount,
         \/ pc'[r] \in {pc[r], "check", "read", "ended"}
         \/ pc[r] = "index" /\ pc'[r] = "decide"
         \/ pc[r] = "sign" /\ pc'[r] = "submit"
         \/ pc[r] = "submit" /\ pc'[r] = "wait" /\ fate'[r] # "ok",
         pc'[r] = "wait" /\ pc[r] = "wait" => (fate'[r] = "ok" => fate[r] = "ok"),
         result'[r] = "diverged" => result[r] = "diverged" \/ iter[r] = MaxIterations
  PROVE  Progress(r)'
  BY DEF Progress

\* The call that succeeds takes the account beyond it.
LEMMA OwnCall ==
  ASSUME TypeOK, NEW r \in Run, Include(r), Progress(r), pc[r] = "wait", fate'[r] = "ok"
  PROVE  Rank[tx[r].call] < Stage(acct', args[r])
<1> DEFINE v == view[r]
           x == args[r]
           b == acct'
<1>1. v \in Account /\ x \in Args /\ b \in Account /\ acct \in Account
  BY IncludeType DEF TypeOK
<1>2. /\ v.pw \in Nat /\ v.active \in Nat /\ x.stake \in Nat /\ b.active \in Nat
      /\ b.pw \in Nat /\ acct.pw \in Nat /\ b.intent \in BOOLEAN
  BY <1>1, ConstantTypes DEF Account, Args
<1>3. /\ tx[r].call = NextStep(v, x) /\ tx[r].call # "none" /\ tx[r].amount = LockAmount(v, x)
      /\ v.pw <= acct.pw /\ (v.keys # NoKeys => acct.keys # NoKeys)
  BY DEF Progress, Grows
<1>4. /\ tx[r].call = "lock" => b.pw = acct.pw + tx[r].amount
      /\ tx[r].call = "bond" => b.active > 0
      /\ tx[r].call = "setKeys" => b.active > 0 /\ b.keys # NoKeys
      /\ tx[r].call \notin {"lock", "bond", "setKeys"} =>
           b.active > 0 /\ b.keys = acct.keys /\ b.intent
  BY IncludeGrows
<1>5. /\ tx[r].call \in Call
      /\ tx[r].call = "lock" => tx[r].amount = x.stake - v.pw
      /\ tx[r].call = "validate" => v.keys # NoKeys
  BY <1>1, <1>3, NextStepType DEF LockAmount
<1> HIDE DEF v, x, b
<1>6. /\ Rank["lock"] = 0 /\ Rank["bond"] = 1 /\ Rank["setKeys"] = 2 /\ Rank["validate"] = 3
  BY DEF Rank
<1>7. Stage(b, x) \in 0 .. 4
  BY <1>1, StageType
<1>8. CASE tx[r].call = "lock"
  <2>1. b.pw >= x.stake
    BY <1>2, <1>3, <1>4, <1>5, <1>8
  <2>2. Stage(b, x) # 0
    BY <1>1, <1>2, <2>1, StageType
  <2> QED
    BY <1>6, <1>7, <1>8, <2>2 DEF b, x
<1>9. CASE tx[r].call = "bond"
  <2>1. Stage(b, x) \notin {0, 1}
    BY <1>1, <1>2, <1>4, <1>9, StageType
  <2> QED
    BY <1>6, <1>7, <1>9, <2>1 DEF b, x
<1>10. CASE tx[r].call = "setKeys"
  <2>1. Stage(b, x) \notin {0, 1, 2}
    BY <1>1, <1>2, <1>4, <1>10, StageType
  <2> QED
    BY <1>6, <1>7, <1>10, <2>1 DEF b, x
<1>11. CASE tx[r].call = "validate"
  <2>1. Stage(b, x) \notin {0, 1, 2, 3}
    BY <1>1, <1>2, <1>3, <1>4, <1>5, <1>11, StageType
  <2> QED
    BY <1>6, <1>7, <1>11, <2>1 DEF b, x
<1> QED
  BY <1>5, <1>8, <1>9, <1>10, <1>11 DEF Call

\* One step keeps every run's progress.
LEMMA ProgressStep ==
  ASSUME TypeOK, InLoop, NEW r \in Run, Progress(r), [Next]_vars
  PROVE  Progress(r)'
<1>1. /\ pc \in [Run -> Label] /\ tx \in [Run -> Tx] /\ view \in [Run -> Account]
      /\ args \in [Run -> Args] /\ acct \in Account /\ iter \in [Run -> 0 .. MaxIterations]
      /\ fate \in [Run -> {"none", "live", "ok", "failed", "gone"}]
      /\ result \in [Run -> Result]
  BY DEF TypeOK
<1> USE DEF Goto, End, chain, past
<1>2. CASE UNCHANGED vars \/ Forget
  BY <1>2, ProgressFrame DEF vars, Forget
<1>3. ASSUME NEW q \in Run, Start(q) \/ Die(q) PROVE Progress(r)'
  BY <1>1, <1>3, ProgressFrame DEF Start, Die
<1>4. ASSUME NEW q \in Run, Chain(q) PROVE Progress(r)'
  <2>1. CASE Drop(q) \/ Return(q)
    BY <1>1, <2>1, ProgressFrame DEF Drop, Return
  <2>2. CASE Include(q)
    <3>1. UNCHANGED <<pc, args, view, iter, tx, result>> /\ acct' \in Account
      BY <2>2, IncludeType DEF Include
    <3>2. Grows(acct, acct')
      BY <2>2, IncludeGrows
    <3>3. Grows(view[r], acct')
      BY <1>1, <3>1, <3>2, GrowsTransitive DEF Progress
    <3>4. Stage(acct, args[r]) \in 0 .. 4 /\ Stage(acct', args[r]) \in 0 .. 4
          /\ Stage(acct, args[r]) <= Stage(acct', args[r])
      BY <1>1, <3>1, <3>2, StageType, GrowsStage
    <3>5. iter[r] <= Stage(acct', args[r])
      <4>1. iter[r] <= Stage(acct, args[r]) /\ iter[r] \in Nat
        BY <1>1, ConstantTypes DEF Progress
      <4> QED
        BY <3>4, <4>1
    <3>6. ASSUME pc[r] = "wait", fate'[r] = "ok"
          PROVE  Rank[tx[r].call] < Stage(acct', args[r])
      <4>1. CASE q = r
        BY <2>2, <3>6, <4>1, OwnCall
      <4>2. CASE q # r
        <5>1. fate[r] = "ok"
          BY <1>1, <2>2, <3>6, <4>2 DEF Include
        <5>2. Rank[tx[r].call] < Stage(acct, args[r])
          BY <3>6, <5>1 DEF Progress
        <5>3. Rank[tx[r].call] \in Nat
          <6>1. tx[r].call \in Call \cup {"none"}
            BY <1>1 DEF Tx
          <6> QED
            BY <6>1 DEF Call, Rank
        <5> QED
          BY <3>4, <5>2, <5>3
      <4> QED
        BY <4>1, <4>2
    <3> QED
      BY <3>1, <3>3, <3>5, <3>6 DEF Progress
  <2> QED
    BY <1>4, <2>1, <2>2 DEF Chain
<1>5. ASSUME NEW q \in Run \ {r}, Step(q) PROVE Progress(r)'
  <2>1. /\ UNCHANGED <<acct, args>>
        /\ pc'[r] = pc[r] /\ view'[r] = view[r] /\ iter'[r] = iter[r] /\ tx'[r] = tx[r]
        /\ fate'[r] = fate[r] /\ result'[r] = result[r]
    BY <1>1, <1>5 DEF Step, Check, Read, CheckIndex, Decide, Sign, Submit, Finalized, NotFinalized
  <2> QED
    BY <2>1, ProgressFrame
<1>6. ASSUME Step(r) PROVE Progress(r)'
  <2>1. CASE Check(r)
    BY <1>1, <2>1, ProgressFrame DEF Check
  <2>2. CASE CheckIndex(r) \/ NotFinalized(r)
    BY <1>1, <2>2, ProgressFrame DEF CheckIndex, NotFinalized
  <2>3. CASE Sign(r)
    <3>1. tx'[r].call = tx[r].call /\ tx'[r].amount = tx[r].amount
      BY <1>1, <2>3 DEF Sign, Tx
    <3> QED
      BY <1>1, <2>3, <3>1, ProgressFrame DEF Sign
  <2>4. CASE Submit(r)
    <3>1. /\ UNCHANGED <<acct, args, view, iter, tx>> /\ pc[r] = "submit"
          /\ pc'[r] \in {"ended", "wait"} /\ (pc'[r] = "wait" => fate'[r] # "ok")
          /\ (result'[r] = "diverged" => result[r] = "diverged")
      BY <1>1, <2>4 DEF Submit
    <3> QED
      BY <3>1, ProgressFrame
  <2>5. CASE Read(r)
    <3>1. view'[r] = acct /\ pc'[r] = "index" /\ UNCHANGED <<acct, args, iter, tx, result>>
      BY <1>1, <2>5 DEF Read
    <3>2. Grows(acct, acct)
      BY <1>1 DEF Grows, Account
    <3> QED
      BY <3>1, <3>2 DEF Progress
  <2>6. CASE Decide(r)
    <3>1. UNCHANGED <<acct, args, view, iter>> /\ pc[r] = "decide"
          /\ (result'[r] = "diverged" => result[r] = "diverged")
      BY <1>1, <2>6 DEF Decide
    <3>2. CASE pc'[r] = "ended"
      BY <3>1, <3>2 DEF Progress
    <3>3. CASE pc'[r] = "sign"
      <4>1. /\ tx'[r] = [call |-> NextStep(view[r], args[r]),
                         amount |-> LockAmount(view[r], args[r]), nonce |-> 0]
            /\ NextStep(view[r], args[r]) # "none"
        BY <1>1, <2>6, <3>3 DEF Decide
      <4>2. iter[r] <= Rank[NextStep(view[r], args[r])]
        BY <3>1 DEF Progress, Stage
      <4> QED
        BY <3>1, <3>3, <4>1, <4>2 DEF Progress
    <3> QED
      BY <1>1, <2>6, <3>2, <3>3 DEF Decide
  <2>7. CASE Finalized(r)
    <3>1. UNCHANGED <<acct, args, view, tx, result>> /\ pc[r] = "wait" /\ fate[r] = "ok"
          /\ pc'[r] = "check" /\ iter'[r] = iter[r] + 1
      BY <1>1, <2>7 DEF Finalized
    <3>2. Rank[tx[r].call] < Stage(acct, args[r]) /\ iter[r] <= Rank[tx[r].call]
      BY <3>1 DEF Progress
    <3>3. Rank[tx[r].call] \in Nat /\ Stage(acct, args[r]) \in Nat /\ iter[r] \in Nat
      <4>1. tx[r].call \in Call \cup {"none"}
        BY <1>1 DEF Tx
      <4>2. Rank[tx[r].call] \in Nat
        BY <4>1 DEF Call, Rank
      <4> QED
        BY <1>1, <4>2, StageType, ConstantTypes
    <3>4. iter[r] + 1 <= Stage(acct, args[r])
      BY <3>2, <3>3
    <3>5. result[r] # "diverged"
      <4>1. iter[r] < MaxIterations
        BY <3>1 DEF InLoop, Label
      <4> QED
        BY <1>1, <4>1, ConstantTypes DEF Progress
    <3> QED
      BY <3>1, <3>4, <3>5 DEF Progress
  <2> QED
    BY <1>6, <2>1, <2>2, <2>3, <2>4, <2>5, <2>6, <2>7 DEF Step
<1> QED
  BY <1>2, <1>3, <1>4, <1>5, <1>6 DEF Next

\* What a registered run saw stays what it saw, and with the same keys in every
\* package the account keeps them.
LEMMA RegistrationStep ==
  ASSUME TypeOK, NEW r \in Run, Registration(r), [Next]_vars
  PROVE  Registration(r)'
<1>1. /\ pc \in [Run -> Label] /\ view \in [Run -> Account] /\ args \in [Run -> Args]
      /\ acct \in Account /\ result \in [Run -> Result]
  BY DEF TypeOK
<1> USE DEF Goto, End, chain, past
<1>2. CASE Decide(r)
  <2>1. /\ UNCHANGED <<acct, args, view>>
        /\ \/ pc'[r] # "ended" /\ result'[r] = result[r]
           \/ pc'[r] = "ended" /\ result'[r] # "registered"
           \/ /\ pc'[r] = "ended" /\ NextStep(view[r], args[r]) = "none"
              /\ ~Conflict(view[r], args[r])
        /\ pc[r] = "decide"
    BY <1>1, <1>2 DEF Decide
  <2>2. NextStep(view[r], args[r]) = "none" /\ ~Conflict(view[r], args[r]) =>
          /\ view[r].active > 0 /\ view[r].active >= args[r].stake
          /\ view[r].keys = args[r].keys /\ view[r].intent
    <3>1. view[r].active \in Nat /\ args[r].stake \in Nat
      BY <1>1, ConstantTypes DEF Account, Args
    <3> QED
      BY <1>1, <3>1, NextStepType DEF Conflict
  <2> QED
    BY <2>1, <2>2 DEF Registration, SameKeys
<1>3. CASE Read(r)
  <2>1. /\ UNCHANGED <<acct, args, result>> /\ view'[r] = acct /\ pc[r] = "read"
    BY <1>1, <1>3 DEF Read
  <2> QED
    BY <2>1 DEF Registration
<1>4. ASSUME NEW q \in Run, Include(q) PROVE Registration(r)'
  <2>1. UNCHANGED <<pc, args, view, result>>
    BY <1>4 DEF Include
  <2>2. acct'.keys # acct.keys => acct'.keys = args[q].keys
    BY <1>4, IncludeGrows
  <2> QED
    BY <2>1, <2>2 DEF Registration, SameKeys
<1>5. ASSUME ~Decide(r), ~Read(r), \A q \in Run : ~Include(q) PROVE Registration(r)'
  <2>1. /\ UNCHANGED <<acct, args>> /\ view'[r] = view[r]
        /\ result'[r] = "registered" => result[r] = "registered"
        /\ pc[r] = "ended" => pc'[r] = "ended"
    BY <1>1, <1>5 DEF Next, vars, Forget, Start, Die, Over, Chain, Drop, Return, Step, Check,
       Read, CheckIndex, Decide, Sign, Submit, Finalized, NotFinalized
  <2> QED
    BY <2>1 DEF Registration, SameKeys
<1> QED
  BY <1>2, <1>3, <1>4, <1>5

\* What happened stays in the past.
LEMMA CleanBefore ==
  ASSUME TypeOK, [Next]_vars, Clean'
  PROVE  Clean
<1>1. CASE UNCHANGED vars \/ Forget
  BY <1>1 DEF vars, Forget, Clean
<1>2. ASSUME NEW q \in Run, Start(q) PROVE Clean
  BY <1>2 DEF Start, Clean, TypeOK
<1>3. ASSUME NEW q \in Run, Die(q) \/ Chain(q) \/ Step(q) PROVE Clean
  BY <1>3 DEF Clean, past, Die, Chain, Include, Drop, Return, Step, Check, Read, CheckIndex,
     Decide, Sign, Submit, Finalized, NotFinalized
<1> QED
  BY <1>1, <1>2, <1>3 DEF Next

\* A registration that is real stays real.
LEMMA RegisteredStep ==
  ASSUME WalletInv, [Next]_vars
  PROVE  RegisteredIsReal'
<1> SUFFICES ASSUME NEW r \in Run, (result[r] = "registered")', (Clean \/ SameKeys)'
             PROVE  (acct.active >= args[r].stake /\ acct.keys = args[r].keys /\ acct.intent)'
  BY DEF RegisteredIsReal
<1>1. Progress(r)' /\ Registration(r)'
  BY ProgressStep, RegistrationStep DEF WalletInv
<1>2. args' = args
  BY DEF Next, vars, Forget, Start, Die, Chain, Include, Drop, Return, Step, Check, Read,
     CheckIndex, Decide, Sign, Submit, Finalized, NotFinalized, past, chain
<1>3. (acct.active >= args[r].stake /\ acct.intent)'
  BY <1>1 DEF Progress, Registration, Grows
<1>4. CASE SameKeys'
  BY <1>1, <1>3, <1>4 DEF Registration
<1>5. CASE Clean'
  <2>1. Clean
    BY <1>5, CleanBefore DEF WalletInv
  <2>2. CASE result[r] = "registered"
    <3>1. acct.keys = args[r].keys /\ acct.keys # NoKeys
      BY <2>1, <2>2, ConstantTypes DEF WalletInv, RegisteredIsReal, TypeOK, Args
    <3>2. acct'.keys = acct.keys
      BY <1>5, <3>1, AccountChange, DueEffect DEF WalletInv
    <3> QED
      BY <1>2, <1>3, <3>1, <3>2
  <2>3. CASE result[r] # "registered"
    <3>1. Decide(r)
      BY <2>3 DEF Next, vars, Forget, Start, Die, Chain, Include, Drop, Return, Step, Check,
         Read, CheckIndex, Sign, Submit, Finalized, NotFinalized, past, chain, End, Decide,
         WalletInv, TypeOK
    <3>2. view[r] = acct /\ UNCHANGED <<acct, view>>
      BY <2>1, <3>1 DEF Decide, chain, WalletInv, CleanInv, ViewIsCurrent
    <3> QED
      BY <1>1, <1>2, <1>3, <3>2 DEF Registration
  <2> QED
    BY <2>2, <2>3
<1> QED
  BY <1>4, <1>5

\* The invariant of the wallet.
THEOREM WalletInvariant == Spec => []WalletInv
<1>1. Init => WalletInv
  <2> SUFFICES ASSUME Init PROVE WalletInv
    OBVIOUS
  <2>1. TypeOK /\ InLoop
    BY TypeInit
  <2>2. /\ Live = {} /\ seen = {} /\ view = [r \in Run |-> acct]
        /\ \A r \in Run : pc[r] = "idle" /\ result[r] = "none" /\ iter[r] = 0
    BY DEF Init, Live
  <2>3. CleanInv
    BY <2>2 DEF CleanInv, OneAtATime, AloneInFlight, ViewIsCurrent, Over
  <2>4. RegisteredIsReal
    BY <2>2 DEF RegisteredIsReal
  <2>5. ASSUME NEW r \in Run PROVE Progress(r) /\ Registration(r)
    <3>1. acct \in Account /\ args[r] \in Args
      BY <2>1 DEF TypeOK
    <3>2. Stage(acct, args[r]) \in 0 .. 4 /\ Grows(acct, acct)
      BY <3>1, StageType DEF Grows, Account
    <3> QED
      BY <2>2, <3>1, <3>2 DEF Progress, Registration
  <2> QED
    BY <2>1, <2>3, <2>4, <2>5 DEF WalletInv
<1>2. WalletInv /\ [Next]_vars => WalletInv'
  <2> SUFFICES ASSUME WalletInv, [Next]_vars PROVE WalletInv'
    OBVIOUS
  <2>1. TypeOK' /\ InLoop' /\ CleanInv'
    BY TypeStep, CleanStep DEF WalletInv
  <2>2. \A r \in Run : Progress(r)' /\ Registration(r)'
    BY ProgressStep, RegistrationStep DEF WalletInv
  <2> QED
    BY <2>1, <2>2, RegisteredStep DEF WalletInv
<1> QED
  BY <1>1, <1>2, PTL DEF Spec

\* "candidate registration finalized" is true, and stays so.
THEOREM RegisteredReal == Spec => []RegisteredIsReal
<1>1. WalletInv => RegisteredIsReal
  BY DEF WalletInv
<1> QED
  BY <1>1, WalletInvariant, PTL

\* cli.mjs:52: with five iterations (MaxIterations) the loop always suffices,
\* also for runs that overlap, and whatever is lost.
THEOREM LoopSuffices ==
  ASSUME MaxIterations > 4
  PROVE  Spec => []Converges
<1>1. WalletInv => Converges
  <2> SUFFICES ASSUME WalletInv, NEW r \in Run, result[r] = "diverged" PROVE FALSE
    BY DEF Converges
  <2>1. iter[r] = MaxIterations /\ iter[r] <= Stage(acct, args[r])
    BY DEF WalletInv, Progress
  <2>2. Stage(acct, args[r]) \in 0 .. 4
    BY StageType DEF WalletInv, TypeOK
  <2> QED
    BY <2>1, <2>2, ConstantTypes
<1> QED
  BY <1>1, WalletInvariant, PTL

\* cli.mjs:65: as long as runs follow one another and the node keeps its pool,
\* the account never has two transactions in flight.
THEOREM OneInFlight == Spec => []AloneInFlight
<1>1. WalletInv => AloneInFlight
  BY DEF WalletInv, CleanInv, AloneInFlight
<1> QED
  BY <1>1, WalletInvariant, PTL

\* docs/validator-node-wallet.md, "lock enough ROKO to reach the requested
\* pwROKO balance": a lock ends at the stake, however runs time out or die.
THEOREM LocksAreEnough == Spec => LocksEnough
<1>1. ASSUME WalletInv, [Next]_vars PROVE [Clean' => Locks]_vars
  <2> SUFFICES ASSUME Clean', acct'.pw # acct.pw
               PROVE  \E r \in Run : args[r].execute /\ acct'.pw = args[r].stake
    BY DEF Locks
  <2>1. PICK r \in Run : Include(r) /\ CallIsDue(r)
    BY <1>1, AccountChange
  <2> QED
    BY <1>1, <2>1, DueEffect DEF WalletInv
<1> QED
  BY <1>1, WalletInvariant, PTL DEF Spec, LocksEnough

\* logic.test.mjs, "never rotates keys": registered keys stay.
THEOREM KeysStay == Spec => NeverRotatesKeys
<1>1. ASSUME WalletInv, [Next]_vars
      PROVE  [Clean' /\ acct.keys # NoKeys => acct'.keys = acct.keys]_vars
  <2> SUFFICES ASSUME Clean', acct.keys # NoKeys, acct' # acct PROVE acct'.keys = acct.keys
    OBVIOUS
  <2>1. PICK r \in Run : Include(r) /\ CallIsDue(r)
    BY <1>1, AccountChange
  <2> QED
    BY <1>1, <2>1, DueEffect DEF WalletInv
<1> QED
  BY <1>1, WalletInvariant, PTL DEF Spec, NeverRotatesKeys

\* docs, "Rerunning checks finalized state and skips completed steps": every
\* call that reaches the chain does something that was not done before.
THEOREM CallsAreNeeded == Spec => SkipsCompleted
<1>1. ASSUME WalletInv, [Next]_vars
      PROVE  [Clean' /\ acct'.nonce # acct.nonce =>
                \/ acct'.pw # acct.pw \/ acct'.active # acct.active
                \/ acct'.keys # acct.keys \/ acct'.intent # acct.intent]_vars
  <2> SUFFICES ASSUME Clean', acct'.nonce # acct.nonce
               PROVE  \/ acct'.pw # acct.pw \/ acct'.active # acct.active
                      \/ acct'.keys # acct.keys \/ acct'.intent # acct.intent
    OBVIOUS
  <2>1. PICK r \in Run : Include(r) /\ CallIsDue(r)
    BY <1>1, AccountChange
  <2> QED
    BY <1>1, <2>1, DueEffect DEF WalletInv, Call
<1> QED
  BY <1>1, WalletInvariant, PTL DEF Spec, SkipsCompleted

\* A call that is due costs one nonce and takes the account past it.
LEMMA DueCounts ==
  ASSUME TypeOK, NEW r \in Run, Include(r), CallIsDue(r)
  PROVE  /\ acct'.nonce = acct.nonce + 1
         /\ Stage(acct, args[r]) < Stage(acct', args[r])
<1>1. acct \in Account /\ acct' \in Account /\ args[r] \in Args /\ tx[r] \in Tx
  BY IncludeType DEF TypeOK
<1>2. /\ tx[r].call = NextStep(acct, args[r]) /\ tx[r].call \in Call
      /\ tx[r].call = "lock" => acct.pw < args[r].stake
      /\ tx[r].call = "lock" => tx[r].amount = args[r].stake - acct.pw
      /\ tx[r].call = "validate" => acct.keys # NoKeys
  BY DueSucceeds DEF CallIsDue
<1>3. Stage(acct, args[r]) = Rank[tx[r].call]
  BY <1>2 DEF Stage
<1>4. fate'[r] = "ok"
  BY DueSucceeds DEF Include, TypeOK
<1>5. /\ tx[r].call = "lock" => acct'.pw = acct.pw + tx[r].amount
      /\ tx[r].call = "bond" => acct'.active > 0
      /\ tx[r].call = "setKeys" => acct'.active > 0 /\ acct'.keys # NoKeys
      /\ tx[r].call = "validate" =>
           acct'.active > 0 /\ acct'.keys = acct.keys /\ acct'.intent
  BY <1>4, IncludeGrows
<1>6. acct'.nonce = acct.nonce + 1
  BY IncludeType
<1>7. /\ acct.pw \in Nat /\ args[r].stake \in Nat /\ tx[r].amount \in Nat
      /\ acct'.pw \in Nat /\ acct'.active \in Nat /\ acct'.intent \in BOOLEAN
  BY <1>1, ConstantTypes DEF Account, Args, Tx
<1>8. /\ Rank["lock"] = 0 /\ Rank["bond"] = 1 /\ Rank["setKeys"] = 2 /\ Rank["validate"] = 3
  BY DEF Rank
<1>9. /\ Stage(acct', args[r]) \in 0 .. 4
      /\ Stage(acct', args[r]) = 0 <=> acct'.active = 0 /\ acct'.pw < args[r].stake
      /\ Stage(acct', args[r]) = 1 <=> acct'.active = 0 /\ acct'.pw >= args[r].stake
      /\ Stage(acct', args[r]) = 2 <=> acct'.active > 0 /\ acct'.keys = NoKeys
      /\ Stage(acct', args[r]) = 3 <=>
           acct'.active > 0 /\ acct'.keys # NoKeys /\ ~acct'.intent
  BY <1>1, StageType
<1>10. Rank[tx[r].call] < Stage(acct', args[r])
  <2>1. CASE tx[r].call = "lock"
    <3>1. acct'.pw = args[r].stake
      BY <1>2, <1>5, <1>7, <2>1
    <3> QED
      BY <1>7, <1>8, <1>9, <2>1, <3>1
  <2>2. CASE tx[r].call = "bond"
    BY <1>5, <1>7, <1>8, <1>9, <2>2
  <2>3. CASE tx[r].call = "setKeys"
    BY <1>5, <1>7, <1>8, <1>9, <2>3
  <2>4. CASE tx[r].call = "validate"
    BY <1>2, <1>5, <1>7, <1>8, <1>9, <2>4
  <2> QED
    BY <1>2, <2>1, <2>2, <2>3, <2>4 DEF Call
<1> QED
  BY <1>3, <1>6, <1>10

\* The calls that were finalized are no more than the steps behind the account.
SameStake == \A q, r \in Run : args[q].stake = args[r].stake

PaidInv == Clean /\ SameStake => \A r \in Run : acct.nonce <= Stage(acct, args[r])

\* The nonce counts the calls since the beginning.  However often a run times
\* out, dies, loses its answer or its transaction and is made again with the
\* same stake, the whole enrollment costs four calls at most, as long as runs
\* do not overlap and the node keeps its pool.
FourCalls == Clean /\ SameStake /\ Run # {} => acct.nonce <= 4

THEOREM EnrollsInFourCalls == Spec => []FourCalls
<1>1. ASSUME Init PROVE PaidInv
  <2>1. acct \in Account /\ acct.nonce = 0 /\ \A r \in Run : args[r] \in Args
    BY <1>1, TypeInit DEF Init, TypeOK
  <2>2. \A r \in Run : Stage(acct, args[r]) \in 0 .. 4
    BY <2>1, StageType
  <2> QED
    BY <2>1, <2>2 DEF PaidInv
<1>2. ASSUME WalletInv, PaidInv, [Next]_vars PROVE PaidInv'
  <2>1. TypeOK /\ args' = args
    BY <1>2 DEF WalletInv, Next, vars, Forget, Start, Die, Chain, Include, Drop, Return, Step,
       Check, Read, CheckIndex, Decide, Sign, Submit, Finalized, NotFinalized, past, chain
  <2> SUFFICES ASSUME Clean', SameStake, NEW q \in Run PROVE acct'.nonce <= Stage(acct', args[q])
    BY <2>1 DEF PaidInv, SameStake, Stage, NextStep
  <2>2. Clean
    BY <1>2, <2>1, CleanBefore
  <2>3. CASE acct' = acct
    BY <1>2, <2>2, <2>3 DEF PaidInv
  <2>4. CASE acct' # acct
    <3>1. PICK r \in Run : Include(r) /\ CallIsDue(r)
      BY <1>2, <2>4, AccountChange
    <3>2. acct'.nonce = acct.nonce + 1 /\ Stage(acct, args[r]) < Stage(acct', args[r])
      BY <2>1, <3>1, DueCounts
    <3>3. Stage(acct', args[q]) = Stage(acct', args[r])
      BY DEF SameStake, Stage, NextStep
    <3>4. acct.nonce <= Stage(acct, args[r])
      BY <1>2, <2>2 DEF PaidInv
    <3>5. acct.nonce \in Nat /\ Stage(acct, args[r]) \in 0 .. 4 /\ Stage(acct', args[r]) \in 0 .. 4
      <4>1. acct \in Account /\ acct' \in Account /\ args[r] \in Args
        BY <2>1, <3>1, IncludeType DEF TypeOK
      <4> QED
        BY <4>1, StageType DEF Account
    <3> QED
      BY <3>2, <3>3, <3>4, <3>5
  <2> QED
    BY <2>3, <2>4
<1>3. ASSUME WalletInv, PaidInv PROVE FourCalls
  <2> SUFFICES ASSUME Clean, SameStake, NEW r \in Run PROVE acct.nonce <= 4
    BY DEF FourCalls
  <2>1. acct \in Account /\ args[r] \in Args
    BY <1>3 DEF WalletInv, TypeOK
  <2>2. acct.nonce <= Stage(acct, args[r]) /\ Stage(acct, args[r]) \in 0 .. 4 /\ acct.nonce \in Nat
    BY <1>3, <2>1, StageType DEF PaidInv, Account
  <2> QED
    BY <2>2
<1> QED
  BY <1>1, <1>2, <1>3, WalletInvariant, PTL DEF Spec

-----------------------------------------------------------------------------
(* The abstract account                                                    *)

\* A call that the chain executes is a call of the abstract account: paid, and
\* with the effect that the runtime has for it.
LEMMA CallIsAbstract ==
  ASSUME TypeOK, NEW r \in Run, Succeeds(acct, tx[r], args[r]), acct.free >= Fee,
         acct' = [Effect(acct, tx[r], args[r]) EXCEPT !.nonce = acct.nonce + 1,
                                                     !.free = @ - Fee]
  PROVE  /\ tx[r].call = "lock" => Abstract!Lock(tx[r].amount)
         /\ tx[r].call = "bond" => Abstract!Bond(args[r].stake)
         /\ tx[r].call = "setKeys" => Abstract!SetKeys(args[r].keys)
         /\ tx[r].call \notin {"lock", "bond", "setKeys"} => Abstract!Validate
<1> DEFINE a == acct
           x == args[r]
           t == tx[r]
           e == Effect(a, t, x)
<1>1. a \in Account /\ x \in Args /\ t \in Tx
  BY DEF TypeOK
<1>2. e \in Account /\ e.nonce = a.nonce
  BY <1>1, EffectType
<1>3. acct' = Abstract!Paid(e)
  BY <1>2 DEF Abstract!Paid
<1> HIDE DEF a, x, t, e
<1>4. CASE t.call = "lock"
  <2>1. e = [a EXCEPT !.pw = @ + t.amount, !.free = @ - t.amount]
    BY <1>4 DEF Effect, e
  <2>2. a.free >= t.amount + Fee + Deposit
    BY <1>4 DEF Succeeds, a, x, t
  <2> QED
    BY <1>3, <1>4, <2>1, <2>2 DEF Abstract!Lock, a, t
<1>5. CASE t.call = "bond"
  <2>1. e = [a EXCEPT !.active = x.stake] /\ a.active = 0 /\ a.pw >= x.stake
    BY <1>5 DEF Effect, Succeeds, e, a, x, t
  <2> QED
    BY <1>3, <1>5, <2>1 DEF Abstract!Bond, a, x, t
<1>6. CASE t.call = "setKeys"
  <2>1. e = [a EXCEPT !.keys = x.keys] /\ a.active > 0
    BY <1>6 DEF Effect, Succeeds, e, a, x, t
  <2> QED
    BY <1>3, <1>6, <2>1 DEF Abstract!SetKeys, a, x, t
<1>7. CASE t.call \notin {"lock", "bond", "setKeys"}
  <2>1. e = [a EXCEPT !.intent = TRUE] /\ a.active > 0
    BY <1>7 DEF Effect, Succeeds, e, a, x, t
  <2> QED
    BY <1>3, <1>7, <2>1 DEF Abstract!Validate, a, t
<1> QED
  BY <1>4, <1>5, <1>6, <1>7 DEF t

\* A call that is due takes the abstract account one step further and leaves
\* the deposit and the fee of a call.
LEMMA DueEnrolls ==
  ASSUME TypeOK, NEW r \in Run, Include(r), CallIsDue(r)
  PROVE  Abstract!Enroll
<1> DEFINE e == Effect(acct, tx[r], args[r])
<1>1. acct \in Account /\ args[r] \in Args /\ tx[r] \in Tx /\ e \in Account
  BY DueSucceeds DEF TypeOK
<1>2. /\ acct.free \in Nat /\ acct.pw \in Nat /\ tx[r].amount \in Nat
      /\ args[r].stake \in Stake /\ args[r].keys \in Keys /\ e.free \in Nat
  BY <1>1 DEF Account, Args, Tx
<1>3. /\ acct' = [e EXCEPT !.nonce = acct.nonce + 1, !.free = @ - Fee]
      /\ acct.free >= Fee /\ Succeeds(acct, tx[r], args[r])
  BY DueSucceeds DEF Include
<1>4. acct'.free >= Deposit + Fee
  <2>1. acct'.free = e.free - Fee
    BY <1>1, <1>3 DEF Account
  <2>2. CASE tx[r].call = "lock"
    <3>1. e = [acct EXCEPT !.pw = @ + tx[r].amount, !.free = @ - tx[r].amount]
      BY <2>2 DEF Effect
    <3>2. e.free = acct.free - tx[r].amount
      BY <1>1, <3>1 DEF Account
    <3>3. acct.free >= Deposit + 2 * Fee + tx[r].amount
      BY <2>2, DueSucceeds
    <3> HIDE DEF e
    <3> QED
      BY <1>2, <2>1, <3>2, <3>3, ConstantTypes
  <2>3. CASE tx[r].call # "lock"
    <3>1. e.free = acct.free
      BY <1>1, <2>3 DEF Effect, Account
    <3>2. acct.free >= Deposit + 2 * Fee
      BY DueSucceeds
    <3> HIDE DEF e
    <3> QED
      BY <1>2, <2>1, <3>1, <3>2, ConstantTypes
  <2> QED
    BY <2>2, <2>3
<1>5. CASE tx[r].call = "lock"
  <2>1. /\ acct.active = 0 /\ acct.pw < args[r].stake
        /\ Abstract!Lock(args[r].stake - acct.pw)
    BY <1>3, <1>5, DueSucceeds, CallIsAbstract
  <2> QED
    BY <1>2, <1>4, <2>1 DEF Abstract!Enroll
<1>6. CASE tx[r].call = "bond"
  BY <1>2, <1>3, <1>4, <1>6, CallIsAbstract DEF Abstract!Enroll
<1>7. CASE tx[r].call = "setKeys"
  BY <1>2, <1>3, <1>4, <1>7, DueSucceeds, CallIsAbstract DEF Abstract!Enroll
<1>8. CASE tx[r].call = "validate"
  BY <1>2, <1>3, <1>4, <1>8, DueSucceeds, CallIsAbstract DEF Abstract!Enroll
<1> QED
  BY <1>5, <1>6, <1>7, <1>8, DueSucceeds DEF Call

\* What comes too late is a stray call, which the runtime may refuse.
LEMMA LateStrays ==
  ASSUME TypeOK, NEW r \in Run, Include(r), ~Clean
  PROVE  Abstract!Stray
<1>1. acct \in Account /\ args[r] \in Args /\ tx[r] \in Tx /\ acct.free >= Fee
  BY DEF TypeOK, Include
<1>2. /\ acct.free \in Nat /\ tx[r].amount \in Nat
      /\ args[r].stake \in Stake /\ args[r].keys \in Keys
  BY <1>1 DEF Account, Args, Tx
<1>3. CASE ~Succeeds(acct, tx[r], args[r])
  <2>1. acct' = [acct EXCEPT !.nonce = acct.nonce + 1, !.free = @ - Fee]
    BY <1>3 DEF Include
  <2>2. Abstract!Fails
    BY <1>1, <2>1 DEF Abstract!Fails, Abstract!Paid
  <2> QED
    BY <1>1, <2>2 DEF Abstract!Stray
<1>4. CASE Succeeds(acct, tx[r], args[r])
  <2>1. /\ tx[r].call = "lock" => Abstract!Lock(tx[r].amount)
        /\ tx[r].call = "bond" => Abstract!Bond(args[r].stake)
        /\ tx[r].call = "setKeys" => Abstract!SetKeys(args[r].keys)
        /\ tx[r].call \notin {"lock", "bond", "setKeys"} => Abstract!Validate
    BY <1>1, <1>4, CallIsAbstract DEF Include
  <2>2. tx[r].call = "lock" => tx[r].amount \in 0 .. acct.free
    BY <1>2, <1>4, ConstantTypes DEF Succeeds
  <2> QED
    BY <1>1, <1>2, <2>1, <2>2 DEF Abstract!Stray
<1> QED
  BY <1>3, <1>4

\* The runs implement the abstract account: whatever times out, dies, is dropped
\* or refused, the account is enrolled step by step and each step once.
THEOREM Implements == Spec => ImplementsCandidateAccount
<1>1. ASSUME Init PROVE Abstract!Init
  <2>1. acct \in Account
    BY <1>1, TypeInit DEF TypeOK
  <2> QED
    BY <1>1, <2>1 DEF Init, Abstract!Init, Abstract!Account, Account, Clean
<1>2. ASSUME WalletInv, [Next]_vars PROVE [Abstract!Next]_(Abstract!vars)
  <2>1. TypeOK
    BY <1>2 DEF WalletInv
  <2>2. Clean' => Clean
    BY <1>2, <2>1, CleanBefore
  <2>3. CASE acct' = acct
    BY <2>2, <2>3 DEF Abstract!Next, Abstract!vars, Abstract!Spoil, Clean
  <2>4. CASE acct' # acct
    <3>1. PICK r \in Run : Include(r)
      BY <1>2, <2>4, AccountStep
    <3> acct.free >= Fee /\ UNCHANGED ~Clean
      BY <3>1 DEF Include, past, Clean
    <3>2. CASE Clean
      <4>1. Clean'
        BY <3>1, <3>2 DEF Include, past, Clean
      <4>2. PICK q \in Run : Include(q) /\ CallIsDue(q)
        BY <1>2, <2>4, <4>1, AccountChange
      <4> QED
        BY <2>1, <4>2, DueEnrolls DEF Abstract!Next
    <3>3. CASE ~Clean
      BY <2>1, <3>1, <3>3, LateStrays DEF Abstract!Next
    <3> QED
      BY <3>2, <3>3
  <2> QED
    BY <2>3, <2>4
<1> QED
  BY <1>1, <1>2, WalletInvariant, PTL DEF Spec, ImplementsCandidateAccount, Abstract!Spec

\* What a call of the abstract account changes, and what it leaves alone.
LEMMA AbstractCalls ==
  ASSUME acct \in Account, acct.free >= Fee
  PROVE  /\ \A n \in Nat : Abstract!Lock(n) =>
              /\ acct' \in Account
              /\ acct'.pw = acct.pw + n /\ acct'.active = acct.active
              /\ acct'.keys = acct.keys /\ acct'.intent = acct.intent
         /\ \A s \in Stake : Abstract!Bond(s) =>
              /\ acct' \in Account /\ acct.active = 0 /\ s <= acct.pw
              /\ acct'.pw = acct.pw /\ acct'.active = s
              /\ acct'.keys = acct.keys /\ acct'.intent = acct.intent
         /\ \A k \in Keys : Abstract!SetKeys(k) =>
              /\ acct' \in Account /\ acct.active > 0
              /\ acct'.pw = acct.pw /\ acct'.active = acct.active
              /\ acct'.keys = k /\ acct'.intent = acct.intent
         /\ Abstract!Validate =>
              /\ acct' \in Account /\ acct.active > 0
              /\ acct'.pw = acct.pw /\ acct'.active = acct.active
              /\ acct'.keys = acct.keys /\ acct'.intent
         /\ Abstract!Fails =>
              /\ acct' \in Account
              /\ acct'.pw = acct.pw /\ acct'.active = acct.active
              /\ acct'.keys = acct.keys /\ acct'.intent = acct.intent
<1> DEFINE a == acct
           Paid(p, b, k, i) ==
             [nonce |-> a.nonce + 1, free |-> a.free - Fee, pw |-> p,
              active |-> b, keys |-> k, intent |-> i]
<1>1. /\ a.nonce \in Nat /\ a.free \in Nat /\ a.pw \in Nat /\ a.active \in Nat
      /\ a.keys \in Keys \cup {NoKeys} /\ a.intent \in BOOLEAN
      /\ Fee \in Nat /\ Deposit \in Nat /\ Stake \subseteq Nat
  BY ConstantTypes DEF Account
<1>2. a.free - Fee \in Nat /\ a.nonce + 1 \in Nat
  BY <1>1
<1>3. ASSUME NEW n \in Nat, Abstract!Lock(n)
      PROVE  /\ acct' \in Account
             /\ acct'.pw = acct.pw + n /\ acct'.active = acct.active
             /\ acct'.keys = acct.keys /\ acct'.intent = acct.intent
  <2>1. a.free >= n + Fee + Deposit
    BY <1>3 DEF Abstract!Lock
  <2>2. a.free - n - Fee \in Nat /\ a.pw + n \in Nat
    BY <1>1, <2>1
  <2>3. acct' = [nonce |-> a.nonce + 1, free |-> a.free - n - Fee, pw |-> a.pw + n,
                 active |-> a.active, keys |-> a.keys, intent |-> a.intent]
    BY <1>3 DEF Abstract!Lock, Abstract!Paid, Account
  <2> HIDE DEF a
  <2> QED
    BY <1>1, <1>2, <2>2, <2>3 DEF Account, a
<1>4. ASSUME NEW s \in Stake, Abstract!Bond(s)
      PROVE  /\ acct' \in Account /\ acct.active = 0 /\ s <= acct.pw
             /\ acct'.pw = acct.pw /\ acct'.active = s
             /\ acct'.keys = acct.keys /\ acct'.intent = acct.intent
  <2>1. acct' = Paid(a.pw, s, a.keys, a.intent) /\ a.active = 0 /\ s <= a.pw
    BY <1>1, <1>4 DEF Abstract!Bond, Abstract!Paid, Account
  <2> HIDE DEF a
  <2> QED
    BY <1>1, <1>2, <2>1 DEF Account, a
<1>5. ASSUME NEW k \in Keys, Abstract!SetKeys(k)
      PROVE  /\ acct' \in Account /\ acct.active > 0
             /\ acct'.pw = acct.pw /\ acct'.active = acct.active
             /\ acct'.keys = k /\ acct'.intent = acct.intent
  <2>1. acct' = Paid(a.pw, a.active, k, a.intent) /\ a.active > 0
    BY <1>5 DEF Abstract!SetKeys, Abstract!Paid, Account
  <2> HIDE DEF a
  <2> QED
    BY <1>1, <1>2, <2>1 DEF Account, a
<1>6. ASSUME Abstract!Validate
      PROVE  /\ acct' \in Account /\ acct.active > 0
             /\ acct'.pw = acct.pw /\ acct'.active = acct.active
             /\ acct'.keys = acct.keys /\ acct'.intent
  <2>1. acct' = Paid(a.pw, a.active, a.keys, TRUE) /\ a.active > 0
    BY <1>6 DEF Abstract!Validate, Abstract!Paid, Account
  <2> HIDE DEF a
  <2> QED
    BY <1>1, <1>2, <2>1 DEF Account, a
<1>7. ASSUME Abstract!Fails
      PROVE  /\ acct' \in Account
             /\ acct'.pw = acct.pw /\ acct'.active = acct.active
             /\ acct'.keys = acct.keys /\ acct'.intent = acct.intent
  <2>1. acct' = Paid(a.pw, a.active, a.keys, a.intent)
    BY <1>7 DEF Abstract!Fails, Abstract!Paid, Account
  <2> HIDE DEF a
  <2> QED
    BY <1>1, <1>2, <2>1 DEF Account, a
<1> QED
  BY <1>3, <1>4, <1>5, <1>6, <1>7

\* The abstract account keeps its promise, so that it is worth implementing.
\* Nothing is bonded that is not locked and no keys or intent are registered
\* before the bond; no bond or intent is undone, whatever comes too late; and
\* unless runs overlapped nothing is locked or registered twice.
THEOREM AccountKeepsPromise ==
  Abstract!Spec => []Abstract!Ordered /\ Abstract!Forward
<1> DEFINE Ahead == /\ acct.active > 0 => acct'.active = acct.active
                    /\ acct.pw <= acct'.pw
                    /\ acct.intent => acct'.intent
                    /\ ~(~Clean)' /\ acct.keys # NoKeys => acct'.keys = acct.keys
                    /\ ~(~Clean)' /\ acct.active > 0 => acct'.pw = acct.pw
<1>1. Abstract!Init => Abstract!Ordered
  BY DEF Abstract!Init, Abstract!Ordered
<1>2. ASSUME Abstract!Ordered, [Abstract!Next]_(Abstract!vars)
      PROVE  Abstract!Ordered' /\ [Ahead]_(Abstract!vars)
  <2>1. /\ acct \in Account /\ acct.active <= acct.pw
        /\ acct.keys # NoKeys \/ acct.intent => acct.active > 0
    BY <1>2 DEF Abstract!Ordered, Abstract!Account, Account
  <2>2. /\ acct.pw \in Nat /\ acct.active \in Nat /\ acct.intent \in BOOLEAN
        /\ acct.free \in Nat /\ Stake \subseteq Nat \ {0} /\ NoKeys \notin Keys
        /\ Fee \in Nat /\ Deposit \in Nat
    BY <2>1, ConstantTypes DEF Account
  <2> DEFINE Goal == /\ acct' \in Account /\ acct'.active <= acct'.pw
                     /\ acct'.keys # NoKeys \/ acct'.intent => acct'.active > 0
                     /\ Ahead
  <2>3. Goal => Abstract!Ordered' /\ Ahead
    BY DEF Abstract!Ordered, Abstract!Account, Account
  <2>4. CASE acct' = acct
    BY <1>2, <2>1, <2>2, <2>3, <2>4
  <2>5. CASE acct.free >= Fee /\ Abstract!Enroll
    <3>1. acct.free >= Fee
      BY <2>5
    <3>2. ASSUME NEW s \in Stake, acct.active = 0, acct.pw < s, Abstract!Lock(s - acct.pw)
          PROVE  Goal
      <4>1. s - acct.pw \in Nat
        BY <2>2, <3>2
      <4>2. /\ acct' \in Account
            /\ acct'.pw = acct.pw + (s - acct.pw) /\ acct'.active = acct.active
            /\ acct'.keys = acct.keys /\ acct'.intent = acct.intent
        BY <2>1, <3>1, <3>2, <4>1, AbstractCalls
      <4> QED
        BY <2>1, <2>2, <3>2, <4>2
    <3>3. ASSUME NEW s \in Stake, Abstract!Bond(s) PROVE Goal
      BY <2>1, <2>2, <3>1, <3>3, AbstractCalls
    <3>4. ASSUME NEW k \in Keys, acct.keys = NoKeys, Abstract!SetKeys(k) PROVE Goal
      BY <2>1, <2>2, <3>1, <3>4, AbstractCalls
    <3>5. ASSUME Abstract!Validate PROVE Goal
      BY <2>1, <2>2, <3>1, <3>5, AbstractCalls
    <3> QED
      BY <2>3, <2>5, <3>2, <3>3, <3>4, <3>5 DEF Abstract!Enroll
  <2>6. CASE acct.free >= Fee /\ Abstract!Stray /\ UNCHANGED ~Clean
    <3>1. acct.free >= Fee /\ (~Clean)'
      BY <2>6 DEF Abstract!Stray
    <3>2. ASSUME NEW n \in 0 .. acct.free, Abstract!Lock(n) PROVE Goal
      BY <2>1, <2>2, <3>1, <3>2, AbstractCalls
    <3>3. ASSUME NEW s \in Stake, Abstract!Bond(s) PROVE Goal
      BY <2>1, <2>2, <3>1, <3>3, AbstractCalls
    <3>4. ASSUME NEW k \in Keys, Abstract!SetKeys(k) PROVE Goal
      BY <2>1, <2>2, <3>1, <3>4, AbstractCalls
    <3>5. ASSUME Abstract!Validate \/ Abstract!Fails PROVE Goal
      BY <2>1, <2>2, <3>1, <3>5, AbstractCalls
    <3> QED
      BY <2>3, <2>6, <3>2, <3>3, <3>4, <3>5 DEF Abstract!Stray
  <2> QED
    BY <1>2, <2>4, <2>5, <2>6 DEF Abstract!Next, Abstract!vars, Abstract!Spoil
<1> QED
  BY <1>1, <1>2, PTL DEF Abstract!Spec, Abstract!Forward

\* And so does the account that the runs of the wallet work on.
THEOREM AccountGoesForward == Spec => []Abstract!Ordered /\ Abstract!Forward
  BY Implements, AccountKeepsPromise DEF ImplementsCandidateAccount
=============================================================================
