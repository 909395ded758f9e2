------------------------- MODULE TransitionCheckProofs -------------------------
(***************************************************************************)
(* For any tuples, nodes, timing policies and situations, any growth of    *)
(* the chain and any number of changes during the check: what a receipt    *)
(* says was true, although its facts come from answers given at different  *)
(* moments.                                                                *)
(***************************************************************************)
EXTENDS TransitionCheck, TLAPS

\* A finalized candidate is bonded; sessions follow each other, and its index
\* stays the same within one.
ChainInv ==
  /\ chain \in Seq(Account) /\ Len(chain) > 0
  /\ \A n \in 1 .. Len(chain) : chain[n].intent => chain[n].bonded
  /\ \A n \in 1 .. Len(chain) : /\ chain[n].session <= Latest.session
                                /\ chain[n].session = Latest.session =>
                                     chain[n].index = Latest.index
  /\ best \in Fork /\ time \in [converged : BOOLEAN, ready : BOOLEAN]
  /\ expected \in Tuple \cup {None}

After == {"custody", "observe", "report", "proof", "runtime", "metadata", "receipt", "done"}

\* What was read at the finalized head is what the chain has there.
ReadInv ==
  /\ pc \in After \cup {"storage"} => head \in 1 .. Len(chain)
  /\ pc \in After => read = chain[head]
  /\ pc = "observe" => expected # None

\* A readiness report is of one moment of node and chain.
ReportInv ==
  pc \in {"proof", "runtime", "metadata", "receipt", "done"} =>
    LET then == moment.report IN
    /\ then.account \in Account /\ (then.account.intent => then.account.bonded)
    /\ report.candidate = "account" => report.expected = then.account.next
    /\ report.candidate # "account" => report.expected = None
    /\ report.observed = then.keystore
    /\ report.flags => then.account.intent
    /\ report.queued \in {Absent, then.account.queued}
    /\ report.time \in [converged : BOOLEAN, ready : BOOLEAN]
    /\ ValidTiming(timing, report.time.ready)
    /\ report.proof # None => report.proof.number \in Nat \ {0}
    /\ report.index = then.account.index
    /\ then.account.session <= Latest.session
    /\ \A n \in 1 .. Len(chain) : chain[n].session = then.account.session =>
                                  chain[n].index = then.account.index

\* A canonical hash was asked for a final block whose author's index was the
\* producer's in the report.
ProofInv ==
  pc \in {"runtime", "metadata", "receipt", "done"} /\ canonical # None =>
    /\ report.proof.index = report.index
    /\ report.proof.number \in 1 .. Len(chain)
    /\ chain[report.proof.number].fork = canonical

\* A receipt was put together from all of them, and nothing changed since.
ReceiptInv ==
  /\ receipt.safe => pc = "done" /\ Failures(runtime) = {}
  /\ receipt.author => receipt.safe /\ Active
  /\ receipt.proven => receipt.author /\ Authored

CheckInv == ChainInv /\ ReadInv /\ ReportInv /\ ProofInv /\ ReceiptInv

-----------------------------------------------------------------------------
(* The chain *)

LEMMA TransactionsAreAccounts ==
  ASSUME NEW a \in Account, a.intent => a.bonded, NEW b \in Transactions(a), NEW f \in Fork
  PROVE  LET c == [b EXCEPT !.fork = f] IN
         /\ c \in Account /\ (c.intent => c.bonded)
         /\ a.session <= c.session /\ (c.session = a.session => c.index = a.index)
<1> DEFINE c == [b EXCEPT !.fork = f]
<1>0. a.session \in Nat
  BY DEF Account
<1>1. CASE \E t \in Tuple : b = [a EXCEPT !.next = t]
  <2>1. c \in Account /\ (c.intent => c.bonded)
    BY <1>1 DEF Account
  <2>2. c.session = a.session /\ c.index = a.index
    BY <1>1 DEF Account
  <2> QED
    BY <1>0, <2>1, <2>2
<1>2. CASE \E i \in {FALSE, a.bonded} : b = [a EXCEPT !.intent = i]
  <2>1. c \in Account /\ (c.intent => c.bonded)
    BY <1>2 DEF Account
  <2>2. c.session = a.session /\ c.index = a.index
    BY <1>2 DEF Account
  <2> QED
    BY <1>0, <2>1, <2>2
<1>3. CASE b = [a EXCEPT !.bonded = a.intent]
  <2>1. c \in Account /\ (c.intent => c.bonded)
    BY <1>3 DEF Account
  <2>2. c.session = a.session /\ c.index = a.index
    BY <1>3 DEF Account
  <2> QED
    BY <1>0, <2>1, <2>2
<1>4. CASE \E i \in IF a.queued = None THEN {None} ELSE Index :
             b = [a EXCEPT !.queued = IF a.intent THEN a.next ELSE None, !.active = a.queued,
                           !.session = @ + 1, !.index = i]
  <2>1. PICK i \in Index \cup {None} :
             b = [a EXCEPT !.queued = IF a.intent THEN a.next ELSE None, !.active = a.queued,
                           !.session = @ + 1, !.index = i]
    BY <1>4
  <2>2. c \in Account /\ (c.intent => c.bonded)
    <3> DEFINE q  == IF a.intent THEN a.next ELSE None
               a1 == [a EXCEPT !.queued = q]
               a2 == [a1 EXCEPT !.active = a.queued]
               a3 == [a2 EXCEPT !.session = a.session + 1]
               a4 == [a3 EXCEPT !.index = i]
    <3>1. b = a4
      BY <2>1
    <3>2. q \in Tuple \cup {None} /\ a.queued \in Tuple \cup {None} /\ a.session + 1 \in Nat
      BY <1>0 DEF Account
    <3> HIDE DEF q
    <3>3. a1 \in Account /\ a1.intent = a.intent /\ a1.bonded = a.bonded
      BY <3>2 DEF Account
    <3> HIDE DEF a1
    <3>4. a2 \in Account /\ a2.intent = a.intent /\ a2.bonded = a.bonded
      BY <3>2, <3>3 DEF Account
    <3> HIDE DEF a2
    <3>5. a3 \in Account /\ a3.intent = a.intent /\ a3.bonded = a.bonded
      BY <3>2, <3>4 DEF Account
    <3> HIDE DEF a3
    <3>6. a4 \in Account /\ a4.intent = a.intent /\ a4.bonded = a.bonded
      BY <2>1, <3>5 DEF Account
    <3> QED
      BY <3>1, <3>6 DEF Account
  <2>3. c.session = a.session + 1
    BY <2>1 DEF Account
  <2> QED
    BY <1>0, <2>2, <2>3
<1> QED
  BY <1>1, <1>2, <1>3, <1>4 DEF Transactions

\* The finalized chain only grows, by an account that is as it should be.
LEMMA ChainGrows ==
  ASSUME ChainInv, [Next]_vars
  PROVE  /\ ChainInv'
         /\ Len(chain) <= Len(chain')
         /\ \A n \in 1 .. Len(chain) : chain'[n] = chain[n]
         /\ Latest.session \in Nat /\ Latest'.session \in Nat
         /\ Latest.session <= Latest'.session
         /\ \A n \in 1 .. Len(chain') :
              \/ n \in 1 .. Len(chain)
              \/ /\ Latest.session <= chain'[n].session /\ chain'[n].session \in Nat
                 /\ chain'[n].session = Latest.session => chain'[n].index = Latest.index
<1>0. Latest \in Account /\ Latest.session \in Nat
  <2>1. Latest \in Account
    BY DEF ChainInv, Latest
  <2> QED
    BY <2>1 DEF Account
<1>1. CASE UNCHANGED <<chain, expected>> /\ best' \in Fork /\ time' \in [converged : BOOLEAN, ready : BOOLEAN]
  BY <1>0, <1>1 DEF ChainInv, Latest
<1>2. CASE Finalize
  <2>1. Len(chain) \in Nat /\ Latest \in Account /\ (Latest.intent => Latest.bonded)
    BY DEF ChainInv, Latest
  <2>2. PICK b \in Transactions(Latest) : chain' = Append(chain, [b EXCEPT !.fork = best])
    BY <1>2 DEF Finalize
  <2> DEFINE c == [b EXCEPT !.fork = best]
  <2>3. /\ c \in Account /\ (c.intent => c.bonded)
        /\ Latest.session <= c.session
        /\ c.session = Latest.session => c.index = Latest.index
    <3>1. best \in Fork
      BY DEF ChainInv
    <3> QED
      BY <2>1, <2>2, <3>1, TransactionsAreAccounts
  <2>11. c.session \in Nat
    BY <2>3 DEF Account
  <2> HIDE DEF c
  <2>4. /\ chain' \in Seq(Account) /\ Len(chain') = Len(chain) + 1
        /\ \A n \in 1 .. Len(chain) : chain'[n] = chain[n]
        /\ chain'[Len(chain) + 1] = c
    BY <2>2, <2>3 DEF ChainInv, c
  <2>5. UNCHANGED <<best, time, expected>>
    BY <1>2 DEF Finalize, Moves, args
  <2>6. Latest' = c
    BY <2>1, <2>4 DEF Latest
  <2>7. \A n \in 1 .. Len(chain') :
          /\ chain'[n].session <= c.session
          /\ chain'[n].session = c.session => chain'[n].index = c.index
    <3> SUFFICES ASSUME NEW n \in 1 .. Len(chain), chain'[n] = chain[n]
                 PROVE  /\ chain[n].session <= c.session
                        /\ chain[n].session = c.session => chain[n].index = c.index
      BY <2>1, <2>3, <2>4, <2>11
    <3>0. chain[n] \in Account
      BY DEF ChainInv
    <3>1. chain[n].session \in Nat
      BY <3>0 DEF Account
    <3> QED
      BY <1>0, <2>3, <2>11, <3>1 DEF ChainInv
  <2>8. \A n \in 1 .. Len(chain') : n \in 1 .. Len(chain) \/ chain'[n] = c
    BY <2>1, <2>4
  <2>9. \A n \in 1 .. Len(chain') : chain'[n].intent => chain'[n].bonded
    BY <2>3, <2>4, <2>8 DEF ChainInv
  <2>10. ChainInv'
    <3>1. /\ chain' \in Seq(Account) /\ Len(chain') > 0
          /\ best' \in Fork /\ time' \in [converged : BOOLEAN, ready : BOOLEAN]
          /\ expected' \in Tuple \cup {None}
      BY <2>1, <2>4, <2>5 DEF ChainInv
    <3>2. \A n \in 1 .. Len(chain') :
            /\ chain'[n].session <= Latest.session'
            /\ chain'[n].session = Latest.session' => chain'[n].index = Latest.index'
      <4>1. Latest.session' = c.session /\ Latest.index' = c.index
        BY <2>6
      <4> QED
        BY <2>7, <4>1
    <3> QED
      BY <2>9, <3>1, <3>2 DEF ChainInv
  <2> QED
    BY <1>0, <2>1, <2>3, <2>4, <2>6, <2>8, <2>10, <2>11
<1>3. Finalize \/ (/\ UNCHANGED <<chain, expected>> /\ best' \in Fork
                   /\ time' \in [converged : BOOLEAN, ready : BOOLEAN])
  BY DEF Next, Check, World, Fails, ReadHead, ReadStorage, AskCustody, Observe, Report, AskProof,
         ReadRuntime, Conclude, Reorganize, ChangeKeys, ChangeNode, Moves, env, args, vars, ChainInv
<1> QED
  BY <1>1, <1>2, <1>3

-----------------------------------------------------------------------------
LEMMA InitInv == Init => CheckInv
<1> SUFFICES ASSUME Init PROVE CheckInv
  OBVIOUS
<1>1. PICK s \in Setup : /\ chain = <<s.account>> /\ best = s.account.fork
                         /\ expected = s.expected
                         /\ time \in [converged : {TRUE}, ready : BOOLEAN]
  BY DEF Init
<1>2. s.account \in Account /\ (s.account.intent => s.account.bonded)
      /\ s.expected \in Tuple \cup {None}
  BY TransitionAssumption
<1>3. ChainInv
  <2>1. time \in [converged : BOOLEAN, ready : BOOLEAN]
    BY <1>1
  <2>2. Len(chain) = 1 /\ chain[1] = s.account /\ chain \in Seq(Account)
    BY <1>1, <1>2
  <2> QED
    BY <1>1, <1>2, <2>1, <2>2 DEF ChainInv, Account, Latest
<1>4. pc = "head" /\ receipt = NoReceipt
  BY DEF Init
<1> QED
  BY <1>3, <1>4 DEF CheckInv, ReadInv, ReportInv, ProofInv, ReceiptInv, After, NoReceipt

\* Nothing around the check changes what it has read, and the chain keeps what
\* it had; a check that is done sees no change.
LEMMA WorldInv ==
  ASSUME CheckInv, World \/ UNCHANGED vars
  PROVE  CheckInv'
<1>1. UNCHANGED <<timing, expected, qualified, pc, head, read, custody, report, canonical,
                  spec, receipt, moment>>
  BY DEF World, Finalize, Reorganize, ChangeKeys, ChangeNode, Moves, args, vars
<1>2. /\ ChainInv'
      /\ Len(chain) \in Nat /\ Len(chain') \in Nat /\ Len(chain) <= Len(chain')
      /\ \A n \in 1 .. Len(chain) : chain'[n] = chain[n]
      /\ Latest.session \in Nat /\ Latest'.session \in Nat
      /\ Latest.session <= Latest'.session
      /\ \A n \in 1 .. Len(chain') :
           \/ n \in 1 .. Len(chain)
           \/ /\ Latest.session <= chain'[n].session /\ chain'[n].session \in Nat
              /\ chain'[n].session = Latest.session => chain'[n].index = Latest.index
  BY ChainGrows DEF CheckInv, ChainInv, Next
<1>3. ReadInv'
  BY <1>1, <1>2 DEF CheckInv, ReadInv
<1>4. ReportInv'
  <2> SUFFICES ASSUME pc \in {"proof", "runtime", "metadata", "receipt", "done"}
               PROVE  ReportInv'
    BY <1>1 DEF ReportInv
  <2> DEFINE then == moment.report.account
  <2>1. /\ then.session \in Nat /\ then.session <= Latest.session
        /\ \A n \in 1 .. Len(chain) : chain[n].session = then.session =>
                                      chain[n].index = then.index
    BY DEF CheckInv, ReportInv, Account
  <2>2. Latest.session = then.session => Latest.index = then.index
    BY <2>1 DEF CheckInv, ChainInv, Latest
  <2>3. then.session <= Latest'.session
    BY <1>2, <2>1
  <2>4. \A n \in 1 .. Len(chain') : chain'[n].session = then.session =>
                                   chain'[n].index = then.index
    BY <1>2, <2>1, <2>2
  <2> QED
    BY <1>1, <2>3, <2>4 DEF CheckInv, ReportInv, ValidTiming
<1>5. ProofInv'
  BY <1>1, <1>2 DEF CheckInv, ProofInv
<1>6. ReceiptInv'
  <2>1. pc = "done" => UNCHANGED runtime
    BY DEF World, Finalize, Reorganize, ChangeKeys, ChangeNode, Moves, Running, vars
  <2>2. pc = "done" => (Failures(runtime))' = Failures(runtime)
    BY <1>1, <2>1
    DEF Failures, If, KeyFailures, QueuedFailures, PeerFailures, TimeFailures,
        QualificationFailures, Active, Authored
  <2>3. Active' = Active /\ Authored' = Authored
    BY <1>1 DEF Active, Authored
  <2> QED
    BY <1>1, <2>1, <2>2, <2>3 DEF CheckInv, ReceiptInv
<1> QED
  BY <1>2, <1>3, <1>4, <1>5, <1>6 DEF CheckInv

\* A report is put together from the node's state of one moment.
LEMMA ReportStep ==
  ASSUME CheckInv, Report
  PROVE  ReportInv'
<1>1. PICK p \in Proofs : report' = Readiness(p)
  BY DEF Report
<1>2. /\ moment'.report = [account |-> Latest, keystore |-> keystore]
      /\ UNCHANGED timing /\ ValidTiming(timing, Readiness(None).time.ready)
  BY DEF Report, args, Captured
<1>3. /\ Latest \in Account /\ (Latest.intent => Latest.bonded)
      /\ Latest.session <= Latest.session
      /\ \A n \in 1 .. Len(chain) : chain[n].session = Latest.session =>
                                    chain[n].index = Latest.index
  BY DEF CheckInv, ChainInv, Latest
<1>4. p # None => p.number \in Nat \ {0}
  BY DEF Proofs, CheckInv, ChainInv, Height
<1>5. /\ report'.candidate = node.candidate
      /\ report'.expected = IF node.candidate = "account" THEN Latest.next ELSE None
      /\ report'.observed = keystore
      /\ report'.flags => Latest.intent
      /\ report'.queued \in {Absent, Latest.queued}
      /\ report'.index = Latest.index
      /\ report'.time = time /\ time \in [converged : BOOLEAN, ready : BOOLEAN]
      /\ report'.proof = p
  BY <1>1 DEF Readiness, CheckInv, ChainInv
<1>6. ValidTiming(timing, time.ready)
  BY <1>2 DEF Readiness
<1>7. ValidTiming(timing, report.time.ready)'
  BY <1>2, <1>5, <1>6 DEF ValidTiming
<1>8. UNCHANGED chain /\ Latest' = Latest
  BY DEF Report, env, Latest
<1> QED
  BY <1>2, <1>3, <1>4, <1>5, <1>7, <1>8 DEF ReportInv

\* The verdict is about what was read, and about the runtime as it is now.
LEMMA ConcludeStep ==
  ASSUME CheckInv, Conclude
  PROVE  ReceiptInv'
<1>1. /\ receipt'.safe <=> Failures(runtime) = {}
      /\ receipt'.author <=> Failures(runtime) = {} /\ Active
      /\ receipt'.proven <=> Failures(runtime) = {} /\ Active /\ Authored
  BY Zenon DEF Conclude
<1>2. /\ pc' = "done"
      /\ UNCHANGED <<timing, expected, qualified, runtime, read, custody, report, canonical, spec>>
  BY DEF Conclude, env, args
<1>3. (Failures(runtime))' = Failures(runtime)
  BY <1>2 DEF Failures, If, KeyFailures, QueuedFailures, PeerFailures, TimeFailures,
              QualificationFailures, Active, Authored
<1>4. Active' = Active /\ Authored' = Authored
  BY <1>2 DEF Active, Authored
<1> QED
  BY <1>1, <1>2, <1>3, <1>4 DEF ReceiptInv

LEMMA CheckStep ==
  ASSUME CheckInv, Check \/ Fails
  PROVE  CheckInv'
<1>1. ChainInv'
  BY ChainGrows DEF CheckInv, Next
<1>2. UNCHANGED <<chain, runtime, timing, expected, qualified>>
  BY DEF Check, Fails, ReadHead, ReadStorage, AskCustody, Observe, Report, AskProof,
         ReadRuntime, Conclude, env, args
<1>3. pc # "done" /\ (Conclude \/ UNCHANGED receipt)
  BY DEF Check, Fails, ReadHead, ReadStorage, AskCustody, Observe, Report, AskProof,
         ReadRuntime, Conclude, Running
<1>4. ReadInv'
  <2>1. CASE ReadHead
    BY <1>2, <2>1 DEF ReadHead, ReadInv, CheckInv, ChainInv, After, Height
  <2>2. CASE ReadStorage
    BY <1>2, <2>2 DEF ReadStorage, ReadInv, CheckInv, After
  <2>3. CASE AskCustody
    BY <1>2, <2>3 DEF AskCustody, ReadInv, CheckInv, After
  <2>4. CASE Observe \/ Report \/ AskProof \/ ReadRuntime \/ Conclude \/ Fails
    <3>1. /\ UNCHANGED <<head, read>>
          /\ pc' \in {"report", "proof", "receipt", "runtime", "metadata", "done", "error"}
          /\ pc' # "error" => pc \in After
      BY <2>4 DEF Observe, Report, AskProof, ReadRuntime, Conclude, Fails, After
    <3> QED
      BY <1>2, <3>1 DEF ReadInv, CheckInv, After
  <2> QED
    BY <2>1, <2>2, <2>3, <2>4 DEF Check
<1>5. ReportInv'
  <2>1. CASE Report
    BY <2>1, ReportStep
  <2>2. CASE AskProof \/ ReadRuntime \/ Conclude
    <3>1. UNCHANGED <<report, moment>> /\ pc \in {"proof", "runtime", "metadata", "receipt"}
      BY <2>2 DEF AskProof, ReadRuntime, Conclude
    <3>2. Latest' = Latest
      BY <1>2 DEF Latest
    <3> QED
      BY <1>2, <3>1, <3>2 DEF CheckInv, ReportInv, ValidTiming
  <2>3. CASE ReadHead \/ ReadStorage \/ AskCustody \/ Observe \/ Fails
    <3>1. pc' \in {"storage", "custody", "observe", "report", "error"}
      BY <2>3 DEF ReadHead, ReadStorage, AskCustody, Observe, Fails
    <3> QED
      BY <3>1 DEF ReportInv
  <2> QED
    BY <2>1, <2>2, <2>3 DEF Check
<1>6. ProofInv'
  <2>1. CASE AskProof
    <3>1. CASE canonical' = None
      BY <3>1 DEF ProofInv
    <3>2. CASE canonical' # None
      <4>1. /\ report.proof # None /\ report.proof.index = report.index
            /\ report.proof.number <= head
            /\ canonical' = BlockHash(report.proof.number) /\ pc = "proof" /\ UNCHANGED report
        BY <2>1, <3>2 DEF AskProof, AskedOf
      <4>2. report.proof.number \in 1 .. Len(chain)
        BY <4>1 DEF CheckInv, ChainInv, ReadInv, ReportInv, After
      <4>3. canonical' = chain[report.proof.number].fork
        BY <4>1, <4>2 DEF BlockHash, Height, CheckInv, ChainInv
      <4> QED
        BY <1>2, <4>1, <4>2, <4>3 DEF ProofInv
    <3> QED
      BY <3>1, <3>2
  <2>2. CASE ReadRuntime \/ Conclude
    <3>1. UNCHANGED <<report, canonical>> /\ pc \in {"runtime", "metadata", "receipt"}
      BY <2>2 DEF ReadRuntime, Conclude
    <3> QED
      BY <1>2, <3>1 DEF CheckInv, ProofInv
  <2>3. CASE ReadHead \/ ReadStorage \/ AskCustody \/ Observe \/ Report \/ Fails
    <3>1. pc' \in {"storage", "custody", "observe", "report", "proof", "error"}
      BY <2>3 DEF ReadHead, ReadStorage, AskCustody, Observe, Report, Fails
    <3> QED
      BY <3>1 DEF ProofInv
  <2> QED
    BY <2>1, <2>2, <2>3 DEF Check
<1>7. ReceiptInv'
  <2>1. CASE Conclude
    BY <2>1, ConcludeStep
  <2>2. CASE UNCHANGED receipt
    BY <1>3, <2>2 DEF CheckInv, ReceiptInv
  <2> QED
    BY <1>3, <2>1, <2>2
<1> QED
  BY <1>1, <1>4, <1>5, <1>6, <1>7 DEF CheckInv

LEMMA Invariant == Spec => []CheckInv
<1>1. CheckInv /\ [Next]_vars => CheckInv'
  BY CheckStep, WorldInv DEF Next
<1> QED
  BY <1>1, InitInv, PTL DEF Spec

-----------------------------------------------------------------------------
(* The theorems *)

\* Two tuples with the same key of each type are the same tuple.
LEMMA SameKeys ==
  ASSUME NEW t \in Tuple, NEW u \in Tuple, \A p \in Part : t[p] = u[p]
  PROVE  t = u
  BY TransitionAssumption

\* What a verdict without failures says.
LEMMA NoFailure ==
  ASSUME NEW metadata, Failures(metadata) = {}
  PROVE  /\ read.bonded /\ read.intent
         /\ read.next # None /\ read.next = expected /\ custody
         /\ KeyFailures(report) = {} /\ QueuedFailures(report) = {}
         /\ report.flags
         /\ Active => TimeFailures(report) = {} /\ Authored
         /\ QualificationFailures(metadata) = {}
  BY DEF Failures, If

\* An operator who acts on a safe verdict acts on what was true at one moment:
\* the account's registration, and the keys in the node's keystore.
THEOREM OneMoment == Spec => []SafeIsOneMoment
<1>1. CheckInv => SafeIsOneMoment
  <2> SUFFICES ASSUME CheckInv, receipt.safe
               PROVE  LET then == moment.report IN
                      /\ \A a \in {then.account, chain[head]} :
                           a.bonded /\ a.intent /\ a.next = expected
                      /\ All(expected) \subseteq then.keystore
                      /\ report.queued # Absent => then.account.queued \in {None, expected}
    BY DEF SafeIsOneMoment
  <2> DEFINE then == moment.report
  <2>1. pc = "done" /\ Failures(runtime) = {}
    BY DEF CheckInv, ReceiptInv
  <2>2. /\ read.bonded /\ read.intent /\ read.next # None /\ read.next = expected
        /\ KeyFailures(report) = {} /\ QueuedFailures(report) = {} /\ report.flags
    BY <2>1, NoFailure
  <2>3. read = chain[head]
    BY <2>1 DEF CheckInv, ReadInv, After
  <2>4. /\ then.account \in Account /\ (then.account.intent => then.account.bonded)
        /\ report.expected = then.account.next \/ report.expected = None
        /\ report.observed = then.keystore
        /\ report.flags => then.account.intent
        /\ report.queued \in {Absent, then.account.queued}
    BY <2>1 DEF CheckInv, ReportInv
  <2>5. \A p \in Part : /\ report.expected # None
                        /\ report.expected[p] = expected[p]
                        /\ <<p, expected[p]>> \in then.keystore
    BY <2>2, <2>4 DEF KeyFailures
  <2>6. then.account.next \in Tuple /\ expected \in Tuple
        /\ \A p \in Part : then.account.next[p] = expected[p]
    BY <2>2, <2>4, <2>5 DEF Account, CheckInv, ChainInv, Part
  <2>7. then.account.next = expected
    BY <2>6, SameKeys
  <2>8. report.queued # Absent => then.account.queued \in {None, expected}
    BY <2>2, <2>4 DEF QueuedFailures, If
  <2> QED
    BY <2>2, <2>3, <2>4, <2>5, <2>7, <2>8 DEF All
<1> QED
  BY <1>1, Invariant, PTL

\* Custody is only claimed of a tuple the node held, whichever way it was asked.
THEOREM TrueCustody == Spec => []CustodyIsTrue
<1>1. Init => CustodyIsTrue
  BY DEF Init, CustodyIsTrue
<1>2. CheckInv /\ CustodyIsTrue /\ [Next]_vars => CustodyIsTrue'
  <2> SUFFICES ASSUME CheckInv, CustodyIsTrue, [Next]_vars PROVE CustodyIsTrue'
    OBVIOUS
  <2>1. CASE AskCustody
    <3>1. CASE UNCHANGED <<custody, moment>>
      BY <2>1, <3>1 DEF AskCustody, CustodyIsTrue, All, args
    <3>2. CASE /\ custody' = (expected # None /\ Holds(expected))
               /\ moment' = [moment EXCEPT !.custody = keystore]
      <4>1. custody' => expected # None /\ All(expected) \subseteq keystore
        BY <3>2, Zenon DEF Holds
      <4>2. moment'.custody = keystore /\ UNCHANGED expected
        BY <2>1, <3>2 DEF AskCustody, args
      <4> QED
        BY <4>1, <4>2 DEF CustodyIsTrue, All
    <3> QED
      BY <2>1, <3>1, <3>2 DEF AskCustody
  <2>2. CASE Observe
    <3>1. /\ expected # None /\ UNCHANGED expected
          /\ moment'.custody = keystore
          /\ custody' => ObservedCustody(Readiness(None))
      BY <2>2 DEF Observe, CheckInv, ReadInv, args
    <3>2. custody' => \A p \in Part : <<p, expected[p]>> \in keystore
      BY <3>1 DEF ObservedCustody, Readiness
    <3> QED
      BY <3>1, <3>2 DEF CustodyIsTrue, All
  <2>3. CASE Report
    <3>1. UNCHANGED <<custody, expected>> /\ moment'.custody = moment.custody
      BY <2>3 DEF Report, args
    <3> QED
      BY <3>1 DEF CustodyIsTrue, All
  <2>4. CASE UNCHANGED <<custody, expected, moment>>
    BY <2>4 DEF CustodyIsTrue, All
  <2> QED
    BY <2>1, <2>2, <2>3, <2>4
    DEF Next, Check, World, Fails, ReadHead, ReadStorage, AskProof, ReadRuntime, Conclude,
        Finalize, Reorganize, ChangeKeys, ChangeNode, Moves, env, args, vars
<1> QED
  BY <1>1, <1>2, Invariant, PTL DEF Spec

\* The block of an authorship proof in a receipt is final; and in the session of
\* the report, though not in an earlier one, its author has the account's index.
THEOREM FinalAuthorship == Spec => []AuthorshipIsFinal
<1>1. CheckInv => AuthorshipIsFinal
  <2> SUFFICES ASSUME CheckInv, receipt.proven
               PROVE  LET proof == report.proof IN
                      /\ proof.number <= Height
                      /\ chain[proof.number].fork = proof.fork
                      /\ chain[proof.number].session = moment.report.account.session =>
                           chain[proof.number].index = proof.index
    BY DEF AuthorshipIsFinal
  <2>1. pc = "done" /\ canonical # None /\ canonical = report.proof.fork
    BY DEF CheckInv, ReceiptInv, Authored
  <2>2. /\ report.proof.index = moment.report.account.index
        /\ report.proof.number \in 1 .. Len(chain)
        /\ chain[report.proof.number].fork = canonical
    BY <2>1 DEF CheckInv, ReportInv, ProofInv
  <2>3. chain[report.proof.number].session = moment.report.account.session =>
          chain[report.proof.number].index = moment.report.account.index
    BY <2>1, <2>2 DEF CheckInv, ReportInv
  <2> QED
    BY <2>1, <2>2, <2>3 DEF CheckInv, ChainInv, Height
<1> QED
  BY <1>1, Invariant, PTL

\* safeToAuthor is only said of a node that is converged and ready, under a
\* policy that is enforced.
THEOREM OnTime == Spec => []AuthorsOnTime
<1>1. CheckInv => AuthorsOnTime
  <2> SUFFICES ASSUME CheckInv, receipt.author PROVE
        /\ report.time = [converged |-> TRUE, ready |-> TRUE]
        /\ timing.enforcement # None => timing.enforcement.grandpa # "LogOnly"
        /\ timing.profile # "absent" => ~timing.blocked
        /\ timing.profile = "STRICT" => timing.qualified
        /\ timing.quality \in {"low", "none"} =>
             timing.profile = "EARLY_TESTNET" /\ ~timing.blocked
    BY DEF AuthorsOnTime
  <2>1. pc = "done" /\ TimeFailures(report) = {} /\ ValidTiming(timing, report.time.ready)
    BY NoFailure DEF CheckInv, ReceiptInv, ReportInv
  <2>2. report.time \in [converged : BOOLEAN, ready : BOOLEAN]
    BY <2>1 DEF CheckInv, ReportInv
  <2>3. report.time.converged /\ report.time.ready
    BY <2>1 DEF TimeFailures, If
  <2>4. report.time = [converged |-> TRUE, ready |-> TRUE]
    BY <2>2, <2>3
  <2>5. /\ timing.enforcement # None => timing.enforcement.grandpa # "LogOnly"
        /\ timing.profile # "absent" => ~timing.blocked
    BY <2>1, <2>3 DEF ValidTiming
  <2>6. timing.profile = "STRICT" => timing.qualified
    BY <2>1, <2>3 DEF ValidTiming
  <2>7. timing.quality \in {"low", "none"} =>
          timing.profile = "EARLY_TESTNET" /\ ~timing.blocked
    BY <2>1, <2>3, <2>5 DEF ValidTiming
  <2> QED
    BY <2>4, <2>5, <2>6, <2>7
<1> QED
  BY <1>1, Invariant, PTL

\* The verdict is about the reviewed runtime, and it is the one that runs.
THEOREM Qualified == Spec => []QualifiedRuntime
<1>1. CheckInv => QualifiedRuntime
  <2> SUFFICES ASSUME CheckInv, receipt.safe PROVE runtime = qualified
    BY DEF QualifiedRuntime
  <2> QED
    BY NoFailure DEF CheckInv, ReceiptInv, QualificationFailures, If
<1> QED
  BY <1>1, Invariant, PTL

-----------------------------------------------------------------------------
(* A candidate that waits *)

\* As long as nothing moved, what the check has found is what is the case, and
\* holds nothing against a candidate that waits.
WaitInv ==
  /\ moves \in Nat /\ runtime \in {1, 2} /\ node \in Node
  /\ moves = 0 => Len(chain) = 1
  /\ pc = "done" /\ Failures(runtime) = {} => receipt.safe
  /\ Waiting =>
       /\ pc \in {"report", "proof", "runtime", "metadata", "receipt", "done"} => custody
       /\ pc \in {"proof", "runtime", "metadata", "receipt", "done"} =>
            /\ report.candidate = "account" /\ report.expected = expected
            /\ report.observed = keystore /\ report.flags /\ report.node = node
            /\ report.queued \in {Absent, None, expected}
            /\ report.queued = expected => report.matches
       /\ pc \in {"metadata", "done"} => spec = runtime
       /\ pc # "receipt"

LEMMA InitWait == Init => WaitInv
<1> SUFFICES ASSUME Init PROVE WaitInv
  OBVIOUS
<1>1. pc = "head" /\ moves = 0 /\ runtime = 1 /\ Len(chain) = 1 /\ node \in Node
  BY TransitionAssumption DEF Init
<1> QED
  BY <1>1 DEF WaitInv

\* What the check asks of a candidate that waits.
LEMMA NothingFails ==
  ASSUME CheckInv, WaitInv, Waiting, pc = "done"
  PROVE  Failures(runtime) = {}
<1>1. read = Latest /\ Latest.intent /\ Latest.bonded /\ Latest.next = expected
      /\ Latest.active = None
  <2>1. Len(chain) = 1 /\ read = chain[head] /\ head \in 1 .. 1
    BY DEF CheckInv, ReadInv, After, WaitInv, Waiting
  <2>2. read = Latest /\ (Latest.intent => Latest.bonded)
    BY <2>1 DEF CheckInv, ChainInv, Latest
  <2> QED
    BY <2>2 DEF Waiting
<1>2. /\ custody /\ spec = runtime /\ qualified = runtime /\ runtime # None
      /\ report.candidate = "account" /\ report.expected = expected
      /\ report.observed = keystore /\ report.flags /\ report.node = node
      /\ report.queued \in {Absent, None, expected}
      /\ report.queued = expected => report.matches
  BY TransitionAssumption DEF WaitInv, Waiting
<1>3. expected # None /\ \A p \in Part : <<p, expected[p]>> \in keystore
  BY DEF Waiting, Holds, All
<1>4. If(~read.bonded \/ ~read.intent, "candidacy") = {}
  BY <1>1 DEF If
<1>5. If(read.next = None \/ read.next # expected \/ ~custody, "tuple") = {}
  BY <1>1, <1>2, <1>3 DEF If
<1>6. KeyFailures(report) = {}
  BY <1>1, <1>2, <1>3 DEF KeyFailures
<1>7. If(report.candidate = "other", "account") = {} /\ If(~report.flags, "readiness") = {}
  BY <1>2 DEF If
<1>8. If(~report.node.synced, "sync") = {} /\ PeerFailures(report.node) = {}
  <2>1. node.minimum \in Nat /\ node.mapped \in Nat
    BY TransitionAssumption DEF WaitInv
  <2>2. node.synced /\ node.minimum >= 2 /\ node.mapped >= node.minimum
    BY DEF Waiting
  <2> QED
    BY <1>2, <2>1, <2>2 DEF If, PeerFailures
<1>9. QueuedFailures(report) = {}
  BY <1>2 DEF QueuedFailures, If
<1>10. QualificationFailures(runtime) = {}
  BY <1>2 DEF QualificationFailures, If
<1>11. ~Active
  BY <1>1 DEF Active
<1> QED
  BY <1>4, <1>5, <1>6, <1>7, <1>8, <1>9, <1>10, <1>11 DEF Failures

\* Without a change around it the check goes on from where it was.
LEMMA WaitStep ==
  ASSUME CheckInv, WaitInv, [Next]_vars
  PROVE  WaitInv'
<1>1. CASE World
  <2>1. moves' = moves + 1 /\ pc # "done" /\ UNCHANGED pc /\ moves \in Nat
    BY <1>1 DEF World, Finalize, Reorganize, ChangeKeys, ChangeNode, Moves, Running, WaitInv
  <2>2. ~Waiting' /\ moves' \in Nat /\ moves' # 0
    BY <2>1 DEF Waiting
  <2>3. runtime' \in {1, 2} /\ node' \in Node
    BY <1>1 DEF World, Finalize, Reorganize, ChangeKeys, ChangeNode, WaitInv
  <2> QED
    BY <2>1, <2>2, <2>3 DEF WaitInv
<1>2. CASE Check \/ Fails \/ UNCHANGED vars
  <2>1. UNCHANGED <<env, args>>
    BY <1>2 DEF Check, Fails, ReadHead, ReadStorage, AskCustody, Observe, Report, AskProof,
                ReadRuntime, Conclude, vars, env, args
  <2>2. Waiting' => Waiting
    BY <2>1 DEF env, args, Waiting, Latest, Holds, All
  <2>3. moves' \in Nat /\ runtime' \in {1, 2} /\ node' \in Node /\ (moves' = 0 => Len(chain') = 1)
    BY <2>1 DEF WaitInv, env
  <2>4. pc' = "done" /\ (Failures(runtime))' = {} => receipt'.safe
    <3>1. CASE Conclude
      <4>1. receipt'.safe <=> Failures(runtime) = {}
        BY <3>1, Zenon DEF Conclude
      <4>2. UNCHANGED <<timing, expected, qualified, runtime, read, custody, report, canonical, spec>>
        BY <3>1 DEF Conclude, env, args
      <4>3. (Failures(runtime))' = Failures(runtime)
        BY <4>2 DEF Failures, If, KeyFailures, QueuedFailures, PeerFailures, TimeFailures,
                    QualificationFailures, Active, Authored
      <4> QED
        BY <4>1, <4>3
    <3>2. CASE UNCHANGED vars
      <4>1. (Failures(runtime))' = Failures(runtime)
        BY <3>2 DEF vars, Failures, If, KeyFailures, QueuedFailures, PeerFailures, TimeFailures,
                    QualificationFailures, Active, Authored
      <4> QED
        BY <3>2, <4>1 DEF vars, WaitInv
    <3>3. CASE ReadHead \/ ReadStorage \/ AskCustody \/ Observe \/ Report \/ AskProof
               \/ ReadRuntime \/ Fails
      <4>1. pc' # "done"
        BY <3>3 DEF ReadHead, ReadStorage, AskCustody, Observe, Report, AskProof, ReadRuntime, Fails
      <4> QED
        BY <4>1
    <3> QED
      BY <1>2, <3>1, <3>2, <3>3 DEF Check
  <2> DEFINE Custody == pc \in {"report", "proof", "runtime", "metadata", "receipt", "done"} => custody
             Reported == pc \in {"proof", "runtime", "metadata", "receipt", "done"} =>
                           /\ report.candidate = "account" /\ report.expected = expected
                           /\ report.observed = keystore /\ report.flags /\ report.node = node
                           /\ report.queued \in {Absent, None, expected}
                           /\ report.queued = expected => report.matches
             Seen == (pc \in {"metadata", "done"} => spec = runtime) /\ pc # "receipt"
  <2>5. ASSUME Waiting', Waiting PROVE Custody' /\ Reported' /\ Seen'
    <3>0. Custody /\ Reported /\ Seen
      BY <2>5 DEF WaitInv
    <3>1. CASE UNCHANGED vars
      BY <3>0, <3>1 DEF vars
    <3>2. CASE ReadHead \/ ReadStorage \/ Fails
      <4>1. pc' \in {"storage", "custody", "error"}
        BY <3>2 DEF ReadHead, ReadStorage, Fails
      <4> QED
        BY <4>1
    <3>3. CASE AskCustody
      <4>1. pc' = "observe" \/ (pc' = "report" /\ custody' = (expected # None /\ Holds(expected)))
        BY <3>3 DEF AskCustody
      <4>2. Holds(expected) /\ expected # None
        BY <2>5 DEF Waiting, Holds
      <4> QED
        BY <4>1, <4>2
    <3>4. CASE Observe
      <4>1. pc' = "report" /\ custody' = ObservedCustody(Readiness(None))
        BY <3>4 DEF Observe
      <4>2. ObservedCustody(Readiness(None))
        BY <2>5 DEF ObservedCustody, Readiness, Waiting, Holds, All
      <4> QED
        BY <4>1, <4>2
    <3>5. CASE Report
      <4>1. PICK p \in Proofs : report' = Readiness(p)
        BY <3>5 DEF Report
      <4>2. pc' = "proof" /\ pc = "report" /\ UNCHANGED <<custody, keystore, node, expected>>
        BY <3>5 DEF Report, env, args
      <4>3. /\ report'.candidate = "account" /\ report'.expected = expected
            /\ report'.observed = keystore /\ report'.node = node
            /\ report'.queued \in {Absent, Latest.queued}
            /\ report'.matches = Holds(Latest.queued)
            /\ report'.flags = (Latest.intent /\ Holds(Latest.next))
        BY <2>5, <4>1 DEF Readiness, Waiting
      <4>4. /\ Holds(expected) /\ expected # None /\ Latest.intent /\ Latest.next = expected
            /\ Latest.queued \in {None, expected} /\ expected # Absent
        BY <2>5, TransitionAssumption DEF Waiting, Holds, CheckInv, ChainInv
      <4> QED
        BY <3>0, <4>2, <4>3, <4>4
    <3>6. CASE AskProof
      <4>1. pc = "proof" /\ pc' = "runtime"
            /\ UNCHANGED <<custody, report, keystore, node, expected>>
        BY <2>5, <3>6, TransitionAssumption DEF AskProof, env, args, Waiting, WaitInv
      <4> QED
        BY <3>0, <4>1
    <3>7. CASE ReadRuntime \/ Conclude
      <4>1. /\ pc \in {"runtime", "metadata"} /\ pc' \in {"metadata", "done"}
            /\ UNCHANGED <<custody, report, keystore, node, expected, runtime>>
            /\ spec' = runtime
        BY <3>0, <3>7 DEF ReadRuntime, Conclude, env, args
      <4> QED
        BY <3>0, <4>1
    <3> QED
      BY <1>2, <3>1, <3>2, <3>3, <3>4, <3>5, <3>6, <3>7 DEF Check
  <2> QED
    BY <2>2, <2>3, <2>4, <2>5 DEF WaitInv
<1> QED
  BY <1>1, <1>2 DEF Next

\* A candidate that waits for its election, on a node that is as it should be,
\* is never held back: if the check ends with a receipt, it is a safe one.
THEOREM WaitingAccepted == Spec => []WaitingIsAccepted
<1>1. CheckInv /\ WaitInv /\ [Next]_vars => WaitInv'
  BY WaitStep
<1>2. ASSUME WaitInv, CheckInv PROVE WaitingIsAccepted
  <2> SUFFICES ASSUME pc = "done", Waiting PROVE receipt.safe
    BY DEF WaitingIsAccepted
  <2>1. Failures(runtime) = {}
    BY <1>2, NothingFails
  <2> QED
    BY <1>2, <2>1 DEF WaitInv
<1> QED
  BY <1>1, <1>2, InitWait, Invariant, PTL DEF Spec

-----------------------------------------------------------------------------
(* Types *)

LEMMA InitType == Init => TypeOK
<1> SUFFICES ASSUME Init PROVE TypeOK
  OBVIOUS
<1>1. PICK s \in Setup : /\ chain = <<s.account>> /\ best = s.account.fork
                         /\ keystore = s.keystore /\ node = s.node /\ timing = s.timing
                         /\ expected = s.expected /\ qualified = s.qualified
  BY DEF Init
<1>2. /\ s.account \in Account /\ s.keystore \subseteq Keys /\ s.node \in Node
      /\ s.timing \in Timing /\ s.expected \in Tuple \cup {None}
      /\ s.qualified \in {1, 2, None} /\ MaxHeight \in Nat \ {0} /\ MaxMoves \in Nat
  BY TransitionAssumption
<1>3. chain \in Seq(Account) /\ Height = 1 /\ best \in Fork
  BY <1>1, <1>2 DEF Height, Account
<1>4. time \in [converged : BOOLEAN, ready : BOOLEAN]
  BY DEF Init
<1>5. /\ runtime = 1 /\ moves = 0 /\ pc = "head" /\ head = 0 /\ custody = FALSE
      /\ canonical = None /\ spec = 0
  BY DEF Init
<1>6. /\ Height \in 1 .. MaxHeight /\ moves \in 0 .. MaxMoves /\ head \in 0 .. Height
      /\ spec \in 0 .. 2 /\ pc \in Label
  BY <1>2, <1>3, <1>5 DEF Label
<1>7. /\ pc # "done"
      /\ pc \notin {"custody", "observe", "report", "proof", "runtime", "metadata", "receipt"}
  BY <1>5
<1> QED
  BY <1>1, <1>2, <1>3, <1>4, <1>5, <1>6, <1>7 DEF TypeOK

LEMMA WorldType ==
  ASSUME TypeOK, CheckInv, World
  PROVE  TypeOK'
<1>1. /\ moves \in Nat /\ moves < MaxMoves /\ moves' = moves + 1 /\ MaxMoves \in Nat
      /\ UNCHANGED <<timing, expected, qualified, pc, head, read, custody, canonical, spec, receipt>>
  BY TransitionAssumption
  DEF World, Finalize, Reorganize, ChangeKeys, ChangeNode, Moves, args, TypeOK
<1>2. /\ chain' \in Seq(Account) /\ Height <= Height' /\ Height' \in 1 .. MaxHeight
      /\ best' \in Fork /\ time' \in [converged : BOOLEAN, ready : BOOLEAN]
  <2>1. ChainInv' /\ Height <= Height' /\ Height \in 1 .. MaxHeight
    BY ChainGrows DEF CheckInv, Next, Height, TypeOK
  <2>2. CASE UNCHANGED chain
    BY <2>1, <2>2 DEF ChainInv, Height
  <2>3. CASE Finalize
    <3>1. PICK b \in Transactions(Latest) : chain' = Append(chain, [b EXCEPT !.fork = best])
      BY <2>3 DEF Finalize
    <3>2. Height' = Height + 1 /\ Height < MaxHeight
      BY <2>3, <3>1 DEF Finalize, Height, CheckInv, ChainInv
    <3> QED
      BY <2>1, <3>2, TransitionAssumption DEF ChainInv
  <2> QED
    BY <2>2, <2>3 DEF World, Reorganize, ChangeKeys, ChangeNode
<1>3. keystore' \subseteq Keys
  <2>1. \A t \in Tuple : All(t) \subseteq Keys
    BY TransitionAssumption DEF All, Keys
  <2> QED
    BY <2>1 DEF World, Finalize, Reorganize, ChangeKeys, ChangeNode, TypeOK
<1>4. node' \in Node /\ runtime' \in {1, 2}
  BY DEF World, Finalize, Reorganize, ChangeKeys, ChangeNode, TypeOK
<1>5. head' \in 0 .. Height'
  BY <1>1, <1>2 DEF TypeOK
<1> QED
  BY <1>1, <1>2, <1>3, <1>4, <1>5 DEF TypeOK

LEMMA CheckType ==
  ASSUME TypeOK, CheckInv, Check \/ Fails
  PROVE  TypeOK'
<1>1. UNCHANGED <<env, args, Height>>
  BY DEF Check, Fails, ReadHead, ReadStorage, AskCustody, Observe, Report, AskProof,
         ReadRuntime, Conclude, env, Height
<1>2. pc' \in Label
  BY DEF Check, Fails, ReadHead, ReadStorage, AskCustody, Observe, Report, AskProof,
         ReadRuntime, Conclude, Label
<1>3. head' \in 0 .. Height
  BY DEF Check, Fails, ReadHead, ReadStorage, AskCustody, Observe, Report, AskProof,
         ReadRuntime, Conclude, TypeOK
<1>4. custody' \in BOOLEAN
  <2>1. CASE UNCHANGED custody
    BY <2>1 DEF TypeOK
  <2>2. CASE AskCustody
    BY <2>2, Zenon DEF AskCustody, TypeOK
  <2>3. CASE Observe
    BY <2>3, Zenon DEF Observe, ObservedCustody
  <2> QED
    BY <2>1, <2>2, <2>3 DEF Check, Fails, ReadHead, ReadStorage, Report, AskProof, ReadRuntime, Conclude
<1>5. canonical' \in Fork \cup {None}
  <2>1. CASE AskProof
    <3>1. CASE canonical' = None
      BY <3>1
    <3>2. CASE canonical' # None
      <4>1. /\ report.proof # None /\ report.proof.number <= head
            /\ canonical' = BlockHash(report.proof.number) /\ pc = "proof"
        BY <2>1, <3>2 DEF AskProof, AskedOf
      <4>2. report.proof.number \in 1 .. Len(chain)
        BY <4>1 DEF CheckInv, ChainInv, ReadInv, ReportInv, After
      <4>3. chain[report.proof.number] \in Account /\ Len(chain) \in Nat
        BY <4>2 DEF CheckInv, ChainInv
      <4>4. canonical' = chain[report.proof.number].fork
        BY <4>1, <4>2, <4>3 DEF BlockHash, Height
      <4> QED
        BY <4>3, <4>4 DEF Account
    <3> QED
      BY <3>1, <3>2
  <2>2. CASE UNCHANGED canonical
    BY <2>2 DEF TypeOK
  <2> QED
    BY <2>1, <2>2 DEF Check, Fails, ReadHead, ReadStorage, AskCustody, Observe, Report,
                      ReadRuntime, Conclude
<1>6. spec' \in 0 .. 2
  BY DEF Check, Fails, ReadHead, ReadStorage, AskCustody, Observe, Report, AskProof,
         ReadRuntime, Conclude, TypeOK
<1>7. pc' \in {"custody", "observe", "report", "proof", "runtime", "metadata", "receipt"} =>
        read' \in Account
  <2>1. CASE ReadStorage
    BY <2>1 DEF ReadStorage, CheckInv, ChainInv, ReadInv
  <2>2. CASE ReadHead
    BY <2>2 DEF ReadHead
  <2>3. CASE AskCustody \/ Observe \/ Report \/ AskProof \/ ReadRuntime \/ Conclude \/ Fails
    <3>1. UNCHANGED read /\ (pc' = "error" \/
            pc \in {"custody", "observe", "report", "proof", "runtime", "metadata", "receipt"})
      BY <2>3 DEF AskCustody, Observe, Report, AskProof, ReadRuntime, Conclude, Fails
    <3> QED
      BY <3>1 DEF TypeOK
  <2> QED
    BY <2>1, <2>2, <2>3 DEF Check
<1>8. pc' = "done" => receipt'.safe = (receipt'.failed = {})
  <2>1. CASE Conclude
    BY <2>1, Zenon DEF Conclude
  <2>2. CASE ~Conclude
    BY <2>2 DEF Check, Fails, ReadHead, ReadStorage, AskCustody, Observe, Report, AskProof, ReadRuntime
  <2> QED
    BY <2>1, <2>2
<1> QED
  BY <1>1, <1>2, <1>3, <1>4, <1>5, <1>6, <1>7, <1>8 DEF TypeOK, env, args, Height

\* Every variable has its type, in every reachable state.
THEOREM TypeCorrect == Spec => []TypeOK
<1>1. ASSUME TypeOK, UNCHANGED vars PROVE TypeOK'
  BY <1>1 DEF TypeOK, vars, Height
<1>2. TypeOK /\ CheckInv /\ [Next]_vars => TypeOK'
  BY <1>1, WorldType, CheckType DEF Next
<1> QED
  BY <1>2, InitType, Invariant, PTL DEF Spec
=============================================================================
