------------------------- MODULE ValidatorWatchProofs -------------------------
(***************************************************************************)
(* For any accounts, authority indices, chains, falls of the node and      *)
(* numbers of samples: a sample describes one finalized block, and what    *)
(* the watch accepts as the candidate's blocks are its own, authored after *)
(* it was last seen unready.                                               *)
(***************************************************************************)
EXTENDS ValidatorWatch, WellFoundedInduction, TLAPS

\* Sessions never go back along the finalized chain.
ChainInv ==
  \A m, n \in 1 .. Len(chain) : m <= n => chain[m].session <= chain[n].session

\* s describes the node at the block of its height.
IsSnapshot(s) ==
  /\ s.height \in 1 .. Len(chain)
  /\ s.session = chain[s.height].session
  /\ s.index = index[s.candidate][s.session]

ReportInv ==
  /\ pc \in {"head", "report", "verify"} => N < Samples
  /\ pc \in {"report", "verify"} => head \in 1 .. Len(chain)
  /\ pc = "verify" => report \in Report /\ IsSnapshot(report)

\* Its proof of authorship is of a block that its index authored.
Describes(s) ==
  /\ IsSnapshot(s)
  /\ s.proof # 0 => s.proof \in 1 .. s.height /\ chain[s.proof].author = s.index

SamplesInv == \A i \in 1 .. N : Describes(samples[i])

VerdictInv == verdict = "accepted" => pc = "done" /\ Passed

WatchInv == TypeOK /\ ChainInv /\ ReportInv /\ SamplesInv /\ VerdictInv

-----------------------------------------------------------------------------
(* The least of some numbers *)
Below == {ss \in Nat \X Nat : ss[1] < ss[2]}

LEMMA Least ==
  ASSUME NEW S \in SUBSET Nat, S # {}
  PROVE  \E m \in S : \A n \in S : m <= n
<1>1. IsWellFoundedOn(Below, Nat)
  BY NatLessThanWellFounded DEF OpToRel, Below
<1>2. PICK m \in S : \A n \in S : ~ (<<n, m>> \in Below)
  BY <1>1, WFMin
<1>3. ASSUME NEW n \in S PROVE m <= n
  <2>1. m \in Nat /\ n \in Nat /\ ~ (<<n, m>> \in Below)
    BY <1>2
  <2> QED
    BY <2>1 DEF Below
<1> QED
  BY <1>3

-----------------------------------------------------------------------------
(* The invariant *)

\* A finalized block that is appended is of the last session or the next.
LEMMA ChainGrows ==
  ASSUME WatchInv, [Next]_vars
  PROVE  /\ chain' \in Seq(Block) /\ Len(chain') \in Height
         /\ Len(chain) <= Len(chain')
         /\ \A n \in 1 .. Len(chain) : chain'[n] = chain[n]
         /\ ChainInv'
         /\ UNCHANGED <<index, boundary>>
<1>1. UNCHANGED <<index, boundary>>
  BY DEF Next, Advance, FallBack, ChangeCandidate, Upset, Step, ReadHead, ReadReport, Take, Retry,
         Fail, Evaluate, vars, node, tool
<1>2. CASE UNCHANGED chain
  BY <1>1, <1>2 DEF WatchInv, TypeOK, ChainInv, Height
<1>3. ASSUME NEW b \in Block, height = Len(chain), height < MaxHeight,
             b.session \in chain[height].session .. chain[height].session + 1,
             chain' = Append(chain, b)
      PROVE  /\ chain' \in Seq(Block) /\ Len(chain') \in Height
             /\ Len(chain) <= Len(chain')
             /\ \A n \in 1 .. Len(chain) : chain'[n] = chain[n]
             /\ ChainInv'
  <2>1. /\ chain \in Seq(Block) /\ Len(chain) \in Nat \ {0} /\ MaxHeight \in Nat
    BY WatchAssumption DEF WatchInv, TypeOK, Height
  <2>2. /\ chain' \in Seq(Block) /\ Len(chain') = Len(chain) + 1
        /\ \A n \in 1 .. Len(chain) : chain'[n] = chain[n]
        /\ chain'[Len(chain) + 1] = b
    BY <1>3, <2>1
  <2>3. /\ \A n \in 1 .. Len(chain) : chain[n].session \in Nat
        /\ b.session \in Nat /\ chain[Len(chain)].session <= b.session
    <3>1. \A n \in 1 .. Len(chain) : chain[n] \in Block
      BY <2>1
    <3>2. \A c \in Block : c.session \in Nat
      BY WatchAssumption DEF Block, Session
    <3> QED
      BY <1>3, <2>1, <3>1, <3>2
  <2>4. \A m, n \in 1 .. Len(chain) + 1 : m <= n => chain'[m].session <= chain'[n].session
    BY <2>1, <2>2, <2>3 DEF WatchInv, ChainInv
  <2> QED
    BY <1>3, <2>1, <2>2, <2>4 DEF ChainInv, Height
<1> QED
  BY <1>1, <1>2, <1>3
  DEF Next, Advance, FallBack, ChangeCandidate, Step, ReadHead, ReadReport, Take, Retry, Fail,
      Evaluate, vars, node, tool

\* What describes a block goes on describing it.
LEMMA SnapshotStays ==
  ASSUME WatchInv, [Next]_vars, NEW s, IsSnapshot(s)
  PROVE  IsSnapshot(s)'
  BY ChainGrows DEF IsSnapshot, WatchInv, TypeOK, Height

\* What a report may claim is no block, one that is not final, or one that the
\* claimed index authored.
LEMMA ClaimNumbers ==
  ASSUME NEW r, r.height \in Nat, NEW p \in Claims(r)
  PROVE  /\ p.number \in Nat
         /\ p.canonical /\ p.number <= r.height /\ p.number # 0 =>
              p.number \in 1 .. r.height /\ p.authority = chain[p.number].author
<1>1. CASE p = NoClaim
  BY <1>1 DEF NoClaim
<1>2. CASE p \in [number : {r.height}, authority : {r.index}, canonical : {FALSE}]
  BY <1>2
<1>3. CASE p \in [number : {r.height + 1}, authority : {r.index}, canonical : {TRUE}]
  BY <1>3
<1>4. CASE \E n \in 1 .. r.height :
            p = [number |-> n, authority |-> chain[n].author, canonical |-> TRUE]
  <2>1. PICK n \in 1 .. r.height : p.number = n /\ p.authority = chain[n].author
    BY <1>4
  <2> QED
    BY <2>1
<1>5. \/ p = NoClaim
      \/ p \in [number : {r.height}, authority : {r.index}, canonical : {FALSE}]
      \/ p \in [number : {r.height + 1}, authority : {r.index}, canonical : {TRUE}]
      \/ \E n \in 1 .. r.height :
           p = [number |-> n, authority |-> chain[n].author, canonical |-> TRUE]
  BY DEF Claims
<1> QED
  BY <1>1, <1>2, <1>3, <1>4, <1>5

LEMMA TypeStep == WatchInv /\ [Next]_vars => TypeOK'
<1> SUFFICES ASSUME WatchInv, [Next]_vars PROVE TypeOK'
  OBVIOUS
<1>1. /\ chain' \in Seq(Block) /\ Len(chain') \in Height /\ Len(chain) <= Len(chain')
      /\ index' \in [Account -> [Session -> Index]] /\ boundary' \in BOOLEAN
  BY ChainGrows DEF WatchInv, TypeOK
<1>2. TypeOK
  BY DEF WatchInv
<1>3. Len(chain) \in 1 .. MaxHeight /\ MaxHeight \in Nat /\ Samples \in Nat
  BY <1>2, WatchAssumption DEF TypeOK, Height
<1>4. CASE UNCHANGED vars
  BY <1>2, <1>4 DEF vars, TypeOK
<1>5. CASE Advance
  <2>1. height' \in 1 .. Len(chain')
    <3>1. height \in 1 .. Len(chain) /\ height' = height + 1
      BY <1>2, <1>5 DEF Advance, TypeOK
    <3>2. height < Len(chain) \/ Len(chain') = Len(chain) + 1
      BY <1>2, <1>5 DEF Advance, TypeOK
    <3> QED
      BY <1>1, <1>3, <3>1, <3>2 DEF Height
  <2> QED
    BY <1>1, <1>2, <1>5, <2>1 DEF Advance, TypeOK, tool
<1>6. CASE FallBack \/ ChangeCandidate
  BY <1>2, <1>3, <1>6, WatchAssumption DEF FallBack, ChangeCandidate, Upset, TypeOK, tool
<1>7. CASE ReadHead
  BY <1>2, <1>3, <1>7 DEF ReadHead, TypeOK, node
<1>8. CASE ReadReport
  <2>1. height \in Height /\ chain[height].session \in Session /\ candidate \in Account
        /\ index[candidate][chain[height].session] \in Index
    <3>1. height \in 1 .. Len(chain) /\ chain \in Seq(Block) /\ candidate \in Account
      BY <1>2 DEF TypeOK
    <3>2. chain[height] \in Block
      BY <3>1
    <3>3. chain[height].session \in Session
      BY <3>2 DEF Block
    <3> QED
      BY <1>2, <1>3, <3>1, <3>3 DEF TypeOK, Height
  <2>2. report' \in Report
    BY <1>8, <2>1 DEF ReadReport, Report
  <2> QED
    BY <1>2, <1>8, <2>2 DEF ReadReport, TypeOK, node
<1>9. CASE Take
  <2>1. report \in Report /\ head \in 1 .. Len(chain) /\ report.height = head
    BY <1>9 DEF Take, Agrees, WatchInv, ReportInv
  <2>2. ASSUME NEW p \in Claims(report) PROVE Proven(report, p) \in 0 .. MaxHeight
    <3>1. p.number \in Nat
      <4>1. report.height \in Nat
        BY <1>3, <2>1 DEF Report, Height
      <4> QED
        BY <2>2, <4>1, ClaimNumbers
    <3> QED
      BY <1>3, <2>1, <3>1 DEF Proven
  <2>3. PICK p \in Claims(report) : samples' = Append(samples,
          [height |-> head, session |-> report.session, candidate |-> report.candidate,
           index |-> report.index, ready |-> report.ready, proof |-> Proven(report, p)])
    BY <1>9 DEF Take
  <2>4. [height |-> head, session |-> report.session, candidate |-> report.candidate,
         index |-> report.index, ready |-> report.ready, proof |-> Proven(report, p)] \in Sample
    BY <1>3, <2>1, <2>2 DEF Report, Sample, Height
  <2>5. samples' \in Seq(Sample) /\ Len(samples') = N + 1
    BY <1>2, <2>3, <2>4 DEF TypeOK, N
  <2>6. N < Samples /\ N \in Nat
    BY <1>2, <1>9 DEF Take, WatchInv, ReportInv, TypeOK, N
  <2> QED
    BY <1>2, <1>3, <1>9, <2>5, <2>6 DEF Take, TypeOK, N, node
<1>10. CASE Retry
  BY <1>2, <1>3, <1>10 DEF Retry, TypeOK, node
<1>11. CASE Fail
  BY <1>2, <1>3, <1>11 DEF Fail, TypeOK, node
<1>12. CASE Evaluate
  BY <1>2, <1>12 DEF Evaluate, TypeOK, node
<1> QED
  BY <1>4, <1>5, <1>6, <1>7, <1>8, <1>9, <1>10, <1>11, <1>12 DEF Next, Step

\* The report is of the block that is the node's last finalized one.
LEMMA ReportStep == WatchInv /\ [Next]_vars => ReportInv'
<1> SUFFICES ASSUME WatchInv, [Next]_vars PROVE ReportInv'
  OBVIOUS
<1>1. /\ Len(chain) \in Nat /\ Len(chain') \in Nat /\ Len(chain) <= Len(chain')
  BY ChainGrows, WatchAssumption DEF WatchInv, TypeOK, Height
<1>2. CASE UNCHANGED tool \/ UNCHANGED vars
  <2>1. UNCHANGED <<pc, head, report, samples>>
    BY <1>2 DEF tool, vars
  <2> QED
    BY <1>1, <2>1, SnapshotStays DEF WatchInv, ReportInv, N
<1>3. CASE ReadHead
  BY <1>1, <1>3 DEF ReadHead, WatchInv, TypeOK, ReportInv, N, node
<1>4. CASE ReadReport
  <2>1. height \in 1 .. Len(chain) /\ UNCHANGED <<chain, index, samples, head>> /\ pc = "report"
    BY <1>4 DEF ReadReport, WatchInv, TypeOK, node
  <2>2. /\ report'.height = height /\ report'.session = chain[height].session
        /\ report'.candidate = candidate
        /\ report'.index = index[candidate][chain[height].session]
    BY <1>4 DEF ReadReport
  <2>3. report' \in Report
    <3>1. chain \in Seq(Block) /\ candidate \in Account /\ height \in Height
          /\ index \in [Account -> [Session -> Index]]
      BY <1>1, <2>1, WatchAssumption DEF WatchInv, TypeOK, Height
    <3>2. chain[height] \in Block
      BY <2>1, <3>1
    <3>3. chain[height].session \in Session
      BY <3>2 DEF Block
    <3> QED
      BY <1>4, <3>1, <3>3 DEF ReadReport, Report
  <2>4. IsSnapshot(report)'
    BY <2>1, <2>2 DEF IsSnapshot
  <2> QED
    BY <1>4, <2>1, <2>3, <2>4 DEF WatchInv, ReportInv, N
<1>5. CASE Take
  <2>1. /\ pc' \in {"head", "evaluate"} /\ (pc' = "head" => N + 1 # Samples)
        /\ \E s : samples' = Append(samples, s)
        /\ N \in Nat /\ Samples \in Nat /\ N < Samples /\ samples \in Seq(Sample)
    BY <1>5, WatchAssumption DEF Take, WatchInv, ReportInv, TypeOK, N
  <2>2. N' = N + 1
    BY <2>1 DEF N
  <2> QED
    BY <2>1, <2>2 DEF ReportInv
<1>6. CASE Retry \/ Fail \/ Evaluate
  <2>1. pc' = "done" \/ (pc' = "head" /\ pc = "verify" /\ UNCHANGED samples)
    BY <1>6 DEF Retry, Fail, Evaluate
  <2> QED
    BY <2>1 DEF ReportInv, WatchInv, N
<1> QED
  BY <1>2, <1>3, <1>4, <1>5, <1>6 DEF Next, Step, Advance, FallBack, ChangeCandidate

\* A sample is taken from a report of its own height.
LEMMA SamplesStep == WatchInv /\ [Next]_vars => SamplesInv'
<1> SUFFICES ASSUME WatchInv, [Next]_vars PROVE SamplesInv'
  OBVIOUS
<1>1. /\ Len(chain) \in Nat /\ Len(chain') \in Nat /\ Len(chain) <= Len(chain')
      /\ \A n \in 1 .. Len(chain) : chain'[n] = chain[n]
  BY ChainGrows, WatchAssumption DEF WatchInv, TypeOK, Height
<1>2. ASSUME NEW i \in 1 .. N, NEW s, s = samples[i]
      PROVE  Describes(s)'
  <2>1. Describes(s) /\ s.height \in 1 .. Len(chain)
    BY <1>2 DEF WatchInv, SamplesInv, Describes, IsSnapshot
  <2>2. IsSnapshot(s)'
    BY <2>1, SnapshotStays DEF Describes
  <2> QED
    BY <1>1, <2>1, <2>2 DEF Describes
<1>3. CASE UNCHANGED samples
  BY <1>2, <1>3 DEF SamplesInv, N, Describes, IsSnapshot
<1>4. CASE samples' = <<>>
  BY <1>4 DEF SamplesInv, N
<1>5. CASE Take
  <2>1. /\ report \in Report /\ head \in 1 .. Len(chain) /\ report.height = head
        /\ IsSnapshot(report) /\ report.height \in Nat
    BY <1>1, <1>5 DEF Take, Agrees, WatchInv, ReportInv
  <2> DEFINE Sampled(p) ==
        [height |-> head, session |-> report.session, candidate |-> report.candidate,
         index |-> report.index, ready |-> report.ready, proof |-> Proven(report, p)]
  <2>0. PICK p \in Claims(report) : samples' = Append(samples, Sampled(p))
    BY <1>5 DEF Take
  <2>2. PICK s : samples' = Append(samples, s) /\ s = Sampled(p)
    BY <2>0
  <2>3. UNCHANGED <<chain, index>>
    BY <1>5 DEF Take, node
  <2>4. IsSnapshot(s)'
    BY <2>1, <2>2, <2>3 DEF IsSnapshot
  <2>5. ASSUME Proven(report, p) # 0
        PROVE  Proven(report, p) \in 1 .. head /\ chain[Proven(report, p)].author = report.index
    <3>1. /\ p.canonical /\ p.number <= head /\ p.authority = report.index
          /\ Proven(report, p) = p.number
      BY <2>5 DEF Proven
    <3> QED
      BY <2>1, <2>5, <3>1, ClaimNumbers
  <2>6. Describes(s)'
    BY <2>2, <2>3, <2>4, <2>5 DEF Describes
  <2>7. /\ Len(samples') = N + 1 /\ samples'[N + 1] = s /\ N \in Nat
        /\ \A i \in 1 .. N : samples'[i] = samples[i]
    BY <2>2 DEF WatchInv, TypeOK, N
  <2>8. ASSUME NEW i \in 1 .. N + 1, NEW t, t = samples'[i] PROVE Describes(t)'
    <3>1. CASE i = N + 1
      BY <2>6, <2>7, <2>8, <3>1
    <3>2. CASE i \in 1 .. N
      BY <1>2, <2>7, <2>8, <3>2
    <3> QED
      BY <2>7, <3>1, <3>2
  <2> QED
    BY <2>7, <2>8 DEF SamplesInv, N, Describes, IsSnapshot
<1> QED
  BY <1>3, <1>4, <1>5
  DEF Next, Step, Advance, FallBack, ChangeCandidate, ReadHead, ReadReport, Retry, Fail, Evaluate,
      tool, vars

\* The verdict is about the samples and the arguments only.
LEMMA SameVerdict == UNCHANGED <<samples, boundary>> => (Passed' <=> Passed)
<1> SUFFICES ASSUME samples' = samples, boundary' = boundary PROVE Passed' <=> Passed
  OBVIOUS
<1>1. N' = N
  BY DEF N
<1>2. Window' = Window
  BY <1>1 DEF Window
<1>3. \A i : First(i)' = First(i)
  BY <1>2 DEF First
<1>4. \A i : Newer(i)' <=> Newer(i)
  BY <1>3 DEF Newer
<1>5. Proofs' = Proofs
  BY <1>1, <1>2, <1>4 DEF Proofs
<1>6. /\ FinalityAdvanced' <=> FinalityAdvanced
      /\ FinalityMonotonic' <=> FinalityMonotonic
      /\ SessionMonotonic' <=> SessionMonotonic
      /\ IdentityStable' <=> IdentityStable
      /\ CrossedSession' <=> CrossedSession
  BY <1>1, <1>2
  DEF FinalityAdvanced, FinalityMonotonic, SessionMonotonic, IdentityStable, CrossedSession
<1> QED
  BY <1>2, <1>5, <1>6 DEF Passed

\* The samples of a verdict stay as they were.
LEMMA VerdictStep == WatchInv /\ [Next]_vars => VerdictInv'
<1> SUFFICES ASSUME WatchInv, [Next]_vars PROVE VerdictInv'
  OBVIOUS
<1>1. CASE Evaluate
  <2>1. UNCHANGED <<samples, boundary>> /\ pc' = "done" /\ (verdict' = "accepted" => Passed)
    BY <1>1 DEF Evaluate
  <2> QED
    BY <2>1, SameVerdict DEF VerdictInv
<1>2. CASE verdict' # "accepted"
  BY <1>2 DEF VerdictInv
<1>3. CASE UNCHANGED verdict /\ ~Evaluate /\ verdict = "accepted"
  <2>1. UNCHANGED <<pc, samples, boundary>>
    BY <1>3 DEF WatchInv, VerdictInv, Next, Step, Advance, FallBack, ChangeCandidate, Moving,
                Upset, ReadHead, ReadReport, Take, Retry, Fail, tool, vars
  <2> QED
    BY <1>3, <2>1, SameVerdict DEF WatchInv, VerdictInv
<1> QED
  BY <1>1, <1>2, <1>3
  DEF Next, Step, Advance, FallBack, ChangeCandidate, ReadHead, ReadReport, Take, Retry, Fail,
      tool, vars

LEMMA Invariant == Spec => []WatchInv
<1>1. Init => WatchInv
  <2> SUFFICES ASSUME Init PROVE WatchInv
    OBVIOUS
  <2>1. PICK b \in [session : {0}, author : Authority] : chain = <<b>>
    BY DEF Init
  <2>2. b \in Block /\ Len(chain) = 1 /\ chain[1] = b /\ chain \in Seq(Block)
    BY <2>1, WatchAssumption DEF Block, Session
  <2>3. TypeOK
    BY <2>2, WatchAssumption DEF Init, TypeOK, Height
  <2>4. ChainInv
    BY <2>2 DEF ChainInv, Block, Session
  <2>5. ReportInv /\ SamplesInv /\ VerdictInv
    BY WatchAssumption DEF Init, ReportInv, SamplesInv, VerdictInv, N
  <2> QED
    BY <2>3, <2>4, <2>5 DEF WatchInv
<1>2. WatchInv /\ [Next]_vars => WatchInv'
  BY ChainGrows, TypeStep, ReportStep, SamplesStep, VerdictStep DEF WatchInv
<1> QED
  BY <1>1, <1>2, PTL DEF Spec

-----------------------------------------------------------------------------
(* The theorems *)

\* Every variable has its type, in every reachable state.
THEOREM TypeCorrect == Spec => []TypeOK
  BY Invariant, PTL DEF WatchInv

\* A sample describes the node at one finalized block.
THEOREM Snapshots == Spec => []SampleIsSnapshot
<1>1. WatchInv => SampleIsSnapshot
  BY DEF WatchInv, SamplesInv, Describes, IsSnapshot, SampleIsSnapshot
<1> QED
  BY <1>1, Invariant, PTL

\* A sample of the window whose proof is newer than its baseline has a proof of
\* a block of the candidate's own, in the session of the sample.
LEMMA NewerIsAuthored ==
  ASSUME WatchInv, Passed, NEW i \in Window, Newer(i)
  PROVE  /\ samples[i].proof \in 1 .. Len(chain)
         /\ Authored(samples[N].candidate, samples[i].proof)
         /\ chain[samples[i].proof].session = samples[i].session
<1>1. i \in 1 .. N /\ N \in Nat
  BY DEF Window, WatchInv, TypeOK, N
<1>2. PICK j \in First(i) : samples[i].proof \in samples[j].height + 1 .. samples[i].height
  BY DEF Newer
<1>3. j \in 1 .. N /\ samples[j].session = samples[i].session
  BY <1>2 DEF First, Window
<1>4. Describes(samples[i]) /\ Describes(samples[j])
  BY <1>1, <1>3 DEF WatchInv, SamplesInv
<1> DEFINE n == samples[i].proof
<1>5. /\ samples[j].height \in 1 .. Len(chain) /\ samples[i].height \in 1 .. Len(chain)
      /\ n \in 1 .. Len(chain) /\ samples[j].height <= n /\ n <= samples[i].height
  <2>1. samples[j].height \in 1 .. Len(chain) /\ samples[i].height \in 1 .. Len(chain)
    BY <1>4 DEF Describes, IsSnapshot
  <2>2. n \in samples[j].height + 1 .. samples[i].height
    BY <1>2
  <2> HIDE DEF n
  <2>3. Len(chain) \in Nat
    BY DEF WatchInv, TypeOK, Height
  <2> QED
    BY <2>1, <2>2, <2>3
<1>6. chain[n].session = samples[i].session
  <2>1. /\ chain[samples[j].height].session <= chain[n].session
        /\ chain[n].session <= chain[samples[i].height].session
    BY <1>5 DEF WatchInv, ChainInv
  <2>2. /\ chain[samples[j].height].session = samples[i].session
        /\ chain[samples[i].height].session = samples[i].session
    BY <1>3, <1>4 DEF Describes, IsSnapshot
  <2>3. chain[n].session \in Nat /\ samples[i].session \in Nat
    <3>1. chain[n] \in Block /\ chain[samples[i].height] \in Block
      BY <1>5 DEF WatchInv, TypeOK
    <3> QED
      BY <2>2, <3>1, WatchAssumption DEF Block, Session
  <2> QED
    BY <2>1, <2>2, <2>3
<1>7. chain[n].author = index[samples[i].candidate][samples[i].session]
  BY <1>4, <1>5 DEF Describes, IsSnapshot
<1>8. samples[i].candidate = samples[N].candidate
  BY <1>1 DEF Passed, IdentityStable
<1> QED
  BY <1>5, <1>6, <1>7, <1>8 DEF Authored

\* Whoever held the candidate's index before, what is accepted is its own.
THEOREM AcceptedAuthored == Spec => []AcceptedIsAuthored
<1>1. WatchInv => AcceptedIsAuthored
  <2> SUFFICES ASSUME WatchInv, verdict = "accepted", NEW n \in Proofs
               PROVE  /\ n <= Len(chain) /\ Authored(samples[N].candidate, n)
                      /\ boundary => chain[n].session = samples[N].session
    BY DEF AcceptedIsAuthored
  <2>1. Passed
    BY DEF WatchInv, VerdictInv
  <2>2. PICK i \in Window : /\ n = samples[i].proof /\ Newer(i)
                            /\ boundary => samples[i].session = samples[N].session
    BY DEF Proofs
  <2>3. Len(chain) \in Nat
    BY WatchAssumption DEF WatchInv, TypeOK, Height
  <2> QED
    BY <2>1, <2>2, <2>3, NewerIsAuthored
<1> QED
  BY <1>1, Invariant, PTL

\* Heights that never go back from one sample to the next never go back.
LEMMA HeightsGrow ==
  ASSUME TypeOK, FinalityMonotonic, NEW i \in 1 .. N, NEW j \in i .. N
  PROVE  samples[i].height <= samples[j].height
<1> DEFINE Back == {k \in i .. N : samples[k].height < samples[i].height}
<1> SUFFICES ASSUME samples[j].height < samples[i].height PROVE FALSE
  <2>1. samples[i] \in Sample /\ samples[j] \in Sample
    BY DEF TypeOK, N
  <2>2. samples[i].height \in Nat /\ samples[j].height \in Nat
    BY <2>1, WatchAssumption DEF Sample, Height
  <2> QED
    BY <2>2
<1>1. N \in Nat
  BY DEF TypeOK, N
<1>2. Back \in SUBSET Nat /\ j \in Back
  BY <1>1
<1>3. PICK m \in Back : \A k \in Back : m <= k
  BY <1>2, Least
<1>4. \A k \in 1 .. N : samples[k].height \in Nat
  <2>1. \A k \in 1 .. N : samples[k] \in Sample
    BY DEF TypeOK, N
  <2> QED
    BY <2>1, WatchAssumption DEF Sample, Height
<1>5. m \in i .. N /\ m # i /\ samples[m].height < samples[i].height
  BY <1>1, <1>3, <1>4
<1>6. m - 1 \in i .. N /\ m - 1 \in 1 .. N - 1 /\ m - 1 < m
  BY <1>1, <1>5
<1>7. m - 1 \notin Back
  BY <1>1, <1>3, <1>5, <1>6
<1>8. samples[i].height <= samples[m - 1].height
  BY <1>1, <1>4, <1>6, <1>7
<1>9. samples[m - 1].height <= samples[m].height
  BY <1>5, <1>6 DEF FinalityMonotonic
<1> QED
  BY <1>1, <1>4, <1>5, <1>6, <1>8, <1>9

\* What is accepted is a recovery: the candidate authored a block after the
\* last sample at which it was not ready.
THEOREM AcceptedRecovery == Spec => []AcceptedIsRecovery
<1>1. WatchInv => AcceptedIsRecovery
  <2> SUFFICES ASSUME WatchInv, verdict = "accepted"
               PROVE  /\ samples[N].ready
                      /\ \E n \in Height :
                           /\ n <= samples[N].height /\ Authored(samples[N].candidate, n)
                           /\ \A i \in 1 .. N : ~samples[i].ready => samples[i].height < n
    BY DEF AcceptedIsRecovery
  <2>1. Passed /\ FinalityMonotonic /\ TypeOK /\ N \in Nat
    BY DEF WatchInv, VerdictInv, Passed, TypeOK, N
  <2>2. PICK i \in Window : Newer(i)
    BY <2>1 DEF Passed, Proofs
  <2> DEFINE n == samples[i].proof
  <2>3. n \in 1 .. Len(chain) /\ Authored(samples[N].candidate, n)
    BY <2>1, <2>2, NewerIsAuthored
  <2>4. PICK j \in First(i) : n \in samples[j].height + 1 .. samples[i].height
    BY <2>2 DEF Newer
  <2>5. /\ i \in 1 .. N /\ j \in 1 .. N /\ N \in i .. N
        /\ samples[N].ready /\ \A k \in j .. N : samples[k].ready
    BY <2>1, <2>2, <2>4 DEF First, Window
  <2>6. \A k \in 1 .. N : samples[k].height \in Nat
    <3>1. \A k \in 1 .. N : samples[k] \in Sample
      BY <2>1 DEF TypeOK, N
    <3> QED
      BY <3>1, WatchAssumption DEF Sample, Height
  <2>7. n <= samples[N].height
    <3>1. samples[i].height <= samples[N].height
      BY <2>1, <2>5, HeightsGrow
    <3> QED
      BY <2>1, <2>4, <2>5, <2>6, <3>1
  <2>8. ASSUME NEW k \in 1 .. N, ~samples[k].ready PROVE samples[k].height < n
    <3>1. j \in k .. N
      BY <2>1, <2>5, <2>8
    <3>2. samples[k].height <= samples[j].height
      BY <2>1, <3>1, HeightsGrow
    <3> QED
      BY <2>4, <2>5, <2>6, <3>2
  <2>9. n \in Height
    BY <2>3, WatchAssumption DEF WatchInv, TypeOK, Height
  <2> QED
    BY <2>3, <2>5, <2>7, <2>8, <2>9
<1> QED
  BY <1>1, Invariant, PTL
=============================================================================
