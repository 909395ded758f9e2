---------------------------- MODULE ValidatorWatch ----------------------------
(***************************************************************************)
(* bin/roko-validator-watch: a bounded series of samples of a validator's  *)
(* node, and the verdict on them: the candidate was ready without a break  *)
(* up to the last sample and authored a finalized block in that window.    *)
(*                                                                         *)
(* A sample is put together from answers given at different moments while  *)
(* the finalized chain advances and sessions rotate; the operator may give *)
(* the node another candidate, and the node may fall back, restored from a *)
(* snapshot.  The node and the chain are external.                         *)
(*                                                                         *)
(* Here --require-authorship is the default one; without it the tool never *)
(* reports acceptance.  Fields that only enter the report, and the quorum  *)
(* of time sources, are part of what makes a sample ready.                 *)
(***************************************************************************)
EXTENDS Naturals, Sequences, FiniteSets

CONSTANTS
  Account, NoIndex,   \* candidates; the index of one that is not active
  Authority,          \* BABE authority indices
  MaxHeight, MaxSession,  \* bounds of the chain
  MaxUpsets,          \* bound of changes of the candidate and falls
  Samples, RequiredReady  \* --samples and --require-consecutive-ready

ASSUME WatchAssumption ==
  /\ NoIndex \notin Authority
  /\ MaxHeight \in Nat \ {0} /\ MaxSession \in Nat /\ MaxUpsets \in Nat
  /\ Samples \in Nat \ {0, 1} /\ RequiredReady \in 1 .. Samples

VARIABLES
  chain,      \* the finalized blocks: session and authority index of the author
  index,      \* who has which authority index in each session
  height,     \* the finalized height of the node
  candidate,  \* the account the node runs for
  upsets,     \* how often it changed its candidate or fell back
  boundary,   \* --require-session-boundary
  pc,
  attempt,    \* failed attempts at the current sample
  head,       \* height of the finalized hash in the first batch
  report,     \* the readiness report of the first batch
  samples,    \* the samples taken
  verdict

node == <<chain, index, height, candidate, upsets>>
tool == <<boundary, pc, attempt, head, report, samples, verdict>>
vars == <<chain, index, height, candidate, upsets,
          boundary, pc, attempt, head, report, samples, verdict>>

Session  == 0 .. MaxSession
Height   == 1 .. MaxHeight
Index    == Authority \cup {NoIndex}
Block    == [session : Session, author : Authority]
Claim    == [number : Nat, authority : Index, canonical : BOOLEAN]
Report   == [height : Height, session : Session, candidate : Account,
             index : Index, ready : BOOLEAN]
Sample   == [height : Height, session : Session, candidate : Account,
             index : Index, ready : BOOLEAN, proof : 0 .. MaxHeight]
NoClaim  == [number |-> 0, authority |-> NoIndex, canonical |-> FALSE]
NoReport == [height |-> 0]

TypeOK ==
  /\ chain \in Seq(Block) /\ Len(chain) \in Height
  /\ index \in [Account -> [Session -> Index]]
  /\ height \in 1 .. Len(chain)
  /\ candidate \in Account
  /\ upsets \in 0 .. MaxUpsets
  /\ boundary \in BOOLEAN
  /\ pc \in {"head", "report", "verify", "evaluate", "done"}
  /\ attempt \in 0 .. 2
  /\ head \in 0 .. MaxHeight
  /\ report \in Report \cup {NoReport}
  /\ samples \in Seq(Sample) /\ Len(samples) <= Samples
  /\ verdict \in {"none", "accepted", "failed", "error"}

\* An index belongs to one account in a session.
Init ==
  /\ chain \in {<<b>> : b \in [session : {0}, author : Authority]}
  /\ index \in [Account -> [Session -> Index]]
  /\ \A s \in Session, a, b \in Account :
       a # b /\ index[a][s] = index[b][s] => index[a][s] = NoIndex
  /\ height = 1
  /\ candidate \in Account
  /\ upsets = 0
  /\ boundary \in BOOLEAN
  /\ pc = "head" /\ attempt = 0 /\ head = 0 /\ report = NoReport
  /\ samples = <<>> /\ verdict = "none"

N == Len(samples)

-----------------------------------------------------------------------------
(* Mutants: definitions with a plausible mistake in them, put in the place *)
(* of the ones they are named after to show that a property notices; none  *)
(* is part of the specification.                                           *)

\* The attempts are not bounded.
RetryUnbounded ==
  /\ pc = "verify"
  /\ report.height # head
  /\ attempt' = attempt + 1
  /\ pc' = "head"
  /\ head' = 0 /\ report' = NoReport
  /\ UNCHANGED <<node, boundary, samples, verdict>>

\* The heights of the head and the report are not compared.
AgreesAlways == TRUE

\* A sample that is not ready does not end the streak before it.
WindowWithGaps == {i \in 1 .. N : samples[i].ready}

\* The first sample of the window is the baseline of all its sessions.
FirstOfWindow(i) ==
  {j \in 1 .. N : /\ \A k \in j .. N : samples[k].ready
                  /\ j = 1 \/ ~samples[j - 1].ready}

-----------------------------------------------------------------------------
(* The node.  What it does at other moments than these comes to the same as *)
(* what it does before the next head is read.                               *)
Moving == pc \in {"head", "report"}

\* Finality advances: along the blocks it knew before it fell back, or with a
\* new one, in the session of the last one or the next.
Advance ==
  /\ Moving
  /\ \/ height < Len(chain) /\ UNCHANGED chain
     \/ /\ height = Len(chain) /\ height < MaxHeight
        /\ \E b \in Block : /\ b.session \in chain[height].session .. chain[height].session + 1
                            /\ chain' = Append(chain, b)
  /\ height' = height + 1
  /\ UNCHANGED <<index, candidate, upsets, tool>>

Upset == Moving /\ upsets < MaxUpsets /\ upsets' = upsets + 1

FallBack ==
  /\ Upset
  /\ height' \in 1 .. height - 1
  /\ UNCHANGED <<chain, index, candidate, tool>>

ChangeCandidate ==
  /\ Upset
  /\ candidate' \in Account \ {candidate}
  /\ UNCHANGED <<chain, index, height, tool>>

\* The proofs of authorship that report r may carry: some finalized block with
\* its author's index, of whatever session; one that is not canonical; or one
\* that is not finalized yet.
Claims(r) ==
  {NoClaim}
  \cup [number : {r.height}, authority : {r.index}, canonical : {FALSE}]
  \cup [number : {r.height + 1}, authority : {r.index}, canonical : {TRUE}]
  \cup {[number |-> n, authority |-> chain[n].author, canonical |-> TRUE] : n \in 1 .. r.height}

-----------------------------------------------------------------------------
(* sample and sample_once *)
ReadHead ==
  /\ pc = "head"
  /\ head' = height
  /\ pc' = "report"
  /\ UNCHANGED <<node, boundary, attempt, report, samples, verdict>>

\* temporal_getValidatorReadiness, later in the same batch.
ReadReport ==
  /\ pc = "report"
  /\ LET s == chain[height].session
         i == index[candidate][s]
     IN  \E ready \in BOOLEAN :
           /\ ready => i # NoIndex
           /\ report' = [height |-> height, session |-> s, candidate |-> candidate,
                         index |-> i, ready |-> ready]
  /\ pc' = "verify"
  /\ UNCHANGED <<node, boundary, attempt, head, samples, verdict>>

\* Proof p of report r counts if it resolves to the canonical hash of a
\* finalized block and names the candidate's index.
Proven(r, p) ==
  IF /\ p.canonical /\ p.number <= head
     /\ r.index # NoIndex /\ p.authority = r.index
  THEN p.number ELSE 0

\* The report is of the height that the header of the hash has.
Agrees == report.height = head

\* The second batch, for the header of the head and for the hash of the block
\* of the proof, which is looked at only now, confirms the sample.
Take ==
  /\ pc = "verify"
  /\ Agrees
  /\ \E p \in Claims(report) :
       samples' = Append(samples,
         [height |-> head, session |-> report.session, candidate |-> report.candidate,
          index |-> report.index, ready |-> report.ready, proof |-> Proven(report, p)])
  /\ pc' = IF N + 1 = Samples THEN "evaluate" ELSE "head"
  /\ attempt' = 0 /\ head' = 0 /\ report' = NoReport
  /\ UNCHANGED <<node, boundary, verdict>>

\* SnapshotChanged: the sample is taken anew, three times at most.
Retry ==
  /\ pc = "verify"
  /\ ~Agrees /\ attempt < 2
  /\ attempt' = attempt + 1
  /\ pc' = "head"
  /\ head' = 0 /\ report' = NoReport
  /\ UNCHANGED <<node, boundary, samples, verdict>>

\* The third time, or an RPC that fails, times out or answers out of shape (as
\* for the hash of a block that a node that fell back no longer has).
Fail ==
  /\ pc \in {"head", "report", "verify"}
  /\ pc' = "done" /\ verdict' = "error"
  /\ attempt' = 0 /\ head' = 0 /\ report' = NoReport /\ samples' = <<>>
  /\ UNCHANGED <<node, boundary>>

-----------------------------------------------------------------------------
(* evaluate *)

\* The samples of the streak of ready ones that continues through the last.
Window == {i \in 1 .. N : \A j \in i .. N : samples[j].ready}

FinalityMonotonic ==
  \A i \in 1 .. N - 1 : samples[i].height <= samples[i + 1].height

SessionMonotonic ==
  \A i \in 1 .. N - 1 :
    /\ samples[i].session <= samples[i + 1].session
    /\ samples[i].session # samples[i + 1].session => samples[i].height < samples[i + 1].height

\* One candidate, with one index in each session.
IdentityStable ==
  \A i, j \in 1 .. N :
    /\ samples[i].candidate = samples[j].candidate
    /\ samples[i].session = samples[j].session /\ NoIndex \notin {samples[i].index, samples[j].index}
       => samples[i].index = samples[j].index

FinalityAdvanced == \E i \in Window : samples[i].height < samples[N].height
CrossedSession   == \E i, j \in Window : samples[i].session # samples[j].session

\* The first sample of the window in the session of sample i, one if i is in it.
First(i) ==
  LET same == {j \in Window : samples[j].session = samples[i].session}
  IN  {j \in same : \A k \in same : j <= k}

\* Newer than the baseline, the height of the first sample of the session.
Newer(i) == \E j \in First(i) : samples[i].proof \in samples[j].height + 1 .. samples[i].height

Proofs ==
  {samples[i].proof : i \in
    {j \in Window : Newer(j) /\ (boundary => samples[j].session = samples[N].session)}}

Passed ==
  /\ FinalityAdvanced /\ FinalityMonotonic /\ SessionMonotonic /\ IdentityStable
  /\ Cardinality(Window) >= RequiredReady
  /\ boundary => CrossedSession
  /\ Proofs # {}

Evaluate ==
  /\ pc = "evaluate"
  /\ verdict' = IF Passed THEN "accepted" ELSE "failed"
  /\ pc' = "done"
  /\ UNCHANGED <<node, boundary, attempt, head, report, samples>>

-----------------------------------------------------------------------------
Step == ReadHead \/ ReadReport \/ Take \/ Retry \/ Fail \/ Evaluate
Next == Advance \/ FallBack \/ ChangeCandidate \/ Step
Spec == Init /\ [][Next]_vars

-----------------------------------------------------------------------------
(* Properties *)

\* sample_once: a sample describes the node at one finalized block, although
\* its parts were asked for at different moments.
SampleIsSnapshot ==
  \A i \in 1 .. N :
    LET s == samples[i] IN
    s.session = chain[s.height].session /\ s.index = index[s.candidate][s.session]

Authored(a, n) == index[a][chain[n].session] = chain[n].author

\* README: "A finalized authorship proof must be newer than the first ready
\* observation in its session, match the local active BABE authority index".
\* What the tool accepts as the candidate's blocks are its own, whoever held
\* its index in the session before, and (with a boundary required) of the last
\* session.
AcceptedIsAuthored ==
  verdict = "accepted" =>
    \A n \in Proofs :
      /\ n <= Len(chain) /\ Authored(samples[N].candidate, n)
      /\ boundary => chain[n].session = samples[N].session

\* README: "A proof from before the measured window cannot establish recovery",
\* "An earlier ready streak followed by failure cannot pass": the candidate
\* authored a block after the last sample at which it was not ready.
AcceptedIsRecovery ==
  verdict = "accepted" =>
    /\ samples[N].ready
    /\ \E n \in Height : /\ n <= samples[N].height /\ Authored(samples[N].candidate, n)
                         /\ \A i \in 1 .. N : ~samples[i].ready => samples[i].height < n
=============================================================================
