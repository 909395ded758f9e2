--------------------------- MODULE HostToolsProofs ---------------------------
(***************************************************************************)
(* For any number of installations, any manifests, published and signed in *)
(* any order, and any clock: the node never gets peers of a manifest that  *)
(* nobody signed or that is not sound, and an installation that no other   *)
(* overlapped gives it the peers of one that is current.  What             *)
(* TimeSourcesProofs shows of the time sources, and this module of the     *)
(* peers, is then shown of the two together.                               *)
(***************************************************************************)
EXTENDS HostTools, TLAPS

-----------------------------------------------------------------------------
(* The authority manifest *)

Vouched(m) == m \in Manifest /\ m \in signed /\ Sound(m)

\* The manifest of run r was current at some moment since r began.
WasCurrent(r) == \E t \in since[r] .. clock : Current(manifest[r], t)

\* What a run has established about what it downloaded, wherever it stands.
Downloads(r) ==
  /\ pc[r] \in {"signature", "verify", "validate", "create", "copy", "unit"} => manifest[r] \in Manifest
  /\ proof[r] \in Manifest => proof[r] \in signed
  /\ pc[r] = "validate" => manifest[r] \in signed
  /\ pc[r] \in {"create", "copy", "unit"} => Vouched(manifest[r])

\* A run that is alone is the only one that writes, so that what it reads back
\* is what it wrote.
Undisturbed(r) ==
  alone[r] =>
    /\ Active(r) => \A q \in Run \ {r} : pc[q] \in Ended \cup {"read", "unit"}
    /\ pc[r] \in {"create", "copy", "read", "unit", "done"} =>
         manifest[r] \in Manifest /\ manifest[r] \in signed /\ WasCurrent(r)
    /\ pc[r] = "copy" => file = r
    /\ pc[r] = "read" => file = manifest[r]

PeersInv ==
  /\ \A m \in {file, unit} \cap Manifest : Vouched(m)
  /\ signature \in Manifest => signature \in signed
  /\ \A r \in Run : since[r] <= clock /\ Downloads(r) /\ Undisturbed(r)

\* Every variable keeps its type.
LEMMA TypeStep == TypeOK /\ [Next]_vars => TypeOK'
<1> SUFFICES ASSUME TypeOK, [Next]_vars PROVE TypeOK'
  OBVIOUS
<1> USE PeersAssumption DEF TypeOK, Ended, outside
<1>1. CASE UNCHANGED vars
  BY <1>1 DEF vars
<1>2. CASE Tick \/ Publish \/ Sign
  BY <1>2 DEF Tick, Publish, Sign
<1>3. ASSUME NEW r \in Run, Begin(r) \/ BeginService(r) PROVE TypeOK'
  <2>1. alone' \in [Run -> BOOLEAN]
    BY <1>3 DEF Begin, BeginService
  <2> QED
    BY <1>3, <2>1 DEF Begin, BeginService, Goto
<1>4. ASSUME NEW r \in Run, DownloadManifest(r) \/ DownloadSignature(r) \/ VerifySignature(r)
      PROVE TypeOK'
  BY <1>4 DEF DownloadManifest, DownloadSignature, VerifySignature, Goto
<1>5. ASSUME NEW r \in Run, Validate(r) \/ Stop(r) PROVE TypeOK'
  BY <1>5 DEF Validate, Stop, Goto
<1>6. ASSUME NEW r \in Run, CreateFile(r) \/ CopyFile(r) PROVE TypeOK'
  BY <1>6 DEF CreateFile, CopyFile, Goto
<1>7. ASSUME NEW r \in Run, ReadPeers(r) \/ InstallUnit(r) PROVE TypeOK'
  BY <1>7 DEF ReadPeers, InstallUnit, Goto
<1> QED
  BY <1>1, <1>2, <1>3, <1>4, <1>5, <1>6, <1>7 DEF Next, Step

\* Every variable has its type, in every reachable state.
THEOREM TypeCorrect == Spec => []TypeOK
<1>1. Init => TypeOK
  BY PeersAssumption DEF Init, TypeOK, Ended
<1> QED
  BY <1>1, TypeStep, PTL DEF Spec

LEMMA InitInv == Init => PeersInv
  BY PeersAssumption
  DEF Init, PeersInv, Vouched, Downloads, Undisturbed, Active, Ended

\* Time passes and manifests are published and signed: what was signed stays
\* so, and what was current at a moment was current at that moment.
LEMMA OutsideInv == TypeOK /\ PeersInv /\ (Tick \/ Publish \/ Sign) => PeersInv'
<1> SUFFICES ASSUME TypeOK, PeersInv, Tick \/ Publish \/ Sign PROVE PeersInv'
  OBVIOUS
<1>1. /\ UNCHANGED <<file, unit, pc, manifest, proof, begun, since, alone>>
      /\ signed \subseteq signed'
      /\ clock \in Nat /\ clock' \in Nat /\ clock <= clock'
      /\ signature' \in Manifest => signature' \in signed'
  BY PeersAssumption DEF Tick, Publish, Sign, TypeOK, PeersInv
<1>2. ASSUME NEW m, Vouched(m) PROVE Vouched(m)'
  BY <1>1, <1>2 DEF Vouched, Sound
<1>3. ASSUME NEW r \in Run PROVE (since[r] <= clock /\ Downloads(r) /\ Undisturbed(r))'
  <2>1. since[r] \in Nat /\ since[r] <= clock'
    BY <1>1, PeersAssumption DEF TypeOK, PeersInv
  <2>2. Downloads(r)'
    BY <1>1, <1>2 DEF PeersInv, Downloads
  <2>3. WasCurrent(r) => WasCurrent(r)'
    BY <1>1, <2>1 DEF WasCurrent, Current
  <2> QED
    BY <1>1, <2>1, <2>2, <2>3 DEF PeersInv, Undisturbed, Active
<1> QED
  BY <1>1, <1>2, <1>3 DEF PeersInv

\* What the other runs have established stays, and a run that is alone has the
\* file to itself.
LEMMA StepInv ==
  ASSUME TypeOK, PeersInv, NEW r \in Run, Step(r)
  PROVE  PeersInv'
<1> USE DEF outside
<1>1. /\ UNCHANGED <<clock, published, signature, signed>>
      /\ \A q \in Run \ {r} : /\ pc'[q] = pc[q] /\ manifest'[q] = manifest[q]
                              /\ proof'[q] = proof[q] /\ since'[q] = since[q]
      /\ \A q \in Run \ {r} : alone'[q] => alone[q]
  BY DEF Step, Begin, BeginService, DownloadManifest, DownloadSignature, VerifySignature,
         Validate, CreateFile, CopyFile, ReadPeers, InstallUnit, Stop, Goto, TypeOK
<1>2. \A m : Vouched(m)' <=> Vouched(m)
  BY <1>1 DEF Vouched, Sound
<1>3. ASSUME NEW q \in Run \ {r} PROVE WasCurrent(q)' <=> WasCurrent(q)
  BY <1>1 DEF WasCurrent, Current
<1>4. \A q \in Run \ {r} : Downloads(q)'
  BY <1>1, <1>2 DEF PeersInv, Downloads
<1> USE DEF PeersInv, Downloads, Undisturbed, Active, Ended
<1>5. CASE Begin(r)
  <2>1. /\ pc' = [pc EXCEPT ![r] = "manifest"] /\ UNCHANGED <<file, unit>>
        /\ manifest'[r] = None /\ proof'[r] = None /\ since'[r] = clock
        /\ alone'[r] => \A p \in Run : ~Active(p)
        /\ \A q \in Run \ {r} : alone'[q] => alone[q] /\ ~Active(q)
    BY <1>5 DEF Begin, Goto, TypeOK
  <2>2. None \notin Manifest
    BY PeersAssumption
  <2>3. since'[r] <= clock' /\ Downloads(r)'
    BY <1>1, <2>1, <2>2, PeersAssumption DEF TypeOK
  <2>4. Undisturbed(r)'
    BY <1>1, <2>1 DEF TypeOK
  <2>5. \A q \in Run \ {r} : Undisturbed(q)'
    BY <1>1, <1>3, <2>1
  <2> QED
    BY <1>1, <1>2, <1>4, <2>1, <2>3, <2>4, <2>5
<1>6. CASE BeginService(r)
  <2>1. /\ pc'[r] = "read" /\ ~alone'[r]
        /\ UNCHANGED <<file, unit, manifest, proof, since>>
    BY <1>6 DEF BeginService, Goto, TypeOK
  <2>2. \A q \in Run \ {r} : Undisturbed(q)'
    BY <1>1, <1>3, <2>1
  <2> QED
    BY <1>1, <1>2, <1>4, <2>1, <2>2
<1>7. CASE DownloadManifest(r) \/ DownloadSignature(r)
  <2>1. /\ pc[r] \in {"manifest", "signature"} /\ pc'[r] \in {"signature", "verify"}
        /\ UNCHANGED <<file, unit, since, alone>>
        /\ manifest'[r] \in Manifest
        /\ proof'[r] \in Manifest => proof'[r] \in signed
    BY <1>7 DEF DownloadManifest, DownloadSignature, Goto, TypeOK
  <2>2. \A q \in Run : Undisturbed(q)'
    BY <1>1, <1>3, <2>1
  <2> QED
    BY <1>1, <1>2, <1>4, <2>1, <2>2
<1>8. CASE VerifySignature(r) \/ Stop(r)
  <2>1. /\ UNCHANGED <<file, unit, manifest, proof, since, alone>>
        /\ pc'[r] \in {"validate", "stopped"} /\ Active(r)
        /\ pc'[r] = "validate" => proof[r] = manifest[r] /\ pc[r] = "verify"
    BY <1>8 DEF VerifySignature, Stop, Goto, TypeOK
  <2>2. \A q \in Run : Undisturbed(q)'
    BY <1>1, <1>3, <2>1
  <2> QED
    BY <1>1, <1>2, <1>4, <2>1, <2>2
<1>9. CASE Validate(r)
  <2>1. /\ UNCHANGED <<file, unit, manifest, proof, since, alone>> /\ pc[r] = "validate"
        /\ pc'[r] \in {"create", "stopped"}
        /\ pc'[r] = "create" => Sound(manifest[r]) /\ Current(manifest[r], clock)
    BY <1>9 DEF Validate, Goto, TypeOK
  <2>2. clock \in since[r] .. clock
    BY PeersAssumption DEF TypeOK
  <2>3. pc'[r] = "create" => Vouched(manifest[r]) /\ WasCurrent(r)'
    BY <1>1, <2>1, <2>2 DEF Vouched, WasCurrent, Current
  <2>4. Undisturbed(r)'
    BY <1>1, <2>1, <2>3
  <2>5. \A q \in Run \ {r} : Undisturbed(q)'
    BY <1>1, <1>3, <2>1
  <2> QED
    BY <1>1, <1>2, <1>4, <2>1, <2>3, <2>4, <2>5
<1>10. CASE CreateFile(r)
  <2>1. /\ UNCHANGED <<unit, manifest, proof, since, alone>> /\ pc[r] = "create"
        /\ pc'[r] = "copy" /\ file' = r /\ r \notin Manifest
    BY <1>10, PeersAssumption DEF CreateFile, Goto, TypeOK
  <2>2. WasCurrent(r) => WasCurrent(r)'
    BY <1>1, <2>1 DEF WasCurrent, Current
  <2>3. \A q \in Run \ {r} : Undisturbed(q)'
    BY <1>1, <1>3, <2>1
  <2> QED
    BY <1>1, <1>2, <1>4, <2>1, <2>2, <2>3
<1>11. CASE CopyFile(r)
  <2>1. /\ UNCHANGED <<unit, manifest, proof, since, alone>> /\ pc[r] = "copy"
        /\ pc'[r] = "read" /\ file' = (IF file = r THEN manifest[r] ELSE file)
    BY <1>11 DEF CopyFile, Goto, TypeOK
  <2>2. WasCurrent(r) => WasCurrent(r)'
    BY <1>1, <2>1 DEF WasCurrent, Current
  <2>3. \A q \in Run \ {r} : Undisturbed(q)'
    BY <1>1, <1>3, <2>1
  <2> QED
    BY <1>1, <1>2, <1>4, <2>1, <2>2, <2>3
<1>12. CASE ReadPeers(r)
  <2>1. /\ UNCHANGED <<file, unit, proof, since, alone>> /\ pc[r] = "read"
        /\ pc'[r] \in {"unit", "stopped"}
        /\ manifest'[r] = (IF file \in Manifest THEN file ELSE None)
        /\ pc'[r] = "unit" => file \in Manifest
    BY <1>12 DEF ReadPeers, Goto, TypeOK
  <2>2. WasCurrent(r) /\ manifest'[r] = manifest[r] => WasCurrent(r)'
    BY <1>1, <2>1 DEF WasCurrent, Current
  <2>3. \A q \in Run \ {r} : Undisturbed(q)'
    BY <1>1, <1>3, <2>1
  <2> QED
    BY <1>1, <1>2, <1>4, <2>1, <2>2, <2>3
<1>13. CASE InstallUnit(r)
  <2>1. /\ UNCHANGED <<file, manifest, proof, since, alone>> /\ pc[r] = "unit"
        /\ pc'[r] = "done" /\ unit' = manifest[r]
    BY <1>13 DEF InstallUnit, Goto, TypeOK
  <2>2. WasCurrent(r) => WasCurrent(r)'
    BY <1>1, <2>1 DEF WasCurrent, Current
  <2>3. \A q \in Run \ {r} : Undisturbed(q)'
    BY <1>1, <1>3, <2>1
  <2> QED
    BY <1>1, <1>2, <1>4, <2>1, <2>2, <2>3
<1> QED
  BY <1>5, <1>6, <1>7, <1>8, <1>9, <1>10, <1>11, <1>12, <1>13 DEF Step

\* Nobody's signature, an unsound manifest or one out of its window never
\* reaches the node through an installation of its own.
THEOREM VerifiedPeers == Spec => []PeersAreVerified
<1>1. TypeOK /\ PeersInv /\ [Next]_vars => PeersInv'
  <2> SUFFICES ASSUME TypeOK, PeersInv, [Next]_vars PROVE PeersInv'
    OBVIOUS
  <2>1. CASE UNCHANGED vars
    BY <2>1 DEF vars, PeersInv, Vouched, Sound, Downloads, Undisturbed, WasCurrent, Current, Active
  <2> QED
    BY <2>1, OutsideInv, StepInv DEF Next
<1>2. PeersInv => PeersAreVerified
  BY DEF PeersInv, Vouched, Undisturbed, WasCurrent, PeersAreVerified
<1> QED
  BY <1>1, <1>2, InitInv, TypeCorrect, PTL DEF Spec

-----------------------------------------------------------------------------
(* Both tools *)

Proved == INSTANCE TimeSourcesProofs

\* The module of the proofs is another instance of the same module.
LEMMA SameInit == Time!Init <=> Proved!Init
  BY DEF Time!Init, Proved!Init, Time!Unmeasured, Proved!Unmeasured, Time!Server,
         Proved!Server, Time!Range, Proved!Range

LEMMA SameNext == Time!Next <=> Proved!Next
  BY DEF Time!Next, Proved!Next, Time!Begin, Proved!Begin, Time!Rank, Proved!Rank,
         Time!Diversify, Proved!Diversify, Time!Fill, Proved!Fill, Time!Choose,
         Proved!Choose, Time!Blocked, Proved!Blocked, Time!Install, Proved!Install,
         Time!WriteAtomic, Proved!WriteAtomic, Time!Truncate, Proved!Truncate, Time!Copy,
         Proved!Copy, Time!Replace, Proved!Replace, Time!Reload, Proved!Reload, Time!Fail,
         Proved!Fail, Time!ChronydStarts, Proved!ChronydStarts, Time!Unresolved,
         Proved!Unresolved, Time!Query, Proved!Query, Time!Over, Proved!Over, Time!Take,
         Proved!Take, Time!IsNewOperator, Proved!IsNewOperator, Time!Coming, Proved!Coming,
         Time!IsNewServer, Proved!IsNewServer, Time!End, Proved!End, Time!Disk, Proved!Disk, Time!Reply,
         Proved!Reply, Time!Enough, Proved!Enough, Time!Lesser, Proved!Lesser,
         Time!Nearest, Proved!Nearest, Time!Before, Proved!Before, Time!Key, Proved!Key,
         Time!Position, Proved!Position, Time!Healthy, Proved!Healthy, Time!Eligible,
         Proved!Eligible, Time!OperatorsOf, Proved!OperatorsOf, Time!Unmeasured,
         Proved!Unmeasured, Time!Server, Proved!Server, Time!Delay, Proved!Delay,
         Time!MinGoodSamples, Proved!MinGoodSamples, Time!Range, Proved!Range

\* A behaviour of the two is one of each: a step of one tool leaves the other be.
LEMMA ToolsAreSources == ToolSpec => Proved!Spec
<1>1. ToolInit => Proved!Init
  BY SameInit DEF ToolInit
<1>2. [ToolNext]_<<tool, timeVars, vars>> => [Proved!Next]_(Proved!vars)
  BY SameNext DEF ToolNext, timeVars, Proved!vars
<1> QED
  BY <1>1, <1>2, PTL DEF ToolSpec, Proved!Spec

LEMMA ToolsArePeers == ToolSpec => Spec
<1>1. ToolInit => Init
  BY DEF ToolInit
<1>2. [ToolNext]_<<tool, timeVars, vars>> => [Next]_vars
  BY DEF ToolNext
<1> QED
  BY <1>1, <1>2, PTL DEF ToolSpec, Spec

LEMMA SameAssumption == Proved!TimeAssumption
  BY HostToolsAssumption
  DEF Time!TimeAssumption, Proved!TimeAssumption, Time!Server, Proved!Server, Time!Range,
      Proved!Range

\* Every variable of both tools has its type.
THEOREM ToolsTypeCorrect == ToolSpec => []ToolsTypeOK
<1>1. Proved!Spec => []Proved!TypeOK
  BY SameAssumption, Proved!SourcesType
<1>2. Proved!TypeOK => Time!TypeOK
  BY DEF Time!TypeOK, Proved!TypeOK, Time!Stage, Proved!Stage, Time!Decided,
         Proved!Decided, Time!Measured, Proved!Measured, Time!Text, Proved!Text,
         Time!Server, Proved!Server, Time!Delay, Proved!Delay, Time!MinGoodSamples,
         Proved!MinGoodSamples, Time!Range, Proved!Range
<1> QED
  BY <1>1, <1>2, ToolsAreSources, ToolsArePeers, TypeCorrect, PTL DEF ToolsTypeOK

\* The two passes over the servers that answered choose the best of them: as many
\* as there are, of as many operators as there are, each operator's nearest first,
\* the nearest of all at the head, whatever the candidates are.
THEOREM ToolsChooseBest == ToolSpec => []ChoiceIsBest
<1>1. Proved!Spec => []Proved!ChoiceIsBest
  BY SameAssumption, Proved!BestSources
<1>2. Proved!ChoiceIsBest => ChoiceIsBest
  BY DEF ChoiceIsBest,
         Time!ChoiceIsBest, Proved!ChoiceIsBest, Time!BestChoice, Proved!BestChoice,
         Time!Decided, Proved!Decided, Time!Fit, Proved!Fit, Time!Nearer, Proved!Nearer,
         Time!Smaller, Proved!Smaller, Time!OperatorsOf, Proved!OperatorsOf, Time!Server,
         Proved!Server, Time!Range, Proved!Range, Time!Cardinality, Proved!Cardinality
<1> QED
  BY <1>1, <1>2, ToolsAreSources, PTL

\* The sources that were installed before are whole in the file or in its copy at
\* every step.
THEOREM ToolsKeepPrevious == ToolSpec => []PreviousIsKept
<1>1. Proved!Spec => []Proved!PreviousIsKept
  BY Proved!SourcesKept
<1>2. Proved!PreviousIsKept => PreviousIsKept
  BY DEF PreviousIsKept, Time!PreviousIsKept, Proved!PreviousIsKept
<1> QED
  BY <1>1, <1>2, ToolsAreSources, PTL

\* And the node has the peers of verified manifests only, beside the other tool.
THEOREM ToolsVerifyPeers == ToolSpec => []PeersAreVerified
  BY ToolsArePeers, VerifiedPeers, PTL
=============================================================================
