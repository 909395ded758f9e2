--------------------------- MODULE EnrollmentProofs ---------------------------
(***************************************************************************)
(* For any number of programs of any kinds on one path, any chain and any  *)
(* number of restarts and falls of the node: keys are made only once the   *)
(* observation has earned them, what wastes them afterwards is one of five *)
(* things, and what stands at the path is one whole document whose keys    *)
(* the node holds.                                                         *)
(***************************************************************************)
EXTENDS Enrollment, TLAPS

Enrolls(r) == kind[r] \in {"new", "reuse"}

\* What Decide concludes from an observation stays true of the node, unless it
\* falls back.
Earned(r) ==
  /\ Enrolls(r)
  /\ seen[r].synced /\ ~seen[r].authority
  /\ 1 <= seen[r].first /\ seen[r].first < seen[r].second
  /\ seen[r].second <= final \/ fell
  /\ seen[r].second <= seen[r].best \/ fell

\* The finalized heights a run has read while it is still observing.
Looked(r) ==
  /\ pc[r] \in {"runtime", "health", "addresses", "roles", "best", "first", "second", "decide"} =>
       Enrolls(r)
  /\ pc[r] \in {"second", "decide"} => 1 <= seen[r].first
  /\ pc[r] = "decide" => seen[r].second <= final \/ fell

\* A run is past the observation for a reason, and with keys for a package.
Placed(r) ==
  /\ pc[r] \in {"keys", "custody", "package"} => Earned(r)
  /\ pc[r] = "package" => keys[r] \in held
  /\ pc[r] = "capture" => kind[r] = "readiness"
  /\ pc[r] \in {"handoff", "create", "write"} => kind[r] = "wallet"
  /\ pc[r] = "replace" /\ kind[r] # "readiness" =>
       /\ Earned(r) /\ keys[r] \in held
       /\ seen[r].second <= seen[r].best

\* Keys that were made stay in the keystore, for a run that earned them; it goes
\* on only if it was told which they are.
Made(r) ==
  made[r] =>
    /\ kind[r] = "new" /\ r \in held
    /\ pc[r] # "dead" => Earned(r)
    /\ pc[r] \in {"custody", "package", "replace", "done"} => keys[r] = r
    /\ pc[r] \in {"custody", "package", "replace", "done", "error", "dead"}

\* Safe rejects author_rotateKeys: the policy that made keys was changed later.
Wasted(r) ==
  made[r] /\ pc[r] = "error" =>
    \/ cause[r] \in {"call", "write"}
    \/ cause[r] = "addresses" /\ ~seen[r].listens
    \/ cause[r] = "malformed" /\ ~seen[r].usable
    \/ cause[r] = "policy" /\ upsets > 0
    \/ cause[r] = "validation" /\ fell

PathInv ==
  /\ file.kind \in {"package", "readiness"} => file.whole
  /\ file.kind = "package" =>
       file.keys \in held /\ file.final <= file.best /\ file.final > 1

EnrollmentInv ==
  /\ policy = "Safe" => upsets > 0
  /\ PathInv
  /\ \A r \in Run : Looked(r) /\ Placed(r) /\ Made(r) /\ Wasted(r)

\* The node's part of the type invariant.
NodeTypeOK ==
  /\ best \in Height /\ final \in 1 .. best
  /\ synced \in BOOLEAN /\ authority \in BOOLEAN /\ listens \in BOOLEAN /\ fell \in BOOLEAN
  /\ policy \in {"Safe", "Unsafe"}
  /\ held \subseteq Keys
  /\ upsets \in 0 .. MaxUpsets

LEMMA WorldType == NodeTypeOK /\ World => NodeTypeOK'
<1> SUFFICES ASSUME NodeTypeOK, World PROVE NodeTypeOK'
  OBVIOUS
<1> USE EnrollmentAssumption DEF NodeTypeOK, Height
<1>1. CASE Grow
  BY <1>1 DEF Grow
<1>3. CASE Restart
  <2>1. /\ authority' \in BOOLEAN /\ synced' \in BOOLEAN /\ listens' \in BOOLEAN
        /\ policy' \in {"Safe", "Unsafe"}
    BY <1>3, Zenon DEF Restart
  <2> QED
    BY <1>3, <2>1 DEF Restart, Upset
<1>4. CASE FallBack
  BY <1>4 DEF FallBack, Upset
<1> QED
  BY <1>1, <1>3, <1>4 DEF World

\* A program changes nothing of the node but its keystore, which it adds to.
LEMMA NodeFrame ==
  ASSUME NEW r \in Run, Step(r) \/ CallFails(r) \/ Kill(r)
  PROVE  /\ UNCHANGED <<best, final, synced, authority, policy, listens, fell, upsets,
                        kind>>
         /\ held' = held \/ held' = held \cup {r}
  BY DEF Step, Start, Observe, ReadRuntime, ReadHealth, ReadAddresses, ReadRoles, ReadBest,
         ReadFirst, ReadSecond, Sees, Decide, ObtainKeys, ProveCustody, BuildPackage, Replace,
         Capture, Handoff, Create, Write, CallFails, Kill, End, Goto, node

\* What a program does first.
LEMMA Starts ==
  ASSUME TypeOK, NEW r \in Run, Start(r)
  PROVE  \/ /\ cause' = cause
            /\ \/ Enrolls(r) /\ pc' = [pc EXCEPT ![r] = "runtime"]
               \/ kind[r] = "readiness" /\ pc' = [pc EXCEPT ![r] = "capture"]
               \/ kind[r] = "wallet" /\ pc' = [pc EXCEPT ![r] = "handoff"]
         \/ End(r, "gate")
<1>1. Enrolls(r) \/ kind[r] = "readiness" \/ kind[r] = "wallet"
  BY EnrollmentAssumption DEF TypeOK, Enrolls
<1>2. CASE Enrolls(r)
  BY <1>2 DEF Start, Goto, Enrolls
<1>3. CASE kind[r] = "readiness"
  BY <1>3 DEF Start, Goto
<1>4. CASE kind[r] = "wallet"
  BY <1>4 DEF Start, Goto
<1> QED
  BY <1>1, <1>2, <1>3, <1>4

\* One step of one program, or of the node and its chain, keeps the types.
LEMMA TypeStep == TypeOK /\ [Next]_vars => TypeOK'
<1> SUFFICES ASSUME TypeOK, [Next]_vars PROVE TypeOK'
  OBVIOUS
<1>1. CASE UNCHANGED vars
  BY <1>1 DEF vars, TypeOK
<1>2. CASE World
  <2>1. UNCHANGED <<file, kind, pc, seen, keys, made, cause>>
    BY <1>2 DEF World, Grow, Restart, FallBack, Around
  <2>2. NodeTypeOK'
    BY <1>2, WorldType DEF TypeOK, NodeTypeOK
  <2> QED
    BY <2>1, <2>2 DEF TypeOK, NodeTypeOK
<1>3. ASSUME NEW r \in Run, Step(r) \/ CallFails(r) \/ Kill(r) PROVE TypeOK'
  <2>1. NodeTypeOK' /\ UNCHANGED kind
    BY <1>3, NodeFrame DEF TypeOK, NodeTypeOK, Keys
  <2>2. pc' \in [Run -> Label] /\ cause' \in [Run -> Cause]
    <3>1. CASE Start(r)
      BY <3>1, Starts DEF TypeOK, Label, Cause, End, Goto
    <3>2. CASE Observe(r) \/ Decide(r)
      BY <3>2
      DEF TypeOK, Label, Cause, Observe, ReadRuntime, ReadHealth, ReadAddresses, ReadRoles,
          ReadBest, ReadFirst, ReadSecond, Sees, Decide, End, Goto
    <3> QED
      BY <1>3, <3>1, <3>2
      DEF TypeOK, Label, Cause, Step, ObtainKeys, ProveCustody, BuildPackage, Replace, Capture,
          Handoff, Create, Write, CallFails, Kill, End, Goto
  <2>3. keys' \in [Run -> Keys] /\ made' \in [Run -> BOOLEAN]
    <3>1. CASE UNCHANGED <<keys, made>>
      BY <3>1 DEF TypeOK
    <3>2. CASE ObtainKeys(r)
      <4>1. /\ keys' = keys \/ keys' = [keys EXCEPT ![r] = r]
            /\ made' = made \/ made' = [made EXCEPT ![r] = TRUE]
        BY <3>2 DEF ObtainKeys, End
      <4> QED
        <5>1. r \in Keys
          BY DEF Keys
        <5>2. keys' \in [Run -> Keys]
          BY <4>1, <5>1 DEF TypeOK
        <5>3. made' \in [Run -> BOOLEAN]
          BY <4>1 DEF TypeOK
        <5> QED
          BY <5>2, <5>3
    <3> QED
      BY <1>3, <3>1, <3>2
      DEF Step, Start, Observe, ReadRuntime, ReadHealth, ReadAddresses, ReadRoles, ReadBest,
          ReadFirst, ReadSecond, Sees, Decide, ProveCustody, BuildPackage, Replace, Capture,
          Handoff, Create, Write, CallFails, Kill
  <2>4. file' \in [kind : {"none", "package", "readiness", "handoff"}, whole : BOOLEAN,
                   keys : Keys, best : 0 .. MaxHeight, final : 0 .. MaxHeight]
    <3>1. CASE UNCHANGED file
      BY <3>1 DEF TypeOK
    <3>2. CASE Replace(r)
      <4>1. \/ file' = file
            \/ file' = Document("readiness", TRUE)
            \/ file' = Package(r, seen[r].best)
        BY <3>2 DEF Replace
      <4>2. Document("readiness", TRUE) \in
              [kind : {"none", "package", "readiness", "handoff"}, whole : BOOLEAN,
               keys : Keys, best : 0 .. MaxHeight, final : 0 .. MaxHeight]
        BY EnrollmentAssumption DEF Document, Keys
      <4>3. Package(r, seen[r].best) \in
              [kind : {"none", "package", "readiness", "handoff"}, whole : BOOLEAN,
               keys : Keys, best : 0 .. MaxHeight, final : 0 .. MaxHeight]
        BY DEF Package, TypeOK
      <4> QED
        BY <4>1, <4>2, <4>3 DEF TypeOK
    <3>3. CASE Create(r)
      <4>1. file' = file \/ file' = Document("handoff", FALSE)
        BY <3>3 DEF Create
      <4> QED
        <5>1. Document("handoff", FALSE) \in
                [kind : {"none", "package", "readiness", "handoff"}, whole : BOOLEAN,
                 keys : Keys, best : 0 .. MaxHeight, final : 0 .. MaxHeight]
          BY EnrollmentAssumption DEF Document, Keys
        <5> QED
          BY <4>1, <5>1 DEF TypeOK
    <3>4. CASE Write(r)
      BY <3>4 DEF Write, TypeOK
    <3> QED
      BY <1>3, <3>1, <3>2, <3>3, <3>4
      DEF Step, Start, Observe, ReadRuntime, ReadHealth, ReadAddresses, ReadRoles, ReadBest,
          ReadFirst, ReadSecond, Sees, Decide, ObtainKeys, ProveCustody, BuildPackage, Capture,
          Handoff, CallFails, Kill
  <2>5. seen' \in [Run -> [usable : BOOLEAN, synced : BOOLEAN, listens : BOOLEAN,
                           authority : BOOLEAN, best : 0 .. MaxHeight, first : 0 .. MaxHeight,
                           second : 0 .. MaxHeight]]
    <3>1. CASE UNCHANGED seen
      BY <3>1 DEF TypeOK
    <3>2. CASE Observe(r)
      BY <3>2, EnrollmentAssumption
      DEF Observe, ReadRuntime, ReadHealth, ReadAddresses, ReadRoles, ReadBest, ReadFirst,
          ReadSecond, Sees, TypeOK, Height
    <3>3. CASE Decide(r)
      BY <3>3, EnrollmentAssumption DEF Decide, Sees, BestAfter, Overtaken, TypeOK, Height
    <3>4. CASE Kill(r)
      BY <3>4, EnrollmentAssumption DEF Kill, NoSeen, TypeOK
    <3> QED
      BY <1>3, <3>1, <3>2, <3>3, <3>4
      DEF Step, Start, ObtainKeys, ProveCustody, BuildPackage, Replace, Capture, Handoff,
          Create, Write, CallFails
  <2> QED
    BY <2>1, <2>2, <2>3, <2>4, <2>5 DEF TypeOK, NodeTypeOK
<1> QED
  BY <1>1, <1>2, <1>3 DEF Next

\* Every variable has its type, in every reachable state.
THEOREM TypeCorrect == Spec => []TypeOK
<1>1. Init => TypeOK
  <2> SUFFICES ASSUME Init PROVE TypeOK
    OBVIOUS
  <2>1. keys \in [Run -> Keys]
    BY DEF Init, Keys
  <2>2. seen \in [Run -> [usable : BOOLEAN, synced : BOOLEAN, listens : BOOLEAN,
                          authority : BOOLEAN, best : 0 .. MaxHeight, first : 0 .. MaxHeight,
                          second : 0 .. MaxHeight]]
    BY EnrollmentAssumption DEF Init, NoSeen
  <2>3. file \in [kind : {"none", "package", "readiness", "handoff"}, whole : BOOLEAN,
                  keys : Keys, best : 0 .. MaxHeight, final : 0 .. MaxHeight]
    BY EnrollmentAssumption DEF Init, NoFile, Document, Keys
  <2>4. pc \in [Run -> Label] /\ made \in [Run -> BOOLEAN] /\ cause \in [Run -> Cause]
    BY DEF Init, Label, Cause
  <2>5. NodeTypeOK
    <3>1. synced \in BOOLEAN /\ authority \in BOOLEAN /\ listens \in BOOLEAN /\ fell \in BOOLEAN
      BY Zenon DEF Init
    <3>2. best \in Height /\ final \in 1 .. best /\ upsets \in 0 .. MaxUpsets
      BY EnrollmentAssumption DEF Init, Height
    <3> QED
      BY <3>1, <3>2 DEF Init, NodeTypeOK, Keys
  <2> QED
    BY <2>1, <2>2, <2>3, <2>4, <2>5 DEF Init, TypeOK, NodeTypeOK
<1> QED
  BY <1>1, TypeStep, PTL DEF Spec

LEMMA InitInv == Init => EnrollmentInv
  BY DEF Init, EnrollmentInv, PathInv, Looked, Placed, Made, Wasted, NoFile, Document

\* Nothing the node does takes back what a run relies on: keys stay in the
\* keystore, and finality goes back only when the node falls.
LEMMA WorldInv == TypeOK /\ EnrollmentInv /\ World => EnrollmentInv'
<1> SUFFICES ASSUME TypeOK, EnrollmentInv, World PROVE EnrollmentInv'
  OBVIOUS
<1>1. UNCHANGED <<file, kind, pc, seen, keys, made, cause, held>>
  BY DEF World, Grow, Restart, FallBack, Around
<1>2. final <= final' \/ fell'
  BY DEF World, Grow, Restart, FallBack, TypeOK, Height
<1>3. fell => fell'
  BY DEF World, Grow, Restart, FallBack
<1>4. upsets \in Nat /\ upsets' \in Nat /\ upsets <= upsets'
      /\ (policy' = "Safe" => upsets' > 0)
  BY EnrollmentAssumption DEF World, Grow, Restart, FallBack, Upset, TypeOK, EnrollmentInv
<1>5. PathInv'
  BY <1>1 DEF EnrollmentInv, PathInv
<1>6. ASSUME NEW r \in Run PROVE (Looked(r) /\ Placed(r) /\ Made(r) /\ Wasted(r))'
  <2>1. /\ seen[r].second \in Nat /\ final \in Nat /\ final' \in Nat
    BY EnrollmentAssumption, TypeStep DEF TypeOK, Height, Next
  <2>2. Earned(r) => Earned(r)'
    BY <1>1, <1>2, <1>3, <2>1 DEF Earned, Enrolls
  <2>3. Looked(r)'
    BY <1>1, <1>2, <1>3, <2>1 DEF EnrollmentInv, Looked, Enrolls
  <2>4. Placed(r)' /\ Made(r)'
    BY <1>1, <2>2 DEF EnrollmentInv, Placed, Made
  <2>5. Wasted(r)'
    BY <1>1, <1>3, <1>4 DEF EnrollmentInv, Wasted
  <2> QED
    BY <2>3, <2>4, <2>5
<1> QED
  BY <1>4, <1>5, <1>6 DEF EnrollmentInv

\* What run r does leaves alone what every other run relies on.
LEMMA OthersInv ==
  ASSUME TypeOK, EnrollmentInv, NEW r \in Run, Step(r) \/ CallFails(r) \/ Kill(r),
         NEW q \in Run, q # r
  PROVE  (Looked(q) /\ Placed(q) /\ Made(q) /\ Wasted(q))'
<1>1. /\ pc'[q] = pc[q] /\ seen'[q] = seen[q] /\ keys'[q] = keys[q]
      /\ made'[q] = made[q] /\ cause'[q] = cause[q]
  BY DEF TypeOK, Step, Start, Observe, ReadRuntime, ReadHealth, ReadAddresses, ReadRoles,
         ReadBest, ReadFirst, ReadSecond, Sees, Decide, ObtainKeys, ProveCustody, BuildPackage,
         Replace, Capture, Handoff, Create, Write, CallFails, Kill, End, Goto
<1>2. UNCHANGED <<kind, final, fell, upsets, listens, policy>> /\ held \subseteq held'
  BY DEF Step, Start, Observe, ReadRuntime, ReadHealth, ReadAddresses, ReadRoles,
         ReadBest, ReadFirst, ReadSecond, Sees, Decide, ObtainKeys, ProveCustody, BuildPackage,
         Replace, Capture, Handoff, Create, Write, CallFails, Kill, End, Goto, node
<1> QED
  BY <1>1, <1>2 DEF EnrollmentInv, Looked, Placed, Made, Wasted, Earned, Enrolls

\* A step of run r keeps what r relies on, and the document at the path.
LEMMA OwnInv ==
  ASSUME TypeOK, EnrollmentInv, NEW r \in Run, Step(r) \/ CallFails(r) \/ Kill(r)
  PROVE  PathInv' /\ (Looked(r) /\ Placed(r) /\ Made(r) /\ Wasted(r))'
<1> USE DEF EnrollmentInv, PathInv, Looked, Placed, Made, Wasted, Earned, Enrolls, node
<1>1. CASE Start(r)
  <2>1. UNCHANGED <<file, kind, seen, keys, made, held, final, fell>> /\ pc[r] = "start"
    BY <1>1 DEF Start
  <2> QED
    BY <1>1, <2>1, Starts DEF End, Goto, TypeOK
<1>2. CASE Observe(r)
  <2>1. /\ pc[r] \in {"runtime", "health", "addresses", "roles", "best", "first", "second"}
        /\ ~made[r]
    BY <1>2 DEF Observe, ReadRuntime, ReadHealth, ReadAddresses, ReadRoles,
                ReadBest, ReadFirst, ReadSecond
  <2>2. UNCHANGED <<file, kind, keys, made, cause, held, final, fell>>
    BY <1>2 DEF Observe, ReadRuntime, ReadHealth, ReadAddresses, ReadRoles,
                ReadBest, ReadFirst, ReadSecond, Sees
  <2>3. pc'[r] \in {"health", "addresses", "roles", "best", "first", "second", "decide"}
    BY <1>2 DEF Observe, ReadRuntime, ReadHealth, ReadAddresses, ReadRoles,
                ReadBest, ReadFirst, ReadSecond, Sees, Goto, TypeOK
  <2>4. pc'[r] = "second" => 1 <= seen'[r].first
    BY <1>2, EnrollmentAssumption
    DEF Observe, ReadRuntime, ReadHealth, ReadAddresses, ReadRoles,
        ReadBest, ReadFirst, ReadSecond, Sees, Goto, TypeOK, Height
  <2>5. pc'[r] = "decide" => 1 <= seen'[r].first /\ seen'[r].second <= final
    BY <1>2, EnrollmentAssumption
    DEF Observe, ReadRuntime, ReadHealth, ReadAddresses, ReadRoles,
        ReadBest, ReadFirst, ReadSecond, Sees, Goto, TypeOK, Height
  <2> QED
    BY <2>1, <2>2, <2>3, <2>4, <2>5
<1>3. CASE Decide(r)
  <2>1. CASE Ready(r) /\ Sees(r, "best", BestAfter(r), "keys")
    <3>1. /\ pc'[r] = "keys" /\ seen'[r] = [seen[r] EXCEPT !.best = BestAfter(r)]
          /\ UNCHANGED <<file, kind, keys, made, cause, held, final, fell>>
      BY <2>1 DEF Sees, Goto, TypeOK
    <3>2. /\ seen'[r].first = seen[r].first /\ seen'[r].second = seen[r].second
          /\ seen'[r].synced = seen[r].synced /\ seen'[r].authority = seen[r].authority
          /\ seen'[r].best = BestAfter(r)
      BY <3>1 DEF TypeOK
    <3>3. seen[r].second <= BestAfter(r) \/ fell
      BY <1>3, EnrollmentAssumption DEF Decide, BestAfter, Overtaken, TypeOK, Height
    <3> QED
      BY <1>3, <2>1, <3>1, <3>2, <3>3, EnrollmentAssumption DEF Decide, Ready, TypeOK
  <2>2. CASE End(r, "gate") /\ UNCHANGED <<node, file, kind, seen, keys, made>>
    BY <1>3, <2>2 DEF Decide, End, Goto, TypeOK
  <2> QED
    BY <1>3, <2>1, <2>2 DEF Decide
<1>4. CASE ObtainKeys(r)
  BY <1>4 DEF ObtainKeys, End, Goto, TypeOK
<1>5. CASE ProveCustody(r)
  BY <1>5 DEF ProveCustody, Proves, End, Goto, TypeOK
<1>6. CASE BuildPackage(r)
  BY <1>6, EnrollmentAssumption DEF BuildPackage, Valid, Overtaken, End, Goto, TypeOK
<1>7. CASE Replace(r)
  <2>1. kind[r] \in {"new", "reuse"} \/ kind[r] = "readiness"
    BY <1>7 DEF Replace
  <2> QED
    BY <1>7, <2>1, EnrollmentAssumption DEF Replace, Package, Document, End, Goto, TypeOK
<1>8. CASE Capture(r) \/ Handoff(r)
  BY <1>8 DEF Capture, Handoff, End, Goto, TypeOK
<1>9. CASE Create(r) \/ Write(r)
  <2>1. CASE Create(r)
    BY <2>1 DEF Create, Document, End, Goto, TypeOK
  <2>2. CASE Write(r)
    BY <2>2 DEF Write, Goto, TypeOK
  <2> QED
    BY <1>9, <2>1, <2>2
<1>10. CASE CallFails(r) \/ Kill(r)
  <2>1. CASE CallFails(r)
    <3>1. pc' = [pc EXCEPT ![r] = "error"] /\ cause' = [cause EXCEPT ![r] = "call"]
      BY <2>1 DEF CallFails, End, Goto
    <3>2. UNCHANGED <<file, kind, seen, keys, made, held, final, fell>>
      BY <2>1 DEF CallFails
    <3>3. pc'[r] = "error" /\ cause'[r] = "call"
      BY <3>1 DEF TypeOK
    <3>4. PathInv'
      BY <3>2
    <3>5. made[r] => Earned(r) /\ kind[r] = "new" /\ r \in held
      BY <2>1 DEF CallFails, Ended
    <3>6. Looked(r)' /\ Placed(r)' /\ Wasted(r)'
      BY <3>3
    <3>7. Made(r)'
      BY <3>2, <3>3, <3>5
    <3> QED
      BY <3>4, <3>6, <3>7
  <2>2. CASE Kill(r)
    <3>1. pc' = [pc EXCEPT ![r] = "dead"]
          /\ UNCHANGED <<file, kind, keys, made, held, final, fell>>
      BY <2>2 DEF Kill, Goto
    <3>2. pc'[r] = "dead"
      BY <3>1 DEF TypeOK
    <3>3. PathInv'
      BY <3>1
    <3>4. Looked(r)' /\ Placed(r)' /\ Made(r)' /\ Wasted(r)'
      BY <3>1, <3>2
    <3> QED
      BY <3>3, <3>4
  <2> QED
    BY <1>10, <2>1, <2>2
<1> QED
  BY <1>1, <1>2, <1>3, <1>4, <1>5, <1>6, <1>7, <1>8, <1>9, <1>10 DEF Step

LEMMA InvStep == TypeOK /\ EnrollmentInv /\ [Next]_vars => EnrollmentInv'
<1> SUFFICES ASSUME TypeOK, EnrollmentInv, [Next]_vars PROVE EnrollmentInv'
  OBVIOUS
<1>1. CASE UNCHANGED vars
  BY <1>1 DEF vars, EnrollmentInv, PathInv, Looked, Placed, Made, Wasted, Earned, Enrolls
<1>2. CASE World
  BY <1>2, WorldInv
<1>3. ASSUME NEW r \in Run, Step(r) \/ CallFails(r) \/ Kill(r) PROVE EnrollmentInv'
  <2>1. UNCHANGED <<policy, upsets>>
    BY <1>3 DEF Step, Start, Observe, ReadRuntime, ReadHealth, ReadAddresses, ReadRoles,
         ReadBest, ReadFirst, ReadSecond, Sees, Decide, ObtainKeys, ProveCustody, BuildPackage,
         Replace, Capture, Handoff, Create, Write, CallFails, Kill, End, Goto, node
  <2>2. PathInv' /\ (Looked(r) /\ Placed(r) /\ Made(r) /\ Wasted(r))'
    BY <1>3, OwnInv
  <2>3. \A q \in Run \ {r} : (Looked(q) /\ Placed(q) /\ Made(q) /\ Wasted(q))'
    BY <1>3, OthersInv
  <2> QED
    BY <2>1, <2>2, <2>3 DEF EnrollmentInv
<1> QED
  BY <1>1, <1>2, <1>3 DEF Next

LEMMA Invariant == Spec => [](TypeOK /\ EnrollmentInv)
  BY TypeCorrect, InitInv, InvStep, PTL DEF Spec

\* author_rotateKeys is called only by a run that asked for new keys, after it
\* saw the node synchronized, not an authority, and finalizing.
THEOREM Earning == Spec => []KeysAreEarned
<1>1. TypeOK /\ EnrollmentInv => KeysAreEarned
  BY EnrollmentAssumption
  DEF TypeOK, Height, EnrollmentInv, Made, Earned, KeysAreEarned
<1> QED
  BY <1>1, Invariant, PTL

\* Keys are left without a package for one of five reasons only: a call or a
\* write that failed, addresses or a runtime that were unfit when they were read,
\* a restart with another policy, or a node that fell back.
THEOREM ReasonForWaste == Spec => []WasteHasReason
<1>1. EnrollmentInv => WasteHasReason
  BY DEF EnrollmentInv, Wasted, WasteHasReason
<1> QED
  BY <1>1, Invariant, PTL

\* Whoever wrote to the path and whoever was killed, a package there is whole
\* and names keys the node holds.
THEOREM SoundPackage == Spec => []PackageIsSound
<1>1. EnrollmentInv => PackageIsSound
  BY DEF EnrollmentInv, PathInv, PackageIsSound
<1> QED
  BY <1>1, Invariant, PTL

\* A whole document is only ever replaced by another whole document, and never
\* by a wallet handoff.
THEOREM StaysWhole == Spec => WholeStaysWhole
<1> DEFINE Stays == file.kind \in {"package", "readiness"} =>
                      file'.kind \in {"package", "readiness"} /\ file'.whole
<1>1. TypeOK /\ EnrollmentInv /\ [Next]_vars => [Stays]_vars
  <2> SUFFICES ASSUME TypeOK, EnrollmentInv, [Next]_vars,
                      file.kind \in {"package", "readiness"}
               PROVE  file'.kind \in {"package", "readiness"} /\ file'.whole
    OBVIOUS
  <2>1. CASE UNCHANGED file
    BY <2>1 DEF EnrollmentInv, PathInv
  <2>2. ASSUME NEW r \in Run, Replace(r) PROVE file'.kind \in {"package", "readiness"} /\ file'.whole
    BY <2>2 DEF Replace, Package, Document, EnrollmentInv, PathInv
  <2>3. ASSUME NEW r \in Run, Create(r) \/ Write(r) PROVE UNCHANGED file
    BY <2>3 DEF Create, Write
  <2> QED
    BY <2>1, <2>2, <2>3
    DEF Next, vars, World, Grow, Restart, FallBack, Around, Step, Start, Observe,
        ReadRuntime, ReadHealth, ReadAddresses, ReadRoles, ReadBest, ReadFirst, ReadSecond, Sees,
        Decide, ObtainKeys, ProveCustody, BuildPackage, Capture, Handoff, CallFails, Kill
<1> QED
  BY <1>1, Invariant, PTL DEF Spec, WholeStaysWhole
=============================================================================
