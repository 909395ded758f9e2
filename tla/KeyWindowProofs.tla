-------------------------- MODULE KeyWindowProofs --------------------------
(***************************************************************************)
(* For any number of overlapping helpers, any bound on the wait loops and  *)
(* any set of faults: the state is well typed, key-management RPC is       *)
(* exposed only while some helper is bound to close it or was lost, and    *)
(* the helpers implement the abstract window.  What a lone helper proved,  *)
(* or left behind when it halted, stays Safe; and unless a helper is lost  *)
(* every window ends closed.                                               *)
(***************************************************************************)
EXTENDS KeyWindow, TLAPS

\* The bound of the wait loops (ROKO_KEY_WINDOW_WAIT_ATTEMPTS) is a number.
LEMMA MaxAttemptsNat == MaxAttempts \in Nat
  BY KeyWindowAssumption

\* One step keeps the type of every variable and the backup of every armed
\* helper: the file is only ever replaced by a whole policy (write_policy,
\* restore_prior_policy).
LEMMA TypeStep ==
  TypeOK /\ HasBackup /\ [Next]_vars => TypeOK' /\ HasBackup'
<1> SUFFICES ASSUME TypeOK, HasBackup, [Next]_vars PROVE TypeOK' /\ HasBackup'
  OBVIOUS
<1> USE DEF TypeOK, HasBackup, Policy, NodeState, Running, Outcome,
      Label, Preflight, Window, Restore, Ended, host, enroll
<1>1. CASE UNCHANGED vars
  BY <1>1 DEF vars
<1>2. CASE Boot \/ Crash \/ AutoRestart
  BY <1>2 DEF Boot, Crash, AutoRestart, NodeStarts
<1>3. CASE PowerCut
  BY <1>3 DEF PowerCut
<1>4. ASSUME NEW h \in Helper, Start(h) PROVE TypeOK' /\ HasBackup'
  BY <1>4 DEF Start, Goto
<1>5. ASSUME NEW h \in Helper, Signal(h) PROVE TypeOK' /\ HasBackup'
  <2>1. CASE Interrupt(h)
    BY <2>1 DEF Interrupt, Exit, Goto, Trapped
  <2>2. CASE Terminate(h) \/ Kill(h)
    BY <2>2 DEF Terminate, Kill, Dies, OnDuty
  <2> QED
    BY <1>5, <2>1, <2>2 DEF Signal
<1>6. ASSUME NEW h \in Helper, Step(h) PROVE TypeOK' /\ HasBackup'
  <2>1. CASE CheckFile(h)
    <3>1. TypeOK'
      BY <2>1 DEF CheckFile, Refuse, Goto
    <3>2. HasBackup'
      BY <2>1 DEF CheckFile, Refuse, Goto
    <3> QED
      BY <3>1, <3>2
  <2>2. CASE CheckService(h)
    <3>1. TypeOK'
      BY <2>2 DEF CheckService, Refuse, Goto
    <3>2. HasBackup'
      BY <2>2 DEF CheckService, Refuse, Goto
    <3> QED
      BY <3>1, <3>2
  <2>3. CASE ProbeSafe(h)
    <3>1. TypeOK'
      BY <2>3 DEF ProbeSafe, Refuse, Goto
    <3>2. HasBackup'
      BY <2>3 DEF ProbeSafe, Refuse, Goto
    <3> QED
      BY <3>1, <3>2
  <2>4. CASE Arm(h)
    <3>1. TypeOK'
      BY <2>4 DEF Arm, Goto
    <3>2. HasBackup'
      BY <2>4 DEF Arm, Goto
    <3> QED
      BY <3>1, <3>2
  <2>5. CASE MakeBackup(h)
    <3>1. TypeOK'
      BY <2>5 DEF MakeBackup, Refuse, Goto
    <3>2. HasBackup'
      BY <2>5 DEF MakeBackup, Refuse, Goto
    <3> QED
      BY <3>1, <3>2
  <2>6. CASE WriteUnsafe(h)
    <3>1. TypeOK'
      BY <2>6 DEF WriteUnsafe, Exit, Goto
    <3>2. HasBackup'
      BY <2>6 DEF WriteUnsafe, Exit, Goto
    <3> QED
      BY <3>1, <3>2
  <2>7. CASE ObtainKeys(h)
    <3>1. TypeOK'
      BY <2>7 DEF ObtainKeys, Goto
    <3>2. HasBackup'
      BY <2>7 DEF ObtainKeys, Goto
    <3> QED
      BY <3>1, <3>2
  <2>8. CASE WritePackage(h)
    <3>1. TypeOK'
      BY <2>8 DEF WritePackage, Goto
    <3>2. HasBackup'
      BY <2>8 DEF WritePackage, Goto
    <3> QED
      BY <3>1, <3>2
  <2>9. CASE EnrollSucceeds(h)
    <3>1. TypeOK'
      BY <2>9 DEF EnrollSucceeds, Goto
    <3>2. HasBackup'
      BY <2>9 DEF EnrollSucceeds, Goto
    <3> QED
      BY <3>1, <3>2
  <2>10. CASE EnrollFails(h)
    <3>1. TypeOK'
      BY <2>10 DEF EnrollFails, Exit, Goto
    <3>2. HasBackup'
      BY <2>10 DEF EnrollFails, Exit, Goto
    <3> QED
      BY <3>1, <3>2
  <2>11. CASE RestoreNotRequired(h)
    <3>1. TypeOK'
      BY <2>11 DEF RestoreNotRequired, Goto
    <3>2. HasBackup'
      BY <2>11 DEF RestoreNotRequired, Goto
    <3> QED
      BY <3>1, <3>2
  <2>12. CASE RestoreFile(h)
    <3>1. TypeOK'
      BY <2>12 DEF RestoreFile, Goto
    <3>2. HasBackup'
      BY <2>12 DEF RestoreFile, Goto
    <3> QED
      BY <3>1, <3>2
  <2>13. CASE VerifyFile(h)
    <3>1. TypeOK'
      BY <2>13 DEF VerifyFile, Goto
    <3>2. HasBackup'
      BY <2>13 DEF VerifyFile, Goto
    <3> QED
      BY <3>1, <3>2
  <2>14. CASE ClearRequired(h)
    <3>1. TypeOK'
      BY <2>14 DEF ClearRequired, Goto
    <3>2. HasBackup'
      BY <2>14 DEF ClearRequired, Goto
    <3> QED
      BY <3>1, <3>2
  <2>15. CASE Announce(h)
    <3>1. TypeOK'
      BY <2>15 DEF Announce, Goto
    <3>2. HasBackup'
      BY <2>15 DEF Announce, Goto
    <3> QED
      BY <3>1, <3>2
  <2>16. CASE StopService(h)
    <3>1. TypeOK'
      BY <2>16 DEF StopService, Exit, Goto
    <3>2. HasBackup'
      BY <2>16 DEF StopService, Exit, Goto
    <3> QED
      BY <3>1, <3>2
  <2>17. CASE RestartUnsafe(h)
    <3>1. attempts' \in [Helper -> 0 .. MaxAttempts]
      BY <2>17, MaxAttemptsNat DEF RestartUnsafe
    <3>2. TypeOK'
      BY <2>17, <3>1 DEF RestartUnsafe, NodeStarts, RestartFails, Exit, Goto
    <3>3. HasBackup'
      BY <2>17 DEF RestartUnsafe, NodeStarts, RestartFails, Exit, Goto
    <3> QED
      BY <3>2, <3>3
  <2>18. CASE WaitUnsafe(h)
    <3>1. attempts' \in [Helper -> 0 .. MaxAttempts]
      BY <2>18, MaxAttemptsNat DEF WaitUnsafe
    <3>2. TypeOK'
      BY <2>18, <3>1 DEF WaitUnsafe, Exit, Goto
    <3>3. HasBackup'
      BY <2>18 DEF WaitUnsafe, Exit, Goto
    <3> QED
      BY <3>2, <3>3
  <2>19. CASE RestartSafe(h)
    <3>1. attempts' \in [Helper -> 0 .. MaxAttempts]
      BY <2>19, MaxAttemptsNat DEF RestartSafe
    <3>2. TypeOK'
      BY <2>19, <3>1 DEF RestartSafe, NodeStarts, RestartFails, Goto
    <3>3. HasBackup'
      BY <2>19 DEF RestartSafe, NodeStarts, RestartFails, Goto
    <3> QED
      BY <3>2, <3>3
  <2>20. CASE WaitSafe(h)
    <3>1. attempts' \in [Helper -> 0 .. MaxAttempts]
      BY <2>20, MaxAttemptsNat DEF WaitSafe
    <3>2. TypeOK'
      BY <2>20, <3>1 DEF WaitSafe, Goto
    <3>3. HasBackup'
      BY <2>20 DEF WaitSafe, Goto
    <3> QED
      BY <3>2, <3>3
  <2> QED
    BY <1>6, <2>1, <2>2, <2>3, <2>4, <2>5, <2>6, <2>7, <2>8, <2>9, <2>10, <2>11,
       <2>12, <2>13, <2>14, <2>15, <2>16, <2>17, <2>18, <2>19, <2>20 DEF Step
<1> QED
  BY <1>1, <1>2, <1>3, <1>4, <1>5, <1>6 DEF Next, System

\* The type invariant of the key window holds in every reachable state.
THEOREM TypeCorrect == Spec => [](TypeOK /\ HasBackup)
<1> USE DEF Init, Policy, NodeState, Running, Label, Preflight, Window, Restore, Ended, Outcome
<1>1. ASSUME Init PROVE TypeOK
  <2>1. attempts \in [Helper -> 0 .. MaxAttempts]
    BY <1>1, MaxAttemptsNat
  <2> QED
    BY <1>1, <2>1 DEF TypeOK
<1>2. Init => HasBackup
  BY DEF HasBackup
<1> QED
  BY <1>1, <1>2, TypeStep, PTL DEF Spec

\* One step keeps the agreement of restore_required with the place in the
\* script: in particular a helper that enters on_exit after its duty ended
\* does not restore again, and one whose duty is open does.
LEMMA OpenStep ==
  TypeOK /\ DutyIsOpen /\ [Next]_vars => DutyIsOpen'
<1> SUFFICES ASSUME TypeOK, DutyIsOpen, [Next]_vars PROVE DutyIsOpen'
  OBVIOUS
<1> pc \in [Helper -> Label] /\ required \in [Helper -> BOOLEAN]
      /\ outcome \in [Helper -> Outcome]
  BY DEF TypeOK
<1> USE DEF DutyIsOpen, Preflight, Window, Restore
<1>1. CASE UNCHANGED vars
  BY <1>1 DEF vars
<1>2. CASE Boot \/ Crash \/ AutoRestart
  BY <1>2 DEF Boot, Crash, AutoRestart
<1>3. CASE PowerCut
  BY <1>3 DEF PowerCut, Live, OnDuty, Ended
<1>4. ASSUME NEW h \in Helper, Start(h) PROVE DutyIsOpen'
  BY <1>4 DEF Start, Goto
<1>5. ASSUME NEW h \in Helper, Signal(h) PROVE DutyIsOpen'
  <2>1. CASE Interrupt(h)
    BY <2>1 DEF Interrupt, Exit, Goto, Trapped
  <2>2. CASE Terminate(h) \/ Kill(h)
    BY <2>2 DEF Terminate, Kill, Dies
  <2> QED
    BY <1>5, <2>1, <2>2 DEF Signal
<1>6. ASSUME NEW h \in Helper, Step(h) PROVE DutyIsOpen'
  <2>1. CASE CheckFile(h) \/ CheckService(h) \/ ProbeSafe(h) \/ MakeBackup(h) \/ Arm(h)
    BY <2>1 DEF CheckFile, CheckService, ProbeSafe, MakeBackup, Arm, Refuse, Goto
  <2>2. CASE WriteUnsafe(h) \/ RestartUnsafe(h) \/ WaitUnsafe(h)
    BY <2>2 DEF WriteUnsafe, RestartUnsafe, WaitUnsafe, Exit, Goto
  <2>3. CASE ObtainKeys(h) \/ WritePackage(h) \/ EnrollSucceeds(h) \/ EnrollFails(h)
    BY <2>3 DEF ObtainKeys, WritePackage, EnrollSucceeds, EnrollFails, Exit, Goto
  <2>4. CASE RestoreNotRequired(h) \/ RestoreFile(h) \/ VerifyFile(h) \/ RestartSafe(h)
    BY <2>4 DEF RestoreNotRequired, RestoreFile, VerifyFile, RestartSafe, Goto
  <2>5. CASE WaitSafe(h)
    BY <2>5 DEF WaitSafe, Goto
  <2>6. CASE ClearRequired(h) \/ StopService(h) \/ Announce(h)
    BY <2>6 DEF ClearRequired, StopService, Announce, Exit, Goto
  <2> QED
    BY <1>6, <2>1, <2>2, <2>3, <2>4, <2>5, <2>6 DEF Step
<1> QED
  BY <1>1, <1>2, <1>3, <1>4, <1>5, <1>6 DEF Next, System

\* A step that leaves the host alone keeps the window owned when every helper
\* that is on duty (or dirty) stays so or gives up for everyone to see.
LEMMA HostUnchanged ==
  ASSUME StaleSafeIsDirty, ExposureIsOwned, UNCHANGED host,
         \A g \in Helper : GaveUp(g) => GaveUp(g)',
         \A g \in Helper : OnDuty(g) => OnDuty(g)' \/ GaveUp(g)',
         \A g \in Helper : Dirty(g) => Dirty(g)' \/ GaveUp(g)'
  PROVE  StaleSafeIsDirty' /\ ExposureIsOwned'
<1>1. UNCHANGED <<policy, node, loaded, cut>>
  BY DEF host
<1>2. Void => Void'
  BY <1>1 DEF Void
<1>3. (\E g \in Helper : OnDuty(g)) => Void' \/ \E g \in Helper : OnDuty(g)'
  BY DEF Void
<1>4. (\E g \in Helper : Dirty(g)) => Void' \/ \E g \in Helper : Dirty(g)'
  BY DEF Void
<1>5. ExposureIsOwned'
  BY <1>1, <1>2, <1>3 DEF ExposureIsOwned, Exposed
<1>6. StaleSafeIsDirty'
  BY <1>1, <1>2, <1>4 DEF StaleSafeIsDirty
<1> QED
  BY <1>5, <1>6

\* One step keeps the window owned.
LEMMA DutyStep ==
  DutyInv /\ [Next]_vars => StaleSafeIsDirty' /\ ExposureIsOwned'
<1> SUFFICES ASSUME DutyInv, [Next]_vars PROVE StaleSafeIsDirty' /\ ExposureIsOwned'
  OBVIOUS
<1> DEFINE Goal == StaleSafeIsDirty /\ ExposureIsOwned
<1>1. /\ pc \in [Helper -> Label] /\ outcome \in [Helper -> Outcome]
      /\ policy \in Policy /\ loaded \in Policy /\ node \in NodeState
      /\ backup \in [Helper -> Policy \cup {"none"}]
  BY DEF DutyInv, TypeOK
<1>2. DutyIsOpen /\ HasBackup /\ StaleSafeIsDirty /\ ExposureIsOwned
  BY DEF DutyInv
<1>3. CASE UNCHANGED vars
  BY <1>2, <1>3 DEF vars, StaleSafeIsDirty, ExposureIsOwned, Exposed, Void, GaveUp,
     OnDuty, Dirty
<1>4. CASE System
  <2>1. CASE PowerCut
    BY <2>1 DEF PowerCut, StaleSafeIsDirty, ExposureIsOwned, Void
  <2>2. ASSUME Boot \/ Crash \/ AutoRestart PROVE Goal'
    <3>1. UNCHANGED <<policy, cut, pc, outcome, backup>>
      BY <2>2 DEF Boot, Crash, AutoRestart, NodeStarts
    <3>2. /\ Void' <=> Void
          /\ (\E g \in Helper : OnDuty(g)') <=> \E g \in Helper : OnDuty(g)
          /\ (\E g \in Helper : Dirty(g)') <=> \E g \in Helper : Dirty(g)
      BY <3>1 DEF Void, GaveUp, OnDuty, Dirty
    <3>3. Exposed' => Exposed
      BY <2>2 DEF Boot, Crash, AutoRestart, NodeStarts, Exposed, Running
    <3>4. ExposureIsOwned'
      BY <1>2, <3>2, <3>3 DEF ExposureIsOwned
    <3>5. StaleSafeIsDirty'
      BY <1>2, <2>2, <3>2 DEF Boot, Crash, AutoRestart, NodeStarts,
         StaleSafeIsDirty, Running
    <3> QED
      BY <3>4, <3>5
  <2> QED
    BY <1>4, <2>1, <2>2 DEF System
<1>5. ASSUME NEW h \in Helper, Start(h) \/ Signal(h) PROVE Goal'
  <2> DEFINE Keeps(g) == /\ GaveUp(g) => GaveUp(g)'
                         /\ OnDuty(g) => OnDuty(g)' \/ GaveUp(g)'
                         /\ Dirty(g) => Dirty(g)' \/ GaveUp(g)'
  <2>1. UNCHANGED host
    BY <1>5 DEF Start, Signal, Interrupt, Terminate, Kill
  <2>2. ASSUME NEW g \in Helper PROVE Keeps(g)
    <3>1. CASE Start(h)
      BY <1>1, <2>2, <3>1 DEF Start, Goto, GaveUp, OnDuty, Dirty, Window, Restore
    <3>2. CASE Interrupt(h)
      BY <1>1, <2>2, <3>2 DEF Interrupt, Exit, Goto, GaveUp, OnDuty, Dirty, Window, Restore
    <3>3. CASE Terminate(h) \/ Kill(h)
      BY <1>1, <2>2, <3>3 DEF Terminate, Kill, Dies, GaveUp, OnDuty, Dirty, Window, Restore
    <3> QED
      BY <1>5, <3>1, <3>2, <3>3 DEF Signal
  <2> QED
    BY <1>2, <2>1, <2>2, HostUnchanged
<1>6. ASSUME NEW h \in Helper, Step(h) PROVE Goal'
  <2> DEFINE Keeps(g) == /\ GaveUp(g) => GaveUp(g)'
                         /\ OnDuty(g) => OnDuty(g)' \/ GaveUp(g)'
                         /\ Dirty(g) => Dirty(g)' \/ GaveUp(g)'
  <2> USE DEF GaveUp, OnDuty, Dirty, Goto, Exit
  <2>1. CASE CheckFile(h) \/ CheckService(h) \/ ProbeSafe(h) \/ MakeBackup(h) \/ Arm(h)
    <3>1. UNCHANGED host /\ \A g \in Helper : Keeps(g)
      BY <1>1, <2>1 DEF CheckFile, CheckService, ProbeSafe, MakeBackup, Arm, Refuse,
         Window, Restore
    <3> QED
      BY <1>2, <3>1, HostUnchanged
  <2>2. CASE ObtainKeys(h) \/ WritePackage(h) \/ EnrollSucceeds(h) \/ EnrollFails(h)
    <3>1. UNCHANGED host /\ \A g \in Helper : Keeps(g)
      BY <1>1, <2>2 DEF ObtainKeys, WritePackage, EnrollSucceeds, EnrollFails,
         Window, Restore
    <3> QED
      BY <1>2, <3>1, HostUnchanged
  <2>3. CASE WaitUnsafe(h) \/ ClearRequired(h) \/ Announce(h)
    <3>1. CASE WaitUnsafe(h)
      <4>1. UNCHANGED host /\ \A g \in Helper : Keeps(g)
        BY <1>1, <3>1 DEF WaitUnsafe, Window, Restore
      <4> QED
        BY <1>2, <4>1, HostUnchanged
    <3>2. CASE ClearRequired(h) \/ Announce(h)
      <4>1. UNCHANGED host /\ \A g \in Helper : Keeps(g)
        BY <1>1, <3>2 DEF ClearRequired, Announce, Window, Restore
      <4> QED
        BY <1>2, <4>1, HostUnchanged
    <3> QED
      BY <2>3, <3>1, <3>2
  <2>4. CASE WriteUnsafe(h)
    <3>1. outcome[h] = "none"
      BY <1>2, <2>4 DEF WriteUnsafe, DutyIsOpen, Window
    <3>2. OnDuty(h)' /\ Dirty(h)'
      BY <1>1, <2>4, <3>1 DEF WriteUnsafe, Window, Restore
    <3> QED
      BY <3>2 DEF StaleSafeIsDirty, ExposureIsOwned
  <2>5. CASE RestartUnsafe(h) \/ RestartSafe(h)
    <3>1. outcome[h] = "none" /\ outcome' = outcome /\ backup' = backup
      BY <1>2, <2>5 DEF RestartUnsafe, RestartSafe, DutyIsOpen, Window, Restore
    <3>2. OnDuty(h)'
      BY <1>1, <2>5, <3>1 DEF RestartUnsafe, RestartSafe, Window, Restore
    <3>3. \A g \in Helper : Keeps(g)
      BY <1>1, <2>5, <3>1 DEF RestartUnsafe, RestartSafe, Window, Restore
    <3>4. NodeStarts \/ RestartFails
      BY <2>5 DEF RestartUnsafe, RestartSafe
    <3>5. CASE UNCHANGED host
      BY <1>2, <3>3, <3>5, HostUnchanged
    <3>6. CASE NodeStarts \/ node' = "down"
      BY <3>2, <3>6 DEF NodeStarts, StaleSafeIsDirty, ExposureIsOwned, Running
    <3> QED
      BY <3>4, <3>5, <3>6 DEF RestartFails
  <2>6. CASE RestoreNotRequired(h)
    <3>1. UNCHANGED host /\ \A g \in Helper : Keeps(g)
      BY <1>1, <2>6 DEF RestoreNotRequired, Window, Restore
    <3> QED
      BY <1>2, <3>1, HostUnchanged
  <2>7. CASE RestoreFile(h)
    <3>1. outcome[h] = "none" /\ outcome' = outcome /\ backup' = backup
      BY <1>2, <2>7 DEF RestoreFile, DutyIsOpen
    <3>2. OnDuty(h)'
      BY <1>1, <2>7, <3>1 DEF RestoreFile, Restore
    <3>3. ExposureIsOwned'
      BY <3>2 DEF ExposureIsOwned
    <3>4. backup[h] \in Policy
      BY <1>2, <2>7 DEF HasBackup, RestoreFile, Restore
    <3>5. StaleSafeIsDirty'
      BY <1>1, <2>7, <3>1, <3>2, <3>4 DEF RestoreFile, StaleSafeIsDirty, Policy
    <3> QED
      BY <3>3, <3>5
  <2>8. CASE VerifyFile(h)
    <3>1. backup[h] \in Policy
      BY <1>2, <2>8 DEF HasBackup, VerifyFile, Restore
    <3>2. UNCHANGED host /\ \A g \in Helper : Keeps(g)
      BY <1>1, <2>8, <3>1 DEF VerifyFile, Window, Restore, Policy
    <3> QED
      BY <1>2, <3>2, HostUnchanged
  <2>9. CASE WaitSafe(h)
    <3>1. CASE outcome' = outcome
      <4>1. UNCHANGED host /\ \A g \in Helper : Keeps(g)
        BY <1>1, <2>9, <3>1 DEF WaitSafe, Window, Restore
      <4> QED
        BY <1>2, <4>1, HostUnchanged
    <3>2. CASE Serves("Safe") /\ outcome' = [outcome EXCEPT ![h] = "verified"]
      <4>1. UNCHANGED <<policy, node, loaded, cut, backup>>
        BY <2>9 DEF WaitSafe, host
      <4>2. Void => Void'
        BY <1>1, <1>2, <2>9, <3>2, <4>1 DEF Void, WaitSafe, DutyIsOpen, Restore
      <4>3. ASSUME policy = "Unsafe" PROVE Void' \/ \E g \in Helper : Dirty(g)'
        <5>1. Void \/ \E g \in Helper : Dirty(g)
          BY <1>2, <3>2, <4>3 DEF StaleSafeIsDirty, Serves, Running
        <5>2. ASSUME NEW g \in Helper, Dirty(g) PROVE Dirty(g)'
          <6>1. g # h
            BY <2>9, <5>2 DEF WaitSafe
          <6> QED
            BY <1>1, <2>9, <3>2, <4>1, <5>2, <6>1 DEF WaitSafe
        <5> QED
          BY <4>2, <5>1, <5>2
      <4>4. Exposed' => policy = "Unsafe"
        BY <3>2, <4>1 DEF Exposed, Serves
      <4> QED
        BY <4>1, <4>3, <4>4 DEF StaleSafeIsDirty, ExposureIsOwned
    <3> QED
      BY <2>9, <3>1, <3>2 DEF WaitSafe
  <2>10. CASE StopService(h)
    <3>1. CASE node' = "stopped"
      BY <3>1 DEF StaleSafeIsDirty, ExposureIsOwned, Exposed, Running
    <3>2. CASE outcome' = [outcome EXCEPT ![h] = "halt_failed"]
      <4>1. GaveUp(h)'
        BY <1>1, <3>2
      <4> QED
        BY <4>1 DEF StaleSafeIsDirty, ExposureIsOwned, Void
    <3> QED
      BY <2>10, <3>1, <3>2 DEF StopService
  <2> QED
    BY <1>6, <2>1, <2>2, <2>3, <2>4, <2>5, <2>6, <2>7, <2>8, <2>9, <2>10 DEF Step
<1> QED
  BY <1>3, <1>4, <1>5, <1>6 DEF Next

\* The inductive invariant.
THEOREM DutyInvariant == Spec => []DutyInv
<1>1. Init => DutyIsOpen /\ StaleSafeIsDirty /\ ExposureIsOwned
  BY DEF Init, DutyIsOpen, StaleSafeIsDirty, ExposureIsOwned, Exposed
<1>2. DutyInv /\ [Next]_vars => DutyIsOpen' /\ StaleSafeIsDirty' /\ ExposureIsOwned'
  BY OpenStep, DutyStep DEF DutyInv
<1> QED
  BY <1>1, <1>2, TypeCorrect, PTL DEF Spec, DutyInv

\* Key-management RPC is exposed only while a helper is bound to close it, or
\* after one was lost: for every number of overlapping helpers.
THEOREM ExposureOwned == Spec => []ExposureIsOwned
  BY DutyInvariant, PTL DEF DutyInv

\* A step of a helper moves that helper alone, which does not start over, and
\* gives up only a duty it had.
LEMMA HelperStep ==
  ASSUME TypeOK, DutyIsOpen, NEW h \in Helper, Start(h) \/ Signal(h) \/ Step(h)
  PROVE  /\ cut' = cut
         /\ \E label \in Label \ {"idle"} : pc' = [pc EXCEPT ![h] = label]
         /\ \E o \in Outcome : outcome' = [outcome EXCEPT ![h] = o]
         /\ GaveUp(h) => GaveUp(h)'
         /\ GaveUp(h)' => GaveUp(h) \/ ~OnDuty(h)'
<1>1. pc \in [Helper -> Label] /\ outcome \in [Helper -> Outcome]
  BY DEF TypeOK
<1> USE DEF Label, Outcome, Preflight, Window, Restore, Ended, OnDuty, GaveUp,
        DutyIsOpen, host, Goto, Exit
<1>2. CASE Start(h) \/ Interrupt(h)
  BY <1>1, <1>2 DEF Start, Interrupt, Trapped
<1>3. CASE Terminate(h) \/ Kill(h)
  BY <1>1, <1>3 DEF Terminate, Kill, Dies
<1>4. CASE CheckFile(h) \/ CheckService(h) \/ ProbeSafe(h) \/ MakeBackup(h) \/ Arm(h)
  BY <1>1, <1>4 DEF CheckFile, CheckService, ProbeSafe, MakeBackup, Arm, Refuse
<1>5. CASE WriteUnsafe(h)
  BY <1>1, <1>5 DEF WriteUnsafe
<1>6. CASE RestartUnsafe(h) \/ RestartSafe(h)
  BY <1>1, <1>6 DEF RestartUnsafe, RestartSafe, NodeStarts, RestartFails
<1>7. CASE WaitUnsafe(h)
  BY <1>1, <1>7 DEF WaitUnsafe
<1>8. CASE ObtainKeys(h) \/ WritePackage(h) \/ EnrollSucceeds(h) \/ EnrollFails(h)
  BY <1>1, <1>8 DEF ObtainKeys, WritePackage, EnrollSucceeds, EnrollFails
<1>9. CASE RestoreNotRequired(h)
  BY <1>1, <1>9 DEF RestoreNotRequired
<1>10. CASE RestoreFile(h) \/ VerifyFile(h) \/ ClearRequired(h) \/ Announce(h)
  BY <1>1, <1>10 DEF RestoreFile, VerifyFile, ClearRequired, Announce
<1>11. CASE WaitSafe(h)
  BY <1>1, <1>11 DEF WaitSafe
<1>12. CASE StopService(h)
  BY <1>1, <1>12 DEF StopService
<1> QED
  BY <1>2, <1>3, <1>4, <1>5, <1>6, <1>7, <1>8, <1>9, <1>10, <1>11, <1>12
     DEF Step, Signal

\* A step changes the duty of at most one helper, unless it loses helpers.
LEMMA OneOwnerMoves ==
  TypeOK /\ DutyIsOpen /\ [Next]_vars =>
    \/ Void' /\ \A g \in Helper : OnDuty(g)' => OnDuty(g)
    \/ /\ Void' <=> Void
       /\ \/ \A g \in Helper : OnDuty(g)' <=> OnDuty(g)
          \/ \E h \in Helper : \A g \in Helper \ {h} : OnDuty(g)' <=> OnDuty(g)
<1> SUFFICES ASSUME TypeOK, DutyIsOpen, [Next]_vars
             PROVE \/ Void' /\ \A g \in Helper : OnDuty(g)' => OnDuty(g)
                   \/ /\ Void' <=> Void
                      /\ \/ \A g \in Helper : OnDuty(g)' <=> OnDuty(g)
                         \/ \E h \in Helper :
                              \A g \in Helper \ {h} : OnDuty(g)' <=> OnDuty(g)
  OBVIOUS
<1>1. pc \in [Helper -> Label] /\ outcome \in [Helper -> Outcome]
  BY DEF TypeOK
<1>2. CASE UNCHANGED <<cut, pc, outcome>>
  BY <1>2 DEF Void, GaveUp, OnDuty
<1>3. CASE PowerCut
  BY <1>1, <1>3 DEF PowerCut, Void, OnDuty, Live, Ended, Window, Restore
<1>4. ASSUME NEW h \in Helper, cut' = cut,
             \E label \in Label : pc' = [pc EXCEPT ![h] = label],
             \E o \in Outcome : outcome' = [outcome EXCEPT ![h] = o],
             GaveUp(h) => GaveUp(h)',
             GaveUp(h)' => GaveUp(h) \/ ~OnDuty(h)'
      PROVE  \/ Void' /\ \A g \in Helper : OnDuty(g)' => OnDuty(g)
             \/ /\ Void' <=> Void
                /\ \A g \in Helper \ {h} : OnDuty(g)' <=> OnDuty(g)
  <2>1. \A g \in Helper \ {h} : /\ OnDuty(g)' <=> OnDuty(g)
                                /\ GaveUp(g)' <=> GaveUp(g)
    BY <1>1, <1>4 DEF OnDuty, GaveUp
  <2>2. CASE GaveUp(h)' /\ ~GaveUp(h)
    <3>1. Void' /\ ~OnDuty(h)'
      BY <1>4, <2>2 DEF Void
    <3> QED
      BY <2>1, <3>1
  <2>3. CASE GaveUp(h)' <=> GaveUp(h)
    BY <1>4, <2>1, <2>3 DEF Void
  <2> QED
    BY <1>4, <2>2, <2>3
<1> QED
  BY <1>2, <1>3, <1>4, HelperStep
     DEF Next, System, vars, Boot, Crash, AutoRestart, NodeStarts, enroll

\* The helpers implement the abstract window.
THEOREM Implements == Spec => ImplementsSafeWindow
<1> USE DEF Abstract!Next, Abstract!vars, Abstract!Enter, Abstract!Leave,
      Abstract!Work, Abstract!Lose
<1>1. Init => Abstract!Init
  BY DEF Init, Abstract!Init, Exposed, OnDuty, Window, Restore, Void, GaveUp
<1>2. ASSUME TypeOK, DutyIsOpen, ExposureIsOwned, ExposureIsOwned', [Next]_vars
      PROVE  [Abstract!Next]_(Abstract!vars)
  <2> DEFINE owners == {h \in Helper : OnDuty(h)}
  <2>1. Exposed \in BOOLEAN /\ Exposed' \in BOOLEAN /\ Void \in BOOLEAN /\ Void' \in BOOLEAN
    BY DEF Exposed, Void
  <2>2. Exposed' => owners' # {} \/ Void'
    BY <1>2 DEF ExposureIsOwned
  <2>3. CASE Void' /\ \A g \in Helper : OnDuty(g)' => OnDuty(g)
    BY <2>1, <2>3
  <2>4. CASE Void' = Void /\ \A g \in Helper : OnDuty(g)' <=> OnDuty(g)
    <3>1. owners' = owners
      BY <2>4
    <3>2. CASE owners # {} \/ Void
      BY <2>1, <2>4, <3>1, <3>2
    <3>3. CASE owners = {} /\ ~Void
      BY <1>2, <2>1, <2>2, <2>4, <3>1, <3>3 DEF ExposureIsOwned
    <3> QED
      BY <3>2, <3>3
  <2>5. ASSUME Void' = Void, NEW h \in Helper,
               \A g \in Helper \ {h} : OnDuty(g)' <=> OnDuty(g),
               OnDuty(h)' # OnDuty(h)
        PROVE  Abstract!Next
    <3>1. CASE OnDuty(h)
      <4>1. h \in owners /\ owners' = owners \ {h}
        BY <2>5, <3>1 DEF OnDuty
      <4> QED
        BY <2>1, <2>2, <2>5, <4>1
    <3>2. CASE ~OnDuty(h)
      <4>1. h \in Helper \ owners /\ owners' = owners \cup {h}
        BY <2>5, <3>2 DEF OnDuty
      <4> QED
        BY <2>1, <2>5, <4>1
    <3> QED
      BY <3>1, <3>2
  <2> QED
    BY <1>2, <2>1, <2>3, <2>4, <2>5, OneOwnerMoves
<1> QED
  BY <1>1, <1>2, DutyInvariant, PTL
     DEF Spec, DutyInv, ImplementsSafeWindow, Abstract!Spec

\* The abstract window keeps its promise whatever its owners do, so that it is
\* worth implementing: it is exposed only while it is owned, or after a loss.
THEOREM WindowKeepsPromise == Abstract!Spec => []Abstract!Owned
<1>1. Abstract!Init => Abstract!Owned
  BY DEF Abstract!Init, Abstract!Owned
<1>2. ASSUME Abstract!Owned, [Abstract!Next]_(Abstract!vars) PROVE Abstract!Owned'
  <2>1. CASE UNCHANGED Abstract!vars
    BY <1>2, <2>1 DEF Abstract!Owned, Abstract!vars
  <2>2. CASE Abstract!Work \/ Abstract!Lose
    BY <2>2 DEF Abstract!Owned, Abstract!Work, Abstract!Lose
  <2>3. ASSUME NEW h \in Helper, Abstract!Enter(h) \/ Abstract!Leave(h)
        PROVE  Abstract!Owned'
    BY <2>3 DEF Abstract!Owned, Abstract!Enter, Abstract!Leave
  <2> QED
    BY <1>2, <2>1, <2>2, <2>3 DEF Abstract!Next
<1> QED
  BY <1>1, <1>2, PTL DEF Abstract!Spec

\* One step keeps a lone helper's file Safe from its check on, and keeps what
\* it proved.
LEMMA VerifiedStep ==
  TypeOK /\ DutyIsOpen /\ VerifiedInv /\ [Next]_vars => VerifiedInv'
<1> SUFFICES ASSUME TypeOK, DutyIsOpen, VerifiedInv, [Next]_vars, NEW h \in Helper,
                    Alone(h)'
             PROVE  /\ pc'[h] \in {"rrestart", "rwait"} => policy' = "Safe"
                    /\ outcome'[h] = "verified" =>
                         /\ pc'[h] \in {"announce", "restore"} \cup Ended
                         /\ ~required'[h]
                         /\ policy' = "Safe"
                         /\ ~Exposed'
  BY DEF VerifiedInv
<1> DEFINE Goal == /\ pc[h] \in {"rrestart", "rwait"} => policy = "Safe"
                   /\ outcome[h] = "verified" =>
                        /\ pc[h] \in {"announce", "restore"} \cup Ended
                        /\ ~required[h]
                        /\ policy = "Safe"
                        /\ ~Exposed
<1>1. /\ pc \in [Helper -> Label] /\ outcome \in [Helper -> Outcome]
      /\ required \in [Helper -> BOOLEAN]
  BY DEF TypeOK
<1>2. CASE UNCHANGED vars
  <2>1. Alone(h)
    BY <1>2 DEF vars, Alone
  <2> QED
    BY <1>2, <2>1 DEF vars, VerifiedInv, Exposed
<1>3. CASE System
  <2>1. UNCHANGED <<policy, required>>
    BY <1>3 DEF System, Boot, Crash, AutoRestart, PowerCut, NodeStarts
  <2>2. Alone(h) /\ (pc'[h] # pc[h] => pc'[h] = "dead")
          /\ (outcome'[h] = "verified" => outcome[h] = "verified")
    BY <1>1, <1>3 DEF System, Boot, Crash, AutoRestart, PowerCut, Alone, Live
  <2>3. policy = "Safe" /\ Exposed' => Exposed
    BY <1>3 DEF System, Boot, Crash, AutoRestart, PowerCut, NodeStarts, Exposed, Running
  <2> QED
    BY <2>1, <2>2, <2>3 DEF VerifiedInv, Ended
<1>4. ASSUME NEW g \in Helper, Start(g) \/ Signal(g) \/ Step(g)
      PROVE  g = h /\ Alone(h)
  BY <1>1, <1>4, HelperStep DEF Alone
<1>5. ASSUME Start(h) \/ Signal(h), Goal PROVE Goal'
  BY <1>1, <1>5 DEF Start, Signal, Interrupt, Terminate, Kill, Dies, Exit, Goto, Live,
     Trapped, Window, Restore, Ended, Preflight, DutyIsOpen, host, Exposed
<1>6. ASSUME Step(h), Goal PROVE Goal'
  <2> USE DEF Goto, Exit, host, Exposed, Ended
  <2>1. CASE CheckFile(h) \/ CheckService(h) \/ ProbeSafe(h) \/ MakeBackup(h) \/ Arm(h)
    BY <1>1, <1>6, <2>1 DEF CheckFile, CheckService, ProbeSafe, MakeBackup, Arm, Refuse
  <2>2. CASE WriteUnsafe(h) \/ RestartUnsafe(h)
    BY <1>1, <1>6, <2>2 DEF WriteUnsafe, RestartUnsafe, NodeStarts, RestartFails
  <2>3. CASE WaitUnsafe(h)
    BY <1>1, <1>6, <2>3 DEF WaitUnsafe
  <2>4. CASE ObtainKeys(h) \/ WritePackage(h) \/ EnrollSucceeds(h) \/ EnrollFails(h)
    BY <1>1, <1>6, <2>4 DEF ObtainKeys, WritePackage, EnrollSucceeds, EnrollFails
  <2>5. CASE RestoreNotRequired(h) \/ ClearRequired(h) \/ Announce(h)
    BY <1>1, <1>6, <2>5 DEF RestoreNotRequired, ClearRequired, Announce
  <2>6. CASE RestoreFile(h) \/ VerifyFile(h)
    BY <1>1, <1>6, <2>6 DEF RestoreFile, VerifyFile
  <2>7. CASE RestartSafe(h)
    BY <1>1, <1>6, <2>7 DEF RestartSafe, NodeStarts, RestartFails
  <2>8. CASE WaitSafe(h)
    BY <1>1, <1>6, <2>8 DEF WaitSafe, Serves
  <2>9. CASE StopService(h)
    BY <1>1, <1>6, <2>9 DEF StopService
  <2> QED
    BY <1>6, <2>1, <2>2, <2>3, <2>4, <2>5, <2>6, <2>7, <2>8, <2>9 DEF Step
<1> QED
  BY <1>2, <1>3, <1>4, <1>5, <1>6 DEF Next, VerifiedInv

\* What a lone helper checked and proved stays so, in every reachable state.
THEOREM VerifiedInvariant == Spec => []VerifiedInv
<1>1. Init => VerifiedInv
  BY DEF Init, VerifiedInv
<1> QED
  BY <1>1, VerifiedStep, DutyInvariant, PTL DEF Spec, DutyInv

\* The inductive invariant as a whole, as the runs check it.
THEOREM WindowInvariant == Spec => []WindowInv
  BY DutyInvariant, VerifiedInvariant, PTL DEF WindowInv

\* A helper that ran alone and proved Safe mode is right for good, whatever
\* fails afterwards.
THEOREM VerifiedClosed == Spec => []VerifiedIsClosed
<1>1. VerifiedInv => VerifiedIsClosed
  BY DEF VerifiedInv, VerifiedIsClosed
<1> QED
  BY <1>1, VerifiedInvariant, PTL

\* While its duty is open a helper has restore_required set, so that on_exit
\* restores; when on_exit finds it reset the duty has ended well.
KeptInv ==
  /\ cut = FALSE
  /\ \A h \in Helper :
       /\ ~GaveUp(h)
       /\ pc[h] \in Window => required[h]
       /\ pc[h] = "restore" /\ ~required[h] => outcome[h] \in {"verified", "halted"}

\* What ends a helper without its consent, and a host that does not obey it.
Loss == {"signal", "trap_signal", "kill", "power", "stop"}

LEMMA KeptStep ==
  ASSUME Faults \cap Loss = {}, TypeOK, KeptInv, [Next]_vars
  PROVE  KeptInv'
<1> USE DEF KeptInv, GaveUp, Window, host
<1>1. /\ pc \in [Helper -> Label] /\ required \in [Helper -> BOOLEAN]
      /\ outcome \in [Helper -> Outcome]
  BY DEF TypeOK
<1>2. CASE UNCHANGED vars
  BY <1>2 DEF vars
<1>3. CASE System
  <2>1. UNCHANGED <<cut, pc, required, outcome>>
    BY <1>3 DEF System, Boot, Crash, AutoRestart, NodeStarts, PowerCut, Loss
  <2> QED
    BY <2>1
<1>4. ASSUME NEW h \in Helper, Start(h) PROVE KeptInv'
  BY <1>1, <1>4 DEF Start, Goto
<1>5. ASSUME NEW h \in Helper PROVE ~Signal(h)
  BY DEF Signal, Interrupt, Terminate, Kill, Loss
<1>6. ASSUME NEW h \in Helper, Step(h) PROVE KeptInv'
  <2> USE <1>1 DEF Goto, Exit
  <2>1. CASE CheckFile(h) \/ CheckService(h) \/ ProbeSafe(h) \/ MakeBackup(h) \/ Arm(h)
    BY <2>1 DEF CheckFile, CheckService, ProbeSafe, MakeBackup, Arm, Refuse
  <2>2. CASE WriteUnsafe(h) \/ RestartUnsafe(h) \/ WaitUnsafe(h)
    BY <2>2 DEF WriteUnsafe, RestartUnsafe, WaitUnsafe, NodeStarts, RestartFails
  <2>3. CASE ObtainKeys(h) \/ WritePackage(h) \/ EnrollSucceeds(h) \/ EnrollFails(h)
    BY <2>3 DEF ObtainKeys, WritePackage, EnrollSucceeds, EnrollFails
  <2>4. CASE RestoreNotRequired(h) \/ RestoreFile(h)
    BY <2>4 DEF RestoreNotRequired, RestoreFile
  <2>5. CASE VerifyFile(h) \/ RestartSafe(h) \/ ClearRequired(h) \/ Announce(h)
    BY <2>5 DEF VerifyFile, RestartSafe, NodeStarts, RestartFails, ClearRequired,
       Announce
  <2>6. CASE WaitSafe(h)
    BY <2>6 DEF WaitSafe
  <2>7. CASE StopService(h)
    BY <2>7 DEF StopService, Loss
  <2> QED
    BY <1>6, <2>1, <2>2, <2>3, <2>4, <2>5, <2>6, <2>7 DEF Step
<1> QED
  BY <1>2, <1>3, <1>4, <1>5, <1>6 DEF Next

\* Without such a loss the invariant holds throughout.
THEOREM KeptInvariant ==
  ASSUME Faults \cap Loss = {} PROVE Spec => []KeptInv
<1>1. Init => KeptInv
  BY DEF Init, KeptInv, GaveUp, Window
<1>2. TypeOK /\ KeptInv /\ [Next]_vars => KeptInv'
  BY KeptStep
<1> QED
  BY <1>1, <1>2, TypeCorrect, PTL DEF Spec

\* Unless a helper is interrupted or killed, the power is cut or systemctl stop
\* is refused, every helper that armed its traps ends with Safe proven or the
\* service stopped, whatever commands fail and however many helpers overlap.
THEOREM AllProvenOrStopped ==
  ASSUME Faults \cap Loss = {} PROVE Spec => []ProvenOrStopped
<1>1. KeptInv => ProvenOrStopped
  BY DEF KeptInv, ProvenOrStopped
<1> QED
  BY <1>1, KeptInvariant, PTL

\* Under the same condition no exposure outlives the helpers: once each of them
\* has ended (or has not begun) the node serves no key-management RPC and will
\* not at a later start, whatever enrollment, probe, restart or restoration
\* failed on the way.  A signal alone breaks it.
THEOREM QuietIsClosed ==
  ASSUME Faults \cap Loss = {} PROVE Spec => []InterruptedRestoresSafe
<1>1. KeptInv /\ ExposureIsOwned => InterruptedRestoresSafe
  BY DEF KeptInv, ExposureIsOwned, InterruptedRestoresSafe, Quiet, Void, OnDuty,
     Window, Restore, Ended
<1> QED
  BY <1>1, KeptInvariant, ExposureOwned, PTL

-----------------------------------------------------------------------------
(* The file that a halt leaves behind.                                     *)

\* A helper alone has the Safe policy in its backup, and once it wrote that
\* back nothing replaces it, the halt included.
HaltedInv ==
  \A h \in Helper : Alone(h) =>
    /\ pc[h] \in {"service", "probe", "backup"} => policy = "Safe"
    /\ pc[h] \in {"arm", "announce"} \cup Window \cup Restore => backup[h] = "Safe"
    /\ pc[h] \in {"verify", "rrestart", "rwait", "clear", "halt"} => policy = "Safe"
    /\ outcome[h] = "halted" =>
         pc[h] \in {"restore"} \cup Ended /\ ~required[h] /\ policy = "Safe"

\* One step keeps it, if the copy of the backup does not fail.
LEMMA HaltedStep ==
  ASSUME "restore" \notin Faults, TypeOK, DutyIsOpen, HaltedInv, [Next]_vars
  PROVE  HaltedInv'
<1> SUFFICES ASSUME NEW h \in Helper, Alone(h)'
             PROVE  /\ pc'[h] \in {"service", "probe", "backup"} => policy' = "Safe"
                    /\ pc'[h] \in {"arm", "announce"} \cup Window \cup Restore =>
                         backup'[h] = "Safe"
                    /\ pc'[h] \in {"verify", "rrestart", "rwait", "clear", "halt"} =>
                         policy' = "Safe"
                    /\ outcome'[h] = "halted" =>
                         pc'[h] \in {"restore"} \cup Ended /\ ~required'[h]
                           /\ policy' = "Safe"
  BY DEF HaltedInv
<1> DEFINE Goal == /\ pc[h] \in {"service", "probe", "backup"} => policy = "Safe"
                   /\ pc[h] \in {"arm", "announce"} \cup Window \cup Restore =>
                        backup[h] = "Safe"
                   /\ pc[h] \in {"verify", "rrestart", "rwait", "clear", "halt"} =>
                        policy = "Safe"
                   /\ outcome[h] = "halted" =>
                        pc[h] \in {"restore"} \cup Ended /\ ~required[h]
                          /\ policy = "Safe"
<1>1. /\ pc \in [Helper -> Label] /\ outcome \in [Helper -> Outcome]
      /\ required \in [Helper -> BOOLEAN] /\ policy \in Policy
      /\ backup \in [Helper -> Policy \cup {"none"}]
  BY DEF TypeOK
<1> USE DEF Window, Restore, Ended
<1>2. CASE UNCHANGED vars
  <2>1. Alone(h)
    BY <1>2 DEF vars, Alone
  <2> QED
    BY <1>2, <2>1 DEF vars, HaltedInv
<1>3. CASE System
  <2>1. UNCHANGED <<policy, required, backup>>
    BY <1>3 DEF System, Boot, Crash, AutoRestart, PowerCut, NodeStarts
  <2>2. Alone(h) /\ (pc'[h] # pc[h] => pc'[h] = "dead")
          /\ (outcome'[h] = "halted" => outcome[h] = "halted")
    BY <1>1, <1>3 DEF System, Boot, Crash, AutoRestart, PowerCut, Alone, Live
  <2> QED
    BY <2>1, <2>2 DEF HaltedInv
<1>4. ASSUME NEW g \in Helper, Start(g) \/ Signal(g) \/ Step(g)
      PROVE  g = h /\ Alone(h)
  BY <1>1, <1>4, HelperStep DEF Alone
<1>5. ASSUME Start(h) \/ Signal(h), Goal PROVE Goal'
  BY <1>1, <1>5 DEF Start, Signal, Interrupt, Terminate, Kill, Dies, Exit, Goto, Live,
     Trapped, Preflight, DutyIsOpen, host
<1>6. ASSUME Step(h), Goal PROVE Goal'
  <2> USE DEF Goto, Exit, host
  <2>1. CASE CheckFile(h) \/ CheckService(h) \/ ProbeSafe(h)
    BY <1>1, <1>6, <2>1 DEF CheckFile, CheckService, ProbeSafe, Refuse
  <2>2. CASE MakeBackup(h) \/ Arm(h)
    BY <1>1, <1>6, <2>2 DEF MakeBackup, Arm, Refuse
  <2>3. CASE WriteUnsafe(h) \/ WaitUnsafe(h)
    BY <1>1, <1>6, <2>3 DEF WriteUnsafe, WaitUnsafe
  <2>4. CASE RestartUnsafe(h)
    BY <1>1, <1>6, <2>4 DEF RestartUnsafe, NodeStarts, RestartFails
  <2>5. CASE ObtainKeys(h) \/ WritePackage(h) \/ EnrollSucceeds(h) \/ EnrollFails(h)
    BY <1>1, <1>6, <2>5 DEF ObtainKeys, WritePackage, EnrollSucceeds, EnrollFails
  <2>6. CASE RestoreNotRequired(h) \/ ClearRequired(h) \/ Announce(h)
    BY <1>1, <1>6, <2>6 DEF RestoreNotRequired, ClearRequired, Announce
  <2>7. CASE RestoreFile(h) \/ VerifyFile(h)
    BY <1>1, <1>6, <2>7 DEF RestoreFile, VerifyFile
  <2>8. CASE RestartSafe(h)
    BY <1>1, <1>6, <2>8 DEF RestartSafe, NodeStarts, RestartFails
  <2>9. CASE WaitSafe(h)
    BY <1>1, <1>6, <2>9 DEF WaitSafe
  <2>10. CASE StopService(h)
    BY <1>1, <1>6, <2>10 DEF StopService, DutyIsOpen
  <2> QED
    BY <1>6, <2>1, <2>2, <2>3, <2>4, <2>5, <2>6, <2>7, <2>8, <2>9, <2>10 DEF Step
<1> QED
  BY <1>2, <1>3, <1>4, <1>5, <1>6 DEF Next, HaltedInv

\* docs/validator-self-join.md, "If restoration or health verification fails, it
\* leaves Safe on disk, stops the service": so it is for a helper that ran with
\* no other one and whose backup could be copied back, whatever else failed and
\* wherever it was interrupted.  Both conditions are needed: two helpers, or a
\* copy that fails, leave Unsafe in the file of a stopped node.
HaltAloneLeavesSafe ==
  \A h \in Helper : Alone(h) /\ outcome[h] = "halted" => policy = "Safe"

THEOREM HaltedAlone ==
  ASSUME "restore" \notin Faults PROVE Spec => []HaltAloneLeavesSafe
<1>1. Init => HaltedInv
  BY DEF Init, HaltedInv, Window, Restore
<1>2. TypeOK /\ DutyIsOpen /\ HaltedInv /\ [Next]_vars => HaltedInv'
  BY HaltedStep
<1>3. HaltedInv => HaltAloneLeavesSafe
  BY DEF HaltedInv, HaltAloneLeavesSafe
<1> QED
  BY <1>1, <1>2, <1>3, DutyInvariant, PTL DEF Spec, DutyInv

-----------------------------------------------------------------------------
(* Why every helper ends.                                                  *)

\* The labels in the order of the script, counted from its end; on_exit comes
\* after every other line and runs once.
MainPlace ==
  [idle |-> 26, file |-> 25, service |-> 24, probe |-> 23, backup |-> 22, arm |-> 21,
   write |-> 20, restart |-> 19, wait |-> 18, enroll |-> 17, observe |-> 16,
   written |-> 15, restore |-> 14, verify |-> 13, rrestart |-> 12, rwait |-> 11,
   clear |-> 10, halt |-> 9, announce |-> 8, done |-> 0, dead |-> 0]

TrapPlace == [restore |-> 7, verify |-> 6, rrestart |-> 5, rwait |-> 4, clear |-> 3, halt |-> 2]

Place(h) == IF inTrap[h] /\ pc[h] \in Restore THEN TrapPlace[pc[h]] ELSE MainPlace[pc[h]]

\* Helper h comes closer to its end: to a later place, or with one more of the
\* bounded attempts used up at the same one.
Advances(h) == \/ Place(h)' < Place(h)
               \/ Place(h)' = Place(h) /\ attempts[h] < attempts'[h]

LEMMA PlaceValues ==
  /\ \A label \in Label \ Ended : MainPlace[label] \in 8 .. 26
  /\ \A label \in Ended : MainPlace[label] = 0
  /\ \A label \in Restore : TrapPlace[label] \in 2 .. 7 /\ MainPlace[label] \in 9 .. 14
  BY DEF MainPlace, TrapPlace, Label, Preflight, Window, Restore, Ended

\* errexit and the traps lead to on_exit from everywhere before it.
LEMMA ExitAdvances ==
  ASSUME TypeOK, NEW h \in Helper, Exit(h),
         pc[h] \in Window \/ (pc[h] \in Restore \cup {"announce"} /\ ~inTrap[h])
  PROVE  Place(h)' < Place(h)
<1>1. pc \in [Helper -> Label] /\ inTrap \in [Helper -> BOOLEAN]
  BY DEF TypeOK
<1>2. pc'[h] = "restore" /\ inTrap'[h]
  BY <1>1 DEF Exit, Goto
<1>3. Place(h)' = 7
  BY <1>2 DEF Place, Restore, TrapPlace
<1>4. Place(h) \in 8 .. 26
  BY <1>1, PlaceValues DEF Place, Window, Restore, Label, Ended
<1> QED
  BY <1>3, <1>4

LEMMA HelperAdvancesStep ==
  ASSUME TypeOK, NEW h \in Helper, Start(h) \/ Step(h) \/ Signal(h)
  PROVE  Advances(h)
<1>1. /\ pc \in [Helper -> Label] /\ inTrap \in [Helper -> BOOLEAN]
      /\ attempts \in [Helper -> 0 .. MaxAttempts] /\ MaxAttempts \in Nat
  BY MaxAttemptsNat DEF TypeOK
<1> USE <1>1 DEF Place, Advances, MainPlace, TrapPlace, Restore, Goto
<1>2. CASE Start(h) \/ CheckFile(h) \/ CheckService(h) \/ ProbeSafe(h)
  BY <1>2 DEF Start, CheckFile, CheckService, ProbeSafe, Refuse
<1>3. CASE MakeBackup(h) \/ Arm(h)
  BY <1>3 DEF MakeBackup, Arm, Refuse
<1>4. CASE WriteUnsafe(h) \/ RestartUnsafe(h)
  <2>1. CASE Exit(h)
    BY <1>4, <2>1, ExitAdvances DEF WriteUnsafe, RestartUnsafe, Window
  <2> QED
    BY <1>4, <2>1 DEF WriteUnsafe, RestartUnsafe
<1>5. CASE WaitUnsafe(h)
  <2>1. CASE Exit(h)
    BY <1>5, <2>1, ExitAdvances DEF WaitUnsafe, Window
  <2> QED
    BY <1>5, <2>1 DEF WaitUnsafe
<1>6. CASE ObtainKeys(h) \/ WritePackage(h) \/ EnrollSucceeds(h)
  BY <1>6 DEF ObtainKeys, WritePackage, EnrollSucceeds
<1>7. CASE EnrollFails(h) \/ Interrupt(h)
  BY <1>7, ExitAdvances DEF EnrollFails, Interrupt, Trapped, Window
<1>8. CASE RestoreNotRequired(h) \/ RestoreFile(h) \/ VerifyFile(h) \/ RestartSafe(h)
  BY <1>8 DEF RestoreNotRequired, RestoreFile, VerifyFile, RestartSafe
<1>9. CASE WaitSafe(h)
  BY <1>9 DEF WaitSafe
<1>10. CASE ClearRequired(h) \/ Announce(h)
  BY <1>10 DEF ClearRequired, Announce
<1>11. CASE StopService(h)
  <2>1. CASE inTrap[h]
    BY <1>11, <2>1 DEF StopService, Exit
  <2>2. CASE ~inTrap[h]
    BY <1>11, <2>2, ExitAdvances DEF StopService
  <2> QED
    BY <2>1, <2>2
<1>12. CASE Terminate(h) \/ Kill(h)
  <2>1. pc[h] \in Label \ Ended /\ pc'[h] = "dead"
    BY <1>12 DEF Terminate, Kill, Dies, Live, Preflight, Ended, Label
  <2>2. Place(h)' = 0
    BY <2>1
  <2>3. Place(h) \in 2 .. 26
    BY <2>1, PlaceValues
  <2> QED
    BY <2>2, <2>3
<1> QED
  BY <1>2, <1>3, <1>4, <1>5, <1>6, <1>7, <1>8, <1>9, <1>10, <1>11, <1>12 DEF Step, Signal

\* Every command a helper executes and every signal it receives brings it closer
\* to its end, whatever the other helpers, the node and the faults do: neither
\* the two wait loops nor restore_safe, which the script and on_exit both call,
\* lets it go round for ever.
HelperAdvances ==
  [][\A h \in Helper : Start(h) \/ Step(h) \/ Signal(h) => Advances(h)]_vars

THEOREM HelpersAdvance == Spec => HelperAdvances
<1>1. TypeOK => [\A h \in Helper : Start(h) \/ Step(h) \/ Signal(h) => Advances(h)]_vars
  BY HelperAdvancesStep
<1> QED
  BY <1>1, TypeCorrect, PTL DEF Spec, HelperAdvances
=============================================================================
