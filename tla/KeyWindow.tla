------------------------------ MODULE KeyWindow ------------------------------
(***************************************************************************)
(* bin/roko-session-key-window: one root helper process opens a bounded    *)
(* window in which the validator node serves key-management ("Unsafe")     *)
(* RPC, runs the enrollment command in it, and closes it again.  Several   *)
(* invocations may overlap: the script takes no lock.                      *)
(*                                                                         *)
(* Shared with the helpers are the RPC policy file and the systemd unit    *)
(* of the node, which reads the file each time the node starts.            *)
(* The environment may fail a command, interrupt or kill a helper, crash   *)
(* the node or cut the power: Faults says which of these a run allows.     *)
(***************************************************************************)
EXTENDS Naturals, FiniteSets

CONSTANTS
  Helper,       \* the invocations of the script
  Reuse,        \* those run with --reuse-session-keys
  MaxAttempts,  \* ROKO_KEY_WINDOW_WAIT_ATTEMPTS, the bound of both wait loops
  Faults        \* what may go wrong

ASSUME KeyWindowAssumption ==
  /\ Reuse \subseteq Helper
  /\ MaxAttempts \in Nat \ {0}

VARIABLES
  policy,    \* content of the policy file (replaced by rename, never torn)
  node,      \* state of the systemd service
  loaded,    \* the policy the node read when it last started
  cut,       \* the host lost power at least once
  pc,        \* the next command of each helper
  inTrap,    \* the helper runs on_exit: the traps are back to their defaults
  required,  \* restore_required
  backup,    \* content of the backup file of each helper
  attempts,  \* probes made by the current wait_for_policy
  outcome,   \* how the helper's duty to close the window ended
  rotated,   \* author_rotateKeys put new keys in the keystore for this helper
  package    \* the enrollment package of this helper is on disk

host   == <<policy, node, loaded, cut>>
enroll == <<rotated, package>>
vars   == <<policy, node, loaded, cut, pc, inTrap, required, backup, attempts,
            outcome, rotated, package>>

-----------------------------------------------------------------------------
Policy    == {"Safe", "Unsafe"}
Running   == {"booting", "up"}
\* "down": failed, and systemd will start it again (Restart=on-failure);
\* "stopped": by systemctl stop, which also cancels the automatic restart.
NodeState == Running \cup {"down", "stopped"}
Preflight == {"file", "service", "probe", "backup", "arm"}
Window    == {"write", "restart", "wait", "enroll", "observe", "written"}
Restore   == {"restore", "verify", "rrestart", "rwait", "clear", "halt"}
Ended     == {"done", "dead"}
Label     == {"idle", "announce"} \cup Preflight \cup Window \cup Restore \cup Ended
Outcome   == {"none", "verified", "halted", "halt_failed", "unproven", "killed"}

TypeOK ==
  /\ policy \in Policy
  /\ node \in NodeState
  /\ loaded \in Policy
  /\ cut \in BOOLEAN
  /\ pc \in [Helper -> Label]
  /\ inTrap \in [Helper -> BOOLEAN]
  /\ required \in [Helper -> BOOLEAN]
  /\ backup \in [Helper -> Policy \cup {"none"}]
  /\ attempts \in [Helper -> 0 .. MaxAttempts]
  /\ outcome \in [Helper -> Outcome]
  /\ rotated \in [Helper -> BOOLEAN]
  /\ package \in [Helper -> BOOLEAN]

\* The service is installed, enabled and running in Safe mode.
Init ==
  /\ policy = "Safe" /\ node = "up" /\ loaded = "Safe" /\ cut = FALSE
  /\ pc = [h \in Helper |-> "idle"]
  /\ inTrap = [h \in Helper |-> FALSE]
  /\ required = [h \in Helper |-> FALSE]
  /\ backup = [h \in Helper |-> "none"]
  /\ attempts = [h \in Helper |-> 0]
  /\ outcome = [h \in Helper |-> "none"]
  /\ rotated = [h \in Helper |-> FALSE]
  /\ package = [h \in Helper |-> FALSE]

-----------------------------------------------------------------------------
(* What a probe (roko-validator-enroll --check-rpc-policy) can conclude.   *)
Serves(p)       == node = "up" /\ loaded = p
Inconclusive(p) == ~Serves(p) \/ "probe" \in Faults

Goto(h, label) == pc' = [pc EXCEPT ![h] = label]

\* A command fails under errexit: the EXIT trap runs on_exit, which resets
\* all traps and calls restore_safe.
Exit(h) == /\ Goto(h, "restore")
           /\ inTrap' = [inTrap EXCEPT ![h] = TRUE]

\* die before the traps are installed.
Refuse(h) == /\ Goto(h, "done")
             /\ UNCHANGED <<host, enroll, inTrap, required, backup, attempts, outcome>>

\* systemctl restart: the node stops and starts with the policy now on disk.
NodeStarts == /\ node' = "booting"
              /\ loaded' = policy
              /\ UNCHANGED <<policy, cut>>

\* A failed systemctl restart: refused, timed out with the job still running
\* to its end, or the new process failed to start.
RestartFails == /\ "restart" \in Faults
                /\ \/ UNCHANGED host
                   \/ NodeStarts
                   \/ node' = "down" /\ UNCHANGED <<policy, loaded, cut>>

-----------------------------------------------------------------------------
(* Mutants: steps of the script with a plausible mistake in them.  Each is *)
(* put in the place of the step it is named after to show that a property  *)
(* notices; none is part of the specification.                             *)

\* restore_required is set only after the policy was written.
ArmTooLate(h) ==
  /\ pc[h] = "arm"
  /\ Goto(h, "write")
  /\ UNCHANGED <<host, enroll, inTrap, required, backup, attempts, outcome>>

\* The wait for Unsafe has no bound, or does not count its attempts.
WaitUnsafeUnbounded(h) ==
  /\ pc[h] = "wait"
  /\ attempts' = [attempts EXCEPT ![h] = @ + 1]
  /\ Goto(h, IF Serves("Unsafe") THEN "enroll" ELSE "wait")
  /\ UNCHANGED <<host, enroll, inTrap, required, backup, outcome>>

WaitUnsafeForever(h) ==
  /\ pc[h] = "wait"
  /\ Goto(h, IF Serves("Unsafe") THEN "enroll" ELSE "wait")
  /\ UNCHANGED <<host, enroll, inTrap, required, backup, attempts, outcome>>

\* After a failed restore of the file only the restart is skipped.
RestoreFileSkipsRestart(h) ==
  /\ pc[h] = "restore"
  /\ required[h]
  /\ \/ policy' = backup[h] /\ Goto(h, "verify") /\ UNCHANGED <<node, loaded, cut>>
     \/ "restore" \in Faults /\ Goto(h, "rwait") /\ UNCHANGED host
  /\ UNCHANGED <<enroll, inTrap, required, backup, attempts, outcome>>

\* The restored file is compared with the backup only.
VerifyFileBackupOnly(h) ==
  /\ pc[h] = "verify"
  /\ Goto(h, IF policy = backup[h] THEN "rrestart" ELSE "clear")
  /\ UNCHANGED <<host, enroll, inTrap, required, backup, attempts, outcome>>

\* Any answer of the node proves Safe mode.
WaitSafeAnyAnswer(h) ==
  /\ pc[h] = "rwait"
  /\ node = "up"
  /\ required' = [required EXCEPT ![h] = FALSE]
  /\ outcome' = [outcome EXCEPT ![h] = "verified"]
  /\ Goto(h, IF inTrap[h] THEN "done" ELSE "announce")
  /\ UNCHANGED <<host, enroll, inTrap, backup, attempts>>

\* The wait for Safe does not count its attempts.
WaitSafeForever(h) ==
  /\ pc[h] = "rwait"
  /\ \/ /\ Serves("Safe")
        /\ required' = [required EXCEPT ![h] = FALSE]
        /\ outcome' = [outcome EXCEPT ![h] = "verified"]
        /\ Goto(h, IF inTrap[h] THEN "done" ELSE "announce")
     \/ Inconclusive("Safe") /\ UNCHANGED <<pc, required, outcome>>
  /\ UNCHANGED <<host, enroll, inTrap, backup, attempts>>

\* A failed restoration returns before systemctl stop.
ClearRequiredReturns(h) ==
  /\ pc[h] = "clear"
  /\ required' = [required EXCEPT ![h] = FALSE]
  /\ Goto(h, "done")
  /\ UNCHANGED <<host, enroll, inTrap, backup, attempts, outcome>>

-----------------------------------------------------------------------------
(* Preflight *)
Start(h) ==
  /\ pc[h] = "idle"
  /\ Goto(h, "file")
  /\ UNCHANGED <<host, enroll, inTrap, required, backup, attempts, outcome>>

CheckFile(h) ==
  /\ pc[h] = "file"
  /\ \/ /\ policy = "Safe"
        /\ Goto(h, "service")
        /\ UNCHANGED <<host, enroll, inTrap, required, backup, attempts, outcome>>
     \/ policy # "Safe" /\ Refuse(h)

CheckService(h) ==
  /\ pc[h] = "service"
  /\ \/ /\ node \in Running
        /\ Goto(h, "probe")
        /\ UNCHANGED <<host, enroll, inTrap, required, backup, attempts, outcome>>
     \/ node \notin Running /\ Refuse(h)

ProbeSafe(h) ==
  /\ pc[h] = "probe"
  /\ \/ /\ Serves("Safe")
        /\ Goto(h, "backup")
        /\ UNCHANGED <<host, enroll, inTrap, required, backup, attempts, outcome>>
     \/ Inconclusive("Safe") /\ Refuse(h)

\* The backup is a copy of what the file holds now; its name has the time in
\* seconds, so a second helper in the same second finds it taken.
MakeBackup(h) ==
  /\ pc[h] = "backup"
  /\ \/ /\ backup' = [backup EXCEPT ![h] = policy]
        /\ Goto(h, "arm")
        /\ UNCHANGED <<host, enroll, inTrap, required, attempts, outcome>>
     \/ /\ \E g \in Helper \ {h} : backup[g] # "none"
        /\ Refuse(h)
     \/ "write" \in Faults /\ Refuse(h)

Arm(h) ==
  /\ pc[h] = "arm"
  /\ required' = [required EXCEPT ![h] = TRUE]
  /\ Goto(h, "write")
  /\ UNCHANGED <<host, enroll, inTrap, backup, attempts, outcome>>

-----------------------------------------------------------------------------
(* The window *)
WriteUnsafe(h) ==
  /\ pc[h] = "write"
  /\ \/ /\ policy' = "Unsafe"
        /\ Goto(h, "restart")
        /\ UNCHANGED <<node, loaded, cut, inTrap>>
     \/ "write" \in Faults /\ Exit(h) /\ UNCHANGED host
  /\ UNCHANGED <<enroll, required, backup, attempts, outcome>>

RestartUnsafe(h) ==
  /\ pc[h] = "restart"
  /\ \/ NodeStarts /\ Goto(h, "wait") /\ UNCHANGED inTrap
     \/ RestartFails /\ Exit(h)
  /\ attempts' = [attempts EXCEPT ![h] = 0]
  /\ UNCHANGED <<enroll, required, backup, outcome>>

WaitUnsafe(h) ==
  /\ pc[h] = "wait"
  /\ \/ /\ Serves("Unsafe")
        /\ Goto(h, "enroll")
        /\ UNCHANGED <<inTrap, attempts>>
     \/ /\ Inconclusive("Unsafe")
        /\ attempts' = [attempts EXCEPT ![h] = @ + 1]
        /\ \/ attempts[h] + 1 < MaxAttempts /\ UNCHANGED <<pc, inTrap>>
           \/ attempts[h] + 1 = MaxAttempts /\ Exit(h)
  /\ UNCHANGED <<host, enroll, required, backup, outcome>>

\* The enrollment command, in generation mode, has the node make new keys;
\* in reuse mode it only asks for proof of custody.  Both are Unsafe calls.
ObtainKeys(h) ==
  /\ pc[h] = "enroll"
  /\ Serves("Unsafe")
  /\ rotated' = [rotated EXCEPT ![h] = h \notin Reuse]
  /\ Goto(h, "observe")
  /\ UNCHANGED <<host, inTrap, required, backup, attempts, outcome, package>>

\* It proves custody of the keys, another Unsafe call, and writes the package.
WritePackage(h) ==
  /\ pc[h] = "observe"
  /\ Serves("Unsafe")
  /\ package' = [package EXCEPT ![h] = TRUE]
  /\ Goto(h, "written")
  /\ UNCHANGED <<host, inTrap, required, backup, attempts, outcome, rotated>>

EnrollSucceeds(h) ==
  /\ pc[h] = "written"
  /\ Goto(h, "restore")
  /\ UNCHANGED <<host, enroll, inTrap, required, backup, attempts, outcome>>

\* It may fail before, between and after its two effects.
EnrollFails(h) ==
  /\ pc[h] \in {"enroll", "observe", "written"}
  /\ \/ pc[h] # "written" /\ ~Serves("Unsafe")
     \/ "enroll" \in Faults
  /\ Exit(h)
  /\ UNCHANGED <<host, enroll, required, backup, attempts, outcome>>

-----------------------------------------------------------------------------
(* restore_safe, called by the script's last lines or by on_exit *)

\* restore_required is false: return 0.  on_exit then leaves with the exit
\* code it was given; nothing was proved if the duty was still open.
RestoreNotRequired(h) ==
  /\ pc[h] = "restore"
  /\ ~required[h]
  /\ Goto(h, "done")
  /\ outcome' = [outcome EXCEPT ![h] = IF @ = "none" THEN "unproven" ELSE @]
  /\ UNCHANGED <<host, enroll, inTrap, required, backup, attempts>>

\* restore_prior_policy: the backup is copied aside and renamed over the file.
RestoreFile(h) ==
  /\ pc[h] = "restore"
  /\ required[h]
  /\ \/ policy' = backup[h] /\ Goto(h, "verify") /\ UNCHANGED <<node, loaded, cut>>
     \/ "restore" \in Faults /\ Goto(h, "clear") /\ UNCHANGED host
  /\ UNCHANGED <<enroll, inTrap, required, backup, attempts, outcome>>

\* The file must equal the backup and be exactly the Safe policy.
VerifyFile(h) ==
  /\ pc[h] = "verify"
  /\ \/ policy = backup[h] /\ policy = "Safe" /\ Goto(h, "rrestart")
     \/ ~(policy = backup[h] /\ policy = "Safe") /\ Goto(h, "clear")
     \/ "restore" \in Faults /\ Goto(h, "clear")
  /\ UNCHANGED <<host, enroll, inTrap, required, backup, attempts, outcome>>

RestartSafe(h) ==
  /\ pc[h] = "rrestart"
  /\ \/ NodeStarts /\ Goto(h, "rwait")
     \/ RestartFails /\ Goto(h, "clear")
  /\ attempts' = [attempts EXCEPT ![h] = 0]
  /\ UNCHANGED <<enroll, inTrap, required, backup, outcome>>

\* The probe that succeeds ends the duty; on_exit then exits, the script's
\* main line goes on to its last message.
WaitSafe(h) ==
  /\ pc[h] = "rwait"
  /\ \/ /\ Serves("Safe")
        /\ required' = [required EXCEPT ![h] = FALSE]
        /\ outcome' = [outcome EXCEPT ![h] = "verified"]
        /\ Goto(h, IF inTrap[h] THEN "done" ELSE "announce")
        /\ UNCHANGED attempts
     \/ /\ Inconclusive("Safe")
        /\ attempts' = [attempts EXCEPT ![h] = @ + 1]
        /\ \/ attempts[h] + 1 < MaxAttempts /\ UNCHANGED pc
           \/ attempts[h] + 1 = MaxAttempts /\ Goto(h, "clear")
        /\ UNCHANGED <<required, outcome>>
  /\ UNCHANGED <<host, enroll, inTrap, backup>>

\* restore_ok is false: restore_required=false comes before systemctl stop.
ClearRequired(h) ==
  /\ pc[h] = "clear"
  /\ required' = [required EXCEPT ![h] = FALSE]
  /\ Goto(h, "halt")
  /\ UNCHANGED <<host, enroll, inTrap, backup, attempts, outcome>>

\* The result of systemctl stop is ignored.  restore_safe returns 1: on_exit
\* exits; on the main line errexit runs on_exit, where nothing is required.
StopService(h) ==
  /\ pc[h] = "halt"
  /\ \/ /\ node' = "stopped"
        /\ outcome' = [outcome EXCEPT ![h] = "halted"]
        /\ UNCHANGED <<policy, loaded, cut>>
     \/ /\ "stop" \in Faults
        /\ outcome' = [outcome EXCEPT ![h] = "halt_failed"]
        /\ UNCHANGED host
  /\ \/ inTrap[h] /\ Goto(h, "done") /\ UNCHANGED inTrap
     \/ ~inTrap[h] /\ Exit(h)
  /\ UNCHANGED <<enroll, required, backup, attempts>>

\* The traps are reset and the package is announced as ready for import.
Announce(h) ==
  /\ pc[h] = "announce"
  /\ Goto(h, "done")
  /\ UNCHANGED <<host, enroll, inTrap, required, backup, attempts, outcome>>

-----------------------------------------------------------------------------
(* Signals.  Bash runs a trap between two commands.                        *)
Live(h)    == pc[h] \notin Ended \cup {"idle"}
OnDuty(h)  == pc[h] \in Window \cup Restore /\ outcome[h] = "none"
Trapped(h) == pc[h] \in Window \cup Restore \cup {"announce"} /\ ~inTrap[h]

\* trap 'exit 130' INT, trap 'exit 143' TERM.
Interrupt(h) ==
  /\ "signal" \in Faults
  /\ Trapped(h)
  /\ Exit(h)
  /\ UNCHANGED <<host, enroll, required, backup, attempts, outcome>>

Dies(h) == /\ pc' = [pc EXCEPT ![h] = "dead"]
           /\ outcome' = [outcome EXCEPT ![h] = IF OnDuty(h) THEN "killed" ELSE @]

\* INT or TERM where the default disposition is in force: before the traps
\* are installed, and in on_exit once it has reset them.
Terminate(h) ==
  /\ \/ "signal" \in Faults /\ pc[h] \in Preflight
     \/ "trap_signal" \in Faults /\ pc[h] \in Restore /\ inTrap[h]
  /\ Dies(h)
  /\ UNCHANGED <<host, enroll, inTrap, required, backup, attempts>>

Kill(h) ==
  /\ "kill" \in Faults
  /\ Live(h)
  /\ Dies(h)
  /\ UNCHANGED <<host, enroll, inTrap, required, backup, attempts>>

-----------------------------------------------------------------------------
(* systemd and the host *)
Boot ==
  /\ node = "booting"
  /\ node' = "up"
  /\ UNCHANGED <<policy, loaded, cut, pc, inTrap, required, backup, attempts, outcome, enroll>>

Crash ==
  /\ "crash" \in Faults
  /\ node \in Running
  /\ node' = "down"
  /\ UNCHANGED <<policy, loaded, cut, pc, inTrap, required, backup, attempts, outcome, enroll>>

AutoRestart ==
  /\ node = "down"
  /\ NodeStarts
  /\ UNCHANGED <<pc, inTrap, required, backup, attempts, outcome, enroll>>

\* The unit is enabled: it starts at boot with the policy on disk, which is what
\* the last rename left.  The script never syncs: that the rename itself outlives
\* the power cut is taken for granted.
PowerCut ==
  /\ "power" \in Faults
  /\ cut' = TRUE
  /\ node' = "booting" /\ loaded' = policy
  /\ pc' = [h \in Helper |-> IF Live(h) THEN "dead" ELSE pc[h]]
  /\ outcome' = [h \in Helper |-> IF OnDuty(h) THEN "killed" ELSE outcome[h]]
  /\ UNCHANGED <<policy, inTrap, required, backup, attempts, enroll>>

-----------------------------------------------------------------------------
\* What the script does once it has been started.
Step(h) ==
  \/ CheckFile(h) \/ CheckService(h) \/ ProbeSafe(h) \/ MakeBackup(h) \/ Arm(h)
  \/ WriteUnsafe(h) \/ RestartUnsafe(h) \/ WaitUnsafe(h)
  \/ ObtainKeys(h) \/ WritePackage(h) \/ EnrollSucceeds(h) \/ EnrollFails(h)
  \/ RestoreNotRequired(h) \/ RestoreFile(h) \/ VerifyFile(h)
  \/ RestartSafe(h) \/ WaitSafe(h) \/ ClearRequired(h) \/ StopService(h)
  \/ Announce(h)

Signal(h) == Interrupt(h) \/ Terminate(h) \/ Kill(h)

System == Boot \/ Crash \/ AutoRestart \/ PowerCut

Next == System \/ \E h \in Helper : Start(h) \/ Step(h) \/ Signal(h)

Spec == Init /\ [][Next]_vars

\* Every command of the script returns (RPC calls and wait loops are bounded)
\* and bash goes on to the next one.
FairSpec == Spec /\ \A h \in Helper : WF_vars(Step(h))

-----------------------------------------------------------------------------
(* Properties *)

\* The node serves, or will serve at its next start, key-management RPC.
Exposed == \/ node # "stopped" /\ policy = "Unsafe"
           \/ node \in Running /\ loaded = "Unsafe"

\* A helper left its duty without proof of Safe and without stopping the node.
GaveUp(h) == outcome[h] \in {"killed", "unproven", "halt_failed"}

\* The power was cut (the restart of the host undoes systemctl stop), or a
\* helper was lost: killed, or its stop refused, or skipped.
Void == cut \/ \E h \in Helper : GaveUp(h)

\* However many helpers overlap, and whatever else fails, the node can serve
\* key-management RPC only while a helper is still bound to close the window
\* (restore_safe, on_exit).
ExposureIsOwned == Exposed => Void \/ \E h \in Helper : OnDuty(h)

\* The same promise as a machine: the helpers on duty are the owners of the
\* abstract window.  The helpers implement it: whatever the overlap of the
\* others, the last one to leave its duty leaves the node closed.
Abstract == INSTANCE SafeWindow WITH
  Owner   <- Helper,
  exposed <- Exposed,
  owners  <- {h \in Helper : OnDuty(h)},
  lost    <- Void

ImplementsSafeWindow == Abstract!Spec

\* What makes it inductive.  A helper that armed its traps has its backup.
HasBackup ==
  \A h \in Helper :
    pc[h] \in {"arm", "announce"} \cup Window \cup Restore => backup[h] \in Policy

\* A helper on duty that may have left Unsafe in the file, or is about to stop
\* the node: it will not leave its duty before it wrote Safe or stopped it.
Dirty(h) == /\ OnDuty(h)
            /\ \/ pc[h] \notin {"write", "verify", "rrestart", "rwait"}
               \/ pc[h] = "verify" /\ backup[h] = "Unsafe"

\* A node that still runs in Safe mode over an Unsafe file lets a waiting
\* helper prove Safe and leave: another one must then be dirty.
StaleSafeIsDirty ==
  policy = "Unsafe" /\ node \in Running /\ loaded = "Safe" =>
     Void \/ \E h \in Helper : Dirty(h)

\* restore_required and the place in the script agree on whether the duty of
\* the helper is still open.
DutyIsOpen ==
  \A h \in Helper :
    /\ pc[h] \in {"announce", "halt"} => ~required[h]
    /\ \/ pc[h] \in {"idle"} \cup Preflight \cup Window \cup (Restore \ {"restore"})
       \/ pc[h] = "restore" /\ required[h]
       => outcome[h] = "none"

DutyInv == TypeOK /\ HasBackup /\ DutyIsOpen /\ StaleSafeIsDirty /\ ExposureIsOwned

\* A helper that ran with no other one and proved Safe mode is right for good:
\* no later crash, automatic restart or reboot brings key-management RPC back, if
\* the file system keeps a rename that was done (see PowerCut).
Alone(h) == \A g \in Helper \ {h} : pc[g] = "idle"

VerifiedIsClosed ==
  \A h \in Helper : Alone(h) /\ outcome[h] = "verified" => ~Exposed

\* What makes that inductive: alone, the file stays Safe from the check of its
\* content on, and a helper whose duty has ended never writes it again.
VerifiedInv ==
  \A h \in Helper : Alone(h) =>
    /\ pc[h] \in {"rrestart", "rwait"} => policy = "Safe"
    /\ outcome[h] = "verified" =>
         /\ pc[h] \in {"announce", "restore"} \cup Ended
         /\ ~required[h]
         /\ policy = "Safe"
         /\ ~Exposed

WindowInv == DutyInv /\ VerifiedInv

\* README: the helper "stops the service if Safe-mode recovery cannot be
\* proven".  Every helper that armed its traps ends with one or the other.
ProvenOrStopped ==
  \A h \in Helper : pc[h] \in Ended => ~GaveUp(h)

Quiet == \A h \in Helper : pc[h] \in Ended \cup {"idle"}

\* docs/validator-self-join.md: the helper "restores Safe even when generation
\* fails or the process is interrupted".
InterruptedRestoresSafe == Quiet => ~Exposed

\* The same page: "If restoration or health verification fails, it leaves Safe
\* on disk, stops the service".
HaltedLeavesSafe ==
  Quiet /\ (\E h \in Helper : outcome[h] = "halted") => policy = "Safe"

\* A window that was opened is closed again.
WindowCloses == Exposed ~> ~Exposed

\* Every helper comes to its end.
HelperEnds == \A h \in Helper : Live(h) ~> pc[h] \in Ended
=============================================================================
