# Formal models of roko-edge-tools

This directory holds TLA+ models of the parts of this repository that change
the state of a validator host or decide about it, their TLC configurations, and
proofs checked by TLAPS. Paths are relative to the repository.

| Component | Modules | Checked | Proved |
|---|---|---|---|
| Session-key window | `KeyWindow`, `SafeWindow`, `MCKeyWindow` | safety, refinement, liveness | `KeyWindowProofs`: type, safety, refinement, the helpers' ranking |
| Wallet enrollment | `WalletEnroll`, `CandidateAccount`, `MCWalletEnroll` | safety, action properties, refinement, completion | `WalletEnrollProofs`: type, safety, action properties, refinement, the loop's bound, the cost of retries |
| Enrollment CLI | `Enrollment`, `MCEnrollment` | safety, action property | `EnrollmentProofs`: all of it |
| Transition check and receipts | `TransitionCheck`, `MCTransitionCheck` | safety | `TransitionCheckProofs`: all of it |
| Validator watch | `ValidatorWatch`, `MCValidatorWatch` | safety | `ValidatorWatchProofs`: all of it |
| Release installer and verifier | `ReleaseInstall`, `MCReleaseInstall` | safety, action property | `ReleaseInstallProofs`: all of it |
| Time sources | `TimeSources` | safety (in `MCHostTools`) | `TimeSourcesProofs`: all of it |
| Authority peers, and both tools of a host together | `AuthorityPeers`, `HostTools`, `MCHostTools` | safety | `HostToolsProofs`: all of it |

`tlc -workers 2 -config <run>.cfg <module>.tla` repeats a run and
`tlapm <module>Proofs.tla` a proof. `PROJECT.json` names every run with its
properties, the source lines behind every definition, for every property a
mutated definition that breaks it, the hazards and the theorems.

## Inventory

The tools are short processes on one host. They share the node's files, its
systemd unit and the chain; none of them takes a lock. What is hard is always
the same: a tool observes, decides, and acts some calls later, while another
invocation, the service manager or the chain has moved; and it can be
interrupted between any two steps.

- **Session-key window** (`bin/roko-session-key-window`). State: the RPC policy
  file, its backup, `restore_required`, the systemd unit and the policy the node
  loaded. Operations: preflight, backup, write Unsafe, restart, wait, run the
  enrollment command, restore Safe (also from the EXIT, INT and TERM traps), or
  stop the service. Calls `systemctl`, the RPC probe of the enrollment CLI, and
  the enrollment CLI itself. Hard: traps during the restoration, overlapping
  invocations, crashes of the node that reload whatever is on disk, a failing
  restart whose job still runs. Correct if key-management RPC is open only while
  somebody is bound to close it, and is always closed again.
- **Wallet** (`wallet/cli.mjs`, `wallet/logic.mjs`). State: none of its own; the
  account on the chain and the transaction pool. Operations: `create`, `plan`,
  `enroll`, a loop of at most five rounds: read the finalized account, choose
  the missing call, sign, submit, wait 180 s for finality. Hard: a transaction
  outlives the run that sent it; a rerun sees a pool that may have forgotten it.
  Correct if no step is sent twice, keys are never replaced, what is reported
  registered is registered, and the loop always suffices.
- **Enrollment CLI** (`lib/validator_enrollment.py`,
  `lib/validator_wallet_setup.py`). State: the keystore of the node, the
  document at the path the operator names: an enrollment package, a readiness
  report or a wallet handoff. Operations: observe the chain and the node over
  many RPCs, rotate or reuse keys, prove custody, replace the document, or
  create it exclusively. Hard: the observations belong to different moments; a
  failure after the rotation wastes keys; several programs on one path.
  Correct if a package is whole and names keys the node holds, the rotation is
  called only when it is earned, and what wastes its keys is one of a few known reasons.
- **Transition check and receipts** (`lib/validator_transition.py`,
  `lib/validator_receipt.py`). Read-only: the account at one finalized block,
  custody of the expected keys, a readiness report, the block of an authorship
  proof, the runtime; from them a verdict and a receipt. Hard: every answer is
  of another moment. Correct if a safe verdict was true as a whole at one moment.
- **Validator watch** (`bin/roko-validator-watch`). State: the list of samples.
  Operations: sample (two RPC batches, three attempts), evaluate. Hard: the node
  moves between the calls, sessions give authority indices to other validators.
  Correct if what is accepted is the candidate's own block, authored after it
  was last seen unready.
- **Release installer and verifier** (`scripts/install-roko-validator-enroll.sh`,
  `authenticated_tools` of `scripts/verify-enrollment-receipt.py`). State: the versioned
  directory, its staging directory and four links. Hard: a crash between removal,
  rename and link replacement; two installs of one version share a staging name; the
  verifier reads links and files one at a time. Correct if an installation that
  succeeds is one complete release, and what is verified was installed.
- **Authority peers** (`lib/authority_peers.py`,
  `installer/scripts/install-authority-peers.sh`, and the use
  `install-roko-service.sh` makes of the manifest). State: the published manifest and its
  signature, the installed manifest, the node's unit. Hard: manifest and signature are
  published and downloaded one after the other; the manifest may expire between
  verification and use; installations overlap. Correct if the node only gets
  peers of a sound, signed manifest.
- **Time sources** (`bin/roko-stratum1-select`, `lib/stratum1_select`).
  State: the measurements, Chrony's sources file, its copy, and what chronyd
  loaded. Hard: the choice among measurements with ties, several operators and
  requests to back off; a crash around the replacement of the file. Correct if
  the choice is the best one and the earlier file survives.
- **Guided installation** (`bin/roko-guided-install`). State of its own: which
  steps this invocation has done. It asks a person and calls the installers
  above one after the other. Hard: recovery only for what this invocation did.
- **Seed refresh, hourly check and schedule, timebeat readiness, node snapshot
  and diagnostics, release build, the rest of the receipt verifier**: downloads,
  read-only reports and pure checks; see "Not modelled".

Interactions: the key window runs the enrollment CLI inside the window and as
its probe; the package it writes is the input of the wallet and of the
transition check; the watch confirms the result on the running node; installers
provide the unit and the policy file the window edits, and the manifest the
unit's peers come from; the verifier looks at the directory and the links the
release installer writes. The window and the enrollment CLI are composed in
`KeyWindow` (the window only sees whether keys were rotated and a package
written); installer and verifier in `ReleaseInstall`; the two tools that prepare a host in `HostTools`.

## The key window: `KeyWindow`, `SafeWindow`

**State.** `policy` is the content of the policy file (always whole: it is
replaced by a rename), `node` and `loaded` the unit and the policy it read at its
last start, `cut` that the host lost power. Per helper: `pc` (the next command),
`inTrap` (it runs `on_exit`), `required` (`restore_required`), `backup`, `attempts`
of the current wait loop, `outcome`, and the effects of the enrollment command
(`rotated`, `package`). There is one action for every command of the script
that can fail or be interrupted; `errexit` leads to `on_exit` and so to `"restore"`.
Labels are ordered as in the script: `restore_required` is set before the first
write, and reset before `systemctl stop`.

**Environment.** `Faults` says what may go wrong in a run: a command fails
(`write`, `restart`, `restore`, `probe`, `enroll`, `stop`), a `signal` arrives before or in the
window, or in the trap (`trap_signal`), a helper is killed, the node crashes,
the host loses power. A failed restart may have had no effect, full effect, or
have left the unit failed; systemd restarts a failed unit with the policy then
on disk (`Restart=on-failure`) and starts an enabled one at boot.

**Promise.** `SafeWindow` is the abstract machine: an exposed flag, a set of
owners, and a flag for a lost owner. Exposure needs an owner, and the last owner
to leave leaves the window closed. `ImplementsSafeWindow` says that the helpers
on duty are such owners. Killed helpers, power cuts and a refused
`systemctl stop` void the promise (`Void`): the code cannot keep it then.

| Run | Question and answer |
|---|---|
| `key_window_overlap` | Two helpers, one of each mode, all faults: exposure always has an owner, a lone helper that proved Safe stays right through later crashes and reboots, the inductive invariants (`WindowInv`) and the refinement hold. |
| `key_window_closes` | Fair helpers, failing commands and crashes, no lost helper: every helper ends, an open window closes, nobody leaves without proof of Safe or a stopped service. |
| `key_window_interrupted` | *Violated*: "restores Safe even when ... the process is interrupted". `on_exit` resets the traps first; a second signal ends the restoration. |
| `key_window_two` | *Violated*: "leaves Safe on disk, stops the service". An overlapping helper may take the other's Unsafe file as its backup; it then stops the service over an Unsafe file. |

**Bounds.** Two helpers are enough for every pairwise race on the one file; the
proofs cover any number. `MaxAttempts = 2` gives each wait loop a failing probe that is not
the last and one that is.

**Taken for granted.** A rename that was done outlives a power cut, though the script
never syncs: `VerifiedIsClosed` rests on it. `MakeBackup` is one step of the test that the name is free and the
copy (two helpers of one second could share a backup), and `VerifyFile` one of `cmp` and the
test of the content. A helper that a signal ends between the reset of `restore_required`
and `systemctl stop` counts as lost, like a killed one: nothing in the script closes its window.

**Fairness.** `WF_vars(Step(h))`: each command of bash ends (RPCs have timeouts, loops
have bounds) and bash runs the next one. Nothing is assumed of the node: it need
not boot, nor systemd restart it; and no helper has to be started.

## The wallet: `WalletEnroll`, `CandidateAccount`

**State.** `acct` is the staking account in the latest finalized block (nonce,
free native tokens, pwROKO, active bond, session keys, validator intent). Each run has
its command line (`args`), the account it read (`view`), its transaction `tx` and
its `fate`: live from submission until finalized (`ok`, `failed`) or gone for good.
`seen` holds the live ones the local node knows, which is all that
`accountNextIndex` counts. A restart of the node empties `seen`; the network
may give a transaction back (`Return`). This difference between live and seen
is what the hazards of the wallet are about.

**Actions** follow `main` and `finalized`: the round's checks, the queries
at one finalized head, the pending-index check, choice and funds, the nonce
that `signAndSend` asks for again, submission, and the wait. `overlapped` and
`restarted` are history variables: whether two runs were ever active together,
and whether the node ever lost its pool. `Clean` is neither.

**Promise.** `CandidateAccount` is the abstract machine: the finalized account alone, with
the calls as the runtime executes them. As long as its promise stands (`void` is false, which is
`Clean`), every change of the account is one of the four steps, needed
at that moment, and leaves the deposit and the fee of one more call. Once it is void a call
may come too late (`Stray`): it is still one of the owner's calls, and pays its fee.
`ImplementsCandidateAccount` says that the runs do nothing else to the account.

| Run | Question and answer |
|---|---|
| `wallet_enroll` | Two runs with timeouts, kills, lost answers, drops, restarts. Clean: one transaction in flight, a lock ends exactly at the stake, keys are never replaced, every call on the chain does something new, and the abstract account is implemented. Always: five rounds suffice, and "registered" is true and stays so if the runs bring the same keys. |
| `wallet_completes` | Without faults a run that does not overlap another registers, or plans, or is refused for a reason that lies in the account. |
| `wallet_rerun` | *Violated*: one run times out, the node restarts, and the rerun's pending-index check passes; the first lock comes back before `signAndSend` asks for the nonce again, and both locks are executed. |

**Bounds.** Two runs are a run and its rerun, or two that overlap. The stake is 2 and
balances 3, 5 and 12 pay for no lock with its fees, for one, and for two. The initial
account has any consistent prefix of the steps done. `MaxIterations = 5` is the
code's. Runs are symmetric.

**Simplified.** An account is bonded when its active bond is positive, so the refusals
of a bond with nothing active, of another controller and of a missing ledger (`wallet/logic.mjs:10`,
`wallet/cli.mjs:67` and `:69`) cannot be told apart from the others. They end the run without a call.

**Fairness.** RPC calls have timeouts (15 s) and the wait has one of 180 s, so
`WF_vars(Step(r))`; `WF_vars(Include(r))` says that a valid transaction that
can pay its fee is finalized. It is the chain's, not the tool's; `Completes`
is about a working chain only.

## The watch: `ValidatorWatch`

**State.** The environment is `chain` (session and author index of each
finalized block), `index` (who holds which index in which session), the `height` and
`candidate` of the node. The tool has `head`, `report` and `attempt` of the
current sample and the `samples`. `sample_once` is three steps: finalized hash,
report (later in the same batch), second batch. The node may move before and
between the first two; a move during the second batch comes to the same as one
before the next sample. `evaluate` is translated without its loop: the ending
streak is the set `Window` of samples from which all later ones are ready.
`ready` stands for the whole conjunction of sync state, quorum and readiness
flags; an account without a candidate is one that is not ready.

A proof of authorship in the report is any finalized block, of any session and
any author, or one that is not canonical or not finalized: nothing is
assumed of the node's choice.

| Run | Question and answer |
|---|---|
| `validator_watch` | Every sample is a snapshot of one block; an accepted proof is a block of the candidate, in the last session if a boundary is required; and it is later than every unready sample. |

**Bounds.** Three samples allow a streak, a break and a streak, and a session
boundary inside a window with a fresh baseline after it; three blocks in two
sessions let each sample see a new block. Two indices and two accounts allow them to be
swapped at the boundary. One upset: the candidate changes, or the node falls back.
The proofs bound none of these.

## The enrollment CLI: `Enrollment`

**State.** The node: heights `best` and `final`, its sync state, role, RPC `policy`, whether
there are addresses (`listens`), and the key tuples it holds. `file` is the document at the
path. Each program has a `kind` (`new` or `reuse` keys, `readiness`,
`wallet`), a `pc`, what it has `seen`, the `keys` of its package and, for the properties, whether it
`made` keys and the `cause` of its refusal.

**Actions.** `build_enrollment` is one action per answer that matters: the chain's runtime and metadata
(one step: whether both are fit for a package), health, addresses, roles, best header, finalized
header twice, then the decision (with the second look at the best header, which is a call
that may fail, when finality has overtaken it), the keys, the proof of custody,
the package with its own validation, and the rename. The code judges addresses, runtime and
metadata only after the keys were rotated, and so does the model; the node may make keys and its answer be lost,
and the file may not be written.
`Capture` and `Replace` are the readiness report; `Handoff`, `Create` and `Write` the
wallet handoff, which opens its path exclusively and fills it afterwards. Any
call may fail and any program may be killed between two steps; the node grows,
restarts with another role, policy or addresses, and falls back.

| Run | Question and answer |
|---|---|
| `enrollment` | Two programs of any kinds on one path. Keys are made only after the node was seen synchronized, no authority, and finalizing. What leaves made keys without a package is one of five things: a call or the file fails, addresses or runtime that were read before were not fit, the node was restarted with another policy, or it fell back; never a proof of custody that fails, and never heights out of order on a node that does not fall. A package is whole and its keys are held; a whole package or report is only replaced by a whole one. |

**Bounds.** Two programs of one path are every pairwise race. Three heights let finality move
during the observation and once more after it. One upset: each property names what
one change may do, and a second of another kind adds no new answer to any step. The
proofs have no bound. Upgrades of the runtime are not modelled: a package whose runtime and
metadata were read on the two sides of one is not noticed by the enrollment itself; the wallet,
which compares both with the live ones (`wallet/cli.mjs:58`), refuses it. A run that saw finality move decides by
what it saw: the node may be an authority again when the keys are made.

## The transition check: `TransitionCheck`

**State.** The account at every finalized block (`chain`), the fork of the block above
(`best`), `keystore`, `node`, `time` and `runtime`; the check's arguments; and what it has
read so far. A tuple of seven keys has two parts, the temporal key and the six others, because
the code treats all keys alike and one difference is enough to tell tuples
apart. `moment` remembers chain and keystore at the two moments the properties speak of.

**Actions.** `ReadHead`, `ReadStorage` (all storage reads name the head's hash, so
they are one step), `AskCustody` (`author_hasSessionKeys`, or the readiness report under the
Safe policy: `Observe`), `Report`, `AskProof`, `ReadRuntime`, and `Conclude`, which has
`Failures`, one named set for each check of the code, and the receipt. Any
call may fail (`Fails`). `Finalize`, `Reorganize`, `ChangeKeys` and `ChangeNode` happen in between.
A block belongs to a session, and the account has another index in every session.
`AskedOf` is what the code does with a proof: its block is not above the finalized one and its index
equals the one of the report. The check has no baseline of the session, so `AuthorshipIsFinal` promises
that the block is final, and that its author's index was the account's own *if* the block is of the report's
session; a proof of an earlier session with the same index, which may be another validator's,
passes. `roko-validator-watch` is the tool that excludes those (`AcceptedIsAuthored`).
`KeyFailures` merges the test of the temporal key with that of its entry in `sessionKeys`, and leaves `matchesExpected`
out: both are more refusals of the same report.

| Run | Question and answer |
|---|---|
| `transition_check` | A safe verdict was true of account, keystore and queued set at one moment, and the block it names agrees; custody is what it says, an authorship proof is final and in its session the account's own; nobody is told to author without converged time and an enforced policy; the verdict is about the reviewed runtime; a registered candidate that waits for its election passes. |

**Bounds.** `MCSetup` lists the situations: five accounts, nine set-ups of the
node, ten timing policies, missing arguments, one departure from the usual at a time.
Two changes during the check, on a chain of at most three blocks, let the state leave and come
back between two reads. The proofs have no such bound and take any situations.

## Releases: `ReleaseInstall`

**State.** For each version its directory and the staging directory it is prepared in,
each as its set of entries (two members stand for programs and libraries;
`nested` for a tree that `mv` put inside another, `cache` for Python's bytecode); the version each of the
four links names; per installer its `pc`, the members `copied` and the links replaced. The verifier has the version its
signed release `want`s, what it `found`, and how far it is.

**Actions.** The script from `rm -rf "$destination.new"` on, one action for every command and one step
for every entry that is removed or copied and every link that is replaced. `mv` into a
directory that exists again moves *into* it. The verifier resolves one
link at a time, compares one member at a time, lists the files, runs `--version`, and lists them
again. `Use` runs an installed command, which leaves bytecode. `Stop` is a failing command or a kill.
The verifier starts at any moment and takes no notice of installers: it refuses what it finds
missing and goes on otherwise. `whole`, `crowded` and `replaced` remember what happened around it,
for its property only.
`Check` is one step of three commands, and `ln -sfn` is atomic.

| Run | Question and answer |
|---|---|
| `release_install` | An installer that succeeds and was alone leaves its complete release behind all four links, whatever earlier ones left half done. A command keeps working through every step of an upgrade. What the verifier passes was installed at one moment, and its command ran from the signed files. |

Exceptions the properties name, all of them real: a reinstallation of the version in use and overlapping
installers of one version may leave commands broken; while one is replacing links, commands of
two releases coexist. The verifier may pass links that never agreed at one moment if two installers ran
at once while it read them (one of its version has replaced two links, which it reads; one of another version
replaces these two again; the first replaces the other two, which it reads), and a command that ran from other files
if its release was removed and installed anew between the two listings: the script checks
for neither.

**Bounds.** Two installers, two versions, three runs: a failed run, another, and
one that overlaps. The proofs have no bound.

## Host tools: `AuthorityPeers`, `TimeSources`, `HostTools`

Two tools that prepare a host and share nothing; a behaviour of `HostTools` follows one or the
other.

`AuthorityPeers`: manifest and signature are published one after the other, and
downloaded one after the other; then verification, validation at that moment's clock,
and `install(1)`, which unlinks the old file before it fills the new one (a run's
own name stands for the torn file). `ReadPeers` and `InstallUnit` are what
`install-roko-service.sh` does with it, which is also run on its own. `Stop` is any failure.

`TimeSources`: `Query` is one NTP query of one of the threads, with every kind of answer that makes a
difference. `Rank` keeps the eligible servers when all threads are done. The two passes over their
sorted list are actions that take one server each, the nearest of those `left`:
`Diversify` the first of each operator, `Fill` the nearest of the others. `Choose` ends them;
`Truncate`, `Copy`, `Replace` and `Reload` are the
installation with its copy of the earlier file. `Fail` at any step, `ChronydStarts` at any moment.

Left out: a negative delay (it is not told apart from other delays), a `--candidate` that is given
twice (it is one server), two `--install` runs at once, and a torn unit file (the installation of the unit is one step).

| Run | Question and answer |
|---|---|
| `host_tools` | The node's peers are those of a sound, signed manifest, and current during an undisturbed installation. The chosen servers are healthy, as many as there are, of as many operators as there are, each operator's nearest first, and the nearest of all at the head. The sources that were installed before are never lost. |

**Bounds.** Three servers, two of one operator, three answers each, delays with ties, two sources: enough for
diversity and nearness to disagree. Two runs: one over the other's file.
Three manifests (short, later, with one authority), a clock of four
moments and two installations: expiry, replacement and overlap each happen.

What they show besides: a delay rounded to 0.00 ms sorts last
(`r.get("minDelayMs") or float("inf")`); `install-roko-service.sh` on its own does not look at the
manifest's expiry; and of two overlapping installations the later writer may be the one with the older manifest.

## Proofs

`PROJECT.json` lists the theorems. Constants are arbitrary, but for the
named assumption of each module; every proof module has
the inductive invariant its theorems follow from, and the type invariant of its variables.
Every safety invariant and action property that a passing run checks is a theorem.

`KeyWindowProofs` needs only `KeyWindowAssumption` (`Reuse` is a set of helpers,
the loops have a positive bound); the set of helpers and of faults is arbitrary.

`ExposureIsOwned` is not inductive. The hard case is a helper that proves
Safe and leaves while the *file* is Unsafe: the node it probed was started
earlier. `DutyInv` strengthens it by: an armed helper has a backup
(`HasBackup`); program place, `required` and open duty agree (`DutyIsOpen`); and when a
running node still has Safe loaded over an Unsafe file, some helper is *dirty*,
that is, on duty and bound to write, restart or stop before it can leave
(`StaleSafeIsDirty`). A helper that leaves with proof leaves a node that loaded
Safe, so either the file is Safe or somebody else is dirty. From the invariant
each step of the helpers is a step of `SafeWindow` or a stutter
(`ImplementsSafeWindow`). `VerifiedInv` strengthens `VerifiedIsClosed`: alone,
the file stays Safe from the check of its content on. `AllProvenOrStopped` assumes
that no signal, kill, power cut or refused stop is among the faults, as its run
does: then no helper gives up, since one that is in the window has `required` set, and
one that leaves with it reset has proved Safe or stopped the service (`KeptInv`).

Two theorems say when the promises that runs refute do hold. `QuietIsClosed`: without those
losses nothing is exposed once every helper has ended, from `KeptInv` and
`ExposureIsOwned`; `key_window_interrupted` is the counterexample with a second signal.
`HaltedAlone`: a helper that no other overlapped leaves Safe on disk when it stops the service, unless
the copy of its backup failed. It has the Safe policy in its backup from the check of the
file on, and nothing replaces what it wrote back (`HaltedInv`). Signals, kills and every other
failing command are allowed; `key_window_two` is the counterexample with two helpers.
`WindowKeepsPromise` shows of `SafeWindow` itself that it is exposed only while it is owned.

`HelpersAdvance` is the ranking argument behind `HelperEnds`: every command and every signal
takes a helper to a later place of its script, or uses up one more bounded attempt at the same one. Places
are counted from the end, and `on_exit`, which calls `restore_safe` again, comes after every other
line. That a live helper can always take its next step, and that it does, needs ENABLED and fairness.

`WalletEnrollProofs` needs `WalletAssumption`: finitely many runs, amounts that
are numbers (stakes positive), and a `NoKeys` that is no key. `WalletInv` has three parts.

- `CleanInv`, for runs that follow one another on a node that keeps its pool
  (`Clean`): the node knows every live transaction; there is at most one, it has the
  next nonce and is the call the account still needs (`CallIsDue`); a run that
  is past the pending-index check holds the account as it is (`ViewIsCurrent`). The
  check is what makes this inductive: if the node's next nonce equals the one that was read,
  nothing was finalized since and nothing is pending. `AloneInFlight` and
  the action properties follow, since the only step that changes the account
  is the inclusion of a call that is due. Both
  hypotheses are needed: `wallet_rerun` is the counterexample without the second.
- `Progress`, with no such hypothesis: what the account has it keeps (`Grows`), so
  its `Stage` never falls, is at least the number of iterations completed, and is at most
  four. Hence `LoopSuffices`, for `MaxIterations > 4`.
- `Registration`: a registered run saw a complete account, which `Grows` keeps;
  its keys stay by `CleanInv`, or because every package has the same.

The refinement of `CandidateAccount` (`Implements`) follows from the same invariant. Only `Include`
changes the account. In a clean state the call is due, so the runtime executes it
(`DueSucceeds`) and it is the abstract step with its reserve (`DueEnrolls`): `Affordable` asks for
two fees and one is left. Otherwise it is a stray call, or a refused one (`LateStrays`).
Starting over another run and the restart of the node make the promise void and leave the account.
`AccountKeepsPromise` shows what the abstract account guarantees, and
`AccountGoesForward` carries it over: also when runs overlap nothing is bonded that is not
locked, keys and intent never precede the bond, and no bond or intent is undone.
`EnrollsInFourCalls` bounds what retries can cost: each due call raises the
`Stage` of the account by at least one (`DueCounts`), so the nonce never exceeds it (`PaidInv`).
The runs must have the same stake, since a larger one makes an account that is only locked fall back.

That `accountNextIndex` has an answer at all is a pigeonhole argument
(`FreeNonce`, `PendingIsFree`).

`EnrollmentProofs`: `Earned` says what `Decide` concluded from an observation; it stays true
of the node unless it falls back, and every later step of the program keeps it
(`Placed`, `Made`). `Wasted` is inductive with them: a policy that was Safe at the proof of custody
and not at the rotation was changed in between, and heights out of order after the second look need a fall. What a program has to put at the path is whole before the rename, whoever else
writes there (`PathInv`).

`TransitionCheckProofs`: what was read at a finalized head is what the chain
has there, and stays (`ReadInv`); a report is of one moment (`ReportInv`); a canonical hash at or
below the finalized head is final (`ProofInv`), and within one session the account keeps its
index (`ChainInv`), so the index the code compares is the one of the proof's block if that is of the report's
session; and the receipt is put
together in one step (`ReceiptInv`). `SafeIsOneMoment` combines them: each registered key is
both expected and observed. `WaitInv` follows a waiting candidate
through every read and shows that no check can fail (`NothingFails`).

`ValidatorWatchProofs`: along the chain sessions never go back
(`ChainInv`), so a sample taken later has a session at least as late, and an index that
authored in a sample's session is the one the candidate has there. That the proof which is
accepted is later than every unready sample needs the *first* sample of the ending
streak; it exists because the numbers are well-founded (`Least`).

`ReleaseInstallProofs`: for an installer that no other of its version overlapped,
`Prepared` says what its two directories are at each of its steps, whatever was there when it began;
`Linked`, for one that was alone, what its links are. For the verifier, which reads links one at a time while an
installer may replace them in the same order: as long as every link read so far named the wanted
version, either all of them did at one moment since it began, or two installers ran at
once, or a link that it is still to read does not (`LinksInv`). The last such link can only be made
right by an installer that has replaced all links before it, and at that moment all four are right. `FilesInv`: between the two
listings the files only grow unless the release is removed (`replaced`), so
equality at the end is equality when the command ran.

`TimeSourcesProofs` needs `TimeAssumption`: a list of candidates, numbers, and at least one server to
choose. A server that is eligible has a delay, and `Before` orders them strictly by the key of
the sort and their place in the list, so the nearest of a finite set exists (`BeforeIsOrder`,
`NearestIsLeast`). The passes are steps, so what they compute is an invariant and needs no
induction over the list. In both, what is still `left` is behind what was passed, there are as
many different servers chosen as places taken, and the first one is the nearest of all (`PassInv`).
In the first pass each operator that was passed has its nearest server chosen, and no other
(`DiverseInv`). When it ends, each operator has a server or all places are taken, and whoever is not chosen
is behind those of his operator; the second pass keeps that and chooses all it
passes (`FillInv`). At the end (`PassesChooseBest`) the numbers are the smaller of the request and
of what there is, and "before" is "not farther" but for delays rounded to zero.
Before the file is replaced its copy is complete, afterwards it is the run's own (`KeptInv`).

`HostToolsProofs`: each installation of the manifest knows about its download what it has checked so far
(`Downloads`), and one that is alone reads back what it wrote (`Undisturbed`); current
at a moment since the run began is then a fact that never ceases to hold. A behaviour of
`HostTools` is one of `TimeSources` and one of `AuthorityPeers` (`ToolsAreSources`, `ToolsArePeers`),
so the theorems about each are theorems about both together.

Only model-checked: the liveness properties `WindowCloses`, `HelperEnds` and `Completes`, which need
fairness. Their safety halves are proved: `QuietIsClosed`, `HelpersAdvance`, `LoopSuffices`.

## Findings

1. A second interrupt during the restoration leaves key-management RPC open
   (`docs/validator-self-join.md:382`; `bin/roko-session-key-window:180`).
2. With two overlapping helpers the service may be stopped with Unsafe on disk
   (`docs/validator-self-join.md:383`; `bin/roko-session-key-window:109`).
3. A rerun of the wallet may lock twice after a restart of the node
   (`docs/validator-node-wallet.md:176`; `wallet/logic.mjs:30`): the nonce that was
   checked is not the one that is signed.

## Not modelled

- Wallet `create` writes one new file and shares no state with `enroll`. A runtime upgrade
  between check and signature makes the chain drop the call, which `Drop` covers; that
  the comparison with the package is then old (`wallet/cli.mjs:58`) is not a state of its own.
- Guided installation: which steps run depends on a person's answers; each step that keeps state
  and is this repository's is modelled by itself (`AuthorityPeers`, `TimeSources`, `ReleaseInstall`). Its recovery
  (`bin/roko-guided-install:303`) is listed as a hazard without a property.
- The download and signature part of the release installer: it works in a
  temporary directory of the run's own and installs nothing when a check fails.
- The hourly stratum-1 check and its schedule: one reading of chronyd without state, and units written once.
- Seed refresh: downloads whose failures are warnings; its state is the
  Transmission daemon's. Timebeat readiness, node snapshot and diagnostics:
  read-only reports. The rest of the receipt verifier, and the release build: checks of documents
  that do not change, one archive, no concurrency.
- Formats (JSON schemas, storage-key hashing, SCALE and hexadecimal conversions, file modes) are
  preconditions of the actions that follow them.

## Plan

What a next step could add, in this order:

1. `GuidedInstall`: the dialogue's steps over an abstract host, reruns after a failed
   one, and the recovery, composed with `AuthorityPeers` and `ReleaseInstall` as they are.
2. `ReleaseInstall` as an implementation of an abstract machine with one atomic "switch release"
   step for an installer that runs alone.
3. Timebeat readiness as a function from facts to a verdict, checked against
   the contract of `docs/time-authority/timebeat-readiness.md`.
