--------------------------- MODULE AuthorityPeers ---------------------------
(***************************************************************************)
(* How a validator candidate gets the peers it must stay connected to:     *)
(* installer/scripts/install-authority-peers.sh downloads the published    *)
(* manifest and then its signature, lib/authority_peers.py verifies both,  *)
(* the script installs the manifest, and install-roko-service.sh, the next *)
(* step of install-roko-node.sh, writes its addresses into the node's      *)
(* unit.                                                                   *)
(*                                                                         *)
(* Manifest and signature are published one after the other, at any moment *)
(* and also between the two downloads; time passes between any two steps;  *)
(* installations take no lock, may overlap, and fail or are killed at any  *)
(* step.  What manifests say is constant: their window of validity, their  *)
(* authorities and the peers they ask for; one that is otherwise malformed *)
(* is as good as one with too few of them.                                 *)
(***************************************************************************)
EXTENDS Naturals, FiniteSets

CONSTANTS
  Run,        \* the installations
  Manifest,   \* the manifests that may be published
  Generated,  \* when each was made
  Expires,    \* when its validity ends
  Peers,      \* how many authorities it has
  Minimum,    \* its minimumMappedPeers
  Tolerance,  \* how far the clocks may differ, 5 minutes
  MaxWindow,  \* the longest validity, 14 days
  MaxClock,   \* bound of the time
  MaxBegins,  \* bound of the runs of the installations
  None        \* no manifest

ASSUME PeersAssumption ==
  /\ Generated \in [Manifest -> Nat] /\ Expires \in [Manifest -> Nat]
  /\ Peers \in [Manifest -> Nat] /\ Minimum \in [Manifest -> Nat]
  /\ Tolerance \in Nat /\ MaxWindow \in Nat /\ MaxClock \in Nat /\ MaxBegins \in Nat
  /\ None \notin Manifest \cup Run /\ Run \cap Manifest = {}

VARIABLES
  clock,
  published,  \* the manifest at its URL
  signature,  \* the manifest whose signature is at the other
  signed,     \* the manifests ever signed
  file,       \* /etc/roko/authority-peers.json, or the run that is writing it
  unit,       \* the manifest whose addresses the node's unit has
  pc,
  manifest,   \* the manifest each run downloaded
  proof,      \* the manifest whose signature it downloaded
  begun,      \* runs so far
  since,      \* when the run began
  alone       \* no other run was active when it began, and none began since

outside == <<clock, published, signature, signed>>
vars == <<clock, published, signature, signed, file, unit, pc, manifest, proof,
          begun, since, alone>>

Ended == {"idle", "done", "stopped"}

TypeOK ==
  /\ clock \in 0 .. MaxClock
  /\ {published, signature} \subseteq Manifest \cup {None}
  /\ signed \subseteq Manifest
  /\ file \in Manifest \cup Run \cup {None}
  /\ unit \in Manifest \cup {None}
  /\ pc \in [Run -> Ended \cup {"manifest", "signature", "verify", "validate",
                                "create", "copy", "read", "unit"}]
  /\ manifest \in [Run -> Manifest \cup {None}]
  /\ proof \in [Run -> Manifest \cup {None}]
  /\ begun \in 0 .. MaxBegins
  /\ since \in [Run -> 0 .. MaxClock]
  /\ alone \in [Run -> BOOLEAN]

\* validate_manifest: what a manifest says, and its window at the moment now.
Sound(m) ==
  /\ Expires[m] > Generated[m]
  /\ Expires[m] <= Generated[m] + MaxWindow
  /\ Minimum[m] = 2
  /\ Peers[m] \in 2 .. 32
Current(m, now) == Generated[m] <= now + Tolerance /\ now < Expires[m]

\* What the resolver says of its addresses at the moment: all public, or not.
PublicAddress == BOOLEAN

\* The host may have a manifest from an earlier installation.
Init ==
  /\ clock = 0 /\ published = None /\ signature = None
  /\ file \in {None} \cup {m \in Manifest : Sound(m) /\ Generated[m] = 0}
  /\ signed = {file} \cap Manifest
  /\ unit = None
  /\ pc = [r \in Run |-> "idle"]
  /\ manifest = [r \in Run |-> None] /\ proof = [r \in Run |-> None]
  /\ begun = 0 /\ since = [r \in Run |-> 0] /\ alone = [r \in Run |-> TRUE]

-----------------------------------------------------------------------------
Active(r) == pc[r] \notin Ended
Goto(r, label) == pc' = [pc EXCEPT ![r] = label]

-----------------------------------------------------------------------------
(* Time, and the network's operators *)
Tick ==
  /\ clock < MaxClock
  /\ clock' = clock + 1
  /\ UNCHANGED <<published, signature, signed, file, unit, pc, manifest, proof, begun, since, alone>>

Publish ==
  /\ \E m \in Manifest \ {published} : published' = m
  /\ UNCHANGED <<clock, signature, signed, file, unit, pc, manifest, proof, begun, since, alone>>

Sign ==
  /\ published # None /\ signature # published
  /\ signature' = published /\ signed' = signed \cup {published}
  /\ UNCHANGED <<clock, published, file, unit, pc, manifest, proof, begun, since, alone>>

-----------------------------------------------------------------------------
(* Mutants: steps with a plausible mistake in them.  Each is put in the    *)
(* place of the step it is named after to show that a property notices;    *)
(* none is part of the specification.                                      *)

\* The signature is not compared with the manifest that was downloaded.
VerifyAny(r) ==
  /\ pc[r] = "verify"
  /\ Goto(r, IF proof[r] # None THEN "validate" ELSE "stopped")
  /\ UNCHANGED <<outside, file, unit, manifest, proof, begun, since, alone>>

-----------------------------------------------------------------------------
Begin(r) ==
  /\ pc[r] \in Ended /\ begun < MaxBegins
  /\ begun' = begun + 1
  /\ Goto(r, "manifest")
  /\ manifest' = [manifest EXCEPT ![r] = None] /\ proof' = [proof EXCEPT ![r] = None]
  /\ since' = [since EXCEPT ![r] = clock]
  /\ alone' = [q \in Run |-> (q = r /\ \A p \in Run : ~Active(p)) \/ (q # r /\ alone[q] /\ ~Active(q))]
  /\ UNCHANGED <<outside, file, unit>>

\* install-roko-service.sh is also run on its own.
BeginService(r) ==
  /\ pc[r] \in Ended /\ begun < MaxBegins
  /\ begun' = begun + 1
  /\ Goto(r, "read")
  /\ alone' = [alone EXCEPT ![r] = FALSE]
  /\ UNCHANGED <<outside, file, unit, manifest, proof, since>>

DownloadManifest(r) ==
  /\ pc[r] = "manifest"
  /\ published # None
  /\ manifest' = [manifest EXCEPT ![r] = published]
  /\ Goto(r, "signature")
  /\ UNCHANGED <<outside, file, unit, proof, begun, since, alone>>

DownloadSignature(r) ==
  /\ pc[r] = "signature"
  /\ signature # None
  /\ proof' = [proof EXCEPT ![r] = signature]
  /\ Goto(r, "verify")
  /\ UNCHANGED <<outside, file, unit, manifest, begun, since, alone>>

VerifySignature(r) ==
  /\ pc[r] = "verify"
  /\ Goto(r, IF proof[r] = manifest[r] THEN "validate" ELSE "stopped")
  /\ UNCHANGED <<outside, file, unit, manifest, proof, begun, since, alone>>

\* And, if it is valid, the verified copy in the run's own directory.
Validate(r) ==
  /\ pc[r] = "validate"
  /\ \E public \in PublicAddress :
       Goto(r, IF Sound(manifest[r]) /\ Current(manifest[r], clock) /\ public
               THEN "create" ELSE "stopped")
  /\ UNCHANGED <<outside, file, unit, manifest, proof, begun, since, alone>>

\* install(1) unlinks what is there, creates the file and then fills it, unless
\* another run has unlinked it.
CreateFile(r) ==
  /\ pc[r] = "create"
  /\ file' = r
  /\ Goto(r, "copy")
  /\ UNCHANGED <<outside, unit, manifest, proof, begun, since, alone>>

CopyFile(r) ==
  /\ pc[r] = "copy"
  /\ file' = IF file = r THEN manifest[r] ELSE file
  /\ Goto(r, "read")
  /\ UNCHANGED <<outside, unit, manifest, proof, begun, since, alone>>

\* install-roko-service.sh: the addresses of the file, two of them at least.
ReadPeers(r) ==
  /\ pc[r] = "read"
  /\ manifest' = [manifest EXCEPT ![r] = IF file \in Manifest THEN file ELSE None]
  /\ Goto(r, IF file \in Manifest /\ Peers[file] >= 2 THEN "unit" ELSE "stopped")
  /\ UNCHANGED <<outside, file, unit, proof, begun, since, alone>>

InstallUnit(r) ==
  /\ pc[r] = "unit"
  /\ unit' = manifest[r]
  /\ Goto(r, "done")
  /\ UNCHANGED <<outside, file, manifest, proof, begun, since, alone>>

\* A download or another command fails, or a signal.
Stop(r) ==
  /\ Active(r)
  /\ Goto(r, "stopped")
  /\ UNCHANGED <<outside, file, unit, manifest, proof, begun, since, alone>>

Step(r) ==
  \/ Begin(r) \/ BeginService(r) \/ DownloadManifest(r) \/ DownloadSignature(r)
  \/ VerifySignature(r) \/ Validate(r) \/ CreateFile(r) \/ CopyFile(r)
  \/ ReadPeers(r) \/ InstallUnit(r) \/ Stop(r)

Next == Tick \/ Publish \/ Sign \/ \E r \in Run : Step(r)

Spec == Init /\ [][Next]_vars

-----------------------------------------------------------------------------
(* Properties *)

\* README: "An expired or invalidly signed manifest pauses installation".  An
\* installation that no other overlapped gives the node the peers of one sound
\* and signed manifest, current at a moment of that very installation; and
\* whatever overlaps or fails, in between downloads, verification and use, the
\* node never has peers of a manifest that nobody signed or that is not sound.
PeersAreVerified ==
  /\ \A m \in {file, unit} \cap Manifest : m \in signed /\ Sound(m)
  /\ \A r \in Run : pc[r] = "done" /\ alone[r] =>
       manifest[r] \in signed /\ \E t \in since[r] .. clock : Current(manifest[r], t)
=============================================================================
