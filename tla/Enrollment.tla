------------------------------ MODULE Enrollment ------------------------------
(***************************************************************************)
(* lib/validator_enrollment.py and lib/validator_wallet_setup.py: programs *)
(* that put a public document at a path the operator names.                *)
(*   new, reuse   observe the node over its RPC for a while, have it make  *)
(*                new session keys or prove it holds the given ones, and   *)
(*                replace the file by an enrollment package               *)
(*   readiness    replace the file by the node's readiness report          *)
(*   wallet       create the file, which must be new, as a wallet handoff  *)
(* Several may run on one path; each may be killed between any two steps.  *)
(* Between the answers the chain grows, and the node may be restarted with *)
(* another role, RPC policy or addresses, lose its peers, or fall back; a  *)
(* file may not be written.  The node and the chain are external.          *)
(***************************************************************************)
EXTENDS Naturals, FiniteSets

CONSTANTS
  Run,        \* the invocations
  Kind,       \* the kinds of programs they may be
  MaxHeight,  \* bound of the chain
  MaxUpsets   \* bound of restarts, losses and falls of the node

ASSUME EnrollmentAssumption ==
  /\ Run \cap {"registered", "foreign"} = {}
  /\ Kind \subseteq {"new", "reuse", "readiness", "wallet"}
  /\ MaxHeight \in Nat \ {0} /\ MaxUpsets \in Nat

VARIABLES
  best, final,   \* the node's heights
  synced,        \* synchronized, with peers
  authority,     \* the node runs in validator mode
  policy,        \* its RPC policy
  listens,       \* there are addresses: it reports some, or the operator gave some
  held,          \* the key tuples in its keystore, named by the run they were made for
  fell,          \* it fell back to lower heights
  upsets,
  file,          \* the document at the path
  kind,          \* what each invocation is
  pc,
  seen,          \* what a run observed
  keys,          \* the tuple of its package
  made,          \* author_rotateKeys made keys for it
  cause          \* why it ended without a document

node == <<best, final, synced, authority, policy, listens, held, fell, upsets>>
vars == <<best, final, synced, authority, policy, listens, held, fell, upsets,
          file, kind, pc, seen, keys, made, cause>>

Height == 1 .. MaxHeight
Keys   == Run \cup {"registered", "foreign", "none"}
Cause  == {"none", "gate", "call", "policy", "custody", "addresses", "malformed",
           "validation", "write", "exists"}
Label  == {"start", "runtime", "health", "addresses", "roles", "best", "first", "second",
           "decide", "keys", "custody", "package", "replace", "capture",
           "handoff", "create", "write", "done", "error", "dead"}
Ended  == {"done", "error", "dead"}

NoSeen == [usable |-> TRUE, synced |-> FALSE, listens |-> FALSE, authority |-> FALSE,
           best |-> 0, first |-> 0, second |-> 0]
\* A document without the facts of a package.
Document(which, complete) ==
  [kind |-> which, whole |-> complete, keys |-> "none", best |-> 0, final |-> 0]
NoFile == Document("none", TRUE)

TypeOK ==
  /\ best \in Height /\ final \in 1 .. best
  /\ synced \in BOOLEAN /\ authority \in BOOLEAN /\ listens \in BOOLEAN /\ fell \in BOOLEAN
  /\ policy \in {"Safe", "Unsafe"}
  /\ held \subseteq Keys
  /\ upsets \in 0 .. MaxUpsets
  /\ file \in [kind : {"none", "package", "readiness", "handoff"}, whole : BOOLEAN,
               keys : Keys, best : 0 .. MaxHeight, final : 0 .. MaxHeight]
  /\ kind \in [Run -> Kind]
  /\ pc \in [Run -> Label]
  /\ seen \in [Run -> [usable : BOOLEAN, synced : BOOLEAN, listens : BOOLEAN, authority : BOOLEAN,
                       best : 0 .. MaxHeight, first : 0 .. MaxHeight, second : 0 .. MaxHeight]]
  /\ keys \in [Run -> Keys]
  /\ made \in [Run -> BOOLEAN]
  /\ cause \in [Run -> Cause]

\* The registered tuple is in the keystore; a reuse run names it or another.
Init ==
  /\ best = 1 /\ final = 1
  /\ synced = TRUE /\ authority = FALSE /\ policy = "Unsafe"
  /\ listens \in BOOLEAN
  /\ held = {"registered"} /\ fell = FALSE /\ upsets = 0
  /\ file = NoFile
  /\ kind \in [Run -> Kind]
  /\ pc = [r \in Run |-> "start"]
  /\ seen = [r \in Run |-> NoSeen]
  /\ keys \in {k \in [Run -> {"registered", "foreign", "none"}] :
                 \A r \in Run : (k[r] = "none") <=> (kind[r] # "reuse")}
  /\ made = [r \in Run |-> FALSE]
  /\ cause = [r \in Run |-> "none"]

-----------------------------------------------------------------------------
(* The node and the chain *)
Around == UNCHANGED <<file, kind, pc, seen, keys, made, cause>>

\* Changes matter only to runs that are still to look.
Upset == /\ upsets < MaxUpsets
         /\ \E r \in Run : pc[r] \notin Ended \cup {"start"}
         /\ upsets' = upsets + 1

Grow ==
  /\ \/ best < MaxHeight /\ best' = best + 1 /\ final' = final
     \/ final < best /\ final' \in final + 1 .. best /\ best' = best
  /\ Around
  /\ UNCHANGED <<synced, authority, policy, listens, held, fell, upsets>>

Restart ==
  /\ Upset
  /\ \/ authority' = ~authority /\ UNCHANGED <<policy, synced, listens>>
     \/ policy' = (IF policy = "Safe" THEN "Unsafe" ELSE "Safe")
        /\ UNCHANGED <<authority, synced, listens>>
     \/ synced' = ~synced /\ UNCHANGED <<authority, policy, listens>>
     \/ listens' = ~listens /\ UNCHANGED <<authority, policy, synced>>
  /\ Around
  /\ UNCHANGED <<best, final, held, fell>>

FallBack ==
  /\ Upset
  /\ best > 1
  /\ best' = best - 1
  /\ final' \in 1 .. (IF final < best THEN final ELSE best - 1)
  /\ fell' = TRUE
  /\ Around
  /\ UNCHANGED <<synced, authority, policy, listens, held>>

-----------------------------------------------------------------------------
Goto(r, label) == pc' = [pc EXCEPT ![r] = label]

\* EnrollmentError: the command ends with a message.
End(r, why) == /\ Goto(r, "error")
               /\ cause' = [cause EXCEPT ![r] = why]

Sees(r, field, value, label) ==
  /\ seen' = [seen EXCEPT ![r][field] = value]
  /\ Goto(r, label)
  /\ UNCHANGED <<node, file, kind, keys, made, cause>>

\* The heights of a package: those of the observation.
Package(r, high) == [kind |-> "package", whole |-> TRUE, keys |-> keys[r],
                     best |-> high, final |-> seen[r].second]

-----------------------------------------------------------------------------
(* Mutants: steps with a plausible mistake in them.  Each is put in the    *)
(* place of the step it is named after to show that a property notices;    *)
(* none is part of the specification.                                      *)

\* The height of the block being built is taken for the best one.
BestAhead(r) == best + 1

\* The finalized head need not have moved on.
ReadySteady(r) == seen[r].synced /\ ~seen[r].authority /\ seen[r].second >= seen[r].first

\* The best header of the observation is kept.
BestKept(r) == seen[r].best

\* The answer of author_hasSessionKeys is not looked at.
ProvesAnyKeys(r) == policy = "Unsafe"

\* The handoff is opened for writing, not for exclusive creation.
CreateOver(r) ==
  /\ pc[r] = "create"
  /\ file' = Document("handoff", FALSE)
  /\ Goto(r, "write")
  /\ UNCHANGED <<node, kind, seen, keys, made, cause>>

-----------------------------------------------------------------------------
(* build_enrollment: the observation *)

\* Loopback address, listener, synchronized clock and binary: local checks.
Start(r) ==
  /\ pc[r] = "start"
  /\ \/ Goto(r, CASE kind[r] \in {"new", "reuse"} -> "runtime"
                  [] kind[r] = "readiness" -> "capture"
                  [] kind[r] = "wallet" -> "handoff") /\ cause' = cause
     \/ End(r, "gate")
  /\ UNCHANGED <<node, file, kind, seen, keys, made>>

\* The chain's name, its runtime and its metadata: whether they are fit for a
\* package is not looked at now.
ReadRuntime(r) ==
  pc[r] = "runtime" /\ \E usable \in BOOLEAN : Sees(r, "usable", usable, "health")

ReadHealth(r)    == pc[r] = "health"    /\ Sees(r, "synced", synced, "addresses")
ReadAddresses(r) == pc[r] = "addresses" /\ Sees(r, "listens", listens, "roles")
ReadRoles(r)     == pc[r] = "roles"     /\ Sees(r, "authority", authority, "best")
ReadBest(r)      == pc[r] = "best"      /\ Sees(r, "best", best, "first")
ReadFirst(r)     == pc[r] = "first"     /\ Sees(r, "first", final, "second")

\* After the observation time.
ReadSecond(r)    == pc[r] = "second"    /\ Sees(r, "second", final, "decide")

\* Synchronized with peers, not an authority, and finality advanced.
Ready(r) == seen[r].synced /\ ~seen[r].authority /\ seen[r].second > seen[r].first

\* The best header is asked for again if the finalized one has overtaken it.
Overtaken(r) == seen[r].second > seen[r].best
BestAfter(r) == IF Overtaken(r) THEN best ELSE seen[r].best

Decide(r) ==
  /\ pc[r] = "decide"
  /\ \/ Ready(r) /\ Sees(r, "best", BestAfter(r), "keys")
     \/ ~Ready(r) /\ End(r, "gate") /\ UNCHANGED <<node, file, kind, seen, keys, made>>

\* author_rotateKeys, rejected under the Safe policy.  The node may make the keys
\* and its answer be lost, or not be a tuple.
ObtainKeys(r) ==
  /\ pc[r] = "keys"
  /\ \/ /\ kind[r] = "new" /\ policy = "Unsafe"
        /\ held' = held \cup {r}
        /\ made' = [made EXCEPT ![r] = TRUE]
        /\ \/ keys' = [keys EXCEPT ![r] = r] /\ Goto(r, "custody") /\ UNCHANGED cause
           \/ End(r, "call") /\ UNCHANGED keys
     \/ /\ kind[r] = "new" /\ policy = "Safe"
        /\ End(r, "policy") /\ UNCHANGED <<held, keys, made>>
     \/ /\ kind[r] = "reuse"
        /\ Goto(r, "custody") /\ UNCHANGED <<held, keys, made, cause>>
  /\ UNCHANGED <<best, final, synced, authority, policy, listens, fell, upsets,
                 file, kind, seen>>

\* author_hasSessionKeys answers true.
Proves(r) == policy = "Unsafe" /\ keys[r] \in held

ProveCustody(r) ==
  /\ pc[r] = "custody"
  /\ \/ Proves(r) /\ Goto(r, "package") /\ UNCHANGED cause
     \/ ~Proves(r) /\ End(r, IF policy = "Safe" THEN "policy" ELSE "custody")
  /\ UNCHANGED <<node, file, kind, seen, keys, made>>

\* validate_enrollment: the chain's runtime and metadata, and the heights.
Valid(r) == seen[r].usable /\ ~Overtaken(r)

\* Only now is the rest of what was read before the rotation looked at: first
\* the addresses, then what a package says of the chain.
BuildPackage(r) ==
  /\ pc[r] = "package"
  /\ \/ ~seen[r].listens /\ End(r, "addresses")
     \/ /\ seen[r].listens /\ ~Valid(r)
        /\ End(r, IF seen[r].usable THEN "validation" ELSE "malformed")
     \/ seen[r].listens /\ Valid(r) /\ Goto(r, "replace") /\ UNCHANGED cause
  /\ UNCHANGED <<node, file, kind, seen, keys, made>>

\* atomic_write: the temporary file is complete when it is renamed; if it is not
\* written, it is removed.
Replace(r) ==
  /\ pc[r] = "replace"
  /\ \/ /\ file' = IF kind[r] = "readiness" THEN Document("readiness", TRUE)
                   ELSE Package(r, seen[r].best)
        /\ Goto(r, "done") /\ UNCHANGED cause
     \/ End(r, "write") /\ UNCHANGED file
  /\ UNCHANGED <<node, kind, seen, keys, made>>

-----------------------------------------------------------------------------
(* The other commands *)
Capture(r) ==
  /\ pc[r] = "capture"
  /\ Goto(r, "replace")
  /\ UNCHANGED <<node, file, kind, seen, keys, made, cause>>

\* wallet_setup reads the chain's public facts; then the path must be free.
Handoff(r) ==
  /\ pc[r] = "handoff"
  /\ \/ file.kind = "none" /\ Goto(r, "create") /\ UNCHANGED cause
     \/ file.kind # "none" /\ End(r, "exists")
  /\ UNCHANGED <<node, file, kind, seen, keys, made>>

\* Exclusive creation, of an empty file.
Create(r) ==
  /\ pc[r] = "create"
  /\ \/ /\ file.kind = "none"
        /\ file' = Document("handoff", FALSE)
        /\ Goto(r, "write") /\ UNCHANGED cause
     \/ file.kind # "none" /\ End(r, "exists") /\ UNCHANGED file
  /\ UNCHANGED <<node, kind, seen, keys, made>>

\* The document goes to the file that was created, even if another program has
\* replaced the name since.
Write(r) ==
  /\ pc[r] = "write"
  /\ file' = IF file.kind = "handoff" THEN [file EXCEPT !.whole = TRUE] ELSE file
  /\ Goto(r, "done")
  /\ UNCHANGED <<node, kind, seen, keys, made, cause>>

-----------------------------------------------------------------------------
\* A call is refused, lost or answered with something else.
CallFails(r) ==
  /\ \/ pc[r] \notin Ended \cup {"start", "decide", "package", "replace", "create", "write"}
     \/ pc[r] = "decide" /\ Ready(r) /\ Overtaken(r)
  /\ End(r, "call")
  /\ UNCHANGED <<node, file, kind, seen, keys, made>>

\* What the process knew is gone.
Kill(r) ==
  /\ pc[r] \notin Ended \cup {"start"}
  /\ Goto(r, "dead")
  /\ seen' = [seen EXCEPT ![r] = NoSeen]
  /\ UNCHANGED <<node, file, kind, keys, made, cause>>

Observe(r) == \/ ReadRuntime(r) \/ ReadHealth(r) \/ ReadAddresses(r) \/ ReadRoles(r)
              \/ ReadBest(r) \/ ReadFirst(r) \/ ReadSecond(r)

Step(r) == \/ Start(r) \/ Observe(r) \/ Decide(r) \/ ObtainKeys(r) \/ ProveCustody(r)
           \/ BuildPackage(r) \/ Replace(r) \/ Capture(r) \/ Handoff(r) \/ Create(r)
           \/ Write(r)

World == Grow \/ Restart \/ FallBack

Next == World \/ \E r \in Run : Step(r) \/ CallFails(r) \/ Kill(r)

Spec == Init /\ [][Next]_vars

-----------------------------------------------------------------------------
(* Properties *)

\* author_rotateKeys changes the node for good.  It is called only after the
\* node was seen synchronized and not an authority, and after the chain the
\* node finalizes really grew while the run was looking.
KeysAreEarned ==
  \A r \in Run : made[r] /\ pc[r] # "dead" =>
    /\ kind[r] = "new" /\ seen[r].synced /\ ~seen[r].authority
    /\ seen[r].first < seen[r].second
    /\ final > seen[r].first \/ fell

\* Keys that were made without a package for them remain in the node's keystore.
\* The code does not rule that out: it judges only after the rotation the
\* addresses, the runtime and the metadata it read before it, and a call or the
\* writing of the file may fail.  But nothing else comes in between: the custody
\* of the new keys is proved, unless the node was restarted with another policy,
\* and the heights of a package are in order, unless the node fell back.
WasteHasReason ==
  \A r \in Run : made[r] /\ pc[r] = "error" =>
    \/ cause[r] \in {"call", "write"}
    \/ cause[r] = "addresses" /\ ~seen[r].listens
    \/ cause[r] = "malformed" /\ ~seen[r].usable
    \/ cause[r] = "policy" /\ upsets > 0
    \/ cause[r] = "validation" /\ fell

\* A package at the path is complete, names keys the node holds, and was made
\* while finality advanced, whoever else wrote to the path or was killed.
PackageIsSound ==
  file.kind = "package" =>
    /\ file.whole
    /\ file.keys \in held
    /\ file.final <= file.best /\ file.final > 1

\* "Exclusive creation avoids clobbering a package if another process races
\* us": once there is a whole document, the path always has one, and the
\* wallet handoff never takes its place.
WholeStaysWhole ==
  [][file.kind \in {"package", "readiness"} =>
       file'.kind \in {"package", "readiness"} /\ file'.whole]_vars
=============================================================================
