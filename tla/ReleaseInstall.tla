----------------------------- MODULE ReleaseInstall -----------------------------
(***************************************************************************)
(* scripts/install-roko-validator-enroll.sh puts a verified release in a   *)
(* directory named after its version and points four command links at it;  *)
(* authenticated_tools of scripts/verify-enrollment-receipt.py proves that *)
(* the four commands of a machine are one signed release and nothing else. *)
(* Installers take no lock: they may overlap, of one version or of two, and *)
(* each may fail or be killed at any step.  The commands are in use all the *)
(* while and, unless told not to, leave Python's bytecode in the release.  *)
(* A release has two members, programs and libraries; what was downloaded  *)
(* and its signatures are as they should be, or nothing is installed.      *)
(***************************************************************************)
EXTENDS Naturals, Sequences

CONSTANTS
  Installer,  \* the invocations of the installer
  Version,    \* the releases
  MaxBegins,  \* bound of their runs
  None        \* no directory, no link

Member == {"bin", "lib"}
Entry  == Member \cup {"nested", "cache"}

ASSUME InstallAssumption ==
  /\ None \notin Version /\ \A s \in SUBSET Entry : s # None
  /\ MaxBegins \in Nat

VARIABLES
  dir,       \* the entries of each version's directory
  staging,   \* those of the directory it is prepared in
  link,      \* the version each command link names
  bytecode,  \* whether running a command writes bytecode
  version,   \* what each installer installs
  pc,
  copied,    \* the members it copied
  linked,    \* the links it replaced
  begun,     \* runs so far
  alone,     \* no other installer ran when it began, and none began since
  stage,     \* of the verifier
  want,      \* the version its signed release has
  found,     \* the versions the links resolve to
  resolved,  \* how many of them it resolved
  compared,  \* the members it compared
  ran,       \* the directory as it was when its command ran
  whole,     \* all links named the version at once while it read them
  crowded,   \* two installers ran at once while it read them
  replaced   \* a file of the release was unlinked after its first listing:
             \* these three are for the properties only

install  == <<version, pc, copied, linked, begun, alone>>
history  == <<whole, crowded, replaced>>
verifier == <<stage, want, found, resolved, compared, ran, whole, crowded, replaced>>
vars == <<dir, staging, link, bytecode, version, pc, copied, linked, begun, alone,
          stage, want, found, resolved, compared, ran, whole, crowded, replaced>>

Command == <<"roko-validator-enroll", "roko-session-key-window",
             "roko-authority-peers", "roko-validator-watch">>
Links   == 1 .. Len(Command)
Ended   == {"idle", "done", "stopped"}
Busy    == {"links", "members", "scan", "run", "again"}

TypeOK ==
  /\ dir \in [Version -> {None} \cup SUBSET Entry]
  /\ staging \in [Version -> {None} \cup SUBSET Member]
  /\ link \in [Links -> Version \cup {None}]
  /\ bytecode \in BOOLEAN
  /\ version \in [Installer -> Version]
  /\ pc \in [Installer -> Ended \cup {"clear", "create", "copy", "remove", "move", "link", "check"}]
  /\ copied \in [Installer -> SUBSET Member]
  /\ linked \in [Installer -> 0 .. Len(Command)]
  /\ begun \in 0 .. MaxBegins
  /\ alone \in [Installer -> BOOLEAN]
  /\ stage \in Busy \cup {"idle", "passed", "refused"}
  /\ want \in Version /\ found \subseteq Version
  /\ resolved \in 0 .. Len(Command) /\ compared \subseteq Member
  /\ ran \in {None} \cup SUBSET Entry
  /\ whole \in BOOLEAN /\ crowded \in BOOLEAN /\ replaced \in BOOLEAN

\* A new machine, or one with a release installed.
Init ==
  \E old \in Version \cup {None} :
    /\ dir = [v \in Version |-> IF v = old THEN Member ELSE None]
    /\ staging = [v \in Version |-> None]
    /\ link = [c \in Links |-> old]
    /\ bytecode \in BOOLEAN
    /\ version \in [Installer -> Version]
    /\ pc = [i \in Installer |-> "idle"]
    /\ copied = [i \in Installer |-> {}] /\ linked = [i \in Installer |-> 0]
    /\ begun = 0 /\ alone = [i \in Installer |-> TRUE]
    /\ stage = "idle" /\ want \in Version /\ found = {} /\ resolved = 0 /\ compared = {}
    /\ ran = None /\ whole = FALSE /\ crowded = FALSE /\ replaced = FALSE

-----------------------------------------------------------------------------
Active(i)   == pc[i] \notin Ended
Complete(v) == v # None /\ dir[v] # None /\ Member \subseteq dir[v]
Works(c)    == Complete(link[c])
Goto(i, label) == pc' = [pc EXCEPT ![i] = label]

\* A file of a tree is unlinked, or the empty tree is removed.
Unlinked(tree) == IF tree = {} THEN {None} ELSE {tree \ {e} : e \in tree}

-----------------------------------------------------------------------------
(* Mutants: steps with a plausible mistake in them.  Each is put in the    *)
(* place of the step it is named after to show that a property notices;    *)
(* none is part of the specification.                                      *)

\* The extracted directory is copied, not what is in it.
CopyWhole(i) ==
  /\ pc[i] = "copy"
  /\ staging' = [staging EXCEPT ![version[i]] = {"nested"}]
  /\ Goto(i, "remove")
  /\ UNCHANGED <<dir, link, bytecode, version, copied, linked, begun, alone, verifier>>

\* The directory of an earlier installation is left to mv.
RemoveNothing(i) ==
  /\ pc[i] = "remove"
  /\ Goto(i, "move")
  /\ UNCHANGED <<dir, staging, link, bytecode, version, copied, linked, begun, alone, verifier>>

\* Every installed version is removed before the new one is in its place.
RemoveAll(i) ==
  /\ pc[i] = "remove"
  /\ dir' = [v \in Version |-> None]
  /\ Goto(i, "move")
  /\ UNCHANGED <<staging, link, bytecode, version, copied, linked, begun, alone, verifier>>

\* The files are not listed a second time after the command ran.
ScanOnce ==
  /\ stage = "again"
  /\ stage' = "passed"
  /\ UNCHANGED <<dir, staging, link, bytecode, install, want, found, resolved, compared, ran, history>>

-----------------------------------------------------------------------------
(* The installer, from its destination on; it may be run again. *)
Begin(i) ==
  /\ pc[i] \in Ended
  /\ begun < MaxBegins
  /\ begun' = begun + 1
  /\ Goto(i, "clear")
  /\ alone' = [j \in Installer |-> j = i /\ \A k \in Installer : ~Active(k)]
  /\ crowded' = (crowded \/ (stage = "links" /\ ~alone'[i]))
  /\ UNCHANGED <<dir, staging, link, bytecode, version, copied, linked,
                 stage, want, found, resolved, compared, ran, whole, replaced>>

\* rm -rf "$destination.new"
Clear(i) ==
  /\ pc[i] = "clear"
  /\ \/ /\ staging[version[i]] # None
        /\ \E rest \in Unlinked(staging[version[i]]) :
             staging' = [staging EXCEPT ![version[i]] = rest]
        /\ UNCHANGED pc
     \/ staging[version[i]] = None /\ Goto(i, "create") /\ UNCHANGED staging
  /\ UNCHANGED <<dir, link, bytecode, version, copied, linked, begun, alone, verifier>>

\* install -d does not mind a directory that exists.
Create(i) ==
  /\ pc[i] = "create"
  /\ staging' = [staging EXCEPT ![version[i]] = IF @ = None THEN {} ELSE @]
  /\ Goto(i, "copy")
  /\ UNCHANGED <<dir, link, bytecode, version, copied, linked, begun, alone, verifier>>

\* cp -a: makes the directory if it is gone when it starts, fails if it goes later.
Copy(i) ==
  /\ pc[i] = "copy"
  /\ LET tree == staging[version[i]] IN
     \/ \E m \in Member \ copied[i] :
          /\ tree # None \/ copied[i] = {}
          /\ staging' = [staging EXCEPT ![version[i]] = IF tree = None THEN {m} ELSE tree \cup {m}]
          /\ copied' = [copied EXCEPT ![i] = @ \cup {m}]
          /\ UNCHANGED pc
     \/ /\ copied[i] = Member \/ (tree = None /\ copied[i] # {})
        /\ Goto(i, IF copied[i] = Member THEN "remove" ELSE "stopped")
        /\ copied' = [copied EXCEPT ![i] = {}]
        /\ UNCHANGED staging
  /\ UNCHANGED <<dir, link, bytecode, version, linked, begun, alone, verifier>>

\* rm -rf "$destination"
Remove(i) ==
  /\ pc[i] = "remove"
  /\ \/ /\ dir[version[i]] # None
        /\ \E rest \in Unlinked(dir[version[i]]) : dir' = [dir EXCEPT ![version[i]] = rest]
        /\ replaced' = (replaced \/ (version[i] = want /\ stage \in {"run", "again"}))
        /\ UNCHANGED pc
     \/ dir[version[i]] = None /\ Goto(i, "move") /\ UNCHANGED <<dir, replaced>>
  /\ UNCHANGED <<staging, link, bytecode, version, copied, linked, begun, alone,
                 stage, want, found, resolved, compared, ran, whole, crowded>>

\* mv moves into a directory that is there again, unless it was moved there before.
Move(i) ==
  /\ pc[i] = "move"
  /\ LET v == version[i] IN
     \/ /\ staging[v] # None
        /\ dir[v] # None => "nested" \notin dir[v]
        /\ dir' = [dir EXCEPT ![v] = IF @ = None THEN staging[v] ELSE @ \cup {"nested"}]
        /\ staging' = [staging EXCEPT ![v] = None]
        /\ Goto(i, "link")
     \/ /\ staging[v] = None \/ (dir[v] # None /\ "nested" \in dir[v])
        /\ Goto(i, "stopped") /\ UNCHANGED <<dir, staging>>
  /\ UNCHANGED <<link, bytecode, version, copied, linked, begun, alone, verifier>>

\* ln -sfn, in the order of Command.
Link(i) ==
  /\ pc[i] = "link"
  /\ LET c == linked[i] + 1 IN
     /\ link' = [link EXCEPT ![c] = version[i]]
     /\ linked' = [linked EXCEPT ![i] = c % Len(Command)]
     /\ Goto(i, IF c = Len(Command) THEN "check" ELSE "link")
  /\ whole' = (whole \/ (stage = "links" /\ \A c \in Links : link'[c] = want))
  /\ UNCHANGED <<dir, staging, bytecode, version, copied, begun, alone,
                 stage, want, found, resolved, compared, ran, crowded, replaced>>

\* The enrollment command through its link, and then the authority command.
Check(i) ==
  /\ pc[i] = "check"
  /\ \/ /\ link[1] = version[i] /\ Works(1) /\ Works(3)
        /\ dir' = IF bytecode THEN [v \in Version |-> IF v \in {link[1], link[3]}
                                                      THEN dir[v] \cup {"cache"} ELSE dir[v]]
                  ELSE dir
        /\ Goto(i, "done")
     \/ ~(link[1] = version[i] /\ Works(1) /\ Works(3)) /\ Goto(i, "stopped") /\ UNCHANGED dir
  /\ UNCHANGED <<staging, link, bytecode, version, copied, linked, begun, alone, verifier>>

\* A command of the script fails (set -e), or the script is killed: the trap
\* removes the download only.
Stop(i) ==
  /\ Active(i)
  /\ Goto(i, "stopped")
  /\ copied' = [copied EXCEPT ![i] = {}] /\ linked' = [linked EXCEPT ![i] = 0]
  /\ UNCHANGED <<dir, staging, link, bytecode, version, begun, alone, verifier>>

Install(i) == \/ Begin(i) \/ Clear(i) \/ Create(i) \/ Copy(i) \/ Remove(i)
              \/ Move(i) \/ Link(i) \/ Check(i)

\* Somebody runs an installed command.
Use ==
  /\ bytecode
  /\ \E c \in Links : Works(c) /\ dir' = [dir EXCEPT ![link[c]] = @ \cup {"cache"}]
  /\ UNCHANGED <<staging, link, bytecode, install, verifier>>

-----------------------------------------------------------------------------
(* The verifier, from the authenticated release on *)

\* It ends with a message, and what it knew is gone.
Refuse ==
  /\ stage' = "refused" /\ found' = {} /\ resolved' = 0 /\ compared' = {} /\ ran' = None
  /\ whole' = FALSE /\ crowded' = FALSE /\ replaced' = FALSE /\ UNCHANGED want

\* It takes no notice of installers, before or while it runs.
Verify ==
  /\ stage = "idle"
  /\ stage' = "links"
  /\ whole' = (\A c \in Links : link[c] = want)
  /\ crowded' = (\E i, j \in Installer : i # j /\ Active(i) /\ Active(j))
  /\ UNCHANGED <<dir, staging, link, bytecode, install, want, found, resolved, compared, ran,
                 replaced>>

\* Each link in turn, resolved strictly; all into one directory of the version.
ReadLink ==
  /\ stage = "links"
  /\ LET c    == resolved + 1
         more == c < Len(Command)
         all  == found \cup ({link[c]} \cap Version) IN
     IF /\ link[c] # None /\ dir[link[c]] # None /\ "bin" \in dir[link[c]]
        /\ ~more => all = {want}
     THEN /\ stage' = (IF more THEN "links" ELSE "members")
          /\ resolved' = c /\ found' = all
          /\ UNCHANGED <<want, compared, ran, history>>
     ELSE Refuse
  /\ UNCHANGED <<dir, staging, link, bytecode, install>>

\* A member of the signed archive against the installed one.
CompareMember ==
  /\ stage = "members"
  /\ \E m \in Member \ compared :
       IF dir[want] # None /\ m \in dir[want]
       THEN /\ compared' = compared \cup {m}
            /\ stage' = (IF compared' = Member THEN "scan" ELSE "members")
            /\ UNCHANGED <<want, found, resolved, ran, history>>
       ELSE Refuse
  /\ UNCHANGED <<dir, staging, link, bytecode, install>>

\* closed_installed_files: the archive's files and nothing else, no bytecode.
Lists(next) ==
  /\ IF dir[want] = Member
     THEN stage' = next /\ UNCHANGED <<want, found, resolved, compared, ran, history>>
     ELSE Refuse
  /\ UNCHANGED <<dir, staging, link, bytecode, install>>

Scan == stage = "scan" /\ Lists("run")

\* --version by its resolved path, told not to write bytecode.
RunVersion ==
  /\ stage = "run"
  /\ IF Complete(want)
     THEN stage' = "again" /\ ran' = dir[want]
          /\ UNCHANGED <<want, found, resolved, compared, history>>
     ELSE Refuse
  /\ UNCHANGED <<dir, staging, link, bytecode, install>>

ScanAgain == stage = "again" /\ Lists("passed")

Authenticate == Verify \/ ReadLink \/ CompareMember \/ Scan \/ RunVersion \/ ScanAgain

Next == Use \/ Authenticate \/ \E i \in Installer : Install(i) \/ Stop(i)

Spec == Init /\ [][Next]_vars

-----------------------------------------------------------------------------
(* Properties *)

\* An installer that reports success, and ran alone, leaves the four commands
\* of its release and nothing of another, whatever earlier installers left
\* half done: directories partly removed or copied, or some links replaced.
InstalledIsComplete ==
  \A i \in Installer :
    pc[i] = "done" /\ alone[i] =>
      /\ \A c \in Links : link[c] = version[i]
      /\ dir[version[i]] \ {"cache"} = Member

\* A command that works keeps working through every step of an installation,
\* a failed or killed one too, unless its own version is being installed anew
\* or installers of one version overlapped.
UpgradeKeepsCommands ==
  [][\A c \in Links :
       Works(c) => \/ Works(c)'
                   \/ \E i \in Installer : Active(i) /\ version[i] = link[c]
                   \/ \E i, j \in Installer : i # j /\ ~alone[i] /\ ~alone[j]
                                              /\ version[i] = version[j]]_vars

\* docs/private-enrollment-qualification.md: the four commands resolve into
\* one authenticated directory without any unsigned file.  Links and files are
\* read one at a time while releases are installed.  Unless two installers ran
\* at once while the links were read, all four named the release at one moment;
\* and unless the release was removed between the two listings, the command
\* that gave its version ran from exactly the signed files, without bytecode.
\* The script checks for neither of the two exceptions.
VerifiedWasInstalled ==
  stage = "passed" => (whole \/ crowded) /\ (ran = Member \/ replaced)
=============================================================================
