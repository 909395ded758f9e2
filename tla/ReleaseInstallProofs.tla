------------------------- MODULE ReleaseInstallProofs -------------------------
(***************************************************************************)
(* For any number of installers, versions and runs, killed and overlapping *)
(* as they may: an installer that succeeds alone leaves its whole release, *)
(* other commands keep working through it, and what the verifier passes    *)
(* was installed at one moment, unless installers overlapped while it read *)
(* the links, and its command ran from the signed files, unless these were *)
(* removed between its two listings.                                       *)
(***************************************************************************)
EXTENDS ReleaseInstall, TLAPS

\* The four links.
LEMMA FourLinks == Len(Command) = 4 /\ Links = 1 .. 4
  BY DEF Links, Command

\* No other installer touches the directories of i's version while i runs.
Undisturbed(i) ==
  alone[i] \/ \A j \in Installer \ {i} : version[j] # version[i]

\* One that is alone is the only one that runs.
AloneInv ==
  \A i \in Installer : alone[i] => \A j \in Installer \ {i} : ~Active(j)

\* How far an installer has come with the directories of its version.
Prepared(i) ==
  LET v == version[i] IN
  /\ pc[i] = "create" => staging[v] = None
  /\ pc[i] = "copy"   => staging[v] = copied[i]
  /\ pc[i] \in {"remove", "move"} => staging[v] = Member
  /\ pc[i] = "move" => dir[v] = None
  /\ pc[i] \in {"link", "check"} => dir[v] \in {Member, Member \cup {"cache"}}

\* Alone, it leaves its links and its directory as they are to be.
Linked(i) ==
  LET v == version[i] IN
  /\ pc[i] = "link" => \A c \in 1 .. linked[i] : link[c] = v
  /\ pc[i] \in {"check", "done"} => \A c \in Links : link[c] = v
  /\ pc[i] = "done" => dir[v] \in {Member, Member \cup {"cache"}}

\* A run begins with nothing copied and nothing linked.
Fresh(i) ==
  /\ pc[i] # "copy" => copied[i] = {}
  /\ pc[i] # "link" => linked[i] = 0
  /\ linked[i] < 4

InstallInv ==
  /\ AloneInv
  /\ \A i \in Installer : /\ Fresh(i)
                          /\ Undisturbed(i) => Prepared(i)
                          /\ alone[i] => Linked(i)

\* Every variable keeps its type.
VerifierTypeOK ==
  /\ stage \in Busy \cup {"idle", "passed", "refused"}
  /\ want \in Version /\ found \subseteq Version
  /\ resolved \in 0 .. Len(Command) /\ compared \subseteq Member
  /\ ran \in {None} \cup SUBSET Entry
  /\ whole \in BOOLEAN /\ crowded \in BOOLEAN /\ replaced \in BOOLEAN
  /\ stage \in {"idle", "links"} => resolved < 4

\* The installers only add to the history of the verifier.
LEMMA HistoryType ==
  ASSUME VerifierTypeOK, UNCHANGED <<stage, want, found, resolved, compared, ran>>,
         whole' \in BOOLEAN, crowded' \in BOOLEAN, replaced' \in BOOLEAN
  PROVE  VerifierTypeOK'
  BY DEF VerifierTypeOK

\* The verifier only reads what is installed.
LEMMA ReadOnly == Authenticate => UNCHANGED <<dir, staging, link, bytecode, install>>
  BY DEF Authenticate, Verify, ReadLink, CompareMember, Scan, RunVersion, ScanAgain, Lists

LEMMA UnlinkedType ==
  ASSUME NEW M, NEW tree \in SUBSET M
  PROVE  Unlinked(tree) \subseteq {None} \cup SUBSET M
  BY DEF Unlinked

LEMMA TypeStep == TypeOK /\ VerifierTypeOK /\ [Next]_vars => TypeOK' /\ VerifierTypeOK'
<1> SUFFICES ASSUME TypeOK, VerifierTypeOK, [Next]_vars PROVE TypeOK' /\ VerifierTypeOK'
  OBVIOUS
<1> DEFINE InstallTypeOK ==
      /\ dir \in [Version -> {None} \cup SUBSET Entry]
      /\ staging \in [Version -> {None} \cup SUBSET Member]
      /\ link \in [Links -> Version \cup {None}]
      /\ bytecode \in BOOLEAN
      /\ version \in [Installer -> Version]
      /\ pc \in [Installer -> Ended \cup {"clear", "create", "copy", "remove", "move", "link", "check"}]
      /\ copied \in [Installer -> SUBSET Member]
      /\ linked \in [Installer -> 0 .. Len(Command)]
      /\ begun \in 0 .. MaxBegins
      /\ alone \in [Installer -> BOOLEAN]
<1> SUFFICES InstallTypeOK' /\ VerifierTypeOK'
  BY DEF TypeOK, VerifierTypeOK
<1>0. InstallTypeOK
  BY DEF TypeOK
<1>1. CASE UNCHANGED vars
  BY <1>0, <1>1 DEF vars, VerifierTypeOK
<1>2. ASSUME NEW i \in Installer, Install(i) \/ Stop(i)
      PROVE  VerifierTypeOK'
  <2>1. CASE Link(i)
    <3>1. /\ whole' \in BOOLEAN /\ crowded' = crowded /\ replaced' = replaced
          /\ UNCHANGED <<stage, want, found, resolved, compared, ran>>
      BY <2>1, Zenon DEF Link
    <3> QED
      BY <3>1 DEF VerifierTypeOK
  <2>2. CASE Begin(i)
    <3>1. /\ crowded' \in BOOLEAN /\ whole' = whole /\ replaced' = replaced
          /\ UNCHANGED <<stage, want, found, resolved, compared, ran>>
      BY <2>2, Zenon DEF Begin
    <3> QED
      BY <3>1 DEF VerifierTypeOK
  <2>3. CASE Remove(i)
    <3>1. replaced' = (replaced \/ (version[i] = want /\ stage \in {"run", "again"}))
          \/ replaced' = replaced
      BY <2>3 DEF Remove
    <3>2. replaced \in BOOLEAN
      BY DEF VerifierTypeOK
    <3>3. replaced' \in BOOLEAN
      BY <3>1, <3>2, Zenon
    <3>4. /\ whole' = whole /\ crowded' = crowded
          /\ UNCHANGED <<stage, want, found, resolved, compared, ran>>
      BY <2>3, Zenon DEF Remove
    <3> QED
      BY <3>3, <3>4 DEF VerifierTypeOK
  <2>4. CASE UNCHANGED verifier
    BY <2>4 DEF VerifierTypeOK, verifier
  <2> QED
    BY <1>2, <2>1, <2>2, <2>3, <2>4
    DEF Install, Clear, Create, Copy, Move, Check, Stop
<1>3. ASSUME NEW i \in Installer, Install(i) \/ Stop(i)
      PROVE  InstallTypeOK'
  <2> USE <1>0, FourLinks DEF Goto, Ended
  <2>1. CASE Begin(i)
    <3>1. alone' \in [Installer -> BOOLEAN]
      BY <2>1 DEF Begin
    <3> QED
      BY <2>1, <3>1, InstallAssumption DEF Begin
  <2>2. CASE Clear(i)
    <3>1. staging' \in [Version -> {None} \cup SUBSET Member]
      BY <2>2, UnlinkedType DEF Clear
    <3> QED
      BY <2>2, <3>1 DEF Clear
  <2>3. CASE Create(i)
    BY <2>3 DEF Create
  <2>4. CASE Copy(i)
    BY <2>4 DEF Copy
  <2>5. CASE Remove(i)
    <3>1. dir' \in [Version -> {None} \cup SUBSET Entry]
      BY <2>5, UnlinkedType DEF Remove
    <3> QED
      BY <2>5, <3>1 DEF Remove
  <2>6. CASE Move(i)
    <3>1. dir' \in [Version -> {None} \cup SUBSET Entry]
      BY <2>6 DEF Move, Entry
    <3> QED
      BY <2>6, <3>1 DEF Move
  <2>7. CASE Link(i)
    <3>1. linked[i] + 1 \in 1 .. 5
      BY <2>7 DEF Link
    <3>2. (linked[i] + 1) % Len(Command) \in 0 .. Len(Command)
      BY <3>1
    <3> QED
      BY <2>7, <3>2 DEF Link
  <2>8. CASE Check(i)
    <3>1. dir' \in [Version -> {None} \cup SUBSET Entry]
      BY <2>8 DEF Check, Entry, Works, Complete
    <3> QED
      BY <2>8, <3>1 DEF Check
  <2>9. CASE Stop(i)
    BY <2>9 DEF Stop
  <2> QED
    BY <1>3, <2>1, <2>2, <2>3, <2>4, <2>5, <2>6, <2>7, <2>8, <2>9 DEF Install
<1>4. CASE Use
  <2>1. dir' \in [Version -> {None} \cup SUBSET Entry]
    BY <1>0, <1>4 DEF Use, Works, Complete, Entry
  <2>2. VerifierTypeOK'
    BY <1>4 DEF Use, VerifierTypeOK, verifier
  <2> QED
    BY <1>0, <1>4, <2>1, <2>2 DEF Use, install
<1>5. CASE Authenticate
  <2>1. UNCHANGED <<dir, staging, link, bytecode, install>>
    BY <1>5, ReadOnly
  <2>2. VerifierTypeOK'
    <3>1. CASE Verify
      <4>1. whole' \in BOOLEAN /\ crowded' \in BOOLEAN /\ replaced' = replaced
        BY <3>1, Zenon DEF Verify
      <4>2. stage' = "links" /\ UNCHANGED <<want, found, resolved, compared, ran>>
        BY <3>1, Zenon DEF Verify
      <4>3. resolved < 4
        BY <3>1 DEF Verify, VerifierTypeOK
      <4> QED
        BY <4>1, <4>2, <4>3 DEF VerifierTypeOK, Busy
    <3>2. CASE Refuse
      <4>1. whole' \in BOOLEAN /\ crowded' \in BOOLEAN /\ replaced' \in BOOLEAN
        BY <3>2, Zenon DEF Refuse
      <4>2. /\ stage' = "refused" /\ found' = {} /\ resolved' = 0 /\ compared' = {}
            /\ ran' = None /\ want' = want
        BY <3>2 DEF Refuse
      <4> QED
        BY <4>1, <4>2, FourLinks DEF VerifierTypeOK
    <3>3. CASE ~Refuse /\ ReadLink
      BY <3>3, FourLinks DEF ReadLink, history, VerifierTypeOK, Busy
    <3>4. CASE ~Refuse /\ (CompareMember \/ Scan \/ ScanAgain)
      BY <3>4 DEF CompareMember, Scan, ScanAgain, Lists, history, VerifierTypeOK, Busy
    <3>5. CASE ~Refuse /\ RunVersion
      BY <1>0, <3>5 DEF RunVersion, history, VerifierTypeOK, Busy
    <3> QED
      BY <1>5, <3>1, <3>2, <3>3, <3>4, <3>5 DEF Authenticate
  <2> QED
    BY <1>0, <2>1, <2>2 DEF install
<1> QED
  BY <1>1, <1>2, <1>3, <1>4, <1>5 DEF Next

TypeInv == TypeOK /\ VerifierTypeOK

LEMMA InitType == Init => TypeInv
<1> SUFFICES ASSUME Init PROVE TypeInv
  OBVIOUS
<1>1. bytecode \in BOOLEAN /\ whole \in BOOLEAN /\ crowded \in BOOLEAN /\ replaced \in BOOLEAN
  BY Zenon DEF Init
<1>2. alone \in [Installer -> BOOLEAN]
  BY DEF Init
<1>3. begun \in 0 .. MaxBegins /\ 0 \in 0 .. Len(Command)
  BY InstallAssumption, FourLinks DEF Init
<1>4. /\ dir \in [Version -> {None} \cup SUBSET Entry]
      /\ staging \in [Version -> {None} \cup SUBSET Member]
      /\ link \in [Links -> Version \cup {None}]
  BY DEF Init, Member, Entry
<1>5. VerifierTypeOK
  BY <1>1, <1>3 DEF Init, VerifierTypeOK, Busy
<1> QED
  BY <1>1, <1>2, <1>3, <1>4, <1>5 DEF Init, TypeInv, TypeOK, Ended

\* Every variable has its type, in every reachable state.
THEOREM TypeCorrect == Spec => []TypeOK
<1>1. TypeInv /\ [Next]_vars => TypeInv'
  BY TypeStep DEF TypeInv
<1> QED
  BY <1>1, InitType, PTL DEF Spec, TypeInv

-----------------------------------------------------------------------------
(* Who touches what *)

\* An installer that steps without beginning was active, and leaves the
\* others where they are.
LEMMA OwnSteps ==
  ASSUME TypeOK, NEW i \in Installer, Install(i) \/ Stop(i), ~Begin(i)
  PROVE  /\ Active(i)
         /\ UNCHANGED <<version, alone, begun>>
         /\ \A j \in Installer \ {i} :
              /\ pc'[j] = pc[j] /\ copied'[j] = copied[j] /\ linked'[j] = linked[j]
<1>1. Active(i) /\ UNCHANGED <<version, alone, begun>>
  BY DEF Install, Clear, Create, Copy, Remove, Move, Link, Check, Stop, Active, Ended
<1>2. ASSUME NEW j \in Installer \ {i}
      PROVE  pc'[j] = pc[j] /\ copied'[j] = copied[j] /\ linked'[j] = linked[j]
  <2>1. CASE Clear(i) \/ Create(i) \/ Copy(i) \/ Remove(i) \/ Move(i)
    BY <2>1 DEF Clear, Create, Copy, Remove, Move, Goto, TypeOK
  <2>2. CASE Link(i) \/ Check(i) \/ Stop(i)
    BY <2>2 DEF Link, Check, Stop, Goto, TypeOK
  <2> QED
    BY <2>1, <2>2 DEF Install
<1> QED
  BY <1>1, <1>2

\* What a step does to the directories of version v: nothing, or bytecode
\* written by a command that works, or the step of an installer of v.
LEMMA Directories ==
  ASSUME TypeOK, NEW i \in Installer, Install(i) \/ Stop(i), NEW v \in Version, version[i] # v
  PROVE  /\ staging'[v] = staging[v]
         /\ \/ dir'[v] = dir[v]
            \/ Complete(v) /\ dir'[v] = dir[v] \cup {"cache"}
<1>1. CASE Check(i)
  <2>1. staging'[v] = staging[v]
    BY <1>1 DEF Check
  <2>2. CASE UNCHANGED dir
    BY <2>1, <2>2
  <2>3. CASE dir' = [u \in Version |-> IF u \in {link[1], link[3]} THEN dir[u] \cup {"cache"} ELSE dir[u]]
    BY <1>1, <2>1, <2>3 DEF Check, Works, Complete
  <2> QED
    BY <1>1, <2>2, <2>3 DEF Check, Works
<1>2. CASE Begin(i) \/ Link(i) \/ Stop(i)
  BY <1>2 DEF Begin, Link, Stop
<1>3. CASE Clear(i) \/ Create(i) \/ Copy(i) \/ Remove(i) \/ Move(i)
  BY <1>3 DEF Clear, Create, Copy, Remove, Move, TypeOK
<1> QED
  BY <1>1, <1>2, <1>3 DEF Install

-----------------------------------------------------------------------------
(* The installers *)

LEMMA InitInstall == Init => InstallInv
  BY FourLinks DEF Init, InstallInv, AloneInv, Fresh, Undisturbed, Prepared, Linked, Active, Ended

\* Only Begin makes somebody alone, and only when nobody runs.
LEMMA AloneStep ==
  ASSUME TypeOK, AloneInv, [Next]_vars
  PROVE  AloneInv'
<1>1. CASE Use \/ Authenticate \/ UNCHANGED vars
  BY <1>1, ReadOnly DEF Use, vars, install, AloneInv, Active
<1>2. ASSUME NEW i \in Installer, Begin(i)
      PROVE  AloneInv'
  BY <1>2 DEF Begin, Goto, AloneInv, Active, TypeOK
<1>3. ASSUME NEW i \in Installer, Install(i) \/ Stop(i), ~Begin(i)
      PROVE  AloneInv'
  BY <1>3, OwnSteps DEF AloneInv, Active
<1> QED
  BY <1>1, <1>2, <1>3 DEF Next, Install

\* What an installer copied or linked it forgets when it is through with it.
LEMMA FreshStep ==
  ASSUME TypeOK, NEW i \in Installer, Install(i) \/ Stop(i), Fresh(i)
  PROVE  Fresh(i)'
<1> USE DEF Fresh, Goto, TypeOK
<1>1. CASE Link(i)
  <2>1. PICK c \in 1 .. 4 : c = linked[i] + 1
    BY FourLinks
  <2>2. CASE c = 4
    BY <1>1, <2>1, <2>2, FourLinks DEF Link
  <2>3. CASE c < 4
    <3>1. c = 1 \/ c = 2 \/ c = 3
      BY <2>3
    <3>2. 1 % 4 = 1 /\ 2 % 4 = 2 /\ 3 % 4 = 3
      OBVIOUS
    <3>3. c % 4 = c
      BY <3>1, <3>2
    <3> QED
      BY <1>1, <2>1, <2>3, <3>3, FourLinks DEF Link
  <2> QED
    BY <2>2, <2>3
<1>2. CASE Copy(i)
  BY <1>2 DEF Copy
<1>3. CASE Begin(i) \/ Clear(i) \/ Create(i)
  BY <1>3 DEF Begin, Clear, Create, Ended
<1>4. CASE Remove(i) \/ Move(i) \/ Check(i) \/ Stop(i)
  BY <1>4 DEF Remove, Move, Check, Stop
<1> QED
  BY <1>1, <1>2, <1>3, <1>4 DEF Install

\* The steps of the installation, one after the other.
LEMMA PreparedStep ==
  ASSUME TypeOK, NEW i \in Installer, Install(i) \/ Stop(i), Fresh(i), Prepared(i)
  PROVE  Prepared(i)'
<1> USE DEF Prepared, Goto, TypeOK
<1>1. CASE Begin(i) \/ Stop(i)
  BY <1>1 DEF Begin, Stop
<1>2. CASE Clear(i)
  BY <1>2 DEF Clear
<1>3. CASE Create(i)
  BY <1>3 DEF Create, Fresh
<1>4. CASE Copy(i)
  <2> DEFINE v == version[i]
  <2>1. staging[v] = copied[i] /\ copied[i] # None
    BY <1>4, InstallAssumption DEF Copy, Member, Entry
  <2>2. CASE \E m \in Member \ copied[i] :
               /\ staging' = [staging EXCEPT ![v] = staging[v] \cup {m}]
               /\ copied' = [copied EXCEPT ![i] = @ \cup {m}]
               /\ UNCHANGED <<pc, version>>
    BY <1>4, <2>1, <2>2 DEF Copy
  <2>3. CASE copied[i] = Member /\ pc' = [pc EXCEPT ![i] = "remove"] /\ UNCHANGED <<staging, version>>
    BY <1>4, <2>1, <2>3 DEF Copy
  <2> QED
    BY <1>4, <2>1, <2>2, <2>3 DEF Copy
<1>5. CASE Remove(i)
  BY <1>5 DEF Remove
<1>6. CASE Move(i)
  BY <1>6 DEF Move
<1>7. CASE Link(i)
  BY <1>7 DEF Link
<1>8. CASE Check(i)
  BY <1>8 DEF Check
<1> QED
  BY <1>1, <1>2, <1>3, <1>4, <1>5, <1>6, <1>7, <1>8 DEF Install

\* Alone, it replaces all four links, and nobody takes them back.
LEMMA LinkedStep ==
  ASSUME TypeOK, NEW i \in Installer, Install(i) \/ Stop(i), Fresh(i), Prepared(i), Linked(i)
  PROVE  Linked(i)'
<1> USE DEF Linked, Goto, TypeOK
<1>1. CASE Begin(i) \/ Stop(i)
  BY <1>1 DEF Begin, Stop
<1>2. CASE Clear(i) \/ Create(i) \/ Copy(i) \/ Remove(i)
  BY <1>2 DEF Clear, Create, Copy, Remove
<1>3. CASE Move(i)
  <2>1. linked'[i] = 0 /\ pc'[i] \in {"link", "stopped"}
    BY <1>3 DEF Move, Fresh
  <2> QED
    BY <2>1
<1>4. CASE Link(i)
  <2>1. PICK c \in 1 .. 4 : c = linked[i] + 1
    BY FourLinks DEF Fresh
  <2>2. \A d \in 1 .. c : link'[d] = version'[i]
    BY <1>4, <2>1, FourLinks DEF Link
  <2>3. CASE c = 4
    BY <1>4, <2>1, <2>2, <2>3, FourLinks DEF Link
  <2>4. CASE c < 4
    <3>1. c = 1 \/ c = 2 \/ c = 3
      BY <2>4
    <3>2. 1 % 4 = 1 /\ 2 % 4 = 2 /\ 3 % 4 = 3
      OBVIOUS
    <3>3. c % 4 = c
      BY <3>1, <3>2
    <3>4. linked'[i] = c /\ pc'[i] = "link"
      BY <1>4, <2>1, <2>4, <3>3, FourLinks DEF Link
    <3> QED
      BY <2>2, <3>4
  <2> QED
    BY <2>3, <2>4
<1>5. CASE Check(i)
  <2>1. UNCHANGED <<link, version>> /\ pc'[i] \in {"done", "stopped"}
    BY <1>5 DEF Check
  <2>2. version[i] \in Version /\ dir[version[i]] \in {Member, Member \cup {"cache"}}
    BY <1>5 DEF Check, Prepared
  <2>3. dir'[version[i]] \in {dir[version[i]], dir[version[i]] \cup {"cache"}}
    BY <1>5, <2>2 DEF Check
  <2> QED
    BY <1>5, <2>1, <2>2, <2>3 DEF Check
<1> QED
  BY <1>1, <1>2, <1>3, <1>4, <1>5 DEF Install

\* Bytecode does not spoil what is installed.
LEMMA OthersKeep ==
  ASSUME NEW i \in Installer, Prepared(i), UNCHANGED version,
         pc'[i] = pc[i], copied'[i] = copied[i], linked'[i] = linked[i],
         staging'[version[i]] = staging[version[i]],
         \/ dir'[version[i]] = dir[version[i]]
         \/ Complete(version[i]) /\ dir'[version[i]] = dir[version[i]] \cup {"cache"}
  PROVE  /\ Prepared(i)'
         /\ UNCHANGED link /\ Linked(i) => Linked(i)'
<1>1. Prepared(i)'
  BY DEF Prepared, Complete
<1>2. ASSUME UNCHANGED link, Linked(i) PROVE Linked(i)'
  BY <1>2 DEF Linked, Complete
<1> QED
  BY <1>1, <1>2

LEMMA InstallStep == TypeOK /\ InstallInv /\ [Next]_vars => InstallInv'
<1> SUFFICES ASSUME TypeOK, InstallInv, [Next]_vars PROVE InstallInv'
  OBVIOUS
<1> DEFINE Own(k) == Fresh(k) /\ (Undisturbed(k) => Prepared(k)) /\ (alone[k] => Linked(k))
<1>0. AloneInv /\ \A k \in Installer : Own(k)
  BY DEF InstallInv
<1>1. CASE Authenticate \/ UNCHANGED vars
  <2>1. UNCHANGED <<dir, staging, link, install>>
    BY <1>1, ReadOnly DEF vars, install
  <2> QED
    BY <1>0, <2>1 DEF install, InstallInv, AloneInv, Active, Fresh, Undisturbed, Prepared, Linked
<1>2. CASE Use
  <2>1. \A v \in Version :
          \/ dir'[v] = dir[v]
          \/ Complete(v) /\ dir'[v] = dir[v] \cup {"cache"}
    <3>1. PICK c \in Links : Works(c) /\ dir' = [dir EXCEPT ![link[c]] = @ \cup {"cache"}]
      BY <1>2 DEF Use
    <3>2. link[c] \in Version /\ Complete(link[c])
      BY <3>1 DEF Works, Complete, TypeOK
    <3>3. ASSUME NEW v \in Version
          PROVE  \/ dir'[v] = dir[v]
                 \/ Complete(v) /\ dir'[v] = dir[v] \cup {"cache"}
      <4>1. CASE v = link[c]
        <5>1. Complete(v)
          BY <3>2, <4>1
        <5>2. dir'[v] = dir[v] \cup {"cache"}
          BY <3>1, <4>1 DEF TypeOK
        <5> QED
          BY <5>1, <5>2
      <4>2. CASE v # link[c]
        BY <3>1, <4>2 DEF TypeOK
      <4> QED
        BY <4>1, <4>2
    <3> QED
      BY <3>3
  <2>2. UNCHANGED <<staging, link, version, pc, copied, linked, alone>>
    BY <1>2 DEF Use, install
  <2>3. ASSUME NEW k \in Installer PROVE Own(k)'
    <3>1. Fresh(k)' /\ (Undisturbed(k)' => Undisturbed(k)) /\ version[k] \in Version
      BY <1>0, <2>2 DEF Fresh, Undisturbed, TypeOK
    <3>2. alone'[k] => alone[k] /\ Undisturbed(k)
      BY <2>2 DEF Undisturbed
    <3> QED
      BY <1>0, <2>1, <2>2, <3>1, <3>2, OthersKeep
  <2> QED
    BY <1>0, <2>2, <2>3 DEF InstallInv, AloneInv, Active
<1>3. ASSUME NEW i \in Installer, Begin(i), NEW k \in Installer
      PROVE  Own(k)'
  <2>1. /\ UNCHANGED <<dir, staging, link, version, copied, linked>>
        /\ pc' = [pc EXCEPT ![i] = "clear"]
        /\ k # i => ~alone'[k]
    BY <1>3 DEF Begin, Goto, TypeOK
  <2>2. CASE k = i
    BY <1>0, <1>3, <2>1, <2>2 DEF Begin, Ended, Fresh, Prepared, Linked, TypeOK
  <2>3. CASE k # i
    BY <1>0, <2>1, <2>3 DEF Fresh, Undisturbed, Prepared, TypeOK
  <2> QED
    BY <2>2, <2>3
<1>4. ASSUME NEW i \in Installer, Install(i) \/ Stop(i), ~Begin(i), NEW k \in Installer
      PROVE  Own(k)'
  <2>1. Active(i) /\ UNCHANGED <<version, alone>> /\ (Undisturbed(k)' => Undisturbed(k))
    BY <1>4, OwnSteps DEF Undisturbed
  <2>2. CASE k = i
    <3>1. alone[k] => Undisturbed(k)
      BY DEF Undisturbed
    <3> QED
      BY <1>0, <1>4, <2>1, <2>2, <3>1, FreshStep, PreparedStep, LinkedStep
  <2>3. CASE k # i
    <3>1. ~alone[k]
      BY <1>0, <2>1, <2>3 DEF AloneInv
    <3>2. pc'[k] = pc[k] /\ copied'[k] = copied[k] /\ linked'[k] = linked[k]
      BY <1>4, <2>3, OwnSteps
    <3>3. Undisturbed(k)' => version[i] # version[k] /\ version[k] \in Version
      BY <2>1, <2>3, <3>1 DEF Undisturbed, TypeOK
    <3>4. Fresh(k)'
      BY <1>0, <3>2 DEF Fresh
    <3>5. Undisturbed(k)' => Prepared(k)'
      BY <1>0, <1>4, <2>1, <3>2, <3>3, Directories, OthersKeep
    <3> QED
      BY <2>1, <3>1, <3>4, <3>5
  <2> QED
    BY <2>2, <2>3
<1> QED
  BY <1>0, <1>1, <1>2, <1>3, <1>4, AloneStep DEF InstallInv, Next, Install

LEMMA Installers == Spec => [](TypeInv /\ InstallInv)
<1>1. TypeInv /\ InstallInv /\ [Next]_vars => (TypeInv /\ InstallInv)'
  BY TypeStep, InstallStep DEF TypeInv
<1> QED
  BY <1>1, InitType, InitInstall, PTL DEF Spec

\* An installer that ran alone and reports success leaves its whole release,
\* whatever those before it left half done.
THEOREM CompleteInstallation == Spec => []InstalledIsComplete
<1>1. InstallInv => InstalledIsComplete
  <2>1. \A s \in {Member, Member \cup {"cache"}} : s \ {"cache"} = Member
    BY DEF Member
  <2> QED
    BY <2>1 DEF InstallInv, Linked, InstalledIsComplete
<1> QED
  BY <1>1, Installers, PTL

\* A working command keeps working, unless its own version is being installed
\* or two installers of one version overlapped.
THEOREM CommandsKeepWorking == Spec => UpgradeKeepsCommands
<1> DEFINE Kept(c) == \/ Works(c)'
                      \/ \E i \in Installer : Active(i) /\ version[i] = link[c]
                      \/ \E i, j \in Installer : i # j /\ ~alone[i] /\ ~alone[j]
                                                 /\ version[i] = version[j]
<1>1. ASSUME TypeInv /\ InstallInv, [Next]_vars, NEW c \in Links, Works(c) PROVE Kept(c)
  <2> DEFINE v == link[c]
  <2>1. v \in Version /\ Complete(v) /\ TypeOK /\ InstallInv
    BY <1>1 DEF TypeInv, TypeOK, Works, Complete
  <2>2. ASSUME dir'[v] = dir[v] \/ dir'[v] = dir[v] \cup {"cache"}, link'[c] = v
        PROVE  Works(c)'
    <3>1. dir'[v] # None
      BY <1>1, <2>1, <2>2, InstallAssumption DEF TypeInv, TypeOK, Complete, Entry, Member
    <3> QED
      BY <2>1, <2>2, <3>1 DEF Works, Complete
  <2>3. CASE Authenticate \/ UNCHANGED vars
    BY <2>2, <2>3, ReadOnly DEF vars
  <2>4. CASE Use
    <3>1. UNCHANGED link /\ (dir'[v] = dir[v] \/ dir'[v] = dir[v] \cup {"cache"})
      BY <2>1, <2>4 DEF Use, TypeOK
    <3> QED
      BY <2>2, <3>1
  <2>5. ASSUME NEW i \in Installer, Begin(i) PROVE Works(c)'
    BY <2>2, <2>5 DEF Begin
  <2>6. ASSUME NEW i \in Installer, Install(i) \/ Stop(i), ~Begin(i) PROVE Kept(c)
    <3>1. Active(i)
      BY <2>1, <2>6, OwnSteps
    <3>2. CASE version[i] = v
      BY <3>1, <3>2
    <3>3. CASE version[i] # v /\ ~Link(i)
      <4>1. link'[c] = link[c]
        BY <2>6, <3>3 DEF Install, Clear, Create, Copy, Remove, Move, Check, Stop
      <4> QED
        BY <2>1, <2>2, <2>6, <3>3, <4>1, Directories
    <3>4. CASE Link(i) /\ Undisturbed(i)
      <4>1. Complete(version[i])
        <5>1. version[i] # None /\ None \notin {Member, Member \cup {"cache"}}
          BY <2>1, InstallAssumption DEF TypeOK, Member, Entry
        <5>2. dir[version[i]] \in {Member, Member \cup {"cache"}}
          BY <2>1, <3>4 DEF InstallInv, Prepared, Link
        <5> QED
          BY <5>1, <5>2 DEF Complete
      <4>2. UNCHANGED dir /\ (link'[c] = v \/ link'[c] = version[i])
        BY <2>1, <3>4 DEF Link, TypeOK
      <4> QED
        BY <2>1, <4>1, <4>2 DEF Works, Complete
    <3>5. CASE ~Undisturbed(i)
      <4>1. PICK j \in Installer \ {i} : version[j] = version[i]
        BY <3>5 DEF Undisturbed
      <4>2. ~alone[i] /\ ~alone[j]
        BY <2>1, <3>1, <3>5, <4>1 DEF Undisturbed, InstallInv, AloneInv
      <4> QED
        BY <4>1, <4>2
    <3> QED
      BY <3>2, <3>3, <3>4, <3>5
  <2> QED
    BY <1>1, <2>3, <2>4, <2>5, <2>6 DEF Next, Install
<1>2. TypeInv /\ InstallInv /\ [Next]_vars => [\A c \in Links : Works(c) => Kept(c)]_vars
  BY <1>1
<1> QED
  BY <1>2, Installers, PTL DEF Spec, UpgradeKeepsCommands

-----------------------------------------------------------------------------
(* The verifier *)

\* At most one installer runs while it reads the links, or it is known.
Single ==
  stage = "links" /\ ~crowded =>
    \A i, j \in Installer : Active(i) /\ Active(j) => i = j

\* So far every link named the wanted version when it was read.
Matching == stage = "links" /\ found \subseteq {want}

\* Then either all of them did at one moment, or one that is still to be read
\* does not; and an installer that ran already before has spoiled none.
LinksInv ==
  Matching /\ ~crowded =>
    /\ whole \/ \E c \in Links : c > resolved /\ link[c] # want
    /\ \A i \in Installer : Active(i) /\ ~alone[i] /\ version[i] = want =>
          \A c \in Links : c <= resolved => link[c] = want

\* The files were there when the command ran, and only more came since, unless
\* some were unlinked.
FilesInv ==
  /\ stage = "idle" => resolved = 0
  /\ stage \in {"members", "scan", "run", "again", "passed"} => whole \/ crowded
  /\ stage = "again" => /\ ran # None /\ Member \subseteq ran
                        /\ ~replaced => dir[want] # None /\ ran \subseteq dir[want]
  /\ stage = "passed" => ran = Member \/ replaced

VerifierInv == Single /\ LinksInv /\ FilesInv

LEMMA InitVerifier == Init => VerifierInv
  BY DEF Init, VerifierInv, Single, Matching, LinksInv, FilesInv

\* An installer leaves the verifier alone; what its step adds to the history
\* stays there.
LEMMA Watched ==
  ASSUME NEW i \in Installer, Install(i) \/ Stop(i)
  PROVE  /\ UNCHANGED <<stage, want, found, resolved, ran>>
         /\ (whole => whole') /\ (crowded => crowded') /\ (replaced => replaced')
<1>1. CASE Link(i)
  BY <1>1 DEF Link
<1>2. CASE Begin(i)
  BY <1>2 DEF Begin
<1>3. CASE Remove(i)
  <2>1. UNCHANGED <<stage, want, found, resolved, ran, whole, crowded>>
    BY <1>3 DEF Remove
  <2>2. replaced => replaced'
    BY <1>3, Zenon DEF Remove
  <2> QED
    BY <2>1, <2>2
<1>4. CASE UNCHANGED verifier
  BY <1>4 DEF verifier
<1> QED
  BY <1>1, <1>2, <1>3, <1>4 DEF Install, Clear, Create, Copy, Move, Check, Stop

LEMMA SingleStep == TypeInv /\ Single /\ [Next]_vars => Single'
<1> SUFFICES ASSUME TypeInv, Single, [Next]_vars, stage' = "links", ~crowded' PROVE Single'
  BY DEF Single
<1> USE DEF Single, Active
<1>1. CASE Verify
  BY <1>1 DEF Verify, install
<1>2. CASE ReadLink
  BY <1>2 DEF ReadLink, Refuse, history, install
<1>3. CASE CompareMember \/ Scan \/ RunVersion \/ ScanAgain
  BY <1>3 DEF CompareMember, Scan, RunVersion, ScanAgain, Lists, Refuse
<1>4. CASE Use \/ UNCHANGED vars
  BY <1>4 DEF Use, vars, install, verifier
<1>5. ASSUME NEW i \in Installer, Begin(i) PROVE Single'
  <2>1. stage = "links" /\ alone'[i]
    BY <1>5 DEF Begin
  <2>2. \A k \in Installer : ~Active(k)
    BY <1>5, <2>1 DEF Begin
  <2> QED
    BY <1>5, <2>2 DEF Begin, Goto, TypeInv, TypeOK
<1>6. ASSUME NEW i \in Installer, Install(i) \/ Stop(i), ~Begin(i) PROVE Single'
  <2>1. Active(i) /\ \A j \in Installer \ {i} : pc'[j] = pc[j]
    BY <1>6, OwnSteps DEF TypeInv
  <2>2. stage = "links" /\ ~crowded
    BY <1>6, Watched
  <2> QED
    BY <2>1, <2>2
<1> QED
  BY <1>1, <1>2, <1>3, <1>4, <1>5, <1>6 DEF Next, Install, Authenticate

\* The release only grows while nothing of it is unlinked.
LEMMA Grows ==
  ASSUME TypeOK, stage = "again", dir[want] # None, ~replaced',
         Use \/ \E i \in Installer : Install(i) \/ Stop(i)
  PROVE  dir'[want] # None /\ dir[want] \subseteq dir'[want]
<1> DEFINE Same == dir'[want] = dir[want] \/ dir'[want] = dir[want] \cup {"cache"}
<1>0. want \in Version /\ dir[want] \in SUBSET Entry /\ \A s \in SUBSET Entry : s # None
  BY InstallAssumption DEF TypeOK
<1>1. ASSUME Same PROVE dir'[want] # None /\ dir[want] \subseteq dir'[want]
  BY <1>0, <1>1 DEF Entry, Member
<1>2. CASE Use
  <2>1. Same
    BY <1>0, <1>2 DEF Use, TypeOK
  <2> QED
    BY <1>1, <2>1
<1>3. ASSUME NEW i \in Installer, Install(i) \/ Stop(i)
      PROVE  dir'[want] # None /\ dir[want] \subseteq dir'[want]
  <2>1. CASE version[i] # want
    <3>1. Same
      BY <1>0, <1>3, <2>1, Directories
    <3> QED
      BY <1>1, <3>1
  <2>2. CASE Remove(i) /\ version[i] = want
    BY <1>0, <2>2 DEF Remove
  <2>3. CASE Move(i) /\ version[i] = want
    <3>1. dir'[want] = dir[want] \/ dir'[want] = dir[want] \cup {"nested"}
      BY <1>0, <2>3 DEF Move, TypeOK
    <3> QED
      BY <1>0, <3>1 DEF Entry, Member
  <2>4. CASE Check(i)
    <3>1. Same
      BY <1>0, <2>4 DEF Check, TypeOK
    <3> QED
      BY <1>1, <3>1
  <2>5. CASE Begin(i) \/ Clear(i) \/ Create(i) \/ Copy(i) \/ Link(i) \/ Stop(i)
    <3>1. Same
      BY <2>5 DEF Begin, Clear, Create, Copy, Link, Stop
    <3> QED
      BY <1>1, <3>1
  <2> QED
    BY <1>3, <2>1, <2>2, <2>3, <2>4, <2>5 DEF Install
<1> QED
  BY <1>2, <1>3

LEMMA FilesStep == TypeInv /\ VerifierInv /\ [Next]_vars => FilesInv'
<1> SUFFICES ASSUME TypeInv, VerifierInv, [Next]_vars PROVE FilesInv'
  OBVIOUS
<1>0. FilesInv /\ LinksInv /\ TypeOK /\ VerifierTypeOK
  BY DEF VerifierInv, TypeInv
<1>1. CASE UNCHANGED vars
  BY <1>0, <1>1 DEF vars, FilesInv
<1>2. CASE Use
  <2>1. UNCHANGED verifier
    BY <1>2 DEF Use
  <2> QED
    BY <1>0, <1>2, <2>1, Grows DEF verifier, FilesInv
<1>3. ASSUME NEW i \in Installer, Install(i) \/ Stop(i) PROVE FilesInv'
  <2>1. /\ UNCHANGED <<stage, want, found, resolved, ran>>
        /\ (whole => whole') /\ (crowded => crowded') /\ (replaced => replaced')
    BY <1>3, Watched
  <2> QED
    BY <1>0, <1>3, <2>1, Grows DEF FilesInv
<1>4. CASE Verify
  BY <1>4 DEF Verify, FilesInv
<1>5. CASE Refuse
  BY <1>5 DEF Refuse, FilesInv
<1>6. CASE ~Refuse /\ ReadLink
  <2>1. CASE stage' = "members"
    <3>1. /\ resolved + 1 = 4 /\ stage = "links" /\ UNCHANGED <<want, whole, crowded>>
          /\ found \cup ({link[4]} \cap Version) = {want}
          /\ link[4] # None
      BY <1>0, <1>6, <2>1, FourLinks DEF ReadLink, history, VerifierTypeOK
    <3>2. link[4] = want /\ Matching /\ resolved = 3
      BY <1>0, <3>1, FourLinks DEF TypeOK, VerifierTypeOK, Matching
    <3>3. whole \/ crowded
      BY <1>0, <3>2, FourLinks DEF LinksInv
    <3> QED
      BY <2>1, <3>1, <3>3 DEF FilesInv
  <2>2. CASE stage' = "links"
    BY <2>2 DEF FilesInv
  <2> QED
    BY <1>6, <2>1, <2>2 DEF ReadLink
<1>7. CASE ~Refuse /\ (CompareMember \/ Scan)
  <2>1. stage' \in {"members", "scan", "run"} /\ stage \in {"members", "scan"}
        /\ UNCHANGED <<whole, crowded>>
    BY <1>7 DEF CompareMember, Scan, Lists, history
  <2> QED
    BY <1>0, <2>1 DEF FilesInv
<1>8. CASE ~Refuse /\ RunVersion
  BY <1>0, <1>8 DEF RunVersion, history, install, Complete, FilesInv
<1>9. CASE ~Refuse /\ ScanAgain
  BY <1>0, <1>9 DEF ScanAgain, Lists, history, FilesInv
<1> QED
  BY <1>1, <1>2, <1>3, <1>4, <1>5, <1>6, <1>7, <1>8, <1>9 DEF Next, Authenticate

\* An installer that replaces the last other link finds that those already
\* read name its version too.
LEMMA LinkWatched ==
  ASSUME TypeInv, InstallInv, VerifierInv, NEW i \in Installer, Link(i),
         Matching, ~crowded
  PROVE  LinksInv'
<1>1. PICK c \in Links : c = linked[i] + 1 /\ pc[i] = "link"
  BY FourLinks DEF Link, InstallInv, Fresh, TypeInv, TypeOK
<1>2. /\ link' = [link EXCEPT ![c] = version[i]]
      /\ UNCHANGED <<stage, want, found, resolved, crowded, version, alone>>
      /\ whole' = (whole \/ (stage = "links" /\ \A d \in Links : link'[d] = want))
  BY <1>1 DEF Link
<1>3. resolved \in 0 .. 4 /\ Links = 1 .. 4 /\ link \in [Links -> Version \cup {None}]
      /\ stage = "links" /\ Active(i)
  BY <1>1, FourLinks DEF TypeInv, TypeOK, Matching, Active, Ended
<1>4. ASSUME NEW j \in Installer, Active(j)' PROVE j = i
  <2>1. CASE j # i
    <3>1. pc'[j] = pc[j]
      BY <2>1, OwnSteps DEF TypeInv, Install, Link, Begin, Ended
    <3>2. Active(j)
      BY <1>4, <3>1 DEF Active
    <3> QED
      BY <1>3, <2>1, <3>2 DEF VerifierInv, Single
  <2> QED
    BY <2>1
<1>5. \/ whole \/ \E d \in Links : d > resolved /\ link[d] # want
  BY DEF VerifierInv, LinksInv
<1>6. CASE version[i] # want
  <2>1. whole' \/ \E d \in Links : d > resolved' /\ link'[d] # want'
    BY <1>2, <1>3, <1>5, <1>6
  <2> QED
    BY <1>2, <1>4, <1>6, <2>1 DEF LinksInv
<1>7. CASE version[i] = want
  <2>1. ~alone[i] => \A d \in Links : d <= resolved => link[d] = want
    BY <1>3, <1>7 DEF VerifierInv, LinksInv
  <2>2. ~alone'[i] => \A d \in Links : d <= resolved' => link'[d] = want'
    BY <1>2, <1>3, <1>7, <2>1
  <2>3. alone[i] => \A d \in Links : d < c => link[d] = want
    <3>1. linked[i] \in 0 .. 4
      BY FourLinks DEF TypeInv, TypeOK
    <3>2. alone[i] => \A d \in 1 .. linked[i] : link[d] = want
      BY <1>1, <1>7 DEF InstallInv, Linked
    <3> QED
      BY <1>1, <1>3, <3>1, <3>2
  <2>4. ASSUME ~ \E d \in Links : d > resolved' /\ link'[d] # want', ~whole PROVE whole'
    <3>1. PICK d \in Links : d > resolved /\ link[d] # want
      BY <1>5, <2>4
    <3>2. d = c
      BY <1>2, <1>3, <2>4, <3>1
    <3>3. \A e \in Links : link'[e] = want
      BY <1>2, <1>3, <1>7, <2>1, <2>3, <2>4, <3>1, <3>2
    <3> QED
      BY <1>2, <1>3, <3>3
  <2>5. whole' \/ \E d \in Links : d > resolved' /\ link'[d] # want'
    BY <1>2, <2>4
  <2> QED
    BY <1>4, <2>2, <2>5 DEF LinksInv
<1> QED
  BY <1>6, <1>7

LEMMA LinksStep == TypeInv /\ InstallInv /\ VerifierInv /\ [Next]_vars => LinksInv'
<1> SUFFICES ASSUME TypeInv, InstallInv, VerifierInv, [Next]_vars, Matching', ~crowded'
             PROVE  LinksInv'
  BY DEF LinksInv
<1>0. LinksInv /\ FilesInv /\ TypeOK /\ VerifierTypeOK
  BY DEF VerifierInv, TypeInv
<1>1. CASE UNCHANGED <<link, stage, want, found, resolved, whole, crowded, pc, version, alone>>
  BY <1>0, <1>1 DEF LinksInv, Matching, Active
<1>2. ASSUME NEW i \in Installer, Install(i) \/ Stop(i), ~Link(i) PROVE LinksInv'
  <2>1. UNCHANGED link
    BY <1>2 DEF Install, Begin, Clear, Create, Copy, Remove, Move, Check, Stop
  <2>2. Matching /\ ~crowded /\ UNCHANGED <<stage, want, found, resolved>> /\ (whole => whole')
    BY <1>2, Watched DEF Matching
  <2>3. CASE ~Begin(i)
    <3>1. UNCHANGED <<version, alone>> /\ \A j \in Installer : Active(j)' => Active(j)
      BY <1>0, <1>2, <2>3, OwnSteps DEF Active
    <3> QED
      BY <1>0, <2>1, <2>2, <3>1 DEF LinksInv
  <2>4. CASE Begin(i)
    <3>1. alone'[i]
      BY <2>2, <2>4 DEF Begin, Matching
    <3>2. \A j \in Installer : Active(j)' => j = i
      BY <1>0, <2>4, <3>1 DEF Begin, Active, Goto, TypeOK
    <3> QED
      BY <1>0, <2>1, <2>2, <3>1, <3>2 DEF LinksInv
  <2> QED
    BY <2>3, <2>4
<1>3. ASSUME NEW i \in Installer, Link(i) PROVE LinksInv'
  <2>1. Matching /\ ~crowded
    BY <1>3 DEF Link, Matching
  <2> QED
    BY <1>3, <2>1, LinkWatched
<1>4. CASE Verify
  <2>1. UNCHANGED <<link, want, resolved>> /\ resolved = 0
        /\ whole' = (\A c \in Links : link[c] = want)
    BY <1>0, <1>4 DEF Verify, FilesInv
  <2>2. \A c \in Links : c > 0 /\ ~(c <= 0)
    BY FourLinks
  <2> QED
    BY <2>1, <2>2 DEF LinksInv
<1>5. CASE ReadLink
  <2>1. PICK c \in Links : c = resolved + 1
    BY <1>0, <1>5, FourLinks DEF ReadLink, VerifierTypeOK
  <2>2. /\ resolved' = c /\ link[c] # None
        /\ found' = found \cup ({link[c]} \cap Version)
        /\ stage = "links"
        /\ UNCHANGED <<link, want, whole, crowded, pc, version, alone>>
    BY <1>5, <2>1 DEF ReadLink, Refuse, history, Matching, install
  <2>3. Matching /\ link[c] = want
    BY <1>0, <2>2 DEF Matching, TypeOK
  <2>4. resolved \in 0 .. 4 /\ Links = 1 .. 4
    BY <1>0, FourLinks DEF TypeOK
  <2>5. whole' \/ \E d \in Links : d > resolved' /\ link'[d] # want'
    BY <1>0, <2>1, <2>2, <2>3, <2>4 DEF LinksInv
  <2>6. ASSUME NEW i \in Installer, Active(i)', ~alone'[i], version'[i] = want'
        PROVE  \A d \in Links : d <= resolved' => link'[d] = want'
    <3>1. \A d \in Links : d <= resolved => link[d] = want
      BY <1>0, <2>2, <2>3, <2>6 DEF LinksInv, Active
    <3> QED
      BY <2>1, <2>2, <2>3, <2>4, <3>1
  <2> QED
    BY <2>5, <2>6 DEF LinksInv
<1>6. CASE Use
  BY <1>1, <1>6 DEF Use, install, verifier
<1>7. CASE CompareMember \/ Scan \/ RunVersion \/ ScanAgain
  BY <1>7 DEF CompareMember, Scan, RunVersion, ScanAgain, Lists, Refuse, Matching
<1> QED
  BY <1>1, <1>2, <1>3, <1>4, <1>5, <1>6, <1>7 DEF Next, Authenticate, vars

\* When the verifier passes, its four links named the signed release at one
\* moment, unless two installers ran at once while it read them; and the command
\* ran from the signed files alone, unless one was unlinked after their first
\* listing.
THEOREM VerifiedInstallation == Spec => []VerifiedWasInstalled
<1>1. TypeInv /\ InstallInv /\ VerifierInv /\ [Next]_vars => VerifierInv'
  BY SingleStep, LinksStep, FilesStep DEF VerifierInv
<1>2. VerifierInv => VerifiedWasInstalled
  BY DEF VerifierInv, FilesInv, VerifiedWasInstalled
<1> QED
  BY <1>1, <1>2, InitVerifier, Installers, PTL DEF Spec
=============================================================================
