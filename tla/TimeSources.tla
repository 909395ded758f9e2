----------------------------- MODULE TimeSources -----------------------------
(***************************************************************************)
(* bin/roko-stratum1-select (lib/stratum1_select): measures NTP servers    *)
(* from this host, one thread per server, chooses the nearest healthy ones *)
(* of different operators and, with --install, puts a sources file in      *)
(* Chrony's directory, keeps the previous one as .bak, and has chronyd     *)
(* read it.  A run may fail or be killed at any step and be followed by    *)
(* another; chronyd may restart, and reads the file, at any moment.        *)
(*                                                                         *)
(* Servers and chronyd are external.  Replies that are lost, short, of     *)
(* another origin or with a leap alarm make no difference between them;    *)
(* usable ones are counted as far as it matters, and are of stratum 1 or   *)
(* of another, whose delay does not matter.  A delay is its place among    *)
(* the delays, 0 one that is rounded to zero; a sources file names the     *)
(* moment it was made, and stands for its run.                             *)
(***************************************************************************)
EXTENDS Naturals, Sequences, FiniteSets, Functions

CONSTANTS
  Candidate,  \* the candidates in their order: those of the catalog, then --candidate
  Operator,   \* who runs each of them
  Samples,    \* --samples, 2 to 8
  Count,      \* --count, 1 to 4
  MaxDelay,   \* the longest delay
  MaxRuns,    \* bound of the runs
  None,       \* no such file, no reply
  Torn        \* a file half written

Server == Range(Candidate)
MinGoodSamples == 2
Delay == 0 .. MaxDelay

TimeAssumption ==
  /\ Candidate \in Seq(Server) /\ Operator \in [Server -> Range(Operator)]
  /\ Samples \in Nat /\ Count \in Nat \ {0} /\ MaxDelay \in Nat /\ MaxRuns \in Nat

VARIABLES
  stage,     \* of the run
  runs,      \* runs so far, and the number of this one
  measured,  \* the queries each server had or will not have, and its answers
  chosen,    \* the servers chosen, in order
  left,      \* the eligible servers a pass of the choice has still to come to
  sources,   \* the sources file
  bak,       \* and the copy of the previous one
  prior,     \* the sources file as the installation found it
  loaded,    \* the sources file chronyd uses
  outcome    \* how the run ended

vars == <<stage, runs, measured, chosen, left, sources, bak, prior, loaded, outcome>>

Text == 0 .. MaxRuns  \* of the sources file: 0 was there before
Decided == {"installable", "backup", "copy", "replace", "reload"}
Stage   == {"idle", "measure", "diverse", "fill"} \cup Decided
Unmeasured == [sent |-> 0, good |-> 0, strata |-> {}, nearest |-> None, kissed |-> FALSE]

Measured == [sent : 0 .. Samples, good : 0 .. MinGoodSamples, strata : SUBSET {1, 2},
             nearest : {None} \cup Delay, kissed : BOOLEAN]

TypeOK ==
  /\ stage \in Stage
  /\ runs \in 0 .. MaxRuns
  /\ measured \in [Server -> Measured]
  /\ chosen \in Seq(Server) /\ Len(chosen) <= Count
  /\ left \subseteq Server
  /\ {sources, prior, loaded} \subseteq {None} \cup Text
  /\ bak \in {None, Torn} \cup Text
  /\ outcome \in {"none", "no_server", "preview", "blocked", "failed", "installed"}

\* A host with sources from an earlier selection, or without.
Init ==
  /\ stage = "idle" /\ runs = 0
  /\ measured = [s \in Server |-> Unmeasured] /\ chosen = <<>> /\ left = {}
  /\ sources \in {None, 0} /\ bak = None /\ prior = sources /\ loaded = sources
  /\ outcome = "none"

-----------------------------------------------------------------------------
Disk == <<sources, bak, prior, loaded>>

\* What summarize says of a server.
Eligible(s) ==
  LET m == measured[s] IN
  /\ m.good >= MinGoodSamples
  /\ m.strata = {1}
  /\ ~m.kissed

\* r.get("minDelayMs") or float("inf"): a delay of zero comes last; servers of
\* one delay stay in the order of the candidates.
Key(s)       == IF measured[s].nearest = 0 THEN MaxDelay + 1 ELSE measured[s].nearest
Position(s)  == CHOOSE n \in DOMAIN Candidate : Candidate[n] = s
Before(s, t) == Key(s) < Key(t) \/ (Key(s) = Key(t) /\ Position(s) < Position(t))

OperatorsOf(servers) == {Operator[s] : s \in servers}

Nearest(servers) == CHOOSE s \in servers : \A t \in servers \ {s} : Before(s, t)
Healthy == {s \in Server : Eligible(s)}

Enough(n)    == IF n > MinGoodSamples THEN MinGoodSamples ELSE n
Lesser(d, m) == IF m = None \/ d < m THEN d ELSE m

\* A stratum-1 reply, one of another stratum, none that is usable, and a
\* kiss-o'-death, of which RATE, DENY and RSTR end the queries.
Reply(m) ==
  LET sent == [m EXCEPT !.sent = @ + 1]
      good == [sent EXCEPT !.good = Enough(@ + 1)]
  IN  {[good EXCEPT !.strata = @ \cup {1}, !.nearest = Lesser(d, @)] : d \in Delay}
      \cup {[good EXCEPT !.strata = @ \cup {2}], sent}
      \cup {[sent EXCEPT !.kissed = TRUE, !.sent = last] : last \in {sent.sent, Samples}}

End(result) == stage' = "idle" /\ outcome' = result

-----------------------------------------------------------------------------
(* Mutants: definitions with a plausible mistake in them.  Each is put in  *)
(* the place of the one it is named after to show that a property notices; *)
(* none is part of the specification.                                      *)

\* The nearest servers, whoever runs them.
IsNewAny(s) == TRUE

\* One query too many.
QueryOnceMore(s) ==
  /\ stage = "measure" /\ measured[s].sent <= Samples
  /\ \E m \in Reply(measured[s]) : measured' = [measured EXCEPT ![s] = m]
  /\ UNCHANGED <<stage, runs, chosen, left, Disk, outcome>>

\* The copy is made of the file that is already replaced.
CopyReplaced ==
  /\ stage = "copy"
  /\ sources' = runs /\ bak' = runs
  /\ stage' = "reload"
  /\ UNCHANGED <<runs, measured, chosen, left, prior, loaded, outcome>>

-----------------------------------------------------------------------------
Begin ==
  /\ stage = "idle" /\ runs < MaxRuns
  /\ stage' = "measure" /\ runs' = runs + 1
  /\ measured' = [s \in Server |-> Unmeasured] /\ chosen' = <<>> /\ left' = {} /\ outcome' = "none"
  /\ UNCHANGED Disk

\* The name does not resolve: the server is not asked.
Unresolved(s) ==
  /\ stage = "measure" /\ measured[s].sent = 0
  /\ measured' = [measured EXCEPT ![s].sent = Samples]
  /\ UNCHANGED <<stage, runs, chosen, left, Disk, outcome>>

\* One query, spaced from the one before.
Query(s) ==
  /\ stage = "measure" /\ measured[s].sent < Samples
  /\ \E m \in Reply(measured[s]) : measured' = [measured EXCEPT ![s] = m]
  /\ UNCHANGED <<stage, runs, chosen, left, Disk, outcome>>

\* Once every thread is done the eligible servers are sorted.
Rank ==
  /\ stage = "measure"
  /\ \A s \in Server : measured[s].sent = Samples
  /\ left' = Healthy
  /\ stage' = "diverse"
  /\ UNCHANGED <<runs, measured, chosen, Disk, outcome>>

Over == left = {} \/ Len(chosen) >= Count

\* The next server in their order,
Coming == Nearest(left)

\* is taken if it is new to the pass.
Take(new) ==
  /\ left' = left \ {Coming}
  /\ chosen' = IF new THEN Append(chosen, Coming) ELSE chosen
  /\ UNCHANGED <<stage, runs, measured, Disk, outcome>>

\* First one of each operator,
IsNewOperator(s) == Operator[s] \notin OperatorsOf(Range(chosen))

Diversify ==
  /\ stage = "diverse"
  /\ \/ ~Over /\ Take(IsNewOperator(Coming))
     \/ /\ Over
        /\ stage' = "fill" /\ left' = Healthy
        /\ UNCHANGED <<runs, measured, chosen, Disk, outcome>>

\* and then the nearest of the others.
IsNewServer(s) == s \notin Range(chosen)

Fill ==
  /\ stage = "fill" /\ ~Over
  /\ Take(IsNewServer(Coming))

\* Without --install the choice is printed only.
Choose ==
  /\ stage = "fill" /\ Over
  /\ \/ chosen = <<>> /\ End("no_server")
     \/ chosen # <<>> /\ End("preview")
     \/ chosen # <<>> /\ stage' = "installable" /\ UNCHANGED outcome
  /\ UNCHANGED <<runs, measured, chosen, left, Disk>>

\* No root, no sourcedir in Chrony's configuration, or no chronyc.
Blocked ==
  /\ stage = "installable"
  /\ End("blocked")
  /\ UNCHANGED <<runs, measured, chosen, left, Disk>>

Install ==
  /\ stage = "installable"
  /\ stage' = IF sources = None THEN "replace" ELSE "backup"
  /\ prior' = sources
  /\ UNCHANGED <<runs, measured, chosen, left, sources, bak, loaded, outcome>>

\* shutil.copy2 truncates the copy and writes it in place.
Truncate ==
  /\ stage = "backup"
  /\ bak' = Torn
  /\ stage' = "copy"
  /\ UNCHANGED <<runs, measured, chosen, left, sources, prior, loaded, outcome>>

Copy ==
  /\ stage = "copy"
  /\ bak' = sources
  /\ stage' = "replace"
  /\ UNCHANGED <<runs, measured, chosen, left, sources, prior, loaded, outcome>>

\* A temporary file in the same directory, complete, takes the file's place.
Replace ==
  /\ stage = "replace"
  /\ sources' = runs
  /\ stage' = "reload"
  /\ UNCHANGED <<runs, measured, chosen, left, bak, prior, loaded, outcome>>

\* chronyc reload sources
Reload ==
  /\ stage = "reload"
  /\ \/ loaded' = sources /\ End("installed")
     \/ End("blocked") /\ UNCHANGED loaded
  /\ UNCHANGED <<runs, measured, chosen, left, sources, bak, prior>>

\* Killed, no space, no answer of chronyc in 30 s.
Fail ==
  /\ stage # "idle"
  /\ End("failed")
  /\ UNCHANGED <<runs, measured, chosen, left, Disk>>

\* chronyd starts anew.
ChronydStarts ==
  /\ loaded' = sources
  /\ UNCHANGED <<stage, runs, measured, chosen, left, sources, bak, prior, outcome>>

WriteAtomic == Truncate \/ Copy \/ Replace

Next ==
  \/ Begin \/ Rank \/ Diversify \/ Fill \/ Choose \/ Blocked \/ Install \/ WriteAtomic \/ Reload
  \/ Fail \/ ChronydStarts
  \/ \E s \in Server : Unresolved(s) \/ Query(s)

Spec == Init /\ [][Next]_vars

-----------------------------------------------------------------------------
(* Properties *)

Smaller(n, m)   == IF n < m THEN n ELSE m
Nearer(s, t)    == measured[s].nearest # 0 /\ measured[s].nearest < measured[t].nearest
Fit(s)          == measured[s].good >= 2 /\ 2 \notin measured[s].strata /\ ~measured[s].kissed

BestChoice ==
  LET fit == {s \in Server : Fit(s)}
      all == Range(chosen)
  IN  /\ all \subseteq fit
      /\ Cardinality(all) = Smaller(Count, Cardinality(fit))
      /\ Cardinality(OperatorsOf(all)) = Smaller(Count, Cardinality(OperatorsOf(fit)))
      /\ \A s \in fit : ~Nearer(s, chosen[1])
      /\ \A s \in fit \ all, t \in all : Operator[s] = Operator[t] => ~Nearer(s, t)

\* docs/time-authority/stratum1-bootstrap.md: "the nearest one, plus the
\* nearest one run by a different operator".  Two usable answers at least, all
\* of them of stratum 1, and no request to back off before, between or after
\* them; as many servers as there are, of as many operators as there are, each
\* operator's nearest first, the nearest of all at the head, which chronyd is
\* told to prefer.  A delay rounded to zero is the exception: it counts last.
ChoiceIsBest ==
  stage \in Decided \/ outcome \in {"no_server", "preview", "blocked", "installed"} => BestChoice

\* The same page: "keeps any previous copy as .bak".  At every step, and so
\* after a failure at any of them, what was installed before is whole in the
\* file or in its copy; a run that reports success had chronyd read its own.
PreviousIsKept ==
  /\ prior # None => prior \in {sources, bak}
  /\ outcome = "installed" => loaded = runs
=============================================================================
