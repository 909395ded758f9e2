------------------------------ MODULE HostTools ------------------------------
(***************************************************************************)
(* Two tools that prepare a host and share nothing, the choice of time     *)
(* sources and the installation of the authority manifest: a behaviour     *)
(* follows one or the other, as it chooses at the start.                   *)
(***************************************************************************)
EXTENDS AuthorityPeers

CONSTANTS Candidate, Operator, Samples, Count, MaxDelay, MaxRuns, Torn

VARIABLES tool, stage, runs, measured, chosen, left, sources, bak, prior, loaded, outcome

timeVars == <<stage, runs, measured, chosen, left, sources, bak, prior, loaded, outcome>>

Time == INSTANCE TimeSources

ASSUME HostToolsAssumption == Time!TimeAssumption

ToolInit == /\ Time!Init /\ Init
            /\ \/ tool = "time" /\ file = None
               \/ tool = "peers" /\ sources = None

ToolNext == \/ tool = "time" /\ Time!Next /\ UNCHANGED <<tool, vars>>
            \/ tool = "peers" /\ Next /\ UNCHANGED <<tool, timeVars>>

ToolSpec == ToolInit /\ [][ToolNext]_<<tool, timeVars, vars>>

-----------------------------------------------------------------------------
(* Properties *)

\* The types of both modules.
ToolsTypeOK == TypeOK /\ Time!TypeOK

\* docs/time-authority/stratum1-bootstrap.md: the nearest healthy servers, of
\* different operators; see TimeSources.
ChoiceIsBest == Time!ChoiceIsBest

\* The same page: the previous sources file is kept; see TimeSources.
PreviousIsKept == Time!PreviousIsKept
=============================================================================
