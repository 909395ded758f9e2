----------------------------- MODULE MCHostTools -----------------------------
(***************************************************************************)
(* Three servers, two of one operator.  Three manifests: a short one, a    *)
(* later one, and one with a single authority.                             *)
(***************************************************************************)
EXTENDS HostTools, TLC

CONSTANTS a1, a2, b, m1, m2, m3

MCCandidate == <<a1, b, a2>>
MCOperator  == a1 :> "A" @@ a2 :> "A" @@ b :> "B"
MCGenerated == m1 :> 0 @@ m2 :> 1 @@ m3 :> 0
MCExpires   == m1 :> 1 @@ m2 :> 3 @@ m3 :> 3
MCPeers     == m1 :> 2 @@ m2 :> 2 @@ m3 :> 1
MCMinimum   == m1 :> 2 @@ m2 :> 2 @@ m3 :> 2
Alike       == Permutations(Run)
=============================================================================
