--------------------------- MODULE MCReleaseInstall ---------------------------
(* Two installers, one after the other or at once, of one release or of two. *)
EXTENDS ReleaseInstall, TLC

Alike == Permutations(Installer) \cup Permutations(Version)
=============================================================================
