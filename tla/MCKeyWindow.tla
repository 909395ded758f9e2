---------------------------- MODULE MCKeyWindow ----------------------------
(* The key window with two overlapping helpers, or one, for TLC: the        *)
(* helpers, the length of the wait loops and the faults are in the .cfg.    *)
EXTENDS KeyWindow
=============================================================================
