-------------------------- MODULE MCValidatorWatch --------------------------
(* ValidatorWatch for TLC: a chain of a few blocks in two sessions, in which *)
(* the candidate and another validator hold or swap two authority indices.   *)
(* Accounts, and indices, are interchangeable.                               *)
EXTENDS ValidatorWatch, TLC

NodeSymmetry == Permutations(Account) \cup Permutations(Authority)
=============================================================================
