---------------------------- MODULE MCAuthTokens -----------------------------
(* An instance of AuthTokens for TLC: the workers are interchangeable, and so *)
(* are the token ids.                                                         *)
EXTENDS AuthTokens, TLC

Symmetry == Permutations(Workers) \cup Permutations(Jtis)
=============================================================================
