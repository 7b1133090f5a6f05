------------------------------ MODULE MCSignIn ------------------------------
(***************************************************************************)
(* Small instances of SignIn.                                              *)
(***************************************************************************)
EXTENDS SignInRefinement, TLC

Interchangeable == Permutations(Requests) \cup Permutations(Codes)
=============================================================================
