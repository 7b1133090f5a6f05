----------------------------- MODULE MCCoverage -----------------------------
(***************************************************************************)
(* Small instances of Coverage.                                            *)
(***************************************************************************)
EXTENDS Coverage
=============================================================================
