-------------------------- MODULE MCTokenRotation ---------------------------
(***************************************************************************)
(* TokenRotation for TLC; requests and logouts are interchangeable.        *)
(***************************************************************************)
EXTENDS TokenRotation, TLC

Symmetry == Permutations(Requests)
=============================================================================
