------------------------------ MODULE MCArena -------------------------------
(***************************************************************************)
(* Instances of Arena for TLC: a size_t of 7 bits and a descriptor array   *)
(* of one entry to start with, so that both overflow checks, the doubling  *)
(* of the array and its refusal are reached with four slabs.               *)
(***************************************************************************)
EXTENDS Arena, TLC

SlabSymmetry == Permutations(Slabs)
=============================================================================
