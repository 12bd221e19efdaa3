--------------------------- MODULE MCAtomicWrite ---------------------------
(***************************************************************************)
(* Instance of AtomicWrite for TLC: writers and files are interchangeable. *)
(***************************************************************************)
EXTENDS AtomicWrite, TLC

Symmetry == Permutations(Writers) \cup Permutations(Dests)
=============================================================================
