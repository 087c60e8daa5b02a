--------------------------- MODULE MCRxOwnership ---------------------------
(***************************************************************************)
(* Small instances of RxOwnership for TLC.                                 *)
(***************************************************************************)
EXTENDS RxOwnership, TLC

Symmetry == Permutations(Agents)
=============================================================================
