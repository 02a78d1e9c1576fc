------------------------------ MODULE MCPortal ------------------------------
(***************************************************************************)
(* Instances of Portal for TLC.                                            *)
(***************************************************************************)
EXTENDS Portal, TLC

OneGross == {3650}

Symmetry == Permutations(Docs) \cup Permutations(Clients)
=============================================================================
