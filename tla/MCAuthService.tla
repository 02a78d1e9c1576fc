--------------------------- MODULE MCAuthService ---------------------------
(***************************************************************************)
(* Instances of AuthService for TLC.                                       *)
(***************************************************************************)
EXTENDS AuthService, TLC

Symmetry == Permutations(Passwords) \cup Permutations(Pairs)
                \cup Permutations(Requests)
=============================================================================
