-------------------------- MODULE MCBrowserSession --------------------------
(***************************************************************************)
(* Instances of BrowserSession for TLC.                                    *)
(***************************************************************************)
EXTENDS BrowserSession, TLC

Symmetry == Permutations(Users) \cup Permutations(Pairs)
                \cup Permutations(Requests) \cup Permutations(Tabs)
=============================================================================
