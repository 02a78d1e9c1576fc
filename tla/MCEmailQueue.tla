---------------------------- MODULE MCEmailQueue ----------------------------
(***************************************************************************)
(* Instances of EmailQueue for TLC.                                        *)
(***************************************************************************)
EXTENDS EmailQueue
=============================================================================
