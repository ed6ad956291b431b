----------------------------- MODULE MCDshAgent -----------------------------
(***************************************************************************)
(* DshAgent for TLC.                                                        *)
(***************************************************************************)
EXTENDS DshAgent
============================================================================
