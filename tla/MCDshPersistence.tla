-------------------------- MODULE MCDshPersistence --------------------------
(***************************************************************************)
(* DshPersistence for TLC.                                                 *)
(***************************************************************************)
EXTENDS DshPersistence
=============================================================================
