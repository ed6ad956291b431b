-------------------------- MODULE MCDshToolCalls --------------------------
(* DshToolCalls on small instances; the calls are told apart by their place. *)
EXTENDS DshToolCalls
============================================================================
