---------------------------- MODULE MCDshdNode ----------------------------
(* DshdNode on small instances: the children are numbered 1..MaxSpawns and  *)
(* each is its own authority.                                               *)
EXTENDS DshdNode

MCAuthority == 1..MaxSpawns
============================================================================
