---------------------------- MODULE MCDshdBoot ----------------------------
(* DshdBoot with interchangeable daemons: their node ids are chosen in Init. *)
EXTENDS DshdBoot, TLC

DaemonSymmetry == Permutations(Daemon)
============================================================================
