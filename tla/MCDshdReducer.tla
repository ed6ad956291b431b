--------------------------- MODULE MCDshdReducer ---------------------------
(* DshdReducer with the events of a few attempts and a bounded generation.  *)
EXTENDS DshdReducer

CONSTANT MaxGeneration   \* bound: how often a context may be published

MCNext == ReducerNext /\ snap'.generation <= MaxGeneration
MCSpec == ReducerInit /\ [][MCNext]_snap
============================================================================
