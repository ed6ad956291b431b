---------------------------- MODULE DshDurableLog ----------------------------
(***************************************************************************)
(* What session persistence promises of one session id, whatever writes    *)
(* the log: it only grows, each time to a log a resume accepts, and a      *)
(* flush is answered only when the log holds everything it covers.         *)
(***************************************************************************)
EXTENDS Integers, Sequences, SequencesExt

VARIABLES
    log,    \* the events every later load of this id returns
    acked   \* the events a resolved flush vouched for

vars == <<log, acked>>

Init == log = <<>> /\ acked = <<>>

(* A turn is open after the first n events of l.                           *)
Open(l, n) ==
    \E i \in 1 .. n :
        /\ l[i].kind = "turn/start"
        /\ \A j \in 1 .. n : j > i => l[j].kind # "turn/end"

(* Turns do not nest, and an earlier lifecycle ends before the next begins. *)
WellFormed(l) ==
    \A i \in DOMAIN l :
        /\ l[i].kind \in {"turn/start", "session/end-seed"} => ~Open(l, i - 1)
        /\ l[i].kind = "turn/end" => Open(l, i - 1)

Grow ==
    /\ IsStrictPrefix(log, log')
    /\ WellFormed(log')
    /\ UNCHANGED acked

Ack ==
    /\ IsStrictPrefix(acked, acked')
    /\ IsPrefix(acked', log)
    /\ UNCHANGED log

Next == Grow \/ Ack

Spec == Init /\ [][Next]_vars
==============================================================================
