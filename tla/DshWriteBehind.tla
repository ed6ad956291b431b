--------------------------- MODULE DshWriteBehind ---------------------------
(***************************************************************************)
(* The write controller of one live session                               *)
(* (session-persistence/src/write-behind.ts), one operator per method, as  *)
(* functions of its record:                                                *)
(*   pending   sequence numbers queued, in order                           *)
(*   batch     the write in flight ("active"), <<>> when there is none     *)
(*   background  whether the write in flight was started by the deadline   *)
(*   timer     the batching deadline is armed                              *)
(*   expired   the deadline passed while a write was in flight             *)
(*   paused    automatic writing stopped after a failed write              *)
(*   barrier   "none", "overlap" (a flush awaits the write in flight) or   *)
(*             "drain" (a flush is writing the queue out)                  *)
(*   next      the continuation scheduled by the last settled write        *)
(* A write's `catch` and `finally` run in two adjacent microtasks; nothing *)
(* that reads the record can tell them from one.                           *)
(***************************************************************************)
EXTENDS Naturals, Sequences

NewWriter ==
    [pending |-> <<>>, batch |-> <<>>, background |-> FALSE, timer |-> FALSE,
     expired |-> FALSE, paused |-> FALSE, barrier |-> "none", next |-> "none"]

Active(w) == w.batch # <<>>
HasWork(w) == w.pending # <<>> \/ Active(w)

CancelWait(w) == [w EXCEPT !.timer = FALSE, !.expired = FALSE]

(* A barrier drains what arrives; otherwise an empty or a paused queue arms *)
(* the one deadline of its window.                                          *)
Enqueue(w, seq) ==
    LET idle == w.barrier = "none"
        arm  == idle /\ (w.paused \/ w.pending = <<>>)
    IN  [w EXCEPT !.pending = Append(@, seq),
                  !.timer   = @ \/ arm,
                  !.expired = @ /\ ~(idle /\ w.paused),
                  !.paused  = @ /\ ~idle]

StartWrite(w, background) ==
    [CancelWait(w) EXCEPT !.batch = w.pending, !.pending = <<>>, !.background = background]

\* Mutant: a deadline that passes during a write is forgotten.
OnDeadlineUnrecorded(w) ==
    IF Active(w) THEN [w EXCEPT !.timer = FALSE] ELSE StartWrite(w, TRUE)

OnDeadline(w) ==
    IF Active(w) THEN [w EXCEPT !.timer = FALSE, !.expired = TRUE]
    ELSE StartWrite(w, TRUE)

(* One turn of the drain loop: write what is queued, or close the barrier. *)
Drain(w) ==
    IF w.pending # <<>> THEN StartWrite(w, FALSE) ELSE [w EXCEPT !.barrier = "none"]

Flush(w) ==
    LET v == [CancelWait(w) EXCEPT !.paused = FALSE]
    IN  CASE w.barrier # "none" -> w
          [] w.barrier = "none" /\ Active(w)  -> [v EXCEPT !.barrier = "overlap"]
          [] w.barrier = "none" /\ ~Active(w) -> Drain([v EXCEPT !.barrier = "drain"])

\* Mutant: a failed batch is dropped.
SettleDropping(w, ok) ==
    [w EXCEPT !.batch = <<>>, !.timer = @ /\ ok, !.expired = @ /\ ok, !.paused = @ \/ ~ok,
              !.next = IF w.barrier = "overlap" THEN "overlap"
                       ELSE IF w.background THEN (IF ok THEN "auto" ELSE "none")
                       ELSE (IF ok THEN "drain" ELSE "reject")]

(* The write in flight settles: a failed batch goes back before the queue. *)
Settle(w, ok) ==
    LET next == CASE w.barrier = "overlap"                  -> "overlap"
                  [] w.barrier # "overlap" /\ w.background  -> IF ok THEN "auto" ELSE "none"
                  [] w.barrier # "overlap" /\ ~w.background -> IF ok THEN "drain" ELSE "reject"
    IN  [w EXCEPT !.batch   = <<>>,
                  !.pending = IF ok THEN @ ELSE w.batch \o @,
                  !.timer   = @ /\ ok,
                  !.expired = @ /\ ok,
                  !.paused  = @ \/ ~ok,
                  !.next    = next]

ContinueAutomatic(w) ==
    IF w.barrier = "none" /\ w.pending # <<>> /\ w.expired THEN StartWrite(w, TRUE) ELSE w

(* The continuation of the settled write. *)
Continue(w) ==
    LET v == [w EXCEPT !.next = "none"]
    IN  CASE w.next = "auto"    -> ContinueAutomatic(v)
          [] w.next = "overlap" -> Drain([v EXCEPT !.barrier = "drain", !.paused = FALSE])
          [] w.next = "drain"   -> Drain(v)
          [] w.next = "reject"  -> [v EXCEPT !.barrier = "none"]

Writer ==
    [pending : Seq(Nat), batch : Seq(Nat), background : BOOLEAN, timer : BOOLEAN,
     expired : BOOLEAN, paused : BOOLEAN, barrier : {"none", "overlap", "drain"},
     next : {"none", "auto", "overlap", "drain", "reject"}]
=============================================================================
