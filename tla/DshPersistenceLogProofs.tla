---------------------- MODULE DshPersistenceLogProofs ----------------------
(***************************************************************************)
(* Proofs about the log of a session id, for any number of lifecycles and  *)
(* callers and any bounds: what the layers of DshPersistenceProofs leave   *)
(* to show so that a live session is the log.                              *)
(*                                                                         *)
(* The third layer says whose turn it is and who owns the cursor; the      *)
(* fourth, what the log holds and what every queued operation adds to it.  *)
(* Most steps do neither: such a step is Quietly one of callers, or a      *)
(* lifecycle Working, and is dealt with once for all. The fifth says that  *)
(* whatever may be stored keeps the turns of the log; the last, that what  *)
(* an inspection must cover is in it, and in the events of the session.    *)
(***************************************************************************)
EXTENDS DshPersistenceProofs

-----------------------------------------------------------------------------
(* The third layer: the owner of the cursor, and what it has written.      *)

\* The events of a lifecycle that are neither queued nor in flight.
WrittenBy(r) == r.handed - Len(r.w.batch) - Len(r.w.pending)

\* An event that keeps the turns of the events it follows.
MayFollow(e, l) ==
    /\ e.kind \in {"turn/start", "session/end-seed"} => ~OpenTurn(l)
    /\ e.kind = "turn/end" => OpenTurn(l)

\* What a lifecycle keeps while nothing of it is stored.
SlotKeeps(r, v) ==
    /\ v.init = r.init /\ (HasWork(r.w) => HasWork(v.w)) /\ WrittenBy(v) = WrittenBy(r)
    /\ Active(r.w) /\ r.init = "ok" => v.w.batch = r.w.batch
    /\ \/ v.events = r.events
       \/ \E e \in Event : MayFollow(e, r.events) /\ v.events = Append(r.events, e)

SessionsKeep == \A s \in Slots : SlotKeeps(session[s], session'[s])
SameLives == \A s \in Slots : session'[s].life = session[s].life

LEMMA KeptKeeps ==
    ASSUME NEW r \in Lifecycle, NEW v \in Lifecycle, v.init = r.init, v.events = r.events,
           v.handed = r.handed, Kept(r.w, v.w)
    PROVE  SlotKeeps(r, v)
  <1>1. /\ r.w.batch \in Seq(Nat) /\ r.w.pending \in Seq(Nat) /\ r.handed \in Nat
    BY DEF Lifecycle, Writer
  <1>2. Len(r.w.batch) \in Nat /\ Len(r.w.pending) \in Nat /\ Len(<<>>) = 0
    BY <1>1
  <1>3. CASE v.w.batch = r.w.batch /\ v.w.pending = r.w.pending
    BY <1>3 DEF SlotKeeps, HasWork, Active, WrittenBy
  <1>4. CASE r.w.batch = <<>> /\ v.w.batch = r.w.pending /\ v.w.pending = <<>>
    <2>1. WrittenBy(v) = WrittenBy(r)
      BY <1>1, <1>2, <1>4 DEF WrittenBy
    <2>2. QED
      BY <1>4, <2>1 DEF SlotKeeps, HasWork, Active
  <1>5. QED
    BY <1>3, <1>4 DEF Kept

LEMMA OneKeeps ==
    ASSUME SessionOK, NEW s \in Slots, NEW r \in Lifecycle, session' = [session EXCEPT ![s] = r],
           SlotKeeps(session[s], r)
    PROVE  SessionsKeep /\ (r.life = session[s].life => SameLives)
  <1>1. \A t \in Slots : SlotKeeps(session[t], session[t])
    BY DEF SlotKeeps
  <1>2. QED
    BY <1>1 DEF SessionsKeep, SameLives, SessionOK

LEMMA AllKeep == UNCHANGED session => SessionsKeep /\ SameLives
  BY DEF SlotKeeps, SessionsKeep, SameLives

LEMMA CallFlushKeeps ==
    ASSUME Lives, NEW s \in Slots, session[s].life \notin {"none", "vetoed"}, NEW caller \in Callers
    PROVE  LET v == CallFlush(session[s], caller) IN
           v \in Lifecycle /\ SlotKeeps(session[s], v) /\ v.life = session[s].life
  <1> DEFINE v == CallFlush(session[s], caller)
  <1>1. session[s] \in Lifecycle /\ SlotGood(session[s])
    BY SlotTypes, Unmoved DEF Lives, SlotsGood, Typed
  <1>2. /\ v \in Lifecycle /\ v.life = session[s].life /\ v.events = session[s].events
        /\ v.handed = session[s].handed /\ v.init = session[s].init
        /\ v.w.batch = session[s].w.batch /\ v.w.pending = session[s].w.pending
    BY <1>1, CallFlushIs
  <1> HIDE DEF v
  <1>3. SlotKeeps(session[s], v)
    BY <1>1, <1>2, KeptKeeps DEF Kept
  <1>4. QED
    BY <1>2, <1>3 DEF v

LEMMA UnloadKeeps == ASSUME Lives, Unload PROVE SessionsKeep /\ SameLives
  <1>1. \A s \in Slots : session[s].life # "vetoed"
    BY DEF Unload
  <1>2. ASSUME NEW s \in Slots PROVE SlotKeeps(session[s], session'[s]) /\ session'[s].life = session[s].life
    <2>1. session'[s] = IF s \in InUse THEN CallFlush(session[s], "unload") ELSE session[s]
      BY DEF Unload
    <2>2. s \in InUse => session[s].life \notin {"none", "vetoed"}
      BY <1>1 DEF InUse, Free
    <2>3. QED
      BY <2>1, <2>2, CallFlushKeeps DEF Callers, SlotKeeps
  <1>3. QED
    BY <1>2 DEF SessionsKeep, SameLives

LEMMA EndKeeps == ASSUME Lives, NEW s \in Slots, End(s) PROVE SessionsKeep
  <1>1. SessionOK /\ session[s] \in Lifecycle /\ SlotGood(session[s])
    BY SlotTypes, Unmoved DEF Lives, SlotsGood, Typed
  <1>2. CASE session[s].life = "live"
    <2> DEFINE v == IF up THEN CallFlush(session[s], "retire") ELSE session[s]
               r == [v EXCEPT !.life = "ended"]
    <2>1. v \in Lifecycle /\ SlotKeeps(session[s], v)
      BY <1>1, <1>2, CallFlushKeeps DEF Callers, SlotKeeps
    <2>2. session' = [session EXCEPT ![s] = r]
      BY <1>1, <1>2 DEF End, SessionOK
    <2> HIDE DEF v
    <2>3. r \in Lifecycle /\ r.w = v.w /\ r.init = v.init /\ r.handed = v.handed /\ r.events = v.events
      BY <2>1 DEF Lifecycle
    <2> HIDE DEF r
    <2>4. SlotKeeps(session[s], r)
      BY <2>1, <2>3 DEF SlotKeeps, WrittenBy
    <2>5. QED
      BY <1>1, <2>2, <2>3, <2>4, OneKeeps
  <1>3. CASE session[s].life = "vetoed"
    <2>1. session' = [session EXCEPT ![s] = Unused] /\ Unused \in Lifecycle
      BY <1>3, UnusedGood DEF End
    <2>2. session[s] = [Unused EXCEPT !.life = "vetoed"]
      BY <1>1, <1>3 DEF SlotGood
    <2>3. /\ session[s].w = Unused.w /\ session[s].init = Unused.init
          /\ session[s].handed = Unused.handed /\ session[s].events = Unused.events
      BY <2>2 DEF Unused
    <2>4. SlotKeeps(session[s], Unused)
      BY <2>3 DEF SlotKeeps, WrittenBy
    <2>5. QED
      BY <1>1, <2>1, <2>4, OneKeeps
  <1>4. QED
    BY <1>2, <1>3 DEF End

\* A step of one lifecycle that stores nothing of it, and what it answers: a
\* retirement that failed leaves the lifecycle uninitialised or with work.
AnswerFor(s) ==
    \/ UNCHANGED <<acked, chain, retiring, client>>
    \/ \E who : Answer(s, who, TRUE)
    \/ \E who :
          /\ Answer(s, who, FALSE)
          /\ session[s].init = "failed" \/ (session[s].init = "ok" /\ HasWork(session[s].w))

LEMMA FlushReadyKeeps ==
    ASSUME Lives, NEW s \in Slots, FlushReady(s) PROVE SessionsKeep /\ SameLives /\ AnswerFor(s)
  <1>1. SessionOK /\ session[s] \in Lifecycle /\ SlotGood(session[s]) /\ session[s].w \in Writer
    BY SlotTypes, Unmoved DEF Lives, SlotsGood, Typed
  <1>2. AnswerFor(s)
    BY DEF FlushReady, AnswerFor
  <1>3. ASSUME NEW w \in Writer, Kept(session[s].w, w), NEW a \in SUBSET Callers, NEW b \in SUBSET Callers,
               session' = [session EXCEPT ![s] = [@ EXCEPT !.w = w, !.atInit = a, !.atBarrier = b]]
        PROVE  SessionsKeep /\ SameLives
    <2> DEFINE r == [session[s] EXCEPT !.w = w, !.atInit = a, !.atBarrier = b]
    <2>1. session' = [session EXCEPT ![s] = r]
      BY <1>1, <1>3 DEF SessionOK
    <2>2. /\ r \in Lifecycle /\ r.w = w /\ r.init = session[s].init /\ r.events = session[s].events
          /\ r.handed = session[s].handed /\ r.life = session[s].life
      BY <1>1, <1>3 DEF Lifecycle
    <2> HIDE DEF r
    <2>3. QED
      BY <1>1, <1>3, <2>1, <2>2, KeptKeeps, OneKeeps
  <1>4. PICK caller \in session[s].atInit :
          \/ session' = [session EXCEPT ![s].w = CancelWait(@), ![s].atInit = @ \ {caller}]
          \/ session' = [session EXCEPT ![s].w = Flush(session[s].w), ![s].atInit = @ \ {caller},
                ![s].atBarrier = IF Flush(session[s].w).barrier = "none" THEN @ ELSE @ \cup {caller}]
    BY DEF FlushReady
  <1> DEFINE a == session[s].atInit \ {caller}
             b == session[s].atBarrier
             d == IF Flush(session[s].w).barrier = "none" THEN b ELSE b \cup {caller}
  <1>5. a \in SUBSET Callers /\ b \in SUBSET Callers /\ d \in SUBSET Callers
    BY <1>1 DEF Lifecycle
  <1>6. /\ CancelWait(session[s].w) \in Writer /\ Kept(session[s].w, CancelWait(session[s].w))
        /\ Flush(session[s].w) \in Writer /\ Kept(session[s].w, Flush(session[s].w))
    BY <1>1, CancelWaitGood, FlushGood DEF SlotGood
  <1>7. CASE session' = [session EXCEPT ![s].w = CancelWait(@), ![s].atInit = @ \ {caller}]
    <2>1. [session[s] EXCEPT !.w = CancelWait(session[s].w), !.atInit = a]
            = [session[s] EXCEPT !.w = CancelWait(session[s].w), !.atInit = a, !.atBarrier = b]
      BY <1>1 DEF Lifecycle
    <2>2. session' = [session EXCEPT ![s] =
              [@ EXCEPT !.w = CancelWait(session[s].w), !.atInit = a, !.atBarrier = b]]
      BY <1>1, <1>7, <2>1 DEF SessionOK
    <2>3. QED
      BY <1>2, <1>3, <1>5, <1>6, <2>2
  <1>8. CASE session' = [session EXCEPT ![s].w = Flush(session[s].w), ![s].atInit = @ \ {caller},
                ![s].atBarrier = IF Flush(session[s].w).barrier = "none" THEN @ ELSE @ \cup {caller}]
    <2>1. session' = [session EXCEPT ![s] =
              [@ EXCEPT !.w = Flush(session[s].w), !.atInit = a, !.atBarrier = d]]
      BY <1>1, <1>8 DEF SessionOK
    <2>2. QED
      BY <1>2, <1>3, <1>5, <1>6, <2>1
  <1>9. QED
    BY <1>4, <1>7, <1>8

LEMMA ProceedKeeps ==
    ASSUME Lives, NEW s \in Slots, Proceed(s) PROVE SessionsKeep /\ SameLives /\ AnswerFor(s)
  <1> DEFINE w == Continue(session[s].w)
             closes == session[s].w.barrier # "none" /\ w.barrier = "none"
             rejected == session[s].w.next = "reject"
             b == IF closes THEN {} ELSE session[s].atBarrier
             r == [session[s] EXCEPT !.w = w, !.atBarrier = b]
  <1>1. session[s].w.next # "none" /\ Advance(s, w, rejected)
    BY DEF Proceed
  <1>2. SessionOK /\ session[s] \in Lifecycle /\ SlotGood(session[s]) /\ session[s].w \in Writer
    BY SlotTypes, Unmoved DEF Lives, SlotsGood, Typed
  <1>3. w \in Writer /\ Kept(session[s].w, w)
    BY <1>1, <1>2, ContinueGood DEF SlotGood
  <1>4. session' = [session EXCEPT ![s] = r]
    <2>1. CASE closes
      BY <1>1, <1>2, <2>1 DEF Advance, SessionOK
    <2>2. CASE ~closes
      <3>1. session' = [session EXCEPT ![s].w = w] /\ b = session[s].atBarrier
        BY <1>1, <2>2 DEF Advance
      <3> HIDE DEF w, closes, b
      <3>2. r = [session[s] EXCEPT !.w = w]
        BY <1>2, <3>1 DEF Lifecycle
      <3>3. QED
        BY <1>2, <3>1, <3>2 DEF SessionOK
    <2>3. QED
      BY <2>1, <2>2
  <1>5. AnswerFor(s)
    <2>1. CASE ~closes
      BY <1>1, <2>1 DEF Advance, AnswerFor
    <2>2. CASE closes /\ ~rejected
      <3>1. (~rejected) = TRUE
        BY <2>2
      <3>2. Answer(s, session[s].atBarrier, ~rejected)
        BY <1>1, <2>2 DEF Advance
      <3> HIDE DEF rejected
      <3>3. Answer(s, session[s].atBarrier, TRUE)
        BY <3>1, <3>2
      <3>4. QED
        BY <3>3 DEF AnswerFor
    <2>3. CASE closes /\ rejected
      <3>1. (~rejected) = FALSE
        BY <2>3
      <3>2. Answer(s, session[s].atBarrier, ~rejected)
        BY <1>1, <2>3 DEF Advance
      <3>3. session[s].init = "ok" /\ HasWork(session[s].w)
        BY <1>2, <2>3 DEF SlotGood, WriterGood, HasWork
      <3> HIDE DEF rejected
      <3>4. Answer(s, session[s].atBarrier, FALSE)
        BY <3>1, <3>2
      <3>5. QED
        BY <3>3, <3>4 DEF AnswerFor
    <2>4. QED
      BY <2>1, <2>2, <2>3
  <1>6. b \in SUBSET Callers
    BY <1>2 DEF Lifecycle
  <1> HIDE DEF w, b
  <1>7. /\ r \in Lifecycle /\ r.w = w /\ r.init = session[s].init /\ r.events = session[s].events
        /\ r.handed = session[s].handed /\ r.life = session[s].life
    BY <1>2, <1>3, <1>6 DEF Lifecycle
  <1> HIDE DEF r
  <1>8. QED
    BY <1>2, <1>3, <1>4, <1>5, <1>7, KeptKeeps, OneKeeps

LEMMA DeadlineKeeps ==
    ASSUME Lives, NEW s \in Slots, Deadline(s) PROVE SessionsKeep /\ SameLives
  <1> DEFINE w == OnDeadline(session[s].w)
             r == [session[s] EXCEPT !.w = w]
  <1>1. session[s].w.timer /\ session[s].w.next = "none"
    BY DEF Deadline, Quiet, Microtasks
  <1>2. SessionOK /\ session[s] \in Lifecycle /\ SlotGood(session[s]) /\ session[s].w \in Writer
    BY SlotTypes, Unmoved DEF Lives, SlotsGood, Typed
  <1>3. w \in Writer /\ Kept(session[s].w, w)
    BY <1>1, <1>2, OnDeadlineGood DEF SlotGood
  <1>4. session' = [session EXCEPT ![s] = r]
    BY <1>2 DEF Deadline, SessionOK
  <1> HIDE DEF w
  <1>5. r \in Lifecycle /\ SlotKeeps(session[s], r) /\ r.life = session[s].life
    BY <1>2, <1>3, MovedIs, KeptKeeps
  <1>6. QED
    BY <1>2, <1>4, <1>5, OneKeeps

LEMMA CheckpointKeeps ==
    ASSUME Lives, NEW s \in Slots, Checkpoint(s) PROVE SessionsKeep /\ SameLives
  <1>1. session[s].life \notin {"none", "vetoed"} /\ "checkpoint" \in Callers
        /\ session' = [session EXCEPT ![s] = CallFlush(session[s], "checkpoint")] /\ SessionOK
    BY DEF Checkpoint, Callers, Lives, Typed
  <1>2. QED
    BY <1>1, CallFlushKeeps, OneKeeps

LEMMA EmitKeeps == ASSUME Lives, NEW s \in Slots, Emit(s) PROVE SessionsKeep /\ SameLives
  <1> DEFINE e == [kind |-> IF OpenTurn(session[s].events) THEN "turn/end" ELSE "turn/start", by |-> s]
             events == Append(session[s].events, e)
             n == Len(events)
             rec == [session[s] EXCEPT !.events = events]
             w == Enqueue(session[s].w, n)
             told == [rec EXCEPT !.handed = n, !.w = w]
             r == IF up THEN told ELSE rec
  <1>1. session[s] \in Lifecycle /\ SessionOK /\ session[s].w \in Writer /\ session[s].handed \in Nat
        /\ session[s].events \in Seq(Event)
    BY SlotTypes DEF Lives, Typed
  <1>2. session[s].life = "live" /\ (up => session[s].handed = Len(session[s].events))
    BY DEF Emit, Lives, Heard
  <1>3. e \in Event /\ MayFollow(e, session[s].events)
    BY DEF Event, Kinds, MayFollow
  <1> HIDE DEF e
  <1>4. events \in Seq(Event) /\ Len(session[s].events) \in Nat /\ n \in Nat /\ n = Len(session[s].events) + 1
    BY <1>1, <1>3, AppendProperties
  <1>5. session' = [session EXCEPT ![s] = r]
    <2>1. rec.events = events /\ rec.w = session[s].w
      BY <1>1 DEF Lifecycle
    <2>2. session' = [session EXCEPT ![s] =
              IF up THEN [rec EXCEPT !.handed = Len(rec.events), !.w = Enqueue(rec.w, Len(rec.events))] ELSE rec]
      BY DEF Emit, e
    <2>3. QED
      BY <2>1, <2>2
  <1> HIDE DEF n
  <1>6. /\ w \in Writer /\ w.pending = Append(session[s].w.pending, n) /\ w.batch = session[s].w.batch
    BY <1>1, <1>4, EnqueueIs
  <1>7. session[s].w.pending \in Seq(Nat) /\ session[s].w.batch \in Seq(Nat)
    BY <1>1 DEF Writer
  <1> HIDE DEF w
  <1>8. /\ Len(w.pending) = Len(session[s].w.pending) + 1 /\ w.pending # <<>>
        /\ Len(session[s].w.pending) \in Nat /\ Len(session[s].w.batch) \in Nat
    <2> DEFINE p == session[s].w.pending
    <2>1. p \in Seq(Nat) /\ n \in Nat /\ w.pending = Append(p, n)
      BY <1>4, <1>6, <1>7
    <2> HIDE DEF p
    <2>2. Len(Append(p, n)) = Len(p) + 1 /\ Append(p, n) # <<>> /\ Len(p) \in Nat
      BY <2>1, AppendNotEmpty
    <2>3. QED
      BY <1>7, <2>1, <2>2 DEF p
  <1>9. /\ rec \in Lifecycle /\ rec.life = "live" /\ rec.events = events /\ rec.handed = session[s].handed
        /\ rec.init = session[s].init /\ rec.w = session[s].w
    BY <1>1, <1>2, <1>4 DEF Lifecycle
  <1>10. /\ told \in Lifecycle /\ told.life = "live" /\ told.events = events /\ told.handed = n
         /\ told.init = session[s].init /\ told.w = w
    BY <1>4, <1>6, <1>9 DEF Lifecycle
  <1> HIDE DEF rec, told
  <1>11. SlotKeeps(session[s], rec)
    BY <1>3, <1>9 DEF SlotKeeps, WrittenBy
  <1>12. up => SlotKeeps(session[s], told)
    <2>1. ASSUME up PROVE WrittenBy(told) = WrittenBy(session[s])
      <3> DEFINE h == session[s].handed
                 b == Len(session[s].w.batch)
                 p == Len(session[s].w.pending)
      <3>1. h \in Nat /\ b \in Nat /\ p \in Nat /\ told.handed = h + 1
            /\ Len(told.w.batch) = b /\ Len(told.w.pending) = p + 1
        BY <1>1, <1>2, <1>4, <1>6, <1>8, <1>10, <2>1
      <3>2. WrittenBy(session[s]) = h - b - p
        BY DEF WrittenBy
      <3> HIDE DEF h, b, p
      <3>3. QED
        BY <3>1, <3>2 DEF WrittenBy
    <2>2. HasWork(told.w) /\ (Active(session[s].w) => told.w.batch = session[s].w.batch)
      BY <1>6, <1>8, <1>10 DEF HasWork
    <2>3. QED
      BY <1>3, <1>10, <2>1, <2>2 DEF SlotKeeps
  <1>13. r \in Lifecycle /\ SlotKeeps(session[s], r) /\ r.life = session[s].life
    BY <1>2, <1>9, <1>10, <1>11, <1>12
  <1> HIDE DEF r
  <1>14. QED
    BY <1>1, <1>5, <1>13, OneKeeps

LEMMA WriteReadyKeeps ==
    ASSUME Lives, NEW s \in Slots, WriteReady(s) PROVE SessionsKeep /\ SameLives
  <1> DEFINE w == Settle(session[s].w, FALSE)
             r == [session[s] EXCEPT !.w = w]
  <1>1. SessionOK /\ session[s] \in Lifecycle /\ SlotGood(session[s]) /\ session[s].w \in Writer
    BY SlotTypes, Unmoved DEF Lives, SlotsGood, Typed
  <1>2. CASE UNCHANGED session
    BY <1>2, AllKeep
  <1>3. CASE session[s].init = "failed" /\ session' = [session EXCEPT ![s] = r]
    <2>1. Active(session[s].w)
      BY DEF WriteReady
    <2>2. w \in Writer /\ w.batch = <<>> /\ w.pending = session[s].w.batch \o session[s].w.pending
          /\ w.pending # <<>>
      BY <1>1, <2>1, SettleIs, SettleGood DEF SlotGood
    <2>3. session[s].w.batch \in Seq(Nat) /\ session[s].w.pending \in Seq(Nat) /\ session[s].handed \in Nat
      BY <1>1 DEF Writer, Lifecycle
    <2> HIDE DEF w
    <2>4. /\ r \in Lifecycle /\ r.w = w /\ r.init = session[s].init /\ r.events = session[s].events
          /\ r.handed = session[s].handed /\ r.life = session[s].life
      BY <1>1, <2>2, MovedIs
    <2> HIDE DEF r
    <2>5. WrittenBy(r) = WrittenBy(session[s])
      <3> DEFINE h == session[s].handed
                 b == session[s].w.batch
                 p == session[s].w.pending
      <3>1. h \in Nat /\ b \in Seq(Nat) /\ p \in Seq(Nat) /\ r.handed = h /\ r.w.batch = <<>> /\ r.w.pending = b \o p
        BY <2>2, <2>3, <2>4
      <3>2. WrittenBy(session[s]) = h - Len(b) - Len(p)
        BY DEF WrittenBy
      <3> HIDE DEF h, b, p
      <3>3. Len(b \o p) = Len(b) + Len(p) /\ Len(b) \in Nat /\ Len(p) \in Nat /\ Len(<<>>) = 0
        BY <3>1
      <3>4. QED
        BY <3>1, <3>2, <3>3 DEF WrittenBy
    <2>6. SlotKeeps(session[s], r)
      BY <1>3, <2>2, <2>4, <2>5 DEF SlotKeeps, HasWork
    <2>7. QED
      BY <1>1, <1>3, <2>4, <2>6, OneKeeps
  <1>4. session[s].init = "failed" /\ session' = [session EXCEPT ![s].w = Settle(@, FALSE)] =>
           session' = [session EXCEPT ![s] = r]
    BY <1>1 DEF SessionOK
  <1>5. QED
    BY <1>2, <1>3, <1>4 DEF WriteReady

-----------------------------------------------------------------------------
(* Whose turn it is: at most one lifecycle is in the store; nothing retires *)
(* while one is, nor while the pool has an entry.                          *)

OnePresent == \A s, t \in Present : s = t
LiveAlone == \A s \in Slots : session[s].life = "live" => retiring = 0 /\ entry.phase = "none"
PoolWaits == entry.phase # "none" => retiring = 0

\* Whoever waits for a retirement waits for the one under way; whoever may
\* create the session has none to wait for.
CallersInTurn ==
    \A c \in Clients :
        /\ client[c].pc = "retirement" => client[c].on = retiring
        /\ client[c].pc = "absent" /\ Present = {} => retiring = 0

InTurn == OnePresent /\ LiveAlone /\ PoolWaits /\ CallersInTurn

\* A step that leaves the lifecycles in the store, and the retirement, as they are.
LEMMA TurnSame ==
    ASSUME InTurn, SameLives, UNCHANGED retiring,
           entry'.phase # "none" => entry.phase # "none" \/ (retiring = 0 /\ Present = {}),
           \A c \in Clients :
               \/ client'[c].pc = client[c].pc /\ client'[c].on = client[c].on
               \/ client'[c].pc \notin {"retirement", "absent"}
               \/ client'[c].pc = "retirement" /\ client'[c].on = retiring
               \/ client'[c].pc = "absent" /\ (retiring = 0 \/ Present # {})
    PROVE  InTurn'
  <1>1. Present' = Present
    BY DEF Present, SameLives
  <1>2. \A s \in Slots : session[s].life = "live" => s \in Present
    BY DEF Present
  <1>3. QED
    BY <1>1, <1>2 DEF InTurn, OnePresent, LiveAlone, PoolWaits, CallersInTurn, SameLives

\* What the answers to a caller are.
LEMMA AnswersIs ==
    ASSUME ClientOK, NEW c \in Clients
    PROVE  /\ Again(c).pc = "retirement" /\ Again(c).on = retiring
           /\ Retries(c) \in {Idle, Again(c)}
           /\ \A view : Told(c, view).pc = "idle"
           /\ Idle.pc = "idle"
           /\ Failed(c).pc = "idle" \/ (Failed(c).pc = "absent" /\ file.log = <<>> /\ Present = {})
           /\ Unseen(client)[c].pc = client[c].pc /\ Unseen(client)[c].on = client[c].on
           /\ client[c].pc # "absent" \/ client[c].pc # "retirement"
  <1>1. client[c] \in Caller
    BY DEF ClientOK
  <1>2. QED
    BY <1>1 DEF Retries, Again, Told, Failed, Idle, Unseen, Caller

\* One caller moves on.
LEMMA TurnCaller ==
    ASSUME Lives, InTurn, UNCHANGED <<session, retiring>>,
           entry'.phase # "none" => entry.phase # "none" \/ (retiring = 0 /\ Present = {}),
           NEW c \in Clients, NEW r, 
           client' = [client EXCEPT ![c] = r] \/ client' = [Unseen(client) EXCEPT ![c] = r],
           \/ r.pc = client[c].pc /\ r.on = client[c].on
           \/ r.pc \notin {"retirement", "absent"}
           \/ r.pc = "retirement" /\ r.on = retiring
           \/ r.pc = "absent" /\ (retiring = 0 \/ Present # {})
    PROVE  InTurn'
  <1>1. ClientOK /\ client \in [Clients -> Caller] /\ SameLives
    BY AllKeep DEF Lives, Typed, ClientOK
  <1>2. client'[c] = r
    BY <1>1 DEF Unseen
  <1>3. \A d \in Clients \ {c} : client'[d] = client[d] \/ client'[d] = Unseen(client)[d]
    BY <1>1 DEF Unseen
  <1>4. \A d \in Clients \ {c} : client'[d].pc = client[d].pc /\ client'[d].on = client[d].on
    BY <1>1, <1>3, AnswersIs
  <1>5. QED
    BY <1>1, <1>2, <1>4, TurnSame

LEMMA SettledSame ==
    ASSUME Lives, chain # <<>>, Running.kind \in {"write", "seed", "created"}, NEW ok,
           session' = Settled(Running, ok)
    PROVE  SameLives
  <1>1. session \in [Slots -> Lifecycle]
    BY DEF Lives, Typed, SessionOK
  <1>2. \A s \in Slots : session'[s].life = session[s].life
    <2>1. ASSUME NEW s \in Slots, NEW w PROVE [session[s] EXCEPT !.w = w].life = session[s].life
      BY <1>1 DEF Lifecycle
    <2>2. ASSUME NEW s \in Slots, NEW init PROVE [session[s] EXCEPT !.init = init].life = session[s].life
      BY <1>1 DEF Lifecycle
    <2>3. QED
      BY <1>1, <2>1, <2>2 DEF Settled
  <1>3. QED
    BY <1>2 DEF SameLives

\* The steps that leave the callers where they are.
LEMMA TurnQuiet ==
    ASSUME Lives, InTurn, SameLives, UNCHANGED retiring, entry' = entry \/ entry' = NoEntry,
           client' = client \/ client' = Unseen(client)
    PROVE  InTurn'
  <1>1. \A c \in Clients : client'[c].pc = client[c].pc /\ client'[c].on = client[c].on
    BY AnswersIs, Unmoved
  <1>2. QED
    BY <1>1, TurnSame DEF NoEntry

LEMMA WriterTurn ==
    ASSUME Lives, InTurn,
           \/ AppendBegin \/ AppendCommits \/ AppendFails \/ Created \/ CommitRepairs \/ Void
           \/ Evict \/ ForeignResume \/ Unload \/ UNCHANGED vars
           \/ \E s \in Slots : WriteReady(s) \/ Emit(s) \/ Checkpoint(s) \/ Deadline(s)
    PROVE  InTurn'
  <1>1. CASE AppendBegin
    <2>1. chain # <<>> /\ Running.kind \in {"write", "seed"} /\ UNCHANGED <<entry, retiring, client>>
          /\ (UNCHANGED session \/ \E ok \in BOOLEAN : session' = Settled(Running, ok))
      BY <1>1, AppendBeginIs
    <2>2. QED
      BY <2>1, SettledSame, AllKeep, TurnQuiet
  <1>2. CASE AppendCommits \/ AppendFails
    <2>1. chain # <<>> /\ Running.kind \in {"write", "seed"} /\ UNCHANGED retiring
          /\ (client' = client \/ client' = Unseen(client)) /\ (entry' = entry \/ entry' = NoEntry)
          /\ \E ok \in BOOLEAN : session' = Settled(Running, ok)
      BY <1>2 DEF AppendCommits, AppendFails, Appending, Head1, Running
    <2>2. QED
      BY <2>1, SettledSame, TurnQuiet
  <1>3. CASE Created
    <2>1. /\ Running.who \in Slots /\ UNCHANGED <<entry, retiring, client>>
          /\ UNCHANGED session \/ \E init : session' = [session EXCEPT ![Running.who].init = init]
      BY <1>3, CreatedIs
    <2>2. SameLives
      <3>1. ASSUME NEW init, session' = [session EXCEPT ![Running.who].init = init] PROVE SameLives
        <4> DEFINE r == [session[Running.who] EXCEPT !.init = init]
        <4>1. session \in [Slots -> Lifecycle] /\ session' = [session EXCEPT ![Running.who] = r]
          BY <3>1, Unmoved DEF Typed, SessionOK
        <4>2. r.life = session[Running.who].life
          BY <2>1, <4>1 DEF Lifecycle
        <4> HIDE DEF r
        <4>3. QED
          BY <2>1, <4>1, <4>2 DEF SameLives
      <3>2. QED
        BY <2>1, <3>1, AllKeep
    <2>3. QED
      BY <2>1, <2>2, TurnQuiet
  <1>4. CASE CommitRepairs \/ Void \/ Evict \/ ForeignResume \/ UNCHANGED vars
    <2>1. UNCHANGED <<session, retiring>> /\ (client' = client \/ client' = Unseen(client))
          /\ (entry' = entry \/ entry' = NoEntry)
      BY <1>4 DEF CommitRepairs, Void, Evict, ForeignResume, vars
    <2>2. QED
      BY <2>1, AllKeep, TurnQuiet
  <1>5. CASE Unload
    <2>1. UNCHANGED <<entry, retiring, client>>
      BY <1>5 DEF Unload
    <2>2. QED
      BY <1>5, <2>1, UnloadKeeps, TurnQuiet
  <1>6. ASSUME NEW s \in Slots, WriteReady(s) \/ Emit(s) \/ Checkpoint(s) \/ Deadline(s) PROVE InTurn'
    <2>1. UNCHANGED <<entry, retiring, client>>
      BY <1>6 DEF WriteReady, Emit, Checkpoint, Deadline
    <2>2. QED
      BY <1>6, <2>1, WriteReadyKeeps, EmitKeeps, CheckpointKeeps, DeadlineKeeps, TurnQuiet
  <1>7. QED
    BY <1>1, <1>2, <1>3, <1>4, <1>5, <1>6

\* Those who wait for a retirement wait for the one that is answered, or for none.
LEMMA AnswerTurn ==
    ASSUME Lives, InTurn, SameLives, UNCHANGED entry, NEW s \in Slots, AnswerFor(s)
    PROVE  InTurn'
  <1>1. CASE UNCHANGED <<retiring, client>>
    BY <1>1, TurnQuiet
  <1>2. ASSUME NEW who, NEW ok \in BOOLEAN, Answer(s, who, ok) PROVE InTurn'
    <2> DEFINE failed == ~ok /\ "retire" \in who
    <2>1. /\ retiring' = IF failed /\ retiring = s THEN 0 ELSE retiring
          /\ client' = [c \in Clients |->
                IF failed /\ client[c].pc = "retirement" /\ client[c].on = s
                THEN Failed(c) ELSE client[c]]
      BY <1>2 DEF Answer
    <2> HIDE DEF failed
    <2>2. CASE ~(failed /\ retiring = s)
      <3>1. UNCHANGED retiring
        BY <2>1, <2>2
      <3>2. \A c \in Clients : client'[c] = client[c]
        BY <2>1, <2>2 DEF InTurn, CallersInTurn
      <3>3. QED
        BY <3>1, <3>2, TurnSame
    <2>3. CASE failed /\ retiring = s
      <3>1. retiring' = 0 /\ Present' = Present
        BY <2>1, <2>3 DEF SameLives, Present
      <3>2. ASSUME NEW c \in Clients PROVE client'[c].pc # "retirement"
        <4>1. client[c].pc = "retirement" => client[c].on = s
          BY <2>3 DEF InTurn, CallersInTurn
        <4>2. Failed(c).pc # "retirement"
          BY AnswersIs, Unmoved
        <4>3. QED
          BY <2>1, <2>3, <4>1, <4>2
      <3>3. QED
        BY <3>1, <3>2 DEF InTurn, OnePresent, LiveAlone, PoolWaits, CallersInTurn, SameLives
    <2>4. QED
      BY <2>2, <2>3
  <1>3. QED
    BY <1>1, <1>2 DEF AnswerFor

LEMMA FlushTurn ==
    ASSUME Lives, InTurn, NEW s \in Slots, FlushReady(s) \/ Proceed(s) PROVE InTurn'
  <1>1. UNCHANGED entry
    BY DEF FlushReady, Proceed
  <1>2. QED
    BY <1>1, FlushReadyKeeps, ProceedKeeps, AnswerTurn

-----------------------------------------------------------------------------
(* The callers, in turn.                                                   *)

LEMMA LookTurn ==
    ASSUME Lives, InTurn, NEW c \in Clients, NEW cl \in Caller, Look(c, cl), UNCHANGED <<session, retiring>>,
           retiring = 0
    PROVE  InTurn'
  <1>1. \E r : client' = [client EXCEPT ![c] = r] /\ r.pc # "retirement"
    <2>1. CASE Present # {}
      BY <2>1, AnswersIs, Unmoved DEF Look
    <2>2. CASE Present = {}
      <3> DEFINE loaded == cl.does = "inspect" /\ entry.phase \notin {"none", "loading"}
                 pc == IF loaded THEN "loaded" ELSE "entry"
                 src == IF loaded THEN entry.src ELSE NoFile
                 r == [cl EXCEPT !.pc = pc, !.seen = TRUE, !.src = src]
      <3>1. client' = [client EXCEPT ![c] = r] /\ pc # "retirement"
        BY <2>2 DEF Look
      <3> HIDE DEF pc, src
      <3>2. r.pc = pc
        BY DEF Caller
      <3>3. QED
        BY <3>1, <3>2
    <2>3. QED
      BY <2>1, <2>2
  <1>2. entry'.phase # "none" => entry.phase # "none" \/ (retiring = 0 /\ Present = {})
    BY DEF Look
  <1>3. QED
    BY <1>1, <1>2, TurnCaller

LEMMA AskTurn == ASSUME Lives, InTurn, NEW c \in Clients, Ask(c) PROVE InTurn'
  <1> DEFINE cl == [Idle EXCEPT !.does = "inspect", !.floor = file.log]
  <1>1. UNCHANGED <<session, retiring>>
    BY DEF Ask
  <1>2. cl \in Caller /\ cl = [Idle EXCEPT !.does = "inspect", !.floor = file.log]
    <2>1. Idle \in Caller /\ file.log \in Seq(Event)
      BY CallerTypes, Unmoved DEF FileOK, Source
    <2>2. QED
      BY <2>1 DEF Caller
  <1>3. CASE retiring = 0 /\ Look(c, cl)
    BY <1>1, <1>2, <1>3, LookTurn
  <1>4. ASSUME NEW r \in Caller, client' = [client EXCEPT ![c] = [r EXCEPT !.pc = "retirement", !.on = retiring]],
               UNCHANGED entry
        PROVE  InTurn'
    <2> DEFINE v == [r EXCEPT !.pc = "retirement", !.on = retiring]
    <2>1. v.pc = "retirement" /\ v.on = retiring
      BY DEF Caller
    <2> HIDE DEF v
    <2>2. client' = [client EXCEPT ![c] = v]
      BY <1>4 DEF v
    <2>3. QED
      BY <1>1, <1>4, <2>1, <2>2, TurnCaller
  <1>5. Idle \in Caller
    BY CallerTypes, Unmoved
  <1> HIDE DEF cl
  <1>6. QED
    BY <1>2, <1>3, <1>4, <1>5 DEF Ask, cl

LEMMA RetiredTurn == ASSUME Lives, InTurn, NEW c \in Clients, Retired(c) PROVE InTurn'
  <1>1. UNCHANGED <<session, retiring>> /\ retiring = 0 /\ client[c] \in Caller /\ Look(c, client[c])
    BY CallerTypes, Unmoved DEF Retired, InTurn, CallersInTurn
  <1>2. QED
    BY <1>1, LookTurn

\* A caller that is done with its entry.
LEMMA DropTurn ==
    ASSUME Lives, InTurn, NEW c \in Clients, NEW q, NEW r, Drop(c, q, r), UNCHANGED <<session, retiring>>,
           \/ r.pc \notin {"retirement", "absent"}
           \/ r.pc = "retirement" /\ r.on = retiring
           \/ r.pc = "absent" /\ retiring = 0
    PROVE  InTurn'
  <1>1. /\ client' = [client EXCEPT ![c] = r] \/ client' = [Unseen(client) EXCEPT ![c] = r]
        /\ entry' = entry \/ entry' = NoEntry
    BY DEF Drop
  <1>2. QED
    BY <1>1, TurnCaller DEF NoEntry

LEMMA CommitTurn ==
    ASSUME Lives, Pool, InTurn,
           CommitOwned \/ CommitFails \/ CommitStale \/ Truncate \/ Repair \/ Commits
    PROVE  InTurn'
  <1> DEFINE c == Running.who
  <1>1. UNCHANGED <<session, retiring>> /\ Head1("commit")
    BY DEF CommitOwned, CommitFails, CommitStale, Truncate, Repair, Commits, CommitThrows
  <1>2. c \in Clients /\ file.log # <<>>
    BY <1>1, RunningCommit
  <1>3. /\ Failed(c).pc = "idle" /\ Again(c).pc = "retirement" /\ Again(c).on = retiring
        /\ Retries(c) \in {Idle, Again(c)} /\ Idle.pc = "idle"
    BY <1>2, AnswersIs, Unmoved
  <1> HIDE DEF c
  <1>4. CASE Drop(c, Tail(chain), Failed(c)) \/ Drop(c, Tail(chain), Again(c)) \/ Drop(c, Tail(chain), Retries(c))
    BY <1>1, <1>2, <1>3, <1>4, DropTurn
  <1>5. CASE CommitOwned \/ CommitFails \/ CommitStale \/ Repair
    BY <1>4, <1>5 DEF CommitOwned, CommitFails, CommitStale, Repair, CommitThrows, c
  <1>6. CASE Truncate
    <2>1. UNCHANGED <<entry, client>> \/ Drop(c, Tail(chain), Retries(c))
      BY <1>6 DEF Truncate, c
    <2>2. QED
      BY <1>1, <1>4, <2>1, AllKeep, TurnQuiet
  <1>7. CASE Commits
    <2>1. \/ Drop(c, Tail(chain), IF client[c].seen THEN Failed(c) ELSE Again(c))
          \/ client' = [client EXCEPT ![c] = Idle] /\ (entry' = entry \/ client[c].seen)
          \/ /\ client' = [client EXCEPT ![c].pc = "reserved", ![c].log = Seeded(Running.src.log)]
             /\ entry' = [entry EXCEPT !.phase = "reserved"] /\ client[c].seen
      BY <1>7 DEF Commits, c
    <2>2. entry \in Preparation /\ (client[c].seen => entry.phase = "committing")
      BY <1>1, RunningCommit, Unmoved DEF EntryOK, c
    <2>3. CASE client' = [client EXCEPT ![c] = Idle] /\ (entry' = entry \/ client[c].seen)
      <3>1. Idle.pc = "idle"
        BY <1>2, AnswersIs, Unmoved
      <3>2. entry'.phase # "none" => entry.phase # "none" \/ (retiring = 0 /\ Present = {})
        BY <2>2, <2>3
      <3>3. QED
        BY <1>1, <1>2, <2>3, <3>1, <3>2, TurnCaller
    <2>4. CASE /\ client' = [client EXCEPT ![c].pc = "reserved", ![c].log = Seeded(Running.src.log)]
               /\ client[c].seen
      <3> DEFINE log == Seeded(Running.src.log)
                 r == [client[c] EXCEPT !.pc = "reserved", !.log = log]
      <3>1. client' = [client EXCEPT ![c] = r]
        BY <2>4
      <3> HIDE DEF log
      <3>2. r.pc = "reserved"
        BY <1>2, Unmoved DEF ClientOK, Caller
      <3> HIDE DEF r
      <3>3. entry.phase # "none"
        BY <2>2, <2>4
      <3>4. QED
        BY <1>1, <1>2, <3>1, <3>2, <3>3, TurnCaller
    <2>5. QED
      BY <1>4, <2>1, <2>3, <2>4
  <1>8. QED
    BY <1>5, <1>6, <1>7

LEMMA CallerTurn ==
    ASSUME Lives, Pool, InTurn, NEW c \in Clients,
           \/ EntryLost(c) \/ Inspect(c) \/ Reserve(c) \/ Setup(c) \/ Release(c) \/ GiveUp(c) \/ Abort(c)
    PROVE  InTurn'
  <1>1. UNCHANGED <<session, retiring>>
    BY DEF EntryLost, Inspect, Reserve, Setup, Release, GiveUp, Abort
  <1>2. /\ Again(c).pc = "retirement" /\ Again(c).on = retiring /\ Idle.pc = "idle"
        /\ \A view : Told(c, view).pc = "idle"
        /\ Failed(c).pc = "idle" \/ (Failed(c).pc = "absent" /\ file.log = <<>>)
    BY AnswersIs, Unmoved
  <1>3. client[c] \in Caller /\ entry \in Preparation
    BY Unmoved DEF ClientOK, EntryOK
  <1>4. ASSUME NEW pc, pc \notin {"retirement", "absent"}, client' = [client EXCEPT ![c].pc = pc],
               entry'.phase # "none" => entry.phase # "none"
        PROVE  InTurn'
    <2> DEFINE r == [client[c] EXCEPT !.pc = pc]
    <2>1. r.pc = pc /\ client' = [client EXCEPT ![c] = r]
      BY <1>3, <1>4 DEF Caller
    <2> HIDE DEF r
    <2>2. QED
      BY <1>1, <1>4, <2>1, TurnCaller
  <1>5. CASE EntryLost(c) \/ GiveUp(c)
    BY <1>1, <1>2, <1>5, TurnCaller DEF EntryLost, GiveUp
  <1>6. CASE Inspect(c)
    <2>1. UNCHANGED entry /\ (client' = [client EXCEPT ![c] = Told(c, LiveView)] \/ client' = [client EXCEPT ![c].pc = "check"])
      BY <1>6 DEF Inspect
    <2>2. QED
      BY <1>1, <1>2, <1>4, <2>1, TurnCaller
  <1>7. CASE Reserve(c)
    <2>1. client' = [client EXCEPT ![c].pc = "commit"] /\ entry.phase # "none"
      BY <1>7 DEF Reserve
    <2> DEFINE pc == "commit"
    <2>2. pc \notin {"retirement", "absent"} /\ client' = [client EXCEPT ![c].pc = pc]
      BY <2>1
    <2> HIDE DEF pc
    <2>3. QED
      BY <1>4, <2>1, <2>2
  <1>8. CASE Setup(c)
    <2> DEFINE log == Append(client[c].log, [kind |-> "note", by |-> 0])
               r == [client[c] EXCEPT !.log = log]
    <2>1. client' = [client EXCEPT ![c] = r] /\ UNCHANGED entry
      BY <1>3, <1>8 DEF Setup
    <2> HIDE DEF log
    <2>2. r.pc = client[c].pc /\ r.on = client[c].on
      BY <1>3 DEF Caller
    <2> HIDE DEF r
    <2>3. QED
      BY <1>1, <2>1, <2>2, TurnCaller
  <1>9. CASE Release(c)
    <2>1. file.log # <<>> /\ entry.phase = "reserved"
      BY <1>9 DEF Release, Pool, LogStored, HoldersGood, Holding
    <2>2. \/ client' = [client EXCEPT ![c] = Failed(c)]
          \/ Drop(c, chain, Failed(c))
      BY <1>9 DEF Release
    <2>3. CASE client' = [client EXCEPT ![c] = Failed(c)]
      BY <1>1, <1>2, <2>1, <2>3, TurnCaller
    <2>4. QED
      BY <1>1, <1>2, <2>1, <2>2, <2>3, DropTurn
  <1>10. CASE Abort(c)
    <2>1. \/ client' = [client EXCEPT ![c] = Idle] /\ UNCHANGED entry
          \/ \E q : Drop(c, q, Idle)
          \/ client' = [client EXCEPT ![c].cut = TRUE] /\ UNCHANGED entry
      BY <1>10 DEF Abort
    <2>2. CASE client' = [client EXCEPT ![c].cut = TRUE] /\ UNCHANGED entry
      <3> DEFINE r == [client[c] EXCEPT !.cut = TRUE]
      <3>1. r.pc = client[c].pc /\ r.on = client[c].on /\ client' = [client EXCEPT ![c] = r]
        BY <1>3, <2>2 DEF Caller
      <3> HIDE DEF r
      <3>2. QED
        BY <1>1, <2>2, <3>1, TurnCaller
    <2>3. QED
      BY <1>1, <1>2, <2>1, <2>2, TurnCaller, DropTurn
  <1>11. QED
    BY <1>5, <1>6, <1>7, <1>8, <1>9, <1>10

LEMMA CheckTurn == ASSUME Lives, Pool, InTurn, Check \/ CheckFails PROVE InTurn'
  <1> DEFINE c == Running.who
  <1>1. UNCHANGED <<session, retiring>>
    BY DEF Check, CheckFails
  <1>2. c \in Clients
    <2>1. chain # <<>> /\ Running.kind = "check"
      BY DEF Check, CheckFails, Head1, Running
    <2>2. QED
      BY <2>1, RunningIs, Unmoved
  <1>3. \E r : /\ client' = [client EXCEPT ![c] = r] \/ client' = [Unseen(client) EXCEPT ![c] = r]
               /\ r.pc = "idle" \/ (r.pc = "retirement" /\ r.on = retiring)
    <2>1. /\ Again(c).pc = "retirement" /\ Again(c).on = retiring /\ Idle.pc = "idle"
          /\ \A view : Told(c, view).pc = "idle"
      BY <1>2, AnswersIs, Unmoved
    <2> DEFINE told == Told(c, IF Present # {} THEN LiveView ELSE Balanced(client[c].src))
    <2>2. \/ client' = [client EXCEPT ![c] = told] \/ client' = [client EXCEPT ![c] = Idle]
          \/ client' = [Unseen(client) EXCEPT ![c] = Again(c)] \/ client' = [client EXCEPT ![c] = Again(c)]
      BY DEF Check, CheckFails
    <2>3. told.pc = "idle"
      BY <2>1
    <2> HIDE DEF c, told
    <2>4. QED
      BY <2>1, <2>2, <2>3
  <1>4. entry' = entry \/ entry' = NoEntry
    BY DEF Check, CheckFails
  <1> HIDE DEF c
  <1>5. QED
    BY <1>1, <1>2, <1>3, <1>4, TurnCaller DEF NoEntry

LEMMA LoadTurn == ASSUME Lives, Pool, InTurn, Load \/ NothingToLoad \/ LoadFails PROVE InTurn'
  <1>1. /\ chain # <<>> /\ Running.kind = "load" /\ Running \in Operation /\ 1 \in DOMAIN chain
        /\ Running = chain[1] /\ SameLives /\ UNCHANGED retiring
    <2>1. Head1("load") /\ UNCHANGED <<session, retiring>>
      BY DEF Load, NothingToLoad, LoadFails, LoadThrows
    <2>2. QED
      BY <2>1, RunningIs, TailIs, Unmoved, AllKeep DEF Head1, Running, ChainOK
  <1>2. Running.mine => entry.phase = "loading"
    BY <1>1 DEF Pool, LoadsGood, Mine
  <1>3. ~Running.mine => file.log # <<>>
    BY <1>1 DEF Pool, LogStored
  <1>4. CASE Load
    <2>1. entry'.phase # "none" => entry.phase # "none"
      BY <1>2, <1>4 DEF Load
    <2>2. ASSUME NEW c \in Clients
          PROVE  \/ client'[c].pc = client[c].pc /\ client'[c].on = client[c].on
                 \/ client'[c].pc \notin {"retirement", "absent"}
      <3>1. [client[c] EXCEPT !.pc = "loaded", !.src = file].pc = "loaded"
        BY Unmoved DEF ClientOK, Caller
      <3>2. QED
        BY <1>4, <3>1 DEF Load
    <2>3. QED
      BY <1>1, <2>1, <2>2, TurnSame
  <1>5. CASE NothingToLoad \/ LoadFails
    <2>1. LoadThrows /\ (file = NoFile \/ Present # {} \/ file.log # <<>>)
      BY <1>5 DEF NothingToLoad, LoadFails, Pool, LogStored
    <2>2. entry'.phase # "none" => entry.phase # "none"
      BY <2>1 DEF LoadThrows, NoEntry
    <2>3. ASSUME NEW c \in Clients
          PROVE  \/ client'[c].pc = client[c].pc /\ client'[c].on = client[c].on
                 \/ client'[c].pc \notin {"retirement", "absent"}
                 \/ client'[c].pc = "absent" /\ retiring = 0
      <3>1. \/ client'[c] = client[c] \/ client'[c] = Told(c, LiveView) \/ client'[c] = Failed(c)
        BY <2>1 DEF LoadThrows
      <3>2. Failed(c).pc = "idle" \/ (Failed(c).pc = "absent" /\ file.log = <<>>)
        BY AnswersIs, Unmoved
      <3>3. file.log = <<>> => retiring = 0
        BY <1>2, <1>3 DEF InTurn, PoolWaits
      <3>4. Told(c, LiveView).pc = "idle"
        BY AnswersIs, Unmoved
      <3>5. QED
        BY <3>1, <3>2, <3>3, <3>4
    <2>4. QED
      BY <1>1, <2>2, <2>3, TurnSame
  <1>6. QED
    BY <1>4, <1>5

-----------------------------------------------------------------------------
(* Lifecycles come and go, in turn.                                        *)

LEMMA EndTurn == ASSUME Lives, InTurn, NEW s \in Slots, End(s) PROVE InTurn'
  <1>1. UNCHANGED <<entry, client>> /\ session[s].life \in {"live", "vetoed"}
    BY DEF End
  <1>2. \A c \in Clients : client[c].pc # "absent" /\ (client[c].pc = "retirement" => client[c].on # 0)
    BY DEF End, Quiet, Microtasks
  <1>3. session'[s].life \notin {"live", "vetoed"} /\ \A t \in Slots \ {s} : session'[t] = session[t]
    <2>1. SessionOK /\ session[s] \in Lifecycle
      BY SlotTypes DEF Lives, Typed
    <2>2. \E r \in {[CallFlush(session[s], "retire") EXCEPT !.life = "ended"],
                    [session[s] EXCEPT !.life = "ended"], Unused} : session' = [session EXCEPT ![s] = r]
      BY <2>1 DEF End, SessionOK
    <2>3. \A r \in {[CallFlush(session[s], "retire") EXCEPT !.life = "ended"],
                    [session[s] EXCEPT !.life = "ended"], Unused} : r.life \in {"ended", "none"}
      <3>1. [session[s] EXCEPT !.life = "ended"].life = "ended" /\ Unused.life = "none"
        BY <2>1 DEF Lifecycle, Unused
      <3>2. [CallFlush(session[s], "retire") EXCEPT !.life = "ended"].life = "ended"
        <4>1. \A f : "life" \in DOMAIN f => [f EXCEPT !.life = "ended"].life = "ended"
          OBVIOUS
        <4>2. "life" \in DOMAIN CallFlush(session[s], "retire")
          BY <2>1 DEF CallFlush, Lifecycle
        <4>3. QED
          BY <4>1, <4>2
      <3>3. QED
        BY <3>1, <3>2
    <2>4. QED
      BY <2>1, <2>2, <2>3 DEF SessionOK
  <1>4. \A t \in Present' : t \in Present /\ t # s
    BY <1>3 DEF Present
  <1>5. \A t \in Slots : session'[t].life # "live"
    BY <1>1, <1>3, <1>4 DEF InTurn, OnePresent, Present
  <1>6. (entry.phase # "none" => retiring' = 0) /\ (retiring' = retiring \/ retiring = 0)
    BY DEF End, InTurn, LiveAlone, PoolWaits
  <1>7. \A c \in Clients : client[c].pc = "retirement" => client[c].on = retiring'
    BY <1>2, <1>6 DEF InTurn, CallersInTurn
  <1>8. QED
    BY <1>1, <1>2, <1>4, <1>5, <1>6, <1>7 DEF InTurn, OnePresent, LiveAlone, PoolWaits, CallersInTurn

\* What the running retirement releases.
LEMMA RetireIs ==
    ASSUME Lives, Retire
    PROVE  /\ chain # <<>> /\ Running.kind = "retire" /\ Running.who \in Slots
           /\ session[Running.who].life = "ended" /\ session[Running.who].init = "ok"
           /\ session' = [session EXCEPT ![Running.who] = Unused] /\ SessionOK
           /\ retiring' = IF retiring = Running.who THEN 0 ELSE retiring
  <1>1. chain # <<>> /\ Running.kind = "retire" /\ Running.who \in Slots /\ Serves(Running, session[Running.who])
    <2>1. Head1("retire")
      BY DEF Retire
    <2>2. Running \in Operation /\ 1 \in DOMAIN chain /\ Running = chain[1] /\ Running.kind = "retire" /\ chain # <<>>
      BY <2>1, TailIs DEF Head1, Running, Lives, Typed, ChainOK
    <2>3. QED
      BY <2>2, OperationIs DEF Lives, AllServe, SlotKinds
  <1>2. QED
    BY <1>1 DEF Retire, Serves, Lives, Typed

LEMMA RetireTurn == ASSUME Lives, InTurn, Retire PROVE InTurn'
  <1> DEFINE s == Running.who
  <1>1. /\ s \in Slots /\ session[s].life = "ended" /\ session' = [session EXCEPT ![s] = Unused] /\ SessionOK
        /\ retiring' = IF retiring = s THEN 0 ELSE retiring
    BY RetireIs
  <1>2. UNCHANGED entry /\ client' = [c \in Clients |->
            IF client[c].pc = "retirement" /\ client[c].on = s THEN [client[c] EXCEPT !.on = 0] ELSE client[c]]
    BY DEF Retire
  <1> HIDE DEF s
  <1>3. Unused.life = "none"
    BY DEF Unused
  <1>4. \A t \in Slots : session'[t].life = session[t].life \/ (t = s /\ session'[t].life = "none")
    BY <1>1, <1>3 DEF SessionOK
  <1>5. Present' = Present /\ \A t \in Slots : session'[t].life = "live" => session[t].life = "live"
    BY <1>1, <1>4 DEF Present
  <1>6. \A c \in Clients : /\ client'[c].pc = client[c].pc
                           /\ client[c].pc = "retirement" => client'[c].on = IF client[c].on = s THEN 0 ELSE client[c].on
    BY <1>2, Unmoved DEF ClientOK, Caller
  <1>7. retiring = 0 => retiring' = 0
    BY <1>1
  <1>8. QED
    BY <1>1, <1>2, <1>5, <1>6, <1>7 DEF InTurn, OnePresent, LiveAlone, PoolWaits, CallersInTurn

\* A lifecycle enters an empty store, and the callers move on.
LEMMA EnterTurn ==
    ASSUME Lives, InTurn, Present = {}, retiring = 0, NEW s \in Free, NEW r, r.life # "live" \/ entry'.phase = "none",
           session' = [session EXCEPT ![s] = r], UNCHANGED retiring,
           \A c \in Clients :
               \/ client'[c].pc = client[c].pc /\ client'[c].on = client[c].on
               \/ client'[c].pc \notin {"retirement", "absent"}
    PROVE  InTurn'
  <1>1. SessionOK /\ s \in Slots
    BY DEF Lives, Typed, Free
  <1>2. \A t \in Slots : session'[t] = IF t = s THEN r ELSE session[t]
    BY <1>1 DEF SessionOK
  <1>3. \A t \in Present' : t = s
    BY <1>2 DEF Present
  <1>4. \A t \in Slots : session'[t].life = "live" => t = s
    BY <1>3 DEF Present
  <1>5. QED
    BY <1>1, <1>2, <1>3, <1>4 DEF InTurn, OnePresent, LiveAlone, PoolWaits, CallersInTurn

LEMMA PublishTurn == ASSUME Lives, Pool, InTurn, NEW c \in Clients, Publish(c) PROVE InTurn'
  <1>1. entry.phase = "reserved" /\ retiring = 0 /\ Present = {}
    BY DEF Publish, Pool, HoldersGood, InTurn, PoolWaits
  <1>2. PICK s \in NextSlot : AttachPrepared(s, client[c].log)
    BY DEF Publish
  <1>3. \E r : session' = [session EXCEPT ![s] = r]
    BY <1>2 DEF AttachPrepared, Enter
  <1>4. entry' = NoEntry /\ client' = [Unseen(client) EXCEPT ![c] = Idle] /\ UNCHANGED retiring
    BY <1>2 DEF Publish, AttachPrepared
  <1>5. ASSUME NEW d \in Clients
        PROVE  \/ client'[d].pc = client[d].pc /\ client'[d].on = client[d].on
               \/ client'[d].pc \notin {"retirement", "absent"}
    <2>1. DOMAIN Unseen(client) = Clients
      BY DEF Unseen
    <2>2. client'[d] = IF d = c THEN Idle ELSE Unseen(client)[d]
      BY <1>4, <2>1
    <2>3. Idle.pc = "idle" /\ Unseen(client)[d].pc = client[d].pc /\ Unseen(client)[d].on = client[d].on
      BY AnswersIs, Unmoved
    <2>4. QED
      BY <2>2, <2>3
  <1>6. entry'.phase = "none" /\ s \in Free
    BY <1>2, <1>4 DEF NoEntry, NextSlot
  <1>7. QED
    BY <1>1, <1>3, <1>4, <1>5, <1>6, EnterTurn

LEMMA CreateTurn == ASSUME Lives, InTurn, NEW c \in Clients, Create(c) PROVE InTurn'
  <1>1. client' = [client EXCEPT ![c] = Idle] /\ UNCHANGED retiring /\ Idle.pc = "idle"
    BY AnswersIs, Unmoved DEF Create
  <1>2. CASE Present # {}
    BY <1>1, <1>2, TurnCaller DEF Create
  <1>3. CASE Present = {}
    <2>1. retiring = 0
      BY <1>3 DEF Create, InTurn, CallersInTurn
    <2>2. PICK s \in Free : \E r : /\ session' = [session EXCEPT ![s] = r]
                                   /\ r.life # "live" \/ entry' = NoEntry
      <3>1. [Unused EXCEPT !.life = "vetoed"].life # "live"
        BY UnusedGood DEF Unused
      <3>2. QED
        BY <1>3, <3>1 DEF Create, AttachNew, Enter, Veto, NextSlot
    <2>3. \A d \in Clients :
               \/ client'[d].pc = client[d].pc /\ client'[d].on = client[d].on
               \/ client'[d].pc \notin {"retirement", "absent"}
      BY <1>1, Unmoved DEF ClientOK
    <2>4. PICK r : session' = [session EXCEPT ![s] = r] /\ (r.life # "live" \/ entry' = NoEntry)
      BY <2>2
    <2>5. NoEntry.phase = "none"
      BY DEF NoEntry
    <2>6. QED
      BY <1>1, <1>3, <2>1, <2>3, <2>4, <2>5, EnterTurn
  <1>4. QED
    BY <1>2, <1>3

LEMMA EmptyTurn ==
    ASSUME entry' = NoEntry, retiring' = 0, \A s, t \in Present' : s = t,
           \A c \in Clients : client'[c].pc # "retirement"
    PROVE  InTurn'
  BY DEF InTurn, OnePresent, LiveAlone, PoolWaits, CallersInTurn, NoEntry

LEMMA CrashTurn == ASSUME Crash PROVE InTurn'
  <1>1. entry' = NoEntry /\ retiring' = 0 /\ session' = [s \in Slots |-> Unused] /\ client' = [c \in Clients |-> Idle]
    BY DEF Crash
  <1>2. Unused.life = "none" /\ Idle.pc = "idle"
    BY DEF Unused, Idle
  <1>3. QED
    BY <1>1, <1>2, EmptyTurn DEF Present

LEMMA ReloadTurn == ASSUME Lives, Stopped, InTurn, Reload PROVE InTurn'
  <1>1. entry' = NoEntry /\ retiring' = 0 /\ UNCHANGED client /\ AllIdle
    BY DEF Reload, Stopped
  <1>2. \A s \in Present' : s \in Present
    BY DEF Reload, Present, Unused
  <1>3. QED
    BY <1>1, <1>2, EmptyTurn DEF AllIdle, InTurn, OnePresent

LEMMA InitTurn == Init => InTurn
  <1> SUFFICES ASSUME Init PROVE InTurn
    OBVIOUS
  <1>1. Unused.life = "none" /\ Idle.pc = "idle" /\ NoEntry.phase = "none"
    BY DEF Unused, Idle, NoEntry
  <1>2. QED
    BY <1>1 DEF Init, InTurn, OnePresent, LiveAlone, PoolWaits, CallersInTurn, Present

LEMMA NextTurn == Lives /\ Pool /\ Stopped /\ InTurn /\ [Next]_vars => InTurn'
  <1> SUFFICES ASSUME Lives, Pool, Stopped, InTurn, [Next]_vars PROVE InTurn'
    OBVIOUS
  <1>1. CASE Microtask
    BY <1>1, FlushTurn, WriterTurn, RetiredTurn, CallerTurn DEF Microtask
  <1>2. CASE ChainStep
    BY <1>2, WriterTurn, RetireTurn, LoadTurn, CheckTurn, CommitTurn DEF ChainStep
  <1>3. CASE ChainFails
    BY <1>3, WriterTurn, LoadTurn, CheckTurn, CommitTurn DEF ChainFails
  <1>4. ASSUME NEW s \in Slots, Emit(s) \/ Checkpoint(s) \/ End(s) \/ Deadline(s) PROVE InTurn'
    BY <1>4, WriterTurn, EndTurn
  <1>5. ASSUME NEW c \in Clients, Ask(c) \/ Setup(c) \/ Conclude(c) \/ Abort(c) PROVE InTurn'
    BY <1>5, AskTurn, CallerTurn, PublishTurn, CreateTurn DEF Conclude
  <1>6. CASE Evict \/ ForeignResume \/ Crash \/ Unload \/ Reload \/ UNCHANGED vars
    BY <1>6, WriterTurn, CrashTurn, ReloadTurn
  <1>7. QED
    BY <1>1, <1>2, <1>3, <1>4, <1>5, <1>6 DEF Next

-----------------------------------------------------------------------------
(* Who owns the cursor.                                                    *)

Ok(s) == session[s].life \in {"live", "ended"} /\ session[s].init = "ok"
Secured(s) == HasWork(session[s].w) \/ tracked.cursor > 0

OwnerKnown == tracked.owner # 0 \/ tracked.cursor > 0 => tracked.known
OkOwns == \A s \in Slots : Ok(s) => tracked.owner = s

\* A seed is queued by the owner, to run next or beyond what is stored.
SeedsGood ==
    \A i \in DOMAIN chain : chain[i].kind = "seed" =>
        tracked.owner = chain[i].who /\ chain[i].batch # <<>> /\ (i = 1 \/ tracked.cursor > 0)

\* A lifecycle that nobody retires any more was refused, or keeps the id.
EndedGood ==
    up => \A s \in Slots : session[s].life = "ended" /\ retiring # s =>
        session[s].init = "failed" \/ (session[s].init = "ok" /\ Secured(s))

\* A created lifecycle collides with whoever owns the id, and nobody reserves
\* the id before it has run.
CreatedGood ==
    \A i \in DOMAIN chain : chain[i].kind = "created" =>
        /\ \A j \in DOMAIN chain : chain[j].kind = "created" => i = j
        /\ \A s \in Slots \ {chain[i].who} : Ok(s) => Secured(s)
        /\ ~(tracked.known /\ tracked.owner = 0)
        /\ \A j \in DOMAIN chain : chain[j].kind = "commit" => i < j

ReservedOwns == \A c \in Clients : client[c].pc = "reserved" => tracked.known /\ tracked.owner = 0

\* A repair under way found no owner, and finds none when it ends.
RepairsUnowned ==
    \A i \in DOMAIN chain : chain[i].kind = "commit" /\ chain[i].stage # "queued" => tracked.owner = 0

Owners ==
    OwnerKnown /\ OkOwns /\ SeedsGood /\ EndedGood /\ CreatedGood /\ ReservedOwns /\ RepairsUnowned

OwnKinds == {"seed", "created", "commit"}

\* The operation q is p, further on.
Continues(q, p) ==
    /\ q.kind = p.kind /\ q.who = p.who
    /\ q.kind = "seed" /\ p.batch # <<>> => q.batch # <<>>
    /\ q.kind = "commit" /\ q.stage # "queued" => p.stage # "queued" \/ tracked.owner = 0

OpsContinue(k) ==
    \A i \in DOMAIN chain' : chain'[i].kind \in OwnKinds =>
        i + k \in DOMAIN chain /\ Continues(chain'[i], chain[i + k])

OkStays ==
    \A s \in Slots : Ok(s)' =>
        (Ok(s) /\ (Secured(s) => Secured(s)')) \/ (tracked.owner = s /\ Secured(s)')
EndedStays ==
    up' => \A s \in Slots : session'[s].life = "ended" /\ retiring' # s =>
        session'[s].init = "failed" \/ (session'[s].init = "ok" /\ Secured(s)')
ReservedStays ==
    \A c \in Clients : client'[c].pc = "reserved" =>
        /\ client[c].pc = "reserved"
        /\ \/ client'[c].log = client[c].log
           \/ \E e \in Event : MayFollow(e, client[c].log) /\ client'[c].log = Append(client[c].log, e)

\* A step that leaves the owner, and the cursor or what is stored, as they are.
LEMMA OwnersKept ==
    ASSUME Lives, Lives', Owners, tracked'.owner = tracked.owner, tracked'.known = tracked.known,
           tracked' = tracked \/ (tracked'.cursor > 0 /\ tracked.known),
           NEW k \in Nat, OpsContinue(k), OkStays, EndedStays, ReservedStays
    PROVE  Owners'
  <1>1. DOMAIN chain \subseteq Nat /\ DOMAIN chain' \subseteq Nat /\ 1 \in Nat
        /\ \A i \in DOMAIN chain' : i > 0
    BY DEF Lives, Typed, ChainOK
  <1>2. OwnerKnown' /\ OkOwns' /\ EndedGood' /\ ReservedOwns'
    <2>1. OwnerKnown'
      BY DEF Owners, OwnerKnown
    <2>2. OkOwns'
      BY DEF Owners, OkOwns, OkStays
    <2>3. EndedGood' /\ ReservedOwns'
      BY DEF Owners, EndedStays, EndedGood, ReservedStays, ReservedOwns
    <2>4. QED
      BY <2>1, <2>2, <2>3
  <1>3. ASSUME NEW i \in DOMAIN chain', chain'[i].kind \in OwnKinds
        PROVE  i + k \in DOMAIN chain /\ Continues(chain'[i], chain[i + k])
    BY <1>3 DEF OpsContinue
  <1>4. SeedsGood'
    <2> SUFFICES ASSUME NEW i \in DOMAIN chain', chain'[i].kind = "seed"
                 PROVE  tracked.owner = chain'[i].who /\ chain'[i].batch # <<>> /\ (i = 1 \/ tracked'.cursor > 0)
      BY DEF SeedsGood
    <2>1. i + k \in DOMAIN chain /\ chain[i + k].kind = "seed" /\ chain[i + k].who = chain'[i].who
          /\ (chain[i + k].batch # <<>> => chain'[i].batch # <<>>)
      BY <1>3 DEF OwnKinds, Continues
    <2>2. i + k = 1 => i = 1
      BY <1>1
    <2>3. QED
      BY <2>1, <2>2 DEF Owners, SeedsGood
  <1>5. CreatedGood'
    <2> SUFFICES ASSUME NEW i \in DOMAIN chain', chain'[i].kind = "created"
                 PROVE  /\ \A j \in DOMAIN chain' : chain'[j].kind = "created" => i = j
                        /\ \A s \in Slots \ {chain'[i].who} : Ok(s)' => Secured(s)'
                        /\ ~(tracked.known /\ tracked.owner = 0)
                        /\ \A j \in DOMAIN chain' : chain'[j].kind = "commit" => i < j
      BY DEF CreatedGood
    <2>1. i + k \in DOMAIN chain /\ chain[i + k].kind = "created" /\ chain[i + k].who = chain'[i].who
      BY <1>3 DEF OwnKinds, Continues
    <2>2. /\ \A j \in DOMAIN chain : chain[j].kind = "created" => i + k = j
          /\ \A s \in Slots \ {chain'[i].who} : Ok(s) => Secured(s)
          /\ ~(tracked.known /\ tracked.owner = 0)
          /\ \A j \in DOMAIN chain : chain[j].kind = "commit" => i + k < j
      BY <2>1 DEF Owners, CreatedGood
    <2>3. ASSUME NEW j \in DOMAIN chain', chain'[j].kind \in {"created", "commit"}
          PROVE  (chain'[j].kind = "created" => i = j) /\ (chain'[j].kind = "commit" => i < j)
      <3>1. j + k \in DOMAIN chain /\ chain[j + k].kind = chain'[j].kind
        BY <1>3, <2>3 DEF OwnKinds, Continues
      <3>2. QED
        BY <1>1, <2>2, <3>1
    <2>4. \A s \in Slots \ {chain'[i].who} : Ok(s)' => Secured(s)'
      BY <2>2 DEF OkStays
    <2>5. QED
      BY <2>2, <2>3, <2>4
  <1>6. RepairsUnowned'
    <2> SUFFICES ASSUME NEW i \in DOMAIN chain', chain'[i].kind = "commit", chain'[i].stage # "queued"
                 PROVE  tracked.owner = 0
      BY DEF RepairsUnowned
    <2>1. i + k \in DOMAIN chain /\ Continues(chain'[i], chain[i + k])
      BY <1>3 DEF OwnKinds
    <2>2. QED
      BY <2>1 DEF Owners, RepairsUnowned, Continues
  <1>7. QED
    BY <1>2, <1>4, <1>5, <1>6 DEF Owners

WorkKinds == OwnKinds \cup {"write"}

\* The operations that concern the owner, and what is being written, were queued.
Keeps(k) ==
    \A i \in DOMAIN chain' : chain'[i].kind \in OwnKinds \/ Writing(chain'[i]) =>
        i + k \in DOMAIN chain /\ chain'[i] = chain[i + k]
KeepsOps == \E k \in Nat : Keeps(k)

LEMMA OpsFrom == ASSUME NEW k \in Nat, Keeps(k) PROVE OpsContinue(k)
  BY DEF Keeps, OpsContinue, Continues

LEMMA FromKeepsOps == ASSUME NEW k \in Nat, From(WorkKinds, chain', chain, k) PROVE KeepsOps
  BY DEF From, WorkKinds, Writing, OwnKinds, Keeps, KeepsOps

LEMMA KeepsOpsCases ==
    ASSUME ChainOK
    PROVE  /\ UNCHANGED chain => KeepsOps
           /\ chain # <<>> /\ chain' = Tail(chain) => KeepsOps
           /\ chain # <<>> /\ chain' = Orphaned(Tail(chain)) => KeepsOps
           /\ \A op \in Operation :
                 op.kind \notin OwnKinds /\ ~Writing(op) /\ chain' = Append(chain, op) => KeepsOps
  <1>1. chain \in Seq(Operation) /\ 0 \in Nat /\ 1 \in Nat /\ "load" \notin WorkKinds
    BY DEF ChainOK, OwnKinds, WorkKinds
  <1>2. UNCHANGED chain => KeepsOps
    BY <1>1, FromSame, FromKeepsOps
  <1>3. chain # <<>> => Tail(chain) \in Seq(Operation) /\ From(WorkKinds, Tail(chain), chain, 1)
    BY <1>1, TailIs
  <1>4. ASSUME chain # <<>>, chain' = Orphaned(Tail(chain)) PROVE KeepsOps
    <2>1. chain' \in Seq(Operation) /\ From(WorkKinds, chain', Tail(chain), 0)
      BY <1>1, <1>3, <1>4, OrphanedIs
    <2>2. QED
      BY <1>1, <1>4, <2>1, FromTail, FromKeepsOps
  <1>5. ASSUME NEW op \in Operation, op.kind \notin OwnKinds, ~Writing(op), chain' = Append(chain, op)
        PROVE  KeepsOps
    <2>1. Keeps(0)
      BY <1>1, <1>5, AppendIs DEF Keeps
    <2>2. QED
      BY <1>1, <2>1 DEF KeepsOps
  <1>6. ASSUME chain # <<>>, chain' = Tail(chain) PROVE KeepsOps
    BY <1>1, <1>3, <1>6, FromKeepsOps
  <1>7. QED
    BY <1>2, <1>4, <1>5, <1>6

\* A step of callers: no lifecycle moves.
Quietly == UNCHANGED <<tracked, session, retiring, up>> /\ KeepsOps /\ ReservedStays

LEMMA OwnersQuiet == ASSUME Lives, Lives', Owners, Quietly PROVE Owners'
  <1>1. OkStays /\ EndedStays
    BY DEF Quietly, OkStays, EndedStays, Owners, EndedGood, Ok, Secured
  <1>2. PICK k \in Nat : Keeps(k)
    BY DEF Quietly, KeepsOps
  <1>3. QED
    BY <1>1, <1>2, OpsFrom, OwnersKept DEF Quietly

\* A step of lifecycles that stores nothing; a retirement that ends unfinished
\* leaves work, or a lifecycle that was refused.
Working ==
    /\ UNCHANGED <<file, tracked>> /\ (up' => up) /\ SessionsKeep /\ SameLives /\ KeepsOps /\ ReservedStays
    /\ \A s \in Slots : retiring = s /\ retiring' # s =>
          session[s].init = "failed" \/ (session[s].init = "ok" /\ HasWork(session[s].w))

LEMMA OwnersWork == ASSUME Lives, Lives', Owners, Working PROVE Owners'
  <1>1. \A s \in Slots : /\ session'[s].life = session[s].life /\ session'[s].init = session[s].init
                         /\ HasWork(session[s].w) => HasWork(session'[s].w)
    BY DEF Working, SessionsKeep, SameLives, SlotKeeps
  <1>2. \A s \in Slots : Secured(s) => Secured(s)'
    BY <1>1 DEF Working, Secured
  <1>3. OkStays
    BY <1>1, <1>2 DEF OkStays, Ok
  <1>4. EndedStays
    <2> SUFFICES ASSUME up', NEW s \in Slots, session'[s].life = "ended", retiring' # s
                 PROVE  session'[s].init = "failed" \/ (session'[s].init = "ok" /\ Secured(s)')
      BY DEF EndedStays
    <2>1. session[s].init = "failed" \/ (session[s].init = "ok" /\ Secured(s))
      BY <1>1 DEF Working, Owners, EndedGood, Secured
    <2>2. QED
      BY <1>1, <1>2, <2>1
  <1>5. PICK k \in Nat : Keeps(k)
    BY DEF Working, KeepsOps
  <1>6. QED
    BY <1>3, <1>4, <1>5, OpsFrom, OwnersKept DEF Working

\* The callers after a step that concerns one of them.
LEMMA CallerReserved ==
    ASSUME ClientOK, NEW c \in Clients, NEW r, r.pc # "reserved",
           client' = [client EXCEPT ![c] = r] \/ client' = [Unseen(client) EXCEPT ![c] = r]
    PROVE  ReservedStays
  <1>1. \A d \in Clients : Unseen(client)[d].pc = client[d].pc /\ Unseen(client)[d].log = client[d].log
    BY UnseenIs
  <1>2. DOMAIN Unseen(client) = Clients /\ DOMAIN client = Clients
    BY DEF Unseen, ClientOK
  <1>3. \A d \in Clients :
          \/ client'[d].pc = client[d].pc /\ client'[d].log = client[d].log
          \/ d = c /\ client'[d] = r
    BY <1>1, <1>2
  <1>4. QED
    BY <1>3 DEF ReservedStays

LEMMA LifecycleWorks ==
    ASSUME Lives, NEW s \in Slots,
           FlushReady(s) \/ Proceed(s) \/ WriteReady(s) \/ Emit(s) \/ Checkpoint(s) \/ Deadline(s)
    PROVE  Working
  <1>1. UNCHANGED <<file, tracked, up>>
    BY DEF FlushReady, Proceed, WriteReady, Emit, Checkpoint, Deadline
  <1>2. SessionsKeep /\ SameLives
    BY FlushReadyKeeps, ProceedKeeps, WriteReadyKeeps, EmitKeeps, CheckpointKeeps, DeadlineKeeps
  <1>3. \A op \in {WriteOp(s), RetireOp(s)} : op \in Operation /\ op.kind \notin OwnKinds /\ ~Writing(op)
    <2>1. WriteOp(s) \in Operation /\ RetireOp(s) \in Operation
      BY OperationMakes
    <2>2. \A op \in {WriteOp(s), RetireOp(s)} : op.kind \notin OwnKinds /\ ~Writing(op)
      BY DEF WriteOp, RetireOp, OwnKinds, Writing
    <2>3. QED
      BY <2>1, <2>2
  <1>4. CASE FlushReady(s) \/ Proceed(s)
    <2>1. AnswerFor(s)
      BY <1>4, FlushReadyKeeps, ProceedKeeps
    <2>2. CASE UNCHANGED <<acked, chain, retiring, client>>
      BY <1>1, <1>2, <2>2, KeepsOpsCases, Unmoved DEF Working, ReservedStays
    <2>3. ASSUME NEW who, NEW ok \in BOOLEAN, Answer(s, who, ok),
                 ok \/ session[s].init = "failed" \/ (session[s].init = "ok" /\ HasWork(session[s].w))
          PROVE  Working
      <3>1. KeepsOps
        BY <1>3, <2>3, KeepsOpsCases, Unmoved DEF Answer
      <3>2. ReservedStays
        <4>1. \A c \in Clients : client'[c] = client[c] \/ client'[c] = Failed(c)
          BY <2>3 DEF Answer
        <4>2. QED
          BY <4>1, FailedPc DEF ReservedStays
      <3>3. \A t \in Slots : retiring = t /\ retiring' # t => t = s /\ ~ok
        BY <2>3 DEF Answer
      <3>4. QED
        BY <1>1, <1>2, <2>3, <3>1, <3>2, <3>3 DEF Working
    <2>4. QED
      BY <2>1, <2>2, <2>3 DEF AnswerFor
  <1>5. CASE WriteReady(s) \/ Emit(s) \/ Checkpoint(s) \/ Deadline(s)
    <2>1. UNCHANGED <<retiring, client>> /\ (UNCHANGED chain \/ chain' = Append(chain, WriteOp(s)))
      BY <1>5 DEF WriteReady, Emit, Checkpoint, Deadline
    <2>2. KeepsOps
      BY <1>3, <2>1, KeepsOpsCases, Unmoved
    <2>3. QED
      BY <1>1, <1>2, <2>1, <2>2 DEF Working, ReservedStays
  <1>6. QED
    BY <1>4, <1>5

LEMMA UnloadWorks == ASSUME Lives, Unload PROVE Working
  <1>1. UNCHANGED <<file, tracked, chain, retiring, client>> /\ SessionsKeep /\ SameLives /\ ~up'
    BY UnloadKeeps DEF Unload
  <1>2. QED
    BY <1>1, KeepsOpsCases, Unmoved DEF Working, ReservedStays

LEMMA EndOwners == ASSUME Lives, Lives', InTurn, Owners, NEW s \in Slots, End(s) PROVE Owners'
  <1>1. UNCHANGED <<tracked, chain, client, up>> /\ SessionsKeep
    BY EndKeeps DEF End
  <1>2. \A t \in Slots : /\ session'[t].init = session[t].init
                         /\ HasWork(session[t].w) => HasWork(session'[t].w)
                         /\ t # s => session'[t].life = session[t].life
    BY <1>1, SlotTypes DEF SessionsKeep, SlotKeeps, End, Lives, Typed, SessionOK
  <1>3. \A t \in Slots : Secured(t) => Secured(t)'
    BY <1>1, <1>2 DEF Secured
  <1>4. /\ session[s].life = "live" => (up => retiring = 0 /\ retiring' = s) /\ (~up => UNCHANGED retiring)
        /\ session[s].life # "live" => session'[s].life = "none" /\ UNCHANGED retiring
        /\ session[s].life \in {"live", "vetoed"}
    BY DEF End, InTurn, LiveAlone, Unused, Lives, Typed, SessionOK
  <1>5. OkStays
    BY <1>2, <1>3, <1>4 DEF OkStays, Ok
  <1>6. EndedStays
    <2> SUFFICES ASSUME up', NEW t \in Slots, session'[t].life = "ended", retiring' # t
                 PROVE  session'[t].init = "failed" \/ (session'[t].init = "ok" /\ Secured(t)')
      BY DEF EndedStays
    <2>1. up
      BY <1>1
    <2>2. t # s /\ session[t].life = "ended"
      BY <1>2, <1>4, <2>1
    <2>3. retiring # t
      BY <1>4, <2>1, <2>2, NotZero
    <2>4. QED
      BY <1>2, <1>3, <2>1, <2>2, <2>3 DEF Owners, EndedGood
  <1>7. PICK k \in Nat : Keeps(k)
    BY <1>1, KeepsOpsCases, Unmoved DEF KeepsOps
  <1>8. QED
    BY <1>1, <1>5, <1>6, <1>7, OpsFrom, OwnersKept DEF ReservedStays

\* The operations that remain when a caller is done with its entry.
LEMMA DropKeeps ==
    ASSUME Lives, NEW c \in Clients, NEW q \in Seq(Operation), NEW r \in Caller, Drop(c, q, r), r.pc # "reserved",
           NEW k \in Nat, From(WorkKinds, q, chain, k)
    PROVE  KeepsOps /\ ReservedStays
  <1>1. From(WorkKinds, chain', q, 0) /\ ChainOK'
    BY DropIs DEF Lives, OwnKinds, WorkKinds
  <1>2. \A i \in DOMAIN chain' : i + 0 = i
    BY <1>1 DEF ChainOK
  <1>3. From(WorkKinds, chain', chain, k)
    BY <1>1, <1>2 DEF From
  <1>4. ReservedStays
    BY CallerReserved, Unmoved DEF Drop
  <1>5. QED
    BY <1>3, <1>4, FromKeepsOps

LEMMA LookKeeps ==
    ASSUME Lives, NEW c \in Clients, NEW cl \in Caller, Look(c, cl)
    PROVE  KeepsOps /\ ReservedStays
  <1>1. LoadOp \in Operation /\ LoadOp.kind \notin OwnKinds /\ ~Writing(LoadOp)
    BY OperationMakes DEF LoadOp, OwnKinds, Writing
  <1>2. UNCHANGED chain \/ chain' = Append(chain, LoadOp)
    BY DEF Look
  <1>3. KeepsOps
    BY <1>1, <1>2, KeepsOpsCases, Unmoved
  <1>4. \E r : client' = [client EXCEPT ![c] = r] /\ r.pc # "reserved"
    <2>1. CASE Present # {}
      BY <2>1, FailedPc DEF Look
    <2>2. CASE Present = {}
      <3> DEFINE loaded == cl.does = "inspect" /\ entry.phase \notin {"none", "loading"}
                 pc == IF loaded THEN "loaded" ELSE "entry"
                 src == IF loaded THEN entry.src ELSE NoFile
                 r == [cl EXCEPT !.pc = pc, !.seen = TRUE, !.src = src]
      <3>1. client' = [client EXCEPT ![c] = r] /\ pc # "reserved"
        BY <2>2 DEF Look
      <3> HIDE DEF pc, src
      <3>2. r.pc = pc
        BY DEF Caller
      <3>3. QED
        BY <3>1, <3>2
    <2>3. QED
      BY <2>1, <2>2
  <1>5. QED
    BY <1>3, <1>4, CallerReserved, Unmoved

LEMMA RunningQuiet ==
    ASSUME Lives,
           \/ Void \/ Load \/ NothingToLoad \/ LoadFails \/ Check \/ CheckFails
           \/ CommitOwned \/ CommitFails \/ CommitStale \/ Repair
    PROVE  Quietly
  <1>1. chain # <<>> /\ Running \in Operation /\ UNCHANGED <<tracked, session, retiring, up>>
    <2>1. chain # <<>> /\ UNCHANGED <<tracked, session, retiring, up>>
      BY DEF Void, Load, NothingToLoad, LoadFails, LoadThrows, Check, CheckFails, CommitOwned, CommitFails,
             CommitThrows, CommitStale, Repair, Head1
    <2>2. QED
      BY <2>1, RunningIs, Unmoved
  <1>2. CASE Void
    BY <1>1, <1>2, KeepsOpsCases, Unmoved DEF Quietly, Void, ReservedStays
  <1>3. CASE Load \/ NothingToLoad \/ LoadFails
    <2>1. chain' = Tail(chain)
      BY <1>3 DEF Load, NothingToLoad, LoadFails, LoadThrows
    <2>2. ReservedStays
      <3>1. ASSUME NEW c \in Clients
            PROVE  \/ client'[c] = client[c]
                   \/ client'[c].pc = "loaded" \/ client'[c] = Told(c, LiveView) \/ client'[c] = Failed(c)
        <4>1. [client[c] EXCEPT !.pc = "loaded", !.src = file].pc = "loaded"
          BY Unmoved DEF ClientOK, Caller
        <4>2. QED
          BY <1>3, <4>1 DEF Load, NothingToLoad, LoadFails, LoadThrows
      <3>2. QED
        BY <3>1, FailedPc DEF ReservedStays
    <2>3. QED
      BY <1>1, <2>1, <2>2, KeepsOpsCases, Unmoved DEF Quietly
  <1>4. CASE Check \/ CheckFails
    <2> DEFINE c == Running.who
               told == Told(c, IF Present # {} THEN LiveView ELSE Balanced(client[c].src))
    <2>1. chain' = Tail(chain) \/ chain' = Orphaned(Tail(chain))
      BY <1>4 DEF Check, CheckFails
    <2>2. \/ client' = [client EXCEPT ![c] = told] \/ client' = [client EXCEPT ![c] = Idle]
          \/ client' = [Unseen(client) EXCEPT ![c] = Again(c)] \/ client' = [client EXCEPT ![c] = Again(c)]
      BY <1>4 DEF Check, CheckFails
    <2>3. c \in Clients
      BY <1>1, <1>4, RunningIs, Unmoved DEF Check, CheckFails, Head1, Running
    <2>4. told.pc = "idle" /\ Idle.pc = "idle" /\ Again(c).pc = "retirement"
      BY <2>3, AnswersIs, Unmoved
    <2> HIDE DEF c, told
    <2>5. ReservedStays
      BY <2>2, <2>3, <2>4, CallerReserved, Unmoved
    <2>6. QED
      BY <1>1, <2>1, <2>5, KeepsOpsCases, Unmoved DEF Quietly
  <1>5. CASE CommitOwned \/ CommitFails \/ CommitStale \/ Repair
    <2> DEFINE c == Running.who
    <2>1. \/ Drop(c, Tail(chain), Failed(c)) \/ Drop(c, Tail(chain), Retries(c))
      BY <1>5 DEF CommitOwned, CommitFails, CommitThrows, CommitStale, Repair
    <2>2. Head1("commit")
      BY <1>5 DEF CommitOwned, CommitFails, CommitStale, Repair
    <2>3. c \in Clients /\ Tail(chain) \in Seq(Operation)
      BY <1>1, <2>2, RunningIs, Unmoved DEF Head1, Running
    <2>4. /\ Failed(c) \in Caller /\ Retries(c) \in Caller
          /\ Failed(c).pc # "reserved" /\ Retries(c).pc # "reserved"
      BY <2>3, CallerTypes, FailedPc, AgainPc, AnswersIs, Unmoved
    <2>5. From(WorkKinds, Tail(chain), chain, 1)
      BY <1>1, TailIs, Unmoved DEF ChainOK
    <2> HIDE DEF c
    <2>6. KeepsOps /\ ReservedStays
      BY <2>1, <2>3, <2>4, <2>5, DropKeeps
    <2>7. QED
      BY <1>1, <2>6 DEF Quietly
  <1>6. QED
    BY <1>2, <1>3, <1>4, <1>5

LEMMA CallerQuiet ==
    ASSUME Lives, NEW c \in Clients,
           \/ Ask(c) \/ Retired(c) \/ EntryLost(c) \/ Inspect(c) \/ Setup(c) \/ Release(c) \/ GiveUp(c) \/ Abort(c)
    PROVE  Quietly
  <1>1. UNCHANGED <<tracked, session, retiring, up>>
    BY DEF Ask, Retired, EntryLost, Inspect, Setup, Release, GiveUp, Abort
  <1>2. /\ Again(c) \in Caller /\ Failed(c) \in Caller /\ Idle \in Caller /\ client[c] \in Caller
        /\ Again(c).pc = "retirement" /\ Idle.pc = "idle" /\ Failed(c).pc # "reserved"
        /\ \A view : Told(c, view).pc = "idle"
    BY CallerTypes, AgainPc, FailedPc, Unmoved
  <1>3. ASSUME NEW r, client' = [client EXCEPT ![c] = r], r.pc # "reserved", KeepsOps PROVE Quietly
    BY <1>1, <1>3, CallerReserved, Unmoved DEF Quietly
  <1>4. UNCHANGED chain => KeepsOps
    BY KeepsOpsCases, Unmoved
  <1>5. ASSUME NEW pc, pc # "reserved", client' = [client EXCEPT ![c].pc = pc], KeepsOps PROVE Quietly
    <2> DEFINE r == [client[c] EXCEPT !.pc = pc]
    <2>1. r.pc = pc /\ client' = [client EXCEPT ![c] = r]
      BY <1>2, <1>5 DEF Caller
    <2> HIDE DEF r
    <2>2. QED
      BY <1>3, <1>5, <2>1
  <1>6. CASE Ask(c)
    <2> DEFINE cl == [Idle EXCEPT !.does = "inspect", !.floor = file.log]
    <2>1. cl \in Caller
      BY <1>2, Unmoved DEF Caller, FileOK, Source
    <2>2. \/ retiring = 0 /\ Look(c, cl)
          \/ UNCHANGED chain /\ client' = [client EXCEPT ![c] = [cl EXCEPT !.pc = "retirement", !.on = retiring]]
          \/ UNCHANGED chain /\ client' = [client EXCEPT ![c] = [Idle EXCEPT !.pc = "retirement", !.on = retiring]]
      BY <1>6 DEF Ask
    <2> HIDE DEF cl
    <2>3. \A r \in Caller : [r EXCEPT !.pc = "retirement", !.on = retiring].pc = "retirement"
      BY DEF Caller
    <2>4. QED
      BY <1>1, <1>2, <1>3, <1>4, <2>1, <2>2, <2>3, LookKeeps DEF Quietly
  <1>7. CASE Retired(c)
    BY <1>1, <1>2, <1>7, LookKeeps DEF Quietly, Retired
  <1>8. CASE EntryLost(c) \/ GiveUp(c)
    BY <1>2, <1>3, <1>4, <1>8 DEF EntryLost, GiveUp
  <1>9. CASE Inspect(c)
    <2>1. CheckOp(c) \in Operation /\ CheckOp(c).kind \notin OwnKinds /\ ~Writing(CheckOp(c))
      BY OperationMakes DEF CheckOp, OwnKinds, Writing
    <2>2. KeepsOps
      BY <1>4, <1>9, <2>1, KeepsOpsCases, Unmoved DEF Inspect
    <2>3. client' = [client EXCEPT ![c] = Told(c, LiveView)] \/ client' = [client EXCEPT ![c].pc = "check"]
      BY <1>9 DEF Inspect
    <2>4. QED
      BY <1>2, <1>3, <1>5, <2>2, <2>3
  <1>10. CASE Setup(c)
    <2> DEFINE log == Append(client[c].log, [kind |-> "note", by |-> 0])
    <2>1. client' = [client EXCEPT ![c].log = log] /\ UNCHANGED chain
      BY <1>10 DEF Setup
    <2> HIDE DEF log
    <2>2. /\ client'[c].log = log
          /\ \A d \in Clients \ {c} : client'[d] = client[d]
      BY <1>2, <2>1, Unmoved DEF ClientOK, Caller
    <2>3. client[c].pc = "reserved" /\ [kind |-> "note", by |-> 0] \in Event
      BY <1>10 DEF Setup, Event, Kinds
    <2>4. MayFollow([kind |-> "note", by |-> 0], client[c].log)
      BY DEF MayFollow
    <2>5. ReservedStays
      BY <2>2, <2>3, <2>4 DEF ReservedStays, log
    <2>6. QED
      BY <1>1, <1>4, <2>1, <2>5 DEF Quietly
  <1>11. CASE Release(c)
    <2>1. \/ client' = [client EXCEPT ![c] = Failed(c)] /\ UNCHANGED chain
          \/ Drop(c, chain, Failed(c))
      BY <1>11 DEF Release
    <2>2. chain \in Seq(Operation) /\ From(WorkKinds, chain, chain, 0)
      BY FromSame, Unmoved DEF ChainOK
    <2>3. Drop(c, chain, Failed(c)) => KeepsOps /\ ReservedStays
      BY <1>2, <2>2, DropKeeps
    <2>4. QED
      BY <1>1, <1>2, <1>3, <1>4, <2>1, <2>3 DEF Quietly
  <1>12. CASE Abort(c)
    <2>1. \/ client' = [client EXCEPT ![c] = Idle] /\ UNCHANGED chain
          \/ \E i \in DOMAIN chain : Drop(c, [chain EXCEPT ![i] = VoidOp], Idle)
          \/ client' = [client EXCEPT ![c].cut = TRUE] /\ UNCHANGED chain
      BY <1>12 DEF Abort
    <2>2. ASSUME NEW i \in DOMAIN chain, Drop(c, [chain EXCEPT ![i] = VoidOp], Idle) PROVE KeepsOps /\ ReservedStays
      <3> DEFINE q == [chain EXCEPT ![i] = VoidOp]
      <3>1. chain \in Seq(Operation) /\ VoidOp \in Operation /\ VoidOp.kind \notin WorkKinds
        BY OperationMakes, Unmoved DEF ChainOK, VoidOp, OwnKinds, WorkKinds
      <3>2. q \in Seq(Operation) /\ DOMAIN q = DOMAIN chain /\ q[i] = VoidOp /\ \A j \in DOMAIN chain : j # i => q[j] = chain[j]
        BY <3>1
      <3>3. \A j \in DOMAIN chain : j + 0 = j
        BY <3>1
      <3> HIDE DEF q
      <3>4. From(WorkKinds, q, chain, 0)
        BY <3>1, <3>2, <3>3 DEF From
      <3>5. Drop(c, q, Idle)
        BY <2>2 DEF q
      <3>6. QED
        BY <1>2, <3>2, <3>4, <3>5, DropKeeps
    <2>3. client' = [client EXCEPT ![c].cut = TRUE] => ReservedStays
      BY <1>2, Unmoved DEF ReservedStays, ClientOK, Caller
    <2>4. QED
      BY <1>1, <1>2, <1>3, <1>4, <2>1, <2>2, <2>3 DEF Quietly
  <1>13. QED
    BY <1>6, <1>7, <1>8, <1>9, <1>10, <1>11, <1>12

LEMMA ElsewhereQuiet == ASSUME Lives, Evict \/ ForeignResume PROVE Quietly
  <1>1. UNCHANGED <<tracked, session, retiring, up, chain>> /\ (UNCHANGED client \/ client' = Unseen(client))
    BY DEF Evict, ForeignResume
  <1>2. ReservedStays
    BY <1>1, UnseenIs, Unmoved DEF ReservedStays
  <1>3. QED
    BY <1>1, <1>2, KeepsOpsCases, Unmoved DEF Quietly

\* The first to find the entry ready queues its commit behind whatever there is.
LEMMA ReserveOwners == ASSUME Lives, Lives', Owners, NEW c \in Clients, Reserve(c) PROVE Owners'
  <1> DEFINE op == CommitOp(c, entry.src)
  <1>1. UNCHANGED <<tracked, session, retiring, up>> /\ chain' = Append(chain, op)
        /\ client' = [client EXCEPT ![c].pc = "commit"]
    BY DEF Reserve
  <1>2. op.kind = "commit" /\ op.stage = "queued"
    BY DEF CommitOp
  <1>3. op \in Operation
    <2>1. entry.src \in Source
      BY Unmoved DEF EntryOK, Preparation
    <2>2. QED
      BY <2>1, OperationMakes
  <1> HIDE DEF op
  <1>4. DOMAIN chain = 1 .. Len(chain) /\ Len(chain) \in Nat /\ DOMAIN chain' = 1 .. Len(chain) + 1
        /\ chain'[Len(chain) + 1] = op /\ \A i \in DOMAIN chain : chain'[i] = chain[i]
    BY <1>1, <1>3, AppendIs, Unmoved DEF ChainOK
  <1>5. \A i \in DOMAIN chain' : \/ i \in DOMAIN chain /\ chain'[i] = chain[i]
                                 \/ i = Len(chain) + 1 /\ chain'[i] = op
    BY <1>4
  <1>6. ReservedStays
    BY <1>1, Unmoved DEF ReservedStays, ClientOK, Caller
  <1>7. OwnerKnown' /\ OkOwns' /\ EndedGood' /\ ReservedOwns'
    BY <1>1, <1>6 DEF Owners, OwnerKnown, OkOwns, EndedGood, ReservedOwns, Ok, Secured, ReservedStays
  <1>8. SeedsGood' /\ RepairsUnowned'
    BY <1>1, <1>2, <1>5 DEF Owners, SeedsGood, RepairsUnowned
  <1>9. CreatedGood'
    <2> SUFFICES ASSUME NEW i \in DOMAIN chain', chain'[i].kind = "created"
                 PROVE  /\ \A j \in DOMAIN chain' : chain'[j].kind = "created" => i = j
                        /\ \A s \in Slots \ {chain'[i].who} : Ok(s)' => Secured(s)'
                        /\ ~(tracked.known /\ tracked.owner = 0)
                        /\ \A j \in DOMAIN chain' : chain'[j].kind = "commit" => i < j
      BY <1>1 DEF CreatedGood
    <2>1. i \in DOMAIN chain /\ chain'[i] = chain[i]
      BY <1>2, <1>5
    <2>2. /\ \A j \in DOMAIN chain : chain[j].kind = "created" => i = j
          /\ \A s \in Slots \ {chain[i].who} : Ok(s) => Secured(s)
          /\ ~(tracked.known /\ tracked.owner = 0)
          /\ \A j \in DOMAIN chain : chain[j].kind = "commit" => i < j
      BY <2>1 DEF Owners, CreatedGood
    <2>3. \A s : (Ok(s)' <=> Ok(s)) /\ (Secured(s)' <=> Secured(s))
      BY <1>1 DEF Ok, Secured
    <2>4. i < Len(chain) + 1
      BY <1>4, <2>1
    <2>5. QED
      BY <1>2, <1>5, <2>1, <2>2, <2>3, <2>4
  <1>10. QED
    BY <1>7, <1>8, <1>9 DEF Owners

LEMMA StageOwners ==
    ASSUME Lives, Lives', Owners, Head1("commit"), NEW stage \in {"queued", "truncate", "repair"},
           chain' = [chain EXCEPT ![1].stage = stage], tracked.owner = 0,
           UNCHANGED <<tracked, session, retiring, up, client>>
    PROVE  Owners'
  <1>1. /\ DOMAIN chain' = DOMAIN chain /\ 1 \in DOMAIN chain /\ chain'[1].kind = "commit" /\ chain'[1].who = Running.who
        /\ \A i \in DOMAIN chain : i # 1 => chain'[i] = chain[i]
    BY StageIs
  <1>2. chain[1].kind = "commit" /\ Running = chain[1] /\ \A i \in DOMAIN chain : i + 0 = i
    BY Unmoved DEF Head1, Running, ChainOK
  <1>3. OpsContinue(0)
    BY <1>1, <1>2 DEF OpsContinue, Continues
  <1>4. OkStays /\ EndedStays /\ ReservedStays
    BY DEF OkStays, EndedStays, ReservedStays, Owners, EndedGood, Ok, Secured
  <1>5. QED
    BY <1>3, <1>4, OwnersKept

LEMMA TruncateIs ==
    ASSUME Lives, Truncate
    PROVE  \/ Quietly
           \/ /\ chain' = [chain EXCEPT ![1].stage = "repair"]
              /\ UNCHANGED <<tracked, session, retiring, up, client>>
  <1> DEFINE c == Running.who
  <1>1. Head1("commit") /\ UNCHANGED <<tracked, session, retiring, up>>
    BY DEF Truncate
  <1>2. /\ c \in Clients /\ Tail(chain) \in Seq(Operation) /\ From(WorkKinds, Tail(chain), chain, 1)
        /\ Retries(c) \in Caller /\ Retries(c).pc # "reserved"
    BY <1>1, TailIs, RunningIs, CallerTypes, AgainPc, AnswersIs, Unmoved DEF Head1, Running, ChainOK
  <1>3. ASSUME Drop(c, Tail(chain), Retries(c)) PROVE Quietly
    <2> HIDE DEF c
    <2>1. KeepsOps /\ ReservedStays
      BY <1>2, <1>3, DropKeeps
    <2>2. QED
      BY <1>1, <2>1 DEF Quietly
  <1>4. QED
    BY <1>1, <1>3 DEF Truncate

LEMMA RepairOwners == ASSUME Lives, Lives', Owners, CommitRepairs \/ Truncate PROVE Owners'
  <1> DEFINE stage == IF CommitRepairs /\ Running.src.torn THEN "truncate" ELSE "repair"
  <1>1. Head1("commit") /\ stage \in {"queued", "truncate", "repair"}
    BY DEF CommitRepairs, Truncate
  <1>2. tracked.owner = 0
    <2>1. chain # <<>> /\ 1 \in DOMAIN chain /\ chain[1] = Running
      BY <1>1, TailIs, Unmoved DEF Head1, Running, ChainOK
    <2>2. QED
      BY <1>1, <2>1 DEF CommitRepairs, Truncate, Head1, Owners, RepairsUnowned
  <1>3. \/ Quietly
        \/ /\ chain' = [chain EXCEPT ![1].stage = stage]
           /\ UNCHANGED <<tracked, session, retiring, up, client>>
    <2>1. CASE CommitRepairs
      BY <2>1 DEF CommitRepairs
    <2>2. CASE Truncate /\ ~CommitRepairs
      BY <2>2, TruncateIs
    <2>3. QED
      BY <2>1, <2>2
  <1> HIDE DEF stage
  <1>4. QED
    BY <1>1, <1>2, <1>3, OwnersQuiet, StageOwners

-----------------------------------------------------------------------------
(* Appends, and who owns what they store.                                  *)

LEMMA SettledIs ==
    ASSUME Lives, chain # <<>>, Running.kind \in {"write", "seed", "created"}, NEW ok \in BOOLEAN,
           session' = Settled(Running, ok)
    PROVE  /\ Running.who \in Slots /\ SameLives
           /\ \A t \in Slots : t # Running.who => session'[t] = session[t]
           /\ IF Running.kind = "write"
              THEN /\ session[Running.who].init = "ok" /\ Active(session[Running.who].w)
                   /\ session' = [session EXCEPT ![Running.who].w = Settle(@, ok)]
                   /\ session'[Running.who].init = "ok"
                   /\ session'[Running.who].w = Settle(session[Running.who].w, ok)
                   /\ ~ok => HasWork(session'[Running.who].w)
              ELSE /\ session'[Running.who].init = IF ok THEN "ok" ELSE "failed"
                   /\ session'[Running.who].w = session[Running.who].w
                   /\ session[Running.who].init = "pending"
           /\ session'[Running.who].events = session[Running.who].events
           /\ session'[Running.who].handed = session[Running.who].handed
           /\ session[Running.who].life \in {"live", "ended"}
  <1> DEFINE s == Running.who
             r == session[s]
  <1>1. Running \in Operation /\ s \in Slots /\ Serves(Running, r) /\ session \in [Slots -> Lifecycle]
    <2>1. Running \in Operation /\ 1 \in DOMAIN chain /\ Running = chain[1]
      BY TailIs, Unmoved DEF ChainOK, Running
    <2>2. QED
      BY <2>1, OperationIs DEF Lives, AllServe, SlotKinds, Typed, SessionOK
  <1>2. SameLives
    BY SettledSame
  <1>3. r \in Lifecycle /\ r.w \in Writer /\ WriterGood(r.w)
    BY <1>1, SlotTypes DEF Lives, Typed, SlotsGood, SlotGood
  <1>4. CASE Running.kind = "write"
    <2> DEFINE w == Settle(r.w, ok)
    <2>1. session' = [session EXCEPT ![s] = [r EXCEPT !.w = w]]
      BY <1>4 DEF Settled
    <2>2. w \in Writer /\ (~ok => w.pending # <<>>) /\ Active(r.w) /\ r.init = "ok"
      BY <1>1, <1>3, <1>4, SettleGood DEF Serves
    <2> HIDE DEF w
    <2>3. [r EXCEPT !.w = w].init = r.init /\ [r EXCEPT !.w = w].w = w
          /\ [r EXCEPT !.w = w].events = r.events /\ [r EXCEPT !.w = w].handed = r.handed
      BY <1>3, <2>2, MovedIs
    <2>4. session'[s] = [r EXCEPT !.w = w] /\ \A t \in Slots : t # s => session'[t] = session[t]
      BY <1>1, <2>1
    <2>5. ~ok => HasWork(w)
      BY <2>2 DEF HasWork
    <2>6. session' = [session EXCEPT ![s].w = Settle(@, ok)]
      BY <1>4 DEF Settled
    <2>7. QED
      BY <1>1, <1>2, <1>4, <2>2, <2>3, <2>4, <2>5, <2>6 DEF w, Serves
  <1>5. CASE Running.kind # "write"
    <2> DEFINE init == IF ok THEN "ok" ELSE "failed"
    <2>1. session' = [session EXCEPT ![s] = [r EXCEPT !.init = init]]
      BY <1>5 DEF Settled
    <2> HIDE DEF init
    <2>2. [r EXCEPT !.init = init].init = init /\ [r EXCEPT !.init = init].w = r.w
          /\ [r EXCEPT !.init = init].events = r.events /\ [r EXCEPT !.init = init].handed = r.handed
      BY <1>3 DEF Lifecycle
    <2>3. session'[s] = [r EXCEPT !.init = init] /\ \A t \in Slots : t # s => session'[t] = session[t]
      BY <1>1, <2>1
    <2>4. r.init = "pending" /\ r.life \in {"live", "ended"}
      BY <1>1, <1>5 DEF Serves
    <2>5. QED
      BY <1>1, <1>2, <1>5, <2>2, <2>3, <2>4 DEF init
  <1>6. QED
    BY <1>4, <1>5

\* Nothing is left out of a batch that begins beyond the cursor; a batch of
\* which nothing is left has been stored.
LEMMA FreshWhole ==
    ASSUME Lives, NEW s \in Slots, tracked.cursor = 0 \/ tracked.cursor <= WrittenBy(session[s])
    PROVE  Fresh(s) = session[s].w.batch
  <1> DEFINE b == session[s].w.batch
             p == session[s].w.pending
             n == session[s].handed
             T == {i \in DOMAIN b : b[i] <= tracked.cursor}
  <1>1. b \in Seq(Nat) /\ p \in Seq(Nat) /\ n \in Nat /\ Numbered(b, p, n) /\ tracked.cursor \in Nat
    BY SlotTypes DEF Lives, Typed, SlotsGood, SlotGood, Writer, OwnerOK, Cursor
  <1>2. Fresh(s) = SubSeq(b, Cardinality(T) + 1, Len(b))
    BY DEF Fresh
  <1>0. tracked.cursor = 0 \/ tracked.cursor <= n - Len(b) - Len(p)
    BY DEF WrittenBy
  <1> HIDE DEF b, p, n
  <1>3. T = {}
    <2>1. \A i \in DOMAIN b : b[i] > tracked.cursor
      BY <1>0, <1>1 DEF Numbered
    <2>2. QED
      BY <1>1, <2>1
  <1>4. Cardinality(T) = 0
    BY <1>3, FS_EmptySet
  <1> HIDE DEF T
  <1> DEFINE m == Cardinality(T) + 1
  <1>5. m = 1 /\ SubSeq(b, 1, Len(b)) = b
    BY <1>1, <1>4
  <1>6. Fresh(s) = SubSeq(b, m, Len(b))
    BY <1>2
  <1> HIDE DEF m
  <1>7. Fresh(s) = b
    BY <1>5, <1>6, Zenon
  <1>8. QED
    BY <1>7 DEF b

LEMMA FreshEmpty ==
    ASSUME Lives, NEW s \in Slots, Active(session[s].w), Fresh(s) = <<>> PROVE tracked.cursor > 0
  BY FreshWhole DEF Active, Lives, Typed, OwnerOK, Cursor

LEMMA AppendBeginOwners == ASSUME Lives, Lives', Owners, AppendBegin PROVE Owners'
  <1>0. Running.who \in Slots
    BY AppendBeginIs, SeqsIs
  <1> SUFFICES ASSUME NEW s \in Slots, s = Running.who PROVE Owners'
    BY <1>0
  <1>1. /\ UNCHANGED <<tracked, retiring, client, up>> /\ chain # <<>> /\ Running.kind \in {"write", "seed"}
        /\ chain \in Seq(Operation) /\ 1 \in DOMAIN chain /\ Running = chain[1] /\ Running \in Operation
    BY AppendBeginIs, TailIs, Unmoved DEF ChainOK, Running
  <1>2. ReservedStays
    BY <1>1 DEF ReservedStays
  <1>3. Running.kind = "seed" => Seqs # <<>>
    <2>1. Running.kind = "seed" => Running.batch # <<>>
      BY <1>1 DEF Owners, SeedsGood
    <2>2. Running.kind = "seed" => Running.batch \in Seq(Event)
      BY <1>1, OperationIs
    <2>3. Running.kind = "seed" => Len(Running.batch) # 0
      BY <2>1, <2>2, EmptySeq
    <2>4. QED
      BY <1>1, <2>3, SeqsIs
  <1>4. ASSUME NEW ok \in BOOLEAN, session' = Settled(Running, ok), ok => Seqs = <<>>, chain' = Tail(chain)
        PROVE  Owners'
    <2>1. /\ SameLives /\ \A t \in Slots : t # s => session'[t] = session[t]
          /\ IF Running.kind = "write"
             THEN /\ session[s].init = "ok" /\ Active(session[s].w) /\ session'[s].init = "ok"
                  /\ ~ok => HasWork(session'[s].w)
             ELSE session'[s].init = IF ok THEN "ok" ELSE "failed"
      BY <1>1, <1>4, SettledIs
    <2>2. Running.kind = "write" => Secured(s)'
      <3>1. Running.kind = "write" /\ ok => tracked.cursor > 0
        BY <1>1, <1>4, <2>1, FreshEmpty DEF Seqs
      <3>2. QED
        BY <1>1, <2>1, <3>1 DEF Secured
    <2>3. Running.kind = "seed" => session'[s].init = "failed"
      BY <1>3, <1>4, <2>1
    <2>4. \A t \in Slots : t # s => (Ok(t)' <=> Ok(t)) /\ (Secured(t)' <=> Secured(t))
      BY <1>1, <2>1 DEF Ok, Secured
    <2>5. Running.kind = "write" => (Ok(s)' <=> Ok(s))
      BY <1>1, <2>1 DEF Ok, SameLives
    <2>6. Running.kind = "seed" => ~Ok(s)'
      BY <2>3 DEF Ok
    <2>7. OkStays
      BY <1>1, <2>2, <2>4, <2>5, <2>6 DEF OkStays
    <2>8. EndedStays
      <3> SUFFICES ASSUME up', NEW t \in Slots, session'[t].life = "ended", retiring' # t
                   PROVE  session'[t].init = "failed" \/ (session'[t].init = "ok" /\ Secured(t)')
        BY DEF EndedStays
      <3>1. CASE t = s
        BY <1>1, <2>1, <2>2, <2>3, <3>1
      <3>2. CASE t # s
        BY <1>1, <2>1, <2>4, <3>2 DEF Owners, EndedGood
      <3>3. QED
        BY <3>1, <3>2
    <2>9. PICK k \in Nat : Keeps(k)
      BY <1>1, <1>4, KeepsOpsCases, Unmoved DEF KeepsOps
    <2>10. QED
      BY <1>1, <1>2, <2>7, <2>8, <2>9, OpsFrom, OwnersKept
  <1>5. ASSUME UNCHANGED session, Seqs # <<>>, NEW op \in Operation, chain' = [chain EXCEPT ![1] = op],
               op.kind = Running.kind, op.who = Running.who, DOMAIN op.batch = DOMAIN Seqs
        PROVE  Owners'
    <2>1. op.batch # <<>>
      <3>1. PICK n \in Nat : DOMAIN Seqs = 1 .. n /\ (Seqs = <<>> <=> n = 0)
        BY <1>1, SeqsIs
      <3>2. 1 \in DOMAIN op.batch
        BY <1>5, <3>1
      <3>3. QED
        BY <3>2
    <2>2. /\ DOMAIN chain' = DOMAIN chain /\ chain'[1] = op
          /\ \A i \in DOMAIN chain : i # 1 => chain'[i] = chain[i]
      BY <1>1, <1>5, HeadIs
    <2>3. \A i \in DOMAIN chain : i + 0 = i
      BY <1>1
    <2>4. OpsContinue(0)
      BY <1>1, <1>5, <2>1, <2>2, <2>3 DEF OpsContinue, Continues
    <2>5. OkStays /\ EndedStays
      BY <1>1, <1>5 DEF OkStays, EndedStays, Owners, EndedGood, Ok, Secured
    <2>6. QED
      BY <1>1, <1>2, <2>4, <2>5, OwnersKept
  <1>6. QED
    BY <1>4, <1>5, AppendBeginIs

LEMMA AppendFailsOwners == ASSUME Lives, Lives', Owners, AppendFails PROVE Owners'
  <1>1. /\ UNCHANGED <<tracked, retiring, client, up>> /\ chain # <<>> /\ Running.kind \in {"write", "seed"}
        /\ session' = Settled(Running, FALSE) /\ chain' = Tail(chain)
    BY DEF AppendFails, Appending, Head1, Running
  <1>0. Running.who \in Slots
    BY <1>1, SettledIs
  <1> SUFFICES ASSUME NEW s \in Slots, s = Running.who PROVE Owners'
    BY <1>0
  <1>2. /\ SameLives /\ \A t \in Slots : t # s => session'[t] = session[t]
        /\ IF Running.kind = "write"
           THEN session[s].init = "ok" /\ session'[s].init = "ok" /\ HasWork(session'[s].w)
           ELSE session'[s].init = "failed"
    BY <1>1, SettledIs
  <1>3. \A t \in Slots : t # s => (Ok(t)' <=> Ok(t)) /\ (Secured(t)' <=> Secured(t))
    BY <1>1, <1>2 DEF Ok, Secured
  <1>4. OkStays
    <2>1. Ok(s)' => Ok(s) /\ Secured(s)'
      BY <1>1, <1>2 DEF Ok, Secured, SameLives
    <2>2. QED
      BY <1>3, <2>1 DEF OkStays
  <1>5. EndedStays
    <2> SUFFICES ASSUME up', NEW t \in Slots, session'[t].life = "ended", retiring' # t
                 PROVE  session'[t].init = "failed" \/ (session'[t].init = "ok" /\ Secured(t)')
      BY DEF EndedStays
    <2>1. CASE t = s
      BY <1>2, <2>1 DEF Secured
    <2>2. CASE t # s
      BY <1>1, <1>2, <1>3, <2>2 DEF Owners, EndedGood
    <2>3. QED
      BY <2>1, <2>2
  <1>6. PICK k \in Nat : Keeps(k)
    BY <1>1, KeepsOpsCases, Unmoved DEF KeepsOps
  <1>7. ReservedStays
    BY <1>1 DEF ReservedStays
  <1>8. QED
    BY <1>1, <1>4, <1>5, <1>6, <1>7, OpsFrom, OwnersKept

LEMMA AppendCommitsOwners == ASSUME Lives, Pool, Lives', Owners, AppendCommits PROVE Owners'
  <1>1. /\ UNCHANGED <<retiring, up>> /\ chain # <<>> /\ Running.kind \in {"write", "seed"} /\ Running.stage = "io"
        /\ session' = Settled(Running, TRUE) /\ chain' = Orphaned(Tail(chain)) /\ client' = Unseen(client)
        /\ chain \in Seq(Operation) /\ 1 \in DOMAIN chain /\ Running = chain[1] /\ Running \in Operation
    BY TailIs, Unmoved DEF AppendCommits, Appending, Head1, Running, ChainOK
  <1>2. Running.who \in Slots
    BY <1>1, SettledIs
  <1> SUFFICES ASSUME NEW s \in Slots, s = Running.who PROVE Owners'
    BY <1>2
  <1>3. /\ SameLives /\ \A t \in Slots : t # s => session'[t] = session[t]
        /\ session'[s].init = "ok" /\ session[s].life \in {"live", "ended"}
        /\ Running.kind = "write" => session[s].init = "ok"
    BY <1>1, SettledIs
  <1>4. tracked.owner = s /\ tracked.known
    <2>1. tracked.owner = s
      BY <1>1, <1>3 DEF Owners, OkOwns, Ok, SeedsGood
    <2>2. QED
      BY <2>1, NotZero DEF Owners, OwnerKnown
  <1>5. tracked'.owner = tracked.owner /\ tracked'.known = tracked.known /\ tracked'.cursor > 0
    <2> DEFINE n == Len(Running.batch)
               m == tracked.cursor
               cursor == m + n
    <2>1. n \in Nat /\ n # 0 /\ m \in Nat /\ tracked \in Cursor
      <3>1. Running.batch # <<>> /\ Running.batch \in Seq(Event)
        BY <1>1, OperationIs DEF Pool, WritesGood, Writing
      <3>2. QED
        BY <3>1, EmptySeq, Unmoved DEF OwnerOK, Cursor
    <2>2. tracked' = [tracked EXCEPT !.cursor = cursor]
      BY DEF AppendCommits
    <2> HIDE DEF n, m
    <2>3. cursor > 0
      BY <2>1
    <2> HIDE DEF cursor
    <2>4. QED
      BY <2>1, <2>2, <2>3 DEF Cursor
  <1>6. \A t \in Slots : Secured(t)'
    BY <1>5 DEF Secured
  <1>7. OkStays
    BY <1>3, <1>4, <1>6 DEF OkStays, Ok
  <1>8. EndedStays
    <2> SUFFICES ASSUME up', NEW t \in Slots, session'[t].life = "ended", retiring' # t
                 PROVE  session'[t].init = "failed" \/ session'[t].init = "ok"
      BY <1>6 DEF EndedStays
    <2>1. CASE t = s
      BY <1>3, <2>1
    <2>2. CASE t # s
      BY <1>1, <1>3, <2>2 DEF Owners, EndedGood
    <2>3. QED
      BY <2>1, <2>2
  <1>9. PICK k \in Nat : Keeps(k)
    BY <1>1, KeepsOpsCases, Unmoved DEF KeepsOps
  <1>10. ReservedStays
    BY <1>1, UnseenIs, Unmoved DEF ReservedStays
  <1>11. QED
    BY <1>4, <1>5, <1>7, <1>8, <1>9, <1>10, OpsFrom, OwnersKept

\* A step after which no lifecycle has been accepted or awaits it.
LEMMA OwnersNone ==
    ASSUME Lives', Pool', tracked'.owner = 0, tracked'.cursor > 0 => tracked'.known,
           \A s \in Slots : ~Ok(s)', up' => \A s \in Slots : session'[s].life = "ended" /\ retiring' # s => session'[s].init = "failed",
           \A i \in DOMAIN chain' : chain'[i].kind \notin {"seed", "created"},
           \A c \in Clients : client'[c].pc = "reserved" => tracked'.known
    PROVE  Owners'
  <1>1. OwnerKnown' /\ OkOwns' /\ EndedGood' /\ ReservedOwns' /\ RepairsUnowned'
    BY DEF OwnerKnown, OkOwns, EndedGood, ReservedOwns, RepairsUnowned
  <1>2. SeedsGood' /\ CreatedGood'
    BY DEF SeedsGood, CreatedGood
  <1>3. QED
    BY <1>1, <1>2 DEF Owners

\* A cursor without an owner: nobody has been accepted.
LEMMA Ownerless ==
    ASSUME Lives, Owners, tracked.owner = 0
    PROVE  /\ \A s \in Slots : ~Ok(s)
           /\ \A i \in DOMAIN chain : chain[i].kind # "seed"
           /\ up => \A s \in Slots : session[s].life = "ended" /\ retiring # s => session[s].init = "failed"
  <1>1. \A s \in Slots : ~Ok(s)
    BY NotZero DEF Owners, OkOwns
  <1>2. ASSUME NEW i \in DOMAIN chain, chain[i].kind = "seed" PROVE FALSE
    <2>1. chain[i].who \in Slots /\ tracked.owner = chain[i].who
      <3>1. chain[i] \in Operation
        BY Unmoved DEF ChainOK
      <3>2. QED
        BY <1>2, <3>1, OperationIs DEF SlotKinds, Owners, SeedsGood
    <2>2. QED
      BY <2>1, NotZero
  <1>3. up => \A s \in Slots : session[s].life = "ended" /\ retiring # s => session[s].init = "failed"
    BY <1>1 DEF Owners, EndedGood, Ok
  <1>4. QED
    BY <1>1, <1>2, <1>3

LEMMA CommitsOwners == ASSUME Lives, Pool, Lives', Pool', Owners, Commits PROVE Owners'
  <1>1. /\ Head1("commit") /\ tracked.owner = 0 /\ UNCHANGED <<session, retiring, up>>
        /\ tracked'.owner = 0 /\ tracked'.known
    BY DEF Commits
  <1>2. chain # <<>> /\ 1 \in DOMAIN chain /\ chain[1].kind = "commit" /\ Running = chain[1] /\ Running.who \in Clients
        /\ chain \in Seq(Operation) /\ Tail(chain) \in Seq(Operation)
    BY <1>1, TailIs, RunningIs, Unmoved DEF Head1, Running, ChainOK
  <1>3. \A i \in DOMAIN chain : chain[i].kind \notin {"seed", "created"}
    <2>1. \A i \in DOMAIN chain : chain[i].kind # "seed"
      BY <1>1, Ownerless
    <2>2. \A i \in DOMAIN chain : ~(i < 1)
      BY <1>2
    <2>3. \A i \in DOMAIN chain : chain[i].kind # "created"
      BY <1>2, <2>2 DEF Owners, CreatedGood
    <2>4. QED
      BY <2>1, <2>3
  <1>4. \A i \in DOMAIN chain' : chain'[i].kind \notin {"seed", "created"}
    <2> DEFINE c == Running.who
               r == IF client[c].seen THEN Failed(c) ELSE Again(c)
    <2>1. chain' = Tail(chain) \/ Drop(c, Tail(chain), r)
      BY DEF Commits
    <2>2. chain' = Tail(chain) \/ chain' = Orphaned(Tail(chain))
      BY <2>1 DEF Drop
    <2>3. KeepsOps
      BY <1>2, <2>2, KeepsOpsCases, Unmoved
    <2>4. QED
      BY <1>3, <2>3 DEF KeepsOps, Keeps, OwnKinds
  <1>5. \A s \in Slots : ~Ok(s)'
    BY <1>1, Ownerless DEF Ok
  <1>6. up' => \A s \in Slots : session'[s].life = "ended" /\ retiring' # s => session'[s].init = "failed"
    BY <1>1, Ownerless
  <1>7. QED
    BY <1>1, <1>4, <1>5, <1>6, OwnersNone

LEMMA RetireOwners == ASSUME Lives, Pool, Lives', Pool', Owners, Retire PROVE Owners'
  <1>1. /\ chain # <<>> /\ Running.kind = "retire" /\ Running.who \in Slots
        /\ session[Running.who].life = "ended" /\ session[Running.who].init = "ok"
        /\ session' = [session EXCEPT ![Running.who] = Unused] /\ SessionOK
        /\ retiring' = IF retiring = Running.who THEN 0 ELSE retiring
    BY RetireIs
  <1> SUFFICES ASSUME NEW s \in Slots, s = Running.who PROVE Owners'
    BY <1>1
  <1>2. Ok(s) /\ tracked.owner = s
    BY <1>1 DEF Ok, Owners, OkOwns
  <1>3. tracked' = None /\ chain' = Tail(chain) /\ UNCHANGED up
        /\ \A c \in Clients : client'[c].pc = client[c].pc
    BY <1>1, <1>2, Unmoved DEF Retire, ClientOK, Caller
  <1>4. \A t \in Slots : session'[t] = IF t = s THEN Unused ELSE session[t]
    BY <1>1 DEF SessionOK
  <1>5. Unused.life = "none"
    BY DEF Unused
  <1>6. \A t \in Slots : ~Ok(t)'
    BY <1>2, <1>4, <1>5 DEF Ok, Owners, OkOwns
  <1>7. up' => \A t \in Slots : session'[t].life = "ended" /\ retiring' # t => session'[t].init = "failed"
    <2> SUFFICES ASSUME up', NEW t \in Slots, session'[t].life = "ended", retiring' # t
                 PROVE  session'[t].init = "failed"
      OBVIOUS
    <2>1. t # s /\ session[t] = session'[t]
      BY <1>4, <1>5
    <2>2. retiring # t
      BY <1>1, <2>1
    <2>3. session[t].init = "failed" \/ session[t].init = "ok"
      BY <1>3, <2>1, <2>2 DEF Owners, EndedGood
    <2>4. QED
      BY <1>2, <2>1, <2>3 DEF Owners, OkOwns, Ok
  <1>8. \A i \in DOMAIN chain' : chain'[i].kind # "seed"
    <2> SUFFICES ASSUME NEW i \in DOMAIN chain', chain'[i].kind = "seed" PROVE FALSE
      OBVIOUS
    <2>1. chain \in Seq(Operation) /\ 1 \in DOMAIN chain /\ Running = chain[1] /\ From(OwnKinds, chain', chain, 1)
      BY <1>1, <1>3, TailIs, Unmoved DEF ChainOK, Running
    <2>2. i + 1 \in DOMAIN chain /\ chain[i + 1].kind = "seed"
      BY <2>1 DEF From, OwnKinds
    <2>3. chain[i + 1].who = s
      BY <1>2, <2>2 DEF Owners, SeedsGood
    <2>4. i + 1 = 1
      BY <1>1, <2>1, <2>2, <2>3 DEF Lives, Unique, SlotKinds
    <2>5. QED
      BY <1>1, <2>1, <2>2, <2>4
  <1>9. CreatedGood' /\ SeedsGood' /\ RepairsUnowned' /\ OwnerKnown' /\ OkOwns' /\ EndedGood' /\ ReservedOwns'
    <2>1. None.owner = 0 /\ ~None.known /\ None.cursor = 0
      BY DEF None
    <2>2. SeedsGood' /\ RepairsUnowned' /\ OwnerKnown' /\ OkOwns' /\ EndedGood'
      BY <1>3, <1>6, <1>7, <1>8, <2>1 DEF SeedsGood, RepairsUnowned, OwnerKnown, OkOwns, EndedGood
    <2>3. ReservedOwns'
      BY <1>2, <1>3, NotZero DEF Owners, ReservedOwns
    <2>4. CreatedGood'
      <3> SUFFICES ASSUME NEW i \in DOMAIN chain', chain'[i].kind = "created"
                   PROVE  \A j \in DOMAIN chain' : (chain'[j].kind = "created" => i = j) /\ (chain'[j].kind = "commit" => i < j)
        BY <1>3, <1>6, <2>1 DEF CreatedGood
      <3>1. From(OwnKinds, chain', chain, 1) /\ DOMAIN chain' \subseteq Nat
        BY <1>1, <1>3, TailIs, Unmoved DEF ChainOK
      <3>2. i + 1 \in DOMAIN chain /\ chain[i + 1].kind = "created"
        BY <3>1 DEF From, OwnKinds
      <3>3. \A j \in DOMAIN chain : (chain[j].kind = "created" => i + 1 = j) /\ (chain[j].kind = "commit" => i + 1 < j)
        BY <3>2 DEF Owners, CreatedGood
      <3>4. ASSUME NEW j \in DOMAIN chain', chain'[j].kind \in {"created", "commit"}
            PROVE  (chain'[j].kind = "created" => i = j) /\ (chain'[j].kind = "commit" => i < j)
        <4>1. j + 1 \in DOMAIN chain /\ chain[j + 1].kind = chain'[j].kind
          BY <3>1, <3>4 DEF From, OwnKinds
        <4>2. QED
          BY <3>1, <3>3, <4>1
      <3>5. QED
        BY <3>4
    <2>5. QED
      BY <2>2, <2>3, <2>4
  <1>10. QED
    BY <1>9 DEF Owners

\* A refused creation finds an owner that stored nothing, and deletes its state:
\* no other lifecycle has been accepted, and nobody holds the id.
LEMMA ForgottenIs ==
    ASSUME Lives, Pool, Owners, Head1("created"), tracked.owner # 0, ~CollidesWithOwner
    PROVE  /\ \A s \in Slots \ {chain[1].who} : ~Ok(s)
           /\ \A i \in DOMAIN chain : i # 1 => chain[i].kind \notin {"seed", "created"}
           /\ \A c \in Clients : client[c].pc # "reserved"
  <1>1. 1 \in DOMAIN chain /\ chain[1].kind = "created" /\ ~(tracked.cursor > 0)
    BY Unmoved DEF Head1, ChainOK, CollidesWithOwner
  <1>2. \A s \in Slots \ {chain[1].who} : ~Ok(s)
    BY <1>1 DEF Owners, OkOwns, CreatedGood, CollidesWithOwner, Secured
  <1>3. \A i \in DOMAIN chain : i # 1 => chain[i].kind \notin {"seed", "created"}
    BY <1>1 DEF Owners, SeedsGood, CreatedGood
  <1>4. \A c \in Clients : client[c].pc # "reserved"
    BY DEF Owners, ReservedOwns
  <1>5. QED
    BY <1>2, <1>3, <1>4

LEMMA ForgottenOwners ==
    ASSUME Lives, Pool, Lives', Pool', Owners, Head1("created"), tracked.owner # 0, ~CollidesWithOwner,
           tracked' = None, chain' = Tail(chain), UNCHANGED <<retiring, client, up>>,
           session' = Settled(Running, FALSE), NEW s \in Slots, s = Running.who
    PROVE  Owners'
  <1>1. /\ chain # <<>> /\ Running.kind = "created" /\ Running = chain[1] /\ From(OwnKinds, chain', chain, 1)
        /\ DOMAIN chain' \subseteq Nat /\ \A i \in DOMAIN chain' : i > 0
    BY TailIs, Unmoved DEF ChainOK, Running, Head1, Lives, Typed
  <1>2. SameLives /\ session'[s].init = "failed" /\ \A t \in Slots : t # s => session'[t] = session[t]
    BY <1>1, SettledIs
  <1>3. \A t \in Slots : ~Ok(t)'
    BY <1>1, <1>2, ForgottenIs DEF Ok
  <1>4. up' => \A t \in Slots : session'[t].life = "ended" /\ retiring' # t => session'[t].init = "failed"
    <2> SUFFICES ASSUME up', NEW t \in Slots, session'[t].life = "ended", retiring' # t
                 PROVE  session'[t].init = "failed"
      OBVIOUS
    <2>1. t # s => session[t].init = "failed" \/ session[t].init = "ok"
      BY <1>2 DEF Owners, EndedGood
    <2>2. QED
      BY <1>2, <1>3, <2>1 DEF Ok
  <1>5. ASSUME NEW i \in DOMAIN chain' PROVE chain'[i].kind \notin {"seed", "created"}
    <2>1. CASE chain'[i].kind \in OwnKinds
      <3>1. i + 1 \in DOMAIN chain /\ chain'[i] = chain[i + 1] /\ i + 1 # 1
        BY <1>1, <2>1 DEF From
      <3>2. QED
        BY <3>1, ForgottenIs
    <2>2. QED
      BY <2>1 DEF OwnKinds
  <1>6. \A c \in Clients : client'[c].pc # "reserved"
    BY ForgottenIs
  <1>7. tracked'.owner = 0 /\ (tracked'.cursor > 0 => tracked'.known)
    BY DEF None
  <1>8. /\ \A i \in DOMAIN chain' : chain'[i].kind \notin {"seed", "created"}
        /\ \A c \in Clients : client'[c].pc = "reserved" => tracked'.known
    BY <1>5, <1>6
  <1>9. QED
    BY <1>3, <1>4, <1>7, <1>8, OwnersNone

LEMMA CreatedOwners == ASSUME Lives, Pool, Lives', Pool', Owners, Created PROVE Owners'
  <1>1. /\ chain # <<>> /\ Running.kind = "created" /\ Running.who \in Slots
        /\ session[Running.who].init = "pending" /\ session[Running.who].life \in {"live", "ended"}
        /\ UNCHANGED <<retiring, client, up>>
        /\ chain \in Seq(Operation) /\ 1 \in DOMAIN chain /\ Running = chain[1]
        /\ From(OwnKinds, Tail(chain), chain, 1) /\ SessionOK
    BY CreatedIs, TailIs, Unmoved DEF ChainOK, Running, Typed
  <1> SUFFICES ASSUME NEW s \in Slots, s = Running.who PROVE Owners'
    BY <1>1
  <1>2. ReservedStays
    BY <1>1 DEF ReservedStays
  <1>3. CASE /\ chain' = Tail(chain) /\ UNCHANGED <<tracked, file>>
             /\ session' = [session EXCEPT ![Running.who].init = "failed"]
    <2>1. session' = Settled(Running, FALSE)
      BY <1>1, <1>3 DEF Settled
    <2>2. SameLives /\ session'[s].init = "failed" /\ \A t \in Slots : t # s => session'[t] = session[t]
      BY <1>1, <2>1, SettledIs
    <2>3. \A t \in Slots : t # s => (Ok(t)' <=> Ok(t)) /\ (Secured(t)' <=> Secured(t))
      BY <1>3, <2>2 DEF Ok, Secured
    <2>4. OkStays
      BY <2>2, <2>3 DEF OkStays, Ok
    <2>5. EndedStays
      <3> SUFFICES ASSUME up', NEW t \in Slots, session'[t].life = "ended", retiring' # t
                   PROVE  session'[t].init = "failed" \/ (session'[t].init = "ok" /\ Secured(t)')
        BY DEF EndedStays
      <3>1. QED
        BY <1>1, <2>2, <2>3 DEF Owners, EndedGood
    <2>6. PICK k \in Nat : Keeps(k)
      BY <1>1, <1>3, KeepsOpsCases, Unmoved DEF KeepsOps
    <2>7. QED
      BY <1>1, <1>2, <1>3, <2>4, <2>5, <2>6, OpsFrom, OwnersKept
  <1>4. CASE /\ ~(tracked.known /\ CollidesWithOwner)
             /\ tracked' = [cursor |-> Len(Found), owner |-> Running.who, known |-> TRUE]
             /\ \/ chain' = Tail(chain) /\ session' = [session EXCEPT ![Running.who].init = "ok"]
                \/ /\ Beyond # <<>> /\ UNCHANGED session
                   /\ chain' = [chain EXCEPT ![1] = SeedOp(Running.who, Len(Found) + 1, Beyond)]
                   /\ SeedOp(Running.who, Len(Found) + 1, Beyond) \in Operation
    <2>1. tracked'.owner = s /\ tracked'.known
      BY <1>4
    <2>2. \A t \in Slots : t # s => ~Ok(t)
      <3> SUFFICES ASSUME NEW t \in Slots, t # s, Ok(t) PROVE FALSE
        OBVIOUS
      <3>1. tracked.owner = t /\ Secured(t)
        BY <1>1 DEF Owners, OkOwns, CreatedGood
      <3>2. tracked.owner # 0 /\ tracked.known
        BY <3>1, NotZero DEF Owners, OwnerKnown
      <3>3. QED
        BY <1>4, <3>1, <3>2 DEF CollidesWithOwner, Secured
    <2>3. \A i \in DOMAIN chain : chain[i].kind # "seed"
      <3> SUFFICES ASSUME NEW i \in DOMAIN chain, chain[i].kind = "seed" PROVE FALSE
        OBVIOUS
      <3>1. chain[i] \in Operation
        BY <1>1
      <3>2. chain[i].who \in Slots /\ tracked.owner = chain[i].who /\ tracked.cursor > 0
        BY <1>1, <3>1, OperationIs DEF Owners, SeedsGood, SlotKinds
      <3>3. tracked.owner # 0 /\ tracked.known
        BY <3>2, NotZero DEF Owners, OwnerKnown
      <3>4. QED
        BY <1>4, <3>2, <3>3 DEF CollidesWithOwner
    <2>4. /\ \A i \in DOMAIN chain : chain[i].kind = "created" => i = 1
          /\ \A c \in Clients : client[c].pc # "reserved"
      BY <1>1 DEF Owners, CreatedGood, ReservedOwns
    <2>5. \A i \in DOMAIN chain : chain[i].kind = "commit" => chain[i].stage = "queued"
      BY <1>1 DEF Pool, CommitsGood
    <2>6. \A i \in DOMAIN chain' :
              /\ chain'[i].kind # "created"
              /\ chain'[i].kind = "commit" => chain'[i].stage = "queued"
              /\ chain'[i].kind = "seed" => i = 1 /\ chain'[i].who = s /\ chain'[i].batch # <<>>
      <3>1. CASE chain' = Tail(chain)
        <4> SUFFICES ASSUME NEW i \in DOMAIN chain', chain'[i].kind \in OwnKinds
                     PROVE  chain'[i].kind = "commit" /\ chain'[i].stage = "queued"
          BY DEF OwnKinds
        <4>1. i + 1 \in DOMAIN chain /\ chain'[i] = chain[i + 1] /\ i \in Nat /\ i # 0
          BY <1>1, <3>1 DEF From
        <4>2. i + 1 # 1
          BY <4>1
        <4>3. QED
          BY <2>3, <2>4, <2>5, <4>1, <4>2 DEF OwnKinds
      <3>2. CASE /\ Beyond # <<>>
                 /\ chain' = [chain EXCEPT ![1] = SeedOp(Running.who, Len(Found) + 1, Beyond)]
                 /\ SeedOp(Running.who, Len(Found) + 1, Beyond) \in Operation
        <4> DEFINE from == Len(Found) + 1
                   b == Beyond
                   op == SeedOp(s, from, b)
        <4>1. op.kind = "seed" /\ op.who = s /\ op.batch = b /\ b # <<>>
          BY <3>2 DEF SeedOp
        <4>2. chain' = [chain EXCEPT ![1] = op] /\ op \in Operation
          BY <3>2
        <4> HIDE DEF op, b
        <4>3. DOMAIN chain' = DOMAIN chain /\ chain'[1] = op /\ \A i \in DOMAIN chain : i # 1 => chain'[i] = chain[i]
          BY <1>1, <4>2, HeadIs
        <4>4. QED
          BY <2>3, <2>4, <2>5, <4>1, <4>3
      <3>3. QED
        BY <1>4, <3>1, <3>2
    <2>7. SameLives /\ \A t \in Slots : t # s => session'[t] = session[t]
      <3>1. CASE UNCHANGED session
        BY <3>1 DEF SameLives
      <3>2. CASE session' = [session EXCEPT ![Running.who].init = "ok"]
        <4>1. session' = Settled(Running, TRUE)
          BY <1>1, <3>2 DEF Settled
        <4>2. QED
          BY <1>1, <4>1, SettledIs
      <3>3. QED
        BY <1>4, <3>1, <3>2
    <2>8. \A t \in Slots : Ok(t)' => t = s
      BY <2>2, <2>7 DEF Ok
    <2>9. EndedGood'
      <3> SUFFICES ASSUME up, NEW t \in Slots, session'[t].life = "ended", retiring # t
                   PROVE  session'[t].init = "failed"
        BY <1>1 DEF EndedGood
      <3>1. session[t].life = "ended"
        BY <2>7 DEF SameLives
      <3>2. session[t].init \in {"failed", "ok"}
        BY <3>1 DEF Owners, EndedGood
      <3>3. t # s
        BY <1>1, <3>2
      <3>4. QED
        BY <2>2, <2>7, <3>1, <3>2, <3>3 DEF Ok
    <2>10. QED
      BY <1>1, <2>1, <2>4, <2>6, <2>8, <2>9
         DEF Owners, OwnerKnown, OkOwns, SeedsGood, CreatedGood, ReservedOwns, RepairsUnowned
  <1>5. CASE /\ chain' = Tail(chain) /\ tracked.owner # 0 /\ ~CollidesWithOwner /\ tracked' = None
             /\ session' = [session EXCEPT ![Running.who].init = "failed"]
    <2>1. session' = Settled(Running, FALSE) /\ Head1("created")
      BY <1>1, <1>5 DEF Settled, Head1
    <2>2. QED
      BY <1>1, <1>5, <2>1, ForgottenOwners
  <1>6. QED
    BY <1>3, <1>4, <1>5, CreatedIs

-----------------------------------------------------------------------------
(* Lifecycles enter, and own.                                              *)

\* The events of a prepared session that are not stored yet.
Suffix(c) == SubSeq(client[c].log, tracked.cursor + 1, Len(client[c].log))

LEMMA PublishIs ==
    ASSUME Lives, NEW c \in Clients, Publish(c)
    PROVE  /\ client[c].pc = "reserved" /\ Present = {} /\ Attachable(client[c].log)
           /\ client[c].log \in Seq(Event) /\ tracked.cursor \in Nat /\ tracked.cursor <= Len(client[c].log)
           /\ entry' = NoEntry /\ UNCHANGED <<file, retiring, up>>
           /\ \A d \in Clients : IF d = c THEN client'[d].pc = "idle" ELSE client'[d].pc = client[d].pc
           /\ \E s \in Free :
                 /\ session' = [session EXCEPT ![s] =
                       Entered(client[c].log, IF Suffix(c) = <<>> THEN "ok" ELSE "pending")]
                 /\ tracked' = [tracked EXCEPT !.owner = s]
                 /\ chain' = IF Suffix(c) = <<>> THEN Orphaned(chain)
                             ELSE Append(Orphaned(chain), SeedOp(s, tracked.cursor + 1, Suffix(c)))
  <1>1. /\ client[c].pc = "reserved" /\ Present = {} /\ Attachable(client[c].log)
        /\ UNCHANGED <<file, retiring, up>> /\ client' = [Unseen(client) EXCEPT ![c] = Idle]
    BY DEF Publish
  <1>2. PICK s \in NextSlot : AttachPrepared(s, client[c].log)
    BY DEF Publish
  <1>3. client[c].log \in Seq(Event) /\ tracked.cursor \in Nat /\ tracked.cursor <= Len(client[c].log)
    BY <1>1, Unmoved DEF ClientOK, Caller, OwnerOK, Cursor, Attachable
  <1>4. \A d \in Clients : IF d = c THEN client'[d].pc = "idle" ELSE client'[d].pc = client[d].pc
    <2>1. DOMAIN Unseen(client) = Clients
      BY DEF Unseen
    <2>2. \A d \in Clients : client'[d] = IF d = c THEN Idle ELSE Unseen(client)[d]
      BY <1>1, <2>1
    <2>3. \A d \in Clients : Idle.pc = "idle" /\ Unseen(client)[d].pc = client[d].pc
      BY AnswersIs, Unmoved
    <2>4. QED
      BY <2>2, <2>3
  <1>5. /\ session' = [session EXCEPT ![s] = Entered(client[c].log, IF Suffix(c) = <<>> THEN "ok" ELSE "pending")]
        /\ tracked' = [tracked EXCEPT !.owner = s] /\ entry' = NoEntry
        /\ chain' = IF Suffix(c) = <<>> THEN Orphaned(chain)
                    ELSE Append(Orphaned(chain), SeedOp(s, tracked.cursor + 1, Suffix(c)))
    BY <1>2 DEF AttachPrepared, Enter, Entered, Suffix
  <1>6. s \in Free
    BY DEF NextSlot
  <1>7. QED
    BY <1>1, <1>3, <1>4, <1>5, <1>6

\* A reserved entry has something stored, and its cursor no owner.
LEMMA ReservedStored ==
    ASSUME Lives, Pool, Owners, NEW c \in Clients, client[c].pc = "reserved", Attachable(client[c].log)
    PROVE  /\ tracked.cursor > 0 /\ tracked.owner = 0 /\ tracked.known
           /\ \A i \in DOMAIN chain : chain[i].kind # "created"
           /\ \A d \in Clients : client[d].pc = "reserved" => d = c
           /\ \A i \in DOMAIN chain : chain[i].kind = "commit" => chain[i].stage = "queued"
  <1>1. tracked.owner = 0 /\ tracked.known
    BY DEF Owners, ReservedOwns
  <1>2. client[c].seen /\ entry.phase = "reserved"
    BY DEF Pool, HoldersGood
  <1>3. entry.src \in Source /\ entry.src.log # <<>>
    BY <1>2, Unmoved DEF EntryOK, Preparation, Pool, LogStored, Loaded
  <1>4. tracked.cursor > 0
    <2> DEFINE src == entry.src
               n == Len(src.log)
               m == Len(Stored(src))
               j == Len(Balanced(src))
               i == Len(Closers(Stored(src)))
    <2>1. n \in Nat /\ n # 0 /\ n <= m
      BY <1>3, StoredLonger, EmptySeq DEF Source
    <2>2. m \in Nat /\ i \in Nat /\ j = m + i
      <3>1. Stored(src) \in Seq(Event) /\ Closers(Stored(src)) \in Seq(Event)
        BY <1>3, SourceType, ClosersType
      <3>2. QED
        BY <3>1, ConcatProperties, LenProperties DEF Balanced
    <2>3. tracked.cursor = j
      BY DEF Attachable
    <2> HIDE DEF n, m, j, i
    <2>4. QED
      BY <2>1, <2>2, <2>3
  <1>5. \A i \in DOMAIN chain : chain[i].kind # "created"
    BY <1>1 DEF Owners, CreatedGood
  <1>6. \A d \in Clients : client[d].pc = "reserved" => d = c
    BY DEF Pool, HoldersGood, Holds, Holding
  <1>7. ASSUME NEW i \in DOMAIN chain, chain[i].kind = "commit", chain[i].stage # "queued" PROVE FALSE
    <2>1. chain[i].who \in Clients
      <3>1. chain[i] \in Operation
        BY Unmoved DEF ChainOK
      <3>2. QED
        BY <1>7, <3>1, OperationIs
    <2>2. client[chain[i].who].pc = "commit" /\ client[chain[i].who].seen
      BY <1>7 DEF Pool, CommitsGood
    <2>3. QED
      BY <1>2, <2>1, <2>2 DEF Pool, HoldersGood, Holds, Holding
  <1>8. QED
    BY <1>1, <1>4, <1>5, <1>6, <1>7

LEMMA PublishOwners == ASSUME Lives, Pool, Lives', Owners, NEW c \in Clients, Publish(c) PROVE Owners'
  <1>1. client[c].pc = "reserved" /\ UNCHANGED <<retiring, up>>
        /\ \A d \in Clients : IF d = c THEN client'[d].pc = "idle" ELSE client'[d].pc = client[d].pc
    BY PublishIs
  <1>2. /\ tracked.cursor > 0 /\ tracked.owner = 0 /\ tracked.known
        /\ \A i \in DOMAIN chain : chain[i].kind # "created"
        /\ \A d \in Clients : client[d].pc = "reserved" => d = c
        /\ \A i \in DOMAIN chain : chain[i].kind = "commit" => chain[i].stage = "queued"
    BY PublishIs, ReservedStored
  <1>3. PICK s \in Free :
           /\ session' = [session EXCEPT ![s] = Entered(client[c].log, IF Suffix(c) = <<>> THEN "ok" ELSE "pending")]
           /\ tracked' = [tracked EXCEPT !.owner = s]
           /\ chain' = IF Suffix(c) = <<>> THEN Orphaned(chain)
                       ELSE Append(Orphaned(chain), SeedOp(s, tracked.cursor + 1, Suffix(c)))
    BY PublishIs
  <1>4. s \in Slots /\ session \in [Slots -> Lifecycle] /\ tracked \in Cursor /\ chain \in Seq(Operation)
    BY Unmoved DEF Free, Typed, SessionOK, OwnerOK, ChainOK
  <1>5. tracked'.owner = s /\ tracked'.known /\ tracked'.cursor > 0
    BY <1>2, <1>3, <1>4 DEF Cursor
  <1>6. \A t \in Slots : t # s => session'[t] = session[t]
    BY <1>3, <1>4
  <1>7. session'[s].life = "live"
    BY <1>3, <1>4 DEF Entered, Unused
  <1>8. \A t \in Slots : Ok(t)' => t = s
    BY <1>2, <1>6, Ownerless DEF Ok
  <1>9. EndedGood'
    BY <1>1, <1>2, <1>6, <1>7, Ownerless DEF EndedGood
  <1>10. \A i \in DOMAIN chain' :
              /\ chain'[i].kind # "created"
              /\ chain'[i].kind = "commit" => chain'[i].stage = "queued"
              /\ chain'[i].kind = "seed" => chain'[i].who = s /\ chain'[i].batch # <<>>
    <2> DEFINE q == Orphaned(chain)
               b == Suffix(c)
               from == tracked.cursor + 1
               op == SeedOp(s, from, b)
    <2>1. q \in Seq(Operation) /\ From(OwnKinds, q, chain, 0)
      BY <1>4, OrphanedIs DEF OwnKinds
    <2>2. op.kind = "seed" /\ op.who = s /\ op.batch = b
      BY DEF SeedOp
    <2>3. chain' = IF b = <<>> THEN q ELSE Append(q, op)
      BY <1>3
    <2> HIDE DEF q, b, op
    <2>4. \A i \in DOMAIN q : /\ q[i].kind \notin {"seed", "created"}
                              /\ q[i].kind = "commit" => q[i].stage = "queued"
      BY <1>2, <2>1, Ownerless DEF From, OwnKinds
    <2>5. ASSUME b # <<>>, NEW i \in DOMAIN chain' PROVE chain'[i] = op \/ (i \in DOMAIN q /\ chain'[i] = q[i])
      BY <2>1, <2>3, <2>5
    <2>6. QED
      BY <2>2, <2>3, <2>4, <2>5
  <1>11. \A d \in Clients : client'[d].pc # "reserved"
    BY <1>1, <1>2
  <1>12. QED
    BY <1>5, <1>8, <1>9, <1>10, <1>11
       DEF Owners, OwnerKnown, OkOwns, SeedsGood, CreatedGood, ReservedOwns, RepairsUnowned

LEMMA CreateOwners ==
    ASSUME Lives, Pool, Stopped, InTurn, Lives', Owners, NEW c \in Clients, Create(c) PROVE Owners'
  <1>1. /\ client[c].pc = "absent" /\ file.log = <<>> /\ client' = [client EXCEPT ![c] = Idle]
        /\ UNCHANGED <<tracked, retiring, up>> /\ Idle.pc = "idle"
    BY AnswersIs, Unmoved DEF Create, AttachNew
  <1>2. ReservedStays
    BY <1>1, CallerReserved, Unmoved
  <1>3. chain \in Seq(Operation) /\ From(OwnKinds, chain, chain, 0) /\ session \in [Slots -> Lifecycle]
    BY FromSame, Unmoved DEF ChainOK, Typed, SessionOK
  <1>4. CASE Present # {}
    <2>1. UNCHANGED <<session, chain>>
      BY <1>4 DEF Create
    <2>2. QED
      BY <1>1, <1>2, <2>1, KeepsOpsCases, Unmoved, OwnersQuiet DEF Quietly
  <1>5. CASE Present = {} /\ entry # NoEntry
    <2>1. PICK s \in NextSlot : Veto(s)
      BY <1>5 DEF Create
    <2>2. UNCHANGED chain /\ s \in Slots
      BY <1>5 DEF Create, NextSlot, Free
    <2>3. session'[s].life = "vetoed" /\ \A t \in Slots : t # s => session'[t] = session[t]
      BY <1>3, <2>1, <2>2 DEF Veto, Unused
    <2>4. \A t \in Slots : t # s => (Ok(t)' <=> Ok(t)) /\ (Secured(t)' <=> Secured(t))
      BY <1>1, <2>3 DEF Ok, Secured
    <2>5. OkStays
      BY <2>3, <2>4 DEF OkStays, Ok
    <2>6. EndedStays
      <3> SUFFICES ASSUME up', NEW t \in Slots, session'[t].life = "ended", retiring' # t
                   PROVE  session'[t].init = "failed" \/ (session'[t].init = "ok" /\ Secured(t)')
        BY DEF EndedStays
      <3>1. t # s
        BY <2>3
      <3>2. QED
        BY <1>1, <2>3, <2>4, <3>1 DEF Owners, EndedGood
    <2>7. PICK k \in Nat : Keeps(k)
      BY <2>2, KeepsOpsCases, Unmoved DEF KeepsOps
    <2>8. QED
      BY <1>1, <1>2, <2>5, <2>6, <2>7, OpsFrom, OwnersKept
  <1>6. CASE Present = {} /\ entry = NoEntry
    <2>0. PICK s \in NextSlot : \E seed : AttachNew(s, seed)
      BY <1>6 DEF Create
    <2>1. PICK seed : AttachNew(s, seed)
      BY <2>0
    <2> DEFINE op == CreatedOp(s, seed)
    <2>2. /\ s \in Free /\ s \in Slots /\ chain' = Append(chain, op)
          /\ session'[s].life = "live" /\ session'[s].init = "pending"
          /\ \A t \in Slots : t # s => session'[t] = session[t]
      BY <1>3, <2>1 DEF AttachNew, Enter, NextSlot, Free, Unused
    <2>3. op.kind = "created" /\ op.who = s
      BY DEF CreatedOp
    <2> HIDE DEF op
    <2>4. DOMAIN chain = 1 .. Len(chain) /\ Len(chain) \in Nat /\ DOMAIN chain' = 1 .. Len(chain) + 1
          /\ chain'[Len(chain) + 1] = op /\ \A i \in DOMAIN chain : chain'[i] = chain[i]
      <3>1. chain' \in Seq(Operation)
        BY DEF Lives, Typed, ChainOK
      <3>2. QED
        BY <1>3, <2>2, <3>1
    <2>5. \A i \in DOMAIN chain' : \/ i \in DOMAIN chain /\ chain'[i] = chain[i]
                                   \/ i = Len(chain) + 1 /\ chain'[i] = op
      BY <2>4
    <2>6. up /\ retiring = 0
      BY <1>1, <1>6 DEF Stopped, AllIdle, InTurn, CallersInTurn
    <2>7. \A t \in Slots : session[t].life = "ended" =>
              session[t].init = "failed" \/ (session[t].init = "ok" /\ Secured(t))
      BY <2>6, NotZero DEF Owners, EndedGood
    <2>8. \A t \in Slots : session[t].life # "live"
      BY <1>6 DEF Present
    <2>9. \A i \in DOMAIN chain : chain[i].kind \notin {"created", "commit"}
      <3>1. ASSUME NEW i \in DOMAIN chain, chain[i].kind = "created" PROVE FALSE
        <4>1. chain[i] \in Operation
          BY <1>3
        <4>2. chain[i].who \in Slots /\ Serves(chain[i], session[chain[i].who])
          BY <3>1, <4>1, OperationIs DEF Lives, AllServe, SlotKinds
        <4>3. session[chain[i].who].init = "pending" /\ session[chain[i].who].life = "ended"
          BY <2>8, <3>1, <4>2 DEF Serves
        <4>4. QED
          BY <2>7, <4>2, <4>3
      <3>2. ASSUME NEW i \in DOMAIN chain, chain[i].kind = "commit" PROVE FALSE
        <4>1. chain[i] \in Operation
          BY <1>3
        <4>2. chain[i].who \in Clients /\ client[chain[i].who].pc = "commit"
          BY <3>2, <4>1, OperationIs DEF Pool, CommitsGood
        <4>3. QED
          BY <1>1, <4>2 DEF Pool, LogStored, Holding
      <3>3. QED
        BY <3>1, <3>2
    <2>10. ~(tracked.known /\ tracked.owner = 0)
      BY <1>1 DEF Pool, LogStored
    <2>11. \A t \in Slots : /\ Ok(t)' => Ok(t) /\ t # s /\ Secured(t)'
                            /\ session'[t].life = "ended" => session[t].life = "ended" /\ session'[t] = session[t]
      <3> SUFFICES ASSUME NEW t \in Slots
                   PROVE  /\ Ok(t)' => Ok(t) /\ t # s /\ Secured(t)'
                          /\ session'[t].life = "ended" => session[t].life = "ended" /\ session'[t] = session[t]
        OBVIOUS
      <3>1. t = s => ~Ok(t)' /\ session'[t].life # "ended"
        BY <2>2 DEF Ok
      <3>2. t # s => (Ok(t)' <=> Ok(t)) /\ (Secured(t)' <=> Secured(t))
        BY <1>1, <2>2 DEF Ok, Secured
      <3>3. Ok(t) => Secured(t)
        BY <2>7, <2>8 DEF Ok
      <3>4. QED
        BY <2>2, <3>1, <3>2, <3>3
    <2>12. OwnerKnown' /\ OkOwns' /\ ReservedOwns'
      BY <1>1, <1>2, <2>11 DEF Owners, OwnerKnown, OkOwns, ReservedOwns, ReservedStays
    <2>13. SeedsGood' /\ RepairsUnowned'
      BY <1>1, <2>3, <2>5, <2>9 DEF Owners, SeedsGood, RepairsUnowned
    <2>14. EndedGood'
      <3>1. \A t \in Slots : session'[t].life = "ended" => (Secured(t) => Secured(t)')
        BY <1>1, <2>11 DEF Secured
      <3>2. QED
        BY <2>7, <2>11, <3>1 DEF EndedGood
    <2>15. CreatedGood'
      <3>1. \A i \in DOMAIN chain' : chain'[i].kind # "commit" /\ (chain'[i].kind = "created" => i = Len(chain) + 1 /\ chain'[i].who = s)
        BY <2>3, <2>5, <2>9
      <3>2. \A t \in Slots \ {s} : Ok(t)' => Secured(t)'
        BY <2>11
      <3>3. QED
        BY <1>1, <2>10, <3>1, <3>2 DEF CreatedGood
    <2>16. QED
      BY <2>12, <2>13, <2>14, <2>15 DEF Owners
  <1>7. QED
    BY <1>4, <1>5, <1>6

LEMMA CrashOwners == ASSUME Lives', Pool', Crash PROVE Owners'
  <1>1. /\ tracked' = None /\ chain' = <<>> /\ session' = [s \in Slots |-> Unused]
        /\ client' = [c \in Clients |-> Idle]
    BY DEF Crash
  <1>2. Unused.life = "none" /\ Idle.pc = "idle" /\ None.owner = 0 /\ None.cursor = 0
    BY DEF Unused, Idle, None
  <1>3. \A s \in Slots : session'[s].life = "none"
    BY <1>1, <1>2
  <1>4. \A s \in Slots : ~Ok(s)'
    BY <1>3 DEF Ok
  <1>5. \A c \in Clients : client'[c].pc = "idle"
    BY <1>1, <1>2
  <1>6. tracked'.owner = 0 /\ tracked'.cursor = 0 /\ DOMAIN chain' = {}
    BY <1>1, <1>2
  <1>7. QED
    BY <1>3, <1>4, <1>5, <1>6, OwnersNone

LEMMA ReloadOwners == ASSUME Stopped, Lives', Reload PROVE Owners'
  <1> DEFINE s == CHOOSE t \in Present : TRUE
             op == CreatedOp(s, LiveView)
  <1>1. /\ tracked' = None /\ UNCHANGED client /\ AllIdle /\ chain' = IF Present = {} THEN <<>> ELSE <<op>>
    BY DEF Reload, Stopped
  <1>2. op.kind = "created"
    BY DEF CreatedOp
  <1> HIDE DEF op
  <1>3. \A i \in DOMAIN chain' : chain'[i].kind = "created" /\ i = 1
    BY <1>1, <1>2
  <1>4. \A t \in Slots : session'[t].life = "none" \/ (session'[t].life = "live" /\ session'[t].init = "pending")
    BY DEF Reload, Unused
  <1>5. \A t \in Slots : ~Ok(t)'
    BY <1>4 DEF Ok
  <1>6. tracked'.owner = 0 /\ tracked'.cursor = 0 /\ ~tracked'.known /\ \A c \in Clients : client'[c].pc = "idle"
    BY <1>1 DEF None, AllIdle
  <1>7. OwnerKnown' /\ OkOwns' /\ SeedsGood' /\ EndedGood' /\ ReservedOwns' /\ RepairsUnowned'
    BY <1>3, <1>4, <1>5, <1>6 DEF OwnerKnown, OkOwns, SeedsGood, EndedGood, ReservedOwns, RepairsUnowned
  <1>8. CreatedGood'
    BY <1>3, <1>5, <1>6 DEF CreatedGood
  <1>9. QED
    BY <1>7, <1>8 DEF Owners

LEMMA InitOwners == Init => Owners
  <1> SUFFICES ASSUME Init PROVE Owners
    OBVIOUS
  <1>1. Unused.life = "none" /\ Idle.pc = "idle" /\ None.owner = 0 /\ None.cursor = 0
    BY DEF Unused, Idle, None
  <1>2. /\ \A s \in Slots : session[s].life = "none" /\ ~Ok(s)
        /\ \A c \in Clients : client[c].pc = "idle"
        /\ DOMAIN chain = {} /\ tracked.owner = 0 /\ tracked.cursor = 0
    BY <1>1 DEF Init, Ok
  <1>3. QED
    BY <1>2 DEF Owners, OwnerKnown, OkOwns, SeedsGood, EndedGood, CreatedGood, ReservedOwns, RepairsUnowned

LEMMA NextOwners == Lives /\ Pool /\ Stopped /\ InTurn /\ Owners /\ [Next]_vars => Owners'
  <1> SUFFICES ASSUME Lives, Pool, Stopped, InTurn, Owners, [Next]_vars PROVE Owners'
    OBVIOUS
  <1>1. Lives' /\ Pool'
    BY NextLives, NextPool
  <1>2. CASE Microtask
    BY <1>1, <1>2, LifecycleWorks, OwnersWork, CallerQuiet, OwnersQuiet, ReserveOwners DEF Microtask
  <1>3. CASE ChainStep
    BY <1>1, <1>3, AppendBeginOwners, AppendCommitsOwners, CreatedOwners, RetireOwners, RunningQuiet,
       OwnersQuiet, RepairOwners, CommitsOwners DEF ChainStep
  <1>4. CASE ChainFails
    BY <1>1, <1>4, AppendFailsOwners, RunningQuiet, OwnersQuiet DEF ChainFails
  <1>5. ASSUME NEW s \in Slots, Emit(s) \/ Checkpoint(s) \/ End(s) \/ Deadline(s) PROVE Owners'
    BY <1>1, <1>5, LifecycleWorks, OwnersWork, EndOwners
  <1>6. ASSUME NEW c \in Clients, Ask(c) \/ Setup(c) \/ Conclude(c) \/ Abort(c) PROVE Owners'
    BY <1>1, <1>6, CallerQuiet, OwnersQuiet, PublishOwners, CreateOwners DEF Conclude
  <1>7. CASE Evict \/ ForeignResume \/ Crash \/ Unload \/ Reload
    BY <1>1, <1>7, ElsewhereQuiet, OwnersQuiet, CrashOwners, UnloadWorks, OwnersWork, ReloadOwners
  <1>8. CASE UNCHANGED vars
    BY <1>1, <1>8, KeepsOpsCases, Unmoved, OwnersQuiet DEF vars, Quietly, ReservedStays
  <1>9. QED
    BY <1>2, <1>3, <1>4, <1>5, <1>6, <1>7, <1>8 DEF Next

-----------------------------------------------------------------------------
(* The fourth layer: what is in the log.                                   *)

\* l is how ev begins; b is what follows in ev after `from`, up to `to`.
Begins(l, ev) == Len(l) <= Len(ev) /\ \A i \in 1 .. Len(l) : l[i] = ev[i]
Part(b, ev, from, to) ==
    Len(b) = to - from /\ to <= Len(ev) /\ \A i \in 1 .. Len(b) : b[i] = ev[from + i]

Whole == tracked.cursor = Len(file.log) /\ ~file.torn

\* The log is how the events of the cursor's owner begin. Once initialised, the
\* owner has queued exactly what the log lacks.
OwnerHolds ==
    \A s \in Slots : tracked.owner = s =>
        /\ Whole /\ Begins(file.log, session[s].events)
        /\ tracked.cursor <= WrittenBy(session[s])
        /\ session[s].init = "ok" => tracked.cursor = WrittenBy(session[s])

\* What an operation of a lifecycle stores is the next of its events.
OpGood(op, r, cursor) ==
    /\ op.kind = "created" => Part(op.batch, r.events, 0, WrittenBy(r))
    /\ op.kind = "seed" => op.from = cursor + 1 /\ Part(op.batch, r.events, cursor, WrittenBy(r))
    /\ op.kind = "write" /\ op.stage = "io" => Part(op.batch, r.events, cursor, cursor + Len(r.w.batch))

OpsGood == \A i \in DOMAIN chain : OpGood(chain[i], session[chain[i].who], tracked.cursor)

\* The log is how a prepared session begins.
ReservedHolds ==
    \A c \in Clients : client[c].pc = "reserved" => Whole /\ Begins(file.log, client[c].log)

Log == OwnerHolds /\ OpsGood /\ ReservedHolds

LEMMA Grows ==
    ASSUME NEW ev \in Seq(Event), NEW v, v = ev \/ \E e \in Event : v = Append(ev, e), NEW l \in Seq(Event)
    PROVE  /\ Begins(l, ev) => Begins(l, v)
           /\ \A m \in Nat, n \in Int : Part(l, ev, m, n) => Part(l, v, m, n)
  <1>1. Len(l) \in Nat /\ Len(ev) \in Nat /\ Len(v) \in Nat /\ Len(ev) <= Len(v)
        /\ \A i \in 1 .. Len(ev) : v[i] = ev[i]
    OBVIOUS
  <1>2. Begins(l, ev) => Begins(l, v)
    BY <1>1 DEF Begins
  <1>3. ASSUME NEW m \in Nat, NEW n \in Int, Part(l, ev, m, n) PROVE Part(l, v, m, n)
    <2>1. \A i \in 1 .. Len(l) : m + i \in 1 .. Len(ev)
      BY <1>1, <1>3 DEF Part
    <2>2. QED
      BY <1>1, <1>3, <2>1 DEF Part
  <1>4. QED
    BY <1>2, <1>3

\* What the proofs need of a lifecycle.
LEMMA RecordIs ==
    ASSUME Lives, NEW s \in Slots
    PROVE  LET r == session[s] IN
           /\ r.events \in Seq(Event) /\ r.handed \in Nat /\ r.w \in Writer
           /\ r.w.batch \in Seq(Nat) /\ Len(r.w.batch) \in Nat /\ Len(r.w.pending) \in Nat
           /\ WrittenBy(r) \in Int /\ r.handed <= Len(r.events) /\ Numbered(r.w.batch, r.w.pending, r.handed)
           /\ file.log \in Seq(Event) /\ tracked.cursor \in Nat
           /\ tracked.owner = s => r.life \in {"live", "ended"}
  <1>1. session[s].w.batch \in Seq(Nat) /\ session[s].w.pending \in Seq(Nat)
    BY SlotTypes, Unmoved DEF Typed, Writer
  <1>2. Len(session[s].w.batch) \in Nat /\ Len(session[s].w.pending) \in Nat
    BY <1>1
  <1>3. file.log \in Seq(Event) /\ tracked.cursor \in Nat
    BY Unmoved DEF FileOK, Source, OwnerOK, Cursor
  <1>4. /\ session[s].w \in Writer /\ session[s].handed \in Nat /\ session[s].events \in Seq(Event)
        /\ SlotGood(session[s])
    BY SlotTypes, Unmoved DEF Typed, Lives, SlotsGood
  <1>5. tracked.owner = s => session[s].life \in {"live", "ended"}
    BY NotZero DEF Lives, OwnerHere
  <1>6. WrittenBy(session[s]) \in Int
    <2>1. \A a, b, d \in Nat : a - b - d \in Int
      OBVIOUS
    <2>2. QED
      BY <1>2, <1>4, <2>1 DEF WrittenBy
  <1>7. QED
    BY <1>1, <1>2, <1>3, <1>4, <1>5, <1>6 DEF SlotGood

LEMMA ServedIs ==
    ASSUME Lives, NEW i \in DOMAIN chain, chain[i].kind \in SlotKinds
    PROVE  /\ chain[i] \in Operation /\ chain[i].who \in Slots /\ Serves(chain[i], session[chain[i].who])
           /\ chain[i].kind # "retire" => chain[i].batch \in Seq(Event)
  <1>1. chain[i] \in Operation
    BY Unmoved DEF ChainOK
  <1>2. QED
    BY <1>1, OperationIs DEF Lives, AllServe, SlotKinds

LogKeeps(r, v) ==
    /\ WrittenBy(v) = WrittenBy(r) /\ (v.init = "ok" => r.init = "ok")
    /\ v.events = r.events \/ \E e \in Event : v.events = Append(r.events, e)

\* A step that stores nothing and moves no cursor.
LEMMA LogFrame ==
    ASSUME Lives, Log, UNCHANGED <<file, tracked>>, ReservedStays,
           \A s \in Slots : session[s].life \in {"live", "ended"} => LogKeeps(session[s], session'[s]),
           \A i \in DOMAIN chain' :
               \/ OpGood(chain'[i], session'[chain'[i].who], tracked.cursor)
               \/ \E j \in DOMAIN chain : LET s == chain[j].who IN
                     chain'[i] = chain[j] /\ (chain[j].kind = "write" => session'[s].w.batch = session[s].w.batch)
    PROVE  Log'
  <1>1. OwnerHolds'
    <2> SUFFICES ASSUME NEW s \in Slots, tracked.owner = s
                 PROVE  /\ Whole' /\ Begins(file.log, session'[s].events)
                        /\ tracked.cursor <= WrittenBy(session'[s])
                        /\ session'[s].init = "ok" => tracked.cursor = WrittenBy(session'[s])
      BY DEF OwnerHolds
    <2>1. LogKeeps(session[s], session'[s])
      BY RecordIs
    <2>2. Whole' <=> Whole
      BY DEF Whole
    <2>3. Begins(file.log, session'[s].events)
      BY <2>1, RecordIs, Grows DEF LogKeeps, Log, OwnerHolds
    <2>4. QED
      BY <2>1, <2>2, <2>3 DEF LogKeeps, Log, OwnerHolds
  <1>2. OpsGood'
    <2> SUFFICES ASSUME NEW i \in DOMAIN chain', NEW j \in DOMAIN chain, chain'[i] = chain[j], NEW s, s = chain[j].who,
                        chain[j].kind = "write" => session'[s].w.batch = session[s].w.batch
                 PROVE  OpGood(chain[j], session'[s], tracked.cursor)
      BY DEF OpsGood
    <2>1. OpGood(chain[j], session[s], tracked.cursor)
      BY DEF Log, OpsGood
    <2>2. CASE chain[j].kind \notin {"created", "seed", "write"}
      BY <2>2 DEF OpGood
    <2>3. CASE chain[j].kind \in {"created", "seed", "write"}
      <3>1. s \in Slots /\ Serves(chain[j], session[s]) /\ chain[j].batch \in Seq(Event)
        BY <2>3, ServedIs DEF SlotKinds
      <3>2. LogKeeps(session[s], session'[s])
        BY <3>1 DEF Serves
      <3>3. \A m \in Nat, n \in Int : Part(chain[j].batch, session[s].events, m, n) => Part(chain[j].batch, session'[s].events, m, n)
        BY <3>1, <3>2, RecordIs, Grows DEF LogKeeps
      <3>4. WrittenBy(session[s]) \in Int /\ tracked.cursor \in Nat /\ 0 \in Nat
            /\ tracked.cursor + Len(session[s].w.batch) \in Int
        BY <3>1, RecordIs
      <3>5. QED
        BY <2>1, <2>3, <3>2, <3>3, <3>4 DEF OpGood, LogKeeps
    <2>4. QED
      BY <2>2, <2>3
  <1>3. ReservedHolds'
    <2>1. \A c \in Clients : client[c].log \in Seq(Event)
      BY CallerTypes, Unmoved DEF Caller
    <2>2. file.log \in Seq(Event)
      BY Unmoved DEF FileOK, Source
    <2>3. Whole' <=> Whole
      BY DEF Whole
    <2>4. QED
      BY <2>1, <2>2, <2>3, Grows DEF Log, ReservedHolds, ReservedStays
  <1>4. QED
    BY <1>1, <1>2, <1>3 DEF Log

LEMMA LogQuiet ==
    ASSUME Lives, Log, UNCHANGED <<file, tracked>>, SessionsKeep, KeepsOps, ReservedStays PROVE Log'
  <1>1. \A s \in Slots : LogKeeps(session[s], session'[s])
    BY DEF SessionsKeep, SlotKeeps, LogKeeps
  <1>2. PICK k \in Nat : Keeps(k)
    BY DEF KeepsOps
  <1>3. ASSUME NEW i \in DOMAIN chain'
        PROVE  \/ OpGood(chain'[i], session'[chain'[i].who], tracked.cursor)
               \/ \E j \in DOMAIN chain : LET s == chain[j].who IN
                     chain'[i] = chain[j] /\ (chain[j].kind = "write" => session'[s].w.batch = session[s].w.batch)
    <2>1. CASE ~(chain'[i].kind \in OwnKinds \/ Writing(chain'[i]))
      BY <2>1 DEF OpGood, OwnKinds, Writing
    <2>2. CASE chain'[i].kind \in OwnKinds \/ Writing(chain'[i])
      <3>1. i + k \in DOMAIN chain /\ chain'[i] = chain[i + k]
        BY <1>2, <2>2 DEF Keeps
      <3>2. chain[i + k].kind = "write" =>
               LET s == chain[i + k].who IN session'[s].w.batch = session[s].w.batch
        BY <3>1, ServedIs DEF SlotKinds, Serves, SessionsKeep, SlotKeeps
      <3>3. QED
        BY <3>1, <3>2
    <2>3. QED
      BY <2>1, <2>2
  <1>4. QED
    BY <1>1, <1>3, LogFrame

\* The operations that follow the running one are of other lifecycles.
LEMMA RestIs ==
    ASSUME Lives, Pool, chain # <<>>, NEW q, q = Tail(chain) \/ q = Orphaned(Tail(chain)), NEW i \in DOMAIN q
    PROVE  /\ ~Writing(q[i])
           /\ q[i].kind \in SlotKinds =>
                 /\ i + 1 \in DOMAIN chain /\ q[i] = chain[i + 1] /\ q[i].who \in Slots
                 /\ Running.kind \in SlotKinds => q[i].who # Running.who
  <1>1. /\ chain \in Seq(Operation) /\ Tail(chain) \in Seq(Operation) /\ 1 \in DOMAIN chain
        /\ From(SlotKinds, Tail(chain), chain, 1)
    BY TailIs, Unmoved DEF ChainOK
  <1>2. From(SlotKinds, q, chain, 1) /\ q \in Seq(Operation) /\ "load" \notin SlotKinds
    BY <1>1, OrphanedIs, FromTail DEF SlotKinds
  <1>3. i \in Nat /\ i > 0
    BY <1>2
  <1>4. q[i].kind \in SlotKinds => i + 1 \in DOMAIN chain /\ q[i] = chain[i + 1]
    BY <1>2 DEF From
  <1>5. ~Writing(q[i])
    BY <1>3, <1>4 DEF Pool, WritesGood, Writing, SlotKinds
  <1>6. q[i].kind \in SlotKinds /\ Running.kind \in SlotKinds => q[i].who # Running.who
    BY <1>1, <1>3, <1>4 DEF Lives, Unique, Running
  <1>7. QED
    BY <1>4, <1>5, <1>6, ServedIs

-----------------------------------------------------------------------------
(* The appends, and the log they continue.                                 *)

\* Who appends owns the cursor, and continues the log with its next events.
LEMMA AppenderOwns ==
    ASSUME Lives, Owners, Log, chain # <<>>, Running.kind \in {"write", "seed"}, NEW s, s = Running.who
    PROVE  /\ s \in Slots /\ tracked.owner = s /\ Serves(Running, session[s])
           /\ Whole /\ Begins(file.log, session[s].events) /\ tracked.cursor <= WrittenBy(session[s])
           /\ OpGood(Running, session[s], tracked.cursor) /\ Running.batch \in Seq(Event)
           /\ Running.kind = "write" => tracked.cursor = WrittenBy(session[s]) /\ Fresh(s) = session[s].w.batch
           /\ \A c \in Clients : client[c].pc # "reserved"
  <1>1. 1 \in DOMAIN chain /\ Running = chain[1]
    BY TailIs, Unmoved DEF ChainOK, Running
  <1>2. s \in Slots /\ Serves(Running, session[s]) /\ Running.batch \in Seq(Event)
    BY <1>1, ServedIs DEF SlotKinds
  <1>3. tracked.owner = s
    BY <1>1, <1>2 DEF Owners, SeedsGood, OkOwns, Ok, Serves
  <1>4. \A c \in Clients : client[c].pc # "reserved"
    BY <1>2, <1>3, NotZero DEF Owners, ReservedOwns
  <1>5. /\ Whole /\ Begins(file.log, session[s].events) /\ tracked.cursor <= WrittenBy(session[s])
        /\ Running.kind = "write" => tracked.cursor = WrittenBy(session[s])
    BY <1>2, <1>3 DEF Log, OwnerHolds, Serves
  <1>6. OpGood(Running, session[s], tracked.cursor)
    BY <1>1 DEF Log, OpsGood
  <1>7. Running.kind = "write" => Fresh(s) = session[s].w.batch
    BY <1>2, <1>5, FreshWhole
  <1>8. QED
    BY <1>2, <1>3, <1>4, <1>5, <1>6, <1>7

\* How many events a settled write has queued, or written.
LEMMA SettleCounts ==
    ASSUME Lives, NEW s \in Slots, NEW ok \in BOOLEAN, NEW v, v.handed = session[s].handed,
           v.w = Settle(session[s].w, ok)
    PROVE  WrittenBy(v) = IF ok THEN WrittenBy(session[s]) + Len(session[s].w.batch) ELSE WrittenBy(session[s])
  <1> DEFINE b == session[s].w.batch
             p == session[s].w.pending
             h == session[s].handed
  <1>1. session[s].w \in Writer /\ b \in Seq(Nat) /\ p \in Seq(Nat) /\ h \in Nat
    BY SlotTypes, Unmoved DEF Typed, Writer
  <1>2. v.w.batch = <<>> /\ v.w.pending = IF ok THEN p ELSE b \o p
    BY <1>1, SettleIs
  <1>3. WrittenBy(v) = h - Len(v.w.batch) - Len(v.w.pending) /\ WrittenBy(session[s]) = h - Len(b) - Len(p)
    BY DEF WrittenBy
  <1> HIDE DEF b, p, h
  <1>4. Len(b) \in Nat /\ Len(p) \in Nat /\ Len(b \o p) = Len(b) + Len(p) /\ Len(<<>>) = 0
    BY <1>1
  <1>5. QED
    BY <1>1, <1>2, <1>3, <1>4 DEF b

LEMMA LogFails ==
    ASSUME Lives, Pool, Log, chain # <<>>, Running.kind \in {"write", "seed", "created"},
           chain' = Tail(chain), session' = Settled(Running, FALSE), UNCHANGED <<file, tracked, client>>
    PROVE  Log'
  <1>1. \A s \in Slots : LogKeeps(session[s], session'[s])
    <2> SUFFICES ASSUME NEW s \in Slots, s = Running.who PROVE LogKeeps(session[s], session'[s])
      BY SettledIs DEF LogKeeps
    <2>1. WrittenBy(session'[s]) = WrittenBy(session[s])
      BY SettledIs, SettleCounts DEF WrittenBy
    <2>2. QED
      BY <2>1, SettledIs DEF LogKeeps
  <1>2. ReservedStays
    BY DEF ReservedStays
  <1>3. ASSUME NEW i \in DOMAIN chain'
        PROVE  \/ OpGood(chain'[i], session'[chain'[i].who], tracked.cursor)
               \/ \E j \in DOMAIN chain : LET s == chain[j].who IN
                     chain'[i] = chain[j] /\ (chain[j].kind = "write" => session'[s].w.batch = session[s].w.batch)
    <2>1. CASE chain'[i].kind \notin SlotKinds
      BY <2>1 DEF OpGood, SlotKinds
    <2>2. CASE chain'[i].kind \in SlotKinds
      <3>1. i + 1 \in DOMAIN chain /\ chain'[i] = chain[i + 1] /\ chain'[i].who \in Slots /\ chain'[i].who # Running.who
        BY <2>2, RestIs DEF SlotKinds
      <3>2. session'[chain'[i].who] = session[chain'[i].who]
        BY <3>1, SettledIs
      <3>3. QED
        BY <3>1, <3>2
    <2>3. QED
      BY <2>1, <2>2
  <1>4. QED
    BY <1>1, <1>2, <1>3, LogFrame

LEMMA AppendBeginLog == ASSUME Lives, Pool, Owners, Log, AppendBegin PROVE Log'
  <1>1. /\ UNCHANGED <<file, tracked, client>> /\ chain # <<>> /\ Running.kind \in {"write", "seed"}
        /\ chain \in Seq(Operation) /\ 1 \in DOMAIN chain /\ Running = chain[1]
    BY AppendBeginIs, TailIs, Unmoved DEF ChainOK, Running
  <1> SUFFICES ASSUME NEW s, s = Running.who PROVE Log'
    OBVIOUS
  <1>2. /\ s \in Slots /\ Serves(Running, session[s]) /\ OpGood(Running, session[s], tracked.cursor)
        /\ Running.kind = "write" => tracked.cursor = WrittenBy(session[s]) /\ Fresh(s) = session[s].w.batch
    BY <1>1, AppenderOwns
  <1>3. PICK n \in Nat :
          /\ DOMAIN Seqs = 1 .. n /\ (Seqs = <<>> <=> n = 0)
          /\ \A i \in 1 .. n : Seqs[i] \in 1 .. Len(session[s].events)
          /\ Running.kind = "seed" => n = Len(Running.batch)
          /\ Running.kind = "write" => n = Len(session[s].w.batch)
    BY <1>1, <1>2, SeqsIs
  <1>4. Seqs # <<>>
    <2>1. Running.kind = "write" => n # 0
      BY <1>2, <1>3, RecordIs, EmptySeq DEF Serves, Active
    <2>2. Running.kind = "seed" => Running.batch # <<>> /\ Running.batch \in Seq(Event)
      BY <1>1, AppenderOwns DEF Owners, SeedsGood
    <2>3. QED
      BY <1>1, <1>3, <2>1, <2>2, EmptySeq
  <1>5. CASE chain' = Tail(chain) /\ session' = Settled(Running, FALSE)
    BY <1>1, <1>5, LogFails
  <1>6. ASSUME UNCHANGED session, \A i \in DOMAIN Seqs : Seqs[i] = tracked.cursor + i,
               NEW op \in Operation, chain' = [chain EXCEPT ![1] = op],
               op.kind = Running.kind, op.who = s, op.from = Running.from, DOMAIN op.batch = DOMAIN Seqs,
               \A i \in DOMAIN Seqs : op.batch[i] = session[s].events[Seqs[i]]
        PROVE  Log'
    <2>1. chain'[1] = op /\ DOMAIN chain' = DOMAIN chain /\ \A i \in DOMAIN chain : i # 1 => chain'[i] = chain[i]
      BY <1>1, <1>6, HeadIs
    <2>2. op.batch \in Seq(Event)
      BY <1>1, <1>6, OperationIs
    <2>3. Len(op.batch) = n
      BY <1>3, <1>6, <2>2
    <2>4. tracked.cursor \in Nat /\ Len(session[s].events) \in Nat /\ WrittenBy(session[s]) \in Int
      BY <1>2, RecordIs
    <2>5. n \in 1 .. n /\ n \in DOMAIN Seqs
      BY <1>3, <1>4
    <2>6. tracked.cursor + n <= Len(session[s].events)
      <3>1. Seqs[n] = tracked.cursor + n /\ Seqs[n] \in 1 .. Len(session[s].events)
        BY <1>3, <1>6, <2>5
      <3>2. QED
        BY <2>4, <3>1
    <2>7. Part(op.batch, session[s].events, tracked.cursor, tracked.cursor + n)
      <3>1. \A i \in 1 .. n : op.batch[i] = session[s].events[tracked.cursor + i]
        BY <1>3, <1>6
      <3>2. QED
        BY <2>3, <2>4, <2>6, <3>1 DEF Part
    <2>8. Running.kind = "seed" => Running.from = tracked.cursor + 1 /\ n = WrittenBy(session[s]) - tracked.cursor
      BY <1>2, <1>3 DEF OpGood, Part
    <2>9. OpGood(op, session[s], tracked.cursor)
      BY <1>1, <1>3, <1>6, <2>4, <2>7, <2>8 DEF OpGood
    <2>10. \A t \in Slots : LogKeeps(session[t], session'[t])
      BY <1>6 DEF LogKeeps
    <2>11. ReservedStays
      BY <1>1 DEF ReservedStays
    <2>12. QED
      BY <1>1, <1>6, <2>1, <2>9, <2>10, <2>11, LogFrame
  <1>7. QED
    BY <1>4, <1>5, <1>6, AppendBeginIs

\* What is appended to a log that begins the events of its owner.
LEMMA BeginsPart ==
    ASSUME NEW ev \in Seq(Event), NEW l \in Seq(Event), NEW b \in Seq(Event), NEW n \in Int,
           Begins(l, ev), Part(b, ev, Len(l), n)
    PROVE  Begins(l \o b, ev) /\ Len(l \o b) = n
  <1>1. /\ Len(l) \in Nat /\ Len(b) \in Nat /\ Len(ev) \in Nat /\ Len(l \o b) = Len(l) + Len(b)
        /\ \A i \in 1 .. Len(l \o b) : (l \o b)[i] = IF i <= Len(l) THEN l[i] ELSE b[i - Len(l)]
    OBVIOUS
  <1>2. \A i \in 1 .. Len(l \o b) : i <= Len(l) \/ i - Len(l) \in 1 .. Len(b)
    BY <1>1
  <1>3. QED
    BY <1>1, <1>2 DEF Begins, Part

LEMMA AppendCommitsLog == ASSUME Lives, Pool, Owners, Owners', Log, AppendCommits PROVE Log'
  <1>1. /\ chain # <<>> /\ Running.kind \in {"write", "seed"} /\ Running.stage = "io"
        /\ file' = [file EXCEPT !.log = @ \o Running.batch]
        /\ tracked' = [tracked EXCEPT !.cursor = @ + Len(Running.batch)]
        /\ session' = Settled(Running, TRUE) /\ chain' = Orphaned(Tail(chain)) /\ client' = Unseen(client)
    BY DEF AppendCommits, Appending, Head1, Running
  <1> SUFFICES ASSUME NEW s, s = Running.who PROVE Log'
    OBVIOUS
  <1> DEFINE r == session[s]
             b == Running.batch
             n == tracked.cursor + Len(b)
  <1>2. /\ s \in Slots /\ tracked.owner = s /\ Whole /\ Begins(file.log, r.events) /\ b \in Seq(Event)
        /\ tracked.cursor <= WrittenBy(r) /\ OpGood(Running, r, tracked.cursor)
        /\ Running.kind = "write" => tracked.cursor = WrittenBy(r)
        /\ \A c \in Clients : client[c].pc # "reserved"
    BY <1>1, AppenderOwns
  <1>3. /\ r.events \in Seq(Event) /\ Len(r.w.batch) \in Nat /\ WrittenBy(r) \in Int
        /\ file.log \in Seq(Event) /\ tracked.cursor \in Nat /\ Len(b) \in Nat /\ n \in Int
    BY <1>2, RecordIs
  <1>4. /\ Part(b, r.events, tracked.cursor, n)
        /\ n = IF Running.kind = "write" THEN WrittenBy(r) + Len(r.w.batch) ELSE WrittenBy(r)
    BY <1>1, <1>2, <1>3 DEF OpGood, Part
  <1>5. WrittenBy(session'[s]) = n
    <2>1. CASE Running.kind = "write"
      <3>1. session'[s].handed = r.handed /\ session'[s].w = Settle(r.w, TRUE)
        BY <1>1, <2>1, SettledIs
      <3>2. QED
        BY <1>2, <1>4, <2>1, <3>1, SettleCounts
    <2>2. CASE Running.kind = "seed"
      BY <1>1, <1>2, <1>4, <2>2, SettledIs DEF WrittenBy
    <2>3. QED
      BY <1>1, <2>1, <2>2
  <1>6. /\ file'.log = file.log \o b /\ file'.torn = file.torn
        /\ tracked'.cursor = n /\ tracked'.owner = s
    BY <1>1, <1>2, Unmoved DEF FileOK, Source, OwnerOK, Cursor
  <1>8. session'[s].events = r.events /\ \A t \in Slots : t # s => session'[t] = session[t]
    BY <1>1, SettledIs
  <1> HIDE DEF r, b, n
  <1>7. Begins(file'.log, r.events) /\ Len(file'.log) = n
    <2>1. Part(b, r.events, Len(file.log), n)
      BY <1>2, <1>4 DEF Whole
    <2>2. Begins(file.log \o b, r.events) /\ Len(file.log \o b) = n
      BY <1>2, <1>3, <2>1, BeginsPart
    <2>3. QED
      BY <1>6, <2>2
  <1>9. OwnerHolds'
    BY <1>2, <1>3, <1>5, <1>6, <1>7, <1>8 DEF OwnerHolds, Whole, n
  <1>10. OpsGood'
    <2> SUFFICES ASSUME NEW i \in DOMAIN chain' PROVE OpGood(chain'[i], session'[chain'[i].who], tracked'.cursor)
      BY DEF OpsGood
    <2>1. CASE chain'[i].kind \notin SlotKinds
      BY <2>1 DEF OpGood, SlotKinds
    <2>2. CASE chain'[i].kind \in SlotKinds
      <3>1. /\ ~Writing(chain'[i]) /\ i + 1 \in DOMAIN chain /\ chain'[i] = chain[i + 1]
            /\ chain'[i].who \in Slots /\ chain'[i].who # s
        BY <1>1, <2>2, RestIs DEF SlotKinds
      <3>2. chain'[i].kind # "seed"
        BY <1>6, <3>1 DEF Owners, SeedsGood
      <3>3. OpGood(chain[i + 1], session[chain[i + 1].who], tracked.cursor)
        BY <3>1 DEF Log, OpsGood
      <3>4. session'[chain'[i].who] = session[chain'[i].who]
        BY <1>8, <3>1
      <3>5. QED
        BY <3>1, <3>2, <3>3, <3>4 DEF OpGood, Writing
    <2>3. QED
      BY <2>1, <2>2
  <1>11. ReservedHolds'
    BY <1>1, <1>2, UnseenIs, Unmoved DEF ReservedHolds
  <1>12. QED
    BY <1>9, <1>10, <1>11 DEF Log

LEMMA PrefixIs == ASSUME NEW p \in Seq(Event), NEW q \in Seq(Event) PROVE IsPrefix(p, q) <=> Begins(p, q)
  <1>1. Len(p) \in Nat /\ Len(q) \in Nat /\ SubSeq(p, 1, Len(p)) = p
    OBVIOUS
  <1>2. ASSUME Len(p) <= Len(q) PROVE p = SubSeq(q, 1, Len(p)) <=> \A i \in 1 .. Len(p) : p[i] = q[i]
    <2> DEFINE c == SubSeq(q, 1, Len(p))
    <2>1. c \in Seq(Event) /\ Len(c) = Len(p) /\ \A i \in 1 .. Len(p) : c[i] = q[i]
      BY <1>1, <1>2
    <2> HIDE DEF c
    <2>2. p = c <=> \A i \in 1 .. Len(p) : p[i] = c[i]
      BY <2>1
    <2>3. QED
      BY <2>1, <2>2 DEF c
  <1>3. QED
    BY <1>1, <1>2 DEF IsPrefix, Begins

LEMMA CreatedLog == ASSUME Lives, Pool, Owners, Owners', Log, Created PROVE Log'
  <1>1. /\ chain # <<>> /\ Running.kind = "created" /\ Running.who \in Slots /\ Running.batch \in Seq(Event)
        /\ UNCHANGED client /\ Len(Found) \in Nat /\ Stored(file) \in Seq(Event)
        /\ chain \in Seq(Operation) /\ 1 \in DOMAIN chain /\ Running = chain[1] /\ SessionOK
    BY CreatedIs, TailIs, Unmoved DEF ChainOK, Running, Typed
  <1>2. CASE /\ chain' = Tail(chain) /\ UNCHANGED <<tracked, file>>
             /\ session' = [session EXCEPT ![Running.who].init = "failed"]
    BY <1>1, <1>2, LogFails DEF Settled
  <1>3. ASSUME ~(tracked.known /\ CollidesWithOwner), Covers(Running.batch, Found),
               tracked' = [cursor |-> Len(Found), owner |-> Running.who, known |-> TRUE],
               file' = IF Claims THEN file ELSE [NoFile EXCEPT !.log = Stored(file)],
               \/ /\ Beyond = <<>> /\ chain' = Tail(chain)
                  /\ session' = [session EXCEPT ![Running.who].init = "ok"]
               \/ /\ Beyond # <<>> /\ UNCHANGED session
                  /\ chain' = [chain EXCEPT ![1] = SeedOp(Running.who, Len(Found) + 1, Beyond)]
                  /\ SeedOp(Running.who, Len(Found) + 1, Beyond) \in Operation
        PROVE  Log'
    <2> SUFFICES ASSUME NEW s \in Slots, s = Running.who PROVE Log'
      BY <1>1
    <2> DEFINE ev == session[s].events
               b == Running.batch
               op == SeedOp(s, Len(Found) + 1, Beyond)
    <2>1. ~Claims
      BY <1>1 DEF Owners, CreatedGood, Claims
    <2>2. Found \in Seq(Event) /\ file'.log = Found /\ ~file'.torn /\ ev \in Seq(Event) /\ WrittenBy(session[s]) \in Int
      BY <1>1, <1>3, <2>1, RecordIs DEF Found, NoFile
    <2>3. Begins(Found, b) /\ Part(b, ev, 0, WrittenBy(session[s]))
      BY <1>1, <1>3, <2>2, PrefixIs DEF Covers, Log, OpsGood, OpGood
    <2> HIDE DEF ev, b, op
    <2>4. /\ Len(b) = WrittenBy(session[s]) /\ Len(b) \in Nat /\ Len(Found) <= Len(b) /\ Len(b) <= Len(ev) /\ Len(ev) \in Nat
          /\ Begins(Found, ev)
      BY <1>1, <2>2, <2>3 DEF Begins, Part, b
    <2>5. Beyond = <<>> => Len(Found) = Len(b)
      <3>1. Beyond = SubSeq(b, Len(Found) + 1, Len(b)) /\ b \in Seq(Event)
        BY <1>1 DEF Beyond, b
      <3>2. Len(Found) < Len(b) => Len(Beyond) # 0
        BY <1>1, <2>4, <3>1, CutType
      <3>3. QED
        BY <1>1, <2>4, <3>2
    <2>6. Part(Beyond, ev, Len(Found), WrittenBy(session[s]))
      <3>1. Beyond = SubSeq(b, Len(Found) + 1, Len(b)) /\ b \in Seq(Event)
        BY <1>1 DEF Beyond, b
      <3>2. Len(Beyond) = Len(b) - Len(Found) /\ \A i \in 1 .. Len(b) - Len(Found) : Beyond[i] = b[Len(Found) + i]
        BY <1>1, <2>4, <3>1, CutType
      <3>3. \A i \in 1 .. Len(b) : b[i] = ev[i]
        BY <2>3 DEF Part
      <3>4. \A i \in 1 .. Len(b) - Len(Found) : Len(Found) + i \in 1 .. Len(b)
        BY <1>1, <2>4
      <3>5. QED
        BY <2>4, <3>2, <3>3, <3>4 DEF Part
    <2>7. /\ tracked'.cursor = Len(Found) /\ tracked'.owner = s
          /\ session'[s].events = ev /\ WrittenBy(session'[s]) = WrittenBy(session[s])
          /\ session'[s].init = "ok" => Beyond = <<>>
      <3>1. session[s] \in Lifecycle /\ session[s].init = "pending"
        BY <1>1, CreatedIs DEF SessionOK
      <3>2. CASE Beyond = <<>> /\ session' = [session EXCEPT ![s].init = "ok"]
        <4>1. session'[s] = [session[s] EXCEPT !.init = "ok"]
          BY <1>1, <3>2 DEF SessionOK
        <4>2. QED
          BY <1>3, <3>1, <3>2, <4>1 DEF Lifecycle, WrittenBy, ev
      <3>3. CASE UNCHANGED session
        BY <1>3, <3>1, <3>3 DEF ev
      <3>4. QED
        BY <1>3, <3>2, <3>3
    <2>8. OwnerHolds'
      BY <2>2, <2>4, <2>5, <2>7 DEF OwnerHolds, Whole
    <2>9. ASSUME NEW j \in DOMAIN chain, j # 1 PROVE ~Writing(chain[j]) /\ chain[j].kind \notin {"created", "seed"}
      <3>1. ~Writing(chain[j]) /\ chain[j].kind # "created"
        BY <1>1, <2>9 DEF Pool, WritesGood, Owners, CreatedGood
      <3>2. ASSUME chain[j].kind = "seed" PROVE FALSE
        <4>1. tracked.owner = chain[j].who /\ tracked.cursor > 0 /\ tracked.known
          BY <2>9, <3>2 DEF Owners, SeedsGood, OwnerKnown
        <4>2. tracked.owner # 0
          BY <3>2, <4>1, ServedIs, NotZero DEF SlotKinds
        <4>3. QED
          BY <1>3, <4>1, <4>2 DEF CollidesWithOwner
      <3>3. QED
        BY <3>1, <3>2
    <2>10. OpsGood'
      <3>1. CASE chain' = Tail(chain)
        <4>1. \A i \in DOMAIN chain' : i + 1 \in DOMAIN chain /\ i + 1 # 1 /\ chain'[i] = chain[i + 1]
          BY <1>1, <3>1
        <4>2. \A i \in DOMAIN chain' : ~Writing(chain'[i]) /\ chain'[i].kind \notin {"created", "seed"}
          BY <2>9, <4>1
        <4>3. QED
          BY <4>2 DEF OpsGood, OpGood, Writing
      <3>2. CASE chain' = [chain EXCEPT ![1] = op] /\ op \in Operation /\ UNCHANGED session
        <4>1. DOMAIN chain' = DOMAIN chain /\ chain'[1] = op /\ \A i \in DOMAIN chain : i # 1 => chain'[i] = chain[i]
          BY <1>1, <3>2, HeadIs
        <4>2. op.kind = "seed" /\ op.who = s /\ op.from = Len(Found) + 1 /\ op.batch = Beyond
          BY DEF SeedOp, op
        <4>3. OpGood(op, session'[op.who], tracked'.cursor)
          BY <2>6, <2>7, <3>2, <4>2 DEF OpGood, ev
        <4>4. QED
          BY <2>9, <4>1, <4>3 DEF OpsGood, OpGood, Writing
      <3>3. QED
        BY <1>3, <3>1, <3>2 DEF op
    <2>11. ReservedHolds'
      BY <2>7, NotZero DEF Owners, ReservedOwns, ReservedHolds
    <2>12. QED
      BY <2>8, <2>10, <2>11 DEF Log
  <1>4. CASE /\ chain' = Tail(chain) /\ tracked.owner # 0 /\ ~CollidesWithOwner /\ tracked' = None
    <2>1. ASSUME NEW i \in DOMAIN chain' PROVE chain'[i].kind \notin {"seed", "created"} /\ ~Writing(chain'[i])
      <3>1. i + 1 \in DOMAIN chain /\ i + 1 # 1 /\ chain'[i] = chain[i + 1] /\ Head1("created")
        BY <1>1, <1>4 DEF Head1
      <3>2. QED
        BY <1>1, <1>4, <3>1, ForgottenIs DEF Pool, WritesGood
    <2>2. ReservedHolds'
      BY <1>1, <1>4, ForgottenIs DEF ReservedHolds, Head1, Running
    <2>3. QED
      BY <1>4, <2>1, <2>2, NotZero DEF Log, OpsGood, OpGood, OwnerHolds, Writing, None
  <1>5. QED
    BY <1>2, <1>3, <1>4, CreatedIs

-----------------------------------------------------------------------------
(* The cursor has no owner, or loses it.                                   *)

LEMMA LogUnowned ==
    ASSUME tracked'.owner = 0, ReservedHolds',
           \A i \in DOMAIN chain' :
               /\ chain'[i].kind # "seed" /\ ~Writing(chain'[i])
               /\ chain'[i].kind = "created" => OpGood(chain'[i], session'[chain'[i].who], tracked'.cursor)
    PROVE  Log'
  <1>1. OpsGood'
    BY DEF OpsGood, OpGood, Writing
  <1>2. QED
    BY <1>1, NotZero DEF Log, OwnerHolds

LEMMA RetireLog == ASSUME Lives, Pool, Owners, Owners', Log, Retire PROVE Log'
  <1>1. /\ chain # <<>> /\ Running.kind = "retire" /\ Running.who \in Slots
        /\ session' = [session EXCEPT ![Running.who] = Unused] /\ SessionOK
        /\ session[Running.who].life = "ended" /\ session[Running.who].init = "ok"
    BY RetireIs
  <1> SUFFICES ASSUME NEW s \in Slots, s = Running.who PROVE Log'
    BY <1>1
  <1>2. tracked.owner = s
    BY <1>1 DEF Owners, OkOwns, Ok
  <1>3. tracked' = None /\ chain' = Tail(chain)
    BY <1>2 DEF Retire
  <1>4. ReservedHolds'
    BY <1>3 DEF Owners, ReservedOwns, ReservedHolds, None
  <1>5. ASSUME NEW i \in DOMAIN chain'
        PROVE  /\ chain'[i].kind # "seed" /\ ~Writing(chain'[i])
               /\ chain'[i].kind = "created" => OpGood(chain'[i], session'[chain'[i].who], tracked'.cursor)
    <2>1. /\ ~Writing(chain'[i])
          /\ chain'[i].kind \in {"seed", "created"} =>
                i + 1 \in DOMAIN chain /\ chain'[i] = chain[i + 1] /\ chain'[i].who \in Slots /\ chain'[i].who # s
      BY <1>1, <1>3, RestIs DEF SlotKinds
    <2>2. chain'[i].kind # "seed"
      BY <1>2, <2>1 DEF Owners, SeedsGood
    <2>3. ASSUME chain'[i].kind = "created" PROVE OpGood(chain'[i], session'[chain'[i].who], tracked'.cursor)
      <3>1. session'[chain'[i].who] = session[chain'[i].who]
        BY <1>1, <2>1, <2>3 DEF SessionOK
      <3>2. QED
        BY <2>1, <2>3, <3>1 DEF Log, OpsGood, OpGood
    <2>4. QED
      BY <2>1, <2>2, <2>3
  <1>6. QED
    BY <1>3, <1>4, <1>5, LogUnowned DEF None

\* Without an owner only creations and retirements are queued.
LEMMA UnownedOps ==
    ASSUME Lives, Owners, tracked.owner = 0, NEW j \in DOMAIN chain
    PROVE  /\ chain[j].kind # "seed" /\ ~Writing(chain[j])
  <1>1. chain[j].kind # "write"
    BY ServedIs, Ownerless DEF SlotKinds, Serves, Ok
  <1>2. QED
    BY <1>1, Ownerless DEF Writing

\* A step that finds no owner and changes no lifecycle, and after which nobody
\* holds a reservation.
LEMMA LogElsewhere ==
    ASSUME Lives, Owners, Log, tracked.owner = 0, UNCHANGED <<tracked, session>>,
           \A c \in Clients : client'[c].pc # "reserved",
           \A i \in DOMAIN chain' : chain'[i].kind \in {"created", "seed"} \/ Writing(chain'[i]) =>
               \E j \in DOMAIN chain : chain'[i] = chain[j]
    PROVE  Log'
  <1>1. ASSUME NEW i \in DOMAIN chain'
        PROVE  /\ chain'[i].kind # "seed" /\ ~Writing(chain'[i])
               /\ chain'[i].kind = "created" => OpGood(chain'[i], session'[chain'[i].who], tracked'.cursor)
    BY UnownedOps DEF Log, OpsGood
  <1>2. QED
    BY <1>1, LogUnowned DEF ReservedHolds

LEMMA RepairLog ==
    ASSUME Lives, Pool, Owners, Log, CommitRepairs \/ Truncate \/ Repair PROVE Log'
  <1>1. Head1("commit") /\ UNCHANGED <<tracked, session>>
    BY DEF CommitRepairs, Truncate, Repair
  <1>2. chain # <<>> /\ 1 \in DOMAIN chain /\ chain[1] = Running /\ chain \in Seq(Operation)
    BY <1>1, TailIs, Unmoved DEF Head1, Running, ChainOK
  <1>3. tracked.owner = 0
    BY <1>1, <1>2 DEF CommitRepairs, Truncate, Repair, Head1, Owners, RepairsUnowned
  <1>4. \A c \in Clients : client[c].pc # "reserved"
    <2>1. client[Running.who].pc = "commit" /\ client[Running.who].seen /\ Running.who \in Clients
      BY <1>1, RunningCommit, CurrentSeen DEF CommitRepairs, Truncate, Repair
    <2>2. QED
      BY <2>1 DEF Pool, HoldersGood
  <1>5. CASE Quietly
    <2>1. PICK k \in Nat : Keeps(k)
      BY <1>5 DEF Quietly, KeepsOps
    <2>2. \A i \in DOMAIN chain' : chain'[i].kind \in {"created", "seed"} \/ Writing(chain'[i]) =>
              \E j \in DOMAIN chain : chain'[i] = chain[j]
      BY <2>1 DEF Keeps, OwnKinds
    <2>3. QED
      BY <1>1, <1>3, <1>4, <1>5, <2>2, LogElsewhere DEF Quietly, ReservedStays
  <1>6. ASSUME NEW stage \in {"queued", "truncate", "repair"}, UNCHANGED client,
               chain' = [chain EXCEPT ![1].stage = stage]
        PROVE  Log'
    <2>1. /\ DOMAIN chain' = DOMAIN chain /\ chain'[1].kind = "commit"
          /\ \A i \in DOMAIN chain : i # 1 => chain'[i] = chain[i]
      BY <1>1, <1>6, StageIs
    <2>2. \A i \in DOMAIN chain' : chain'[i].kind \in {"created", "seed"} \/ Writing(chain'[i]) =>
              \E j \in DOMAIN chain : chain'[i] = chain[j]
      BY <2>1 DEF Writing
    <2>3. QED
      BY <1>1, <1>3, <1>4, <1>6, <2>2, LogElsewhere
  <1>7. QED
    BY <1>5, <1>6, TruncateIs, RunningQuiet DEF CommitRepairs

LEMMA ForeignResumeLog == ASSUME Lives, Pool, Owners, Log, ForeignResume PROVE Log'
  <1>1. tracked.owner = 0 /\ Writable /\ UNCHANGED <<tracked, session, chain, client>>
    BY DEF ForeignResume
  <1>2. \A c \in Clients : client[c].pc # "reserved"
    BY <1>1 DEF Writable, Pool, HoldersGood
  <1>3. QED
    BY <1>1, <1>2, LogElsewhere

LEMMA CommitsLog == ASSUME Lives, Pool, Owners, Log, Commits PROVE Log'
  <1>1. /\ Head1("commit") /\ tracked.owner = 0 /\ Running.src = file /\ ~file.torn /\ UNCHANGED <<file, session>>
        /\ tracked' = [cursor |-> Len(Running.src.log), owner |-> 0, known |-> TRUE]
    BY DEF Commits, Current, NeedsRepair
  <1>2. client[Running.who].pc = "commit" /\ client[Running.who].seen /\ Running.who \in Clients
    BY <1>1, RunningCommit, CurrentSeen DEF Current
  <1>3. chain # <<>> /\ 1 \in DOMAIN chain /\ chain[1] = Running /\ chain[1].kind = "commit" /\ chain \in Seq(Operation)
    BY <1>1, TailIs, Unmoved DEF Head1, Running, ChainOK
  <1> SUFFICES ASSUME NEW c \in Clients, c = Running.who PROVE Log'
    BY <1>2
  <1>4. \A d \in Clients : client[d].pc # "reserved"
    BY <1>2 DEF Pool, HoldersGood
  <1>5. /\ chain' = Tail(chain) \/ chain' = Orphaned(Tail(chain))
        /\ \A d \in Clients : client'[d].pc = "reserved" => client'[d].log = Seeded(file.log)
    <2>1. Idle.pc # "reserved" /\ Failed(c).pc # "reserved" /\ \A d \in Clients : Unseen(client)[d].pc = client[d].pc
      BY AnswersIs, Unmoved
    <2>2. DOMAIN client = Clients /\ DOMAIN Unseen(client) = Clients
      BY Unmoved DEF ClientOK, Unseen
    <2>3. CASE client[c].cut
      BY <1>4, <2>1, <2>2, <2>3 DEF Commits
    <2>4. CASE ~client[c].cut /\ Present # {}
      BY <1>2, <1>4, <2>1, <2>2, <2>4 DEF Commits, Drop
    <2>5. CASE ~client[c].cut /\ Present = {}
      <3>1. /\ client' = [client EXCEPT ![c].pc = "reserved", ![c].log = Seeded(Running.src.log)]
            /\ chain' = Tail(chain)
        BY <1>2, <2>5 DEF Commits
      <3>2. client'[c].log = Seeded(file.log) /\ \A d \in Clients \ {c} : client'[d] = client[d]
        BY <1>1, <2>2, <3>1, CallerTypes, Unmoved DEF Caller
      <3>3. QED
        BY <1>4, <3>1, <3>2
    <2>6. QED
      BY <2>3, <2>4, <2>5
  <1>6. ASSUME NEW i \in DOMAIN chain'
        PROVE  chain'[i].kind # "seed" /\ ~Writing(chain'[i]) /\ chain'[i].kind # "created"
    <2>1. ~Writing(chain'[i]) /\ (chain'[i].kind \in {"seed", "created"} =>
              i + 1 \in DOMAIN chain /\ chain'[i] = chain[i + 1])
      BY <1>3, <1>5, RestIs DEF SlotKinds
    <2>2. ASSUME NEW j \in DOMAIN chain PROVE chain[j].kind # "created"
      <3>1. ~(j < 1)
        BY <1>3
      <3>2. QED
        BY <1>3, <3>1 DEF Owners, CreatedGood
    <2>3. QED
      BY <1>1, <2>1, <2>2, UnownedOps
  <1>7. ReservedHolds'
    <2>1. file.log \in Seq(Event) /\ Begins(file.log, file.log) /\ [kind |-> "session/end-seed", by |-> 0] \in Event
      BY Unmoved DEF FileOK, Source, Begins, Event, Kinds
    <2>2. Begins(file.log, Seeded(file.log))
      BY <2>1, Grows DEF Seeded
    <2>3. QED
      BY <1>1, <1>5, <2>2 DEF ReservedHolds, Whole
  <1>8. QED
    BY <1>1, <1>6, <1>7, LogUnowned

\* The callers stay put, or move on without a reservation.
LEMMA ReserveLog == ASSUME Lives, Log, NEW c \in Clients, Reserve(c) PROVE Log'
  <1> DEFINE op == CommitOp(c, entry.src)
  <1>1. UNCHANGED <<file, tracked, session>> /\ chain' = Append(chain, op)
        /\ client' = [client EXCEPT ![c].pc = "commit"]
    BY DEF Reserve
  <1>2. op.kind = "commit" /\ op \in Operation
    BY OperationMakes, Unmoved DEF CommitOp, EntryOK, Preparation
  <1> HIDE DEF op
  <1>3. \A i \in DOMAIN chain' : chain'[i] = op \/ \E j \in DOMAIN chain : chain'[i] = chain[j]
    <2>1. DOMAIN chain' = 1 .. Len(chain) + 1 /\ DOMAIN chain = 1 .. Len(chain) /\ Len(chain) \in Nat
          /\ chain'[Len(chain) + 1] = op /\ \A i \in DOMAIN chain : chain'[i] = chain[i]
      BY <1>1, <1>2, AppendIs, Unmoved DEF ChainOK
    <2>2. QED
      BY <2>1
  <1>4. ReservedStays
    BY <1>1, Unmoved DEF ReservedStays, ClientOK, Caller
  <1>5. \A s \in Slots : LogKeeps(session[s], session'[s])
    BY <1>1 DEF LogKeeps
  <1>6. OpGood(op, session'[op.who], tracked.cursor)
    BY <1>2 DEF OpGood
  <1>7. QED
    BY <1>1, <1>3, <1>4, <1>5, <1>6, LogFrame

LEMMA EndLog == ASSUME Lives, Log, NEW s \in Slots, End(s) PROVE Log'
  <1>1. UNCHANGED <<file, tracked, chain, client>>
    BY DEF End
  <1>2. SessionsKeep /\ KeepsOps /\ ReservedStays
    BY <1>1, EndKeeps, KeepsOpsCases, Unmoved DEF ReservedStays
  <1>3. QED
    BY <1>1, <1>2, LogQuiet

LEMMA AppendFailsLog == ASSUME Lives, Pool, Log, AppendFails PROVE Log'
  BY LogFails DEF AppendFails, Appending, Head1, Running

-----------------------------------------------------------------------------
(* Lifecycles enter with what is stored.                                   *)

\* A lifecycle that has just entered has nothing to write but its seed.
LEMMA EnteredWritten ==
    ASSUME NEW log \in Seq(Event), NEW init \in {"ok", "pending"}
    PROVE  WrittenBy(Entered(log, init)) = Len(log) /\ Entered(log, init).events = log /\ Len(log) \in Nat
  <1>1. Entered(log, init).handed = Len(log) /\ Entered(log, init).w = NewWriter /\ Entered(log, init).events = log
    BY EnteredGood
  <1>2. Len(NewWriter.batch) = 0 /\ Len(NewWriter.pending) = 0 /\ Len(log) \in Nat
    BY DEF NewWriter
  <1>3. QED
    BY <1>1, <1>2 DEF WrittenBy

LEMMA PublishLog ==
    ASSUME Lives, Pool, Owners, Log, NEW c \in Clients, Publish(c) PROVE Log'
  <1> DEFINE log == client[c].log
             b == Suffix(c)
             n == tracked.cursor
  <1>1. /\ client[c].pc = "reserved" /\ Attachable(log) /\ log \in Seq(Event) /\ n \in Nat /\ n <= Len(log)
        /\ UNCHANGED file
        /\ \A d \in Clients : IF d = c THEN client'[d].pc = "idle" ELSE client'[d].pc = client[d].pc
    BY PublishIs
  <1>2. /\ tracked.owner = 0 /\ \A i \in DOMAIN chain : chain[i].kind # "created"
        /\ \A d \in Clients : client[d].pc = "reserved" => d = c
    BY <1>1, ReservedStored
  <1>3. PICK s \in Free :
           /\ session' = [session EXCEPT ![s] = Entered(log, IF b = <<>> THEN "ok" ELSE "pending")]
           /\ tracked' = [tracked EXCEPT !.owner = s]
           /\ chain' = IF b = <<>> THEN Orphaned(chain) ELSE Append(Orphaned(chain), SeedOp(s, n + 1, b))
    BY PublishIs
  <1>4. s \in Slots /\ session \in [Slots -> Lifecycle] /\ tracked \in Cursor /\ chain \in Seq(Operation)
    BY Unmoved DEF Free, Typed, SessionOK, OwnerOK, ChainOK
  <1>5. tracked'.owner = s /\ tracked'.cursor = n
    BY <1>3, <1>4 DEF Cursor
  <1>6. Whole /\ Begins(file.log, log)
    BY <1>1 DEF Log, ReservedHolds
  <1>7. b \in Seq(Event) /\ Part(b, log, n, Len(log)) /\ (b = <<>> => n = Len(log)) /\ Len(log) \in Nat
    <2>1. b = SubSeq(log, n + 1, Len(log)) /\ n + 1 \in Nat \ {0} /\ Len(log) \in Nat
      BY <1>1 DEF Suffix
    <2> DEFINE m == Len(log)
    <2> HIDE DEF log, b, n, m
    <2>2. /\ b \in Seq(Event) /\ Len(b) = IF n + 1 <= m THEN m - (n + 1) + 1 ELSE 0
          /\ \A i \in 1 .. m - (n + 1) + 1 : b[i] = log[(n + 1) + i - 1]
      <3>1. log \in Seq(Event) /\ n + 1 \in Nat \ {0} /\ m \in Int /\ m <= Len(log) /\ b = SubSeq(log, n + 1, m)
        BY <1>1, <2>1 DEF m
      <3>2. QED
        BY <3>1, CutType
    <2>3. m \in Nat /\ n \in Nat /\ n <= m /\ m - (n + 1) + 1 = m - n
      BY <1>1, <2>1 DEF m
    <2>4. Len(b) = m - n
      BY <2>2, <2>3
    <2>5. \A i \in 1 .. m - n : b[i] = log[n + i]
      BY <2>2, <2>3
    <2>6. b = <<>> => n = m
      BY <2>2, <2>3, <2>4
    <2>7. Part(b, log, n, m)
      BY <2>3, <2>4, <2>5 DEF Part, m
    <2>8. QED
      BY <2>2, <2>3, <2>6, <2>7 DEF m
  <1>8. /\ session'[s].events = log /\ WrittenBy(session'[s]) = Len(log)
        /\ session'[s].init = "ok" => b = <<>>
    <2>1. session'[s] = Entered(log, IF b = <<>> THEN "ok" ELSE "pending")
      BY <1>3, <1>4
    <2>2. QED
      BY <1>1, <2>1, EnteredWritten, EnteredGood
  <1> HIDE DEF log, b, n
  <1>9. OwnerHolds'
    BY <1>1, <1>5, <1>6, <1>7, <1>8 DEF OwnerHolds, Whole, n
  <1>10. OpsGood'
    <2> DEFINE q == Orphaned(chain)
               op == SeedOp(s, n + 1, b)
    <2>1. q \in Seq(Operation) /\ From(WorkKinds \cup {"created"}, q, chain, 0) /\ DOMAIN q = DOMAIN chain
      BY <1>4, OrphanedIs DEF WorkKinds, OwnKinds
    <2>2. op.kind = "seed" /\ op.who = s /\ op.batch = b /\ op.from = n + 1
      BY DEF SeedOp
    <2>3. chain' = IF b = <<>> THEN q ELSE Append(q, op)
      BY <1>3
    <2> HIDE DEF q, op
    <2>4. \A i \in DOMAIN q : q[i].kind \notin {"seed", "created"} /\ ~Writing(q[i])
      BY <1>2, <2>1, UnownedOps DEF From, WorkKinds, OwnKinds, Writing
    <2>5. \A i \in DOMAIN chain' : chain'[i] = op \/ (i \in DOMAIN q /\ chain'[i] = q[i])
      BY <2>1, <2>3
    <2>6. OpGood(op, session'[op.who], tracked'.cursor)
      BY <1>5, <1>7, <1>8, <2>2 DEF OpGood
    <2>7. QED
      BY <2>4, <2>5, <2>6 DEF OpsGood, OpGood, Writing
  <1>11. ReservedHolds'
    BY <1>1, <1>2 DEF ReservedHolds
  <1>12. QED
    BY <1>9, <1>10, <1>11 DEF Log

LEMMA CreateLog == ASSUME Lives, Log, NEW c \in Clients, Create(c) PROVE Log'
  <1>1. client' = [client EXCEPT ![c] = Idle] /\ UNCHANGED <<file, tracked>> /\ Idle.pc = "idle"
    BY AnswersIs, Unmoved DEF Create, AttachNew
  <1>2. ReservedStays
    BY <1>1, CallerReserved, Unmoved
  <1>3. chain \in Seq(Operation) /\ session \in [Slots -> Lifecycle]
    BY Unmoved DEF ChainOK, Typed, SessionOK
  <1>4. CASE UNCHANGED chain /\ (UNCHANGED session \/ \E s \in NextSlot : Veto(s))
    <2>1. \A s \in Slots : session[s].life \in {"live", "ended"} => session'[s] = session[s]
      BY <1>3, <1>4 DEF Veto, NextSlot, Free
    <2>2. ASSUME NEW j \in DOMAIN chain, chain[j].kind = "write"
          PROVE  session'[chain[j].who].w.batch = session[chain[j].who].w.batch
      BY <2>1, <2>2, ServedIs DEF SlotKinds, Serves
    <2>3. \A s \in Slots : session[s].life \in {"live", "ended"} => LogKeeps(session[s], session'[s])
      BY <2>1 DEF LogKeeps
    <2>4. QED
      BY <1>1, <1>2, <1>4, <2>2, <2>3, LogFrame
  <1>5. ASSUME NEW s \in NextSlot, NEW seed \in {<<>>, <<[kind |-> "note", by |-> s]>>}, AttachNew(s, seed)
        PROVE  Log'
    <2> DEFINE op == CreatedOp(s, seed)
    <2>0. s \in Slots /\ session[s].life = "none"
      BY DEF NextSlot, Free
    <2>1. s \in Slots /\ session[s].life = "none" /\ seed \in Seq(Event)
      <3>1. [kind |-> "note", by |-> s] \in Event
        BY <2>0 DEF Event, Kinds
      <3>2. <<>> \in Seq(Event) /\ <<[kind |-> "note", by |-> s]>> \in Seq(Event)
        BY <3>1
      <3>3. QED
        BY <2>0, <3>2
    <2>2. chain' = Append(chain, op) /\ session' = [session EXCEPT ![s] = Entered(seed, "pending")]
      BY <1>5 DEF AttachNew, Enter, Entered
    <2>3. op.kind = "created" /\ op.who = s /\ op.batch = seed /\ op \in Operation
      BY <2>1, OperationMakes DEF CreatedOp
    <2> HIDE DEF op
    <2>4. \A t \in Slots : session[t].life \in {"live", "ended"} => session'[t] = session[t]
      BY <1>3, <2>1, <2>2
    <2>5. \A t \in Slots : session[t].life \in {"live", "ended"} => LogKeeps(session[t], session'[t])
      BY <2>4 DEF LogKeeps
    <2>6. ASSUME NEW j \in DOMAIN chain, chain[j].kind = "write"
          PROVE  session'[chain[j].who].w.batch = session[chain[j].who].w.batch
      BY <2>4, <2>6, ServedIs DEF SlotKinds, Serves
    <2>7. OpGood(op, session'[op.who], tracked.cursor)
      <3>1. WrittenBy(session'[s]) = Len(seed) /\ session'[s].events = seed /\ Len(seed) \in Nat
        BY <1>3, <2>1, <2>2, EnteredWritten
      <3>2. QED
        BY <2>3, <3>1 DEF OpGood, Part
    <2>8. \A i \in DOMAIN chain' : chain'[i] = op \/ \E j \in DOMAIN chain : chain'[i] = chain[j]
      <3>1. DOMAIN chain' = 1 .. Len(chain) + 1 /\ DOMAIN chain = 1 .. Len(chain) /\ Len(chain) \in Nat
            /\ chain'[Len(chain) + 1] = op /\ \A i \in DOMAIN chain : chain'[i] = chain[i]
        BY <1>3, <2>2, <2>3, AppendIs
      <3>2. QED
        BY <3>1
    <2>9. QED
      BY <1>1, <1>2, <2>5, <2>6, <2>7, <2>8, LogFrame
  <1>6. QED
    BY <1>4, <1>5 DEF Create

LEMMA CrashLog == ASSUME Crash PROVE Log'
  <1>1. tracked' = None /\ chain' = <<>> /\ client' = [c \in Clients |-> Idle]
    BY DEF Crash
  <1>2. QED
    BY <1>1, LogUnowned DEF None, Idle, ReservedHolds

LEMMA ReloadLog == ASSUME Lives, Stopped, Reload PROVE Log'
  <1> DEFINE s == CHOOSE t \in Present : TRUE
             r == Entered(LiveView, "pending")
             op == CreatedOp(s, LiveView)
  <1>1. /\ tracked' = None /\ UNCHANGED client /\ AllIdle
        /\ chain' = IF Present = {} THEN <<>> ELSE <<op>>
        /\ session' = [t \in Slots |-> IF t \notin Present THEN Unused ELSE r]
    BY DEF Reload, Stopped, Entered
  <1>2. Present \subseteq Slots /\ (Present # {} => s \in Present)
    BY DEF Present
  <1>3. Present # {} => LiveView \in Seq(Event)
    BY <1>2, SlotTypes, Unmoved DEF LiveView, Typed
  <1>4. op.kind = "created" /\ op.who = s /\ op.batch = LiveView
    BY DEF CreatedOp
  <1> HIDE DEF s, op
  <1>5. Present # {} => WrittenBy(r) = Len(LiveView) /\ r.events = LiveView /\ Len(LiveView) \in Nat
    BY <1>3, EnteredWritten
  <1> HIDE DEF r
  <1>6. Present # {} => session'[s] = r
    BY <1>1, <1>2
  <1>7. Present # {} => OpGood(op, session'[op.who], tracked'.cursor)
    BY <1>4, <1>5, <1>6 DEF OpGood, Part
  <1>8. \A i \in DOMAIN chain' : Present # {} /\ chain'[i] = op
    BY <1>1
  <1>9. ReservedHolds'
    BY <1>1 DEF ReservedHolds, AllIdle
  <1>10. QED
    BY <1>1, <1>4, <1>7, <1>8, <1>9, LogUnowned DEF None, Writing

LEMMA InitLog == Init => Log
  <1>1. None.owner = 0 /\ Idle.pc = "idle"
    BY DEF None, Idle
  <1>2. Init => DOMAIN chain = {} /\ tracked.owner = 0 /\ \A c \in Clients : client[c].pc = "idle"
    BY <1>1 DEF Init
  <1>3. QED
    BY <1>2, NotZero DEF Log, OwnerHolds, OpsGood, ReservedHolds

LEMMA NextLog == Lives /\ Pool /\ Stopped /\ InTurn /\ Owners /\ Log /\ [Next]_vars => Log'
  <1> SUFFICES ASSUME Lives, Pool, Stopped, InTurn, Owners, Log, [Next]_vars PROVE Log'
    OBVIOUS
  <1>1. Lives' /\ Owners'
    BY NextLives, NextOwners
  <1>2. Working => Log'
    BY LogQuiet DEF Working
  <1>3. Quietly /\ UNCHANGED file => Log'
    BY AllKeep, LogQuiet DEF Quietly
  <1>4. CASE Microtask
    <2>1. ASSUME NEW s \in Slots, FlushReady(s) \/ WriteReady(s) \/ Proceed(s) PROVE Log'
      BY <1>2, <2>1, LifecycleWorks
    <2>2. ASSUME NEW c \in Clients, Retired(c) \/ EntryLost(c) \/ Inspect(c) PROVE Log'
      <3>1. UNCHANGED file
        BY <2>2 DEF Retired, EntryLost, Inspect
      <3>2. QED
        BY <1>3, <2>2, <3>1, CallerQuiet
    <2>3. QED
      BY <1>4, <2>1, <2>2, ReserveLog DEF Microtask
  <1>5. CASE ChainStep
    <2>1. CASE Load \/ Check \/ Void \/ NothingToLoad \/ CommitOwned \/ CommitStale
      <3>1. UNCHANGED file
        BY <2>1 DEF Load, Check, Void, NothingToLoad, LoadThrows, CommitOwned, CommitThrows, CommitStale
      <3>2. QED
        BY <1>3, <2>1, <3>1, RunningQuiet
    <2>2. QED
      BY <1>1, <1>5, <2>1, AppendBeginLog, AppendCommitsLog, CreatedLog, RetireLog, RepairLog, CommitsLog
         DEF ChainStep
  <1>6. CASE ChainFails
    <2>1. CASE LoadFails \/ CommitFails \/ CheckFails
      <3>1. UNCHANGED file
        BY <2>1 DEF LoadFails, LoadThrows, CommitFails, CommitThrows, CheckFails
      <3>2. QED
        BY <1>3, <2>1, <3>1, RunningQuiet
    <2>2. QED
      BY <1>6, <2>1, AppendFailsLog DEF ChainFails
  <1>7. ASSUME NEW s \in Slots, Emit(s) \/ Checkpoint(s) \/ End(s) \/ Deadline(s) PROVE Log'
    BY <1>2, <1>7, LifecycleWorks, EndLog
  <1>8. ASSUME NEW c \in Clients, Ask(c) \/ Setup(c) \/ Conclude(c) \/ Abort(c) PROVE Log'
    <2>1. CASE Ask(c) \/ Setup(c) \/ Release(c) \/ GiveUp(c) \/ Abort(c)
      <3>1. UNCHANGED file
        BY <2>1 DEF Ask, Setup, Release, GiveUp, Abort
      <3>2. QED
        BY <1>3, <2>1, <3>1, CallerQuiet
    <2>2. QED
      BY <1>8, <2>1, PublishLog, CreateLog DEF Conclude
  <1>9. CASE Evict
    <2>1. UNCHANGED file
      BY <1>9 DEF Evict
    <2>2. QED
      BY <1>3, <1>9, <2>1, ElsewhereQuiet
  <1>10. CASE UNCHANGED vars
    <2>1. UNCHANGED <<file, tracked, session, chain, client>>
      BY <1>10 DEF vars
    <2>2. QED
      BY <2>1, AllKeep, KeepsOpsCases, Unmoved, LogQuiet DEF ReservedStays
  <1>11. QED
    BY <1>2, <1>4, <1>5, <1>6, <1>7, <1>8, <1>9, <1>10, ForeignResumeLog, CrashLog, UnloadWorks, ReloadLog
       DEF Next

(* The lifecycles of an id take turns: at most one is in the store, none   *)
(* while another retires or the pool has an entry, and whoever persistence *)
(* accepted owns the cursor until its retirement has run; a lifecycle that *)
(* nobody retires any more was refused or keeps the id (coordinator.ts:    *)
(* initFor, onCreated, attachPrepared, retireCore).                        *)
THEOREM OneOwner == Spec => [](InTurn /\ Owners)
  <1>1. Init => Lives /\ Pool /\ Stopped /\ InTurn /\ Owners
    BY InitLives, InitPool, InitTurn, InitOwners
  <1>2. Lives /\ Pool /\ Stopped /\ InTurn /\ Owners /\ [Next]_vars => Lives' /\ Pool' /\ Stopped' /\ InTurn' /\ Owners'
    BY NextLives, NextPool, StoppedNext, NextTurn, NextOwners
  <1>3. QED
    BY <1>1, <1>2, PTL DEF Spec

\* What the layers say of a live session that persistence accepted.
LEMMA LogIsSession == Lives /\ Owners /\ Log => LiveSessionIsTheLog
  <1> SUFFICES ASSUME Lives, Owners, Log, NEW s \in Slots, session[s].life = "live", session[s].init = "ok"
               PROVE  /\ tracked.owner = s /\ tracked.cursor = Len(file.log)
                      /\ ~file.torn /\ IsPrefix(file.log, session[s].events)
                      /\ \A t \in Slots \ {s} : session[t].init = "ok" => ~HasWork(session[t].w)
    BY DEF LiveSessionIsTheLog
  <1>1. tracked.owner = s
    BY DEF Owners, OkOwns, Ok
  <1>2. Whole /\ Begins(file.log, session[s].events)
    BY <1>1 DEF Log, OwnerHolds
  <1>3. IsPrefix(file.log, session[s].events)
    BY <1>2, RecordIs, PrefixIs
  <1>4. ASSUME NEW t \in Slots \ {s}, session[t].init = "ok", HasWork(session[t].w) PROVE FALSE
    <2>1. session[t] \in Lifecycle /\ SlotGood(session[t])
      BY SlotTypes, Unmoved DEF Typed, Lives, SlotsGood
    <2>2. CASE session[t].life \in {"live", "ended"}
      BY <1>1, <1>4, <2>2 DEF Owners, OkOwns, Ok
    <2>3. CASE session[t].life \in {"none", "vetoed"}
      <3>1. session[t].w = NewWriter
        BY <2>1, <2>3 DEF SlotGood, Unused
      <3>2. QED
        BY <1>4, <3>1 DEF HasWork, Active, NewWriter
    <2>4. QED
      BY <2>1, <2>2, <2>3 DEF Lifecycle
  <1>5. QED
    BY <1>1, <1>2, <1>3, <1>4 DEF Whole

(* A live session that persistence accepted holds the log: the file is how *)
(* its events begin, up to the cursor, with nothing torn, and no other     *)
(* lifecycle still has accepted events to write, whatever fails, crashes,  *)
(* is retried, reloaded or repaired (publication, initFor, adoptLivePrefix, *)
(* appendLiveBatch, retireCore).                                           *)
THEOREM LogOfTheLive == Spec => []LiveSessionIsTheLog
  <1>1. Init => Lives /\ Pool /\ Stopped /\ InTurn /\ Owners /\ Log
    BY InitLives, InitPool, InitTurn, InitOwners, InitLog
  <1>2. Lives /\ Pool /\ Stopped /\ InTurn /\ Owners /\ Log /\ [Next]_vars
        => Lives' /\ Pool' /\ Stopped' /\ InTurn' /\ Owners' /\ Log'
    BY NextLives, NextPool, StoppedNext, NextTurn, NextOwners, NextLog
  <1>3. QED
    BY <1>1, <1>2, LogIsSession, PTL DEF Spec

-----------------------------------------------------------------------------
(* The fifth layer: the turns of a log, and that it only grows.            *)

LEMMA OpenIs ==
    ASSUME NEW l \in Seq(Event)
    PROVE  OpenTurn(l) <=> Durable!Open(l, Len(l))
  BY DEF OpenTurn, Durable!Open

\* How a log's turns stand does not depend on what follows.
LEMMA OpenBegins ==
    ASSUME NEW l \in Seq(Event), NEW ev \in Seq(Event), Begins(l, ev), NEW n \in 0 .. Len(l)
    PROVE  Durable!Open(l, n) <=> Durable!Open(ev, n)
  <1>1. \A i \in 1 .. n : l[i] = ev[i]
    BY DEF Begins
  <1>2. QED
    BY <1>1 DEF Durable!Open

LEMMA WellFormedBegins ==
    ASSUME NEW l \in Seq(Event), NEW ev \in Seq(Event), Begins(l, ev), Durable!WellFormed(ev)
    PROVE  Durable!WellFormed(l)
  <1>1. Len(l) \in Nat /\ Len(ev) \in Nat /\ DOMAIN l = 1 .. Len(l) /\ DOMAIN ev = 1 .. Len(ev)
    OBVIOUS
  <1>2. ASSUME NEW i \in DOMAIN l
        PROVE  /\ i \in DOMAIN ev /\ l[i] = ev[i]
               /\ Durable!Open(l, i - 1) <=> Durable!Open(ev, i - 1)
    BY <1>1, <1>2, OpenBegins DEF Begins
  <1>3. QED
    BY <1>2 DEF Durable!WellFormed

LEMMA WellFormedFollows ==
    ASSUME NEW l \in Seq(Event), NEW e \in Event, MayFollow(e, l), Durable!WellFormed(l)
    PROVE  Durable!WellFormed(Append(l, e)) /\ Begins(l, Append(l, e))
  <1> DEFINE v == Append(l, e)
  <1>1. /\ v \in Seq(Event) /\ Len(l) \in Nat /\ Len(v) = Len(l) + 1 /\ v[Len(l) + 1] = e
        /\ \A i \in 1 .. Len(l) : v[i] = l[i]
        /\ DOMAIN l = 1 .. Len(l) /\ DOMAIN v = 1 .. Len(v)
    OBVIOUS
  <1> HIDE DEF v
  <1>2. Begins(l, v)
    BY <1>1 DEF Begins
  <1>3. ASSUME NEW i \in DOMAIN v
        PROVE  /\ v[i].kind \in {"turn/start", "session/end-seed"} => ~Durable!Open(v, i - 1)
               /\ v[i].kind = "turn/end" => Durable!Open(v, i - 1)
    <2>1. CASE i \in DOMAIN l
      <3>1. l[i] = v[i] /\ (Durable!Open(l, i - 1) <=> Durable!Open(v, i - 1))
        BY <1>1, <1>2, <2>1, OpenBegins
      <3>2. QED
        BY <2>1, <3>1 DEF Durable!WellFormed
    <2>2. CASE i = Len(l) + 1
      <3>1. v[i] = e /\ (OpenTurn(l) <=> Durable!Open(v, i - 1))
        <4>1. i - 1 = Len(l) /\ i - 1 \in 0 .. Len(l)
          BY <1>1, <2>2
        <4>2. QED
          BY <1>1, <1>2, <2>2, <4>1, OpenBegins, OpenIs
      <3>2. QED
        BY <3>1 DEF MayFollow
    <2>3. QED
      BY <1>1, <1>3, <2>1, <2>2
  <1>4. QED
    BY <1>2, <1>3 DEF Durable!WellFormed, v

\* What closes the turn that a crash left open.
LEMMA Closed ==
    ASSUME NEW l \in Seq(Event), Durable!WellFormed(l)
    PROVE  LET v == l \o Closers(l) IN
           /\ v \in Seq(Event) /\ Durable!WellFormed(v) /\ ~OpenTurn(v) /\ Begins(l, v)
  <1> DEFINE e == [kind |-> "turn/end", by |-> 0]
             v == Append(l, e)
  <1>1. e \in Event /\ e.kind = "turn/end"
    BY DEF Event, Kinds
  <1>2. CASE OpenTurn(l)
    <2>1. l \o Closers(l) = v
      BY <1>1, <1>2 DEF Closers
    <2>2. MayFollow(e, l)
      BY <1>2 DEF MayFollow
    <2> HIDE DEF e
    <2>3. Durable!WellFormed(v) /\ Begins(l, v) /\ v \in Seq(Event)
      BY <1>1, <2>2, WellFormedFollows
    <2>4. ~OpenTurn(v)
      <3>1. Len(l) \in Nat /\ DOMAIN v = 1 .. Len(l) + 1 /\ v[Len(l) + 1] = e
        BY <1>1
      <3>2. ASSUME NEW i \in DOMAIN v, v[i].kind = "turn/start",
                   \A j \in DOMAIN v : j > i => v[j].kind # "turn/end"
            PROVE  FALSE
        <4>1. i # Len(l) + 1
          BY <1>1, <3>1, <3>2
        <4>2. Len(l) + 1 \in DOMAIN v /\ Len(l) + 1 > i
          BY <3>1, <4>1
        <4>3. QED
          BY <1>1, <3>1, <3>2, <4>2
      <3>3. QED
        BY <3>2 DEF OpenTurn
    <2>5. QED
      BY <2>1, <2>3, <2>4
  <1>3. CASE ~OpenTurn(l)
    <2>1. l \o Closers(l) = l
      BY <1>3 DEF Closers
    <2>2. QED
      BY <1>3, <2>1 DEF Begins
  <1>4. QED
    BY <1>2, <1>3

LEMMA SeededIs ==
    ASSUME NEW l \in Seq(Event), Durable!WellFormed(l), ~OpenTurn(l)
    PROVE  Seeded(l) \in Seq(Event) /\ Durable!WellFormed(Seeded(l)) /\ Begins(l, Seeded(l))
  <1> DEFINE e == [kind |-> "session/end-seed", by |-> 0]
  <1>1. e \in Event /\ MayFollow(e, l)
    BY DEF Event, Kinds, MayFollow
  <1> HIDE DEF e
  <1>2. Append(l, e) \in Seq(Event) /\ Durable!WellFormed(Append(l, e)) /\ Begins(l, Append(l, e))
    BY <1>1, WellFormedFollows
  <1>3. Seeded(l) = l \/ Seeded(l) = Append(l, e)
    BY DEF Seeded, e
  <1>4. Begins(l, l)
    BY DEF Begins
  <1>5. QED
    BY <1>2, <1>3, <1>4

-----------------------------------------------------------------------------
(* Steps of the file.                                                      *)

\* What is decoded from a torn frame would be part of a log with its turns.
Sane(f) == Durable!WellFormed(Stored(f)) /\ (~f.torn => f.extra = <<>>)

\* A repair under way knows the file: nobody else writes it meanwhile.
Mended(op) ==
    /\ op.stage = "truncate" => op.src = file /\ file.torn
    /\ op.stage = "repair" =>
          /\ file.log = op.src.log /\ ~file.torn
          /\ Repairs(op.src) # <<>> /\ Durable!WellFormed(Stored(op.src))

EventsSound == \A s \in Slots : Durable!WellFormed(session[s].events)
ReservedSound == \A c \in Clients : client[c].pc = "reserved" => Durable!WellFormed(client[c].log)
MendsSound == \A i \in DOMAIN chain : chain[i].kind = "commit" => Mended(chain[i])

Sound == Sane(file) /\ EventsSound /\ ReservedSound /\ MendsSound /\ Begins(acked, file.log)

\* The log grows, or stays.
Grown(f) == Begins(file.log, f.log) /\ Sane(f)

LEMMA BeginsConcat ==
    ASSUME NEW l \in Seq(Event), NEW b \in Seq(Event)
    PROVE  l \o b \in Seq(Event) /\ Begins(l, l \o b) /\ Begins(l, l)
  BY DEF Begins

LEMMA ConcatBegins ==
    ASSUME NEW l \in Seq(Event), NEW x \in Seq(Event), NEW b \in Seq(Event), Begins(x, b)
    PROVE  Begins(l \o x, l \o b)
  <1>1. /\ Len(l) \in Nat /\ Len(x) \in Nat /\ Len(b) \in Nat
        /\ Len(l \o x) = Len(l) + Len(x) /\ Len(l \o b) = Len(l) + Len(b)
    OBVIOUS
  <1>2. \A i \in 1 .. Len(l) + Len(x) : (l \o x)[i] = IF i <= Len(l) THEN l[i] ELSE x[i - Len(l)]
    OBVIOUS
  <1>3. \A i \in 1 .. Len(l) + Len(b) : (l \o b)[i] = IF i <= Len(l) THEN l[i] ELSE b[i - Len(l)]
    OBVIOUS
  <1>4. \A i \in 1 .. Len(l) + Len(x) : i <= Len(l) \/ i - Len(l) \in 1 .. Len(x)
    BY <1>1
  <1>5. QED
    BY <1>1, <1>2, <1>3, <1>4 DEF Begins

LEMMA SourceIs ==
    ASSUME NEW f \in Source
    PROVE  /\ f.log \in Seq(Event) /\ f.extra \in Seq(Event) /\ f.torn \in BOOLEAN
           /\ Stored(f) \in Seq(Event) /\ Begins(f.log, Stored(f))
           /\ f.extra = <<>> => Stored(f) = f.log
           /\ f = [log |-> f.log, torn |-> f.torn, extra |-> f.extra]
  <1>1. f.log \in Seq(Event) /\ f.extra \in Seq(Event) /\ f.torn \in BOOLEAN
    BY DEF Source
  <1>2. Stored(f) \in Seq(Event) /\ Begins(f.log, Stored(f))
    BY <1>1, BeginsConcat DEF Stored
  <1>3. f.extra = <<>> => Stored(f) = f.log
    BY <1>1 DEF Stored
  <1>4. f = [log |-> f.log, torn |-> f.torn, extra |-> f.extra]
    BY DEF Source
  <1>5. QED
    BY <1>1, <1>2, <1>3, <1>4

\* A log that a whole frame, or nothing torn, ends.
LEMMA WholeSane ==
    ASSUME NEW f \in Source, ~f.torn, f.extra = <<>>, Durable!WellFormed(f.log) PROVE Sane(f)
  BY SourceIs DEF Sane

\* Whatever a crash leaves of an append that keeps the turns.
LEMMA TornGrows ==
    ASSUME Lives, Sane(file), ~file.torn, NEW b \in Seq(Event), Durable!WellFormed(file.log \o b),
           NEW f \in Torn(b)
    PROVE  Grown(f)
  <1>1. file \in Source /\ file.log \in Seq(Event) /\ file.extra = <<>>
    BY SourceIs, Unmoved DEF FileOK, Sane
  <1>2. file.log \o b \in Seq(Event) /\ Begins(file.log, file.log \o b) /\ Begins(file.log, file.log)
    BY <1>1, BeginsConcat
  <1>3. CASE f = [file EXCEPT !.log = @ \o b]
    <2>1. f \in Source /\ f.log = file.log \o b /\ ~f.torn /\ f.extra = <<>>
      BY <1>1, <1>2, <1>3 DEF Source
    <2>2. QED
      BY <1>2, <2>1, WholeSane DEF Grown
  <1>4. CASE f = file
    BY <1>2, <1>4 DEF Grown
  <1>5. ASSUME NEW k \in 0 .. Len(b), f = [log |-> file.log, torn |-> TRUE, extra |-> SubSeq(b, 1, k)]
        PROVE  Grown(f)
    <2> DEFINE x == SubSeq(b, 1, k)
    <2>1. x \in Seq(Event) /\ Len(x) = k /\ k <= Len(b) /\ Len(b) \in Nat /\ \A i \in 1 .. k : x[i] = b[i]
      BY <1>5, CutType
    <2> HIDE DEF x
    <2>2. Begins(file.log \o x, file.log \o b) /\ file.log \o x \in Seq(Event)
      <3>1. Begins(x, b)
        BY <2>1 DEF Begins
      <3>2. QED
        BY <1>1, <2>1, <3>1, ConcatBegins, BeginsConcat
    <2>3. Stored(f) = file.log \o x /\ f.torn /\ f.log = file.log
      BY <1>5 DEF Stored, x
    <2>4. Durable!WellFormed(Stored(f))
      BY <1>2, <2>2, <2>3, WellFormedBegins
    <2>5. QED
      BY <1>2, <2>3, <2>4 DEF Grown, Sane
  <1>6. QED
    BY <1>3, <1>4, <1>5 DEF Torn

\* What is being appended continues the turns of the log.
LEMMA AppendingIs ==
    ASSUME Lives, Pool, Owners, Log, Sound, Appending
    PROVE  /\ ~file.torn /\ file.log \in Seq(Event) /\ Running.batch \in Seq(Event) /\ Running.batch # <<>>
           /\ Durable!WellFormed(file.log \o Running.batch)
  <1> DEFINE s == Running.who
             ev == session[s].events
             b == Running.batch
  <1>1. /\ chain # <<>> /\ Running.kind \in {"write", "seed"} /\ Running.stage = "io"
    BY DEF Appending, Head1, Running
  <1>2. /\ s \in Slots /\ Whole /\ Begins(file.log, ev) /\ b \in Seq(Event)
        /\ OpGood(Running, session[s], tracked.cursor)
    BY <1>1, AppenderOwns
  <1>3. /\ ev \in Seq(Event) /\ file.log \in Seq(Event) /\ WrittenBy(session[s]) \in Int
        /\ Len(session[s].w.batch) \in Nat /\ tracked.cursor \in Nat
    BY <1>2, RecordIs
  <1>4. \E n \in Int : Part(b, ev, Len(file.log), n)
    <2>1. CASE Running.kind = "write"
      <3>1. Part(b, ev, tracked.cursor, tracked.cursor + Len(session[s].w.batch))
        BY <1>1, <1>2, <2>1 DEF OpGood
      <3>2. tracked.cursor + Len(session[s].w.batch) \in Int
        BY <1>3
      <3>3. QED
        BY <1>2, <3>1, <3>2 DEF Whole
    <2>2. CASE Running.kind = "seed"
      <3>1. Part(b, ev, tracked.cursor, WrittenBy(session[s]))
        BY <1>2, <2>2 DEF OpGood
      <3>2. QED
        BY <1>2, <1>3, <3>1 DEF Whole
    <2>3. QED
      BY <1>1, <2>1, <2>2
  <1>5. Durable!WellFormed(ev)
    BY <1>2 DEF Sound, EventsSound
  <1>6. b # <<>>
    <2>1. 1 \in DOMAIN chain /\ chain[1] = Running
      BY <1>1, TailIs, Unmoved DEF ChainOK, Running
    <2>2. QED
      BY <1>1, <2>1 DEF Pool, WritesGood, Writing
  <1> HIDE DEF s, ev, b
  <1>7. Begins(file.log \o b, ev) /\ file.log \o b \in Seq(Event)
    BY <1>2, <1>3, <1>4, BeginsPart
  <1>8. Durable!WellFormed(file.log \o b)
    BY <1>3, <1>5, <1>7, WellFormedBegins
  <1>9. QED
    BY <1>2, <1>3, <1>6, <1>8 DEF Whole, b

\* A repair restores what was decoded and closes the turn, after the log it read.
LEMMA MendingIs ==
    ASSUME Lives, Pool, Sound, Head1("commit"), Running.stage = "repair"
    PROVE  /\ ~file.torn /\ file.log \in Seq(Event)
           /\ Repairs(Running.src) \in Seq(Event) /\ Repairs(Running.src) # <<>>
           /\ Durable!WellFormed(file.log \o Repairs(Running.src))
  <1> DEFINE src == Running.src
             x == src.extra
             k == Closers(Stored(src))
  <1>1. chain # <<>> /\ Running.kind = "commit" /\ src \in Source /\ 1 \in DOMAIN chain /\ chain[1] = Running
    BY RunningCommit, TailIs, Unmoved DEF ChainOK, Running
  <1>2. file.log = src.log /\ ~file.torn /\ Repairs(src) # <<>> /\ Durable!WellFormed(Stored(src))
    BY <1>1 DEF Sound, MendsSound, Mended
  <1>3. file.log = src.log /\ ~file.torn /\ src.log \in Seq(Event) /\ x \in Seq(Event) /\ Stored(src) \in Seq(Event)
        /\ Repairs(src) \in Seq(Event) /\ k \in Seq(Event)
    BY <1>1, <1>2, SourceIs, SourceType, ClosersType DEF NoFile
  <1>4. file.log \o Repairs(src) = Stored(src) \o k
    <2>1. Repairs(src) = x \o k /\ Stored(src) = src.log \o x
      BY DEF Repairs, Stored
    <2>2. src.log \o (x \o k) = (src.log \o x) \o k
      <3>1. \A a, b, d \in Seq(Event) : (a \o b) \o d = a \o (b \o d)
        BY ConcatAssociative
      <3>2. src.log \in Seq(Event) /\ x \in Seq(Event) /\ k \in Seq(Event)
        BY <1>3
      <3> HIDE DEF src, x, k
      <3>3. QED
        BY <3>1, <3>2
    <2>3. QED
      BY <1>3, <2>1, <2>2
  <1>5. Durable!WellFormed(Stored(src) \o k)
    BY <1>2, <1>3, Closed
  <1>6. QED
    BY <1>2, <1>3, <1>4, <1>5

LEMMA AppendCommitsGrows ==
    ASSUME Lives, Pool, Owners, Log, Sound, AppendCommits PROVE Grown(file')
  <1>1. Appending /\ file' = [file EXCEPT !.log = @ \o Running.batch]
    BY DEF AppendCommits
  <1>2. QED
    BY <1>1, AppendingIs, TornGrows DEF Torn, Sound

LEMMA RepairGrows == ASSUME Lives, Pool, Sound, Repair PROVE Grown(file')
  <1>1. Head1("commit") /\ Running.stage = "repair" /\ file' = [file EXCEPT !.log = @ \o Repairs(Running.src)]
    BY DEF Repair
  <1>2. QED
    BY <1>1, MendingIs, TornGrows DEF Torn, Sound

LEMMA SameGrows == ASSUME Lives, Sound, UNCHANGED file PROVE Grown(file')
  BY SourceIs, BeginsConcat, Unmoved DEF FileOK, Grown, Sound

LEMMA CrashGrows == ASSUME Lives, Pool, Owners, Log, Sound, Crash PROVE Grown(file')
  <1>1. \/ Appending /\ file' \in Torn(Running.batch)
        \/ Head1("commit") /\ Running.stage = "repair" /\ file' \in Torn(Repairs(Running.src))
        \/ UNCHANGED file
    BY DEF Crash
  <1>2. QED
    BY <1>1, AppendingIs, MendingIs, TornGrows, SameGrows DEF Sound

LEMMA WholeIs ==
    ASSUME NEW l \in Seq(Event)
    PROVE  LET f == [NoFile EXCEPT !.log = l] IN
           f \in Source /\ f.log = l /\ ~f.torn /\ f.extra = <<>>
  <1> DEFINE f == [NoFile EXCEPT !.log = l]
  <1>1. f \in Source
    BY NoFileType DEF Source
  <1>2. f.log = l /\ ~f.torn /\ f.extra = <<>>
    BY DEF NoFile
  <1>3. QED
    BY <1>1, <1>2

\* The log with the records of its torn frame.
LEMMA StoredGrows ==
    ASSUME Lives, Sound, NEW f, f = [NoFile EXCEPT !.log = file.log] \/ f = [NoFile EXCEPT !.log = Stored(file)]
    PROVE  Grown(f)
  <1>1. /\ file \in Source /\ file.log \in Seq(Event) /\ Stored(file) \in Seq(Event)
        /\ Begins(file.log, Stored(file)) /\ Begins(file.log, file.log) /\ Durable!WellFormed(Stored(file))
    BY SourceIs, BeginsConcat, Unmoved DEF FileOK, Sound, Sane
  <1>2. Durable!WellFormed(file.log)
    BY <1>1, WellFormedBegins
  <1>3. /\ f \in Source /\ ~f.torn /\ f.extra = <<>> /\ f.log \in {file.log, Stored(file)}
    BY <1>1, WholeIs
  <1>4. QED
    BY <1>1, <1>2, <1>3, WholeSane DEF Grown

LEMMA TruncateGrows == ASSUME Lives, Sound, Truncate PROVE Grown(file')
  BY StoredGrows DEF Truncate

LEMMA CreatedGrows == ASSUME Lives, Sound, Created PROVE Grown(file')
  BY CreatedIs, SameGrows, StoredGrows

LEMMA ForeignResumeGrows == ASSUME Lives, Sound, ForeignResume PROVE Grown(file') /\ file'.log # file.log
  <1> DEFINE l == Balanced(file)
             m == Seeded(l)
             e == [kind |-> "note", by |-> 0]
             n == Append(m, e)
  <1>1. file \in Source /\ file.log \in Seq(Event) /\ Stored(file) \in Seq(Event) /\ Durable!WellFormed(Stored(file))
        /\ Begins(file.log, Stored(file))
    BY SourceIs, Unmoved DEF FileOK, Sound, Sane
  <1>2. l \in Seq(Event) /\ Durable!WellFormed(l) /\ ~OpenTurn(l) /\ Begins(Stored(file), l)
    BY <1>1, Closed DEF Balanced
  <1>3. file' = [NoFile EXCEPT !.log = n]
    BY DEF ForeignResume
  <1> HIDE DEF l
  <1>4. m \in Seq(Event) /\ Durable!WellFormed(m) /\ Begins(l, m)
    BY <1>2, SeededIs
  <1>5. e \in Event /\ MayFollow(e, m)
    BY DEF Event, Kinds, MayFollow
  <1> HIDE DEF m, e
  <1>6. n \in Seq(Event) /\ Durable!WellFormed(n) /\ Begins(m, n) /\ Len(n) = Len(m) + 1
    BY <1>4, <1>5, WellFormedFollows
  <1> HIDE DEF n
  <1>7. Begins(file.log, n) /\ Len(file.log) < Len(n)
    BY <1>1, <1>2, <1>4, <1>6 DEF Begins
  <1>8. file' \in Source /\ ~file'.torn /\ file'.extra = <<>> /\ file'.log = n
    BY <1>3, <1>6, WholeIs
  <1>9. QED
    BY <1>6, <1>7, <1>8, WholeSane DEF Grown

LEMMA FileGrows == ASSUME Lives, Pool, Owners, Log, Sound, [Next]_vars PROVE Grown(file')
  <1>1. CASE UNCHANGED file
    BY <1>1, SameGrows
  <1>2. CASE ~UNCHANGED file
    <2>1. ~Microtask
      BY <1>2 DEF Microtask, FlushReady, WriteReady, Proceed, Retired, EntryLost, Inspect, Reserve
    <2>2. ~ChainFails
      BY <1>2 DEF ChainFails, AppendFails, LoadFails, LoadThrows, CommitFails, CommitThrows, CheckFails
    <2>3. ChainStep => AppendCommits \/ Created \/ Truncate \/ Repair
      BY <1>2 DEF ChainStep, AppendBegin, Retire, Load, Check, Void, NothingToLoad, LoadThrows, CommitOwned,
         CommitThrows, CommitStale, CommitRepairs, Commits
    <2>4. ~\E s \in Slots : Emit(s) \/ Checkpoint(s) \/ End(s) \/ Deadline(s)
      BY <1>2 DEF Emit, Checkpoint, End, Deadline
    <2>5. ~\E c \in Clients : Ask(c) \/ Setup(c) \/ Conclude(c) \/ Abort(c)
      BY <1>2 DEF Ask, Setup, Conclude, Publish, Release, Create, GiveUp, Abort
    <2>6. ~Evict /\ ~Unload /\ ~Reload /\ ~UNCHANGED vars
      BY <1>2 DEF Evict, Unload, Reload, vars
    <2>7. QED
      BY <2>1, <2>2, <2>3, <2>4, <2>5, <2>6, AppendCommitsGrows, CreatedGrows, TruncateGrows, RepairGrows,
         ForeignResumeGrows, CrashGrows DEF Next
  <1>3. QED
    BY <1>1, <1>2

-----------------------------------------------------------------------------
(* What a flush vouches for.                                               *)

\* Of an accepted lifecycle with nothing left to write, all is in the log.
LEMMA AllStored ==
    ASSUME Lives, Owners, Log, NEW s \in Slots, session[s].life \in {"live", "ended"},
           session[s].init = "ok", ~HasWork(session[s].w)
    PROVE  SubSeq(session[s].events, 1, session[s].handed) = file.log
  <1> DEFINE ev == session[s].events
             n == session[s].handed
             v == SubSeq(ev, 1, n)
  <1>1. ev \in Seq(Event) /\ n \in Nat /\ n <= Len(ev) /\ file.log \in Seq(Event)
    BY RecordIs
  <1>2. Whole /\ Begins(file.log, ev) /\ tracked.cursor = WrittenBy(session[s])
    BY DEF Owners, OkOwns, Ok, Log, OwnerHolds
  <1>3. WrittenBy(session[s]) = n
    <2>1. session[s].w.batch = <<>> /\ session[s].w.pending = <<>> /\ Len(<<>>) = 0
      BY DEF HasWork, Active
    <2>2. QED
      BY <1>1, <2>1 DEF WrittenBy
  <1>4. Len(file.log) = n /\ \A i \in 1 .. n : file.log[i] = ev[i]
    BY <1>2, <1>3 DEF Whole, Begins
  <1>5. v \in Seq(Event) /\ Len(v) = n /\ \A i \in 1 .. n : v[i] = ev[i]
    <2>1. v \in Seq(Event) /\ Len(v) = (IF 1 <= n THEN n - 1 + 1 ELSE 0)
          /\ \A i \in 1 .. n - 1 + 1 : v[i] = ev[1 + i - 1]
      BY <1>1, CutType
    <2> HIDE DEF v, ev, n
    <2>2. QED
      BY <1>1, <2>1
  <1> HIDE DEF v, ev, n
  <1>6. v = file.log
    BY <1>1, <1>4, <1>5
  <1>7. QED
    BY <1>6 DEF v, ev, n

\* A lifecycle that is not in use waits for nothing.
LEMMA UnusedWaits ==
    /\ Unused.atInit = {} /\ Unused.w.barrier = "none"
    /\ [Unused EXCEPT !.life = "vetoed"].atInit = {}
    /\ [Unused EXCEPT !.life = "vetoed"].w.barrier = "none"
  BY DEF Unused, NewWriter

Vouches == acked' = acked \/ (UNCHANGED file /\ acked' = file.log)

LEMMA FlushReadyAcks == ASSUME Lives, Owners, Log, NEW s \in Slots, FlushReady(s) PROVE Vouches
  <1>1. SlotGood(session[s]) /\ session[s].w \in Writer /\ session[s] \in Lifecycle
    BY SlotTypes, Unmoved DEF Lives, SlotsGood, Typed
  <1>2. UNCHANGED file /\ session[s].atInit # {}
    BY DEF FlushReady
  <1>3. session[s].life \in {"live", "ended"}
    BY <1>1, <1>2, UnusedWaits DEF SlotGood, Lifecycle
  <1>4. \/ acked' = acked
        \/ /\ session[s].init = "ok" /\ Flush(session[s].w).barrier = "none"
           /\ acked' = SubSeq(session[s].events, 1, session[s].handed)
    BY DEF FlushReady, Answer
  <1>5. Flush(session[s].w).barrier = "none" => ~HasWork(session[s].w)
    BY <1>1, FlushGood DEF SlotGood
  <1>6. QED
    BY <1>2, <1>3, <1>4, <1>5, AllStored DEF Vouches

LEMMA ProceedAcks == ASSUME Lives, Owners, Log, NEW s \in Slots, Proceed(s) PROVE Vouches
  <1> DEFINE w == session[s].w
             v == Continue(w)
  <1>1. SlotGood(session[s]) /\ w \in Writer /\ session[s] \in Lifecycle
    BY SlotTypes, Unmoved DEF Lives, SlotsGood, Typed
  <1>2. UNCHANGED file /\ w.next # "none" /\ Advance(s, v, w.next = "reject")
    BY DEF Proceed
  <1>3. \/ acked' = acked
        \/ /\ w.barrier # "none" /\ v.barrier = "none" /\ w.next # "reject"
           /\ acked' = SubSeq(session[s].events, 1, session[s].handed)
    BY <1>2 DEF Advance, Answer
  <1>4. ASSUME w.barrier # "none" PROVE session[s].life \in {"live", "ended"} /\ session[s].init = "ok"
    BY <1>1, <1>4, UnusedWaits DEF SlotGood, Lifecycle
  <1>5. ASSUME w.barrier # "none", v.barrier = "none", w.next # "reject" PROVE ~HasWork(w)
    <2>1. Kept(w, v) /\ ~HasWork(v)
      BY <1>1, <1>2, <1>5, ContinueGood DEF SlotGood
    <2>2. QED
      BY <2>1 DEF Kept, HasWork, Active
  <1>6. QED
    BY <1>2, <1>3, <1>4, <1>5, AllStored DEF Vouches

LEMMA AcksVouch == ASSUME Lives, Owners, Log, [Next]_vars PROVE Vouches
  <1>1. CASE UNCHANGED acked
    BY <1>1 DEF Vouches
  <1>2. CASE ~UNCHANGED acked
    <2>1. Microtask => \E s \in Slots : FlushReady(s) \/ Proceed(s)
      BY <1>2 DEF Microtask, WriteReady, Retired, EntryLost, Inspect, Reserve
    <2>2. ~ChainFails
      BY <1>2 DEF ChainFails, AppendFails, LoadFails, LoadThrows, CommitFails, CommitThrows, CheckFails
    <2>3. ~ChainStep
      BY <1>2 DEF ChainStep, AppendBegin, AppendCommits, Created, Truncate, Repair, Retire, Load, Check, Void,
         NothingToLoad, LoadThrows, CommitOwned, CommitThrows, CommitStale, CommitRepairs, Commits
    <2>4. ~\E s \in Slots : Emit(s) \/ Checkpoint(s) \/ End(s) \/ Deadline(s)
      BY <1>2 DEF Emit, Checkpoint, End, Deadline
    <2>5. ~\E c \in Clients : Ask(c) \/ Setup(c) \/ Conclude(c) \/ Abort(c)
      BY <1>2 DEF Ask, Setup, Conclude, Publish, Release, Create, GiveUp, Abort
    <2>6. ~Evict /\ ~ForeignResume /\ ~Crash /\ ~Unload /\ ~Reload /\ ~UNCHANGED vars
      BY <1>2 DEF Evict, ForeignResume, Crash, Unload, Reload, vars
    <2>7. QED
      BY <2>1, <2>2, <2>3, <2>4, <2>5, <2>6, FlushReadyAcks, ProceedAcks DEF Next
  <1>3. QED
    BY <1>1, <1>2

-----------------------------------------------------------------------------
(* The turns of the sessions.                                              *)

LEMMA ShortLogs ==
    /\ Durable!WellFormed(<<>>)
    /\ \A s \in Slots : LET l == <<[kind |-> "note", by |-> s]>> IN l \in Seq(Event) /\ Durable!WellFormed(l)
  <1>1. Durable!WellFormed(<<>>)
    BY DEF Durable!WellFormed
  <1>2. ASSUME NEW s \in Slots
        PROVE  LET l == <<[kind |-> "note", by |-> s]>> IN l \in Seq(Event) /\ Durable!WellFormed(l)
    <2> DEFINE e == [kind |-> "note", by |-> s]
    <2>1. e \in Event /\ e.kind = "note"
      BY DEF Event, Kinds
    <2> HIDE DEF e
    <2>2. <<e>> \in Seq(Event) /\ DOMAIN <<e>> = {1} /\ <<e>>[1] = e
      BY <2>1
    <2>3. Durable!WellFormed(<<e>>)
      BY <2>1, <2>2 DEF Durable!WellFormed
    <2>4. QED
      BY <2>2, <2>3 DEF e
  <1>3. QED
    BY <1>1, <1>2

\* What lifecycles that stay, and those that are new or forgotten, have for events.
LEMMA EventsFrom ==
    ASSUME Lives, Sound,
           \A s \in Slots :
               \/ SlotKeeps(session[s], session'[s])
               \/ session'[s].events = session[s].events
               \/ Durable!WellFormed(session'[s].events)
    PROVE  EventsSound'
  <1>1. ASSUME NEW s \in Slots PROVE Durable!WellFormed(session'[s].events)
    <2>1. session[s].events \in Seq(Event) /\ Durable!WellFormed(session[s].events)
      BY RecordIs DEF Sound, EventsSound
    <2>2. QED
      BY <2>1, WellFormedFollows DEF SlotKeeps
  <1>2. QED
    BY <1>1 DEF EventsSound

LEMMA EventsKept == ASSUME Lives, Sound, SessionsKeep PROVE EventsSound'
  BY EventsFrom DEF SessionsKeep

LEMMA OneEvents ==
    ASSUME Lives, Sound, NEW s \in Slots, NEW r, session' = [session EXCEPT ![s] = r],
           Durable!WellFormed(r.events)
    PROVE  EventsSound'
  <1>1. \A t \in Slots : session'[t] = session[t] \/ session'[t] = r
    BY Unmoved DEF Typed, SessionOK
  <1>2. QED
    BY <1>1, EventsFrom

LEMMA SettledEvents ==
    ASSUME Lives, Sound, chain # <<>>, Running.kind \in {"write", "seed", "created"}, NEW ok \in BOOLEAN,
           session' = Settled(Running, ok)
    PROVE  EventsSound'
  <1>1. \A t \in Slots : session'[t].events = session[t].events
    BY SettledIs
  <1>2. QED
    BY <1>1, EventsFrom

LEMMA CreatedEvents == ASSUME Lives, Sound, Created PROVE EventsSound'
  <1>1. chain # <<>> /\ Running.kind = "created"
    BY CreatedIs
  <1>2. \/ UNCHANGED session \/ session' = Settled(Running, TRUE) \/ session' = Settled(Running, FALSE)
    BY <1>1, CreatedIs DEF Settled
  <1>3. QED
    BY <1>1, <1>2, AllKeep, EventsKept, SettledEvents

LEMMA EnterEvents ==
    ASSUME Lives, Sound, NEW s \in Slots, NEW log \in Seq(Event), NEW init \in {"ok", "pending"},
           session' = [session EXCEPT ![s] = Entered(log, init)], Durable!WellFormed(log)
    PROVE  EventsSound'
  <1> DEFINE r == Entered(log, init)
  <1>1. r.events = log
    BY EnteredWritten
  <1>2. session' = [session EXCEPT ![s] = r]
    OBVIOUS
  <1> HIDE DEF r
  <1>3. QED
    BY <1>1, <1>2, OneEvents

LEMMA PublishEvents == ASSUME Lives, Sound, NEW c \in Clients, Publish(c) PROVE EventsSound'
  <1> DEFINE init == IF Suffix(c) = <<>> THEN "ok" ELSE "pending"
  <1>1. client[c].pc = "reserved" /\ client[c].log \in Seq(Event)
    BY PublishIs
  <1>2. PICK s \in Free : session' = [session EXCEPT ![s] = Entered(client[c].log, init)]
    BY PublishIs
  <1>3. init \in {"ok", "pending"}
    OBVIOUS
  <1>4. Durable!WellFormed(client[c].log) /\ s \in Slots
    BY <1>1 DEF Sound, ReservedSound, Free
  <1> HIDE DEF init
  <1>5. QED
    BY <1>1, <1>2, <1>3, <1>4, EnterEvents

LEMMA UnusedEvents == Unused.events = <<>> /\ [Unused EXCEPT !.life = "vetoed"].events = <<>>
  BY DEF Unused

LEMMA CreateEvents == ASSUME Lives, Sound, NEW c \in Clients, Create(c) PROVE EventsSound'
  <1>1. CASE UNCHANGED session
    BY <1>1, AllKeep, EventsKept
  <1>2. ASSUME NEW s \in NextSlot, Veto(s) PROVE EventsSound'
    <2>1. s \in Slots
      BY DEF NextSlot, Free
    <2>2. QED
      BY <1>2, <2>1, OneEvents, UnusedEvents, ShortLogs DEF Veto
  <1>3. ASSUME NEW s \in NextSlot, NEW seed \in {<<>>, <<[kind |-> "note", by |-> s]>>}, AttachNew(s, seed)
        PROVE  EventsSound'
    <2>1. s \in Slots
      BY DEF NextSlot, Free
    <2>2. seed \in Seq(Event) /\ Durable!WellFormed(seed)
      <3> DEFINE l == <<[kind |-> "note", by |-> s]>>
      <3>1. seed = <<>> \/ seed = l
        BY <1>3
      <3>2. l \in Seq(Event) /\ Durable!WellFormed(l)
        BY <2>1, ShortLogs
      <3>3. <<>> \in Seq(Event)
        OBVIOUS
      <3> HIDE DEF l
      <3>4. QED
        BY <3>1, <3>2, <3>3, ShortLogs
    <2>3. session' = [session EXCEPT ![s] = Entered(seed, "pending")]
      BY <1>3 DEF AttachNew, Enter, Entered
    <2>4. QED
      BY <2>1, <2>2, <2>3, EnterEvents
  <1>4. QED
    BY <1>1, <1>2, <1>3 DEF Create

LEMMA ReloadEvents == ASSUME Lives, Sound, Reload PROVE EventsSound'
  <1> DEFINE s == CHOOSE t \in Present : TRUE
             r == Entered(LiveView, "pending")
  <1>1. session' = [t \in Slots |-> IF t \notin Present THEN Unused ELSE r]
    BY DEF Reload, Entered
  <1>2. Present # {} => s \in Slots /\ LiveView = session[s].events
    BY DEF LiveView, Present
  <1>3. Present # {} => LiveView \in Seq(Event) /\ Durable!WellFormed(LiveView)
    BY <1>2, RecordIs DEF Sound, EventsSound
  <1> HIDE DEF s
  <1>4. Present # {} => r.events = LiveView
    BY <1>3, EnteredWritten
  <1> HIDE DEF r
  <1>5. \A t \in Slots : session'[t].events = IF Present # {} /\ t \in Present THEN LiveView ELSE <<>>
    BY <1>1, <1>4, UnusedEvents
  <1>6. \A t \in Slots : Durable!WellFormed(session'[t].events)
    BY <1>3, <1>5, ShortLogs
  <1>7. QED
    BY <1>6, EventsFrom

LEMMA NextEvents == ASSUME Lives, Pool, Owners, Log, Sound, [Next]_vars PROVE EventsSound'
  <1>1. UNCHANGED session => EventsSound'
    BY AllKeep, EventsKept
  <1>2. Working \/ Quietly => EventsSound'
    BY <1>1, EventsKept DEF Working, Quietly
  <1>3. CASE Microtask
    <2>1. ASSUME NEW s \in Slots, FlushReady(s) \/ WriteReady(s) \/ Proceed(s) PROVE EventsSound'
      BY <1>2, <2>1, LifecycleWorks
    <2>2. ASSUME NEW c \in Clients, Retired(c) \/ EntryLost(c) \/ Inspect(c) \/ Reserve(c) PROVE EventsSound'
      BY <1>1, <2>2 DEF Retired, EntryLost, Inspect, Reserve
    <2>3. QED
      BY <1>3, <2>1, <2>2 DEF Microtask
  <1>4. CASE ChainStep \/ ChainFails
    <2>1. CASE AppendBegin
      BY <1>1, <2>1, AppendBeginIs, SettledEvents
    <2>2. CASE AppendCommits \/ AppendFails
      <3>1. chain # <<>> /\ Running.kind \in {"write", "seed"}
        BY <2>2 DEF AppendCommits, AppendFails, Appending, Head1, Running
      <3>2. session' = Settled(Running, TRUE) \/ session' = Settled(Running, FALSE)
        BY <2>2 DEF AppendCommits, AppendFails
      <3>3. QED
        BY <3>1, <3>2, SettledEvents
    <2>3. CASE Created
      BY <2>3, CreatedEvents
    <2>4. CASE Retire
      BY <2>4, RetireIs, OneEvents, UnusedEvents, ShortLogs
    <2>5. CASE Load \/ Check \/ CheckFails \/ Void \/ NothingToLoad \/ LoadFails
      BY <1>1, <2>5 DEF Load, Check, CheckFails, Void, NothingToLoad, LoadFails, LoadThrows
    <2>6. CASE CommitOwned \/ CommitFails \/ CommitStale \/ CommitRepairs \/ Truncate \/ Repair \/ Commits
      BY <1>1, <2>6 DEF CommitOwned, CommitFails, CommitThrows, CommitStale, CommitRepairs, Truncate, Repair, Commits
    <2>7. QED
      BY <1>4, <2>1, <2>2, <2>3, <2>4, <2>5, <2>6 DEF ChainStep, ChainFails
  <1>5. ASSUME NEW s \in Slots, Emit(s) \/ Checkpoint(s) \/ End(s) \/ Deadline(s) PROVE EventsSound'
    BY <1>2, <1>5, LifecycleWorks, EndKeeps, EventsKept
  <1>6. ASSUME NEW c \in Clients, Ask(c) \/ Setup(c) \/ Conclude(c) \/ Abort(c) PROVE EventsSound'
    <2>1. Ask(c) \/ Setup(c) \/ Release(c) \/ GiveUp(c) \/ Abort(c) => UNCHANGED session
      BY DEF Ask, Setup, Release, GiveUp, Abort
    <2>2. QED
      BY <1>1, <1>6, <2>1, PublishEvents, CreateEvents DEF Conclude
  <1>7. CASE Crash
    <2>1. \A s \in Slots : session'[s].events = <<>>
      BY <1>7, UnusedEvents DEF Crash
    <2>2. QED
      BY <2>1, ShortLogs, EventsFrom
  <1>8. CASE Evict \/ ForeignResume \/ UNCHANGED vars
    BY <1>1, <1>8 DEF Evict, ForeignResume, vars
  <1>9. QED
    BY <1>2, <1>3, <1>4, <1>5, <1>6, <1>7, <1>8, UnloadWorks, ReloadEvents DEF Next

-----------------------------------------------------------------------------
(* The turns of the prepared sessions.                                     *)

LEMMA ReservedKept == ASSUME Lives, Sound, ReservedStays PROVE ReservedSound'
  <1>1. ASSUME NEW c \in Clients, client'[c].pc = "reserved" PROVE Durable!WellFormed(client'[c].log)
    <2>1. client[c].log \in Seq(Event)
      BY Unmoved DEF ClientOK, Caller
    <2>2. Durable!WellFormed(client[c].log)
      BY <1>1 DEF ReservedStays, Sound, ReservedSound
    <2>3. QED
      BY <1>1, <2>1, <2>2, WellFormedFollows DEF ReservedStays
  <1>2. QED
    BY <1>1 DEF ReservedSound

LEMMA CommitsReserved == ASSUME Lives, Pool, Sound, Commits PROVE ReservedSound'
  <1> DEFINE c == Running.who
  <1>1. /\ Head1("commit") /\ Running.src = file /\ ~NeedsRepair(file)
    BY DEF Commits, Current
  <1>2. c \in Clients
    BY <1>1, RunningCommit
  <1>3. Durable!WellFormed(Seeded(file.log))
    <2>1. ~file.torn /\ Closers(Stored(file)) = <<>> /\ Stored(file) = file.log /\ file.log \in Seq(Event)
          /\ Durable!WellFormed(Stored(file))
      BY <1>1, SourceIs, Unmoved DEF FileOK, Sound, Sane, NeedsRepair
    <2>2. ~OpenTurn(Stored(file))
      BY <2>1 DEF Closers
    <2>3. QED
      BY <2>1, <2>2, SeededIs
  <1>4. /\ Idle.pc # "reserved" /\ Failed(c).pc # "reserved" /\ Again(c).pc # "reserved"
    BY <1>2, AnswersIs, Unmoved
  <1>5. \/ client' = [client EXCEPT ![c] = Idle]
        \/ Drop(c, Tail(chain), Failed(c)) \/ Drop(c, Tail(chain), Again(c))
        \/ client' = [client EXCEPT ![c].pc = "reserved", ![c].log = Seeded(file.log)]
    BY <1>1 DEF Commits
  <1>6. CASE client' = [client EXCEPT ![c].pc = "reserved", ![c].log = Seeded(file.log)]
    <2>1. /\ client'[c].log = Seeded(file.log) /\ \A d \in Clients \ {c} : client'[d] = client[d]
      BY <1>2, <1>6, Unmoved DEF ClientOK, Caller
    <2>2. QED
      BY <1>3, <2>1 DEF Sound, ReservedSound
  <1>7. CASE client' = [client EXCEPT ![c] = Idle]
    BY <1>2, <1>4, <1>7, CallerReserved, ReservedKept, Unmoved
  <1>8. CASE Drop(c, Tail(chain), Failed(c)) \/ Drop(c, Tail(chain), Again(c))
    <2>1. \E r \in {Failed(c), Again(c)} :
             client' = [client EXCEPT ![c] = r] \/ client' = [Unseen(client) EXCEPT ![c] = r]
      BY <1>8 DEF Drop
    <2>2. QED
      BY <1>2, <1>4, <2>1, CallerReserved, ReservedKept, Unmoved
  <1>9. QED
    BY <1>5, <1>6, <1>7, <1>8

LEMMA NextReserved == ASSUME Lives, Pool, Sound, [Next]_vars PROVE ReservedSound'
  <1>1. UNCHANGED client => ReservedSound'
    BY ReservedKept DEF ReservedStays
  <1>2. Working \/ Quietly => ReservedSound'
    BY ReservedKept DEF Working, Quietly
  <1>3. CASE Microtask
    <2>1. ASSUME NEW c \in Clients, Reserve(c) PROVE ReservedSound'
      <3>1. \A d \in Clients : d # c => client'[d] = client[d]
        BY <2>1, Unmoved DEF Reserve, ClientOK
      <3>2. client'[c].pc = "commit"
        BY <2>1, Unmoved DEF Reserve, ClientOK, Caller
      <3>3. ReservedStays
        BY <3>1, <3>2 DEF ReservedStays
      <3>4. QED
        BY <3>3, ReservedKept
    <2>2. QED
      BY <1>2, <1>3, <2>1, LifecycleWorks, CallerQuiet DEF Microtask
  <1>4. CASE ChainStep \/ ChainFails
    <2>1. CASE AppendBegin \/ AppendFails \/ Created \/ CommitRepairs
      BY <1>1, <2>1 DEF AppendBegin, AppendFails, Created, CommitRepairs
    <2>2. CASE AppendCommits
      BY <2>2, UnseenIs, ReservedKept, Unmoved DEF AppendCommits, ReservedStays
    <2>3. CASE Retire
      <3>1. \A c \in Clients : client'[c].pc = client[c].pc /\ client'[c].log = client[c].log
        BY <2>3, Unmoved DEF Retire, ClientOK, Caller
      <3>2. QED
        BY <3>1, ReservedKept DEF ReservedStays
    <2>4. CASE Truncate
      BY <1>1, <1>2, <2>4, TruncateIs
    <2>5. CASE \/ Void \/ Load \/ NothingToLoad \/ LoadFails \/ Check \/ CheckFails
               \/ CommitOwned \/ CommitFails \/ CommitStale \/ Repair
      BY <1>2, <2>5, RunningQuiet
    <2>6. QED
      BY <1>4, <2>1, <2>2, <2>3, <2>4, <2>5, CommitsReserved DEF ChainStep, ChainFails
  <1>5. ASSUME NEW s \in Slots, Emit(s) \/ Checkpoint(s) \/ End(s) \/ Deadline(s) PROVE ReservedSound'
    BY <1>1, <1>5 DEF Emit, Checkpoint, End, Deadline
  <1>6. ASSUME NEW c \in Clients, Ask(c) \/ Setup(c) \/ Conclude(c) \/ Abort(c) PROVE ReservedSound'
    <2>1. CASE Publish(c) \/ Create(c)
      <3>1. client' = [client EXCEPT ![c] = Idle] \/ client' = [Unseen(client) EXCEPT ![c] = Idle]
        BY <2>1 DEF Publish, Create
      <3>2. Idle.pc # "reserved"
        BY DEF Idle
      <3>3. QED
        BY <3>1, <3>2, CallerReserved, ReservedKept, Unmoved
    <2>2. QED
      BY <1>2, <1>6, <2>1, CallerQuiet DEF Conclude
  <1>7. CASE Crash
    BY <1>7 DEF Crash, ReservedSound, Idle
  <1>8. CASE Evict \/ ForeignResume
    BY <1>2, <1>8, ElsewhereQuiet
  <1>9. CASE Unload \/ Reload \/ UNCHANGED vars
    BY <1>1, <1>9 DEF Unload, Reload, vars
  <1>10. QED
    BY <1>3, <1>4, <1>5, <1>6, <1>7, <1>8, <1>9 DEF Next

-----------------------------------------------------------------------------
(* The repairs under way.                                                  *)

\* A commit that is past its checks was so before.
MendsStay ==
    \A i \in DOMAIN chain' : chain'[i].kind = "commit" /\ chain'[i].stage # "queued" =>
        \E j \in DOMAIN chain : chain'[i] = chain[j]

LEMMA MendsKept == ASSUME Sound, MendsStay, UNCHANGED file PROVE MendsSound'
  BY DEF Sound, MendsSound, MendsStay, Mended

LEMMA KeepsMends == ASSUME KeepsOps PROVE MendsStay
  BY DEF KeepsOps, Keeps, OwnKinds, MendsStay

LEMMA MendsStayCases ==
    ASSUME ChainOK
    PROVE  /\ UNCHANGED chain => MendsStay
           /\ chain' = Orphaned(chain) => MendsStay
           /\ chain # <<>> /\ (chain' = Tail(chain) \/ chain' = Orphaned(Tail(chain))) => MendsStay
           /\ \A op \in Operation : op.kind # "commit" \/ op.stage = "queued" =>
                 /\ chain' = Append(chain, op) \/ chain' = Append(Orphaned(chain), op) => MendsStay
                 /\ chain # <<>> /\ chain' = [chain EXCEPT ![1] = op] => MendsStay
  <1>1. ASSUME NEW k \in Nat, From({"commit"}, chain', chain, k) PROVE MendsStay
    BY <1>1 DEF From, MendsStay
  <1>2. chain \in Seq(Operation) /\ Orphaned(chain) \in Seq(Operation) /\ From({"commit"}, Orphaned(chain), chain, 0)
        /\ From({"commit"}, chain, chain, 0)
    BY OrphanedIs, FromSame DEF ChainOK
  <1>3. ASSUME chain # <<>>
        PROVE  From({"commit"}, Tail(chain), chain, 1) /\ From({"commit"}, Orphaned(Tail(chain)), chain, 1)
    <2>1. Tail(chain) \in Seq(Operation) /\ From({"commit"}, Tail(chain), chain, 1)
      BY <1>2, <1>3, TailIs
    <2>2. From({"commit"}, Orphaned(Tail(chain)), Tail(chain), 0)
          /\ DOMAIN Orphaned(Tail(chain)) = DOMAIN Tail(chain)
      BY <2>1, OrphanedIs
    <2>3. DOMAIN Tail(chain) = 1 .. Len(Tail(chain)) /\ Len(Tail(chain)) \in Nat
      BY <2>1
    <2>4. QED
      BY <2>1, <2>2, <2>3 DEF From
  <1>4. ASSUME NEW op \in Operation, op.kind # "commit" \/ op.stage = "queued",
               NEW q \in Seq(Operation), From({"commit"}, q, chain, 0), chain' = Append(q, op)
        PROVE  MendsStay
    <2>1. /\ DOMAIN chain' = 1 .. Len(q) + 1 /\ DOMAIN q = 1 .. Len(q) /\ Len(q) \in Nat
          /\ chain'[Len(q) + 1] = op /\ \A i \in DOMAIN q : chain'[i] = q[i]
      BY <1>4, AppendIs
    <2>2. ASSUME NEW i \in DOMAIN chain', chain'[i].kind = "commit" /\ chain'[i].stage # "queued"
          PROVE  \E j \in DOMAIN chain : chain'[i] = chain[j]
      <3>1. i \in DOMAIN q /\ chain'[i] = q[i]
        BY <1>4, <2>1, <2>2
      <3>2. i + 0 \in DOMAIN chain /\ q[i] = chain[i + 0]
        BY <1>4, <2>2, <3>1 DEF From
      <3>3. QED
        BY <3>1, <3>2
    <2>3. QED
      BY <2>2 DEF MendsStay
  <1>5. ASSUME NEW op \in Operation, op.kind # "commit" \/ op.stage = "queued", chain # <<>>,
               chain' = [chain EXCEPT ![1] = op]
        PROVE  MendsStay
    <2>1. DOMAIN chain' = DOMAIN chain /\ chain'[1] = op /\ \A i \in DOMAIN chain : i # 1 => chain'[i] = chain[i]
      BY <1>2, <1>5, HeadIs
    <2>2. QED
      BY <1>5, <2>1 DEF MendsStay
  <1>6. QED
    BY <1>1, <1>2, <1>3, <1>4, <1>5

\* Nobody repairs an entry that nobody commits.
LEMMA MendsNone == ASSUME Lives', Pool', entry'.phase # "committing" PROVE MendsSound'
  <1>1. ASSUME NEW i \in DOMAIN chain', chain'[i].kind = "commit", chain'[i].stage # "queued" PROVE FALSE
    <2>1. client'[chain'[i].who].pc = "commit" /\ client'[chain'[i].who].seen
      BY <1>1 DEF Pool, CommitsGood
    <2>2. chain' \in Seq(Operation)
      BY DEF Lives, Typed, ChainOK
    <2>3. chain'[i].who \in Clients
      BY <1>1, <2>2, OperationIs
    <2>4. QED
      BY <2>1, <2>3 DEF Pool, HoldersGood
  <1>2. QED
    BY <1>1 DEF MendsSound, Mended

LEMMA OthersQueued ==
    ASSUME Pool, NEW i \in DOMAIN chain, chain[i].kind = "commit", i # 1 PROVE chain[i].stage = "queued"
  BY DEF Pool, CommitsGood

LEMMA CreatedMends == ASSUME Lives, Pool, Created PROVE MendsSound'
  <1>1. /\ chain # <<>> /\ Running.kind = "created" /\ chain \in Seq(Operation)
        /\ \/ chain' = Tail(chain)
           \/ \E op \in Operation : op.kind = "seed" /\ chain' = [chain EXCEPT ![1] = op]
    BY CreatedIs, Unmoved DEF ChainOK, SeedOp
  <1>2. MendsStay
    BY <1>1, MendsStayCases, Unmoved
  <1>3. \A i \in DOMAIN chain : chain[i].kind = "commit" => chain[i].stage = "queued"
    BY <1>1, OthersQueued DEF Running
  <1>4. QED
    BY <1>2, <1>3 DEF MendsStay, MendsSound, Mended

LEMMA CommitRepairsMends == ASSUME Lives, Pool, Sound, CommitRepairs PROVE MendsSound'
  <1> DEFINE stage == IF file.torn THEN "truncate" ELSE "repair"
  <1>1. /\ Head1("commit") /\ Running.src = file /\ NeedsRepair(file) /\ UNCHANGED file
        /\ chain' = [chain EXCEPT ![1].stage = stage]
    BY DEF CommitRepairs, Current
  <1>2. stage \in {"queued", "truncate", "repair"}
    OBVIOUS
  <1> HIDE DEF stage
  <1>3. /\ DOMAIN chain' = DOMAIN chain /\ chain'[1].src = file /\ chain'[1].stage = stage
        /\ \A i \in DOMAIN chain : i # 1 => chain'[i] = chain[i]
    BY <1>1, <1>2, StageIs
  <1>4. ASSUME ~file.torn
        PROVE  Repairs(file) # <<>> /\ Durable!WellFormed(Stored(file))
    <2>1. file.extra = <<>> /\ Durable!WellFormed(Stored(file)) /\ Closers(Stored(file)) # <<>>
      BY <1>1, <1>4, SourceIs, Unmoved DEF FileOK, Sound, Sane, NeedsRepair
    <2>2. Closers(Stored(file)) \in Seq(Event) /\ Repairs(file) = <<>> \o Closers(Stored(file))
      BY <2>1, ClosersType DEF Repairs
    <2>3. QED
      BY <2>1, <2>2
  <1>5. /\ stage = "truncate" => file.torn
        /\ stage = "repair" => ~file.torn
    BY DEF stage
  <1>6. QED
    BY <1>1, <1>3, <1>4, <1>5, OthersQueued DEF MendsSound, Mended

LEMMA TruncateMends == ASSUME Lives, Pool, Sound, Lives', Pool', Truncate PROVE MendsSound'
  <1>1. /\ Head1("commit") /\ Running.stage = "truncate" /\ file' = [NoFile EXCEPT !.log = file.log]
        /\ \/ Repairs(Running.src) # <<>> /\ chain' = [chain EXCEPT ![1].stage = "repair"]
           \/ Drop(Running.who, Tail(chain), Retries(Running.who))
    BY DEF Truncate
  <1>2. 1 \in DOMAIN chain /\ chain[1] = Running /\ Running.kind = "commit" /\ client[Running.who].seen
    BY <1>1, RunningCommit, TailIs, Unmoved DEF ChainOK, Running
  <1>3. Running.src = file
    BY <1>1, <1>2 DEF Sound, MendsSound, Mended
  <1>4. CASE Repairs(Running.src) # <<>> /\ chain' = [chain EXCEPT ![1].stage = "repair"]
    <2>1. /\ DOMAIN chain' = DOMAIN chain /\ chain'[1].src = file /\ chain'[1].stage = "repair"
          /\ \A i \in DOMAIN chain : i # 1 => chain'[i] = chain[i]
      BY <1>1, <1>3, <1>4, StageIs
    <2>2. Repairs(file) # <<>> /\ Durable!WellFormed(Stored(file))
      BY <1>3, <1>4 DEF Sound, Sane
    <2>3. file'.log = file.log /\ ~file'.torn
      BY <1>1 DEF NoFile
    <2>4. QED
      BY <2>1, <2>2, <2>3, OthersQueued DEF MendsSound, Mended
  <1>5. CASE Drop(Running.who, Tail(chain), Retries(Running.who))
    <2>1. entry'.phase # "committing"
      BY <1>2, <1>5 DEF Drop, NoEntry
    <2>2. QED
      BY <2>1, MendsNone
  <1>6. QED
    BY <1>1, <1>4, <1>5

LEMMA FileMends ==
    ASSUME Lives, Pool, Lives', Pool', AppendCommits \/ Repair \/ Crash \/ ForeignResume PROVE MendsSound'
  <1>1. CASE AppendCommits \/ Crash \/ ForeignResume
    <2>1. AppendCommits \/ Crash => entry' = NoEntry
      BY DEF AppendCommits, Crash
    <2>2. ForeignResume => entry'.phase # "committing"
      BY DEF ForeignResume, Writable
    <2>3. NoEntry.phase = "none"
      BY DEF NoEntry
    <2>4. QED
      BY <1>1, <2>1, <2>2, <2>3, MendsNone
  <1>2. CASE Repair
    <2>1. Head1("commit") /\ Running.stage = "repair" /\ Drop(Running.who, Tail(chain), Retries(Running.who))
      BY <1>2 DEF Repair
    <2>2. client[Running.who].seen
      BY <2>1, RunningCommit
    <2>3. entry'.phase # "committing"
      BY <2>1, <2>2 DEF Drop, NoEntry
    <2>4. QED
      BY <2>3, MendsNone
  <1>3. QED
    BY <1>1, <1>2

LEMMA NextMends == ASSUME Lives, Pool, Lives', Pool', Sound, [Next]_vars PROVE MendsSound'
  <1>1. (Working \/ Quietly) /\ UNCHANGED file => MendsSound'
    BY KeepsMends, MendsKept DEF Working, Quietly
  <1>2. UNCHANGED <<file, chain>> => MendsSound'
    BY MendsStayCases, MendsKept, Unmoved
  <1>3. entry' = NoEntry => MendsSound'
    BY MendsNone DEF NoEntry
  <1>4. CASE Microtask
    <2>1. UNCHANGED file
      BY <1>4 DEF Microtask, FlushReady, WriteReady, Proceed, Retired, EntryLost, Inspect, Reserve
    <2>2. ASSUME NEW c \in Clients, Reserve(c) PROVE MendsSound'
      <3>1. chain' = Append(chain, CommitOp(c, entry.src))
        BY <2>2 DEF Reserve
      <3>2. CommitOp(c, entry.src) \in Operation /\ CommitOp(c, entry.src).stage = "queued"
        BY OperationMakes, Unmoved DEF CommitOp, EntryOK, Preparation
      <3>3. QED
        BY <2>1, <3>1, <3>2, MendsStayCases, MendsKept, Unmoved
    <2>3. QED
      BY <1>1, <1>4, <2>1, <2>2, LifecycleWorks, CallerQuiet DEF Microtask
  <1>5. CASE ChainStep \/ ChainFails
    <2>1. CASE AppendFails \/ Retire \/ Commits
      <3>1. chain # <<>> /\ UNCHANGED file
        BY <2>1 DEF AppendFails, Appending, Retire, Commits, Head1
      <3>2. chain' = Tail(chain) \/ chain' = Orphaned(Tail(chain))
        BY <2>1 DEF AppendFails, Retire, Commits, Drop
      <3>3. QED
        BY <3>1, <3>2, MendsStayCases, MendsKept, Unmoved
    <2>2. CASE AppendBegin
      <3>1. /\ UNCHANGED file /\ chain # <<>>
            /\ \/ chain' = Tail(chain)
               \/ \E op \in Operation : op.kind # "commit" /\ chain' = [chain EXCEPT ![1] = op]
        BY <2>2, AppendBeginIs
      <3>2. QED
        BY <3>1, MendsStayCases, MendsKept, Unmoved
    <2>3. CASE \/ Void \/ Load \/ NothingToLoad \/ LoadFails \/ Check \/ CheckFails
               \/ CommitOwned \/ CommitFails \/ CommitStale
      <3>1. UNCHANGED file
        BY <2>3 DEF Void, Load, NothingToLoad, LoadFails, LoadThrows, Check, CheckFails, CommitOwned, CommitFails,
           CommitThrows, CommitStale
      <3>2. QED
        BY <1>1, <2>3, <3>1, RunningQuiet
    <2>4. QED
      BY <1>5, <2>1, <2>2, <2>3, CreatedMends, CommitRepairsMends, TruncateMends, FileMends DEF ChainStep, ChainFails
  <1>6. ASSUME NEW s \in Slots, Emit(s) \/ Checkpoint(s) \/ End(s) \/ Deadline(s) PROVE MendsSound'
    BY <1>2, <1>6 DEF Emit, Checkpoint, End, Deadline
  <1>7. ASSUME NEW c \in Clients, Ask(c) \/ Setup(c) \/ Conclude(c) \/ Abort(c) PROVE MendsSound'
    <2>1. UNCHANGED file
      BY <1>7 DEF Ask, Setup, Conclude, Publish, Release, GiveUp, Create, Abort
    <2>2. Create(c) => MendsSound'
      BY <1>2, <1>3, <2>1 DEF Create, AttachNew
    <2>3. QED
      BY <1>1, <1>3, <1>7, <2>1, <2>2, CallerQuiet, PublishIs DEF Conclude
  <1>8. CASE Evict \/ Reload
    BY <1>3, <1>8 DEF Evict, Reload
  <1>9. CASE Unload \/ UNCHANGED vars
    BY <1>2, <1>9 DEF Unload, vars
  <1>10. QED
    BY <1>4, <1>5, <1>6, <1>7, <1>8, <1>9, FileMends DEF Next

-----------------------------------------------------------------------------
(* The log only grows, and keeps what was vouched for.                     *)

LEMMA BeginsAll ==
    ASSUME NEW a \in Seq(Event), NEW l \in Seq(Event), NEW m \in Seq(Event)
    PROVE  /\ Begins(a, l) /\ Begins(l, m) => Begins(a, m)
           /\ Begins(a, l) /\ Len(a) = Len(l) => a = l
           /\ Begins(a, l) => Len(a) <= Len(l)
  <1>1. Len(a) \in Nat /\ Len(l) \in Nat /\ Len(m) \in Nat
    OBVIOUS
  <1>2. Begins(a, l) /\ Begins(l, m) => Begins(a, m)
    BY <1>1 DEF Begins
  <1>3. Begins(a, l) /\ Len(a) = Len(l) => a = l
    BY DEF Begins
  <1>4. QED
    BY <1>2, <1>3 DEF Begins

LEMMA InitSound == Init => Sound
  <1> SUFFICES ASSUME Init PROVE Sound
    OBVIOUS
  <1>1. file = NoFile /\ acked = <<>> /\ chain = <<>>
    BY DEF Init
  <1>2. file.log = <<>> /\ file.extra = <<>> /\ Stored(file) = <<>>
    BY <1>1 DEF NoFile, Stored
  <1>3. Sane(file) /\ Begins(acked, file.log)
    BY <1>1, <1>2, ShortLogs DEF Sane, Begins
  <1>4. EventsSound
    BY UnusedEvents, ShortLogs DEF Init, EventsSound
  <1>5. ReservedSound /\ MendsSound
    BY <1>1 DEF Init, Idle, ReservedSound, MendsSound
  <1>6. QED
    BY <1>3, <1>4, <1>5 DEF Sound

LEMMA AckedKept == ASSUME Lives, Pool, Owners, Log, Sound, [Next]_vars, Lives' PROVE Begins(acked', file'.log)
  <1>1. file.log \in Seq(Event) /\ file'.log \in Seq(Event) /\ acked \in Seq(Event)
    BY DEF Lives, Typed, FileOK, RestOK, Source
  <1>2. Begins(acked, file.log) /\ Begins(file.log, file'.log) /\ Begins(file.log, file.log)
    BY <1>1, FileGrows, BeginsConcat DEF Sound, Grown
  <1>3. QED
    BY <1>1, <1>2, AcksVouch, BeginsAll DEF Vouches

LEMMA NextSound == Lives /\ Pool /\ Stopped /\ InTurn /\ Owners /\ Log /\ Sound /\ [Next]_vars => Sound'
  <1> SUFFICES ASSUME Lives, Pool, Stopped, InTurn, Owners, Log, Sound, [Next]_vars PROVE Sound'
    OBVIOUS
  <1>1. Lives' /\ Pool'
    BY NextLives, NextPool
  <1>2. Sane(file')
    BY FileGrows DEF Grown
  <1>3. EventsSound' /\ ReservedSound' /\ MendsSound' /\ Begins(acked', file'.log)
    BY <1>1, NextEvents, NextReserved, NextMends, AckedKept
  <1>4. QED
    BY <1>2, <1>3 DEF Sound

LEMMA DurablePrefix ==
    ASSUME NEW p \in Seq(Event), NEW q \in Seq(Event)
    PROVE  /\ Durable!IsPrefix(p, q) <=> Begins(p, q)
           /\ Durable!IsStrictPrefix(p, q) <=> Begins(p, q) /\ p # q
  <1>1. Durable!IsPrefix(p, q) <=> IsPrefix(p, q)
    BY DEF Durable!IsPrefix, IsPrefix
  <1>2. QED
    BY <1>1, PrefixIs DEF Durable!IsStrictPrefix

\* The log is the abstract one, step by step.
LEMMA StepGrows ==
    ASSUME Lives, Pool, Stopped, InTurn, Owners, Log, Sound, [Next]_vars
    PROVE  [Durable!Next]_(Durable!vars)
  <1>1. Lives'
    BY NextLives
  <1>2. /\ file.log \in Seq(Event) /\ file'.log \in Seq(Event) /\ acked \in Seq(Event) /\ acked' \in Seq(Event)
        /\ file' \in Source
    BY <1>1 DEF Lives, Typed, FileOK, RestOK, Source
  <1>3. Begins(file.log, file'.log) /\ Sane(file') /\ Begins(acked, file.log) /\ Begins(file.log, file.log)
    BY <1>2, FileGrows, BeginsConcat DEF Sound, Grown
  <1>4. CASE acked' = acked /\ file'.log = file.log
    BY <1>4 DEF Durable!vars
  <1>5. CASE acked' = acked /\ file'.log # file.log
    <2>1. Durable!IsStrictPrefix(file.log, file'.log)
      BY <1>2, <1>3, <1>5, DurablePrefix
    <2>2. Durable!WellFormed(file'.log)
      BY <1>2, <1>3, SourceIs, WellFormedBegins DEF Sane
    <2>3. QED
      BY <1>5, <2>1, <2>2 DEF Durable!Next, Durable!Grow
  <1>6. CASE acked' # acked
    <2>1. UNCHANGED file /\ acked' = file.log
      BY <1>6, AcksVouch DEF Vouches
    <2>2. Durable!IsStrictPrefix(acked, acked') /\ Durable!IsPrefix(acked', file.log)
      BY <1>2, <1>3, <1>6, <2>1, DurablePrefix
    <2>3. QED
      BY <2>1, <2>2 DEF Durable!Next, Durable!Ack
  <1>7. QED
    BY <1>4, <1>5, <1>6

-----------------------------------------------------------------------------
(* The last layer: what an inspection covers.                              *)

\* What was durable when an inspection began is in the log, and in the events
\* of whoever is in the store.
Floors ==
    \A c \in Clients :
        /\ client[c].fresh /\ Begins(client[c].floor, file.log)
        /\ \A s \in Present : Begins(client[c].floor, session[s].events)

\* Nothing retires while a lifecycle that was vetoed is in the store.
VetoedAlone == \A s \in Slots : session[s].life = "vetoed" => retiring = 0

Asked == Floors /\ VetoedAlone

\* Who is in the store after a step was there before, or begins with the log.
StoreGrows ==
    \A s \in Slots : session'[s].life \in {"live", "vetoed"} =>
        \/ session[s].life \in {"live", "vetoed"} /\ Begins(session[s].events, session'[s].events)
        \/ Begins(file.log, session'[s].events)

\* An answer of caller c that is fresh, and what it may still return.
FreshFor(r, c) == r.fresh /\ (r.floor = client[c].floor \/ r.floor = <<>>)
CallersFresh ==
    \A c \in Clients :
        \/ FreshFor(client'[c], c)
        \/ client'[c].fresh /\ client'[c].floor = file.log /\ Present = {} /\ UNCHANGED session

LEMMA FloorsStep ==
    ASSUME Lives, Lives', Floors, Begins(file.log, file'.log), StoreGrows, CallersFresh
    PROVE  Floors'
  <1>1. /\ file.log \in Seq(Event) /\ file'.log \in Seq(Event)
        /\ \A s \in Slots : session[s].events \in Seq(Event) /\ session'[s].events \in Seq(Event)
        /\ \A c \in Clients : client[c].floor \in Seq(Event)
    BY DEF Lives, Typed, FileOK, Source, SessionOK, Lifecycle, ClientOK, Caller
  <1>2. \A l \in Seq(Event) : Begins(<<>>, l)
    BY DEF Begins
  <1>3. ASSUME NEW c \in Clients
        PROVE  /\ client'[c].fresh /\ Begins(client'[c].floor, file'.log)
               /\ \A s \in Slots : session'[s].life \in {"live", "vetoed"} =>
                     Begins(client'[c].floor, session'[s].events)
    <2>1. CASE client'[c].fresh /\ client'[c].floor = <<>>
      BY <1>1, <1>2, <2>1
    <2>2. CASE client'[c].fresh /\ client'[c].floor = file.log /\ Present = {} /\ UNCHANGED session
      BY <2>2 DEF Present
    <2>3. CASE client'[c].fresh /\ client'[c].floor = client[c].floor
      <3>1. Begins(client[c].floor, file.log)
        BY DEF Floors
      <3>2. Begins(client[c].floor, file'.log)
        BY <1>1, <3>1, BeginsAll
      <3>3. ASSUME NEW s \in Slots, session'[s].life \in {"live", "vetoed"}
            PROVE  Begins(client[c].floor, session'[s].events)
        <4>1. CASE Begins(file.log, session'[s].events)
          BY <1>1, <3>1, <4>1, BeginsAll
        <4>2. CASE session[s].life \in {"live", "vetoed"} /\ Begins(session[s].events, session'[s].events)
          <5>1. Begins(client[c].floor, session[s].events)
            BY <4>2 DEF Floors, Present
          <5>2. QED
            BY <1>1, <4>2, <5>1, BeginsAll
        <4>3. QED
          BY <3>3, <4>1, <4>2 DEF StoreGrows
      <3>4. QED
        BY <2>3, <3>2, <3>3
    <2>4. QED
      BY <2>1, <2>2, <2>3 DEF CallersFresh, FreshFor
  <1>4. QED
    BY <1>3 DEF Floors, Present

-----------------------------------------------------------------------------
(* Who is in the store.                                                    *)

LEMMA StoreKept ==
    ASSUME Lives, SessionsKeep,
           \A s \in Slots : session'[s].life \in {"live", "vetoed"} => session[s].life \in {"live", "vetoed"}
    PROVE  StoreGrows
  <1>1. ASSUME NEW s \in Slots PROVE Begins(session[s].events, session'[s].events)
    <2>1. session[s].events \in Seq(Event)
      BY RecordIs
    <2>2. Begins(session[s].events, session[s].events)
      BY DEF Begins
    <2>3. ASSUME NEW e \in Event PROVE Begins(session[s].events, Append(session[s].events, e))
      BY <2>1 DEF Begins
    <2>4. QED
      BY <2>2, <2>3 DEF SessionsKeep, SlotKeeps
  <1>2. QED
    BY <1>1 DEF StoreGrows

LEMMA StoreSame ==
    ASSUME Lives, SameLives, \A s \in Slots : session'[s].events = session[s].events PROVE StoreGrows
  BY DEF SameLives, StoreGrows, Begins

LEMMA StoreWorks == ASSUME Lives, Working \/ Quietly PROVE StoreGrows
  <1>1. SessionsKeep /\ SameLives
    BY AllKeep DEF Working, Quietly
  <1>2. QED
    BY <1>1, StoreKept DEF SameLives

\* One lifecycle leaves, or enters.
LEMMA StoreOne ==
    ASSUME Lives, NEW s \in Slots, NEW r, session' = [session EXCEPT ![s] = r],
           r.life \in {"live", "vetoed"} => Begins(file.log, r.events)
    PROVE  StoreGrows
  <1>1. session'[s] = r /\ \A t \in Slots : t # s => session'[t] = session[t]
    BY Unmoved DEF Typed, SessionOK
  <1>2. QED
    BY <1>1 DEF StoreGrows, Begins

LEMMA SettledStore ==
    ASSUME Lives, chain # <<>>, Running.kind \in {"write", "seed", "created"}, NEW ok \in BOOLEAN,
           session' = Settled(Running, ok)
    PROVE  StoreGrows
  <1>1. SameLives /\ \A t \in Slots : session'[t].events = session[t].events
    BY SettledIs
  <1>2. QED
    BY <1>1, StoreSame

LEMMA PublishStore == ASSUME Lives, Log, NEW c \in Clients, Publish(c) PROVE StoreGrows
  <1> DEFINE init == IF Suffix(c) = <<>> THEN "ok" ELSE "pending"
             r == Entered(client[c].log, init)
  <1>1. client[c].pc = "reserved" /\ client[c].log \in Seq(Event)
    BY PublishIs
  <1>2. PICK s \in Free : session' = [session EXCEPT ![s] = r]
    BY PublishIs
  <1>3. init \in {"ok", "pending"}
    OBVIOUS
  <1> HIDE DEF init
  <1>4. r.events = client[c].log
    BY <1>1, <1>3, EnteredWritten
  <1>5. Begins(file.log, client[c].log)
    BY <1>1 DEF Log, ReservedHolds
  <1> HIDE DEF r
  <1>6. QED
    BY <1>2, <1>4, <1>5, StoreOne DEF Free

LEMMA CreateStore == ASSUME Lives, NEW c \in Clients, Create(c) PROVE StoreGrows
  <1>1. CASE UNCHANGED session
    BY <1>1, StoreSame DEF SameLives
  <1>2. CASE ~UNCHANGED session
    <2>1. file.log = <<>> /\ \E s \in Slots : \E r : session' = [session EXCEPT ![s] = r]
      BY <1>2 DEF Create, Veto, AttachNew, Enter, NextSlot, Free
    <2>2. \A l : Begins(<<>>, l) <=> 0 <= Len(l)
      BY DEF Begins
    <2> PICK s \in Slots : \E r : session' = [session EXCEPT ![s] = r]
      BY <2>1
    <2>3. PICK r : session' = [session EXCEPT ![s] = r]
      OBVIOUS
    <2>4. Begins(file.log, r.events)
      <3>1. session'[s] = r
        BY <2>3, Unmoved DEF Typed, SessionOK
      <3>2. Lives'
        BY CreateLives
      <3>3. session'[s].events \in Seq(Event)
        BY <3>2 DEF Lives, Typed, SessionOK, Lifecycle
      <3>4. QED
        BY <2>1, <2>2, <3>1, <3>3
    <2>5. QED
      BY <2>3, <2>4, StoreOne
  <1>3. QED
    BY <1>1, <1>2

LEMMA ReloadStore == ASSUME Lives, InTurn, Reload PROVE StoreGrows
  <1> DEFINE s == CHOOSE t \in Present : TRUE
             r == Entered(LiveView, "pending")
  <1>1. session' = [t \in Slots |-> IF t \notin Present THEN Unused ELSE r]
    BY DEF Reload, Entered
  <1>2. ASSUME NEW t \in Present PROVE LiveView = session[t].events /\ LiveView \in Seq(Event) /\ t \in Slots
    <2>1. t = s /\ t \in Slots
      BY DEF InTurn, OnePresent, Present
    <2>2. QED
      BY <2>1, RecordIs DEF LiveView
  <1> HIDE DEF s
  <1>3. ASSUME NEW t \in Present PROVE session'[t].events = session[t].events
    <2>1. r.events = LiveView
      BY <1>2, EnteredWritten
    <2> HIDE DEF r
    <2>2. QED
      BY <1>1, <1>2, <2>1
  <1>4. \A t \in Slots : t \notin Present => session'[t].life = "none"
    BY <1>1 DEF Unused
  <1>5. QED
    BY <1>3, <1>4 DEF StoreGrows, Present, Begins

LEMMA NextStore == ASSUME Lives, Pool, InTurn, Log, [Next]_vars PROVE StoreGrows
  <1>1. UNCHANGED session => StoreGrows
    BY StoreSame DEF SameLives
  <1>2. CASE Microtask
    <2>1. ASSUME NEW c \in Clients, Retired(c) \/ EntryLost(c) \/ Inspect(c) \/ Reserve(c) PROVE StoreGrows
      BY <1>1, <2>1 DEF Retired, EntryLost, Inspect, Reserve
    <2>2. QED
      BY <1>2, <2>1, LifecycleWorks, StoreWorks DEF Microtask
  <1>3. CASE ChainStep \/ ChainFails
    <2>1. CASE AppendBegin
      BY <1>1, <2>1, AppendBeginIs, SettledStore
    <2>2. CASE AppendCommits \/ AppendFails
      <3>1. chain # <<>> /\ Running.kind \in {"write", "seed"}
        BY <2>2 DEF AppendCommits, AppendFails, Appending, Head1, Running
      <3>2. session' = Settled(Running, TRUE) \/ session' = Settled(Running, FALSE)
        BY <2>2 DEF AppendCommits, AppendFails
      <3>3. QED
        BY <3>1, <3>2, SettledStore
    <2>3. CASE Created
      <3>1. chain # <<>> /\ Running.kind = "created"
        BY <2>3, CreatedIs
      <3>2. \/ UNCHANGED session \/ session' = Settled(Running, TRUE) \/ session' = Settled(Running, FALSE)
        BY <2>3, <3>1, CreatedIs DEF Settled
      <3>3. QED
        BY <1>1, <3>1, <3>2, SettledStore
    <2>4. CASE Retire
      <3>1. Unused.life = "none"
        BY DEF Unused
      <3>2. QED
        BY <2>4, <3>1, RetireIs, StoreOne
    <2>5. CASE Load \/ Check \/ CheckFails \/ Void \/ NothingToLoad \/ LoadFails
      BY <1>1, <2>5 DEF Load, Check, CheckFails, Void, NothingToLoad, LoadFails, LoadThrows
    <2>6. CASE CommitOwned \/ CommitFails \/ CommitStale \/ CommitRepairs \/ Truncate \/ Repair \/ Commits
      BY <1>1, <2>6 DEF CommitOwned, CommitFails, CommitThrows, CommitStale, CommitRepairs, Truncate, Repair, Commits
    <2>7. QED
      BY <1>3, <2>1, <2>2, <2>3, <2>4, <2>5, <2>6 DEF ChainStep, ChainFails
  <1>4. ASSUME NEW s \in Slots, Emit(s) \/ Checkpoint(s) \/ Deadline(s) PROVE StoreGrows
    BY <1>4, LifecycleWorks, StoreWorks
  <1>5. ASSUME NEW s \in Slots, End(s) PROVE StoreGrows
    <2> DEFINE v == CallFlush(session[s], "retire")
    <2>1. \/ session[s].life = "live" /\ session' = [session EXCEPT ![s] = [v EXCEPT !.life = "ended"]]
          \/ session' = [session EXCEPT ![s].life = "ended"]
          \/ session' = [session EXCEPT ![s] = Unused]
      BY <1>5 DEF End
    <2>2. session[s].life = "live" => v \in Lifecycle
      BY CallFlushKeeps DEF Callers
    <2> HIDE DEF v
    <2>3. session \in [Slots -> Lifecycle]
      BY Unmoved DEF Typed, SessionOK
    <2>4. session'[s].life \notin {"live", "vetoed"} /\ \A t \in Slots : t # s => session'[t] = session[t]
      BY <2>1, <2>2, <2>3 DEF Lifecycle, Unused
    <2>5. QED
      BY <1>5, <2>4, EndKeeps, StoreKept
  <1>6. ASSUME NEW c \in Clients, Ask(c) \/ Setup(c) \/ Conclude(c) \/ Abort(c) PROVE StoreGrows
    <2>1. Ask(c) \/ Setup(c) \/ Release(c) \/ GiveUp(c) \/ Abort(c) => UNCHANGED session
      BY DEF Ask, Setup, Release, GiveUp, Abort
    <2>2. QED
      BY <1>1, <1>6, <2>1, PublishStore, CreateStore DEF Conclude
  <1>7. CASE Crash
    BY <1>7 DEF Crash, Unused, StoreGrows
  <1>8. CASE Evict \/ ForeignResume \/ UNCHANGED vars
    BY <1>1, <1>8 DEF Evict, ForeignResume, vars
  <1>9. QED
    BY <1>2, <1>3, <1>4, <1>5, <1>6, <1>7, <1>8, UnloadWorks, StoreWorks, ReloadStore DEF Next

-----------------------------------------------------------------------------
(* Nothing retires while a vetoed lifecycle is in the store.               *)

LEMMA AloneKept ==
    ASSUME VetoedAlone, retiring' \in {0, retiring},
           \A s \in Slots : session'[s].life = "vetoed" => session[s].life = "vetoed"
    PROVE  VetoedAlone'
  BY DEF VetoedAlone

LEMMA LifecycleRetires ==
    ASSUME NEW s \in Slots,
           FlushReady(s) \/ Proceed(s) \/ WriteReady(s) \/ Emit(s) \/ Checkpoint(s) \/ Deadline(s)
    PROVE  retiring' \in {0, retiring}
  BY DEF FlushReady, Proceed, WriteReady, Emit, Checkpoint, Deadline, Advance, Answer

LEMMA EndAlone == ASSUME Lives, InTurn, VetoedAlone, NEW s \in Slots, End(s) PROVE VetoedAlone'
  <1> DEFINE v == CallFlush(session[s], "retire")
  <1>1. \/ session[s].life = "live" /\ session' = [session EXCEPT ![s] = [v EXCEPT !.life = "ended"]]
        \/ UNCHANGED retiring /\ session' = [session EXCEPT ![s].life = "ended"]
        \/ UNCHANGED retiring /\ session' = [session EXCEPT ![s] = Unused]
    BY DEF End
  <1>2. session[s].life = "live" => v \in Lifecycle /\ \A t \in Slots : session[t].life = "vetoed" => t = s
    BY CallFlushKeeps DEF Callers, InTurn, OnePresent, Present
  <1> HIDE DEF v
  <1>3. session \in [Slots -> Lifecycle]
    BY Unmoved DEF Typed, SessionOK
  <1>4. session'[s].life # "vetoed" /\ \A t \in Slots : t # s => session'[t] = session[t]
    BY <1>1, <1>2, <1>3 DEF Lifecycle, Unused
  <1>5. QED
    BY <1>1, <1>2, <1>4 DEF VetoedAlone

LEMMA OneAlone ==
    ASSUME Lives, VetoedAlone, NEW s \in Slots, NEW r, session' = [session EXCEPT ![s] = r],
           r.life # "vetoed", retiring' \in {0, retiring}
    PROVE  VetoedAlone'
  <1>1. session'[s] = r /\ \A t \in Slots : t # s => session'[t] = session[t]
    BY Unmoved DEF Typed, SessionOK
  <1>2. QED
    BY <1>1, AloneKept

LEMMA NextAlone == ASSUME Lives, Pool, InTurn, VetoedAlone, [Next]_vars PROVE VetoedAlone'
  <1>1. SameLives /\ retiring' \in {0, retiring} => VetoedAlone'
    BY AloneKept DEF SameLives
  <1>2. UNCHANGED <<session, retiring>> => VetoedAlone'
    BY <1>1 DEF SameLives
  <1>3. ASSUME NEW s \in Slots,
               FlushReady(s) \/ Proceed(s) \/ WriteReady(s) \/ Emit(s) \/ Checkpoint(s) \/ Deadline(s)
        PROVE  VetoedAlone'
    BY <1>1, <1>3, LifecycleWorks, LifecycleRetires DEF Working
  <1>4. CASE Microtask
    <2>1. ASSUME NEW c \in Clients, Retired(c) \/ EntryLost(c) \/ Inspect(c) \/ Reserve(c) PROVE VetoedAlone'
      BY <1>2, <2>1 DEF Retired, EntryLost, Inspect, Reserve
    <2>2. QED
      BY <1>3, <1>4, <2>1 DEF Microtask
  <1>5. CASE ChainStep \/ ChainFails
    <2>1. CASE AppendBegin
      BY <1>1, <1>2, <2>1, AppendBeginIs, SettledIs
    <2>2. CASE AppendCommits \/ AppendFails
      <3>1. chain # <<>> /\ Running.kind \in {"write", "seed"} /\ UNCHANGED retiring
        BY <2>2 DEF AppendCommits, AppendFails, Appending, Head1, Running
      <3>2. session' = Settled(Running, TRUE) \/ session' = Settled(Running, FALSE)
        BY <2>2 DEF AppendCommits, AppendFails
      <3>3. QED
        BY <1>1, <3>1, <3>2, SettledIs
    <2>3. CASE Created
      <3>1. chain # <<>> /\ Running.kind = "created" /\ UNCHANGED retiring
        BY <2>3, CreatedIs
      <3>2. \/ UNCHANGED session \/ session' = Settled(Running, TRUE) \/ session' = Settled(Running, FALSE)
        BY <2>3, <3>1, CreatedIs DEF Settled
      <3>3. QED
        BY <1>1, <1>2, <3>1, <3>2, SettledIs
    <2>4. CASE Retire
      <3>1. Unused.life # "vetoed"
        BY DEF Unused
      <3>2. QED
        BY <2>4, <3>1, RetireIs, OneAlone
    <2>5. CASE Load \/ Check \/ CheckFails \/ Void \/ NothingToLoad \/ LoadFails
      BY <1>2, <2>5 DEF Load, Check, CheckFails, Void, NothingToLoad, LoadFails, LoadThrows
    <2>6. CASE CommitOwned \/ CommitFails \/ CommitStale \/ CommitRepairs \/ Truncate \/ Repair \/ Commits
      BY <1>2, <2>6 DEF CommitOwned, CommitFails, CommitThrows, CommitStale, CommitRepairs, Truncate, Repair, Commits
    <2>7. QED
      BY <1>5, <2>1, <2>2, <2>3, <2>4, <2>5, <2>6 DEF ChainStep, ChainFails
  <1>6. ASSUME NEW c \in Clients, Ask(c) \/ Setup(c) \/ Conclude(c) \/ Abort(c) PROVE VetoedAlone'
    <2>1. Ask(c) \/ Setup(c) \/ Release(c) \/ GiveUp(c) \/ Abort(c) => VetoedAlone'
      BY <1>2 DEF Ask, Setup, Release, GiveUp, Abort
    <2>2. CASE Publish(c)
      <3>1. PICK s \in Free : session' = [session EXCEPT ![s] = Entered(client[c].log, IF Suffix(c) = <<>> THEN "ok" ELSE "pending")]
        BY <2>2, PublishIs
      <3>2. UNCHANGED retiring /\ Entered(client[c].log, IF Suffix(c) = <<>> THEN "ok" ELSE "pending").life # "vetoed"
        BY <2>2, PublishIs DEF Entered, Unused
      <3>3. QED
        BY <3>1, <3>2, OneAlone DEF Free
    <2>3. CASE Create(c)
      <3>1. UNCHANGED retiring /\ client[c].pc = "absent"
        BY <2>3 DEF Create
      <3>2. CASE UNCHANGED session
        BY <1>2, <3>1, <3>2
      <3>3. CASE ~UNCHANGED session
        <4>1. retiring = 0
          BY <2>3, <3>1, <3>3 DEF Create, InTurn, CallersInTurn
        <4>2. QED
          BY <3>1, <4>1 DEF VetoedAlone
      <3>4. QED
        BY <3>2, <3>3
    <2>4. QED
      BY <1>6, <2>1, <2>2, <2>3 DEF Conclude
  <1>7. CASE Crash \/ Reload
    BY <1>7 DEF Crash, Reload, VetoedAlone
  <1>8. CASE Unload
    BY <1>1, <1>8, UnloadKeeps DEF Unload
  <1>9. CASE Evict \/ ForeignResume \/ UNCHANGED vars
    BY <1>2, <1>9 DEF Evict, ForeignResume, vars
  <1>10. QED
    BY <1>3, <1>4, <1>5, <1>6, <1>7, <1>8, <1>9, EndAlone DEF Next

-----------------------------------------------------------------------------
(* What callers are told.                                                  *)

LEMMA OneFresh ==
    ASSUME Lives, Floors, NEW c \in Clients, NEW r, FreshFor(r, c),
           client' = [client EXCEPT ![c] = r] \/ client' = [Unseen(client) EXCEPT ![c] = r]
    PROVE  CallersFresh
  <1>1. client'[c] = r
    BY Unmoved DEF ClientOK, Unseen
  <1>2. ASSUME NEW d \in Clients, d # c PROVE client'[d].fresh = client[d].fresh /\ client'[d].floor = client[d].floor
    <2>1. client \in [Clients -> Caller]
      BY Unmoved DEF ClientOK
    <2>2. client'[d] = client[d] \/ client'[d] = [client[d] EXCEPT !.seen = FALSE]
      BY <1>2, <2>1 DEF Unseen
    <2>3. QED
      BY <2>1, <2>2 DEF Caller
  <1>3. QED
    BY <1>1, <1>2 DEF CallersFresh, FreshFor, Floors

LEMMA UnseenFresh == ASSUME Lives, Floors, UNCHANGED client \/ client' = Unseen(client) PROVE CallersFresh
  <1>1. ASSUME NEW d \in Clients PROVE client'[d].fresh = client[d].fresh /\ client'[d].floor = client[d].floor
    <2>1. client \in [Clients -> Caller]
      BY Unmoved DEF ClientOK
    <2>2. client'[d] = client[d] \/ client'[d] = [client[d] EXCEPT !.seen = FALSE]
      BY <2>1 DEF Unseen
    <2>3. QED
      BY <2>1, <2>2 DEF Caller
  <1>2. QED
    BY <1>1 DEF CallersFresh, FreshFor, Floors

LEMMA AnswersFresh ==
    ASSUME Lives, Floors, NEW c \in Clients
    PROVE  /\ FreshFor(Idle, c) /\ FreshFor(Failed(c), c) /\ FreshFor(Again(c), c) /\ FreshFor(Retries(c), c)
           /\ FreshFor(client[c], c)
           /\ Present # {} => FreshFor(Told(c, LiveView), c)
           /\ FreshFor(Told(c, Balanced(file)), c)
  <1>1. client[c] \in Caller /\ client[c].fresh /\ Begins(client[c].floor, file.log)
        /\ client[c].floor \in Seq(Event) /\ file \in Source
    BY Unmoved DEF ClientOK, Caller, Floors, FileOK
  <1>2. FreshFor(Idle, c) /\ FreshFor(Failed(c), c) /\ FreshFor(client[c], c)
    BY <1>1 DEF Idle, Failed, FreshFor
  <1>3. FreshFor(Again(c), c) /\ FreshFor(Retries(c), c)
    BY <1>1, <1>2 DEF Retries, Again, FreshFor, Caller
  <1>4. ASSUME NEW v \in Seq(Event), Begins(client[c].floor, v) PROVE FreshFor(Told(c, v), c)
    <2>1. IsPrefix(client[c].floor, v)
      BY <1>1, <1>4, PrefixIs
    <2>2. QED
      BY <2>1 DEF Told, Idle, FreshFor
  <1>5. ASSUME Present # {} PROVE FreshFor(Told(c, LiveView), c)
    <2>1. PICK s \in Present : LiveView = session[s].events
      BY <1>5 DEF LiveView
    <2>2. LiveView \in Seq(Event) /\ Begins(client[c].floor, LiveView)
      BY <2>1, RecordIs DEF Present, Floors
    <2>3. QED
      BY <1>4, <2>2
  <1>6. FreshFor(Told(c, Balanced(file)), c)
    <2>1. /\ file.log \in Seq(Event) /\ Stored(file) \in Seq(Event) /\ Begins(file.log, Stored(file))
          /\ Closers(Stored(file)) \in Seq(Event)
      BY <1>1, SourceIs, ClosersType
    <2>2. Balanced(file) \in Seq(Event) /\ Begins(Stored(file), Balanced(file))
      BY <2>1, BeginsConcat DEF Balanced
    <2>3. Begins(client[c].floor, Balanced(file))
      <3>1. Begins(client[c].floor, Stored(file))
        BY <1>1, <2>1, BeginsAll
      <3>2. QED
        BY <1>1, <2>1, <2>2, <3>1, BeginsAll
    <2>4. QED
      BY <1>4, <2>2, <2>3
  <1>7. QED
    BY <1>2, <1>3, <1>5, <1>6

LEMMA DropFresh ==
    ASSUME Lives, Floors, NEW c \in Clients, NEW q, NEW r, Drop(c, q, r), FreshFor(r, c) PROVE CallersFresh
  <1>1. client' = [client EXCEPT ![c] = r] \/ client' = [Unseen(client) EXCEPT ![c] = r]
    BY DEF Drop
  <1>2. QED
    BY <1>1, OneFresh

\* Other fields of a caller than its floor move.
LEMMA FieldsFresh ==
    ASSUME Lives, Floors,
           \A c \in Clients : client'[c].fresh = client[c].fresh /\ client'[c].floor = client[c].floor
    PROVE  CallersFresh
  BY DEF CallersFresh, FreshFor, Floors

\* A caller that waits for the pool's entry keeps what it wants.
LEMMA LookFresh ==
    ASSUME Lives, Floors, NEW c \in Clients, NEW cl \in Caller, cl.fresh,
           cl.floor = client[c].floor \/ (cl.floor = file.log /\ Present = {} /\ UNCHANGED session), Look(c, cl)
    PROVE  CallersFresh
  <1>1. CASE Present # {}
    <2>1. client' = [client EXCEPT ![c] = Told(c, LiveView)] \/ client' = [client EXCEPT ![c] = Failed(c)]
      BY <1>1 DEF Look
    <2>2. QED
      BY <1>1, <2>1, AnswersFresh, OneFresh
  <1>2. CASE Present = {}
    <2> DEFINE loaded == cl.does = "inspect" /\ entry.phase \notin {"none", "loading"}
               r == [cl EXCEPT !.pc = IF loaded THEN "loaded" ELSE "entry", !.seen = TRUE,
                               !.src = IF loaded THEN entry.src ELSE NoFile]
    <2>1. client' = [client EXCEPT ![c] = r]
      BY <1>2 DEF Look
    <2>2. r.fresh /\ r.floor = cl.floor
      BY DEF Caller
    <2> HIDE DEF r
    <2>3. client'[c] = r /\ \A d \in Clients : d # c => client'[d] = client[d]
      BY <2>1, Unmoved DEF ClientOK
    <2>4. QED
      BY <2>2, <2>3 DEF CallersFresh, FreshFor, Floors
  <1>3. QED
    BY <1>1, <1>2

LEMMA AskFresh == ASSUME Lives, InTurn, Asked, NEW c \in Clients, Ask(c) PROVE CallersFresh
  <1> DEFINE cl == [Idle EXCEPT !.does = "inspect", !.floor = file.log]
             r == [cl EXCEPT !.pc = "retirement", !.on = retiring]
             p == [Idle EXCEPT !.pc = "retirement", !.on = retiring]
  <1>1. \/ client' = [client EXCEPT ![c] = p]
        \/ retiring = 0 /\ Present = {} /\ Look(c, cl)
        \/ retiring # 0 /\ client' = [client EXCEPT ![c] = r]
    BY DEF Ask
  <1>2. UNCHANGED session
    BY DEF Ask
  <1>3. cl \in Caller /\ cl.fresh /\ cl.floor = file.log
    <2>1. Idle \in Caller /\ file.log \in Seq(Event)
      BY CallerTypes, Unmoved DEF FileOK, Source
    <2>2. cl \in Caller
      BY <2>1 DEF Caller
    <2>3. QED
      BY <2>2 DEF Idle
  <1>4. r.fresh /\ r.floor = file.log /\ p.fresh /\ p.floor = <<>>
    BY DEF Idle
  <1> HIDE DEF cl, r, p
  <1>5. CASE client' = [client EXCEPT ![c] = p]
    BY <1>4, <1>5, OneFresh DEF FreshFor, Asked
  <1>6. CASE retiring = 0 /\ Present = {} /\ Look(c, cl)
    BY <1>2, <1>3, <1>6, LookFresh DEF Asked
  <1>7. CASE retiring # 0 /\ client' = [client EXCEPT ![c] = r]
    <2>1. Present = {}
      BY <1>7 DEF Present, InTurn, LiveAlone, Asked, VetoedAlone
    <2>2. client'[c] = r /\ \A d \in Clients : d # c => client'[d] = client[d]
      BY <1>7, Unmoved DEF ClientOK
    <2>3. QED
      BY <1>2, <1>4, <2>1, <2>2 DEF CallersFresh, FreshFor, Floors, Asked
  <1>8. QED
    BY <1>1, <1>5, <1>6, <1>7

LEMMA CallerFresh ==
    ASSUME Lives, Floors, NEW c \in Clients,
           \/ Retired(c) \/ EntryLost(c) \/ Inspect(c) \/ Reserve(c) \/ Setup(c) \/ Conclude(c) \/ Abort(c)
    PROVE  CallersFresh
  <1>1. client \in [Clients -> Caller] /\ client[c] \in Caller
    BY Unmoved DEF ClientOK
  <1>2. CASE Retired(c)
    BY <1>1, <1>2, LookFresh DEF Retired, Floors
  <1>3. CASE EntryLost(c) \/ Publish(c) \/ Create(c) \/ GiveUp(c)
    <2>1. \E r \in {Idle, Again(c)} : client' = [client EXCEPT ![c] = r] \/ client' = [Unseen(client) EXCEPT ![c] = r]
      BY <1>3 DEF EntryLost, Publish, Create, GiveUp
    <2>2. QED
      BY <2>1, AnswersFresh, OneFresh
  <1>4. CASE Inspect(c)
    <2>1. CASE Present # {}
      BY <1>4, <2>1, AnswersFresh, OneFresh DEF Inspect
    <2>2. CASE Present = {}
      <3>1. client' = [client EXCEPT ![c].pc = "check"]
        BY <1>4, <2>2 DEF Inspect
      <3>2. QED
        BY <1>1, <3>1, FieldsFresh DEF Caller
    <2>3. QED
      BY <2>1, <2>2
  <1>5. CASE Reserve(c)
    BY <1>1, <1>5, FieldsFresh DEF Reserve, Caller
  <1>6. CASE Setup(c)
    <2> DEFINE log == Append(client[c].log, [kind |-> "note", by |-> 0])
    <2>1. client' = [client EXCEPT ![c].log = log]
      BY <1>6 DEF Setup
    <2> HIDE DEF log
    <2>2. QED
      BY <1>1, <2>1, FieldsFresh DEF Caller
  <1>7. CASE Release(c)
    <2>1. client' = [client EXCEPT ![c] = Failed(c)] \/ Drop(c, chain, Failed(c))
      BY <1>7 DEF Release
    <2>2. QED
      BY <2>1, AnswersFresh, OneFresh, DropFresh
  <1>8. CASE Abort(c)
    <2>1. \/ client' = [client EXCEPT ![c] = Idle]
          \/ \E q : Drop(c, q, Idle)
          \/ client' = [client EXCEPT ![c].cut = TRUE]
      BY <1>8 DEF Abort
    <2>2. CASE client' = [client EXCEPT ![c].cut = TRUE]
      BY <1>1, <2>2, FieldsFresh DEF Caller
    <2>3. QED
      BY <2>1, <2>2, AnswersFresh, OneFresh, DropFresh
  <1>9. QED
    BY <1>2, <1>3, <1>4, <1>5, <1>6, <1>7, <1>8 DEF Conclude

LEMMA LoadFresh == ASSUME Lives, Floors, Load \/ NothingToLoad \/ LoadFails PROVE CallersFresh
  <1>1. client \in [Clients -> Caller]
    BY Unmoved DEF ClientOK
  <1>2. CASE Load
    <2>1. \A c \in Clients : client'[c] = client[c] \/ client'[c] = [client[c] EXCEPT !.pc = "loaded", !.src = file]
      BY <1>2 DEF Load
    <2>2. QED
      BY <1>1, <2>1, FieldsFresh DEF Caller
  <1>3. CASE NothingToLoad \/ LoadFails
    <2>1. \A c \in Clients :
             \/ client'[c] = client[c] \/ client'[c] = Failed(c)
             \/ Present # {} /\ client'[c] = Told(c, LiveView)
      BY <1>3 DEF NothingToLoad, LoadFails, LoadThrows
    <2>2. QED
      BY <2>1, AnswersFresh DEF CallersFresh
  <1>4. QED
    BY <1>2, <1>3

LEMMA CheckFresh == ASSUME Lives, Floors, Check \/ CheckFails PROVE CallersFresh
  <1> DEFINE c == Running.who
  <1>1. c \in Clients
    <2>1. chain # <<>> /\ Running.kind = "check"
      BY DEF Check, CheckFails, Head1, Running
    <2>2. QED
      BY <2>1, RunningIs, Unmoved
  <1>2. \/ client' = [client EXCEPT ![c] = Idle]
        \/ client' = [Unseen(client) EXCEPT ![c] = Again(c)] \/ client' = [client EXCEPT ![c] = Again(c)]
        \/ Present # {} /\ client' = [client EXCEPT ![c] = Told(c, LiveView)]
        \/ client' = [client EXCEPT ![c] = Told(c, Balanced(file))]
    BY DEF Check, CheckFails, Current
  <1> HIDE DEF c
  <1>3. QED
    BY <1>1, <1>2, AnswersFresh, OneFresh

LEMMA CommitFresh ==
    ASSUME Lives, Pool, Floors, CommitOwned \/ CommitFails \/ CommitStale \/ Truncate \/ Repair \/ Commits
    PROVE  CallersFresh
  <1> DEFINE c == Running.who
  <1>1. Head1("commit")
    BY DEF CommitOwned, CommitFails, CommitStale, Truncate, Repair, Commits
  <1>2. c \in Clients /\ client \in [Clients -> Caller]
    BY <1>1, RunningCommit, Unmoved DEF ClientOK
  <1>3. \/ Drop(c, Tail(chain), Failed(c)) \/ Drop(c, Tail(chain), Again(c)) \/ Drop(c, Tail(chain), Retries(c))
        \/ UNCHANGED client
        \/ client' = [client EXCEPT ![c] = Idle]
        \/ client' = [client EXCEPT ![c].pc = "reserved", ![c].log = Seeded(Running.src.log)]
    BY DEF CommitOwned, CommitFails, CommitThrows, CommitStale, Truncate, Repair, Commits
  <1>4. CASE client' = [client EXCEPT ![c].pc = "reserved", ![c].log = Seeded(Running.src.log)]
    BY <1>2, <1>4, FieldsFresh DEF Caller
  <1> HIDE DEF c
  <1>5. QED
    BY <1>2, <1>3, <1>4, AnswersFresh, OneFresh, DropFresh, UnseenFresh

LEMMA AnswerFresh == ASSUME Lives, Floors, NEW s \in Slots, FlushReady(s) \/ Proceed(s) PROVE CallersFresh
  <1>1. UNCHANGED client \/ \A c \in Clients : client'[c] = client[c] \/ client'[c] = Failed(c)
    BY DEF FlushReady, Proceed, Advance, Answer
  <1>2. QED
    BY <1>1, AnswersFresh, UnseenFresh DEF CallersFresh

LEMMA NextCallers == ASSUME Lives, Pool, InTurn, Asked, [Next]_vars PROVE CallersFresh
  <1> USE DEF Asked
  <1>1. UNCHANGED client \/ client' = Unseen(client) => CallersFresh
    BY UnseenFresh
  <1>2. CASE Microtask
    BY <1>1, <1>2, AnswerFresh, CallerFresh DEF Microtask, WriteReady
  <1>3. CASE ChainStep \/ ChainFails
    <2>1. CASE AppendBegin \/ AppendCommits \/ AppendFails \/ Created \/ CommitRepairs \/ Void
      BY <1>1, <2>1 DEF AppendBegin, AppendCommits, AppendFails, Created, CommitRepairs, Void
    <2>2. CASE Retire
      <3>1. \A c \in Clients : client'[c].fresh = client[c].fresh /\ client'[c].floor = client[c].floor
        BY <2>2, Unmoved DEF Retire, ClientOK, Caller
      <3>2. QED
        BY <3>1, FieldsFresh
    <2>3. QED
      BY <1>3, <2>1, <2>2, LoadFresh, CheckFresh, CommitFresh DEF ChainStep, ChainFails
  <1>4. ASSUME NEW s \in Slots, Emit(s) \/ Checkpoint(s) \/ End(s) \/ Deadline(s) PROVE CallersFresh
    BY <1>1, <1>4 DEF Emit, Checkpoint, End, Deadline
  <1>5. ASSUME NEW c \in Clients, Ask(c) \/ Setup(c) \/ Conclude(c) \/ Abort(c) PROVE CallersFresh
    BY <1>5, AskFresh, CallerFresh
  <1>6. CASE Crash
    <2>1. \A c \in Clients : client'[c] = Idle
      BY <1>6 DEF Crash
    <2>2. QED
      BY <2>1, AnswersFresh DEF CallersFresh
  <1>7. CASE Evict \/ ForeignResume \/ Unload \/ Reload \/ UNCHANGED vars
    BY <1>1, <1>7 DEF Evict, ForeignResume, Unload, Reload, vars
  <1>8. QED
    BY <1>2, <1>3, <1>4, <1>5, <1>6, <1>7 DEF Next

LEMMA InitAsked == Init => Asked
  <1> SUFFICES ASSUME Init PROVE Asked
    OBVIOUS
  <1>1. file.log = <<>> /\ \A s \in Slots : session[s].life = "none"
    BY DEF Init, NoFile, Unused
  <1>2. \A c \in Clients : client[c].fresh /\ client[c].floor = <<>>
    BY DEF Init, Idle
  <1>3. QED
    BY <1>1, <1>2 DEF Asked, Floors, VetoedAlone, Present, Begins

LEMMA NextAsked == Lives /\ Pool /\ Stopped /\ InTurn /\ Owners /\ Log /\ Sound /\ Asked /\ [Next]_vars => Asked'
  <1> SUFFICES ASSUME Lives, Pool, Stopped, InTurn, Owners, Log, Sound, Asked, [Next]_vars PROVE Asked'
    OBVIOUS
  <1>1. Lives' /\ Begins(file.log, file'.log) /\ StoreGrows /\ CallersFresh
    BY NextLives, FileGrows, NextStore, NextCallers DEF Grown
  <1>2. QED
    BY <1>1, FloorsStep, NextAlone DEF Asked

-----------------------------------------------------------------------------
(* What all layers say holds, and what follows.                            *)

IInv == Lives /\ Pool /\ Stopped /\ InTurn /\ Owners /\ Log /\ Sound /\ Asked

LEMMA Invariance == Spec => []IInv
  <1>1. Init => IInv
    BY InitLives, InitPool, InitTurn, InitOwners, InitLog, InitSound, InitAsked DEF IInv
  <1>2. IInv /\ [Next]_vars => IInv'
    BY NextLives, NextPool, StoppedNext, NextTurn, NextOwners, NextLog, NextSound, NextAsked DEF IInv
  <1>3. QED
    BY <1>1, <1>2, PTL DEF Spec

(* Persistence implements the durable log: whatever fails, is retried,     *)
(* crashes or is repaired, the log of the id only grows, each time to      *)
(* turns that do not nest or cross a resume; and a flush is never resolved *)
(* before the events it covers are in it (appendCore, drainBarrier,        *)
(* commitRepair, adoptLivePrefix).                                         *)
THEOREM DurableLogKept == Spec => KeepsDurableLog
  <1>1. Init => Durable!Init
    BY DEF Init, Durable!Init, NoFile
  <1>2. IInv /\ [Next]_vars => [Durable!Next]_(Durable!vars)
    BY StepGrows DEF IInv
  <1>3. QED
    BY <1>1, <1>2, Invariance, PTL DEF Spec, KeepsDurableLog, Durable!Spec

(* What inspect returns covers what was on disk at the call, unless it was *)
(* borrowed from a resume under way, however resumes, appends, evictions   *)
(* and other processes overlap with it (PersistenceCoordinator.inspect).   *)
THEOREM InspectionsCover == Spec => []InspectionIsFresh
  <1>1. IInv => InspectionIsFresh
    BY DEF IInv, Asked, Floors, InspectionIsFresh
  <1>2. QED
    BY <1>1, Invariance, PTL

============================================================================
