------------------------ MODULE DshPersistenceProofs ------------------------
(***************************************************************************)
(* Proofs about the persistence of a session id, for any number of         *)
(* lifecycles and callers and any bounds.                                  *)
(*                                                                         *)
(* From the bottom up: what the methods of a write controller keep; what   *)
(* an operation on the chain may rely on in the lifecycle it serves; what  *)
(* a step must show to keep that (SlotStep, OthersStep); one lemma per     *)
(* action; the theorems of this first layer. The second layer, in the same *)
(* order, is of the pool's entry: who holds it, and which operations and   *)
(* which log it goes with. DshPersistenceLogProofs builds on both.         *)
(***************************************************************************)
EXTENDS DshPersistence, SequenceTheorems, FiniteSetTheorems, TLAPS

-----------------------------------------------------------------------------
(* Types.                                                                  *)

Lifecycle ==
    [life : {"none", "live", "vetoed", "ended"}, events : Seq(Event), handed : Nat,
     init : {"pending", "ok", "failed"}, atInit : SUBSET Callers,
     atBarrier : SUBSET Callers, w : Writer]

Caller ==
    [does : {"prepare", "inspect"},
     pc : {"idle", "retirement", "entry", "commit", "reserved", "loaded", "check", "absent"},
     seen : BOOLEAN, on : {0} \cup Slots, src : Source, log : Seq(Event),
     cut : BOOLEAN, floor : Seq(Event), fresh : BOOLEAN]

Preparation == [phase : {"none", "loading", "ready", "committing", "reserved"}, src : Source]
Cursor == [cursor : Nat, owner : {0} \cup Slots, known : BOOLEAN]

FileOK == file \in Source
EntryOK == entry \in Preparation
ChainOK == chain \in Seq(Operation)
SessionOK == session \in [Slots -> Lifecycle]
ClientOK == client \in [Clients -> Caller]
OwnerOK == tracked \in Cursor /\ retiring \in {0} \cup Slots
RestOK == up \in BOOLEAN /\ acked \in Seq(Event) /\ trouble \in 0 .. MaxTrouble

\* The lifecycles that the cursor and the retirement name still exist.
OwnerHere == tracked.owner # 0 => session[tracked.owner].life \in {"live", "ended"}
RetiringEnded == retiring # 0 => session[retiring].life = "ended"

Typed == FileOK /\ EntryOK /\ ChainOK /\ SessionOK /\ ClientOK /\ OwnerOK /\ RestOK

LEMMA TypeParts == Typed /\ OwnerHere /\ RetiringEnded => TypeOK
  <1>1. ASSUME Typed, OwnerHere, RetiringEnded PROVE tracked \in [cursor : Nat, owner : {0} \cup InUse, known : BOOLEAN]
    BY <1>1 DEF Typed, OwnerOK, Cursor, OwnerHere, InUse, Free
  <1>2. ASSUME Typed, OwnerHere, RetiringEnded
        PROVE  retiring \in {0} \cup {s \in Slots : session[s].life = "ended"}
    BY <1>2 DEF Typed, OwnerOK, RetiringEnded
  <1>3. QED
    BY <1>1, <1>2 DEF Typed, TypeOK, FileOK, EntryOK, ChainOK, SessionOK, ClientOK, RestOK,
       Preparation, Lifecycle, Caller

\* Events and sources.
LEMMA ClosersType == ASSUME NEW l PROVE Closers(l) \in Seq(Event)
  <1>1. [kind |-> "turn/end", by |-> 0] \in Event
    BY DEF Event, Kinds
  <1>2. QED
    BY <1>1 DEF Closers

LEMMA SourceType ==
    ASSUME NEW src \in Source
    PROVE  Stored(src) \in Seq(Event) /\ Balanced(src) \in Seq(Event) /\ Repairs(src) \in Seq(Event)
  <1>1. Stored(src) \in Seq(Event)
    BY DEF Stored, Source
  <1>2. Closers(Stored(src)) \in Seq(Event)
    BY ClosersType
  <1>3. QED
    BY <1>1, <1>2 DEF Balanced, Repairs, Source

LEMMA SeededType == ASSUME NEW l \in Seq(Event) PROVE Seeded(l) \in Seq(Event)
  <1>1. [kind |-> "session/end-seed", by |-> 0] \in Event
    BY DEF Event, Kinds
  <1>2. QED
    BY <1>1 DEF Seeded

LEMMA NoFileType == NoFile \in Source
  BY DEF NoFile, Source

LEMMA NoEntryType == NoEntry \in Preparation
  BY NoFileType DEF NoEntry, Preparation

LEMMA CutType ==
    ASSUME NEW S, NEW q \in Seq(S), NEW m \in Nat \ {0}, NEW n \in Int, n <= Len(q)
    PROVE  /\ SubSeq(q, m, n) \in Seq(S)
           /\ Len(SubSeq(q, m, n)) = IF m <= n THEN n - m + 1 ELSE 0
           /\ \A i \in 1 .. n - m + 1 : SubSeq(q, m, n)[i] = q[m + i - 1]
  <1>1. \A i \in m .. n : q[i] \in S
    BY ElementOfSeq
  <1>2. QED
    BY <1>1, SubSeqProperties

LEMMA AppendNotEmpty ==
    ASSUME NEW S, NEW q \in Seq(S), NEW e \in S PROVE Append(q, e) # <<>>
  BY AppendProperties

LEMMA ConcatNotEmpty ==
    ASSUME NEW S, NEW p \in Seq(S), NEW q \in Seq(S), p # <<>> \/ q # <<>> PROVE p \o q # <<>>
  <1>1. Len(p \o q) = Len(p) + Len(q) /\ Len(p) \in Nat /\ Len(q) \in Nat /\ p \o q \in Seq(S)
    BY ConcatProperties
  <1>2. Len(p) > 0 \/ Len(q) > 0
    BY <1>1, EmptySeq
  <1>3. QED
    BY <1>1, <1>2, EmptySeq

-----------------------------------------------------------------------------
(* The write controller.                                                   *)

LEMMA CancelWaitIs ==
    ASSUME NEW w \in Writer
    PROVE  LET v == CancelWait(w) IN
           /\ v \in Writer /\ v.pending = w.pending /\ v.batch = w.batch
           /\ v.background = w.background /\ ~v.timer /\ ~v.expired /\ v.paused = w.paused
           /\ v.barrier = w.barrier /\ v.next = w.next
  BY DEF CancelWait, Writer

LEMMA StartWriteIs ==
    ASSUME NEW w \in Writer, NEW background \in BOOLEAN
    PROVE  LET v == StartWrite(w, background) IN
           /\ v \in Writer /\ v.pending = <<>> /\ v.batch = w.pending
           /\ v.background = background /\ ~v.timer /\ ~v.expired /\ v.paused = w.paused
           /\ v.barrier = w.barrier /\ v.next = w.next
  <1> DEFINE u == CancelWait(w)
  <1>1. u \in Writer /\ u.pending = w.pending /\ ~u.timer /\ ~u.expired /\ u.paused = w.paused
        /\ u.barrier = w.barrier /\ u.next = w.next
    BY CancelWaitIs
  <1>2. StartWrite(w, background) = [u EXCEPT !.batch = w.pending, !.pending = <<>>, !.background = background]
    BY DEF StartWrite
  <1>3. w.pending \in Seq(Nat) /\ <<>> \in Seq(Nat)
    BY DEF Writer
  <1> HIDE DEF u
  <1>4. QED
    BY <1>1, <1>2, <1>3 DEF Writer

LEMMA EnqueueIs ==
    ASSUME NEW w \in Writer, NEW seq \in Nat
    PROVE  LET v == Enqueue(w, seq)
               arm == w.barrier = "none" /\ (w.paused \/ w.pending = <<>>)
           IN  /\ v \in Writer /\ v.pending = Append(w.pending, seq) /\ v.batch = w.batch
               /\ v.background = w.background /\ v.barrier = w.barrier /\ v.next = w.next
               /\ v.timer <=> (w.timer \/ arm)
               /\ v.expired <=> (w.expired /\ ~(w.barrier = "none" /\ w.paused))
               /\ v.paused <=> (w.paused /\ w.barrier # "none")
  <1>1. Append(w.pending, seq) \in Seq(Nat)
    BY DEF Writer
  <1> DEFINE arm == w.barrier = "none" /\ (w.paused \/ w.pending = <<>>)
             timer == w.timer \/ arm
             expired == w.expired /\ ~(w.barrier = "none" /\ w.paused)
             paused == w.paused /\ w.barrier # "none"
  <1>2. timer \in BOOLEAN /\ expired \in BOOLEAN /\ paused \in BOOLEAN
    BY DEF Writer
  <1>3. Enqueue(w, seq) = [w EXCEPT !.pending = Append(w.pending, seq), !.timer = timer,
                                    !.expired = expired, !.paused = paused]
    BY Zenon DEF Enqueue
  <1> HIDE DEF timer, expired, paused
  <1>4. LET v == Enqueue(w, seq) IN
           /\ v \in Writer /\ v.pending = Append(w.pending, seq) /\ v.batch = w.batch
           /\ v.background = w.background /\ v.barrier = w.barrier /\ v.next = w.next
           /\ v.timer = timer /\ v.expired = expired /\ v.paused = paused
    BY <1>1, <1>2, <1>3 DEF Writer
  <1>5. QED
    BY <1>4 DEF timer, expired, paused

LEMMA DrainIs ==
    ASSUME NEW w \in Writer
    PROVE  LET v == Drain(w) IN
           /\ v \in Writer /\ v.paused = w.paused /\ v.next = w.next
           /\ w.pending # <<>> =>
                 /\ v.pending = <<>> /\ v.batch = w.pending /\ ~v.background
                 /\ ~v.timer /\ ~v.expired /\ v.barrier = w.barrier
           /\ w.pending = <<>> =>
                 /\ v.pending = <<>> /\ v.batch = w.batch /\ v.background = w.background
                 /\ v.timer = w.timer /\ v.expired = w.expired /\ v.barrier = "none"
  <1>1. CASE w.pending # <<>>
    BY <1>1, StartWriteIs DEF Drain
  <1>2. CASE w.pending = <<>>
    BY <1>2 DEF Drain, Writer
  <1>3. QED
    BY <1>1, <1>2

LEMMA SettleIs ==
    ASSUME NEW w \in Writer, NEW ok \in BOOLEAN
    PROVE  LET v == Settle(w, ok) IN
           /\ v \in Writer /\ v.batch = <<>> /\ v.background = w.background /\ v.barrier = w.barrier
           /\ v.pending = IF ok THEN w.pending ELSE w.batch \o w.pending
           /\ v.timer = (w.timer /\ ok) /\ v.expired = (w.expired /\ ok) /\ v.paused = (w.paused \/ ~ok)
           /\ v.next = CASE w.barrier = "overlap" -> "overlap"
                         [] w.barrier # "overlap" /\ w.background -> IF ok THEN "auto" ELSE "none"
                         [] w.barrier # "overlap" /\ ~w.background -> IF ok THEN "drain" ELSE "reject"
  <1> DEFINE pending == IF ok THEN w.pending ELSE w.batch \o w.pending
             timer == w.timer /\ ok
             expired == w.expired /\ ok
             paused == w.paused \/ ~ok
             next == CASE w.barrier = "overlap" -> "overlap"
                       [] w.barrier # "overlap" /\ w.background -> IF ok THEN "auto" ELSE "none"
                       [] w.barrier # "overlap" /\ ~w.background -> IF ok THEN "drain" ELSE "reject"
  <1>1. pending \in Seq(Nat) /\ <<>> \in Seq(Nat)
    BY DEF Writer
  <1>2. timer \in BOOLEAN /\ expired \in BOOLEAN /\ paused \in BOOLEAN
    BY DEF Writer
  <1>3. next \in {"none", "auto", "overlap", "drain", "reject"}
    BY DEF Writer
  <1>4. Settle(w, ok) = [w EXCEPT !.batch = <<>>, !.pending = pending, !.timer = timer,
                                  !.expired = expired, !.paused = paused, !.next = next]
    BY Zenon DEF Settle
  <1> HIDE DEF pending, timer, expired, paused, next
  <1>5. LET v == Settle(w, ok) IN
           /\ v \in Writer /\ v.batch = <<>> /\ v.background = w.background /\ v.barrier = w.barrier
           /\ v.pending = pending /\ v.timer = timer /\ v.expired = expired /\ v.paused = paused
           /\ v.next = next
    BY <1>1, <1>2, <1>3, <1>4 DEF Writer
  <1>6. QED
    BY <1>5 DEF pending, timer, expired, paused, next

\* What the fields of a controller mean: a deadline is armed only over queued
\* events and outside a flush, a flush that awaits a write has one, and a
\* continuation belongs to the barrier it will move.
WriterGood(w) ==
    /\ w.timer => w.pending # <<>> /\ w.barrier = "none"
    /\ w.barrier = "none" => w.next \in {"none", "auto"} /\ (Active(w) => w.background /\ w.next = "none")
    /\ w.barrier = "overlap" =>
          IF Active(w) THEN w.background /\ w.next = "none" ELSE w.next = "overlap"
    /\ w.barrier = "drain" =>
          IF Active(w) THEN ~w.background /\ w.next \in {"none", "auto"}
          ELSE w.next \in {"drain", "reject"}
    /\ w.next = "reject" => w.paused /\ w.pending # <<>>

\* Outside a flush queued events have a deadline ahead, unless writing failed.
Stands(w) ==
    w.pending # <<>> /\ w.barrier = "none" =>
        w.timer \/ w.paused \/ (w.expired /\ (Active(w) \/ w.next = "auto"))

\* The events queued and in flight, and their order, stay the same.
Kept(w, v) ==
    \/ v.batch = w.batch /\ v.pending = w.pending
    \/ w.batch = <<>> /\ v.batch = w.pending /\ v.pending = <<>>

LEMMA NewWriterGood == NewWriter \in Writer /\ WriterGood(NewWriter) /\ Stands(NewWriter)
  BY DEF NewWriter, Writer, WriterGood, Stands, Active

LEMMA CancelWaitGood ==
    ASSUME NEW w \in Writer, WriterGood(w)
    PROVE  LET v == CancelWait(w) IN
           /\ v \in Writer /\ WriterGood(v) /\ Kept(w, v) /\ v.barrier = w.barrier
           /\ (Active(v) <=> Active(w)) /\ (HasWork(v) <=> HasWork(w))
  BY CancelWaitIs DEF WriterGood, Active, HasWork, Kept

LEMMA EnqueueGood ==
    ASSUME NEW w \in Writer, NEW seq \in Nat, WriterGood(w)
    PROVE  LET v == Enqueue(w, seq) IN
           /\ v \in Writer /\ WriterGood(v) /\ (Stands(w) => Stands(v)) /\ (Active(v) <=> Active(w))
           /\ v.barrier = w.barrier
  <1> DEFINE v == Enqueue(w, seq)
  <1>1. w.pending \in Seq(Nat)
    BY DEF Writer
  <1>2. Append(w.pending, seq) # <<>>
    BY <1>1, AppendNotEmpty
  <1>3. /\ v \in Writer /\ v.pending # <<>> /\ v.batch = w.batch
        /\ v.background = w.background /\ v.barrier = w.barrier /\ v.next = w.next
        /\ v.timer <=> (w.timer \/ (w.barrier = "none" /\ (w.paused \/ w.pending = <<>>)))
        /\ v.expired <=> (w.expired /\ ~(w.barrier = "none" /\ w.paused))
        /\ v.paused <=> (w.paused /\ w.barrier # "none")
    BY <1>2, EnqueueIs, Zenon
  <1> HIDE DEF v
  <1>4. WriterGood(v)
    BY <1>3 DEF WriterGood, Active, Writer
  <1>5. Stands(w) => Stands(v)
    BY <1>3 DEF Stands, Active, Writer
  <1>6. QED
    BY <1>3, <1>4, <1>5 DEF v, Active

LEMMA OnDeadlineGood ==
    ASSUME NEW w \in Writer, WriterGood(w), w.timer, w.next = "none"
    PROVE  LET v == OnDeadline(w) IN
           /\ v \in Writer /\ WriterGood(v) /\ Stands(v) /\ Active(v) /\ Kept(w, v)
           /\ v.barrier = w.barrier
  <1>1. CASE Active(w)
    <2>1. OnDeadline(w) = [w EXCEPT !.timer = FALSE, !.expired = TRUE]
      BY <1>1 DEF OnDeadline
    <2>2. LET v == OnDeadline(w) IN
          /\ v \in Writer /\ v.pending = w.pending /\ v.batch = w.batch /\ v.background = w.background
          /\ ~v.timer /\ v.expired /\ v.paused = w.paused /\ v.barrier = w.barrier /\ v.next = w.next
      BY <2>1 DEF Writer
    <2>3. QED
      BY <1>1, <2>2 DEF WriterGood, Stands, Active, Kept
  <1>2. CASE ~Active(w)
    <2> DEFINE v == OnDeadline(w)
    <2>1. /\ v \in Writer /\ v.pending = <<>> /\ v.batch = w.pending /\ v.background
          /\ ~v.timer /\ v.barrier = w.barrier /\ v.next = w.next /\ v.paused = w.paused
      BY <1>2, StartWriteIs DEF OnDeadline
    <2> HIDE DEF v
    <2>2. WriterGood(v) /\ Stands(v) /\ Active(v) /\ Kept(w, v)
      BY <1>2, <2>1 DEF WriterGood, Stands, Active, Kept
    <2>3. QED
      BY <2>1, <2>2 DEF v
  <1>3. QED
    BY <1>1, <1>2

LEMMA FlushGood ==
    ASSUME NEW w \in Writer, WriterGood(w)
    PROVE  LET v == Flush(w) IN
           /\ v \in Writer /\ WriterGood(v) /\ Stands(v) /\ Kept(w, v)
           /\ Active(w) => Active(v)
           /\ ~HasWork(w) => ~HasWork(v)
           /\ v.barrier = "none" => ~HasWork(v) /\ ~HasWork(w)
  <1> DEFINE u == [CancelWait(w) EXCEPT !.paused = FALSE]
  <1>1. /\ u \in Writer /\ u.pending = w.pending /\ u.batch = w.batch /\ u.background = w.background
        /\ ~u.timer /\ ~u.expired /\ ~u.paused /\ u.barrier = w.barrier /\ u.next = w.next
    BY CancelWaitIs DEF Writer
  <1> DEFINE b == [u EXCEPT !.barrier = "drain"]
  <1> HIDE DEF u
  <1>2. CASE w.barrier # "none"
    BY <1>2 DEF Flush, Stands, Kept
  <1>3. CASE w.barrier = "none" /\ Active(w)
    <2>1. Flush(w) = [u EXCEPT !.barrier = "overlap"]
      BY <1>3 DEF Flush, u
    <2>2. LET v == Flush(w) IN
          /\ v \in Writer /\ v.pending = w.pending /\ v.batch = w.batch /\ v.background = w.background
          /\ ~v.timer /\ ~v.paused /\ v.barrier = "overlap" /\ v.next = w.next
      BY <1>1, <2>1 DEF Writer
    <2>3. QED
      BY <1>3, <2>2 DEF WriterGood, Stands, Active, HasWork, Kept
  <1>4. CASE w.barrier = "none" /\ ~Active(w)
    <2>1. Flush(w) = Drain(b)
      BY <1>4 DEF Flush, u
    <2>2. /\ b \in Writer /\ b.pending = w.pending /\ b.batch = w.batch /\ b.background = w.background
          /\ ~b.timer /\ ~b.paused /\ b.barrier = "drain" /\ b.next = w.next
      BY <1>1 DEF Writer
    <2> HIDE DEF b
    <2>3. QED
      BY <1>4, <2>1, <2>2, DrainIs DEF WriterGood, Stands, Active, HasWork, Kept
  <1>5. QED
    BY <1>2, <1>3, <1>4 DEF Writer

LEMMA SettleGood ==
    ASSUME NEW w \in Writer, NEW ok \in BOOLEAN, WriterGood(w), Active(w)
    PROVE  LET v == Settle(w, ok) IN
           /\ v \in Writer /\ WriterGood(v) /\ (Stands(w) => Stands(v)) /\ ~Active(v)
           /\ v.barrier = w.barrier /\ (~ok => v.pending # <<>>)
  <1> DEFINE v == Settle(w, ok)
  <1>0. ~ok => v.pending # <<>>
    <2>1. w.batch \in Seq(Nat) /\ w.pending \in Seq(Nat) /\ w.batch # <<>>
      BY DEF Active, Writer
    <2>2. w.batch \o w.pending # <<>>
      BY <2>1, ConcatNotEmpty
    <2>3. v.pending = IF ok THEN w.pending ELSE w.batch \o w.pending
      BY SettleIs
    <2> HIDE DEF v
    <2>4. QED
      BY <2>2, <2>3
  <1>1. v \in Writer /\ ~Active(v)
    BY SettleIs DEF Active
  <1>2. /\ v.background = w.background /\ v.barrier = w.barrier
        /\ v.timer = (w.timer /\ ok) /\ v.expired = (w.expired /\ ok) /\ v.paused = (w.paused \/ ~ok)
        /\ ok => v.pending = w.pending
    BY SettleIs
  <1>3. /\ w.barrier = "overlap" => v.next = "overlap"
        /\ w.barrier # "overlap" /\ w.background => v.next = IF ok THEN "auto" ELSE "none"
        /\ w.barrier # "overlap" /\ ~w.background => v.next = IF ok THEN "drain" ELSE "reject"
    BY SettleIs
  <1>4. w.background \in BOOLEAN /\ w.barrier \in {"none", "overlap", "drain"}
        /\ w.paused \in BOOLEAN /\ w.timer \in BOOLEAN /\ w.expired \in BOOLEAN
    BY DEF Writer
  <1> HIDE DEF v
  <1>5. CASE ok
    <2>1. /\ v.timer = w.timer /\ v.expired = w.expired /\ v.paused = w.paused /\ v.pending = w.pending
      BY <1>2, <1>4, <1>5
    <2>2. WriterGood(v)
      BY <1>1, <1>2, <1>3, <1>4, <1>5, <2>1 DEF WriterGood
    <2>3. Stands(w) => Stands(v)
      BY <1>1, <1>2, <1>3, <1>4, <1>5, <2>1 DEF WriterGood, Stands
    <2>4. QED
      BY <1>1, <1>2, <1>5, <2>2, <2>3 DEF v
  <1>6. CASE ~ok
    <2>1. ~v.timer /\ v.paused
      BY <1>2, <1>6
    <2>2. WriterGood(v)
      BY <1>0, <1>1, <1>2, <1>3, <1>4, <1>6, <2>1 DEF WriterGood
    <2>3. Stands(v)
      BY <2>1 DEF Stands
    <2>4. QED
      BY <1>0, <1>1, <1>2, <2>2, <2>3 DEF v
  <1>7. QED
    BY <1>5, <1>6

LEMMA ContinueGood ==
    ASSUME NEW w \in Writer, WriterGood(w), w.next # "none"
    PROVE  LET v == Continue(w) IN
           /\ v \in Writer /\ WriterGood(v) /\ (Stands(w) => Stands(v)) /\ Kept(w, v)
           /\ w.barrier = "none" => v.barrier = "none"
           /\ Active(w) => Active(v)
           /\ ~HasWork(w) => ~HasWork(v)
           /\ w.barrier # "none" /\ v.barrier = "none" /\ w.next # "reject" => ~HasWork(v)
  <1> DEFINE u == [w EXCEPT !.next = "none"]
  <1>1. /\ u \in Writer /\ u.pending = w.pending /\ u.batch = w.batch /\ u.background = w.background
        /\ u.timer = w.timer /\ u.expired = w.expired /\ u.paused = w.paused
        /\ u.barrier = w.barrier /\ u.next = "none"
    BY DEF Writer
  <1> DEFINE o == [u EXCEPT !.barrier = "drain", !.paused = FALSE]
             r == [u EXCEPT !.barrier = "none"]
  <1>2. /\ o \in Writer /\ o.pending = w.pending /\ o.batch = w.batch /\ o.background = w.background
        /\ o.timer = w.timer /\ o.expired = w.expired /\ ~o.paused
        /\ o.barrier = "drain" /\ o.next = "none"
    BY <1>1 DEF Writer
  <1>3. /\ r \in Writer /\ r.pending = w.pending /\ r.batch = w.batch /\ r.background = w.background
        /\ r.timer = w.timer /\ r.expired = w.expired /\ r.paused = w.paused
        /\ r.barrier = "none" /\ r.next = "none"
    BY <1>1 DEF Writer
  <1> HIDE DEF u
  <1>4. CASE w.next = "auto"
    <2> DEFINE v == Continue(w)
    <2>1. v = IF u.barrier = "none" /\ u.pending # <<>> /\ u.expired THEN StartWrite(u, TRUE) ELSE u
      BY <1>4 DEF Continue, ContinueAutomatic, u
    <2>2. CASE u.barrier = "none" /\ u.pending # <<>> /\ u.expired
      <3>1. /\ v \in Writer /\ v.pending = <<>> /\ v.batch = w.pending /\ v.background
            /\ ~v.timer /\ v.barrier = w.barrier /\ v.next = "none" /\ v.paused = w.paused
        <4>1. v = StartWrite(u, TRUE)
          BY <2>1, <2>2
        <4>2. QED
          BY <1>1, <4>1, StartWriteIs
      <3> HIDE DEF v
      <3>2. WriterGood(v) /\ Stands(v) /\ Active(v) /\ HasWork(w) /\ Kept(w, v)
        BY <1>1, <1>4, <2>2, <3>1 DEF WriterGood, Stands, Active, HasWork, Kept
      <3>3. QED
        BY <1>1, <2>2, <3>1, <3>2 DEF v
    <2>3. CASE ~(u.barrier = "none" /\ u.pending # <<>> /\ u.expired)
      <3>1. v = u
        BY <2>1, <2>3
      <3> HIDE DEF v
      <3>2. WriterGood(v) /\ (Stands(w) => Stands(v))
        BY <1>1, <1>4, <2>3, <3>1 DEF WriterGood, Stands, Active
      <3>3. (HasWork(v) <=> HasWork(w)) /\ (Active(v) <=> Active(w)) /\ v.barrier = w.barrier /\ v \in Writer
            /\ Kept(w, v)
        BY <1>1, <3>1 DEF Active, HasWork, Kept
      <3>4. QED
        BY <3>2, <3>3 DEF v
    <2>4. QED
      BY <2>2, <2>3
  <1>5. ASSUME NEW q \in Writer, q.pending = w.pending, q.batch = w.batch, q.next = "none",
               q.barrier = "drain", ~q.timer, ~Active(w)
        PROVE  LET v == Drain(q) IN
               /\ v \in Writer /\ WriterGood(v) /\ Stands(v) /\ (~HasWork(w) => ~HasWork(v))
               /\ v.barrier = "none" => ~HasWork(v)
               /\ Kept(w, v)
    <2> DEFINE v == Drain(q)
    <2>1. CASE w.pending # <<>>
      <3>1. /\ v \in Writer /\ v.pending = <<>> /\ v.batch = w.pending /\ ~v.background
            /\ ~v.timer /\ v.barrier = "drain" /\ v.next = "none"
        BY <1>5, <2>1, DrainIs
      <3> HIDE DEF v
      <3>2. WriterGood(v) /\ Stands(v) /\ HasWork(w) /\ Kept(w, v)
        BY <1>5, <2>1, <3>1 DEF WriterGood, Stands, Active, HasWork, Kept
      <3>3. QED
        BY <3>1, <3>2 DEF v
    <2>2. CASE w.pending = <<>>
      <3>1. /\ v \in Writer /\ v.pending = <<>> /\ v.batch = <<>>
            /\ ~v.timer /\ v.barrier = "none" /\ v.next = "none"
        BY <1>5, <2>2, DrainIs DEF Active
      <3> HIDE DEF v
      <3>2. WriterGood(v) /\ Stands(v) /\ ~HasWork(v) /\ Kept(w, v)
        BY <1>5, <2>2, <3>1 DEF WriterGood, Stands, Active, HasWork, Kept
      <3>3. QED
        BY <3>1, <3>2 DEF v
    <2>3. QED
      BY <2>1, <2>2
  <1>6. CASE w.next = "overlap"
    <2>1. Continue(w) = Drain(o)
      BY <1>6 DEF Continue, u
    <2>2. ~Active(w) /\ ~w.timer /\ w.barrier # "none"
      BY <1>6 DEF WriterGood, Writer
    <2> HIDE DEF o
    <2>3. QED
      BY <1>2, <1>5, <2>1, <2>2
  <1>7. CASE w.next = "drain"
    <2>1. Continue(w) = Drain(u)
      BY <1>7 DEF Continue, u
    <2>2. ~Active(w) /\ ~w.timer /\ w.barrier = "drain"
      BY <1>7 DEF WriterGood, Writer
    <2>3. QED
      BY <1>1, <1>5, <2>1, <2>2
  <1>8. CASE w.next = "reject"
    <2> DEFINE v == Continue(w)
    <2>1. v = r
      BY <1>8 DEF Continue, u
    <2>2. ~Active(w) /\ ~w.timer /\ w.paused
      BY <1>8 DEF WriterGood, Writer
    <2> HIDE DEF r, v
    <2>3. WriterGood(v) /\ Stands(v) /\ (HasWork(v) <=> HasWork(w)) /\ Kept(w, v)
      BY <1>3, <2>1, <2>2 DEF WriterGood, Stands, Active, HasWork, Kept
    <2>4. QED
      BY <1>3, <1>8, <2>1, <2>2, <2>3 DEF v
  <1>9. QED
    BY <1>4, <1>6, <1>7, <1>8 DEF Writer

\* The events in flight, b, and queued, p, are the last of the first n, in order.
Numbered(b, p, n) ==
    /\ Len(b) + Len(p) <= n
    /\ \A i \in DOMAIN b : b[i] = n - Len(b) - Len(p) + i
    /\ \A i \in DOMAIN p : p[i] = n - Len(p) + i

LEMMA NumberedMoves ==
    ASSUME NEW b \in Seq(Nat), NEW p \in Seq(Nat), NEW n \in Nat, Numbered(b, p, n)
    PROVE  /\ Numbered(<<>>, p, n)
           /\ b = <<>> => Numbered(p, <<>>, n)
           /\ Numbered(b, Append(p, n + 1), n + 1)
           /\ Numbered(<<>>, b \o p, n)
  <1>1. /\ Len(p) \in Nat /\ Len(b) \in Nat /\ DOMAIN p = 1 .. Len(p) /\ DOMAIN b = 1 .. Len(b)
        /\ Len(<<>>) = 0 /\ DOMAIN <<>> = {}
    OBVIOUS
  <1>2. Numbered(<<>>, p, n)
    BY <1>1 DEF Numbered
  <1>3. b = <<>> => Numbered(p, <<>>, n)
    BY <1>1 DEF Numbered
  <1>4. Numbered(b, Append(p, n + 1), n + 1)
    <2> DEFINE q == Append(p, n + 1)
    <2>1. /\ Len(q) = Len(p) + 1 /\ DOMAIN q = 1 .. Len(p) + 1
          /\ \A i \in 1 .. Len(p) : q[i] = p[i]
          /\ q[Len(p) + 1] = n + 1
      BY AppendProperties, LenProperties
    <2> HIDE DEF q
    <2>2. ASSUME NEW i \in DOMAIN q PROVE q[i] = n + 1 - Len(q) + i
      <3>1. CASE i \in DOMAIN p
        <4>1. q[i] = p[i] /\ p[i] = n - Len(p) + i
          BY <1>1, <2>1, <3>1 DEF Numbered
        <4>2. QED
          BY <1>1, <2>1, <3>1, <4>1
      <3>2. CASE i \notin DOMAIN p
        <4>1. i = Len(p) + 1
          BY <1>1, <2>1, <3>2
        <4>2. QED
          BY <1>1, <2>1, <4>1
      <3>3. QED
        BY <3>1, <3>2
    <2>3. \A i \in DOMAIN b : b[i] = n + 1 - Len(b) - Len(q) + i
      BY <1>1, <2>1 DEF Numbered
    <2>4. Len(b) + Len(q) <= n + 1
      BY <1>1, <2>1 DEF Numbered
    <2>5. QED
      BY <2>2, <2>3, <2>4 DEF Numbered, q
  <1>5. Numbered(<<>>, b \o p, n)
    <2> DEFINE q == b \o p
    <2>1. /\ Len(q) = Len(b) + Len(p) /\ DOMAIN q = 1 .. Len(b) + Len(p)
          /\ \A i \in 1 .. Len(b) + Len(p) : q[i] = IF i <= Len(b) THEN b[i] ELSE p[i - Len(b)]
      BY ConcatProperties, LenProperties
    <2> HIDE DEF q
    <2>2. ASSUME NEW i \in DOMAIN q PROVE q[i] = n - Len(q) + i
      <3>1. CASE i <= Len(b)
        BY <1>1, <2>1, <3>1 DEF Numbered
      <3>2. CASE ~(i <= Len(b))
        <4>1. i - Len(b) \in DOMAIN p
          BY <1>1, <2>1, <3>2
        <4>2. p[i - Len(b)] = n - Len(p) + (i - Len(b))
          BY <4>1 DEF Numbered
        <4>3. QED
          BY <1>1, <2>1, <3>2, <4>2
      <3>3. QED
        BY <3>1, <3>2
    <2>3. Len(<<>>) + Len(q) <= n
      BY <1>1, <2>1 DEF Numbered
    <2>4. QED
      BY <1>1, <2>2, <2>3 DEF Numbered, q
  <1>6. QED
    BY <1>2, <1>3, <1>4, <1>5

LEMMA KeptNumbered ==
    ASSUME NEW w \in Writer, NEW v \in Writer, NEW n \in Nat,
           Numbered(w.batch, w.pending, n), Kept(w, v)
    PROVE  Numbered(v.batch, v.pending, n)
  <1>1. w.batch \in Seq(Nat) /\ w.pending \in Seq(Nat)
    BY DEF Writer
  <1>2. w.batch = <<>> => Numbered(w.pending, <<>>, n)
    BY <1>1, NumberedMoves
  <1>3. QED
    BY <1>2 DEF Kept

LEMMA SettleNumbered ==
    ASSUME NEW w \in Writer, NEW n \in Nat, Numbered(w.batch, w.pending, n), NEW ok \in BOOLEAN
    PROVE  Numbered(Settle(w, ok).batch, Settle(w, ok).pending, n)
  <1>1. w.batch \in Seq(Nat) /\ w.pending \in Seq(Nat)
    BY DEF Writer
  <1>2. Numbered(<<>>, w.pending, n) /\ Numbered(<<>>, w.batch \o w.pending, n)
    BY <1>1, NumberedMoves
  <1>3. QED
    BY <1>2, SettleIs

-----------------------------------------------------------------------------
(* One lifecycle.                                                          *)

\* What a slot holds: nothing, a lifecycle that persistence refused, or one
\* whose queue numbers the last events handed over. Only one that has ended
\* waits to retire, once. Queued events wait for a deadline or for the flush
\* that cancelled it.
SlotGood(r) ==
    /\ r.life = "none" => r = Unused
    /\ r.life = "vetoed" => r = [Unused EXCEPT !.life = "vetoed"]
    /\ "retire" \in r.atInit \cup r.atBarrier => r.life = "ended"
    /\ "retire" \in r.atInit => "retire" \notin r.atBarrier
    /\ r.handed <= Len(r.events) /\ Numbered(r.w.batch, r.w.pending, r.handed)
    /\ WriterGood(r.w) /\ (r.w.barrier # "none" => r.init = "ok")
    /\ Stands(r.w) \/ r.atInit # {} \/ r.init = "failed"

SlotKinds == {"write", "seed", "created", "retire"}

\* An operation of a lifecycle finds it as it was when it was queued.
Serves(op, r) ==
    /\ r.life \in {"live", "ended"}
    /\ op.kind \in {"seed", "created"} => r.init = "pending"
    /\ op.kind = "write" => r.init = "ok" /\ Active(r.w)
    /\ op.kind = "retire" =>
          /\ r.life = "ended" /\ r.init = "ok"
          /\ ~HasWork(r.w) /\ "retire" \notin r.atInit \cup r.atBarrier
    /\ op.kind = "created" => Len(op.batch) <= Len(r.events)
    /\ op.kind = "seed" => op.from > 0 /\ op.from + Len(op.batch) <= Len(r.events) + 1

LEMMA UnusedGood ==
    /\ Unused \in Lifecycle /\ SlotGood(Unused)
    /\ [Unused EXCEPT !.life = "vetoed"] \in Lifecycle
    /\ SlotGood([Unused EXCEPT !.life = "vetoed"])
    /\ \A op : op.kind \in SlotKinds =>
          ~Serves(op, Unused) /\ ~Serves(op, [Unused EXCEPT !.life = "vetoed"])
  <1> DEFINE v == [Unused EXCEPT !.life = "vetoed"]
  <1>1. Unused \in Lifecycle /\ v \in Lifecycle
    <2>1. <<>> \in Seq(Event) /\ {} \in SUBSET Callers /\ NewWriter \in Writer
      BY NewWriterGood
    <2>2. QED
      BY <2>1 DEF Unused, Lifecycle
  <1>2. /\ Unused.life = "none" /\ v.life = "vetoed" /\ Unused.w = NewWriter /\ v.w = NewWriter
        /\ Unused.handed = 0 /\ v.handed = 0 /\ Unused.events = <<>> /\ v.events = <<>>
        /\ Unused.atInit = {} /\ v.atInit = {} /\ Unused.atBarrier = {} /\ v.atBarrier = {}
    BY DEF Unused
  <1>3. Numbered(NewWriter.batch, NewWriter.pending, 0) /\ Len(<<>>) = 0
    BY DEF Numbered, NewWriter
  <1> HIDE DEF v
  <1>4. SlotGood(Unused) /\ SlotGood(v)
    BY <1>2, <1>3, NewWriterGood DEF SlotGood, NewWriter, v
  <1>5. QED
    BY <1>1, <1>2, <1>4 DEF Serves, v

-----------------------------------------------------------------------------
(* The chain.                                                              *)

LEMMA OperationIs ==
    ASSUME NEW op \in Operation
    PROVE  /\ op.kind \in {"load", "commit", "check", "void", "write", "seed", "created", "retire"}
           /\ op.kind = "load" => op.mine \in BOOLEAN
           /\ op.kind = "commit" =>
                 op.who \in Clients /\ op.src \in Source /\ op.stage \in {"queued", "truncate", "repair"}
           /\ op.kind = "check" => op.who \in Clients
           /\ op.kind \in {"write", "seed"} =>
                 op.stage \in {"queued", "io"} /\ op.from \in Nat
           /\ op.kind \in {"write", "seed", "created"} => op.batch \in Seq(Event)
           /\ op.kind \in SlotKinds => op.who \in Slots
  BY DEF Operation, SlotKinds

LEMMA OperationMakes ==
    /\ LoadOp \in Operation /\ VoidOp \in Operation
    /\ \A c \in Clients : CheckOp(c) \in Operation
    /\ \A c \in Clients, src \in Source : CommitOp(c, src) \in Operation
    /\ \A s \in Slots : WriteOp(s) \in Operation /\ RetireOp(s) \in Operation
    /\ \A s \in Slots, batch \in Seq(Event) : CreatedOp(s, batch) \in Operation
    /\ \A s \in Slots, from \in Nat, batch \in Seq(Event) : SeedOp(s, from, batch) \in Operation
  <1>1. LoadOp \in Operation /\ VoidOp \in Operation
    BY DEF LoadOp, VoidOp, Operation
  <1>2. \A c \in Clients : CheckOp(c) \in Operation
    BY DEF CheckOp, Operation
  <1>3. \A c \in Clients, src \in Source : CommitOp(c, src) \in Operation
    BY DEF CommitOp, Operation
  <1>4. \A s \in Slots : WriteOp(s) \in Operation
    BY DEF WriteOp, Operation
  <1>5. \A s \in Slots : RetireOp(s) \in Operation
    BY DEF RetireOp, Operation
  <1>6. \A s \in Slots, batch \in Seq(Event) : CreatedOp(s, batch) \in Operation
    BY DEF CreatedOp, Operation
  <1>7. \A s \in Slots, from \in Nat, batch \in Seq(Event) : SeedOp(s, from, batch) \in Operation
    BY DEF SeedOp, Operation
  <1>8. QED
    BY <1>1, <1>2, <1>3, <1>4, <1>5, <1>6, <1>7

\* The operations of q of the given kinds are those of p, k places earlier.
From(kinds, q, p, k) ==
    \A i \in DOMAIN q : q[i].kind \in kinds => i + k \in DOMAIN p /\ q[i] = p[i + k]

Unique(q) ==
    \A i, j \in DOMAIN q :
        q[i].kind \in SlotKinds /\ q[j].kind \in SlotKinds /\ q[i].who = q[j].who => i = j

AllServe(q, ses) == \A i \in DOMAIN q : q[i].kind \in SlotKinds => Serves(q[i], ses[q[i].who])

LEMMA FromKeeps ==
    ASSUME NEW p \in Seq(Operation), NEW q \in Seq(Operation), NEW k \in Nat, NEW ses,
           From(SlotKinds, q, p, k)
    PROVE  /\ Unique(p) => Unique(q)
           /\ AllServe(p, ses) => AllServe(q, ses)
  <1>1. DOMAIN q = 1 .. Len(q) /\ DOMAIN p = 1 .. Len(p) /\ Len(q) \in Nat /\ Len(p) \in Nat
    OBVIOUS
  <1>2. ASSUME Unique(p), NEW i \in DOMAIN q, NEW j \in DOMAIN q,
               q[i].kind \in SlotKinds, q[j].kind \in SlotKinds, q[i].who = q[j].who
        PROVE  i = j
    <2>1. i + k \in DOMAIN p /\ j + k \in DOMAIN p /\ q[i] = p[i + k] /\ q[j] = p[j + k]
      BY <1>2 DEF From
    <2>2. i + k = j + k
      BY <1>2, <2>1 DEF Unique
    <2>3. QED
      BY <1>1, <2>2
  <1>3. QED
    BY <1>2 DEF From, Unique, AllServe

LEMMA TailIs ==
    ASSUME NEW q \in Seq(Operation), q # <<>>, NEW kinds
    PROVE  /\ Tail(q) \in Seq(Operation) /\ q[1] \in Operation /\ 1 \in DOMAIN q
           /\ From(kinds, Tail(q), q, 1)
           /\ \A i \in DOMAIN q : i # 1 => i - 1 \in DOMAIN Tail(q) /\ Tail(q)[i - 1] = q[i]
  <1>1. /\ Tail(q) \in Seq(Operation) /\ Len(Tail(q)) = Len(q) - 1
        /\ \A i \in 1 .. Len(Tail(q)) : Tail(q)[i] = q[i + 1]
    BY HeadTailProperties
  <1>2. Len(q) \in Nat \ {0} /\ DOMAIN q = 1 .. Len(q) /\ DOMAIN Tail(q) = 1 .. Len(q) - 1
    BY <1>1, EmptySeq
  <1>3. QED
    BY <1>1, <1>2, ElementOfSeq DEF From

LEMMA AppendIs ==
    ASSUME NEW q \in Seq(Operation), NEW op \in Operation
    PROVE  /\ Append(q, op) \in Seq(Operation) /\ Append(q, op) # <<>>
           /\ DOMAIN Append(q, op) = 1 .. Len(q) + 1 /\ DOMAIN q = 1 .. Len(q) /\ Len(q) \in Nat
           /\ \A i \in DOMAIN q : Append(q, op)[i] = q[i]
           /\ Append(q, op)[Len(q) + 1] = op
           /\ \A kinds : op.kind \notin kinds => From(kinds, Append(q, op), q, 0)
  <1> DEFINE r == Append(q, op)
  <1>1. /\ r \in Seq(Operation) /\ r # <<>> /\ Len(r) = Len(q) + 1
        /\ \A i \in 1 .. Len(q) : r[i] = q[i]
        /\ r[Len(q) + 1] = op
    BY AppendProperties
  <1>2. DOMAIN r = 1 .. Len(q) + 1 /\ DOMAIN q = 1 .. Len(q) /\ Len(q) \in Nat
    BY <1>1, LenProperties
  <1> HIDE DEF r
  <1>3. ASSUME NEW kinds, op.kind \notin kinds PROVE From(kinds, r, q, 0)
    <2>1. ASSUME NEW i \in DOMAIN r, r[i].kind \in kinds PROVE i + 0 \in DOMAIN q /\ r[i] = q[i + 0]
      <3>1. i # Len(q) + 1
        BY <1>1, <1>3, <2>1
      <3>2. i \in 1 .. Len(q) /\ i + 0 = i
        BY <1>2, <3>1
      <3>3. QED
        BY <1>1, <1>2, <3>2
    <2>2. QED
      BY <2>1 DEF From
  <1>4. QED
    BY <1>1, <1>2, <1>3 DEF r

LEMMA OrphanedIs ==
    ASSUME NEW q \in Seq(Operation)
    PROVE  /\ Orphaned(q) \in Seq(Operation) /\ DOMAIN Orphaned(q) = DOMAIN q
           /\ \A i \in DOMAIN q : Orphaned(q)[i].kind = q[i].kind
           /\ \A kinds : "load" \notin kinds => From(kinds, Orphaned(q), q, 0)
  <1> DEFINE r == Orphaned(q)
  <1>1. DOMAIN r = 1 .. Len(q) /\ DOMAIN q = 1 .. Len(q) /\ Len(q) \in Nat
    BY DEF Orphaned
  <1>2. ASSUME NEW i \in DOMAIN q
        PROVE  r[i] \in Operation /\ r[i].kind = q[i].kind /\ (q[i].kind # "load" => r[i] = q[i])
    <2>1. q[i] \in Operation
      BY ElementOfSeq, <1>1
    <2>2. CASE q[i].kind = "load"
      <3>1. q[i] \in [kind : {"load"}, mine : BOOLEAN]
        BY <2>1, <2>2 DEF Operation
      <3>2. r[i] = [q[i] EXCEPT !.mine = FALSE]
        BY <2>2 DEF Orphaned
      <3>3. r[i] \in [kind : {"load"}, mine : BOOLEAN]
        BY <3>1, <3>2
      <3>4. QED
        BY <2>2, <3>3 DEF Operation
    <2>3. CASE q[i].kind # "load"
      <3>1. r[i] = q[i]
        BY <2>3 DEF Orphaned
      <3>2. QED
        BY <2>1, <3>1
    <2>4. QED
      BY <2>2, <2>3
  <1>3. r \in Seq(Operation)
    <2>1. r \in [1 .. Len(q) -> Operation]
      BY <1>1, <1>2 DEF Orphaned
    <2>2. QED
      BY <1>1, <2>1, SeqDef
  <1> HIDE DEF r
  <1>4. ASSUME NEW kinds, "load" \notin kinds PROVE From(kinds, r, q, 0)
    <2>1. ASSUME NEW i \in DOMAIN r, r[i].kind \in kinds PROVE i + 0 \in DOMAIN q /\ r[i] = q[i + 0]
      <3>1. i \in DOMAIN q /\ i + 0 = i /\ q[i].kind # "load"
        BY <1>1, <1>2, <1>4, <2>1
      <3>2. QED
        BY <1>2, <3>1
    <2>2. QED
      BY <2>1 DEF From
  <1>5. QED
    BY <1>1, <1>2, <1>3, <1>4 DEF r

LEMMA HeadIs ==
    ASSUME NEW q \in Seq(Operation), q # <<>>, NEW op \in Operation
    PROVE  LET r == [q EXCEPT ![1] = op] IN
           /\ r \in Seq(Operation) /\ DOMAIN r = DOMAIN q /\ r[1] = op
           /\ \A i \in DOMAIN q : i # 1 => r[i] = q[i]
           /\ <<op>> \o Tail(q) = r
  <1> DEFINE r == [q EXCEPT ![1] = op]
             t == <<op>> \o Tail(q)
  <1>1. 1 \in 1 .. Len(q) /\ Len(q) \in Nat
    BY EmptySeq
  <1>2. /\ r \in Seq(Operation) /\ Len(r) = Len(q)
        /\ \A j \in 1 .. Len(q) : r[j] = IF j = 1 THEN op ELSE q[j]
    BY <1>1, ExceptSeq
  <1>3. /\ Tail(q) \in Seq(Operation) /\ Len(Tail(q)) = Len(q) - 1
        /\ \A i \in 1 .. Len(Tail(q)) : Tail(q)[i] = q[i + 1]
    BY HeadTailProperties
  <1>4. <<op>> \in Seq(Operation) /\ Len(<<op>>) = 1 /\ <<op>>[1] = op
    OBVIOUS
  <1>5. /\ t \in Seq(Operation) /\ Len(t) = Len(q)
        /\ \A i \in 1 .. Len(q) : t[i] = IF i <= 1 THEN <<op>>[i] ELSE Tail(q)[i - 1]
    BY <1>1, <1>3, <1>4, ConcatProperties
  <1> HIDE DEF r, t
  <1>6. ASSUME NEW i \in 1 .. Len(q) PROVE t[i] = r[i]
    <2>1. CASE i = 1
      BY <1>2, <1>4, <1>5, <2>1
    <2>2. CASE i # 1
      <3>1. t[i] = Tail(q)[i - 1] /\ i - 1 \in 1 .. Len(Tail(q)) /\ i - 1 + 1 = i
        BY <1>1, <1>3, <1>5, <2>2
      <3>2. QED
        BY <1>2, <1>3, <2>2, <3>1
    <2>3. QED
      BY <2>1, <2>2
  <1>7. t = r
    BY <1>2, <1>5, <1>6, SeqEqual
  <1>8. QED
    BY <1>1, <1>2, <1>7, LenProperties DEF r, t

\* A lifecycle's operation is queued only when it has none on the chain.
LEMMA AppendServes ==
    ASSUME NEW q \in Seq(Operation), NEW op \in Operation, NEW ses,
           Unique(q), AllServe(q, ses), Serves(op, ses[op.who]),
           \A i \in DOMAIN q : q[i].kind \in SlotKinds => q[i].who # op.who
    PROVE  Unique(Append(q, op)) /\ AllServe(Append(q, op), ses)
  <1> DEFINE r == Append(q, op)
  <1>1. /\ DOMAIN r = 1 .. Len(q) + 1 /\ DOMAIN q = 1 .. Len(q) /\ Len(q) \in Nat
        /\ \A i \in DOMAIN q : r[i] = q[i]
        /\ r[Len(q) + 1] = op
    BY AppendIs
  <1> HIDE DEF r
  <1>2. \A i \in DOMAIN r : i \in DOMAIN q \/ i = Len(q) + 1
    BY <1>1
  <1>3. AllServe(r, ses)
    BY <1>1, <1>2 DEF AllServe
  <1>4. ASSUME NEW i \in DOMAIN r, NEW j \in DOMAIN r,
               r[i].kind \in SlotKinds, r[j].kind \in SlotKinds, r[i].who = r[j].who
        PROVE  i = j
    <2>1. CASE i \in DOMAIN q /\ j \in DOMAIN q
      BY <1>1, <1>4, <2>1 DEF Unique
    <2>2. CASE i \in DOMAIN q /\ j = Len(q) + 1
      BY <1>1, <1>4, <2>2
    <2>3. CASE i = Len(q) + 1 /\ j \in DOMAIN q
      BY <1>1, <1>4, <2>3
    <2>4. QED
      BY <1>2, <1>4, <2>1, <2>2, <2>3
  <1>5. Unique(r)
    BY <1>4 DEF Unique
  <1>6. QED
    BY <1>3, <1>5 DEF r

\* The running operation is replaced by the next one of the same lifecycle.
LEMMA HeadServes ==
    ASSUME NEW q \in Seq(Operation), q # <<>>, NEW op \in Operation, NEW ses,
           Unique(q), AllServe(q, ses), Serves(op, ses[op.who]),
           q[1].kind \in SlotKinds, op.kind \in SlotKinds, op.who = q[1].who
    PROVE  Unique([q EXCEPT ![1] = op]) /\ AllServe([q EXCEPT ![1] = op], ses)
  <1> DEFINE r == [q EXCEPT ![1] = op]
  <1>1. DOMAIN r = DOMAIN q /\ r[1] = op /\ \A i \in DOMAIN q : i # 1 => r[i] = q[i]
    BY HeadIs
  <1> HIDE DEF r
  <1>2. AllServe(r, ses)
    BY <1>1 DEF AllServe
  <1>3. \A i \in DOMAIN r : r[i].kind \in SlotKinds => q[i].kind \in SlotKinds /\ q[i].who = r[i].who
    BY <1>1
  <1>4. Unique(r)
    BY <1>1, <1>3 DEF Unique
  <1>5. QED
    BY <1>2, <1>4 DEF r

\* Once the running operation of a lifecycle is gone, it has none.
LEMMA TailServes ==
    ASSUME NEW q \in Seq(Operation), q # <<>>, q[1].kind \in SlotKinds,
           NEW p \in Seq(Operation), From(SlotKinds, p, Tail(q), 0),
           NEW ses, NEW new, \A s \in Slots : s # q[1].who => new[s] = ses[s],
           Unique(q), AllServe(q, ses)
    PROVE  /\ Unique(p) /\ AllServe(p, new)
           /\ \A i \in DOMAIN p : p[i].kind \in SlotKinds => p[i].who # q[1].who
  <1>1. /\ Tail(q) \in Seq(Operation) /\ 1 \in DOMAIN q /\ From(SlotKinds, Tail(q), q, 1)
    BY TailIs
  <1>2. ASSUME NEW i \in DOMAIN p, p[i].kind \in SlotKinds
        PROVE  i \in Nat \ {0} /\ i + 1 \in DOMAIN q /\ p[i] = q[i + 1]
    <2>1. i \in Nat \ {0} /\ i + 0 = i
      OBVIOUS
    <2>2. i \in DOMAIN Tail(q) /\ p[i] = Tail(q)[i]
      BY <1>2, <2>1 DEF From
    <2>3. QED
      BY <1>1, <1>2, <2>1, <2>2 DEF From
  <1>3. \A i \in DOMAIN p : p[i].kind \in SlotKinds => p[i].who # q[1].who
    BY <1>1, <1>2 DEF Unique
  <1>4. ASSUME NEW i \in DOMAIN p, p[i].kind \in SlotKinds PROVE Serves(p[i], new[p[i].who])
    <2>1. p[i] \in Operation
      BY ElementOfSeq, LenProperties
    <2>2. p[i].who \in Slots
      BY <1>4, <2>1, OperationIs
    <2>3. QED
      BY <1>2, <1>3, <1>4, <2>2 DEF AllServe
  <1>5. ASSUME NEW i \in DOMAIN p, NEW j \in DOMAIN p,
               p[i].kind \in SlotKinds, p[j].kind \in SlotKinds, p[i].who = p[j].who
        PROVE  i = j
    <2>1. i \in Nat /\ j \in Nat /\ i + 1 = j + 1
      BY <1>2, <1>5 DEF Unique
    <2>2. QED
      BY <2>1
  <1>6. QED
    BY <1>3, <1>4, <1>5 DEF AllServe, Unique

-----------------------------------------------------------------------------
(* The first layer of the inductive invariant: types, the lifecycles, and  *)
(* the operations that serve them.                                         *)

SlotsGood == \A s \in Slots : SlotGood(session[s])

\* While it listens, the write path has been handed every event of a live session.
Heard == up => \A s \in Slots : session[s].life = "live" => session[s].handed = Len(session[s].events)

Lives ==
    /\ Typed /\ OwnerHere /\ RetiringEnded /\ SlotsGood /\ Heard
    /\ Unique(chain) /\ AllServe(chain, session)

\* A step that leaves the lifecycles alone and queues no operation of one.
LEMMA CallerStep ==
    ASSUME Lives, Typed', UNCHANGED <<session, retiring, up>>, tracked'.owner = tracked.owner,
           NEW k \in Nat, From(SlotKinds, chain', chain, k)
    PROVE  Lives'
  <1>1. chain \in Seq(Operation) /\ chain' \in Seq(Operation)
    BY DEF Lives, Typed, ChainOK
  <1>2. Unique(chain') /\ AllServe(chain', session)
    BY <1>1, FromKeeps DEF Lives
  <1>3. QED
    BY <1>2 DEF Lives, OwnerHere, RetiringEnded, SlotsGood, Heard

\* A step of one lifecycle, with what its operations on the chain rely on.
LEMMA SlotStep ==
    ASSUME Lives, Typed', NEW s \in Slots, NEW r \in Lifecycle, session' = [session EXCEPT ![s] = r],
           SlotGood(r), up' = up, up /\ r.life = "live" => r.handed = Len(r.events),
           tracked'.owner \in {0, s, tracked.owner},
           tracked'.owner = s => r.life \in {"live", "ended"},
           retiring' \in {0, s, retiring}, retiring' = s => r.life = "ended",
           Unique(chain'), AllServe(chain', session')
    PROVE  Lives'
  <1>1. session \in [Slots -> Lifecycle] /\ session'[s] = r
        /\ \A t \in Slots : t # s => session'[t] = session[t]
    BY DEF Lives, Typed, SessionOK
  <1>2. tracked.owner \in {0} \cup Slots /\ tracked'.owner \in {0} \cup Slots
        /\ retiring \in {0} \cup Slots /\ retiring' \in {0} \cup Slots
    BY DEF Lives, Typed, OwnerOK, Cursor
  <1>3. OwnerHere'
    <2>1. CASE tracked'.owner = s
      BY <1>1, <2>1 DEF OwnerHere
    <2>2. CASE tracked'.owner = tracked.owner /\ tracked.owner # s
      BY <1>1, <1>2, <2>2 DEF OwnerHere, Lives
    <2>3. QED
      BY <2>1, <2>2 DEF OwnerHere
  <1>4. RetiringEnded'
    <2>1. CASE retiring' = s
      BY <1>1, <2>1 DEF RetiringEnded
    <2>2. CASE retiring' = retiring /\ retiring # s
      BY <1>1, <1>2, <2>2 DEF RetiringEnded, Lives
    <2>3. QED
      BY <2>1, <2>2 DEF RetiringEnded
  <1>5. SlotsGood'
    BY <1>1 DEF SlotsGood, Lives
  <1>6. Heard'
    BY <1>1 DEF Heard, Lives
  <1>7. QED
    BY <1>3, <1>4, <1>5, <1>6 DEF Lives

\* The operations on the chain of a lifecycle that has moved.
LEMMA StillServe ==
    ASSUME NEW q \in Seq(Operation), AllServe(q, session), SessionOK,
           NEW s \in Slots, NEW r, session' = [session EXCEPT ![s] = r],
           \A op \in Operation : op.kind \in SlotKinds /\ Serves(op, session[s]) => Serves(op, r)
    PROVE  AllServe(q, session')
  <1>1. ASSUME NEW i \in DOMAIN q, q[i].kind \in SlotKinds PROVE Serves(q[i], session'[q[i].who])
    <2>1. q[i] \in Operation
      BY ElementOfSeq, LenProperties
    <2>2. q[i].who \in Slots
      BY <1>1, <2>1, OperationIs
    <2>3. Serves(q[i], session[q[i].who])
      BY <1>1 DEF AllServe
    <2>4. CASE q[i].who = s
      BY <1>1, <2>1, <2>3, <2>4 DEF SessionOK
    <2>5. CASE q[i].who # s
      BY <2>2, <2>3, <2>5 DEF SessionOK
    <2>6. QED
      BY <2>4, <2>5
  <1>2. QED
    BY <1>1 DEF AllServe

-----------------------------------------------------------------------------
(* Types: the callers.                                                     *)

LEMMA CallerTypes ==
    ASSUME FileOK, ClientOK, OwnerOK, NEW c \in Clients
    PROVE  /\ Idle \in Caller /\ Again(c) \in Caller /\ Retries(c) \in Caller /\ Failed(c) \in Caller
           /\ \A view : Told(c, view) \in Caller
           /\ client[c] \in Caller
           /\ Unseen(client) \in [Clients -> Caller]
  <1>1. client[c] \in Caller
    BY DEF ClientOK
  <1>2. Idle \in Caller
    <2>1. <<>> \in Seq(Event)
      OBVIOUS
    <2>2. QED
      BY <2>1, NoFileType DEF Idle, Caller
  <1>3. Again(c) \in Caller
    BY <1>1, NoFileType DEF Again, Caller, OwnerOK
  <1>4. [Idle EXCEPT !.pc = "absent"] \in Caller
    BY <1>2 DEF Caller
  <1>5. Failed(c) \in Caller
    BY <1>2, <1>4 DEF Failed
  <1>6. ASSUME NEW view PROVE Told(c, view) \in Caller
    <2>1. IsPrefix(client[c].floor, view) \in BOOLEAN
      BY DEF IsPrefix
    <2>2. QED
      BY <1>2, <2>1 DEF Told, Caller
  <1>7. ASSUME NEW d \in Clients PROVE [client[d] EXCEPT !.seen = FALSE] \in Caller
    BY DEF Caller, ClientOK
  <1>8. Retries(c) \in Caller
    BY <1>2, <1>3 DEF Retries
  <1>9. QED
    BY <1>1, <1>2, <1>3, <1>5, <1>6, <1>7, <1>8 DEF Unseen

LEMMA UnseenType == ASSUME FileOK, ClientOK, OwnerOK PROVE Unseen(client) \in [Clients -> Caller]
  <1>1. ASSUME NEW c \in Clients PROVE Unseen(client) \in [Clients -> Caller]
    BY CallerTypes
  <1>2. Clients = {} => Unseen(client) \in [Clients -> Caller]
    BY DEF Unseen
  <1>3. QED
    BY <1>1, <1>2

LEMMA DropIs ==
    ASSUME Typed, NEW c \in Clients, NEW q \in Seq(Operation), NEW r \in Caller, Drop(c, q, r)
    PROVE  /\ EntryOK' /\ ClientOK' /\ ChainOK'
           /\ \A kinds : "load" \notin kinds => From(kinds, chain', q, 0)
  <1>1. Unseen(client) \in [Clients -> Caller] /\ client \in [Clients -> Caller]
    BY CallerTypes DEF Typed, ClientOK
  <1>2. CASE client[c].seen
    <2>1. entry' = NoEntry /\ chain' = Orphaned(q) /\ client' = [Unseen(client) EXCEPT ![c] = r]
      BY <1>2 DEF Drop
    <2>2. EntryOK'
      BY <2>1, NoEntryType DEF EntryOK
    <2>3. ClientOK'
      BY <1>1, <2>1 DEF ClientOK
    <2>4. QED
      BY <2>1, <2>2, <2>3, OrphanedIs DEF ChainOK
  <1>3. CASE ~client[c].seen
    <2>1. entry' = entry /\ chain' = q /\ client' = [client EXCEPT ![c] = r]
      BY <1>3 DEF Drop
    <2>2. EntryOK' /\ ClientOK' /\ ChainOK'
      BY <1>1, <2>1 DEF Typed, EntryOK, ClientOK, ChainOK
    <2>3. ASSUME NEW kinds PROVE From(kinds, q, q, 0)
      <3>1. \A i \in DOMAIN q : i + 0 = i
        OBVIOUS
      <3>2. QED
        BY <3>1 DEF From
    <2>4. QED
      BY <2>1, <2>2, <2>3
  <1>4. QED
    BY <1>2, <1>3

LEMMA AnswerIs ==
    ASSUME Typed, SlotsGood, NEW s \in Slots, NEW who, NEW ok \in BOOLEAN, Answer(s, who, ok)
    PROVE  /\ acked' \in Seq(Event) /\ ClientOK' /\ retiring' \in {0, retiring}
           /\ chain' = IF ok /\ "retire" \in who THEN Append(chain, RetireOp(s)) ELSE chain
  <1>1. acked' \in Seq(Event)
    <2>1. session[s].events \in Seq(Event) /\ session[s].handed \in Nat
          /\ session[s].handed <= Len(session[s].events) /\ acked \in Seq(Event)
      BY DEF Typed, SessionOK, Lifecycle, SlotsGood, SlotGood, RestOK
    <2>2. SubSeq(session[s].events, 1, session[s].handed) \in Seq(Event)
      BY <2>1, CutType
    <2>3. QED
      BY <2>1, <2>2 DEF Answer
  <1>2. ClientOK'
    <2>1. ASSUME NEW c \in Clients PROVE Failed(c) \in Caller /\ client[c] \in Caller
      BY CallerTypes DEF Typed
    <2>2. QED
      BY <2>1 DEF Answer, ClientOK
  <1>3. QED
    BY <1>1, <1>2 DEF Answer

LEMMA NotZero == ASSUME NEW s \in Slots PROVE s # 0
  BY SlotsAssumption

-----------------------------------------------------------------------------
(* The steps of one lifecycle.                                             *)

LEMMA SlotTypes ==
    ASSUME SessionOK, NEW s \in Slots
    PROVE  /\ session[s] \in Lifecycle /\ session[s].w \in Writer
           /\ session[s].handed \in Nat /\ session[s].events \in Seq(Event)
           /\ \A r \in Lifecycle : session' = [session EXCEPT ![s] = r] => SessionOK'
  <1>1. session[s] \in Lifecycle
    BY DEF SessionOK
  <1>2. \A r \in Lifecycle : session' = [session EXCEPT ![s] = r] => SessionOK'
    BY DEF SessionOK
  <1>3. QED
    BY <1>1, <1>2 DEF Lifecycle

\* A lifecycle whose controller moved from session[s].w to w.
LEMMA MovedIs ==
    ASSUME NEW r \in Lifecycle, NEW w \in Writer
    PROVE  LET v == [r EXCEPT !.w = w] IN
           /\ v \in Lifecycle /\ v.w = w /\ v.life = r.life /\ v.events = r.events
           /\ v.handed = r.handed /\ v.init = r.init /\ v.atInit = r.atInit /\ v.atBarrier = r.atBarrier
  BY DEF Lifecycle

LEMMA CallFlushIs ==
    ASSUME NEW r \in Lifecycle, SlotGood(r), r.life # "vetoed", r.life # "none", NEW caller \in Callers
    PROVE  LET v == CallFlush(r, caller) IN
           /\ v \in Lifecycle /\ v.life = r.life /\ v.events = r.events /\ v.handed = r.handed
           /\ v.init = r.init /\ v.atBarrier = r.atBarrier /\ v.atInit = r.atInit \cup {caller}
           /\ WriterGood(v.w) /\ Numbered(v.w.batch, v.w.pending, v.handed)
           /\ Active(v.w) <=> Active(r.w)
           /\ HasWork(v.w) <=> HasWork(r.w)
           /\ v.w.batch = r.w.batch /\ v.w.pending = r.w.pending /\ v.w.barrier = r.w.barrier
           /\ caller # "retire" =>
                 /\ SlotGood(v)
                 /\ \A op : Serves(op, r) => Serves(op, v)
  <1> DEFINE w == CancelWait(r.w)
             v == CallFlush(r, caller)
  <1>1. r.w \in Writer /\ r.handed \in Nat
    BY DEF Lifecycle
  <1>2. /\ w \in Writer /\ WriterGood(w) /\ Kept(r.w, w)
        /\ (Active(w) <=> Active(r.w)) /\ (HasWork(w) <=> HasWork(r.w))
        /\ w.batch = r.w.batch /\ w.pending = r.w.pending /\ w.barrier = r.w.barrier
    BY <1>1, CancelWaitGood, CancelWaitIs DEF SlotGood
  <1>3. Numbered(w.batch, w.pending, r.handed)
    BY <1>1, <1>2, KeptNumbered DEF SlotGood
  <1> DEFINE waiting == r.atInit \cup {caller}
  <1>4. v = [r EXCEPT !.w = w, !.atInit = waiting] /\ waiting \in SUBSET Callers
    BY DEF CallFlush, Lifecycle
  <1> HIDE DEF w, waiting
  <1>5. /\ v \in Lifecycle /\ v.w = w /\ v.life = r.life /\ v.events = r.events
        /\ v.handed = r.handed /\ v.init = r.init /\ v.atBarrier = r.atBarrier
        /\ v.atInit = waiting
    BY <1>2, <1>4 DEF Lifecycle
  <1> HIDE DEF v
  <1> USE DEF waiting
  <1>6. ASSUME caller # "retire" PROVE SlotGood(v)
    BY <1>2, <1>3, <1>5, <1>6 DEF SlotGood
  <1>7. ASSUME caller # "retire", NEW op, Serves(op, r) PROVE Serves(op, v)
    BY <1>2, <1>5, <1>7 DEF Serves
  <1>8. QED
    BY <1>2, <1>3, <1>5, <1>6, <1>7 DEF v

LEMMA CheckpointLives == ASSUME Lives, NEW s \in Slots, Checkpoint(s) PROVE Lives'
  <1> DEFINE r == CallFlush(session[s], "checkpoint")
  <1>1. /\ session[s].life = "live" /\ session' = [session EXCEPT ![s] = r]
        /\ UNCHANGED <<file, tracked, entry, chain, retiring, client, acked, trouble, up>>
    BY DEF Checkpoint
  <1>2. session[s] \in Lifecycle /\ SlotGood(session[s]) /\ SessionOK
    BY SlotTypes DEF Lives, Typed, SlotsGood
  <1>3. /\ r \in Lifecycle /\ SlotGood(r) /\ \A op : Serves(op, session[s]) => Serves(op, r)
        /\ r.life = "live" /\ r.handed = session[s].handed /\ r.events = session[s].events
    BY <1>1, <1>2, CallFlushIs DEF Callers
  <1> HIDE DEF r
  <1>4. Typed'
    BY <1>1, <1>2, <1>3, SlotTypes
       DEF Lives, Typed, FileOK, EntryOK, ChainOK, ClientOK, OwnerOK, RestOK
  <1>5. AllServe(chain', session')
    BY <1>1, <1>2, <1>3, StillServe DEF Lives, Typed, ChainOK
  <1>6. Unique(chain')
    BY <1>1 DEF Lives
  <1>7. retiring # s
    BY <1>1, NotZero DEF Lives, RetiringEnded
  <1>8. QED
    BY <1>1, <1>2, <1>3, <1>4, <1>5, <1>6, <1>7, SlotStep DEF Lives, Heard

LEMMA DeadlineLives == ASSUME Lives, NEW s \in Slots, Deadline(s) PROVE Lives'
  <1> DEFINE w == OnDeadline(session[s].w)
             r == [session[s] EXCEPT !.w = w]
  <1>1. /\ session[s].w.timer /\ Quiet /\ session' = [session EXCEPT ![s] = r]
        /\ UNCHANGED <<file, tracked, entry, chain, retiring, client, acked, trouble, up>>
    BY DEF Deadline
  <1>2. session[s] \in Lifecycle /\ SlotGood(session[s]) /\ SessionOK /\ session[s].w \in Writer
        /\ session[s].handed \in Nat
    BY SlotTypes DEF Lives, Typed, SlotsGood
  <1>3. session[s].w.next = "none"
    BY <1>1 DEF Quiet, Microtasks
  <1>4. w \in Writer /\ WriterGood(w) /\ Stands(w) /\ Active(w) /\ Kept(session[s].w, w)
        /\ w.barrier = session[s].w.barrier
    BY <1>1, <1>2, <1>3, OnDeadlineGood DEF SlotGood
  <1>5. Numbered(w.batch, w.pending, session[s].handed)
    BY <1>2, <1>4, KeptNumbered DEF SlotGood
  <1>6. session[s].w.pending # <<>> /\ HasWork(session[s].w)
    BY <1>1, <1>2 DEF SlotGood, WriterGood, HasWork
  <1>7. session[s].life \notin {"none", "vetoed"}
    BY <1>2, <1>6 DEF SlotGood, Unused, NewWriter
  <1> HIDE DEF w
  <1>8. /\ r \in Lifecycle /\ r.w = w /\ r.life = session[s].life /\ r.events = session[s].events
        /\ r.handed = session[s].handed /\ r.init = session[s].init /\ r.atInit = session[s].atInit
        /\ r.atBarrier = session[s].atBarrier
    BY <1>2, <1>4, MovedIs
  <1> HIDE DEF r
  <1>9. SlotGood(r)
    BY <1>2, <1>4, <1>5, <1>7, <1>8 DEF SlotGood
  <1>10. \A op : Serves(op, session[s]) => Serves(op, r)
    BY <1>4, <1>6, <1>8 DEF Serves
  <1>11. Typed'
    BY <1>1, <1>2, <1>8, SlotTypes
       DEF Lives, Typed, FileOK, EntryOK, ChainOK, ClientOK, OwnerOK, RestOK
  <1>12. AllServe(chain', session') /\ Unique(chain')
    BY <1>1, <1>2, <1>10, StillServe DEF Lives, Typed, ChainOK
  <1>13. r.life = session[s].life /\ (tracked.owner = s => r.life \in {"live", "ended"})
         /\ (retiring = s => r.life = "ended") /\ (up /\ r.life = "live" => r.handed = Len(r.events))
    BY <1>8, NotZero DEF Lives, OwnerHere, RetiringEnded, Heard
  <1>14. QED
    BY <1>1, <1>8, <1>9, <1>11, <1>12, <1>13, SlotStep

LEMMA FlushReadyLives == ASSUME Lives, NEW s \in Slots, FlushReady(s) PROVE Lives'
  <1>1. PICK caller \in session[s].atInit :
          \/ /\ session[s].init = "failed"
             /\ session' = [session EXCEPT ![s].w = CancelWait(@), ![s].atInit = @ \ {caller}]
             /\ Answer(s, {caller}, FALSE)
          \/ /\ session[s].init = "ok"
             /\ LET w == Flush(session[s].w)
                    closed == w.barrier = "none"
                IN  /\ session' = [session EXCEPT ![s].w = w, ![s].atInit = @ \ {caller},
                                      ![s].atBarrier = IF closed THEN @ ELSE @ \cup {caller}]
                    /\ Answer(s, IF closed THEN {caller} ELSE {}, TRUE)
    BY DEF FlushReady
  <1>2. UNCHANGED <<file, tracked, entry, trouble, up>>
    BY DEF FlushReady
  <1>3. session[s] \in Lifecycle /\ SlotGood(session[s]) /\ SessionOK /\ session[s].w \in Writer
        /\ session[s].handed \in Nat
    BY SlotTypes DEF Lives, Typed, SlotsGood
  <1>4. session[s].atInit # {} /\ session[s].life \notin {"none", "vetoed"} /\ caller \in Callers
    BY <1>1, <1>3 DEF SlotGood, Unused, Lifecycle
  <1>5. chain \in Seq(Operation) /\ Unique(chain) /\ AllServe(chain, session)
    BY DEF Lives, Typed, ChainOK
  <1>6. CASE session[s].init = "failed"
    <2> DEFINE w == CancelWait(session[s].w)
               r == [session[s] EXCEPT !.w = w, !.atInit = @ \ {caller}]
    <2>1. session' = [session EXCEPT ![s] = r] /\ Answer(s, {caller}, FALSE)
      BY <1>1, <1>3, <1>6 DEF SessionOK
    <2>2. w \in Writer /\ WriterGood(w) /\ Kept(session[s].w, w) /\ w.barrier = session[s].w.barrier
      BY <1>3, CancelWaitGood DEF SlotGood
    <2>3. Numbered(w.batch, w.pending, session[s].handed)
      BY <1>3, <2>2, KeptNumbered DEF SlotGood
    <2> HIDE DEF w
    <2>4. /\ r \in Lifecycle /\ r.w = w /\ r.life = session[s].life /\ r.events = session[s].events
          /\ r.handed = session[s].handed /\ r.init = "failed" /\ r.atInit = session[s].atInit \ {caller}
          /\ r.atBarrier = session[s].atBarrier
      BY <1>3, <1>6, <2>2 DEF Lifecycle
    <2> HIDE DEF r
    <2>5. SlotGood(r)
      BY <1>3, <1>4, <1>6, <2>2, <2>3, <2>4 DEF SlotGood
    <2>6. \A op : op.kind \in SlotKinds => ~Serves(op, session[s])
      BY <1>6 DEF Serves, SlotKinds
    <2>7. chain' = chain /\ acked' \in Seq(Event) /\ ClientOK' /\ retiring' \in {0, retiring}
      BY <2>1, AnswerIs DEF Lives
    <2>8. Typed'
      BY <1>2, <1>3, <2>1, <2>4, <2>7, SlotTypes
         DEF Lives, Typed, FileOK, EntryOK, ChainOK, OwnerOK, RestOK
    <2>9. AllServe(chain', session') /\ Unique(chain')
      BY <1>3, <1>5, <2>1, <2>6, <2>7, StillServe
    <2>10. (tracked.owner = s => r.life \in {"live", "ended"})
          /\ (retiring' = s => r.life = "ended") /\ (up /\ r.life = "live" => r.handed = Len(r.events))
      BY <2>4, <2>7, NotZero DEF Lives, OwnerHere, RetiringEnded, Heard
    <2>11. QED
      BY <1>2, <2>1, <2>4, <2>5, <2>7, <2>8, <2>9, <2>10, SlotStep
  <1>7. CASE session[s].init = "ok"
    <2> DEFINE w == Flush(session[s].w)
               closed == w.barrier = "none"
               barrier == IF closed THEN session[s].atBarrier ELSE session[s].atBarrier \cup {caller}
               r == [session[s] EXCEPT !.w = w, !.atInit = @ \ {caller}, !.atBarrier = barrier]
    <2>1. session' = [session EXCEPT ![s] = r] /\ Answer(s, IF closed THEN {caller} ELSE {}, TRUE)
      BY <1>1, <1>3, <1>7 DEF SessionOK
    <2>2. /\ w \in Writer /\ WriterGood(w) /\ Stands(w) /\ Kept(session[s].w, w)
          /\ Active(session[s].w) => Active(w)
          /\ ~HasWork(session[s].w) => ~HasWork(w)
          /\ closed => ~HasWork(w) /\ ~HasWork(session[s].w)
      BY <1>3, FlushGood DEF SlotGood
    <2>3. Numbered(w.batch, w.pending, session[s].handed)
      BY <1>3, <2>2, KeptNumbered DEF SlotGood
    <2>4. barrier \in SUBSET Callers
      BY <1>3, <1>4 DEF Lifecycle
    <2> HIDE DEF w, closed
    <2>5. /\ r \in Lifecycle /\ r.w = w /\ r.life = session[s].life /\ r.events = session[s].events
          /\ r.handed = session[s].handed /\ r.init = "ok" /\ r.atInit = session[s].atInit \ {caller}
          /\ r.atBarrier = barrier
      BY <1>3, <1>7, <2>2, <2>4 DEF Lifecycle
    <2> HIDE DEF r
    <2>6. SlotGood(r)
      BY <1>1, <1>3, <1>4, <2>2, <2>3, <2>5 DEF SlotGood
    <2>7. \A op : Serves(op, session[s]) => Serves(op, r)
      BY <1>1, <1>7, <2>2, <2>5 DEF Serves
    <2>8. /\ acked' \in Seq(Event) /\ ClientOK' /\ retiring' \in {0, retiring}
          /\ chain' = IF closed /\ caller = "retire" THEN Append(chain, RetireOp(s)) ELSE chain
      <3>1. CASE closed
        <4>1. Answer(s, {caller}, TRUE)
          BY <2>1, <3>1
        <4>2. /\ acked' \in Seq(Event) /\ ClientOK' /\ retiring' \in {0, retiring}
              /\ chain' = IF TRUE /\ "retire" \in {caller} THEN Append(chain, RetireOp(s)) ELSE chain
          BY <4>1, AnswerIs, Zenon DEF Lives
        <4>3. QED
          BY <3>1, <4>2
      <3>2. CASE ~closed
        <4> DEFINE nobody == {}
        <4>1. Answer(s, nobody, TRUE) /\ "retire" \notin nobody
          BY <2>1, <3>2
        <4> HIDE DEF nobody
        <4>2. /\ acked' \in Seq(Event) /\ ClientOK' /\ retiring' \in {0, retiring}
              /\ chain' = IF TRUE /\ "retire" \in nobody THEN Append(chain, RetireOp(s)) ELSE chain
          BY <4>1, AnswerIs, Zenon DEF Lives
        <4>3. QED
          BY <3>2, <4>1, <4>2
      <3>3. QED
        BY <3>1, <3>2
    <2>9. AllServe(chain, session')
      BY <1>3, <1>5, <2>1, <2>7, StillServe
    <2>10. ChainOK' /\ AllServe(chain', session') /\ Unique(chain')
      <3>1. CASE closed /\ caller = "retire"
        <4> DEFINE op == RetireOp(s)
        <4>1. op \in Operation /\ op.kind = "retire" /\ op.who = s
          BY OperationMakes DEF RetireOp
        <4>2. session'[s] = r
          BY <1>3, <2>1 DEF SessionOK
        <4> HIDE DEF op
        <4>3. Serves(op, session'[op.who])
          BY <1>1, <1>3, <2>2, <2>5, <3>1, <4>1, <4>2 DEF Serves, SlotGood
        <4>4. \A i \in DOMAIN chain : chain[i].kind \in SlotKinds => chain[i].who # op.who
          BY <1>1, <1>5, <1>7, <2>2, <3>1, <4>1 DEF AllServe, Serves, SlotKinds, HasWork
        <4>5. Unique(Append(chain, op)) /\ AllServe(Append(chain, op), session')
          BY <1>5, <2>9, <4>1, <4>3, <4>4, AppendServes
        <4>6. QED
          BY <1>5, <2>8, <3>1, <4>1, <4>5, AppendIs DEF ChainOK, op
      <3>2. CASE ~(closed /\ caller = "retire")
        BY <1>5, <2>8, <2>9, <3>2 DEF ChainOK
      <3>3. QED
        BY <3>1, <3>2
    <2>11. Typed'
      BY <1>2, <1>3, <2>1, <2>5, <2>8, <2>10, SlotTypes
         DEF Lives, Typed, FileOK, EntryOK, OwnerOK, RestOK
    <2>12. (tracked.owner = s => r.life \in {"live", "ended"})
          /\ (retiring' = s => r.life = "ended") /\ (up /\ r.life = "live" => r.handed = Len(r.events))
      BY <2>5, <2>8, NotZero DEF Lives, OwnerHere, RetiringEnded, Heard
    <2>13. QED
      BY <1>2, <2>1, <2>5, <2>6, <2>8, <2>10, <2>11, <2>12, SlotStep
  <1>8. QED
    BY <1>1, <1>6, <1>7

LEMMA ProceedLives == ASSUME Lives, NEW s \in Slots, Proceed(s) PROVE Lives'
  <1> DEFINE w == Continue(session[s].w)
             closes == session[s].w.barrier # "none" /\ w.barrier = "none"
             rejected == session[s].w.next = "reject"
             barrier == IF closes THEN {} ELSE session[s].atBarrier
             r == [session[s] EXCEPT !.w = w, !.atBarrier = barrier]
  <1>1. session[s].w.next # "none" /\ Advance(s, w, rejected)
        /\ UNCHANGED <<file, tracked, entry, trouble, up>>
    BY DEF Proceed
  <1>2. session[s] \in Lifecycle /\ SlotGood(session[s]) /\ SessionOK /\ session[s].w \in Writer
        /\ session[s].handed \in Nat
    BY SlotTypes DEF Lives, Typed, SlotsGood
  <1>3. chain \in Seq(Operation) /\ Unique(chain) /\ AllServe(chain, session)
    BY DEF Lives, Typed, ChainOK
  <1>4. session[s].life \notin {"none", "vetoed"}
    BY <1>1, <1>2 DEF SlotGood, Unused, NewWriter
  <1>5. /\ w \in Writer /\ WriterGood(w) /\ (Stands(session[s].w) => Stands(w)) /\ Kept(session[s].w, w)
        /\ Active(session[s].w) => Active(w)
        /\ ~HasWork(session[s].w) => ~HasWork(w)
        /\ closes /\ ~rejected => ~HasWork(w)
        /\ session[s].w.barrier = "none" => w.barrier = "none"
    BY <1>1, <1>2, ContinueGood DEF SlotGood
  <1>6. Numbered(w.batch, w.pending, session[s].handed)
    BY <1>2, <1>5, KeptNumbered DEF SlotGood
  <1>7. session' = [session EXCEPT ![s] = r]
    <2>1. CASE closes
      BY <1>1, <1>2, <2>1 DEF Advance, SessionOK
    <2>2. CASE ~closes
      <3>1. session' = [session EXCEPT ![s].w = w] /\ barrier = session[s].atBarrier
        BY <1>1, <2>2 DEF Advance
      <3> HIDE DEF w, closes, barrier
      <3>2. r = [session[s] EXCEPT !.w = w]
        BY <1>2, <3>1 DEF Lifecycle
      <3>3. QED
        BY <1>2, <3>1, <3>2 DEF SessionOK
    <2>3. QED
      BY <2>1, <2>2
  <1>8. /\ acked' \in Seq(Event) /\ ClientOK' /\ retiring' \in {0, retiring}
        /\ chain' = IF closes /\ ~rejected /\ "retire" \in session[s].atBarrier
                    THEN Append(chain, RetireOp(s)) ELSE chain
    <2>1. CASE closes
      <3>1. Answer(s, session[s].atBarrier, ~rejected)
        BY <1>1, <2>1 DEF Advance
      <3>2. QED
        BY <2>1, <3>1, AnswerIs DEF Lives
    <2>2. CASE ~closes
      BY <1>1, <2>2 DEF Advance, Lives, Typed, RestOK, ClientOK
    <2>3. QED
      BY <2>1, <2>2
  <1>9. barrier \in SUBSET Callers /\ barrier \subseteq session[s].atBarrier
    BY <1>2 DEF Lifecycle
  <1>10. closes /\ rejected \in BOOLEAN => closes
    OBVIOUS
  <1> HIDE DEF w
  <1>11. /\ r \in Lifecycle /\ r.w = w /\ r.life = session[s].life /\ r.events = session[s].events
        /\ r.handed = session[s].handed /\ r.init = session[s].init /\ r.atInit = session[s].atInit
        /\ r.atBarrier = barrier
    BY <1>2, <1>5, <1>9 DEF Lifecycle
  <1> HIDE DEF r, barrier
  <1>12. SlotGood(r)
    BY <1>2, <1>4, <1>5, <1>6, <1>9, <1>11 DEF SlotGood
  <1>13. \A op : Serves(op, session[s]) => Serves(op, r)
    BY <1>5, <1>9, <1>11 DEF Serves
  <1>14. AllServe(chain, session')
    BY <1>2, <1>3, <1>7, <1>13, StillServe
  <1>15. ChainOK' /\ AllServe(chain', session') /\ Unique(chain')
    <2>1. CASE closes /\ ~rejected /\ "retire" \in session[s].atBarrier
      <3> DEFINE op == RetireOp(s)
      <3>1. op \in Operation /\ op.kind = "retire" /\ op.who = s
        BY OperationMakes DEF RetireOp
      <3>2. session'[s] = r
        BY <1>2, <1>7 DEF SessionOK
      <3> HIDE DEF op
      <3>3. barrier = {} /\ session[s].life = "ended" /\ "retire" \notin session[s].atInit
        BY <1>2, <2>1 DEF barrier, SlotGood
      <3>4. ~Active(session[s].w) /\ session[s].w.barrier # "none"
        BY <1>1, <1>2, <1>5, <2>1 DEF HasWork
      <3>5. session[s].init = "ok"
        BY <1>2, <3>4 DEF SlotGood
      <3>6. Serves(op, session'[op.who])
        BY <1>5, <1>11, <2>1, <3>1, <3>2, <3>3, <3>5 DEF Serves
      <3>7. \A i \in DOMAIN chain : chain[i].kind \in SlotKinds => chain[i].who # op.who
        BY <1>3, <2>1, <3>1, <3>4, <3>5 DEF AllServe, Serves, SlotKinds
      <3>8. Unique(Append(chain, op)) /\ AllServe(Append(chain, op), session')
        BY <1>3, <1>14, <3>1, <3>6, <3>7, AppendServes
      <3>9. QED
        BY <1>3, <1>8, <2>1, <3>1, <3>8, AppendIs DEF ChainOK, op
    <2>2. CASE ~(closes /\ ~rejected /\ "retire" \in session[s].atBarrier)
      BY <1>3, <1>8, <1>14, <2>2 DEF ChainOK
    <2>3. QED
      BY <2>1, <2>2
  <1>16. Typed'
    BY <1>1, <1>2, <1>7, <1>8, <1>11, <1>15, SlotTypes
       DEF Lives, Typed, FileOK, EntryOK, OwnerOK, RestOK
  <1>17. (tracked.owner = s => r.life \in {"live", "ended"})
        /\ (retiring' = s => r.life = "ended") /\ (up /\ r.life = "live" => r.handed = Len(r.events))
    BY <1>8, <1>11, NotZero DEF Lives, OwnerHere, RetiringEnded, Heard
  <1>18. QED
    BY <1>1, <1>7, <1>8, <1>11, <1>12, <1>15, <1>16, <1>17, SlotStep

LEMMA WriteReadyLives == ASSUME Lives, NEW s \in Slots, WriteReady(s) PROVE Lives'
  <1>1. /\ Active(session[s].w) /\ ~Queued("write", s)
        /\ UNCHANGED <<file, tracked, entry, retiring, client, acked, trouble, up>>
    BY DEF WriteReady
  <1>2. session[s] \in Lifecycle /\ SlotGood(session[s]) /\ SessionOK /\ session[s].w \in Writer
        /\ session[s].handed \in Nat
    BY SlotTypes DEF Lives, Typed, SlotsGood
  <1>3. chain \in Seq(Operation) /\ Unique(chain) /\ AllServe(chain, session)
    BY DEF Lives, Typed, ChainOK
  <1>4. session[s].life \in {"live", "ended"}
    BY <1>1, <1>2 DEF SlotGood, Unused, NewWriter, Active, Lifecycle
  <1>5. CASE session[s].init = "ok" /\ chain' = Append(chain, WriteOp(s)) /\ UNCHANGED session
    <2> DEFINE op == WriteOp(s)
    <2>1. op \in Operation /\ op.kind = "write" /\ op.who = s
      BY OperationMakes DEF WriteOp
    <2> HIDE DEF op
    <2>2. Serves(op, session[op.who])
      BY <1>1, <1>4, <1>5, <2>1 DEF Serves
    <2>3. \A i \in DOMAIN chain : chain[i].kind \in SlotKinds => chain[i].who # op.who
      BY <1>1, <1>3, <1>5, <2>1 DEF AllServe, Serves, SlotKinds, Queued, HasWork
    <2>4. ChainOK' /\ Unique(chain') /\ AllServe(chain', session')
      BY <1>3, <1>5, <2>1, <2>2, <2>3, AppendServes, AppendIs DEF ChainOK, op
    <2>5. Typed'
      BY <1>1, <1>5, <2>4 DEF Lives, Typed, FileOK, EntryOK, SessionOK, ClientOK, OwnerOK, RestOK
    <2>6. QED
      BY <1>1, <1>5, <2>4, <2>5 DEF Lives, OwnerHere, RetiringEnded, SlotsGood, Heard
  <1>6. CASE /\ session[s].init = "failed" /\ UNCHANGED chain
             /\ session' = [session EXCEPT ![s].w = Settle(@, FALSE)]
    <2> DEFINE w == Settle(session[s].w, FALSE)
               r == [session[s] EXCEPT !.w = w]
    <2>1. session' = [session EXCEPT ![s] = r]
      BY <1>2, <1>6 DEF SessionOK
    <2>2. w \in Writer /\ WriterGood(w) /\ w.barrier = session[s].w.barrier
      BY <1>1, <1>2, SettleGood DEF SlotGood
    <2>3. Numbered(w.batch, w.pending, session[s].handed)
      BY <1>2, SettleNumbered DEF SlotGood
    <2> HIDE DEF w
    <2>4. /\ r \in Lifecycle /\ r.w = w /\ r.life = session[s].life /\ r.events = session[s].events
          /\ r.handed = session[s].handed /\ r.init = "failed" /\ r.atInit = session[s].atInit
          /\ r.atBarrier = session[s].atBarrier
      BY <1>2, <1>6, <2>2, MovedIs
    <2> HIDE DEF r
    <2>5. SlotGood(r)
      BY <1>2, <1>4, <1>6, <2>2, <2>3, <2>4 DEF SlotGood
    <2>6. \A op : op.kind \in SlotKinds => ~Serves(op, session[s])
      BY <1>6 DEF Serves, SlotKinds
    <2>7. Typed'
      BY <1>1, <1>2, <1>6, <2>1, <2>4, SlotTypes
         DEF Lives, Typed, FileOK, EntryOK, ChainOK, ClientOK, OwnerOK, RestOK
    <2>8. AllServe(chain', session') /\ Unique(chain')
      BY <1>2, <1>3, <1>6, <2>1, <2>6, StillServe
    <2>9. (tracked.owner = s => r.life \in {"live", "ended"})
          /\ (retiring = s => r.life = "ended") /\ (up /\ r.life = "live" => r.handed = Len(r.events))
      BY <2>4, NotZero DEF Lives, OwnerHere, RetiringEnded, Heard
    <2>10. QED
      BY <1>1, <2>1, <2>4, <2>5, <2>7, <2>8, <2>9, SlotStep
  <1>7. QED
    BY <1>5, <1>6 DEF WriteReady

LEMMA EmitLives == ASSUME Lives, NEW s \in Slots, Emit(s) PROVE Lives'
  <1> DEFINE kind == IF OpenTurn(session[s].events) THEN "turn/end" ELSE "turn/start"
             events == Append(session[s].events, [kind |-> kind, by |-> s])
             rec == [session[s] EXCEPT !.events = events]
             w == Enqueue(session[s].w, Len(events))
             told == [rec EXCEPT !.handed = Len(events), !.w = w]
             r == IF up THEN told ELSE rec
  <1>1. session[s].life = "live" /\ UNCHANGED <<file, tracked, entry, chain, retiring, client, acked, trouble, up>>
    BY DEF Emit
  <1>2. session[s] \in Lifecycle /\ SlotGood(session[s]) /\ SessionOK /\ session[s].w \in Writer
        /\ session[s].handed \in Nat /\ session[s].events \in Seq(Event)
    BY SlotTypes DEF Lives, Typed, SlotsGood
  <1>3. chain \in Seq(Operation) /\ Unique(chain) /\ AllServe(chain, session)
    BY DEF Lives, Typed, ChainOK
  <1>4. [kind |-> kind, by |-> s] \in Event
    BY DEF Event, Kinds
  <1>5. events \in Seq(Event) /\ Len(events) = Len(session[s].events) + 1 /\ Len(session[s].events) \in Nat
        /\ Len(events) \in Nat
    BY <1>2, <1>4, AppendProperties, LenProperties
  <1> HIDE DEF kind
  <1>6. rec \in Lifecycle /\ session' = [session EXCEPT ![s] = r]
    <2>1. rec \in Lifecycle /\ rec.events = events /\ rec.w = session[s].w
      BY <1>2, <1>5 DEF Lifecycle
    <2>2. session' = [session EXCEPT ![s] =
              IF up THEN [rec EXCEPT !.handed = Len(rec.events), !.w = Enqueue(rec.w, Len(rec.events))] ELSE rec]
      BY DEF Emit, kind
    <2>3. QED
      BY <2>1, <2>2
  <1>7. /\ w \in Writer /\ WriterGood(w) /\ (Stands(session[s].w) => Stands(w))
        /\ (Active(w) <=> Active(session[s].w)) /\ w.barrier = session[s].w.barrier
    BY <1>2, <1>5, EnqueueGood DEF SlotGood
  <1>8. up => Numbered(w.batch, w.pending, Len(events))
    <2>1. up => session[s].handed = Len(session[s].events)
      BY <1>1 DEF Lives, Heard
    <2>2. session[s].w.batch \in Seq(Nat) /\ session[s].w.pending \in Seq(Nat)
      BY <1>2 DEF Writer
    <2>3. w.batch = session[s].w.batch /\ w.pending = Append(session[s].w.pending, Len(events))
      BY <1>2, <1>5, EnqueueIs
    <2> DEFINE n == Len(session[s].events)
    <2>4. n \in Nat /\ Len(events) = n + 1
      BY <1>5
    <2> HIDE DEF n
    <2>5. up => Numbered(session[s].w.batch, session[s].w.pending, n)
      BY <1>2, <2>1 DEF SlotGood, n
    <2>6. up => Numbered(session[s].w.batch, Append(session[s].w.pending, n + 1), n + 1)
      BY <2>2, <2>4, <2>5, NumberedMoves
    <2>7. QED
      BY <2>3, <2>4, <2>6
  <1> HIDE DEF events, w
  <1>9. /\ rec.life = "live" /\ rec.events = events /\ rec.handed = session[s].handed
        /\ rec.init = session[s].init /\ rec.atInit = session[s].atInit
        /\ rec.atBarrier = session[s].atBarrier /\ rec.w = session[s].w
    BY <1>1, <1>2 DEF Lifecycle
  <1>10. /\ told \in Lifecycle /\ told.life = "live" /\ told.events = events /\ told.handed = Len(events)
         /\ told.init = session[s].init /\ told.atInit = session[s].atInit
         /\ told.atBarrier = session[s].atBarrier /\ told.w = w
    BY <1>5, <1>6, <1>7, <1>9 DEF Lifecycle
  <1> HIDE DEF rec, told
  <1>11. /\ r \in Lifecycle /\ r.life = "live" /\ r.events = events
         /\ r.init = session[s].init /\ r.atInit = session[s].atInit /\ r.atBarrier = session[s].atBarrier
         /\ Active(r.w) <=> Active(session[s].w)
         /\ up => r.handed = Len(events)
    BY <1>6, <1>7, <1>9, <1>10
  <1>12. SlotGood(r)
    <2>1. SlotGood(rec)
      BY <1>1, <1>2, <1>5, <1>9 DEF SlotGood
    <2>2. up => SlotGood(told)
      BY <1>1, <1>2, <1>5, <1>7, <1>8, <1>9, <1>10 DEF SlotGood
    <2>3. QED
      BY <2>1, <2>2
  <1>13. ASSUME NEW op \in Operation, op.kind \in SlotKinds, Serves(op, session[s]) PROVE Serves(op, r)
    <2>1. op.kind \in {"seed", "created"} => Len(op.batch) \in Nat
      BY OperationIs
    <2>2. op.kind = "seed" => op.from \in Nat
      BY OperationIs
    <2>3. op.kind # "retire"
      BY <1>1, <1>13 DEF Serves
    <2> HIDE DEF r
    <2>4. QED
      BY <1>5, <1>11, <1>13, <2>1, <2>2, <2>3 DEF Serves
  <1> HIDE DEF r
  <1>14. Typed'
    BY <1>1, <1>2, <1>6, <1>11, SlotTypes
       DEF Lives, Typed, FileOK, EntryOK, ChainOK, ClientOK, OwnerOK, RestOK
  <1>15. AllServe(chain', session') /\ Unique(chain')
    BY <1>1, <1>2, <1>3, <1>6, <1>13, StillServe
  <1>16. (tracked.owner = s => r.life \in {"live", "ended"})
         /\ (retiring = s => r.life = "ended") /\ (up /\ r.life = "live" => r.handed = Len(r.events))
    BY <1>1, <1>11, NotZero DEF Lives, OwnerHere, RetiringEnded
  <1>17. QED
    BY <1>1, <1>6, <1>11, <1>12, <1>14, <1>15, <1>16, SlotStep

LEMMA EndLives == ASSUME Lives, NEW s \in Slots, End(s) PROVE Lives'
  <1>1. UNCHANGED <<file, tracked, entry, chain, client, acked, trouble, up>>
    BY DEF End
  <1>2. session[s] \in Lifecycle /\ SlotGood(session[s]) /\ SessionOK /\ session[s].w \in Writer
        /\ session[s].handed \in Nat
    BY SlotTypes DEF Lives, Typed, SlotsGood
  <1>3. chain \in Seq(Operation) /\ Unique(chain) /\ AllServe(chain, session)
    BY DEF Lives, Typed, ChainOK
  <1>4. ASSUME NEW r \in Lifecycle, session' = [session EXCEPT ![s] = r], SlotGood(r),
               r.life \in {"none", "ended"}, tracked.owner = s => r.life = "ended",
               retiring' \in {s, retiring}, retiring' = s => r.life = "ended",
               \A op : op.kind \in SlotKinds /\ Serves(op, session[s]) => Serves(op, r)
        PROVE  Lives'
    <2>1. retiring' \in {0} \cup Slots
      BY <1>4 DEF Lives, Typed, OwnerOK
    <2>2. Typed'
      BY <1>1, <1>2, <1>4, <2>1, SlotTypes
         DEF Lives, Typed, FileOK, EntryOK, ChainOK, ClientOK, OwnerOK, RestOK
    <2>3. AllServe(chain', session') /\ Unique(chain')
      BY <1>1, <1>2, <1>3, <1>4, StillServe
    <2>4. QED
      BY <1>1, <1>4, <2>2, <2>3, SlotStep
  <1>5. CASE session[s].life = "live" /\ up /\ retiring' = s
             /\ session' = [session EXCEPT ![s] = [CallFlush(@, "retire") EXCEPT !.life = "ended"]]
    <2> DEFINE v == CallFlush(session[s], "retire")
               r == [v EXCEPT !.life = "ended"]
    <2>1. /\ v \in Lifecycle /\ v.life = "live" /\ v.events = session[s].events
          /\ v.handed = session[s].handed /\ v.init = session[s].init
          /\ v.atBarrier = session[s].atBarrier /\ v.atInit = session[s].atInit \cup {"retire"}
          /\ WriterGood(v.w) /\ Numbered(v.w.batch, v.w.pending, v.handed)
          /\ Active(v.w) <=> Active(session[s].w)
          /\ v.w.barrier = session[s].w.barrier
      BY <1>2, <1>5, CallFlushIs DEF Callers
    <2> HIDE DEF v
    <2>2. /\ r \in Lifecycle /\ r.life = "ended" /\ r.events = v.events /\ r.handed = v.handed
          /\ r.init = v.init /\ r.atBarrier = v.atBarrier /\ r.atInit = v.atInit /\ r.w = v.w
      BY <2>1 DEF Lifecycle
    <2>3. session' = [session EXCEPT ![s] = r]
      BY <1>2, <1>5 DEF SessionOK, v
    <2> HIDE DEF r
    <2>4. SlotGood(r)
      BY <1>2, <1>5, <2>1, <2>2 DEF SlotGood
    <2>5. \A op : op.kind \in SlotKinds /\ Serves(op, session[s]) => Serves(op, r)
      BY <1>5, <2>1, <2>2 DEF Serves
    <2>6. QED
      BY <1>4, <1>5, <2>2, <2>3, <2>4, <2>5
  <1>6. CASE session[s].life = "live" /\ ~up /\ UNCHANGED retiring
             /\ session' = [session EXCEPT ![s].life = "ended"]
    <2> DEFINE r == [session[s] EXCEPT !.life = "ended"]
    <2>1. /\ r \in Lifecycle /\ r.life = "ended" /\ r.events = session[s].events
          /\ r.handed = session[s].handed /\ r.init = session[s].init
          /\ r.atBarrier = session[s].atBarrier /\ r.atInit = session[s].atInit /\ r.w = session[s].w
      BY <1>2 DEF Lifecycle
    <2>2. session' = [session EXCEPT ![s] = r]
      BY <1>2, <1>6 DEF SessionOK
    <2> HIDE DEF r
    <2>3. SlotGood(r)
      BY <1>2, <1>6, <2>1 DEF SlotGood
    <2>4. \A op : op.kind \in SlotKinds /\ Serves(op, session[s]) => Serves(op, r)
      BY <1>6, <2>1 DEF Serves
    <2>5. QED
      BY <1>4, <1>6, <2>1, <2>2, <2>3, <2>4
  <1>7. CASE session[s].life = "vetoed" /\ UNCHANGED retiring
             /\ session' = [session EXCEPT ![s] = Unused]
    <2>1. tracked.owner # s /\ retiring # s /\ Unused.life = "none"
      BY <1>7, NotZero DEF Lives, OwnerHere, RetiringEnded, Unused
    <2>2. \A op : op.kind \in SlotKinds => ~Serves(op, session[s])
      BY <1>7 DEF Serves
    <2>3. QED
      BY <1>4, <1>7, <2>1, <2>2, UnusedGood
  <1>8. QED
    BY <1>5, <1>6, <1>7 DEF End

-----------------------------------------------------------------------------
(* The steps of callers and of the environment that leave lifecycles alone. *)

\* What such a step does to the chain: it takes the running operation off,
\* changes operations of callers, or queues one.
QueuesNone == chain' \in Seq(Operation) /\ \E k \in Nat : From(SlotKinds, chain', chain, k)

LEMMA FromSame == ASSUME NEW q \in Seq(Operation), NEW kinds PROVE From(kinds, q, q, 0)
  <1>1. \A i \in DOMAIN q : i + 0 = i
    OBVIOUS
  <1>2. QED
    BY <1>1 DEF From

LEMMA FromTail ==
    ASSUME NEW q \in Seq(Operation), q # <<>>, NEW p \in Seq(Operation), NEW kinds,
           From(kinds, p, Tail(q), 0)
    PROVE  From(kinds, p, q, 1)
  <1>1. From(kinds, Tail(q), q, 1)
    BY TailIs
  <1>2. \A i \in DOMAIN p : i \in Nat /\ i + 0 = i
    OBVIOUS
  <1>3. QED
    BY <1>1, <1>2 DEF From

LEMMA QueuesNoneCases ==
    ASSUME ChainOK
    PROVE  /\ UNCHANGED chain => QueuesNone
           /\ chain # <<>> /\ chain' = Tail(chain) => QueuesNone
           /\ chain # <<>> /\ chain' = Orphaned(Tail(chain)) => QueuesNone
           /\ \A op \in Operation : op.kind \notin SlotKinds /\ chain' = Append(chain, op) => QueuesNone
           /\ \A op \in Operation :
                 chain # <<>> /\ op.kind \notin SlotKinds /\ chain' = [chain EXCEPT ![1] = op] => QueuesNone
  <1>1. chain \in Seq(Operation) /\ 0 \in Nat /\ 1 \in Nat /\ "load" \notin SlotKinds
    BY DEF ChainOK, SlotKinds
  <1>2. UNCHANGED chain => QueuesNone
    BY <1>1, FromSame DEF QueuesNone
  <1>3. chain # <<>> => Tail(chain) \in Seq(Operation) /\ From(SlotKinds, Tail(chain), chain, 1)
    BY <1>1, TailIs
  <1>4. ASSUME chain # <<>>, chain' = Orphaned(Tail(chain)) PROVE QueuesNone
    <2>1. chain' \in Seq(Operation) /\ From(SlotKinds, chain', Tail(chain), 0)
      BY <1>1, <1>3, <1>4, OrphanedIs
    <2>2. QED
      BY <1>1, <1>4, <2>1, FromTail DEF QueuesNone
  <1>5. ASSUME NEW op \in Operation, op.kind \notin SlotKinds, chain' = Append(chain, op) PROVE QueuesNone
    BY <1>1, <1>5, AppendIs DEF QueuesNone
  <1>6. ASSUME NEW op \in Operation, chain # <<>>, op.kind \notin SlotKinds, chain' = [chain EXCEPT ![1] = op]
        PROVE  QueuesNone
    <2>1. /\ chain' \in Seq(Operation) /\ DOMAIN chain' = DOMAIN chain /\ chain'[1] = op
          /\ \A i \in DOMAIN chain : i # 1 => chain'[i] = chain[i]
      BY <1>1, <1>6, HeadIs
    <2>2. \A i \in DOMAIN chain : i + 0 = i
      BY <1>1
    <2>3. From(SlotKinds, chain', chain, 0)
      BY <1>6, <2>1, <2>2 DEF From
    <2>4. QED
      BY <1>1, <2>1, <2>3 DEF QueuesNone
  <1>7. ASSUME chain # <<>>, chain' = Tail(chain) PROVE QueuesNone
    BY <1>1, <1>3, <1>7 DEF QueuesNone
  <1>8. \A op \in Operation : op.kind \notin SlotKinds /\ chain' = Append(chain, op) => QueuesNone
    BY <1>5
  <1>9. \A op \in Operation :
           chain # <<>> /\ op.kind \notin SlotKinds /\ chain' = [chain EXCEPT ![1] = op] => QueuesNone
    BY <1>6
  <1>10. QED
    BY <1>2, <1>4, <1>7, <1>8, <1>9, Zenon

LEMMA DropQueuesNone ==
    ASSUME Typed, chain # <<>>, NEW c \in Clients, NEW r \in Caller, Drop(c, Tail(chain), r)
    PROVE  QueuesNone /\ EntryOK' /\ ClientOK'
  <1>1. chain \in Seq(Operation) /\ Tail(chain) \in Seq(Operation) /\ "load" \notin SlotKinds
    BY TailIs DEF Typed, ChainOK, SlotKinds
  <1>2. EntryOK' /\ ClientOK' /\ ChainOK' /\ From(SlotKinds, chain', Tail(chain), 0)
    BY <1>1, DropIs
  <1>3. QED
    BY <1>1, <1>2, FromTail DEF QueuesNone, ChainOK

LEMMA OthersStep ==
    ASSUME Lives, UNCHANGED <<session, retiring, up, acked>>, tracked' \in Cursor,
           tracked'.owner = tracked.owner, QueuesNone, FileOK', EntryOK', ClientOK',
           trouble' \in 0 .. MaxTrouble
    PROVE  Lives'
  <1>1. Typed'
    BY DEF Lives, Typed, SessionOK, ChainOK, OwnerOK, RestOK, QueuesNone
  <1>2. QED
    BY <1>1, CallerStep DEF QueuesNone

LEMMA SpendIs == ASSUME RestOK, Spend PROVE trouble' \in 0 .. MaxTrouble
  BY BoundsAssumption DEF RestOK, Spend

\* What a step that leaves most variables alone needs not say again.
LEMMA Unmoved ==
    ASSUME Lives
    PROVE  /\ UNCHANGED file => FileOK'
           /\ UNCHANGED entry => EntryOK'
           /\ UNCHANGED client => ClientOK'
           /\ UNCHANGED tracked => tracked' \in Cursor /\ tracked'.owner = tracked.owner
           /\ UNCHANGED trouble => trouble' \in 0 .. MaxTrouble
           /\ UNCHANGED chain => QueuesNone
           /\ \A c \in Clients, r \in Caller : client' = [client EXCEPT ![c] = r] => ClientOK'
           /\ FileOK /\ EntryOK /\ ClientOK /\ OwnerOK /\ RestOK /\ Typed /\ ChainOK
  <1>1. /\ UNCHANGED chain => QueuesNone
    BY QueuesNoneCases DEF Lives, Typed
  <1>2. QED
    BY <1>1 DEF Lives, Typed, FileOK, EntryOK, ClientOK, OwnerOK, RestOK

LEMMA RunningIs ==
    ASSUME Typed, chain # <<>>
    PROVE  /\ Running \in Operation /\ Tail(chain) \in Seq(Operation)
           /\ Running.kind \in {"load", "commit", "check", "void", "write", "seed", "created", "retire"}
           /\ Running.kind = "load" => Running.mine \in BOOLEAN
           /\ Running.kind = "commit" =>
                 /\ Running.who \in Clients /\ Running.src \in Source
                 /\ Running.stage \in {"queued", "truncate", "repair"}
           /\ Running.kind = "check" => Running.who \in Clients
  <1>1. chain \in Seq(Operation)
    BY DEF Typed, ChainOK
  <1>2. Running \in Operation /\ Tail(chain) \in Seq(Operation)
    BY <1>1, TailIs DEF Running
  <1>3. QED
    BY <1>2, OperationIs

LEMMA LookIs ==
    ASSUME Lives, NEW c \in Clients, NEW cl \in Caller, Look(c, cl)
    PROVE  EntryOK' /\ ClientOK' /\ QueuesNone
  <1>1. /\ Failed(c) \in Caller /\ Told(c, LiveView) \in Caller /\ entry \in Preparation
    BY CallerTypes, Unmoved DEF EntryOK
  <1>2. CASE Present # {}
    BY <1>1, <1>2, Unmoved DEF Look
  <1>3. CASE ~(Present # {})
    <2> DEFINE loaded == cl.does = "inspect" /\ entry.phase \notin {"none", "loading"}
               src == IF loaded THEN entry.src ELSE NoFile
               pc == IF loaded THEN "loaded" ELSE "entry"
               r == [cl EXCEPT !.pc = pc, !.seen = TRUE, !.src = src]
    <2>1. /\ client' = [client EXCEPT ![c] = r]
          /\ IF entry.phase = "none"
             THEN entry' = [NoEntry EXCEPT !.phase = "loading"] /\ chain' = Append(chain, LoadOp)
             ELSE UNCHANGED <<entry, chain>>
      BY <1>3 DEF Look
    <2>2. src \in Source /\ pc \in {"loaded", "entry"}
      BY <1>1, NoFileType DEF Preparation
    <2> HIDE DEF src, pc
    <2>3. r \in Caller
      BY <2>2 DEF Caller
    <2> HIDE DEF r
    <2>4. ClientOK'
      BY <2>1, <2>3, Unmoved
    <2>5. EntryOK' /\ QueuesNone
      <3>1. CASE entry.phase = "none"
        <4>1. [NoEntry EXCEPT !.phase = "loading"] \in Preparation
          BY NoEntryType DEF Preparation
        <4>2. LoadOp \in Operation /\ LoadOp.kind \notin SlotKinds
          BY OperationMakes DEF LoadOp, SlotKinds
        <4>3. QED
          BY <2>1, <3>1, <4>1, <4>2, QueuesNoneCases, Unmoved DEF EntryOK
      <3>2. CASE entry.phase # "none"
        BY <2>1, <3>2, Unmoved
      <3>3. QED
        BY <3>1, <3>2
    <2>6. QED
      BY <2>4, <2>5
  <1>4. QED
    BY <1>2, <1>3

LEMMA AskLives == ASSUME Lives, NEW c \in Clients, Ask(c) PROVE Lives'
  <1>1. UNCHANGED <<file, tracked, session, retiring, acked, trouble, up>>
    BY DEF Ask
  <1>2. Idle \in Caller /\ retiring \in {0} \cup Slots /\ file.log \in Seq(Event)
    BY CallerTypes, Unmoved DEF OwnerOK, FileOK, Source
  <1>3. [Idle EXCEPT !.pc = "retirement", !.on = retiring] \in Caller
    BY <1>2 DEF Caller
  <1> DEFINE cl == [Idle EXCEPT !.does = "inspect", !.floor = file.log]
  <1>4. cl \in Caller
    BY <1>2 DEF Caller
  <1> HIDE DEF cl
  <1>5. [cl EXCEPT !.pc = "retirement", !.on = retiring] \in Caller
    BY <1>2, <1>4 DEF Caller
  <1>6. \/ /\ client' = [client EXCEPT ![c] = [Idle EXCEPT !.pc = "retirement", !.on = retiring]]
           /\ UNCHANGED <<entry, chain>>
        \/ Look(c, cl)
        \/ /\ client' = [client EXCEPT ![c] = [cl EXCEPT !.pc = "retirement", !.on = retiring]]
           /\ UNCHANGED <<entry, chain>>
    BY DEF Ask, cl
  <1>7. EntryOK' /\ ClientOK' /\ QueuesNone
    BY <1>3, <1>4, <1>5, <1>6, LookIs, Unmoved
  <1>8. QED
    BY <1>1, <1>7, Unmoved, OthersStep

LEMMA RetiredLives == ASSUME Lives, NEW c \in Clients, Retired(c) PROVE Lives'
  <1>1. client[c] \in Caller
    BY CallerTypes, Unmoved
  <1>2. EntryOK' /\ ClientOK' /\ QueuesNone
    BY <1>1, LookIs DEF Retired
  <1>3. QED
    BY <1>2, Unmoved, OthersStep DEF Retired

LEMMA LoadLives == ASSUME Lives, Load PROVE Lives'
  <1>1. /\ chain # <<>> /\ chain' = Tail(chain)
        /\ UNCHANGED <<file, tracked, session, retiring, acked, trouble, up>>
    BY DEF Load, Head1
  <1>2. file \in Source /\ entry \in Preparation
    BY Unmoved DEF FileOK, EntryOK
  <1>3. EntryOK'
    <2>1. [phase |-> "ready", src |-> file] \in Preparation
      BY <1>2 DEF Preparation
    <2>2. QED
      BY <1>2, <2>1 DEF Load, EntryOK
  <1>4. ClientOK'
    <2>1. ASSUME NEW d \in Clients
          PROVE  client[d] \in Caller /\ [client[d] EXCEPT !.pc = "loaded", !.src = file] \in Caller
      <3>1. client[d] \in Caller
        BY CallerTypes, Unmoved
      <3>2. QED
        BY <1>2, <3>1 DEF Caller
    <2>2. QED
      BY <2>1 DEF Load, ClientOK
  <1>5. QueuesNone
    BY <1>1, QueuesNoneCases, Unmoved
  <1>6. QED
    BY <1>1, <1>3, <1>4, <1>5, Unmoved, OthersStep

LEMMA LoadThrowsLives ==
    ASSUME Lives, chain # <<>>, LoadThrows, trouble' \in 0 .. MaxTrouble PROVE Lives'
  <1>1. /\ chain' = Tail(chain)
        /\ UNCHANGED <<file, tracked, session, retiring, acked, up>>
    BY DEF LoadThrows
  <1>2. EntryOK'
    BY NoEntryType, Unmoved DEF LoadThrows, EntryOK
  <1>3. ClientOK'
    <2>1. ASSUME NEW d \in Clients
          PROVE  client[d] \in Caller /\ Told(d, LiveView) \in Caller /\ Failed(d) \in Caller
      BY CallerTypes, Unmoved
    <2>2. QED
      BY <2>1 DEF LoadThrows, ClientOK
  <1>4. QueuesNone
    BY <1>1, QueuesNoneCases, Unmoved
  <1>5. QED
    BY <1>1, <1>2, <1>3, <1>4, Unmoved, OthersStep

LEMMA NothingToLoadLives == ASSUME Lives, NothingToLoad PROVE Lives'
  BY LoadThrowsLives, Unmoved DEF NothingToLoad, Head1

LEMMA LoadFailsLives == ASSUME Lives, LoadFails PROVE Lives'
  BY LoadThrowsLives, SpendIs, Unmoved DEF LoadFails, Head1

LEMMA EntryLostLives == ASSUME Lives, NEW c \in Clients, EntryLost(c) PROVE Lives'
  <1>1. Again(c) \in Caller
    BY CallerTypes, Unmoved
  <1>2. ClientOK'
    BY <1>1, Unmoved DEF EntryLost
  <1>3. QED
    BY <1>2, Unmoved, OthersStep DEF EntryLost

LEMMA ReserveLives == ASSUME Lives, NEW c \in Clients, Reserve(c) PROVE Lives'
  <1>1. entry \in Preparation /\ client[c] \in Caller
    BY CallerTypes, Unmoved DEF EntryOK
  <1>2. [entry EXCEPT !.phase = "committing"] \in Preparation
    BY <1>1 DEF Preparation
  <1>3. [client[c] EXCEPT !.pc = "commit"] \in Caller
    BY <1>1 DEF Caller
  <1>4. client' = [client EXCEPT ![c] = [client[c] EXCEPT !.pc = "commit"]]
    BY DEF Reserve
  <1>5. CommitOp(c, entry.src) \in Operation /\ CommitOp(c, entry.src).kind \notin SlotKinds
    BY <1>1, OperationMakes DEF CommitOp, SlotKinds, Preparation
  <1>6. EntryOK' /\ ClientOK'
    BY <1>2, <1>3, <1>4, Unmoved DEF Reserve, EntryOK
  <1>7. QueuesNone
    BY <1>5, QueuesNoneCases, Unmoved DEF Reserve
  <1>8. QED
    BY <1>6, <1>7, Unmoved, OthersStep DEF Reserve

LEMMA CommitThrowsLives ==
    ASSUME Lives, Head1("commit"), CommitThrows, trouble' \in 0 .. MaxTrouble PROVE Lives'
  <1>1. chain # <<>> /\ Running.who \in Clients
    BY RunningIs, Unmoved DEF Head1, Running
  <1>2. Failed(Running.who) \in Caller
    BY <1>1, CallerTypes, Unmoved
  <1>3. QueuesNone /\ EntryOK' /\ ClientOK'
    BY <1>1, <1>2, DropQueuesNone, Unmoved DEF CommitThrows
  <1>4. QED
    BY <1>3, Unmoved, OthersStep DEF CommitThrows

LEMMA CommitOwnedLives == ASSUME Lives, CommitOwned PROVE Lives'
  BY CommitThrowsLives, Unmoved DEF CommitOwned

LEMMA CommitFailsLives == ASSUME Lives, CommitFails PROVE Lives'
  BY CommitThrowsLives, SpendIs, Unmoved DEF CommitFails

LEMMA CommitStaleLives == ASSUME Lives, CommitStale PROVE Lives'
  <1>1. chain # <<>> /\ Running.who \in Clients
    BY RunningIs, Unmoved DEF CommitStale, Head1, Running
  <1>2. Retries(Running.who) \in Caller
    BY <1>1, CallerTypes, Unmoved
  <1>3. QueuesNone /\ EntryOK' /\ ClientOK'
    BY <1>1, <1>2, DropQueuesNone, Unmoved DEF CommitStale
  <1>4. QED
    BY <1>3, Unmoved, OthersStep DEF CommitStale

\* The running commit moves to its next stage.
LEMMA StageQueuesNone ==
    ASSUME Lives, Head1("commit"), NEW stage \in {"queued", "truncate", "repair"},
           chain' = [chain EXCEPT ![1].stage = stage]
    PROVE  QueuesNone
  <1> DEFINE op == [Running EXCEPT !.stage = stage]
  <1>1. chain # <<>> /\ Running.kind = "commit" /\ chain \in Seq(Operation)
    BY Unmoved DEF Head1, Running, ChainOK
  <1>2. Running \in [kind : {"commit"}, who : Clients, src : Source, stage : {"queued", "truncate", "repair"}]
    <2>1. Running \in Operation
      BY <1>1, RunningIs, Unmoved
    <2>2. QED
      BY <1>1, <2>1 DEF Operation
  <1>3. op \in [kind : {"commit"}, who : Clients, src : Source, stage : {"queued", "truncate", "repair"}]
    BY <1>2
  <1>4. op \in Operation /\ op.kind \notin SlotKinds
    BY <1>3 DEF Operation, SlotKinds
  <1>5. 1 \in DOMAIN chain
    BY <1>1, EmptySeq
  <1>6. chain' = [chain EXCEPT ![1] = op]
    BY <1>1, <1>5 DEF Running
  <1> HIDE DEF op
  <1>7. QED
    BY <1>1, <1>4, <1>6, QueuesNoneCases, Unmoved

LEMMA CommitRepairsLives == ASSUME Lives, CommitRepairs PROVE Lives'
  <1>1. QueuesNone
    BY StageQueuesNone DEF CommitRepairs
  <1>2. QED
    BY <1>1, Unmoved, OthersStep DEF CommitRepairs

LEMMA TruncateLives == ASSUME Lives, Truncate PROVE Lives'
  <1>1. chain # <<>> /\ Running.who \in Clients
    BY RunningIs, Unmoved DEF Truncate, Head1, Running
  <1>2. Retries(Running.who) \in Caller
    BY <1>1, CallerTypes, Unmoved
  <1>3. FileOK'
    BY NoFileType, Unmoved DEF Truncate, FileOK, Source
  <1>4. QueuesNone /\ EntryOK' /\ ClientOK'
    <2>1. CASE Repairs(Running.src) # <<>>
      BY <2>1, StageQueuesNone, Unmoved DEF Truncate
    <2>2. CASE Repairs(Running.src) = <<>>
      BY <1>1, <1>2, <2>2, DropQueuesNone, Unmoved DEF Truncate
    <2>3. QED
      BY <2>1, <2>2
  <1>5. QED
    BY <1>3, <1>4, Unmoved, OthersStep DEF Truncate

LEMMA RepairLives == ASSUME Lives, Repair PROVE Lives'
  <1>1. chain # <<>> /\ Running.who \in Clients /\ Running.src \in Source
    BY RunningIs, Unmoved DEF Repair, Head1, Running
  <1>2. Retries(Running.who) \in Caller
    BY <1>1, CallerTypes, Unmoved
  <1>3. FileOK'
    <2>1. file \in Source /\ Repairs(Running.src) \in Seq(Event)
      BY <1>1, SourceType, Unmoved DEF FileOK
    <2> DEFINE repairs == Repairs(Running.src)
               log == file.log \o repairs
    <2>2. log \in Seq(Event)
      BY <2>1 DEF Source
    <2>3. file' = [file EXCEPT !.log = log]
      BY DEF Repair
    <2> HIDE DEF log
    <2>4. QED
      BY <2>1, <2>2, <2>3 DEF FileOK, Source
  <1>4. QueuesNone /\ EntryOK' /\ ClientOK'
    BY <1>1, <1>2, DropQueuesNone, Unmoved DEF Repair
  <1>5. QED
    BY <1>3, <1>4, Unmoved, OthersStep DEF Repair

LEMMA CommitsLives == ASSUME Lives, Commits PROVE Lives'
  <1> DEFINE c == Running.who
  <1>1. /\ chain # <<>> /\ c \in Clients /\ Running.src \in Source
        /\ UNCHANGED <<file, session, retiring, acked, trouble, up>>
    BY RunningIs, Unmoved DEF Commits, Head1, Running
  <1>2. /\ Again(c) \in Caller /\ Failed(c) \in Caller /\ Idle \in Caller /\ client[c] \in Caller
        /\ entry \in Preparation
    BY <1>1, CallerTypes, Unmoved DEF EntryOK
  <1>3. Running.src.log \in Seq(Event) /\ Len(Running.src.log) \in Nat
    BY <1>1 DEF Source
  <1>4. tracked' \in Cursor /\ tracked'.owner = tracked.owner
    BY <1>3 DEF Commits, Cursor
  <1>5. QueuesNone /\ EntryOK' /\ ClientOK'
    <2>1. CASE client[c].cut
      <3>1. /\ entry' = IF client[c].seen THEN [entry EXCEPT !.phase = "ready"] ELSE entry
            /\ client' = [client EXCEPT ![c] = Idle]
            /\ chain' = Tail(chain)
        BY <2>1 DEF Commits
      <3>2. [entry EXCEPT !.phase = "ready"] \in Preparation
        BY <1>2 DEF Preparation
      <3>3. QED
        BY <1>1, <1>2, <3>1, <3>2, QueuesNoneCases, Unmoved DEF EntryOK
    <2>2. CASE ~client[c].cut /\ (~client[c].seen \/ Present # {})
      <3> DEFINE r == IF client[c].seen THEN Failed(c) ELSE Again(c)
      <3>1. Drop(c, Tail(chain), r) /\ r \in Caller
        BY <1>2, <2>2 DEF Commits
      <3>2. QED
        BY <1>1, <3>1, DropQueuesNone, Unmoved
    <2>3. CASE ~client[c].cut /\ ~(~client[c].seen \/ Present # {})
      <3> DEFINE log == Seeded(Running.src.log)
                 r == [client[c] EXCEPT !.pc = "reserved", !.log = log]
      <3>1. /\ entry' = [entry EXCEPT !.phase = "reserved"]
            /\ client' = [client EXCEPT ![c].pc = "reserved", ![c].log = log]
            /\ chain' = Tail(chain)
        BY <2>3 DEF Commits
      <3>2. [entry EXCEPT !.phase = "reserved"] \in Preparation
        BY <1>2 DEF Preparation
      <3>3. log \in Seq(Event)
        BY <1>3, SeededType
      <3> HIDE DEF log
      <3>4. r \in Caller
        BY <1>2, <3>3 DEF Caller
      <3>5. client' = [client EXCEPT ![c] = r]
        BY <1>1, <3>1, Unmoved DEF ClientOK
      <3>6. QED
        BY <1>1, <3>1, <3>2, <3>4, <3>5, QueuesNoneCases, Unmoved DEF EntryOK
    <2>4. QED
      BY <2>1, <2>2, <2>3
  <1>6. QED
    BY <1>1, <1>4, <1>5, Unmoved, OthersStep

LEMMA SetupLives == ASSUME Lives, NEW c \in Clients, Setup(c) PROVE Lives'
  <1> DEFINE log == Append(client[c].log, [kind |-> "note", by |-> 0])
             r == [client[c] EXCEPT !.log = log]
  <1>1. client[c] \in Caller /\ client' = [client EXCEPT ![c] = r]
    BY CallerTypes, Unmoved DEF Setup, ClientOK
  <1>2. log \in Seq(Event)
    <2>1. [kind |-> "note", by |-> 0] \in Event /\ client[c].log \in Seq(Event)
      BY <1>1 DEF Event, Kinds, Caller
    <2>2. QED
      BY <2>1, AppendProperties
  <1> HIDE DEF log
  <1>3. r \in Caller
    BY <1>1, <1>2 DEF Caller
  <1>4. ClientOK'
    BY <1>1, <1>3, Unmoved
  <1>5. QED
    BY <1>4, Unmoved, OthersStep DEF Setup

LEMMA ReleaseLives == ASSUME Lives, NEW c \in Clients, Release(c) PROVE Lives'
  <1>1. Failed(c) \in Caller /\ entry \in Preparation /\ chain \in Seq(Operation)
    BY CallerTypes, Unmoved DEF EntryOK, ChainOK
  <1>2. CASE tracked.owner = 0 /\ client[c].log = Seeded(entry.src.log)
    <2>1. [entry EXCEPT !.phase = "ready"] \in Preparation
      BY <1>1 DEF Preparation
    <2>2. EntryOK' /\ ClientOK' /\ QueuesNone
      BY <1>1, <1>2, <2>1, Unmoved DEF Release, EntryOK
    <2>3. QED
      BY <2>2, Unmoved, OthersStep DEF Release
  <1>3. CASE ~(tracked.owner = 0 /\ client[c].log = Seeded(entry.src.log))
    <2>1. Drop(c, chain, Failed(c))
      BY <1>3 DEF Release
    <2>2. EntryOK' /\ ClientOK' /\ ChainOK' /\ From(SlotKinds, chain', chain, 0)
      BY <1>1, <2>1, DropIs, Unmoved DEF SlotKinds
    <2>3. QueuesNone
      BY <2>2 DEF QueuesNone, ChainOK
    <2>4. QED
      BY <2>2, <2>3, Unmoved, OthersStep DEF Release
  <1>4. QED
    BY <1>2, <1>3

LEMMA GiveUpLives == ASSUME Lives, NEW c \in Clients, GiveUp(c) PROVE Lives'
  <1>1. Idle \in Caller
    BY CallerTypes, Unmoved
  <1>2. ClientOK'
    BY <1>1, Unmoved DEF GiveUp
  <1>3. QED
    BY <1>2, Unmoved, OthersStep DEF GiveUp

LEMMA InspectLives == ASSUME Lives, NEW c \in Clients, Inspect(c) PROVE Lives'
  <1>1. client[c] \in Caller /\ Told(c, LiveView) \in Caller
    BY CallerTypes, Unmoved
  <1>2. ClientOK' /\ QueuesNone
    <2>1. CASE Present # {}
      BY <1>1, <2>1, Unmoved DEF Inspect
    <2>2. CASE ~(Present # {})
      <3>1. client' = [client EXCEPT ![c] = [client[c] EXCEPT !.pc = "check"]]
            /\ chain' = Append(chain, CheckOp(c))
        BY <2>2 DEF Inspect
      <3>2. [client[c] EXCEPT !.pc = "check"] \in Caller
        BY <1>1 DEF Caller
      <3>3. CheckOp(c) \in Operation /\ CheckOp(c).kind \notin SlotKinds
        BY OperationMakes DEF CheckOp, SlotKinds
      <3>4. QED
        BY <3>1, <3>2, <3>3, QueuesNoneCases, Unmoved
    <2>3. QED
      BY <2>1, <2>2
  <1>3. QED
    BY <1>2, Unmoved, OthersStep DEF Inspect

LEMMA CheckLives == ASSUME Lives, Check \/ CheckFails PROVE Lives'
  <1> DEFINE c == Running.who
             src == client[c].src
             view == IF Present # {} THEN LiveView ELSE Balanced(src)
  <1>1. /\ chain # <<>> /\ c \in Clients /\ trouble' \in 0 .. MaxTrouble
        /\ UNCHANGED <<file, tracked, session, retiring, acked, up>>
    BY RunningIs, SpendIs, Unmoved DEF Check, CheckFails, Head1, Running
  <1>2. Again(c) \in Caller /\ Idle \in Caller /\ (\A v : Told(c, v) \in Caller)
        /\ Unseen(client) \in [Clients -> Caller]
    BY <1>1, CallerTypes, Unmoved
  <1>3. \/ \E v : client' = [client EXCEPT ![c] = Told(c, v)] /\ chain' = Tail(chain) /\ UNCHANGED entry
        \/ client' = [client EXCEPT ![c] = Idle] /\ chain' = Tail(chain) /\ UNCHANGED entry
        \/ client' = [Unseen(client) EXCEPT ![c] = Again(c)] /\ chain' = Orphaned(Tail(chain)) /\ entry' = NoEntry
        \/ client' = [client EXCEPT ![c] = Again(c)] /\ chain' = Tail(chain) /\ UNCHANGED entry
    <2>1. Check => \/ client' = [client EXCEPT ![c] = Told(c, view)] /\ chain' = Tail(chain) /\ UNCHANGED entry
                   \/ client' = [client EXCEPT ![c] = Idle] /\ chain' = Tail(chain) /\ UNCHANGED entry
                   \/ client' = [Unseen(client) EXCEPT ![c] = Again(c)] /\ chain' = Orphaned(Tail(chain)) /\ entry' = NoEntry
                   \/ client' = [client EXCEPT ![c] = Again(c)] /\ chain' = Tail(chain) /\ UNCHANGED entry
      BY DEF Check
    <2>2. CheckFails => \/ client' = [client EXCEPT ![c] = Told(c, LiveView)] /\ chain' = Tail(chain) /\ UNCHANGED entry
                        \/ client' = [client EXCEPT ![c] = Idle] /\ chain' = Tail(chain) /\ UNCHANGED entry
      BY DEF CheckFails
    <2>3. QED
      BY <2>1, <2>2
  <1>4. QueuesNone
    BY <1>1, <1>3, QueuesNoneCases, Unmoved
  <1> HIDE DEF c, view
  <1>5. ClientOK'
    BY <1>1, <1>2, <1>3, Unmoved DEF ClientOK
  <1>6. EntryOK'
    BY <1>3, NoEntryType, Unmoved DEF EntryOK
  <1>7. QED
    BY <1>1, <1>4, <1>5, <1>6, Unmoved, OthersStep

LEMMA AbortLives == ASSUME Lives, NEW c \in Clients, Abort(c) PROVE Lives'
  <1>1. trouble' \in 0 .. MaxTrouble /\ UNCHANGED <<file, tracked, session, retiring, acked, up>>
    BY SpendIs, Unmoved DEF Abort
  <1>2. Idle \in Caller /\ client[c] \in Caller /\ chain \in Seq(Operation)
    BY CallerTypes, Unmoved DEF ChainOK
  <1>3. CASE client' = [client EXCEPT ![c] = Idle] /\ UNCHANGED <<entry, chain>>
    BY <1>1, <1>2, <1>3, Unmoved, OthersStep
  <1>4. CASE client' = [client EXCEPT ![c].cut = TRUE] /\ UNCHANGED <<entry, chain>>
    <2>1. [client[c] EXCEPT !.cut = TRUE] \in Caller
      BY <1>2, Zenon DEF Caller
    <2>2. client' = [client EXCEPT ![c] = [client[c] EXCEPT !.cut = TRUE]]
      BY <1>4
    <2>3. QED
      BY <1>1, <1>4, <2>1, <2>2, Unmoved, OthersStep
  <1>5. ASSUME NEW i \in DOMAIN chain, chain[i].kind = "commit", Drop(c, [chain EXCEPT ![i] = VoidOp], Idle)
        PROVE  Lives'
    <2> DEFINE q == [chain EXCEPT ![i] = VoidOp]
    <2>1. VoidOp \in Operation /\ VoidOp.kind \notin SlotKinds /\ i \in 1 .. Len(chain)
      BY <1>2, OperationMakes, LenProperties DEF VoidOp, SlotKinds
    <2>2. /\ q \in Seq(Operation) /\ Len(q) = Len(chain)
          /\ \A j \in 1 .. Len(chain) : q[j] = IF j = i THEN VoidOp ELSE chain[j]
      BY <1>2, <2>1, ExceptSeq
    <2> HIDE DEF q
    <2>3. DOMAIN q = 1 .. Len(chain) /\ DOMAIN chain = 1 .. Len(chain)
      BY <1>2, <2>2, LenProperties
    <2>4. EntryOK' /\ ClientOK' /\ ChainOK' /\ From(SlotKinds, chain', q, 0)
      BY <1>2, <1>5, <2>2, DropIs, Unmoved DEF SlotKinds, q
    <2>5. \A j \in DOMAIN chain' : j \in Nat /\ j + 0 = j
      BY <2>4 DEF ChainOK
    <2>6. From(SlotKinds, chain', chain, 0)
      BY <2>1, <2>2, <2>3, <2>4, <2>5 DEF From
    <2>7. QED
      BY <1>1, <2>4, <2>6, Unmoved, OthersStep DEF QueuesNone, ChainOK
  <1>6. QED
    BY <1>3, <1>4, <1>5 DEF Abort

LEMMA VoidLives == ASSUME Lives, Void PROVE Lives'
  <1>1. QueuesNone
    BY QueuesNoneCases, Unmoved DEF Void, Head1
  <1>2. QED
    BY <1>1, Unmoved, OthersStep DEF Void

LEMMA EvictLives == ASSUME Lives, Evict PROVE Lives'
  <1>1. trouble' \in 0 .. MaxTrouble
    BY SpendIs, Unmoved DEF Evict
  <1>2. ClientOK'
    BY UnseenType, Unmoved DEF Evict, ClientOK
  <1>3. EntryOK'
    BY NoEntryType DEF Evict, EntryOK
  <1>4. QED
    BY <1>1, <1>2, <1>3, Unmoved, OthersStep DEF Evict

LEMMA ForeignResumeLives == ASSUME Lives, ForeignResume PROVE Lives'
  <1>1. trouble' \in 0 .. MaxTrouble
    BY SpendIs, Unmoved DEF ForeignResume
  <1> DEFINE log == Append(Seeded(Balanced(file)), [kind |-> "note", by |-> 0])
  <1>2. log \in Seq(Event)
    <2>1. [kind |-> "note", by |-> 0] \in Event /\ Seeded(Balanced(file)) \in Seq(Event)
      BY SourceType, SeededType, Unmoved DEF Event, Kinds, FileOK
    <2>2. QED
      BY <2>1, AppendProperties
  <1>3. file' = [NoFile EXCEPT !.log = log]
    BY DEF ForeignResume
  <1> HIDE DEF log
  <1>4. FileOK'
    BY <1>2, <1>3, NoFileType DEF FileOK, Source
  <1>5. QED
    BY <1>1, <1>4, Unmoved, OthersStep DEF ForeignResume

-----------------------------------------------------------------------------
(* Lifecycles enter.                                                       *)

Entered(log, init) ==
    [Unused EXCEPT !.life = "live", !.events = log, !.handed = Len(log), !.init = init]

LEMMA EnteredGood ==
    ASSUME NEW log \in Seq(Event), NEW init \in {"ok", "pending"}
    PROVE  LET r == Entered(log, init) IN
           /\ r \in Lifecycle /\ SlotGood(r) /\ r.life = "live" /\ r.init = init
           /\ r.events = log /\ r.handed = Len(log)
           /\ r.atInit = {} /\ r.atBarrier = {} /\ r.w = NewWriter
  <1> DEFINE r == Entered(log, init)
             n == Len(log)
  <1>1. n \in Nat
    OBVIOUS
  <1>2. r = [Unused EXCEPT !.life = "live", !.events = log, !.handed = n, !.init = init]
    BY DEF Entered
  <1> HIDE DEF n, r
  <1>3. Unused \in Lifecycle /\ Unused.w = NewWriter /\ Unused.atInit = {} /\ Unused.atBarrier = {}
    BY UnusedGood DEF Unused
  <1>4. /\ r \in Lifecycle /\ r.life = "live" /\ r.init = init /\ r.events = log /\ r.handed = n
        /\ r.atInit = {} /\ r.atBarrier = {} /\ r.w = NewWriter
    BY <1>1, <1>2, <1>3 DEF Lifecycle
  <1>5. Numbered(NewWriter.batch, NewWriter.pending, n)
    <2>1. NewWriter.batch = <<>> /\ NewWriter.pending = <<>> /\ Len(<<>>) = 0 /\ DOMAIN <<>> = {}
      BY DEF NewWriter
    <2>2. QED
      BY <1>1, <2>1 DEF Numbered
  <1>6. NewWriter.barrier = "none"
    BY DEF NewWriter
  <1>7. n <= Len(log)
    BY <1>1 DEF n
  <1>8. SlotGood(r)
    BY <1>4, <1>5, <1>6, <1>7, NewWriterGood DEF SlotGood
  <1>9. QED
    BY <1>4, <1>8 DEF n, r

\* A lifecycle takes a free slot; its initialisation, if any, is queued.
LEMMA EnterStep ==
    ASSUME Lives, NEW s \in Free, NEW r \in Lifecycle, SlotGood(r), r.life \in {"live", "vetoed"},
           up /\ r.life = "live" => r.handed = Len(r.events),
           session' = [session EXCEPT ![s] = r],
           NEW q \in Seq(Operation), From(SlotKinds, q, chain, 0),
           \/ chain' = q
           \/ \E op \in Operation : op.who = s /\ Serves(op, r) /\ chain' = Append(q, op),
           UNCHANGED <<file, retiring, acked, trouble, up>>, EntryOK', ClientOK',
           tracked' \in Cursor, tracked'.owner = tracked.owner \/ (tracked'.owner = s /\ r.life = "live")
    PROVE  Lives'
  <1>1. s \in Slots /\ session[s].life = "none" /\ session \in [Slots -> Lifecycle]
    BY Unmoved DEF Free, Typed, SessionOK
  <1>2. tracked.owner # s /\ retiring # s
    BY <1>1, NotZero DEF Lives, OwnerHere, RetiringEnded
  <1>3. Unique(q) /\ AllServe(q, session)
    BY Unmoved, FromKeeps DEF ChainOK, Lives
  <1>4. \A op : ~Serves(op, session[s])
    BY <1>1 DEF Serves
  <1>5. AllServe(q, session')
    BY <1>1, <1>3, <1>4, StillServe DEF SessionOK
  <1>6. \A i \in DOMAIN q : q[i].kind \in SlotKinds => q[i].who # s
    BY <1>3, <1>4 DEF AllServe
  <1>7. ChainOK' /\ Unique(chain') /\ AllServe(chain', session')
    <2>1. CASE chain' = q
      BY <1>3, <1>5, <2>1 DEF ChainOK
    <2>2. ASSUME NEW op \in Operation, op.who = s, Serves(op, r), chain' = Append(q, op)
          PROVE  ChainOK' /\ Unique(chain') /\ AllServe(chain', session')
      <3>1. session'[op.who] = r
        BY <1>1, <2>2
      <3>2. Unique(Append(q, op)) /\ AllServe(Append(q, op), session')
        BY <1>3, <1>5, <1>6, <2>2, <3>1, AppendServes
      <3>3. QED
        BY <2>2, <3>2, AppendIs DEF ChainOK
    <2>3. QED
      BY <2>1, <2>2
  <1>8. Typed'
    BY <1>1, <1>7, SlotTypes, Unmoved DEF Typed, FileOK, SessionOK, OwnerOK, RestOK
  <1>9. QED
    BY <1>1, <1>2, <1>7, <1>8, SlotStep

LEMMA PublishLives == ASSUME Lives, NEW c \in Clients, Publish(c) PROVE Lives'
  <1> DEFINE log == client[c].log
             suffix == SubSeq(log, tracked.cursor + 1, Len(log))
             init == IF suffix = <<>> THEN "ok" ELSE "pending"
  <1>1. Attachable(log) /\ UNCHANGED <<file, retiring, acked, trouble, up>>
        /\ client' = [Unseen(client) EXCEPT ![c] = Idle]
    BY DEF Publish
  <1>2. PICK s \in NextSlot : AttachPrepared(s, log)
    BY DEF Publish
  <1>3. s \in Free /\ s \in Slots
    BY DEF NextSlot, Free
  <1>4. client[c] \in Caller /\ Idle \in Caller /\ Unseen(client) \in [Clients -> Caller]
        /\ tracked \in Cursor /\ chain \in Seq(Operation)
    BY CallerTypes, Unmoved DEF OwnerOK, ChainOK
  <1>5. log \in Seq(Event) /\ tracked.cursor \in Nat /\ Len(log) \in Nat
    BY <1>4 DEF Caller, Cursor
  <1>6. tracked.cursor <= Len(log)
    BY <1>1 DEF Attachable
  <1> HIDE DEF log
  <1>7. suffix \in Seq(Event) /\ Len(suffix) = Len(log) - tracked.cursor
    <2>1. tracked.cursor + 1 \in Nat \ {0} /\ Len(log) \in Int
      BY <1>5
    <2>2. suffix \in Seq(Event)
          /\ Len(suffix) = IF tracked.cursor + 1 <= Len(log) THEN Len(log) - (tracked.cursor + 1) + 1 ELSE 0
      BY <1>5, <2>1, CutType
    <2>3. QED
      BY <1>5, <1>6, <2>2
  <1> DEFINE r == Entered(log, init)
             op == SeedOp(s, tracked.cursor + 1, suffix)
             q == Orphaned(chain)
  <1>8. /\ session' = [session EXCEPT ![s] = r]
        /\ tracked' = [tracked EXCEPT !.owner = s] /\ entry' = NoEntry
        /\ chain' = IF suffix = <<>> THEN q ELSE Append(q, op)
    BY <1>2 DEF AttachPrepared, Enter, Entered
  <1>9. q \in Seq(Operation) /\ From(SlotKinds, q, chain, 0)
    BY <1>4, OrphanedIs DEF SlotKinds
  <1>10. init \in {"ok", "pending"} /\ (suffix # <<>> => init = "pending")
    OBVIOUS
  <1> HIDE DEF suffix, init, q
  <1>11. /\ r \in Lifecycle /\ SlotGood(r) /\ r.life = "live" /\ r.init = init
         /\ r.events = log /\ r.handed = Len(log)
    BY <1>5, <1>10, EnteredGood
  <1>12. /\ op \in Operation /\ op.who = s /\ op.kind = "seed" /\ op.from = tracked.cursor + 1
         /\ op.batch = suffix
    <2>1. tracked.cursor + 1 \in Nat
      BY <1>5
    <2>2. op \in Operation
      BY <1>3, <1>7, <2>1, OperationMakes
    <2>3. QED
      BY <2>2 DEF SeedOp
  <1> HIDE DEF r, op
  <1>13. suffix # <<>> => Serves(op, r)
    BY <1>5, <1>7, <1>10, <1>11, <1>12 DEF Serves
  <1>14. EntryOK' /\ ClientOK'
    BY <1>1, <1>4, <1>8, NoEntryType DEF EntryOK, ClientOK
  <1>15. tracked' \in Cursor /\ tracked'.owner = s
    BY <1>3, <1>4, <1>8 DEF Cursor
  <1>16. chain' = q \/ \E o \in Operation : o.who = s /\ Serves(o, r) /\ chain' = Append(q, o)
    BY <1>8, <1>12, <1>13
  <1>17. QED
    BY <1>1, <1>3, <1>8, <1>9, <1>11, <1>14, <1>15, <1>16, EnterStep

LEMMA CreateLives == ASSUME Lives, NEW c \in Clients, Create(c) PROVE Lives'
  <1>1. client' = [client EXCEPT ![c] = Idle] /\ UNCHANGED <<file, retiring, acked, trouble, up>>
    BY DEF Create
  <1>2. ClientOK' /\ chain \in Seq(Operation) /\ From(SlotKinds, chain, chain, 0)
    BY <1>1, CallerTypes, Unmoved, FromSame DEF ChainOK
  <1>3. CASE UNCHANGED <<session, tracked, entry, chain>>
    BY <1>1, <1>2, <1>3, Unmoved, OthersStep
  <1>4. ASSUME NEW s \in NextSlot, NEW seed \in {<<>>, <<[kind |-> "note", by |-> s]>>}, AttachNew(s, seed)
        PROVE  Lives'
    <2> DEFINE r == Entered(seed, "pending")
               op == CreatedOp(s, seed)
    <2>1. s \in Free /\ s \in Slots
      BY DEF NextSlot, Free
    <2>2. seed \in Seq(Event)
      <3> DEFINE e == [kind |-> "note", by |-> s]
      <3>1. e \in Event /\ seed \in {<<>>, <<e>>}
        BY <2>1 DEF Event, Kinds
      <3> HIDE DEF e
      <3>2. <<>> \in Seq(Event) /\ <<e>> \in Seq(Event)
        BY <3>1
      <3>3. QED
        BY <3>1, <3>2
    <2>3. session' = [session EXCEPT ![s] = r] /\ chain' = Append(chain, op) /\ UNCHANGED <<tracked, entry>>
      BY <1>4 DEF AttachNew, Enter, Entered
    <2>4. /\ r \in Lifecycle /\ SlotGood(r) /\ r.life = "live" /\ r.init = "pending"
          /\ r.events = seed /\ r.handed = Len(seed)
      BY <2>2, EnteredGood
    <2>5. op \in Operation /\ op.who = s /\ op.kind = "created" /\ op.batch = seed
      BY <2>1, <2>2, OperationMakes DEF CreatedOp
    <2> HIDE DEF r, op
    <2>6. Serves(op, r)
      BY <2>2, <2>4, <2>5 DEF Serves
    <2>7. QED
      BY <1>1, <1>2, <2>1, <2>3, <2>4, <2>5, <2>6, EnterStep, Unmoved
  <1>5. ASSUME NEW s \in NextSlot, Veto(s), UNCHANGED <<tracked, entry, chain>> PROVE Lives'
    <2> DEFINE r == [Unused EXCEPT !.life = "vetoed"]
    <2>1. s \in Free
      BY DEF NextSlot
    <2>2. r \in Lifecycle /\ SlotGood(r) /\ r.life = "vetoed" /\ session' = [session EXCEPT ![s] = r]
      BY <1>5, UnusedGood DEF Veto, Unused
    <2> HIDE DEF r
    <2>3. QED
      BY <1>1, <1>2, <1>5, <2>1, <2>2, EnterStep, Unmoved
  <1>6. QED
    BY <1>3, <1>4, <1>5 DEF Create

-----------------------------------------------------------------------------
(* Appends.                                                                *)

\* An append settles: the controller takes the outcome of its batch, or the
\* lifecycle the outcome of its initialisation.
LEMMA SettledStep ==
    ASSUME Lives, chain # <<>>, Running.kind \in {"write", "seed", "created"}, NEW ok \in BOOLEAN,
           session' = Settled(Running, ok),
           chain' \in Seq(Operation), From(SlotKinds, chain', Tail(chain), 0),
           UNCHANGED <<retiring, acked, up>>, FileOK', EntryOK', ClientOK', tracked' \in Cursor,
           tracked'.owner \in {0, tracked.owner, Running.who}, trouble' \in 0 .. MaxTrouble
    PROVE  Lives'
  <1> DEFINE s == Running.who
  <1>1. chain \in Seq(Operation) /\ Unique(chain) /\ AllServe(chain, session) /\ Running \in Operation
        /\ 1 \in DOMAIN chain
    BY TailIs DEF Lives, Typed, ChainOK, Running
  <1>2. s \in Slots /\ Serves(Running, session[s])
    BY <1>1, OperationIs DEF AllServe, SlotKinds, Running
  <1>3. session[s] \in Lifecycle /\ SlotGood(session[s]) /\ SessionOK /\ session[s].w \in Writer
        /\ session[s].handed \in Nat /\ session \in [Slots -> Lifecycle]
    BY <1>2, SlotTypes DEF Lives, Typed, SlotsGood, SessionOK
  <1>4. session[s].life \in {"live", "ended"}
    BY <1>2 DEF Serves
  <1>5. PICK r \in Lifecycle :
           /\ session' = [session EXCEPT ![s] = r] /\ SlotGood(r)
           /\ r.life = session[s].life /\ r.handed = session[s].handed /\ r.events = session[s].events
    <2>1. CASE Running.kind = "write"
      <3> DEFINE w == Settle(session[s].w, ok)
                 r == [session[s] EXCEPT !.w = w]
      <3>1. session' = [session EXCEPT ![s] = r]
        BY <1>3, <2>1 DEF Settled
      <3>2. session[s].init = "ok" /\ Active(session[s].w)
        BY <1>2, <2>1 DEF Serves
      <3>3. w \in Writer /\ WriterGood(w) /\ (Stands(session[s].w) => Stands(w))
            /\ w.barrier = session[s].w.barrier
        BY <1>3, <3>2, SettleGood DEF SlotGood
      <3>4. Numbered(w.batch, w.pending, session[s].handed)
        BY <1>3, SettleNumbered DEF SlotGood
      <3> HIDE DEF w
      <3>5. /\ r \in Lifecycle /\ r.w = w /\ r.life = session[s].life /\ r.events = session[s].events
            /\ r.handed = session[s].handed /\ r.init = session[s].init /\ r.atInit = session[s].atInit
            /\ r.atBarrier = session[s].atBarrier
        BY <1>3, <3>3, MovedIs
      <3> HIDE DEF r
      <3>6. SlotGood(r)
        BY <1>3, <1>4, <3>2, <3>3, <3>4, <3>5 DEF SlotGood
      <3>7. QED
        BY <3>1, <3>5, <3>6
    <2>2. CASE Running.kind \in {"seed", "created"}
      <3> DEFINE init == IF ok THEN "ok" ELSE "failed"
                 r == [session[s] EXCEPT !.init = init]
      <3>1. session' = [session EXCEPT ![s] = r]
        BY <1>3, <2>2 DEF Settled
      <3>2. session[s].init = "pending"
        BY <1>2, <2>2 DEF Serves
      <3>3. init \in {"pending", "ok", "failed"}
        OBVIOUS
      <3> HIDE DEF init
      <3>4. /\ r \in Lifecycle /\ r.w = session[s].w /\ r.life = session[s].life
            /\ r.events = session[s].events /\ r.handed = session[s].handed
            /\ r.atInit = session[s].atInit /\ r.atBarrier = session[s].atBarrier
        BY <1>3, <3>3 DEF Lifecycle
      <3> HIDE DEF r
      <3>5. SlotGood(r)
        BY <1>3, <1>4, <3>2, <3>4 DEF SlotGood
      <3>6. QED
        BY <3>1, <3>4, <3>5
    <2>3. QED
      BY <2>1, <2>2
  <1>6. Unique(chain') /\ AllServe(chain', session')
    <2>1. \A t \in Slots : t # s => session'[t] = session[t]
      BY <1>3, <1>5
    <2>2. chain[1].kind \in SlotKinds /\ chain[1].who = s
      BY DEF Running, SlotKinds
    <2> HIDE DEF s
    <2>3. QED
      BY <1>1, <2>1, <2>2, TailServes
  <1>7. Typed'
    BY <1>2, <1>3, <1>5, SlotTypes DEF Lives, Typed, SessionOK, ChainOK, OwnerOK, RestOK
  <1>8. r.life \in {"live", "ended"}
        /\ (retiring = s => r.life = "ended") /\ (up /\ r.life = "live" => r.handed = Len(r.events))
    BY <1>2, <1>4, <1>5, NotZero DEF Lives, RetiringEnded, Heard
  <1>9. QED
    BY <1>2, <1>5, <1>6, <1>7, <1>8, SlotStep

\* The events that the frame of a batch holds.
LEMMA EventsAt ==
    ASSUME NEW events \in Seq(Event), NEW n \in Nat, NEW seqs, DOMAIN seqs = 1 .. n,
           \A i \in 1 .. n : seqs[i] \in 1 .. Len(events)
    PROVE  LET b == [i \in DOMAIN seqs |-> events[seqs[i]]] IN b \in Seq(Event) /\ Len(b) = n
  <1> DEFINE b == [i \in DOMAIN seqs |-> events[seqs[i]]]
  <1>1. \A i \in 1 .. n : events[seqs[i]] \in Event
    BY ElementOfSeq
  <1>2. b \in [1 .. n -> Event]
    BY <1>1
  <1>3. DOMAIN b = 1 .. n
    OBVIOUS
  <1> HIDE DEF b
  <1>4. b \in Seq(Event)
    BY <1>2, SeqDef
  <1>5. Len(b) = n
    BY <1>3, <1>4, LenProperties
  <1>6. QED
    BY <1>4, <1>5 DEF b

\* What is left of the batch in flight refers to events of the session.
LEMMA FreshIs ==
    ASSUME Lives, NEW s \in Slots
    PROVE  /\ Fresh(s) \in Seq(1 .. Len(session[s].events))
           /\ Len(Fresh(s)) \in Nat /\ DOMAIN Fresh(s) = 1 .. Len(Fresh(s))
           /\ \A i \in 1 .. Len(Fresh(s)) : Fresh(s)[i] \in 1 .. Len(session[s].events)
  <1> DEFINE b == session[s].w.batch
             p == session[s].w.pending
             n == session[s].handed
             m == Len(session[s].events)
             T == {i \in DOMAIN b : b[i] <= tracked.cursor}
             k == Cardinality(T)
  <1>1. b \in Seq(Nat) /\ p \in Seq(Nat) /\ n \in Nat /\ m \in Nat /\ n <= m /\ Numbered(b, p, n)
    BY SlotTypes DEF Lives, Typed, SlotsGood, SlotGood, Writer
  <1>2. k \in Nat
    <2>1. DOMAIN b = 1 .. Len(b) /\ Len(b) \in Nat
      BY <1>1
    <2>2. IsFiniteSet(DOMAIN b)
      BY <2>1, FS_Interval
    <2>3. T \in SUBSET DOMAIN b
      OBVIOUS
    <2>4. IsFiniteSet(T)
      BY <2>2, <2>3, FS_Subset
    <2>5. QED
      BY <2>4, FS_CardinalityType
  <1>3. Fresh(s) = SubSeq(b, k + 1, Len(b))
    BY DEF Fresh
  <1> HIDE DEF b, p, n, m, k
  <1>4. Len(b) \in Nat /\ Len(p) \in Nat /\ DOMAIN b = 1 .. Len(b)
    BY <1>1
  <1>5. \A i \in k + 1 .. Len(b) : b[i] \in 1 .. m
    BY <1>1, <1>2, <1>4 DEF Numbered
  <1>6. k + 1 \in Int /\ Len(b) \in Int
    BY <1>2, <1>4
  <1>7. SubSeq(b, k + 1, Len(b)) \in Seq(1 .. m)
    BY <1>5, <1>6, SubSeqProperties
  <1> DEFINE f == SubSeq(b, k + 1, Len(b))
  <1> HIDE DEF f
  <1>8. f \in Seq(1 .. m)
    BY <1>7 DEF f
  <1>9. Len(f) \in Nat /\ DOMAIN f = 1 .. Len(f) /\ \A i \in 1 .. Len(f) : f[i] \in 1 .. m
    BY <1>8, LenProperties, ElementOfSeq
  <1>10. QED
    BY <1>3, <1>8, <1>9 DEF f, m

LEMMA AppendBeginLives == ASSUME Lives, AppendBegin PROVE Lives'
  <1> DEFINE s == Running.who
             seqs == IF Running.kind = "write" THEN Fresh(s)
                     ELSE [i \in DOMAIN Running.batch |-> Running.from + i - 1]
             batch == [i \in DOMAIN seqs |-> session[s].events[seqs[i]]]
             op == [Running EXCEPT !.stage = "io", !.batch = batch]
  <1>1. chain # <<>> /\ Running.kind \in {"write", "seed"}
        /\ UNCHANGED <<file, tracked, entry, retiring, client, acked, trouble, up>>
    BY DEF AppendBegin, Head1, Running
  <1>2. \/ chain' = [chain EXCEPT ![1] = op] /\ UNCHANGED session
        \/ \E ok \in BOOLEAN : chain' = Tail(chain) /\ session' = Settled(Running, ok)
    <2>1. \/ chain' = [chain EXCEPT ![1] = [@ EXCEPT !.stage = "io", !.batch = batch]] /\ UNCHANGED session
          \/ chain' = Tail(chain) /\ session' = Settled(Running, seqs = <<>>)
      BY DEF AppendBegin
    <2>2. [chain EXCEPT ![1] = [@ EXCEPT !.stage = "io", !.batch = batch]] = [chain EXCEPT ![1] = op]
      BY DEF Running
    <2>3. (seqs = <<>>) \in BOOLEAN
      OBVIOUS
    <2> HIDE DEF batch, seqs
    <2>4. QED
      BY <2>1, <2>2, <2>3
  <1>3. chain \in Seq(Operation) /\ Unique(chain) /\ AllServe(chain, session) /\ Running \in Operation
        /\ 1 \in DOMAIN chain /\ Tail(chain) \in Seq(Operation)
    BY <1>1, TailIs DEF Lives, Typed, ChainOK, Running
  <1>4. s \in Slots /\ Serves(Running, session[s])
    BY <1>1, <1>3, OperationIs DEF AllServe, SlotKinds, Running
  <1>5. CASE \E ok \in BOOLEAN : chain' = Tail(chain) /\ session' = Settled(Running, ok)
    <2>1. From(SlotKinds, Tail(chain), Tail(chain), 0)
      BY <1>3, FromSame
    <2>2. QED
      BY <1>1, <1>3, <1>5, <2>1, SettledStep, Unmoved
  <1>6. CASE chain' = [chain EXCEPT ![1] = op] /\ UNCHANGED session
    <2>1. session[s].events \in Seq(Event) /\ Len(session[s].events) \in Nat
      BY <1>4, SlotTypes DEF Lives, Typed
    <2>2. batch \in Seq(Event) /\ (Running.kind = "seed" => Len(batch) = Len(Running.batch))
      <3>1. CASE Running.kind = "write"
        <4>1. /\ Len(seqs) \in Nat /\ DOMAIN seqs = 1 .. Len(seqs)
              /\ \A i \in 1 .. Len(seqs) : seqs[i] \in 1 .. Len(session[s].events)
          BY <1>4, <3>1, FreshIs
        <4> HIDE DEF seqs
        <4>2. QED
          BY <2>1, <3>1, <4>1, EventsAt
      <3>2. CASE Running.kind = "seed"
        <4>1. Running.batch \in Seq(Event) /\ Running.from \in Nat /\ Running.from > 0
              /\ Running.from + Len(Running.batch) <= Len(session[s].events) + 1
          BY <1>3, <1>4, <3>2, OperationIs DEF Serves
        <4>2. Len(Running.batch) \in Nat /\ DOMAIN Running.batch = 1 .. Len(Running.batch)
          BY <4>1
        <4>3. DOMAIN seqs = 1 .. Len(Running.batch)
              /\ \A i \in 1 .. Len(Running.batch) : seqs[i] = Running.from + i - 1
          BY <3>2, <4>2
        <4> HIDE DEF seqs
        <4>4. ASSUME NEW i \in 1 .. Len(Running.batch) PROVE seqs[i] \in 1 .. Len(session[s].events)
          <5> DEFINE from == Running.from
                     n == Len(Running.batch)
                     m == Len(session[s].events)
          <5>1. /\ from \in Nat /\ from > 0 /\ n \in Nat /\ m \in Nat /\ from + n <= m + 1
                /\ i \in 1 .. n /\ seqs[i] = from + i - 1
            BY <2>1, <4>1, <4>2, <4>3
          <5> HIDE DEF from, n, m
          <5>2. seqs[i] \in 1 .. m
            BY <5>1
          <5>3. QED
            BY <5>2 DEF m
        <4>5. QED
          BY <2>1, <4>2, <4>3, <4>4, EventsAt
      <3>3. QED
        BY <1>1, <3>1, <3>2
    <2> HIDE DEF batch, seqs
    <2>3. Running \in [kind : {"write", "seed"}, who : Slots, stage : {"queued", "io"}, from : Nat,
                       batch : Seq(Event)]
      BY <1>1, <1>3 DEF Operation
    <2>4. op \in [kind : {"write", "seed"}, who : Slots, stage : {"queued", "io"}, from : Nat,
                  batch : Seq(Event)]
          /\ op.kind = Running.kind /\ op.who = s /\ op.from = Running.from /\ op.batch = batch
      BY <2>2, <2>3
    <2>5. op \in Operation
      BY <2>4 DEF Operation
    <2> HIDE DEF op
    <2>6. Serves(op, session[s])
      BY <1>1, <1>4, <2>2, <2>4 DEF Serves
    <2>7. chain[1].kind \in SlotKinds /\ op.kind \in SlotKinds /\ op.who = chain[1].who
      BY <1>1, <2>4 DEF SlotKinds, Running
    <2>8. Unique(chain') /\ AllServe(chain', session)
      BY <1>1, <1>3, <1>6, <2>4, <2>5, <2>6, <2>7, HeadServes
    <2>9. Typed'
      <3>1. chain' \in Seq(Operation)
        BY <1>1, <1>3, <1>6, <2>5, HeadIs
      <3>2. QED
        BY <1>1, <1>6, <3>1 DEF Lives, Typed, FileOK, EntryOK, ChainOK, SessionOK, ClientOK, OwnerOK, RestOK
    <2>10. QED
      BY <1>1, <1>6, <2>8, <2>9 DEF Lives, OwnerHere, RetiringEnded, SlotsGood, Heard
  <1>7. QED
    BY <1>2, <1>5, <1>6

LEMMA AppendCommitsLives == ASSUME Lives, AppendCommits PROVE Lives'
  <1>1. chain # <<>> /\ Running.kind \in {"write", "seed"}
    BY DEF AppendCommits, Appending, Head1, Running
  <1>2. Running \in Operation /\ Tail(chain) \in Seq(Operation) /\ Running.batch \in Seq(Event)
    BY <1>1, RunningIs, OperationIs, Unmoved
  <1>3. chain' \in Seq(Operation) /\ From(SlotKinds, chain', Tail(chain), 0)
    BY <1>2, OrphanedIs DEF AppendCommits, SlotKinds
  <1>4. FileOK'
    <2> DEFINE log == file.log \o Running.batch
    <2>1. file \in Source /\ log \in Seq(Event)
      BY <1>2, Unmoved, ConcatProperties DEF FileOK, Source
    <2>2. file' = [file EXCEPT !.log = log]
      BY DEF AppendCommits
    <2> HIDE DEF log
    <2>3. QED
      BY <2>1, <2>2 DEF FileOK, Source
  <1>5. tracked' \in Cursor /\ tracked'.owner = tracked.owner
    <2> DEFINE cursor == tracked.cursor + Len(Running.batch)
    <2>1. tracked \in Cursor /\ cursor \in Nat
      BY <1>2, Unmoved DEF OwnerOK, Cursor
    <2>2. tracked' = [tracked EXCEPT !.cursor = cursor]
      BY DEF AppendCommits
    <2> HIDE DEF cursor
    <2>3. QED
      BY <2>1, <2>2 DEF Cursor
  <1>6. EntryOK' /\ ClientOK'
    BY NoEntryType, UnseenType, Unmoved DEF AppendCommits, EntryOK, ClientOK
  <1>7. QED
    BY <1>1, <1>3, <1>4, <1>5, <1>6, SettledStep, Unmoved DEF AppendCommits

LEMMA AppendFailsLives == ASSUME Lives, AppendFails PROVE Lives'
  <1>1. chain # <<>> /\ Running.kind \in {"write", "seed"}
    BY DEF AppendFails, Appending, Head1, Running
  <1>2. Tail(chain) \in Seq(Operation) /\ From(SlotKinds, Tail(chain), Tail(chain), 0)
    BY <1>1, RunningIs, FromSame, Unmoved
  <1>3. trouble' \in 0 .. MaxTrouble
    BY SpendIs, Unmoved DEF AppendFails
  <1>4. QED
    BY <1>1, <1>2, <1>3, SettledStep, Unmoved DEF AppendFails

\* What a new lifecycle finds stored.
LEMMA CutLength ==
    ASSUME NEW q, NEW n \in Nat PROVE Len(SubSeq(q, 1, n)) = n
  <1> DEFINE S == {q[i] : i \in 1 .. n}
  <1>1. \A i \in 1 .. n : q[i] \in S
    OBVIOUS
  <1> HIDE DEF S
  <1>2. Len(SubSeq(q, 1, n)) = IF 1 <= n THEN n - 1 + 1 ELSE 0
    BY <1>1, SubSeqProperties
  <1>3. QED
    BY <1>2

LEMMA CreatedLives == ASSUME Lives, Created PROVE Lives'
  <1> DEFINE s == Running.who
             seed == Running.batch
             claim == tracked.known /\ tracked.owner = 0
             stored == IF claim THEN SubSeq(Stored(file), 1, tracked.cursor) ELSE Stored(file)
             cursor == Len(stored)
             suffix == SubSeq(seed, cursor + 1, Len(seed))
  <1>1. chain # <<>> /\ Running.kind = "created" /\ UNCHANGED <<entry, retiring, client, acked, trouble, up>>
    BY DEF Created, Head1, Running
  <1>2. chain \in Seq(Operation) /\ Unique(chain) /\ AllServe(chain, session) /\ Running \in Operation
        /\ 1 \in DOMAIN chain /\ Tail(chain) \in Seq(Operation)
    BY <1>1, TailIs DEF Lives, Typed, ChainOK, Running
  <1>3. s \in Slots /\ seed \in Seq(Event) /\ Serves(Running, session[s])
    BY <1>1, <1>2, OperationIs DEF AllServe, SlotKinds, Running
  <1>4. From(SlotKinds, Tail(chain), Tail(chain), 0)
    BY <1>2, FromSame
  <1>5. CASE InitFails(s)
    <2>1. session' = Settled(Running, FALSE) /\ chain' = Tail(chain) /\ UNCHANGED file
          /\ (tracked' = tracked \/ tracked' = None)
      BY <1>1, <1>5 DEF InitFails, Settled
    <2>2. tracked' \in Cursor /\ tracked'.owner \in {0, tracked.owner}
      <3>1. None \in Cursor /\ None.owner = 0
        BY DEF None, Cursor
      <3>2. tracked \in Cursor
        BY Unmoved DEF OwnerOK
      <3>3. QED
        BY <2>1, <3>1, <3>2
    <2>3. QED
      BY <1>1, <1>2, <1>4, <2>1, <2>2, SettledStep, Unmoved
  <1>6. CASE InitOwns(s, seed, cursor) /\ file' = IF claim THEN file ELSE [NoFile EXCEPT !.log = stored]
    <2>1. tracked.cursor \in Nat /\ file \in Source /\ Stored(file) \in Seq(Event)
      BY Unmoved, SourceType DEF OwnerOK, Cursor, FileOK
    <2>2. cursor \in Nat
      BY <2>1, CutLength
    <2>3. FileOK'
      <3>1. CASE claim
        BY <1>6, <2>1, <3>1 DEF FileOK
      <3>2. CASE ~claim
        <4>1. file' = [NoFile EXCEPT !.log = Stored(file)]
          BY <1>6, <3>2
        <4>2. QED
          BY <2>1, <4>1, NoFileType DEF FileOK, Source
      <3>3. QED
        BY <3>1, <3>2
    <2> HIDE DEF cursor, seed, s
    <2>4. tracked' = [cursor |-> cursor, owner |-> s, known |-> TRUE]
      BY <1>6 DEF InitOwns
    <2>5. tracked' \in Cursor /\ tracked'.owner = s
      BY <1>3, <2>2, <2>4 DEF Cursor
    <2>6. CASE suffix = <<>>
      <3>1. chain' = Tail(chain) /\ session' = [session EXCEPT ![s].init = "ok"]
        BY <1>6, <2>6 DEF InitOwns
      <3>2. session' = Settled(Running, TRUE)
        BY <1>1, <3>1 DEF Settled, s
      <3>3. QED
        BY <1>1, <1>2, <1>4, <2>3, <2>5, <3>1, <3>2, SettledStep, Unmoved DEF s
    <2>7. CASE suffix # <<>>
      <3> DEFINE op == SeedOp(s, cursor + 1, suffix)
      <3>1. chain' = <<op>> \o Tail(chain) /\ UNCHANGED session
        BY <1>6, <2>7 DEF InitOwns
      <3>2. Len(seed) \in Nat /\ Len(seed) <= Len(session[s].events) /\ session[s].init = "pending"
            /\ session[s].life \in {"live", "ended"} /\ Len(session[s].events) \in Nat
        BY <1>1, <1>3, SlotTypes, Unmoved DEF Serves, seed, Typed
      <3>3. cursor + 1 <= Len(seed)
        <4>1. CASE ~(cursor + 1 <= Len(seed))
          <5>1. Len(seed) < cursor + 1 /\ cursor + 1 \in Int /\ Len(seed) \in Int
            BY <2>2, <3>2, <4>1
          <5>2. suffix = <<>>
            BY <5>1, SubSeqEmpty
          <5>3. QED
            BY <2>7, <5>2
        <4>2. QED
          BY <4>1
      <3>4. suffix \in Seq(Event) /\ Len(suffix) = Len(seed) - (cursor + 1) + 1
        <4>1. cursor + 1 \in Nat \ {0} /\ Len(seed) \in Int /\ Len(seed) <= Len(seed)
          BY <2>2, <3>2
        <4>2. QED
          BY <1>3, <3>3, <4>1, CutType
      <3> HIDE DEF suffix
      <3>5. /\ op \in Operation /\ op.who = s /\ op.kind = "seed" /\ op.from = cursor + 1
            /\ op.batch = suffix
        <4>1. cursor + 1 \in Nat
          BY <2>2
        <4>2. op \in Operation
          BY <1>3, <3>4, <4>1, OperationMakes
        <4>3. QED
          BY <4>2 DEF SeedOp
      <3> HIDE DEF op
      <3>6. Serves(op, session[s])
        BY <2>2, <3>2, <3>3, <3>4, <3>5 DEF Serves
      <3>7. chain' = [chain EXCEPT ![1] = op]
        BY <1>1, <1>2, <3>1, <3>5, HeadIs
      <3>8. chain[1].kind \in SlotKinds /\ op.kind \in SlotKinds /\ op.who = chain[1].who
        BY <1>1, <3>5 DEF SlotKinds, Running, s
      <3>9. Unique(chain') /\ AllServe(chain', session) /\ ChainOK'
        BY <1>1, <1>2, <3>5, <3>6, <3>7, <3>8, HeadServes, HeadIs DEF ChainOK
      <3>10. Typed'
        BY <1>1, <2>3, <2>5, <3>1, <3>9 DEF Lives, Typed, EntryOK, SessionOK, ClientOK, OwnerOK, RestOK
      <3>11. OwnerHere'
        BY <2>5, <3>1, <3>2 DEF OwnerHere
      <3>12. QED
        BY <1>1, <3>1, <3>9, <3>10, <3>11 DEF Lives, RetiringEnded, SlotsGood, Heard
    <2>8. QED
      BY <2>6, <2>7
  <1>7. QED
    BY <1>5, <1>6 DEF Created

LEMMA RetireLives == ASSUME Lives, Retire PROVE Lives'
  <1> DEFINE s == Running.who
  <1>1. /\ chain # <<>> /\ Running.kind = "retire" /\ chain' = Tail(chain)
        /\ session' = [session EXCEPT ![s] = Unused]
        /\ tracked' = IF tracked.owner = s THEN None ELSE tracked
        /\ retiring' = IF retiring = s THEN 0 ELSE retiring
        /\ client' = [c \in Clients |->
              IF client[c].pc = "retirement" /\ client[c].on = s
              THEN [client[c] EXCEPT !.on = 0] ELSE client[c]]
        /\ UNCHANGED <<file, entry, acked, trouble, up>>
    BY DEF Retire, Head1, Running
  <1>2. chain \in Seq(Operation) /\ Unique(chain) /\ AllServe(chain, session) /\ Running \in Operation
        /\ Tail(chain) \in Seq(Operation) /\ session \in [Slots -> Lifecycle]
    BY <1>1, TailIs DEF Lives, Typed, ChainOK, SessionOK, Running
  <1>3. s \in Slots /\ chain[1].kind \in SlotKinds /\ chain[1].who = s
    BY <1>1, <1>2, OperationIs DEF SlotKinds, Running
  <1>4. Unused \in Lifecycle /\ SlotGood(Unused) /\ Unused.life = "none"
    BY UnusedGood DEF Unused
  <1> HIDE DEF s
  <1>5. Unique(chain') /\ AllServe(chain', session')
    <2>1. \A t \in Slots : t # s => session'[t] = session[t]
      BY <1>1, <1>2
    <2>2. From(SlotKinds, Tail(chain), Tail(chain), 0)
      BY <1>2, FromSame
    <2>3. QED
      BY <1>1, <1>2, <1>3, <2>1, <2>2, TailServes
  <1>6. ClientOK'
    <2>1. ASSUME NEW c \in Clients PROVE [client[c] EXCEPT !.on = 0] \in Caller /\ client[c] \in Caller
      BY Unmoved DEF ClientOK, Caller
    <2>2. QED
      BY <1>1, <2>1 DEF ClientOK
  <1>7. tracked' \in Cursor /\ tracked'.owner \in {0, tracked.owner} /\ tracked'.owner # s
    BY <1>1, <1>3, NotZero, Unmoved DEF None, Cursor, OwnerOK
  <1>8. retiring' \in {0, retiring} /\ retiring' # s
    BY <1>1, <1>3, NotZero
  <1>9. Typed'
    BY <1>1, <1>2, <1>3, <1>4, <1>6, <1>7, <1>8, SlotTypes
       DEF Lives, Typed, FileOK, EntryOK, ChainOK, SessionOK, OwnerOK, RestOK
  <1>10. QED
    BY <1>1, <1>3, <1>4, <1>5, <1>7, <1>8, <1>9, SlotStep

-----------------------------------------------------------------------------
(* Crashes and reloads.                                                    *)

LEMMA TornIs == ASSUME FileOK, NEW batch \in Seq(Event), NEW f \in Torn(batch) PROVE f \in Source
  <1>1. file \in Source /\ file.log \in Seq(Event)
    BY DEF FileOK, Source
  <1>2. CASE f = [file EXCEPT !.log = @ \o batch]
    <2> DEFINE log == file.log \o batch
    <2>1. log \in Seq(Event) /\ f = [file EXCEPT !.log = log]
      BY <1>1, <1>2, ConcatProperties
    <2> HIDE DEF log
    <2>2. QED
      BY <1>1, <2>1 DEF Source
  <1>3. ASSUME NEW k \in 0 .. Len(batch), f = [log |-> file.log, torn |-> TRUE, extra |-> SubSeq(batch, 1, k)]
        PROVE  f \in Source
    <2> DEFINE extra == SubSeq(batch, 1, k)
    <2>1. k \in Int /\ k <= Len(batch) /\ 1 \in Nat \ {0}
      OBVIOUS
    <2>2. extra \in Seq(Event)
      BY <2>1, CutType
    <2>3. f = [log |-> file.log, torn |-> TRUE, extra |-> extra]
      BY <1>3
    <2> HIDE DEF extra
    <2>4. QED
      BY <1>1, <2>2, <2>3 DEF Source
  <1>4. QED
    BY <1>1, <1>2, <1>3 DEF Torn

LEMMA CrashLives == ASSUME Lives, Crash PROVE Lives'
  <1>1. /\ tracked' = None /\ entry' = NoEntry /\ chain' = <<>> /\ retiring' = 0
        /\ session' = [s \in Slots |-> Unused] /\ client' = [c \in Clients |-> Idle]
        /\ up' = TRUE /\ acked' = acked
    BY DEF Crash
  <1>2. trouble' \in 0 .. MaxTrouble
    BY SpendIs, Unmoved DEF Crash
  <1>3. FileOK'
    <2>1. CASE Appending /\ file' \in Torn(Running.batch)
      <3>1. chain # <<>> /\ Running.kind \in {"write", "seed"}
        BY <2>1 DEF Appending, Head1, Running
      <3>2. Running.batch \in Seq(Event)
        BY <3>1, RunningIs, OperationIs, Unmoved
      <3>3. QED
        BY <2>1, <3>2, TornIs, Unmoved DEF FileOK
    <2>2. CASE Head1("commit") /\ file' \in Torn(Repairs(Running.src))
      <3>1. chain # <<>> /\ Running.kind = "commit"
        BY <2>2 DEF Head1, Running
      <3>2. Repairs(Running.src) \in Seq(Event)
        BY <3>1, RunningIs, SourceType, Unmoved
      <3>3. QED
        BY <2>2, <3>2, TornIs, Unmoved DEF FileOK
    <2>3. CASE UNCHANGED file
      BY <2>3, Unmoved
    <2>4. QED
      BY <2>1, <2>2, <2>3 DEF Crash
  <1>4. Unused \in Lifecycle /\ SlotGood(Unused) /\ Unused.life = "none"
    BY UnusedGood DEF Unused
  <1>5. ClientOK'
    <2>1. ASSUME NEW c \in Clients PROVE Idle \in Caller
      BY CallerTypes, Unmoved
    <2>2. QED
      BY <1>1, <2>1 DEF ClientOK
  <1>6. chain' \in Seq(Operation) /\ DOMAIN chain' = {}
    BY <1>1
  <1>7. Typed'
    <2>1. tracked' \in Cursor /\ EntryOK'
      BY <1>1, NoEntryType DEF None, Cursor, EntryOK
    <2>2. SessionOK'
      BY <1>1, <1>4 DEF SessionOK
    <2>3. acked \in Seq(Event)
      BY Unmoved DEF RestOK
    <2>4. QED
      BY <1>1, <1>2, <1>3, <1>5, <1>6, <2>1, <2>2, <2>3 DEF Typed, ChainOK, OwnerOK, RestOK
  <1>8. OwnerHere' /\ RetiringEnded'
    BY <1>1 DEF OwnerHere, RetiringEnded, None
  <1>9. SlotsGood' /\ Heard'
    BY <1>1, <1>4 DEF SlotsGood, Heard
  <1>10. QED
    BY <1>6, <1>7, <1>8, <1>9 DEF Lives, Unique, AllServe

LEMMA UnloadLives == ASSUME Lives, Unload PROVE Lives'
  <1>1. /\ \A s \in Slots : session[s].life # "vetoed"
        /\ up' = FALSE
        /\ session' = [s \in Slots |-> IF s \in InUse THEN CallFlush(session[s], "unload") ELSE session[s]]
        /\ UNCHANGED <<file, tracked, entry, chain, retiring, client, acked>>
    BY DEF Unload
  <1>2. trouble' \in 0 .. MaxTrouble
    BY SpendIs, Unmoved DEF Unload
  <1>3. ASSUME NEW s \in Slots
        PROVE  /\ session'[s] \in Lifecycle /\ SlotGood(session'[s]) /\ session'[s].life = session[s].life
               /\ \A op : Serves(op, session[s]) => Serves(op, session'[s])
    <2>1. session[s] \in Lifecycle /\ SlotGood(session[s])
      BY SlotTypes, Unmoved DEF Typed, Lives, SlotsGood
    <2>2. CASE s \in InUse
      <3>1. session[s].life # "none" /\ session[s].life # "vetoed"
        BY <1>1, <2>2 DEF InUse, Free
      <3>2. session'[s] = CallFlush(session[s], "unload") /\ "unload" \in Callers
        BY <1>1, <2>2 DEF Callers
      <3>3. QED
        BY <2>1, <3>1, <3>2, CallFlushIs
    <2>3. CASE s \notin InUse
      BY <1>1, <2>1, <2>3
    <2>4. QED
      BY <2>2, <2>3
  <1>4. SessionOK'
    BY <1>1, <1>3 DEF SessionOK
  <1>5. Typed'
    BY <1>1, <1>2, <1>4, Unmoved
       DEF Typed, Lives, FileOK, EntryOK, ChainOK, ClientOK, OwnerOK, RestOK
  <1>6. OwnerHere' /\ RetiringEnded'
    BY <1>1, <1>3, Unmoved DEF OwnerHere, RetiringEnded, Lives, OwnerOK, Cursor
  <1>7. SlotsGood' /\ Heard'
    BY <1>1, <1>3 DEF SlotsGood, Heard
  <1>8. AllServe(chain', session')
    <2>1. ASSUME NEW i \in DOMAIN chain, chain[i].kind \in SlotKinds
          PROVE  Serves(chain[i], session'[chain[i].who])
      <3>1. chain[i] \in Operation
        BY Unmoved, ElementOfSeq, LenProperties DEF ChainOK
      <3>2. chain[i].who \in Slots /\ Serves(chain[i], session[chain[i].who])
        BY <2>1, <3>1, OperationIs DEF Lives, AllServe
      <3>3. QED
        BY <1>3, <3>2
    <2>2. QED
      BY <1>1, <2>1 DEF AllServe
  <1>9. QED
    BY <1>1, <1>5, <1>6, <1>7, <1>8 DEF Lives

LEMMA ReloadLives == ASSUME Lives, Reload PROVE Lives'
  <1> DEFINE p == CHOOSE s \in Present : TRUE
             r == Entered(LiveView, "pending")
             op == CreatedOp(p, LiveView)
  <1>1. /\ up' = TRUE /\ tracked' = None /\ entry' = NoEntry /\ retiring' = 0
        /\ chain' = IF Present = {} THEN <<>> ELSE <<op>>
        /\ session' = [s \in Slots |-> IF s \notin Present THEN Unused ELSE r]
        /\ UNCHANGED <<file, client, acked, trouble>>
    BY DEF Reload, Entered
  <1>2. Unused \in Lifecycle /\ SlotGood(Unused) /\ Unused.life = "none"
    BY UnusedGood DEF Unused
  <1>3. Present \subseteq Slots /\ (Present # {} => p \in Present)
    BY DEF Present
  <1>4. Present # {} =>
           /\ r \in Lifecycle /\ SlotGood(r) /\ r.life = "live" /\ r.init = "pending"
           /\ r.events = LiveView /\ r.handed = Len(r.events) /\ LiveView \in Seq(Event)
    <2>1. Present # {} => LiveView \in Seq(Event)
      BY <1>3, SlotTypes, Unmoved DEF LiveView, Typed
    <2>2. QED
      BY <2>1, EnteredGood
  <1>5. Present # {} => op \in Operation /\ op.kind = "created" /\ op.who = p /\ op.batch = LiveView
    BY <1>3, <1>4, OperationMakes DEF CreatedOp
  <1> HIDE DEF p, r, op
  <1>6. SessionOK' /\ SlotsGood' /\ Heard'
    BY <1>1, <1>2, <1>4 DEF SessionOK, SlotsGood, Heard
  <1>7. ChainOK' /\ Unique(chain') /\ AllServe(chain', session')
    <2>1. CASE Present = {}
      <3>1. chain' \in Seq(Operation) /\ DOMAIN chain' = {}
        BY <1>1, <2>1
      <3>2. QED
        BY <3>1 DEF ChainOK, Unique, AllServe
    <2>2. CASE Present # {}
      <3>1. chain' = <<op>> /\ op \in Operation
        BY <1>1, <1>5, <2>2
      <3>2. chain' \in Seq(Operation) /\ DOMAIN chain' = {1} /\ chain'[1] = op
        BY <3>1
      <3>3. Serves(op, session'[op.who])
        <4>1. session'[p] = r
          BY <1>1, <1>3, <2>2
        <4>2. Len(op.batch) \in Nat
          BY <1>4, <1>5, <2>2
        <4>3. QED
          BY <1>4, <1>5, <2>2, <4>1, <4>2 DEF Serves
      <3>4. QED
        BY <3>2, <3>3 DEF ChainOK, Unique, AllServe
    <2>3. QED
      BY <2>1, <2>2
  <1>8. Typed'
    <2>1. tracked' \in Cursor /\ EntryOK'
      BY <1>1, NoEntryType DEF None, Cursor, EntryOK
    <2>2. QED
      BY <1>1, <1>6, <1>7, <2>1, Unmoved DEF Typed, OwnerOK, RestOK
  <1>9. OwnerHere' /\ RetiringEnded'
    BY <1>1 DEF OwnerHere, RetiringEnded, None
  <1>10. QED
    BY <1>6, <1>7, <1>8, <1>9 DEF Lives

-----------------------------------------------------------------------------
(* What holds in every behaviour.                                          *)

LEMMA InitLives == Init => Lives
  <1> SUFFICES ASSUME Init PROVE Lives
    OBVIOUS
  <1>1. Unused \in Lifecycle /\ SlotGood(Unused) /\ Unused.life = "none"
    BY UnusedGood DEF Unused
  <1>2. FileOK /\ EntryOK
    BY NoFileType, NoEntryType DEF Init, FileOK, EntryOK
  <1>3. OwnerOK /\ OwnerHere /\ RetiringEnded
    BY DEF Init, OwnerOK, OwnerHere, RetiringEnded, None, Cursor
  <1>4. SessionOK /\ SlotsGood /\ Heard
    BY <1>1 DEF Init, SessionOK, SlotsGood, Heard
  <1>5. ClientOK
    <2>1. Idle \in Caller
      <3>1. <<>> \in Seq(Event)
        OBVIOUS
      <3>2. QED
        BY <3>1, NoFileType DEF Idle, Caller
    <2>2. QED
      BY <2>1 DEF Init, ClientOK
  <1>6. ChainOK /\ Unique(chain) /\ AllServe(chain, session)
    BY DEF Init, ChainOK, Unique, AllServe
  <1>7. RestOK
    BY BoundsAssumption DEF Init, RestOK
  <1>8. QED
    BY <1>2, <1>3, <1>4, <1>5, <1>6, <1>7 DEF Lives, Typed

LEMMA NextLives == Lives /\ [Next]_vars => Lives'
  <1> SUFFICES ASSUME Lives, [Next]_vars PROVE Lives'
    OBVIOUS
  <1>1. CASE Microtask
    BY <1>1, FlushReadyLives, WriteReadyLives, ProceedLives, RetiredLives, EntryLostLives,
       InspectLives, ReserveLives DEF Microtask
  <1>2. CASE ChainStep
    BY <1>2, AppendBeginLives, AppendCommitsLives, CreatedLives, RetireLives, LoadLives, CheckLives,
       VoidLives, NothingToLoadLives, CommitOwnedLives, CommitStaleLives, CommitRepairsLives,
       TruncateLives, RepairLives, CommitsLives DEF ChainStep
  <1>3. CASE ChainFails
    BY <1>3, AppendFailsLives, LoadFailsLives, CommitFailsLives, CheckLives DEF ChainFails
  <1>4. CASE \E s \in Slots : Emit(s) \/ Checkpoint(s) \/ End(s) \/ Deadline(s)
    BY <1>4, EmitLives, CheckpointLives, EndLives, DeadlineLives
  <1>5. CASE \E c \in Clients : Ask(c) \/ Setup(c) \/ Conclude(c) \/ Abort(c)
    BY <1>5, AskLives, SetupLives, PublishLives, ReleaseLives, CreateLives, GiveUpLives, AbortLives
       DEF Conclude
  <1>6. CASE Evict \/ ForeignResume \/ Crash \/ Unload \/ Reload
    BY <1>6, EvictLives, ForeignResumeLives, CrashLives, UnloadLives, ReloadLives
  <1>7. CASE UNCHANGED vars
    BY <1>7 DEF vars, Lives, Typed, FileOK, EntryOK, ChainOK, SessionOK, ClientOK, OwnerOK, RestOK,
       OwnerHere, RetiringEnded, SlotsGood, Heard, Unique, AllServe
  <1>8. QED
    BY <1>1, <1>2, <1>3, <1>4, <1>5, <1>6, <1>7 DEF Next

(* The inductive invariant: whatever is on the chain for a lifecycle finds *)
(* it as it was queued for, at most one operation each, and every queued   *)
(* event has something that will move it.                                  *)
THEOREM LifecyclesServed == Spec => []Lives
  BY InitLives, NextLives, PTL DEF Spec

(* Every variable stays within its type; the owner of the cursor is a live *)
(* or ended lifecycle, and the one being retired has ended                 *)
(* (coordinator.ts states and retirements).                                *)
THEOREM TypeCorrect == Spec => []TypeOK
  <1>1. Lives => TypeOK
    BY TypeParts DEF Lives
  <1>2. QED
    BY <1>1, LifecyclesServed, PTL

(* No accepted event is forgotten: a deadline, a write, a continuation or  *)
(* a flush will move it unless writing or the initialisation failed; and a *)
(* lifecycle is released only once its queue is empty, however flushes,    *)
(* deadlines, failures and retirements interleave (SessionWriteBehind,     *)
(* retireCore).                                                            *)
THEOREM NothingStranded == Spec => []NotStranded
  <1>1. ASSUME Lives PROVE NotStranded
    <2> SUFFICES ASSUME NEW s \in Slots
                 PROVE  /\ session[s].w.pending # <<>> =>
                             \/ session[s].w.timer \/ Active(session[s].w) \/ session[s].w.next # "none"
                             \/ session[s].w.barrier # "none" \/ session[s].atInit # {}
                             \/ session[s].w.paused \/ session[s].init = "failed"
                        /\ Queued("retire", s) => ~HasWork(session[s].w)
      BY Zenon DEF NotStranded
    <2>1. session[s].w.pending # <<>> =>
             \/ session[s].w.timer \/ Active(session[s].w) \/ session[s].w.next # "none"
             \/ session[s].w.barrier # "none" \/ session[s].atInit # {}
             \/ session[s].w.paused \/ session[s].init = "failed"
      BY <1>1 DEF Lives, SlotsGood, SlotGood, Stands
    <2>2. Queued("retire", s) => ~HasWork(session[s].w)
      BY <1>1 DEF Lives, AllServe, Serves, Queued, SlotKinds
    <2>3. QED
      BY <2>1, <2>2
  <1>2. QED
    BY <1>1, LifecyclesServed, PTL

-----------------------------------------------------------------------------
(* The second layer: the pool's entry, those who hold it, and the log.     *)

Holding == {"commit", "reserved"}
Engaged == Holding \cup {"check"}
Holds(c) == client[c].pc \in Holding /\ client[c].seen
Loaded == {"ready", "committing", "reserved"}
Writing(op) == op.kind \in {"write", "seed"} /\ op.stage = "io"
Mine(op) == op.kind = "load" /\ op.mine

\* Whoever has read the log, or established its cursor, has found one.
LogStored ==
    /\ file.log = <<>> => file = NoFile
    /\ tracked.known /\ tracked.owner = 0 => file.log # <<>>
    /\ entry.phase \in Loaded => entry.src.log # <<>> /\ Len(entry.src.log) <= Len(file.log)
    /\ \A c \in Clients : client[c].pc \in Holding => file.log # <<>>
    /\ \A i \in DOMAIN chain : chain[i].kind = "load" /\ ~chain[i].mine => file.log # <<>>

\* The entry that is loading has one load; the others fill a removed one.
LoadsGood ==
    \A i \in DOMAIN chain : Mine(chain[i]) =>
        /\ entry.phase = "loading"
        /\ \A j \in DOMAIN chain : Mine(chain[j]) => i = j

\* A caller that commits has one commit queued: of the entry it holds, or, once
\* that is gone, of a log that has grown since. Only the running one may be
\* past its checks.
CommitsGood ==
    \A i \in DOMAIN chain : chain[i].kind = "commit" =>
        /\ client[chain[i].who].pc = "commit"
        /\ \A j \in DOMAIN chain : chain[j].kind = "commit" /\ chain[j].who = chain[i].who => i = j
        /\ IF client[chain[i].who].seen THEN chain[i].src = entry.src
           ELSE Len(chain[i].src.log) < Len(file.log)
        /\ chain[i].stage # "queued" => i = 1 /\ client[chain[i].who].seen

\* Only the running operation writes, something, and never while the entry is reserved.
WritesGood ==
    \A i \in DOMAIN chain : Writing(chain[i]) =>
        i = 1 /\ entry.phase # "reserved" /\ chain[i].batch # <<>>

\* At most one caller holds the entry, and the phase says how.
HoldersGood ==
    /\ \A c \in Clients :
          /\ client[c].pc = "commit" /\ client[c].seen => entry.phase = "committing"
          /\ client[c].pc = "reserved" => client[c].seen /\ entry.phase = "reserved"
    /\ \A c, d \in Clients : Holds(c) /\ Holds(d) => c = d

\* A caller that checks its source has one check queued.
ChecksGood ==
    \A i \in DOMAIN chain : chain[i].kind = "check" =>
        /\ client[chain[i].who].pc = "check"
        /\ \A j \in DOMAIN chain : chain[j].kind = "check" /\ chain[j].who = chain[i].who => i = j

Pool == LogStored /\ LoadsGood /\ CommitsGood /\ WritesGood /\ HoldersGood /\ ChecksGood

\* The commits, the checks and the running write of q are those of p, k places
\* earlier; so are its loads.
Carries(q, p, k) ==
    \A i \in DOMAIN q : q[i].kind \in {"commit", "check"} \/ Writing(q[i]) =>
        i + k \in DOMAIN p /\ q[i] = p[i + k]
Loads(q, p, k) == From({"load"}, q, p, k)

LEMMA CarriesCases ==
    ASSUME NEW q \in Seq(Operation)
    PROVE  /\ Carries(q, q, 0) /\ Loads(q, q, 0)
           /\ q # <<>> => Carries(Tail(q), q, 1) /\ Loads(Tail(q), q, 1)
           /\ \A op \in Operation : op.kind \notin {"load", "commit", "check"} /\ ~Writing(op) =>
                 /\ Carries(Append(q, op), q, 0) /\ Loads(Append(q, op), q, 0)
                 /\ q # <<>> => Carries([q EXCEPT ![1] = op], q, 0) /\ Loads([q EXCEPT ![1] = op], q, 0)
  <1>1. \A i \in DOMAIN q : i + 0 = i
    OBVIOUS
  <1>2. Carries(q, q, 0) /\ Loads(q, q, 0)
    BY <1>1 DEF Carries, Loads, From
  <1>3. q # <<>> => Carries(Tail(q), q, 1) /\ Loads(Tail(q), q, 1)
    <2>1. ASSUME q # <<>> PROVE Carries(Tail(q), q, 1) /\ Loads(Tail(q), q, 1)
      <3>1. From({"load"}, Tail(q), q, 1)
        BY <2>1, TailIs
      <3>2. From({"commit", "check", "write", "seed"}, Tail(q), q, 1)
        BY <2>1, TailIs
      <3>3. QED
        BY <3>1, <3>2 DEF Carries, Loads, From, Writing
    <2>2. QED
      BY <2>1
  <1>4. ASSUME NEW op \in Operation, op.kind \notin {"load", "commit", "check"}, ~Writing(op)
        PROVE  Carries(Append(q, op), q, 0) /\ Loads(Append(q, op), q, 0)
    <2> DEFINE r == Append(q, op)
    <2>1. /\ DOMAIN r = 1 .. Len(q) + 1 /\ DOMAIN q = 1 .. Len(q) /\ Len(q) \in Nat
          /\ \A i \in DOMAIN q : r[i] = q[i]
          /\ r[Len(q) + 1] = op
      BY AppendIs
    <2> HIDE DEF r
    <2>2. \A i \in DOMAIN r : i \in DOMAIN q \/ i = Len(q) + 1
      BY <2>1
    <2>3. Carries(r, q, 0) /\ Loads(r, q, 0)
      BY <1>1, <1>4, <2>1, <2>2 DEF Carries, Loads, From
    <2>4. QED
      BY <2>3 DEF r
  <1>5. ASSUME NEW op \in Operation, op.kind \notin {"load", "commit", "check"}, ~Writing(op), q # <<>>
        PROVE  Carries([q EXCEPT ![1] = op], q, 0) /\ Loads([q EXCEPT ![1] = op], q, 0)
    <2> DEFINE r == [q EXCEPT ![1] = op]
    <2>1. DOMAIN r = DOMAIN q /\ r[1] = op /\ \A i \in DOMAIN q : i # 1 => r[i] = q[i]
      BY <1>5, HeadIs
    <2> HIDE DEF r
    <2>2. Carries(r, q, 0) /\ Loads(r, q, 0)
      BY <1>1, <1>5, <2>1 DEF Carries, Loads, From
    <2>3. QED
      BY <2>2 DEF r
  <1>6. QED
    BY <1>2, <1>3, <1>4, <1>5

LEMMA OrphanedCarries ==
    ASSUME NEW q \in Seq(Operation), NEW p \in Seq(Operation), NEW k \in Nat, Carries(q, p, k)
    PROVE  /\ Carries(Orphaned(q), p, k)
           /\ \A i \in DOMAIN Orphaned(q) : ~Mine(Orphaned(q)[i])
           /\ Orphaned(q) \in Seq(Operation)
  <1> DEFINE r == Orphaned(q)
  <1>1. /\ r \in Seq(Operation) /\ DOMAIN r = DOMAIN q
        /\ \A i \in DOMAIN q : r[i].kind = q[i].kind
        /\ From({"commit", "check", "write", "seed"}, r, q, 0)
    BY OrphanedIs
  <1>2. ASSUME NEW i \in DOMAIN r PROVE ~Mine(r[i])
    <2>1. i \in DOMAIN q /\ q[i] \in Operation
      BY <1>1, ElementOfSeq, LenProperties
    <2>2. CASE q[i].kind = "load"
      <3>1. q[i] \in [kind : {"load"}, mine : BOOLEAN]
        BY <2>1, <2>2 DEF Operation
      <3>2. r[i] = [q[i] EXCEPT !.mine = FALSE]
        BY <2>1, <2>2 DEF Orphaned
      <3>3. QED
        BY <3>1, <3>2 DEF Mine
    <2>3. CASE q[i].kind # "load"
      BY <1>1, <2>1, <2>3 DEF Mine
    <2>4. QED
      BY <2>2, <2>3
  <1> HIDE DEF r
  <1>3. Carries(r, p, k)
    <2>1. ASSUME NEW i \in DOMAIN r, r[i].kind \in {"commit", "check"} \/ Writing(r[i])
          PROVE  i \in DOMAIN q /\ r[i] = q[i]
      <3>1. i + 0 = i /\ r[i].kind \in {"commit", "check", "write", "seed"}
        BY <1>1, <2>1 DEF Writing
      <3>2. QED
        BY <1>1, <3>1 DEF From
    <2>2. QED
      BY <2>1 DEF Carries
  <1>4. QED
    BY <1>1, <1>2, <1>3 DEF r

LEMMA Longer ==
    ASSUME FileOK, FileOK', Len(file.log) <= Len(file'.log), file.log # <<>> PROVE file'.log # <<>>
  <1>1. file.log \in Seq(Event) /\ file'.log \in Seq(Event)
    BY DEF FileOK, Source
  <1>2. QED
    BY <1>1, EmptySeq, LenProperties

LEMMA CheckersSame ==
    ASSUME Lives, Pool, Lives', NEW k \in Nat, Carries(chain', chain, k),
           \A i \in DOMAIN chain' : chain'[i].kind = "check" => client'[chain'[i].who].pc = "check"
    PROVE  ChecksGood'
  <1>1. DOMAIN chain \subseteq Nat \ {0} /\ DOMAIN chain' \subseteq Nat \ {0}
    BY DEF Lives, Typed, ChainOK
  <1>2. ASSUME NEW i \in DOMAIN chain', chain'[i].kind = "check",
               NEW j \in DOMAIN chain', chain'[j].kind = "check", chain'[j].who = chain'[i].who
        PROVE  i = j
    <2>1. /\ i + k \in DOMAIN chain /\ chain'[i] = chain[i + k]
          /\ j + k \in DOMAIN chain /\ chain'[j] = chain[j + k]
      BY <1>2 DEF Carries
    <2>2. i + k = j + k
      BY <1>2, <2>1 DEF Pool, ChecksGood
    <2>3. QED
      BY <1>1, <2>2
  <1>3. QED
    BY <1>2 DEF ChecksGood

\* A step that leaves the entry alone: nobody comes to hold it.
LEMMA PoolStep ==
    ASSUME Lives, Pool, Lives', UNCHANGED entry,
           Len(file.log) <= Len(file'.log), file'.log = <<>> => file' = NoFile,
           tracked'.known /\ tracked'.owner = 0 => file'.log # <<>>,
           NEW k \in Nat, Carries(chain', chain, k), Loads(chain', chain, k),
           \A c \in Clients : client'[c].pc \in Holding =>
               client'[c].pc = client[c].pc /\ client'[c].seen = client[c].seen,
           \A i \in DOMAIN chain' : chain'[i].kind \in {"commit", "check"} =>
               client'[chain'[i].who].pc = chain'[i].kind
    PROVE  Pool'
  <1>1. /\ chain \in Seq(Operation) /\ chain' \in Seq(Operation)
        /\ DOMAIN chain \subseteq Nat \ {0} /\ DOMAIN chain' \subseteq Nat \ {0}
    BY DEF Lives, Typed, ChainOK
  <1>2. \A i \in DOMAIN chain' : chain'[i].kind = "load" => i + k \in DOMAIN chain /\ chain'[i] = chain[i + k]
    BY DEF Loads, From
  <1> DEFINE n == Len(file.log)
             m == Len(file'.log)
  <1>9. /\ n \in Nat /\ m \in Nat /\ n <= m /\ (file.log # <<>> => file'.log # <<>>)
        /\ (entry.phase \in Loaded => Len(entry.src.log) \in Nat)
    <2>1. file.log \in Seq(Event) /\ file'.log \in Seq(Event) /\ entry.src.log \in Seq(Event)
      BY DEF Lives, Typed, FileOK, EntryOK, Preparation, Source
    <2>2. QED
      BY <2>1, EmptySeq, LenProperties
  <1>3. LogStored'
    <2>1. entry.phase \in Loaded => Len(entry.src.log) <= m
      BY <1>9 DEF Pool, LogStored
    <2>2. QED
      BY <1>2, <1>9, <2>1 DEF Pool, LogStored
  <1>4. LoadsGood'
    BY <1>1, <1>2 DEF Pool, LoadsGood, Mine
  <1>5. WritesGood'
    BY <1>1 DEF Pool, WritesGood, Carries
  <1>6. HoldersGood'
    BY DEF Pool, HoldersGood, Holds, Holding
  <1>7. CommitsGood'
    <2> SUFFICES ASSUME NEW i \in DOMAIN chain', chain'[i].kind = "commit"
                 PROVE  /\ client'[chain'[i].who].pc = "commit"
                        /\ \A j \in DOMAIN chain' :
                              chain'[j].kind = "commit" /\ chain'[j].who = chain'[i].who => i = j
                        /\ IF client'[chain'[i].who].seen THEN chain'[i].src = entry.src
                           ELSE Len(chain'[i].src.log) < Len(file'.log)
                        /\ chain'[i].stage # "queued" => i = 1 /\ client'[chain'[i].who].seen
      BY DEF CommitsGood
    <2>1. /\ i + k \in DOMAIN chain /\ chain'[i] = chain[i + k] /\ chain[i + k].kind = "commit"
          /\ chain'[i].who \in Clients /\ Len(chain'[i].src.log) \in Nat
      <3>1. chain'[i] \in Operation
        BY <1>1, ElementOfSeq, LenProperties
      <3>2. chain'[i].src \in Source
        BY <3>1, OperationIs
      <3>3. Len(chain'[i].src.log) \in Nat
        BY <3>2 DEF Source
      <3>4. QED
        BY <3>1, <3>3, OperationIs DEF Carries
    <2>2. client'[chain'[i].who].pc = "commit"
      OBVIOUS
    <2>3. client'[chain'[i].who].seen = client[chain'[i].who].seen
      BY <2>1, <2>2 DEF Holding
    <2>4. ASSUME NEW j \in DOMAIN chain', chain'[j].kind = "commit", chain'[j].who = chain'[i].who PROVE i = j
      <3>1. j + k \in DOMAIN chain /\ chain'[j] = chain[j + k]
        BY <2>4 DEF Carries
      <3>2. i + k = j + k
        BY <2>1, <2>4, <3>1 DEF Pool, CommitsGood
      <3>3. QED
        BY <1>1, <3>2
    <2>5. IF client'[chain'[i].who].seen THEN chain'[i].src = entry.src
          ELSE Len(chain'[i].src.log) < n
      BY <2>1, <2>3 DEF Pool, CommitsGood
    <2>9. IF client'[chain'[i].who].seen THEN chain'[i].src = entry.src
          ELSE Len(chain'[i].src.log) < m
      BY <1>9, <2>1, <2>5
    <2>6. chain'[i].stage # "queued" => i + k = 1 /\ client[chain'[i].who].seen
      BY <2>1 DEF Pool, CommitsGood
    <2>7. i + k = 1 => i = 1
      BY <1>1
    <2>8. QED
      BY <2>2, <2>3, <2>4, <2>6, <2>7, <2>9
  <1>8. ChecksGood'
    BY CheckersSame
  <1>10. QED
    BY <1>3, <1>4, <1>5, <1>6, <1>7, <1>8 DEF Pool

\* A step that takes the entry away: those who had joined it do not see it.
LEMMA PoolLost ==
    ASSUME Lives, Pool, Lives', entry' = NoEntry, file'.log # <<>>,
           NEW k \in Nat, Carries(chain', chain, k), \A i \in DOMAIN chain' : ~Mine(chain'[i]),
           \A c \in Clients : client'[c].pc \in Holding =>
               client'[c].pc = "commit" /\ client[c].pc = "commit" /\ ~client'[c].seen,
           \A i \in DOMAIN chain' : chain'[i].kind = "commit" =>
               /\ client'[chain'[i].who].pc = "commit" /\ chain'[i].stage = "queued"
               /\ Len(chain'[i].src.log) < Len(file'.log),
           \A i \in DOMAIN chain' : chain'[i].kind = "check" => client'[chain'[i].who].pc = "check"
    PROVE  Pool'
  <1>1. /\ chain \in Seq(Operation) /\ chain' \in Seq(Operation)
        /\ DOMAIN chain \subseteq Nat \ {0} /\ DOMAIN chain' \subseteq Nat \ {0}
    BY DEF Lives, Typed, ChainOK
  <1>2. entry'.phase = "none"
    BY DEF NoEntry
  <1>3. LogStored' /\ LoadsGood'
    BY <1>2 DEF LogStored, LoadsGood, Loaded
  <1>4. WritesGood'
    BY <1>1, <1>2 DEF Pool, WritesGood, Carries
  <1>5. HoldersGood'
    BY DEF HoldersGood, Holds, Holding
  <1>6. CommitsGood'
    <2> SUFFICES ASSUME NEW i \in DOMAIN chain', chain'[i].kind = "commit",
                        NEW j \in DOMAIN chain', chain'[j].kind = "commit", chain'[j].who = chain'[i].who
                 PROVE  i = j /\ ~client'[chain'[i].who].seen
      BY Zenon DEF CommitsGood
    <2>1. chain'[i].who \in Clients
      <3>1. chain'[i] \in Operation
        BY <1>1, ElementOfSeq, LenProperties
      <3>2. QED
        BY <3>1, OperationIs
    <2>2. /\ i + k \in DOMAIN chain /\ chain'[i] = chain[i + k]
          /\ j + k \in DOMAIN chain /\ chain'[j] = chain[j + k]
      BY DEF Carries
    <2>3. i + k = j + k
      BY <2>2 DEF Pool, CommitsGood
    <2>4. QED
      BY <1>1, <2>1, <2>3 DEF Holding
  <1>7. ChecksGood'
    BY CheckersSame
  <1>8. QED
    BY <1>3, <1>4, <1>5, <1>6, <1>7 DEF Pool

\* The callers that hold the entry, or wait to commit or check it, go on doing so.
HoldersSame ==
    \A c \in Clients : client[c].pc \in Engaged \/ client'[c].pc \in Engaged =>
        client'[c].pc = client[c].pc /\ client'[c].seen = client[c].seen

LEMMA PoolSame ==
    ASSUME Lives, Pool, Lives', UNCHANGED entry,
           Len(file.log) <= Len(file'.log), file'.log = <<>> => file' = NoFile,
           tracked'.known /\ tracked'.owner = 0 => tracked.known /\ tracked.owner = 0,
           NEW k \in Nat, Carries(chain', chain, k), Loads(chain', chain, k), HoldersSame
    PROVE  Pool'
  <1>1. /\ chain' \in Seq(Operation) /\ \A c \in Clients : client'[c].pc \in Holding =>
               client'[c].pc = client[c].pc /\ client'[c].seen = client[c].seen
    BY DEF HoldersSame, Engaged, Lives, Typed, ChainOK
  <1>2. ASSUME NEW i \in DOMAIN chain', chain'[i].kind \in {"commit", "check"}
        PROVE  client'[chain'[i].who].pc = chain'[i].kind
    <2>1. chain'[i] \in Operation
      BY <1>1, ElementOfSeq, LenProperties
    <2>2. chain'[i].who \in Clients /\ client[chain'[i].who].pc = chain'[i].kind
      BY <1>2, <2>1, OperationIs DEF Carries, Pool, CommitsGood, ChecksGood
    <2>3. QED
      BY <1>2, <2>2 DEF HoldersSame, Engaged, Holding
  <1>3. tracked'.known /\ tracked'.owner = 0 => file'.log # <<>>
    BY Longer DEF Pool, LogStored, Lives, Typed
  <1>4. QED
    BY <1>1, <1>2, <1>3, PoolStep

LEMMA SameHolders == UNCHANGED client => HoldersSame
  BY DEF HoldersSame

LEMMA OtherCallers ==
    ASSUME ClientOK, NEW c \in Clients, NEW r, client' = [client EXCEPT ![c] = r],
           \/ r.pc = client[c].pc /\ r.seen = client[c].seen
           \/ client[c].pc \notin Engaged /\ r.pc \notin Engaged
    PROVE  HoldersSame
  BY DEF HoldersSame, ClientOK

LEMMA FailedPc ==
    ASSUME NEW c \in Clients
    PROVE  /\ Failed(c).pc \in {"idle", "absent"} /\ Failed(c).pc \notin Engaged
           /\ \A view : Told(c, view).pc = "idle" /\ Told(c, view).pc \notin Engaged
           /\ Idle.pc = "idle" /\ Idle.pc \notin Engaged
  BY DEF Failed, Told, Idle, Engaged, Holding

LEMMA AgainPc ==
    ASSUME ClientOK, NEW c \in Clients
    PROVE  /\ Again(c).pc = "retirement" /\ Again(c).on = retiring /\ Again(c).pc \notin Engaged
           /\ Retries(c) \in {Idle, Again(c)} /\ Retries(c).pc \notin Engaged
  BY DEF Retries, Idle, Again, Engaged, Holding, ClientOK, Caller

\* The commit that runs: its caller waits for it, and no other is its own.
LEMMA RunningCommit ==
    ASSUME Lives, Pool, Head1("commit")
    PROVE  /\ chain # <<>> /\ Running \in Operation /\ Running.kind = "commit"
           /\ Running.who \in Clients /\ Running.src \in Source
           /\ client[Running.who].pc = "commit" /\ file.log # <<>>
           /\ IF client[Running.who].seen THEN Running.src = entry.src /\ entry.phase = "committing"
              ELSE Len(Running.src.log) < Len(file.log)
           /\ Running.stage # "queued" => client[Running.who].seen
           /\ Tail(chain) \in Seq(Operation) /\ Carries(Tail(chain), chain, 1) /\ Loads(Tail(chain), chain, 1)
           /\ \A i \in DOMAIN Tail(chain) : Tail(chain)[i].kind = "commit" =>
                 Tail(chain)[i].who # Running.who /\ Tail(chain)[i].stage = "queued"
  <1>1. chain # <<>> /\ Running.kind = "commit" /\ chain \in Seq(Operation) /\ 1 \in DOMAIN chain
        /\ DOMAIN chain \subseteq Nat \ {0} /\ Running = chain[1]
    BY TailIs DEF Head1, Running, Lives, Typed, ChainOK
  <1>2. Running \in Operation /\ Running.who \in Clients /\ Running.src \in Source
        /\ Tail(chain) \in Seq(Operation)
    BY <1>1, RunningIs DEF Lives
  <1>3. Carries(Tail(chain), chain, 1) /\ Loads(Tail(chain), chain, 1)
    BY <1>1, CarriesCases
  <1>4. client[Running.who].pc = "commit"
        /\ (IF client[Running.who].seen THEN Running.src = entry.src
            ELSE Len(Running.src.log) < Len(file.log))
        /\ (Running.stage # "queued" => client[Running.who].seen)
    BY <1>1 DEF Pool, CommitsGood
  <1>5. file.log # <<>> /\ (client[Running.who].seen => entry.phase = "committing")
    BY <1>2, <1>4 DEF Pool, LogStored, HoldersGood, Holding
  <1>6. ASSUME NEW i \in DOMAIN Tail(chain), Tail(chain)[i].kind = "commit"
        PROVE  Tail(chain)[i].who # Running.who /\ Tail(chain)[i].stage = "queued"
    <2>1. i \in Nat \ {0} /\ i + 1 \in DOMAIN chain /\ Tail(chain)[i] = chain[i + 1] /\ i + 1 # 1
      BY <1>2, <1>3, <1>6 DEF Carries
    <2>2. QED
      BY <1>1, <1>6, <2>1 DEF Pool, CommitsGood
  <1>7. QED
    BY <1>1, <1>2, <1>3, <1>4, <1>5, <1>6

\* A caller that held the entry, or waited to commit it, moves on without it.
LEMMA DropPool ==
    ASSUME Lives, Pool, Lives', NEW c \in Clients, client[c].pc \in Holding,
           NEW q \in Seq(Operation), NEW k \in Nat, Carries(q, chain, k), Loads(q, chain, k),
           NEW r, r.pc \notin Engaged, Drop(c, q, r), Len(file.log) <= Len(file'.log),
           \A i \in DOMAIN q : q[i].kind = "commit" => q[i].who # c
    PROVE  Pool'
  <1>1. client \in [Clients -> Caller] /\ r.pc \notin Holding
    BY DEF Lives, Typed, ClientOK, Engaged
  <1>7. \A i \in DOMAIN q : q[i].kind = "check" =>
            q[i].who \in Clients /\ q[i].who # c /\ client[q[i].who].pc = "check"
    <2>1. ASSUME NEW i \in DOMAIN q, q[i].kind = "check"
          PROVE  q[i].who \in Clients /\ client[q[i].who].pc = "check"
      <3>1. q[i] \in Operation
        BY ElementOfSeq, LenProperties
      <3>2. QED
        BY <2>1, <3>1, OperationIs DEF Carries, Pool, ChecksGood
    <2>2. QED
      BY <2>1 DEF Holding
  <1>6. file.log # <<>> /\ file'.log # <<>>
    BY Longer DEF Pool, LogStored, Lives, Typed
  <1>2. \A i \in DOMAIN q : q[i].kind = "commit" =>
            q[i].who \in Clients /\ q[i].who # c /\ client[q[i].who].pc = "commit"
    <2>1. ASSUME NEW i \in DOMAIN q, q[i].kind = "commit" PROVE q[i].who \in Clients /\ client[q[i].who].pc = "commit"
      <3>1. q[i] \in Operation
        BY ElementOfSeq, LenProperties
      <3>2. QED
        BY <2>1, <3>1, OperationIs DEF Carries, Pool, CommitsGood
    <2>2. QED
      BY <2>1
  <1>3. CASE client[c].seen
    <2>1. entry' = NoEntry /\ chain' = Orphaned(q) /\ client' = [Unseen(client) EXCEPT ![c] = r]
      BY <1>3 DEF Drop
    <2>2. /\ client'[c] = r
          /\ \A d \in Clients : d # c => client'[d].pc = client[d].pc /\ ~client'[d].seen
      <3>1. Unseen(client) = [d \in Clients |-> [client[d] EXCEPT !.seen = FALSE]]
        BY DEF Unseen
      <3>2. \A d \in Clients : LET e == [client[d] EXCEPT !.seen = FALSE] IN e.pc = client[d].pc /\ ~e.seen
        BY <1>1 DEF Caller
      <3>3. client'[c] = r /\ \A d \in Clients : d # c => client'[d] = [client[d] EXCEPT !.seen = FALSE]
        BY <2>1, <3>1
      <3>4. QED
        BY <3>2, <3>3
    <2>3. \A d \in Clients : client[d].pc = "reserved" => d = c
      BY <1>3 DEF Pool, HoldersGood, Holds, Holding
    <2>4. Carries(chain', chain, k) /\ (\A i \in DOMAIN chain' : ~Mine(chain'[i])) /\ Carries(chain', q, 0)
      BY <2>1, OrphanedCarries, CarriesCases DEF Lives, Typed, ChainOK
    <2>5. \A d \in Clients : client'[d].pc \in Holding =>
              client'[d].pc = "commit" /\ client[d].pc = "commit" /\ ~client'[d].seen
      BY <1>1, <2>2, <2>3 DEF Holding
    <2>6. ASSUME NEW i \in DOMAIN chain', chain'[i].kind = "commit"
          PROVE  /\ client'[chain'[i].who].pc = "commit" /\ chain'[i].stage = "queued"
                 /\ Len(chain'[i].src.log) < Len(file'.log)
      <3>1. i \in Nat /\ i + 0 = i /\ chain'[i] \in Operation
        BY ElementOfSeq, LenProperties DEF Lives, Typed, ChainOK
      <3>2. i \in DOMAIN q /\ chain'[i] = q[i]
        BY <2>4, <2>6, <3>1 DEF Carries
      <3>4. ~client[chain'[i].who].seen
        BY <1>2, <1>3, <2>6, <3>2 DEF Pool, HoldersGood, Holds, Holding
      <3>3. client'[chain'[i].who].pc = "commit" /\ chain'[i].stage = "queued"
        <4>1. client'[chain'[i].who].pc = "commit"
          BY <1>2, <2>2, <2>6, <3>2
        <4>2. chain'[i].stage = "queued"
          BY <2>4, <2>6, <3>4 DEF Carries, Pool, CommitsGood
        <4>3. QED
          BY <4>1, <4>2
      <3>5. Len(chain'[i].src.log) < Len(file.log)
        BY <2>4, <2>6, <3>4 DEF Carries, Pool, CommitsGood
      <3>6. Len(chain'[i].src.log) \in Nat /\ Len(file.log) \in Nat /\ Len(file'.log) \in Nat
        <4>1. chain'[i].src \in Source /\ file \in Source /\ file' \in Source
          BY <2>6, <3>1, OperationIs DEF Lives, Typed, FileOK
        <4>2. QED
          BY <4>1 DEF Source
      <3> DEFINE a == Len(chain'[i].src.log)
                 b == Len(file.log)
                 d == Len(file'.log)
      <3>7. a < d
        <4> HIDE DEF a, b, d
        <4>1. a \in Nat /\ b \in Nat /\ d \in Nat /\ a < b /\ b <= d
          BY <3>5, <3>6 DEF a, b, d
        <4>2. QED
          BY <4>1
      <3>8. QED
        BY <3>3, <3>7
    <2>7. ASSUME NEW i \in DOMAIN chain', chain'[i].kind = "check" PROVE client'[chain'[i].who].pc = "check"
      <3>1. i \in Nat /\ i + 0 = i
        BY DEF Lives, Typed, ChainOK
      <3>2. i \in DOMAIN q /\ chain'[i] = q[i]
        BY <2>4, <2>7, <3>1 DEF Carries
      <3>3. QED
        BY <1>7, <2>2, <2>7, <3>2
    <2>8. QED
      BY <1>6, <2>1, <2>4, <2>5, <2>6, <2>7, PoolLost
  <1>4. CASE ~client[c].seen
    <2>1. entry' = entry /\ chain' = q /\ client' = [client EXCEPT ![c] = r]
      BY <1>4 DEF Drop
    <2>2. \A d \in Clients : client'[d].pc \in Holding =>
              client'[d].pc = client[d].pc /\ client'[d].seen = client[d].seen
      BY <1>1, <2>1
    <2>3. \A i \in DOMAIN chain' : chain'[i].kind \in {"commit", "check"} =>
              client'[chain'[i].who].pc = chain'[i].kind
      BY <1>1, <1>2, <1>7, <2>1
    <2>4. QED
      BY <1>6, <2>1, <2>2, <2>3, PoolStep
  <1>5. QED
    BY <1>3, <1>4

-----------------------------------------------------------------------------
(* The steps that leave the entry and its holders alone.                   *)

LEMMA PoolQuiet ==
    ASSUME Lives, Pool, Lives', UNCHANGED <<file, entry>>, HoldersSame,
           tracked'.known /\ tracked'.owner = 0 => tracked.known /\ tracked.owner = 0,
           \/ UNCHANGED chain
           \/ chain # <<>> /\ chain' = Tail(chain)
           \/ \E op \in Operation :
                 /\ op.kind \notin {"load", "commit", "check"} /\ ~Writing(op)
                 /\ \/ chain' = Append(chain, op)
                    \/ chain # <<>> /\ chain' = [chain EXCEPT ![1] = op]
    PROVE  Pool'
  <1>1. chain \in Seq(Operation) /\ 0 \in Nat /\ 1 \in Nat
    BY DEF Lives, Typed, ChainOK
  <1>2. \E k \in Nat : Carries(chain', chain, k) /\ Loads(chain', chain, k)
    <2>1. CASE UNCHANGED chain
      BY <1>1, <2>1, CarriesCases
    <2>2. CASE chain # <<>> /\ chain' = Tail(chain)
      BY <1>1, <2>2, CarriesCases
    <2>3. ASSUME NEW op \in Operation, op.kind \notin {"load", "commit", "check"}, ~Writing(op),
                 chain' = Append(chain, op) \/ (chain # <<>> /\ chain' = [chain EXCEPT ![1] = op])
          PROVE  Carries(chain', chain, 0) /\ Loads(chain', chain, 0)
      BY <1>1, <2>3, CarriesCases
    <2>4. QED
      BY <1>1, <2>1, <2>2, <2>3
  <1>3. Len(file.log) <= Len(file'.log) /\ (file'.log = <<>> => file' = NoFile)
    <2>1. file.log \in Seq(Event)
      BY DEF Lives, Typed, FileOK, Source
    <2>2. Len(file.log) \in Nat
      BY <2>1, LenProperties
    <2>3. QED
      BY <2>2 DEF Pool, LogStored
  <1>4. QED
    BY <1>2, <1>3, PoolSame

LEMMA QueuedHarmless ==
    ASSUME NEW s \in Slots
    PROVE  \A op \in {WriteOp(s), RetireOp(s)} :
              op \in Operation /\ op.kind \notin {"load", "commit", "check"} /\ ~Writing(op)
  <1>1. WriteOp(s).kind = "write" /\ WriteOp(s).stage = "queued" /\ RetireOp(s).kind = "retire"
    BY DEF WriteOp, RetireOp
  <1>2. QED
    BY <1>1, OperationMakes DEF Writing

LEMMA AnswerSame ==
    ASSUME Lives, NEW s \in Slots, NEW who, NEW ok \in BOOLEAN, Answer(s, who, ok)
    PROVE  /\ HoldersSame
           /\ \/ UNCHANGED chain
              \/ chain' = Append(chain, RetireOp(s))
  <1>1. HoldersSame
    <2>1. \A c \in Clients : client'[c] = client[c] \/
              (client[c].pc = "retirement" /\ client'[c] = Failed(c))
      BY DEF Answer
    <2>2. QED
      BY <2>1, FailedPc DEF HoldersSame, Engaged, Holding
  <1>2. QED
    BY <1>1 DEF Answer

LEMMA FlushReadyPool == ASSUME Lives, Pool, Lives', NEW s \in Slots, FlushReady(s) PROVE Pool'
  <1>1. UNCHANGED <<file, tracked, entry>>
    BY DEF FlushReady
  <1>2. \E who : Answer(s, who, TRUE) \/ Answer(s, who, FALSE)
    BY DEF FlushReady
  <1>3. HoldersSame /\ (UNCHANGED chain \/ chain' = Append(chain, RetireOp(s)))
    BY <1>2, AnswerSame
  <1>4. QED
    BY <1>1, <1>3, QueuedHarmless, PoolQuiet

LEMMA ProceedPool == ASSUME Lives, Pool, Lives', NEW s \in Slots, Proceed(s) PROVE Pool'
  <1>1. UNCHANGED <<file, tracked, entry>>
    BY DEF Proceed
  <1>2. (\E who : \E ok \in BOOLEAN : Answer(s, who, ok)) \/ UNCHANGED <<chain, client>>
    <2>1. (session[s].w.next # "reject") \in BOOLEAN
      OBVIOUS
    <2>2. Advance(s, Continue(session[s].w), session[s].w.next = "reject")
      BY DEF Proceed
    <2>3. QED
      BY <2>1, <2>2, Zenon DEF Advance
  <1>3. HoldersSame /\ (UNCHANGED chain \/ chain' = Append(chain, RetireOp(s)))
    BY <1>2, AnswerSame, SameHolders
  <1>4. QED
    BY <1>1, <1>3, QueuedHarmless, PoolQuiet

LEMMA WriteReadyPool == ASSUME Lives, Pool, Lives', NEW s \in Slots, WriteReady(s) PROVE Pool'
  <1>1. UNCHANGED <<file, tracked, entry, client>> /\ (UNCHANGED chain \/ chain' = Append(chain, WriteOp(s)))
    BY DEF WriteReady
  <1>2. QED
    BY <1>1, SameHolders, QueuedHarmless, PoolQuiet

LEMMA LifecyclePool ==
    ASSUME Lives, Pool, Lives',
           \/ \E s \in Slots : Emit(s) \/ Checkpoint(s) \/ End(s) \/ Deadline(s)
           \/ Unload
    PROVE  Pool'
  <1>1. UNCHANGED <<file, tracked, entry, client, chain>>
    BY DEF Emit, Checkpoint, End, Deadline, Unload
  <1>2. QED
    BY <1>1, SameHolders, PoolQuiet

-----------------------------------------------------------------------------
(* The appends of a lifecycle.                                             *)

LEMMA AppendFailsPool == ASSUME Lives, Pool, Lives', AppendFails PROVE Pool'
  <1>1. UNCHANGED <<file, tracked, entry, client>> /\ chain # <<>> /\ chain' = Tail(chain)
    BY DEF AppendFails, Appending, Head1
  <1>2. QED
    BY <1>1, SameHolders, PoolQuiet

\* The numbers of the events that the running append is to write.
Seqs ==
    IF Running.kind = "write" THEN Fresh(Running.who)
    ELSE [i \in DOMAIN Running.batch |-> Running.from + i - 1]

LEMMA SeqsIs ==
    ASSUME Lives, chain # <<>>, Running.kind \in {"write", "seed"}
    PROVE  /\ Running \in Operation /\ Running.who \in Slots /\ Serves(Running, session[Running.who])
           /\ \E n \in Nat :
                 /\ DOMAIN Seqs = 1 .. n /\ (Seqs = <<>> <=> n = 0)
                 /\ \A i \in 1 .. n : Seqs[i] \in 1 .. Len(session[Running.who].events)
                 /\ Running.kind = "seed" => n = Len(Running.batch)
                 /\ Running.kind = "write" => n = Len(Fresh(Running.who))
  <1>1. chain \in Seq(Operation) /\ AllServe(chain, session) /\ Running \in Operation /\ 1 \in DOMAIN chain
    BY TailIs DEF Lives, Typed, ChainOK, Running
  <1>2. Running.who \in Slots /\ Serves(Running, session[Running.who])
    BY <1>1, OperationIs DEF AllServe, SlotKinds, Running
  <1>3. CASE Running.kind = "write"
    <2>1. /\ Fresh(Running.who) \in Seq(1 .. Len(session[Running.who].events)) /\ Len(Fresh(Running.who)) \in Nat
          /\ DOMAIN Fresh(Running.who) = 1 .. Len(Fresh(Running.who))
          /\ \A i \in 1 .. Len(Fresh(Running.who)) : Fresh(Running.who)[i] \in 1 .. Len(session[Running.who].events)
      BY <1>2, FreshIs
    <2>2. Fresh(Running.who) = <<>> <=> Len(Fresh(Running.who)) = 0
      BY <2>1, EmptySeq
    <2>3. QED
      BY <1>1, <1>2, <1>3, <2>1, <2>2 DEF Seqs
  <1>4. CASE Running.kind = "seed"
    <2> DEFINE from == Running.from
               n == Len(Running.batch)
               m == Len(session[Running.who].events)
    <2>1. /\ Running.batch \in Seq(Event) /\ from \in Nat /\ from > 0 /\ from + n <= m + 1
          /\ session[Running.who].events \in Seq(Event)
      BY <1>1, <1>2, <1>4, OperationIs, SlotTypes DEF Serves, Lives, Typed
    <2>2. n \in Nat /\ m \in Nat /\ DOMAIN Running.batch = 1 .. n
      BY <2>1, LenProperties
    <2>3. Seqs = [i \in 1 .. n |-> from + i - 1]
      BY <1>4, <2>2 DEF Seqs
    <2> HIDE DEF from, n, m
    <2>4. \A i \in 1 .. n : from + i - 1 \in 1 .. m
      BY <2>1, <2>2
    <2>5. Seqs = <<>> <=> n = 0
      BY <2>2, <2>3
    <2>6. QED
      BY <1>1, <1>2, <1>4, <2>2, <2>3, <2>4, <2>5 DEF n, m
  <1>5. QED
    BY <1>3, <1>4

\* The running append settles at once, or starts to write the next events.
LEMMA AppendBeginIs ==
    ASSUME Lives, AppendBegin
    PROVE  /\ UNCHANGED <<file, tracked, entry, retiring, client, acked, trouble, up>>
           /\ chain # <<>> /\ Running.kind \in {"write", "seed"} /\ Running.stage = "queued"
           /\ \/ /\ chain' = Tail(chain)
                 /\ \E ok \in BOOLEAN : session' = Settled(Running, ok) /\ (ok => Seqs = <<>>)
              \/ /\ UNCHANGED session /\ Writable /\ Seqs # <<>>
                 /\ \A i \in DOMAIN Seqs : Seqs[i] = tracked.cursor + i
                 /\ \E op \in Operation :
                       /\ chain' = [chain EXCEPT ![1] = op]
                       /\ op.kind = Running.kind /\ op.who = Running.who /\ op.stage = "io"
                       /\ op.from = Running.from /\ DOMAIN op.batch = DOMAIN Seqs
                       /\ \A i \in DOMAIN Seqs : op.batch[i] = session[Running.who].events[Seqs[i]]
  <1> DEFINE batch == [i \in DOMAIN Seqs |-> session[Running.who].events[Seqs[i]]]
             op == [Running EXCEPT !.stage = "io", !.batch = batch]
  <1>1. chain # <<>> /\ Running.kind \in {"write", "seed"} /\ Running.stage = "queued"
        /\ UNCHANGED <<file, tracked, entry, retiring, client, acked, trouble, up>>
    BY DEF AppendBegin, Head1, Running
  <1>2. \/ /\ chain' = [chain EXCEPT ![1] = op] /\ UNCHANGED session /\ Seqs # <<>>
           /\ Writable /\ \A i \in DOMAIN Seqs : Seqs[i] = tracked.cursor + i
        \/ chain' = Tail(chain) /\ session' = Settled(Running, Seqs = <<>>)
    <2>1. \/ /\ chain' = [chain EXCEPT ![1] = [@ EXCEPT !.stage = "io", !.batch = batch]] /\ UNCHANGED session
             /\ Seqs # <<>> /\ Writable /\ \A i \in DOMAIN Seqs : Seqs[i] = tracked.cursor + i
          \/ chain' = Tail(chain) /\ session' = Settled(Running, Seqs = <<>>)
      BY DEF AppendBegin, Seqs
    <2>2. [chain EXCEPT ![1] = [@ EXCEPT !.stage = "io", !.batch = batch]] = [chain EXCEPT ![1] = op]
      BY DEF Running
    <2> HIDE DEF batch
    <2>3. QED
      BY <2>1, <2>2
  <1>3. CASE chain' = Tail(chain) /\ session' = Settled(Running, Seqs = <<>>)
    <2>1. (Seqs = <<>>) \in BOOLEAN
      OBVIOUS
    <2>2. QED
      BY <1>1, <1>3, <2>1
  <1>4. CASE /\ chain' = [chain EXCEPT ![1] = op] /\ UNCHANGED session /\ Seqs # <<>>
             /\ Writable /\ \A i \in DOMAIN Seqs : Seqs[i] = tracked.cursor + i
    <2>1. Running \in Operation /\ Running.who \in Slots /\ batch \in Seq(Event)
      <3>1. /\ Running \in Operation /\ Running.who \in Slots
            /\ \E n \in Nat : DOMAIN Seqs = 1 .. n /\
                   \A i \in 1 .. n : Seqs[i] \in 1 .. Len(session[Running.who].events)
        BY <1>1, SeqsIs
      <3>2. session[Running.who].events \in Seq(Event)
        BY <3>1, SlotTypes DEF Lives, Typed
      <3>3. QED
        BY <3>1, <3>2, EventsAt
    <2>2. Running \in [kind : {"write", "seed"}, who : Slots, stage : {"queued", "io"}, from : Nat,
                       batch : Seq(Event)]
      BY <1>1, <2>1 DEF Operation
    <2>3. DOMAIN batch = DOMAIN Seqs /\ \A i \in DOMAIN Seqs : batch[i] = session[Running.who].events[Seqs[i]]
      OBVIOUS
    <2> HIDE DEF batch
    <2>4. op \in [kind : {"write", "seed"}, who : Slots, stage : {"queued", "io"}, from : Nat,
                  batch : Seq(Event)]
          /\ op.kind = Running.kind /\ op.who = Running.who /\ op.from = Running.from /\ op.batch = batch
          /\ op.stage = "io"
      BY <2>1, <2>2
    <2>5. op \in Operation
      BY <2>4 DEF Operation
    <2> HIDE DEF op
    <2>6. QED
      BY <1>1, <1>4, <2>3, <2>4, <2>5
  <1>5. QED
    BY <1>2, <1>3, <1>4

LEMMA AppendBeginPool == ASSUME Lives, Pool, Lives', AppendBegin PROVE Pool'
  <1>1. /\ UNCHANGED <<file, tracked, entry, client>> /\ chain # <<>> /\ chain \in Seq(Operation)
        /\ Running.kind \in {"write", "seed"} /\ chain' \in Seq(Operation)
        /\ DOMAIN chain \subseteq Nat \ {0}
    BY AppendBeginIs DEF Lives, Typed, ChainOK
  <1>2. CASE chain' = Tail(chain)
    BY <1>1, <1>2, SameHolders, PoolQuiet
  <1>3. ASSUME Writable, Seqs # <<>>, NEW op \in Operation, chain' = [chain EXCEPT ![1] = op],
               op.kind \in {"write", "seed"}, DOMAIN op.batch = DOMAIN Seqs
        PROVE  Pool'
    <2>1. DOMAIN chain' = DOMAIN chain /\ chain'[1] = op /\ \A i \in DOMAIN chain : i # 1 => chain'[i] = chain[i]
      BY <1>1, <1>3, HeadIs
    <2>2. \A i \in DOMAIN chain' : chain'[i].kind \in {"load", "commit", "check"} => chain'[i] = chain[i]
      BY <1>1, <1>3, <2>1
    <2>3. op.batch # <<>>
      <3>1. \E n \in Nat : DOMAIN Seqs = 1 .. n /\ (Seqs = <<>> <=> n = 0)
        BY <1>1, SeqsIs
      <3>2. QED
        BY <1>3, <3>1
    <2>4. LogStored' /\ LoadsGood' /\ HoldersGood'
      BY <1>1, <2>1, <2>2 DEF Pool, LogStored, LoadsGood, Mine, HoldersGood, Holds, Holding
    <2>5. CommitsGood'
      BY <1>1, <2>1, <2>2 DEF Pool, CommitsGood
    <2>6. WritesGood'
      BY <1>1, <1>3, <2>1, <2>3 DEF Pool, WritesGood, Writable
    <2>7. ChecksGood'
      BY <1>1, <2>1, <2>2 DEF Pool, ChecksGood
    <2>8. QED
      BY <2>4, <2>5, <2>6, <2>7 DEF Pool
  <1>4. QED
    BY <1>1, <1>2, <1>3, AppendBeginIs

\* What a created lifecycle finds: a cursor without an owner, or the file.
Claims == tracked.known /\ tracked.owner = 0
Found == IF Claims THEN SubSeq(Stored(file), 1, tracked.cursor) ELSE Stored(file)
Beyond == SubSeq(Running.batch, Len(Found) + 1, Len(Running.batch))

LEMMA CreatedIs ==
    ASSUME Lives, Created
    PROVE  /\ chain # <<>> /\ Running.kind = "created" /\ Running \in Operation
           /\ Running.who \in Slots /\ Running.batch \in Seq(Event)
           /\ session[Running.who].init = "pending" /\ session[Running.who].life \in {"live", "ended"}
           /\ Len(Running.batch) <= Len(session[Running.who].events)
           /\ Len(Found) \in Nat /\ Stored(file) \in Seq(Event)
           /\ UNCHANGED <<entry, retiring, client, acked, trouble, up>>
           /\ \/ /\ chain' = Tail(chain) /\ UNCHANGED file
                 /\ tracked' = IF tracked.owner # 0 /\ ~CollidesWithOwner THEN None ELSE tracked
                 /\ session' = [session EXCEPT ![Running.who].init = "failed"]
              \/ /\ ~(tracked.known /\ CollidesWithOwner) /\ Covers(Running.batch, Found)
                 /\ Claims \/ Found # <<>> \/ entry = NoEntry
                 /\ tracked' = [cursor |-> Len(Found), owner |-> Running.who, known |-> TRUE]
                 /\ file' = IF Claims THEN file ELSE [NoFile EXCEPT !.log = Stored(file)]
                 /\ \/ /\ Beyond = <<>> /\ chain' = Tail(chain)
                       /\ session' = [session EXCEPT ![Running.who].init = "ok"]
                    \/ /\ Beyond # <<>> /\ UNCHANGED session
                       /\ chain' = [chain EXCEPT ![1] = SeedOp(Running.who, Len(Found) + 1, Beyond)]
                       /\ SeedOp(Running.who, Len(Found) + 1, Beyond) \in Operation
  <1>1. chain # <<>> /\ Running.kind = "created" /\ UNCHANGED <<entry, retiring, client, acked, trouble, up>>
    BY DEF Created, Head1, Running
  <1>2. chain \in Seq(Operation) /\ AllServe(chain, session) /\ Running \in Operation /\ 1 \in DOMAIN chain
    BY <1>1, TailIs DEF Lives, Typed, ChainOK, Running
  <1>3. Running.who \in Slots /\ Running.batch \in Seq(Event) /\ Serves(Running, session[Running.who])
    BY <1>1, <1>2, OperationIs DEF AllServe, SlotKinds, Running
  <1>4. /\ session[Running.who].init = "pending" /\ session[Running.who].life \in {"live", "ended"}
        /\ Len(Running.batch) <= Len(session[Running.who].events)
    BY <1>1, <1>3 DEF Serves
  <1>5. tracked.cursor \in Nat /\ Stored(file) \in Seq(Event)
    BY Unmoved, SourceType DEF OwnerOK, Cursor, FileOK
  <1>6. Len(Found) \in Nat
    BY <1>5, CutLength DEF Found
  <1>7. Beyond \in Seq(Event)
    <2>1. Len(Found) + 1 \in Nat \ {0} /\ Len(Running.batch) \in Int
          /\ Len(Running.batch) <= Len(Running.batch)
      BY <1>3, <1>6
    <2>2. QED
      BY <1>3, <2>1, CutType DEF Beyond
  <1>8. SeedOp(Running.who, Len(Found) + 1, Beyond) \in Operation
    BY <1>3, <1>6, <1>7, OperationMakes
  <1>9. <<SeedOp(Running.who, Len(Found) + 1, Beyond)>> \o Tail(chain)
            = [chain EXCEPT ![1] = SeedOp(Running.who, Len(Found) + 1, Beyond)]
    BY <1>1, <1>2, <1>8, HeadIs
  <1>10. \/ InitFails(Running.who)
         \/ /\ ~(tracked.known /\ CollidesWithOwner) /\ Covers(Running.batch, Found)
            /\ Claims \/ Found # <<>> \/ entry = NoEntry
            /\ InitOwns(Running.who, Running.batch, Len(Found))
            /\ file' = IF Claims THEN file ELSE [NoFile EXCEPT !.log = Stored(file)]
    BY DEF Created, Claims, Found
  <1>11. CASE InitFails(Running.who)
    BY <1>1, <1>2, <1>3, <1>4, <1>5, <1>6, <1>11 DEF InitFails
  <1>12. CASE InitOwns(Running.who, Running.batch, Len(Found)) /\ ~InitFails(Running.who)
    <2>1. /\ tracked' = [cursor |-> Len(Found), owner |-> Running.who, known |-> TRUE]
          /\ \/ /\ Beyond = <<>> /\ chain' = Tail(chain)
                /\ session' = [session EXCEPT ![Running.who].init = "ok"]
             \/ /\ Beyond # <<>> /\ UNCHANGED session
                /\ chain' = <<SeedOp(Running.who, Len(Found) + 1, Beyond)>> \o Tail(chain)
      BY <1>12 DEF InitOwns, Beyond
    <2>2. QED
      BY <1>1, <1>2, <1>3, <1>4, <1>5, <1>6, <1>8, <1>9, <1>10, <1>12, <2>1, Zenon
  <1>13. QED
    BY <1>10, <1>11, <1>12

LEMMA StoredLonger ==
    ASSUME NEW src \in Source
    PROVE  Len(src.log) \in Nat /\ Len(src.log) <= Len(Stored(src))
  <1>1. src.log \in Seq(Event) /\ src.extra \in Seq(Event)
    BY DEF Source
  <1>2. Len(src.log \o src.extra) = Len(src.log) + Len(src.extra) /\ Len(src.log) \in Nat /\ Len(src.extra) \in Nat
    BY <1>1, ConcatProperties, LenProperties
  <1> DEFINE n == Len(src.log)
             k == Len(src.extra)
             m == Len(Stored(src))
  <1>3. n \in Nat /\ k \in Nat /\ m = n + k
    BY <1>2 DEF Stored
  <1> HIDE DEF n, k, m
  <1>4. n \in Nat /\ n <= m
    BY <1>3
  <1>5. QED
    BY <1>4 DEF n, m

LEMMA CreatedPool == ASSUME Lives, Pool, Lives', Created PROVE Pool'
  <1>1. chain # <<>> /\ chain \in Seq(Operation) /\ UNCHANGED <<entry, client>> /\ HoldersSame
    BY CreatedIs, SameHolders DEF Lives, Typed, ChainOK
  <1>2. CASE chain' = Tail(chain) /\ UNCHANGED file /\ (tracked' = tracked \/ tracked' = None)
    BY <1>1, <1>2, PoolQuiet DEF None
  <1>3. CASE /\ tracked' = [cursor |-> Len(Found), owner |-> Running.who, known |-> TRUE]
             /\ file' = IF Claims THEN file ELSE [NoFile EXCEPT !.log = Stored(file)]
             /\ \/ chain' = Tail(chain)
                \/ /\ chain' = [chain EXCEPT ![1] = SeedOp(Running.who, Len(Found) + 1, Beyond)]
                   /\ SeedOp(Running.who, Len(Found) + 1, Beyond) \in Operation
    <2>1. tracked'.owner # 0
      BY <1>3, CreatedIs, NotZero
    <2>2. Len(file.log) <= Len(file'.log) /\ (file'.log = <<>> => file' = NoFile)
      <3>1. file \in Source /\ Len(file.log) \in Nat /\ Len(file.log) <= Len(Stored(file))
        BY StoredLonger DEF Lives, Typed, FileOK
      <3>2. CASE Claims
        BY <1>3, <3>1, <3>2 DEF Pool, LogStored
      <3>3. CASE ~Claims
        <4>1. file' = [NoFile EXCEPT !.log = Stored(file)]
          BY <1>3, <3>3
        <4>2. file'.log = Stored(file) /\ (file'.log = <<>> => file' = NoFile)
          BY <4>1 DEF NoFile
        <4>3. QED
          BY <3>1, <4>2
      <3>4. QED
        BY <3>2, <3>3
    <2>3. \E k \in Nat : Carries(chain', chain, k) /\ Loads(chain', chain, k)
      <3>1. CASE chain' = Tail(chain)
        BY <1>1, <3>1, CarriesCases
      <3>2. CASE /\ chain' = [chain EXCEPT ![1] = SeedOp(Running.who, Len(Found) + 1, Beyond)]
                 /\ SeedOp(Running.who, Len(Found) + 1, Beyond) \in Operation
        <4> DEFINE op == SeedOp(Running.who, Len(Found) + 1, Beyond)
        <4>1. op.kind = "seed" /\ op.stage = "queued"
          BY DEF SeedOp
        <4> HIDE DEF op
        <4>2. op.kind \notin {"load", "commit", "check"} /\ ~Writing(op)
          BY <4>1 DEF Writing
        <4>3. QED
          BY <1>1, <3>2, <4>2, CarriesCases DEF op
      <3>3. QED
        BY <1>3, <3>1, <3>2
    <2>4. QED
      BY <1>1, <2>1, <2>2, <2>3, PoolSame
  <1>4. QED
    BY <1>2, <1>3, CreatedIs

LEMMA RetirePool == ASSUME Lives, Pool, Lives', Retire PROVE Pool'
  <1>1. /\ chain # <<>> /\ chain' = Tail(chain) /\ UNCHANGED <<file, entry>>
        /\ tracked' = tracked \/ tracked' = None
    BY DEF Retire, Head1
  <1>2. HoldersSame
    <2>1. \A c \in Clients : client[c] \in Caller
      BY DEF Lives, Typed, ClientOK
    <2>2. \A c \in Clients : client'[c] = client[c] \/ client'[c] = [client[c] EXCEPT !.on = 0]
      BY DEF Retire
    <2>3. QED
      BY <2>1, <2>2 DEF HoldersSame, Caller
  <1>3. QED
    BY <1>1, <1>2, PoolQuiet DEF None

-----------------------------------------------------------------------------
(* The callers.                                                            *)

LEMMA LookPool ==
    ASSUME Lives, Pool, Lives', NEW c \in Clients, client[c].pc \notin Engaged,
           NEW cl \in Caller, cl.pc \notin Engaged, Look(c, cl), UNCHANGED <<file, tracked>>
    PROVE  Pool'
  <1>1. ClientOK /\ chain \in Seq(Operation) /\ client \in [Clients -> Caller]
    BY DEF Lives, Typed, ChainOK, ClientOK
  <1>2. CASE Present # {}
    <2>1. UNCHANGED <<entry, chain>> /\ \E r : client' = [client EXCEPT ![c] = r] /\ r.pc \notin Engaged
      BY <1>2, FailedPc DEF Look
    <2>2. HoldersSame
      BY <1>1, <2>1, OtherCallers
    <2>3. QED
      BY <2>1, <2>2, PoolQuiet
  <1>3. CASE ~(Present # {})
    <2> DEFINE loaded == cl.does = "inspect" /\ entry.phase \notin {"none", "loading"}
               src == IF loaded THEN entry.src ELSE NoFile
               pc == IF loaded THEN "loaded" ELSE "entry"
               r == [cl EXCEPT !.pc = pc, !.seen = TRUE, !.src = src]
    <2>1. /\ client' = [client EXCEPT ![c] = r]
          /\ IF entry.phase = "none"
             THEN entry' = [NoEntry EXCEPT !.phase = "loading"] /\ chain' = Append(chain, LoadOp)
             ELSE UNCHANGED <<entry, chain>>
      BY <1>3 DEF Look
    <2>2. r.pc = pc /\ pc \notin Engaged
      BY DEF Caller, Engaged, Holding
    <2> HIDE DEF pc, src, r
    <2>3. HoldersSame
      BY <1>1, <2>1, <2>2, OtherCallers
    <2>4. CASE entry.phase # "none"
      BY <2>1, <2>3, <2>4, PoolQuiet
    <2>5. CASE entry.phase = "none"
      <3>1. chain' = Append(chain, LoadOp) /\ entry'.phase = "loading"
        BY <2>1, <2>5 DEF NoEntry
      <3>2. LoadOp \in Operation /\ LoadOp.kind = "load" /\ LoadOp.mine
        BY OperationMakes DEF LoadOp
      <3>3. /\ DOMAIN chain' = 1 .. Len(chain) + 1 /\ DOMAIN chain = 1 .. Len(chain) /\ Len(chain) \in Nat
            /\ \A i \in DOMAIN chain : chain'[i] = chain[i]
            /\ chain'[Len(chain) + 1] = LoadOp
        BY <1>1, <3>1, <3>2, AppendIs
      <3>4. \A i \in DOMAIN chain' : i \in DOMAIN chain \/ (i = Len(chain) + 1 /\ chain'[i] = LoadOp)
        BY <3>3
      <3>5. \A i \in DOMAIN chain' : chain'[i] # LoadOp => i \in DOMAIN chain /\ chain'[i] = chain[i]
        BY <3>3, <3>4
      <3>6. \A i \in DOMAIN chain : ~Mine(chain[i])
        BY <2>5 DEF Pool, LoadsGood
      <3>7. \A d \in Clients : client[d].pc \in Holding => ~client[d].seen /\ client[d].pc # "reserved"
        BY <2>5 DEF Pool, HoldersGood, Engaged, Holding
      <3>8. LogStored'
        BY <2>3, <3>1, <3>2, <3>5 DEF Pool, LogStored, HoldersSame, Engaged, Loaded
      <3>9. LoadsGood'
        BY <3>1, <3>3, <3>4, <3>6 DEF LoadsGood
      <3>10. WritesGood'
        <4>1. \A i \in DOMAIN chain' : Writing(chain'[i]) => chain'[i] # LoadOp
          BY <3>2 DEF Writing
        <4>2. QED
          BY <3>1, <3>5, <4>1 DEF Pool, WritesGood
      <3>11. HoldersGood'
        BY <2>3, <3>7 DEF HoldersGood, HoldersSame, Holds, Engaged, Holding
      <3>12. CommitsGood'
        <4>1. \A i \in DOMAIN chain' : chain'[i].kind = "commit" =>
                  i \in DOMAIN chain /\ chain'[i] = chain[i] /\ chain'[i].who \in Clients
          <5>1. \A i \in DOMAIN chain : chain[i] \in Operation
            BY <1>1, ElementOfSeq, LenProperties
          <5>2. QED
            BY <3>2, <3>5, <5>1, OperationIs
        <4>2. \A i \in DOMAIN chain' : chain'[i].kind = "commit" =>
                  /\ client'[chain'[i].who].pc = "commit"
                  /\ client'[chain'[i].who].seen = client[chain'[i].who].seen
                  /\ ~client[chain'[i].who].seen
          BY <2>3, <3>7, <4>1 DEF Pool, CommitsGood, HoldersSame, Engaged, Holding
        <4>3. QED
          BY <4>1, <4>2 DEF Pool, CommitsGood
      <3>13. ChecksGood'
        <4>1. \A i \in DOMAIN chain' : chain'[i].kind = "check" =>
                  i \in DOMAIN chain /\ chain'[i] = chain[i] /\ chain'[i].who \in Clients
          <5>1. \A i \in DOMAIN chain : chain[i] \in Operation
            BY <1>1, ElementOfSeq, LenProperties
          <5>2. QED
            BY <3>2, <3>5, <5>1, OperationIs
        <4>2. \A i \in DOMAIN chain' : chain'[i].kind = "check" => client'[chain'[i].who].pc = "check"
          BY <2>3, <4>1 DEF Pool, ChecksGood, HoldersSame, Engaged
        <4>3. QED
          BY <4>1, <4>2 DEF Pool, ChecksGood
      <3>14. QED
        BY <3>8, <3>9, <3>10, <3>11, <3>12, <3>13 DEF Pool
    <2>6. QED
      BY <2>4, <2>5
  <1>4. QED
    BY <1>2, <1>3

LEMMA AskPool == ASSUME Lives, Pool, Lives', NEW c \in Clients, Ask(c) PROVE Pool'
  <1> DEFINE cl == [Idle EXCEPT !.does = "inspect", !.floor = file.log]
  <1>1. UNCHANGED <<file, tracked>> /\ client[c].pc \notin Engaged /\ ClientOK
    BY DEF Ask, Engaged, Holding, Lives, Typed
  <1>2. Idle \in Caller /\ file.log \in Seq(Event)
    BY CallerTypes, Unmoved DEF FileOK, Source
  <1>3. cl \in Caller /\ cl.pc \notin Engaged
    BY <1>2 DEF Caller, Idle, Engaged, Holding
  <1>4. \/ /\ \E r : client' = [client EXCEPT ![c] = r] /\ r.pc \notin Engaged
           /\ UNCHANGED <<entry, chain>>
        \/ Look(c, cl)
    <2>1. [Idle EXCEPT !.pc = "retirement", !.on = retiring].pc \notin Engaged
          /\ [cl EXCEPT !.pc = "retirement", !.on = retiring].pc \notin Engaged
      BY DEF Idle, Engaged, Holding
    <2> HIDE DEF cl
    <2>2. QED
      BY <2>1 DEF Ask, cl
  <1>5. CASE Look(c, cl)
    BY <1>1, <1>3, <1>5, LookPool
  <1>6. ASSUME UNCHANGED <<entry, chain>>, NEW r, client' = [client EXCEPT ![c] = r], r.pc \notin Engaged
        PROVE  Pool'
    <2>1. HoldersSame
      BY <1>1, <1>6, OtherCallers
    <2>2. QED
      BY <1>1, <1>6, <2>1, PoolQuiet
  <1>7. QED
    BY <1>4, <1>5, <1>6

LEMMA RetiredPool == ASSUME Lives, Pool, Lives', NEW c \in Clients, Retired(c) PROVE Pool'
  <1>1. client[c] \in Caller /\ client[c].pc \notin Engaged /\ Look(c, client[c]) /\ UNCHANGED <<file, tracked>>
    BY CallerTypes, Unmoved DEF Retired, Engaged, Holding
  <1>2. QED
    BY <1>1, LookPool

\* A caller that does not hold the entry moves on by itself.
LEMMA CallerPool ==
    ASSUME Lives, Pool, Lives', NEW c \in Clients, UNCHANGED <<file, tracked, entry>>, NEW r,
           client' = [client EXCEPT ![c] = r], client[c].pc \notin Engaged, r.pc \notin Engaged,
           UNCHANGED chain
    PROVE  Pool'
  <1>1. HoldersSame
    BY OtherCallers DEF Lives, Typed
  <1>2. QED
    BY <1>1, PoolQuiet

LEMMA EntryLostPool == ASSUME Lives, Pool, Lives', NEW c \in Clients, EntryLost(c) PROVE Pool'
  <1>1. client[c].pc \notin Engaged /\ Again(c).pc \notin Engaged
    BY AgainPc DEF EntryLost, Engaged, Holding, Lives, Typed
  <1>2. QED
    BY <1>1, CallerPool DEF EntryLost

LEMMA GiveUpPool == ASSUME Lives, Pool, Lives', NEW c \in Clients, GiveUp(c) PROVE Pool'
  <1>1. client[c].pc \notin Engaged /\ Idle.pc \notin Engaged
    BY FailedPc DEF GiveUp, Engaged, Holding
  <1>2. QED
    BY <1>1, CallerPool DEF GiveUp

LEMMA InspectPool == ASSUME Lives, Pool, Lives', NEW c \in Clients, Inspect(c) PROVE Pool'
  <1>1. client[c] \in Caller /\ client[c].pc \notin Engaged /\ UNCHANGED <<file, tracked, entry>>
    BY CallerTypes, Unmoved DEF Inspect, Engaged, Holding
  <1>2. CASE Present # {}
    <2>1. Told(c, LiveView).pc \notin Engaged
      BY FailedPc
    <2>2. QED
      BY <1>1, <1>2, <2>1, CallerPool DEF Inspect
  <1>3. CASE ~(Present # {})
    <2> DEFINE op == CheckOp(c)
    <2>1. client' = [client EXCEPT ![c].pc = "check"] /\ chain' = Append(chain, op)
      BY <1>3 DEF Inspect
    <2>2. op \in Operation /\ op.kind = "check" /\ op.who = c
      BY OperationMakes DEF CheckOp
    <2> HIDE DEF op
    <2>3. chain \in Seq(Operation) /\ client \in [Clients -> Caller] /\ client[c].pc = "loaded"
      BY DEF Inspect, Lives, Typed, ChainOK, ClientOK
    <2>4. /\ DOMAIN chain' = 1 .. Len(chain) + 1 /\ DOMAIN chain = 1 .. Len(chain) /\ Len(chain) \in Nat
          /\ \A i \in DOMAIN chain : chain'[i] = chain[i]
          /\ chain'[Len(chain) + 1] = op
      BY <2>1, <2>2, <2>3, AppendIs
    <2>5. \A i \in DOMAIN chain' : i \in DOMAIN chain \/ (i = Len(chain) + 1 /\ chain'[i] = op)
      BY <2>4
    <2>6. \A d \in Clients : IF d = c THEN client'[d].pc = "check" ELSE client'[d] = client[d]
      BY <2>1, <2>3 DEF Caller
    <2>7. \A i \in DOMAIN chain : chain[i].kind \in {"commit", "check"} =>
              chain[i].who \in Clients /\ chain[i].who # c
      <3>1. \A i \in DOMAIN chain : chain[i] \in Operation
        BY <2>3, ElementOfSeq, LenProperties
      <3>2. QED
        BY <2>3, <3>1, OperationIs DEF Pool, CommitsGood, ChecksGood
    <2>8. \A i \in DOMAIN chain' : chain'[i].kind # "check" => i \in DOMAIN chain /\ chain'[i] = chain[i]
      BY <2>2, <2>4, <2>5
    <2>9. LogStored' /\ LoadsGood' /\ HoldersGood'
      BY <1>1, <2>3, <2>6, <2>8 DEF Pool, LogStored, LoadsGood, Mine, HoldersGood, Holds, Holding
    <2>10. CommitsGood'
      <3>1. \A i \in DOMAIN chain' : chain'[i].kind = "commit" =>
                i \in DOMAIN chain /\ chain'[i] = chain[i] /\ client'[chain'[i].who] = client[chain'[i].who]
        BY <2>6, <2>7, <2>8
      <3>2. QED
        BY <1>1, <3>1 DEF Pool, CommitsGood
    <2>11. WritesGood'
      BY <1>1, <2>8 DEF Pool, WritesGood, Writing
    <2>12. ChecksGood'
      BY <2>2, <2>4, <2>5, <2>6, <2>7 DEF Pool, ChecksGood
    <2>13. QED
      BY <2>9, <2>10, <2>11, <2>12 DEF Pool
  <1>4. QED
    BY <1>2, <1>3

LEMMA VoidPool == ASSUME Lives, Pool, Lives', Void PROVE Pool'
  BY PoolQuiet, SameHolders DEF Void, Head1

LEMMA SetupPool == ASSUME Lives, Pool, Lives', NEW c \in Clients, Setup(c) PROVE Pool'
  <1> DEFINE r == [client[c] EXCEPT !.log = Append(@, [kind |-> "note", by |-> 0])]
  <1>1. client[c] \in Caller /\ UNCHANGED <<file, tracked, entry, chain>> /\ client' = [client EXCEPT ![c] = r]
    BY CallerTypes, Unmoved DEF Setup, ClientOK
  <1>2. r.pc = client[c].pc /\ r.seen = client[c].seen
    BY <1>1 DEF Caller
  <1> HIDE DEF r
  <1>3. HoldersSame
    BY <1>1, <1>2, OtherCallers DEF Lives, Typed
  <1>4. QED
    BY <1>1, <1>3, PoolQuiet

\* Another process only appends to the log.
LEMMA ForeignResumePool == ASSUME Lives, Pool, Lives', ForeignResume PROVE Pool'
  <1>1. UNCHANGED <<tracked, entry, chain, client>> /\ chain \in Seq(Operation)
    BY DEF ForeignResume, Lives, Typed, ChainOK
  <1> DEFINE note == [kind |-> "note", by |-> 0]
             log == Append(Seeded(Balanced(file)), note)
  <1>2. file' = [NoFile EXCEPT !.log = log] /\ file'.log = log
    BY DEF ForeignResume, NoFile
  <1>3. Len(file.log) <= Len(file'.log) /\ file'.log # <<>>
    <2>1. file \in Source /\ note \in Event /\ Balanced(file) \in Seq(Event) /\ Seeded(Balanced(file)) \in Seq(Event)
      BY SourceType, SeededType, Unmoved DEF Event, Kinds, FileOK
    <2>2. Len(file.log) \in Nat /\ Len(file.log) <= Len(Stored(file))
      BY <2>1, StoredLonger
    <2>3. Len(Stored(file)) <= Len(Balanced(file)) /\ Len(Stored(file)) \in Nat /\ Len(Balanced(file)) \in Nat
      <3>1. Stored(file) \in Seq(Event) /\ Closers(Stored(file)) \in Seq(Event)
        BY <2>1, SourceType, ClosersType
      <3>2. Len(Balanced(file)) = Len(Stored(file)) + Len(Closers(Stored(file)))
            /\ Len(Stored(file)) \in Nat /\ Len(Closers(Stored(file))) \in Nat
        BY <3>1, ConcatProperties, LenProperties DEF Balanced
      <3>3. QED
        BY <3>2
    <2>4. Len(Balanced(file)) <= Len(Seeded(Balanced(file))) /\ Len(Seeded(Balanced(file))) \in Nat
      <3>1. [kind |-> "session/end-seed", by |-> 0] \in Event
        BY DEF Event, Kinds
      <3>2. Seeded(Balanced(file)) = Balanced(file) \/
            Len(Seeded(Balanced(file))) = Len(Balanced(file)) + 1
        BY <2>1, <3>1, AppendProperties DEF Seeded
      <3>3. QED
        BY <2>3, <3>2
    <2>5. Len(log) = Len(Seeded(Balanced(file))) + 1 /\ log # <<>>
      BY <2>1, AppendProperties
    <2> DEFINE a == Len(file.log)
               b == Len(Stored(file))
               d == Len(Balanced(file))
               e == Len(Seeded(Balanced(file)))
    <2>6. a <= e + 1
      <3>1. a \in Nat /\ b \in Nat /\ d \in Nat /\ e \in Nat /\ a <= b /\ b <= d /\ d <= e
        BY <2>2, <2>3, <2>4
      <3> HIDE DEF a, b, d, e
      <3>2. QED
        BY <3>1
    <2>7. QED
      BY <1>2, <2>5, <2>6
  <1>4. Carries(chain', chain, 0) /\ Loads(chain', chain, 0)
    BY <1>1, CarriesCases
  <1>5. QED
    BY <1>1, <1>3, <1>4, SameHolders, PoolSame

-----------------------------------------------------------------------------
(* Loads.                                                                  *)

\* The load of the entry has run: the entry is ready, or gone.
LEMMA LoadedPool ==
    ASSUME Lives, Pool, Lives', Head1("load"), UNCHANGED <<file, tracked>>, chain' = Tail(chain),
           HoldersSame, NEW e, entry' = IF Running.mine THEN e ELSE entry,
           e.phase = "none" \/ (e.phase = "ready" /\ e.src = file /\ file # NoFile)
    PROVE  Pool'
  <1>1. /\ chain # <<>> /\ chain \in Seq(Operation) /\ Running = chain[1] /\ 1 \in DOMAIN chain
        /\ Running.kind = "load" /\ DOMAIN chain \subseteq Nat \ {0} /\ chain' \in Seq(Operation)
    BY TailIs DEF Head1, Running, Lives, Typed, ChainOK
  <1>2. CASE ~Running.mine
    BY <1>1, <1>2, PoolQuiet
  <1>3. CASE Running.mine
    <2>1. entry' = e /\ entry.phase = "loading" /\ \A j \in DOMAIN chain : Mine(chain[j]) => j = 1
      BY <1>1, <1>3 DEF Pool, LoadsGood, Mine
    <2>2. \A c \in Clients : client[c].pc \in Holding => client[c].pc = "commit" /\ ~client[c].seen
      BY <2>1 DEF Pool, HoldersGood, Engaged, Holding
    <2>3. Carries(chain', chain, 1) /\ Loads(chain', chain, 1)
      BY <1>1, CarriesCases
    <2>4. \A i \in DOMAIN chain' : i \in Nat \ {0} /\ i + 1 # 1
      BY <1>1
    <2>5. \A i \in DOMAIN chain' : chain'[i].kind = "load" => i + 1 \in DOMAIN chain /\ chain'[i] = chain[i + 1]
      BY <2>3 DEF Loads, From
    <2>6. \A i \in DOMAIN chain' : ~Mine(chain'[i])
      BY <2>1, <2>4, <2>5 DEF Mine
    <2>7. LogStored'
      <3>1. file # NoFile => file.log # <<>>
        BY DEF Pool, LogStored
      <3>2. Len(file.log) <= Len(file.log)
        <4>1. file.log \in Seq(Event)
          BY DEF Lives, Typed, FileOK, Source
        <4>2. Len(file.log) \in Nat
          BY <4>1, LenProperties
        <4>3. QED
          BY <4>2
      <3>3. QED
        BY <2>1, <2>5, <3>1, <3>2 DEF Pool, LogStored, HoldersSame, Engaged, Loaded
    <2>8. LoadsGood'
      BY <2>6 DEF LoadsGood
    <2>9. WritesGood'
      BY <2>1, <2>3, <2>4 DEF Pool, WritesGood, Carries
    <2>10. HoldersGood'
      BY <2>2 DEF HoldersGood, HoldersSame, Holds, Engaged, Holding
    <2>11. CommitsGood'
      <3> SUFFICES ASSUME NEW i \in DOMAIN chain', chain'[i].kind = "commit"
                   PROVE  /\ client'[chain'[i].who].pc = "commit"
                          /\ ~client'[chain'[i].who].seen /\ Len(chain'[i].src.log) < Len(file.log)
                          /\ chain'[i].stage = "queued"
                          /\ \A j \in DOMAIN chain' :
                                chain'[j].kind = "commit" /\ chain'[j].who = chain'[i].who => i = j
        BY DEF CommitsGood
      <3>1. i + 1 \in DOMAIN chain /\ chain'[i] = chain[i + 1] /\ chain'[i].who \in Clients
        <4>1. chain'[i] \in Operation
          BY <1>1, ElementOfSeq, LenProperties
        <4>2. QED
          BY <2>3, <4>1, OperationIs DEF Carries
      <3>2. client[chain'[i].who].pc = "commit" /\ ~client[chain'[i].who].seen
        BY <2>2, <3>1 DEF Pool, CommitsGood, Engaged, Holding
      <3>3. client'[chain'[i].who].pc = "commit" /\ ~client'[chain'[i].who].seen
        BY <3>1, <3>2 DEF HoldersSame, Engaged, Holding
      <3>4. Len(chain'[i].src.log) < Len(file.log) /\ chain'[i].stage = "queued"
        BY <3>1, <3>2 DEF Pool, CommitsGood
      <3>5. ASSUME NEW j \in DOMAIN chain', chain'[j].kind = "commit", chain'[j].who = chain'[i].who PROVE i = j
        <4>1. j + 1 \in DOMAIN chain /\ chain'[j] = chain[j + 1]
          BY <2>3, <3>5 DEF Carries
        <4>2. i + 1 = j + 1
          BY <3>1, <3>5, <4>1 DEF Pool, CommitsGood
        <4>3. QED
          BY <2>4, <4>2
      <3>6. QED
        BY <3>3, <3>4, <3>5
    <2>12. ChecksGood'
      <3>1. ASSUME NEW i \in DOMAIN chain', chain'[i].kind = "check" PROVE client'[chain'[i].who].pc = "check"
        <4>1. chain'[i] \in Operation
          BY <1>1, ElementOfSeq, LenProperties
        <4>2. chain'[i].who \in Clients /\ client[chain'[i].who].pc = "check"
          BY <2>3, <3>1, <4>1, OperationIs DEF Carries, Pool, ChecksGood
        <4>3. QED
          BY <4>2 DEF HoldersSame, Engaged
      <3>2. QED
        BY <2>3, <3>1, CheckersSame
    <2>13. QED
      BY <2>7, <2>8, <2>9, <2>10, <2>11, <2>12 DEF Pool
  <1>4. QED
    BY <1>2, <1>3

LEMMA LoadPool == ASSUME Lives, Pool, Lives', Load PROVE Pool'
  <1> DEFINE e == [phase |-> "ready", src |-> file]
  <1>1. HoldersSame
    <2>1. \A c \in Clients : client[c] \in Caller
      BY DEF Lives, Typed, ClientOK
    <2>2. \A c \in Clients : client'[c] = client[c] \/
              (client[c].pc = "entry" /\ client'[c] = [client[c] EXCEPT !.pc = "loaded", !.src = file])
      BY DEF Load, Awaiting
    <2>3. QED
      BY <2>1, <2>2 DEF HoldersSame, Engaged, Holding, Caller
  <1>2. e.phase = "ready" /\ e.src = file
    OBVIOUS
  <1>3. /\ Head1("load") /\ UNCHANGED <<file, tracked>> /\ chain' = Tail(chain) /\ file # NoFile
        /\ entry' = IF Running.mine THEN e ELSE entry
    BY DEF Load
  <1> HIDE DEF e
  <1>4. QED
    BY <1>1, <1>2, <1>3, LoadedPool

LEMMA LoadThrowsPool == ASSUME Lives, Pool, Lives', NothingToLoad \/ LoadFails PROVE Pool'
  <1>1. LoadThrows /\ Head1("load")
    BY DEF NothingToLoad, LoadFails
  <1>2. HoldersSame
    <2>1. \A c \in Clients : client'[c] = client[c] \/
              (client[c].pc = "entry" /\ client'[c] \in {Told(c, LiveView), Failed(c)})
      BY <1>1 DEF LoadThrows, Awaiting
    <2>2. QED
      BY <2>1, FailedPc DEF HoldersSame, Engaged, Holding
  <1>3. NoEntry.phase = "none"
    BY DEF NoEntry
  <1>4. QED
    BY <1>1, <1>2, <1>3, LoadedPool DEF LoadThrows

-----------------------------------------------------------------------------
(* Reservations and commits.                                               *)

LEMMA ReservePool == ASSUME Lives, Pool, Lives', NEW c \in Clients, Reserve(c) PROVE Pool'
  <1> DEFINE op == CommitOp(c, entry.src)
  <1>1. /\ client[c] \in Caller /\ client[c].pc = "entry" /\ client[c].seen /\ entry.phase = "ready"
        /\ entry' = [entry EXCEPT !.phase = "committing"] /\ chain' = Append(chain, op)
        /\ client' = [client EXCEPT ![c].pc = "commit"] /\ UNCHANGED <<file, tracked>>
        /\ client \in [Clients -> Caller] /\ chain \in Seq(Operation) /\ entry \in Preparation
    BY DEF Reserve, Lives, Typed, ClientOK, ChainOK, EntryOK
  <1>2. /\ op \in Operation /\ op.kind = "commit" /\ op.who = c /\ op.src = entry.src
        /\ op.stage = "queued"
    <2>1. entry.src \in Source
      BY <1>1 DEF Preparation
    <2>2. QED
      BY <2>1, OperationMakes DEF CommitOp
  <1> HIDE DEF op
  <1>3. entry'.phase = "committing" /\ entry'.src = entry.src
    BY <1>1 DEF Preparation
  <1>4. /\ client'[c].pc = "commit" /\ client'[c].seen
        /\ \A d \in Clients : d # c => client'[d] = client[d]
    BY <1>1 DEF Caller
  <1>5. /\ DOMAIN chain' = 1 .. Len(chain) + 1 /\ DOMAIN chain = 1 .. Len(chain) /\ Len(chain) \in Nat
        /\ \A i \in DOMAIN chain : chain'[i] = chain[i]
        /\ chain'[Len(chain) + 1] = op
    BY <1>1, <1>2, AppendIs
  <1>6. \A i \in DOMAIN chain' : i \in DOMAIN chain \/ (i = Len(chain) + 1 /\ chain'[i] = op)
    BY <1>5
  <1>7. \A d \in Clients : client[d].pc \in Holding => client[d].pc = "commit" /\ ~client[d].seen /\ d # c
    BY <1>1 DEF Pool, HoldersGood, Engaged, Holding
  <1>8. \A i \in DOMAIN chain : ~Mine(chain[i])
    BY <1>1 DEF Pool, LoadsGood
  <1>9. \A i \in DOMAIN chain : chain[i].kind = "commit" =>
            /\ chain[i].who \in Clients /\ chain[i].who # c /\ ~client[chain[i].who].seen
    <2>1. \A i \in DOMAIN chain : chain[i] \in Operation
      BY <1>1, ElementOfSeq, LenProperties
    <2>2. QED
      BY <1>7, <2>1, OperationIs DEF Pool, CommitsGood, Engaged, Holding
  <1>10. LogStored'
    <2>1. file.log # <<>>
      <3>1. file.log \in Seq(Event) /\ entry.src.log \in Seq(Event)
        BY <1>1 DEF Lives, Typed, FileOK, Source, Preparation
      <3>2. entry.src.log # <<>> /\ Len(entry.src.log) <= Len(file.log)
        BY <1>1 DEF Pool, LogStored, Loaded
      <3>3. Len(entry.src.log) \in Nat \ {0} /\ Len(file.log) \in Nat
        BY <3>1, <3>2, EmptySeq, LenProperties
      <3>4. QED
        BY <3>2, <3>3
    <2>2. QED
      BY <1>1, <1>2, <1>3, <1>6, <2>1, <1>5 DEF Pool, LogStored, Loaded
  <1>11. LoadsGood'
    BY <1>2, <1>5, <1>6, <1>8 DEF LoadsGood, Mine
  <1>12. WritesGood'
    BY <1>2, <1>3, <1>5, <1>6 DEF Pool, WritesGood, Writing
  <1>13. HoldersGood'
    BY <1>3, <1>4, <1>7 DEF HoldersGood, Holds, Engaged, Holding
  <1>14. CommitsGood'
    <2>1. ASSUME NEW i \in DOMAIN chain, chain[i].kind = "commit"
          PROVE  /\ client'[chain'[i].who].pc = "commit"
                 /\ IF client'[chain'[i].who].seen THEN chain'[i].src = entry'.src
                    ELSE Len(chain'[i].src.log) < Len(file'.log)
                 /\ chain'[i].stage = "queued"
                 /\ \A j \in DOMAIN chain' :
                       chain'[j].kind = "commit" /\ chain'[j].who = chain'[i].who => i = j
      BY <1>1, <1>2, <1>4, <1>5, <1>6, <1>9, <2>1 DEF Pool, CommitsGood
    <2>2. ASSUME NEW i \in DOMAIN chain', chain'[i] = op, i = Len(chain) + 1
          PROVE  \A j \in DOMAIN chain' :
                       chain'[j].kind = "commit" /\ chain'[j].who = chain'[i].who => i = j
      BY <1>2, <1>5, <1>6, <1>9, <2>2
    <2>3. QED
      BY <1>2, <1>3, <1>4, <1>5, <1>6, <2>1, <2>2 DEF CommitsGood
  <1>15. ChecksGood'
    <2>1. \A i \in DOMAIN chain : chain[i].kind = "check" => chain[i].who \in Clients /\ chain[i].who # c
      <3>1. \A i \in DOMAIN chain : chain[i] \in Operation
        BY <1>1, ElementOfSeq, LenProperties
      <3>2. QED
        BY <1>1, <3>1, OperationIs DEF Pool, ChecksGood
    <2>2. \A i \in DOMAIN chain' : chain'[i].kind = "check" => i \in DOMAIN chain /\ chain'[i] = chain[i]
      BY <1>2, <1>5, <1>6
    <2>3. QED
      BY <1>4, <2>1, <2>2 DEF Pool, ChecksGood
  <1>16. QED
    BY <1>10, <1>11, <1>12, <1>13, <1>14, <1>15 DEF Pool

\* The caller whose commit was running moves on without the entry.
LEMMA CommitDrops ==
    ASSUME Lives, Pool, Lives', Head1("commit"), NEW r, r.pc \notin Engaged,
           Drop(Running.who, Tail(chain), r), Len(file.log) <= Len(file'.log)
    PROVE  Pool'
  <1>1. /\ Running.who \in Clients /\ client[Running.who].pc \in Holding
        /\ Tail(chain) \in Seq(Operation) /\ Carries(Tail(chain), chain, 1) /\ Loads(Tail(chain), chain, 1)
        /\ \A i \in DOMAIN Tail(chain) : Tail(chain)[i].kind = "commit" =>
              Tail(chain)[i].who # Running.who /\ Tail(chain)[i].stage = "queued"
    BY RunningCommit DEF Engaged, Holding
  <1>2. QED
    BY <1>1, DropPool

LEMMA SameLog == ASSUME Lives PROVE Len(file.log) \in Nat /\ Len(file.log) <= Len(file.log)
  <1>1. file.log \in Seq(Event)
    BY DEF Lives, Typed, FileOK, Source
  <1>2. Len(file.log) \in Nat
    BY <1>1, LenProperties
  <1>3. QED
    BY <1>2

LEMMA CommitThrowsPool ==
    ASSUME Lives, Pool, Lives', CommitOwned \/ CommitFails PROVE Pool'
  <1>1. Head1("commit") /\ CommitThrows /\ Running.who \in Clients
    BY RunningCommit DEF CommitOwned, CommitFails
  <1>2. QED
    BY <1>1, FailedPc, SameLog, CommitDrops DEF CommitThrows

LEMMA CommitStalePool == ASSUME Lives, Pool, Lives', CommitStale PROVE Pool'
  <1>1. Head1("commit") /\ Running.who \in Clients /\ ClientOK
    BY RunningCommit DEF CommitStale, Lives, Typed
  <1>2. QED
    BY <1>1, AgainPc, SameLog, CommitDrops DEF CommitStale

\* Nobody commits a log that has grown: such a commit finds it changed.
LEMMA CurrentSeen ==
    ASSUME Lives, Pool, Head1("commit"), Current(Running.src) PROVE client[Running.who].seen
  <1>1. ~(Len(Running.src.log) < Len(file.log))
    BY SameLog DEF Current
  <1>2. QED
    BY <1>1, RunningCommit

LEMMA EntryStored == ASSUME Lives, Pool, entry.phase \in Loaded PROVE file.log # <<>>
  <1>1. file.log \in Seq(Event) /\ entry.src.log \in Seq(Event)
    BY DEF Lives, Typed, FileOK, EntryOK, Source, Preparation
  <1>2. entry.src.log # <<>> /\ Len(entry.src.log) <= Len(file.log)
    BY DEF Pool, LogStored
  <1>3. Len(entry.src.log) \in Nat \ {0} /\ Len(file.log) \in Nat
    BY <1>1, <1>2, EmptySeq, LenProperties
  <1>4. QED
    BY <1>2, <1>3

\* The running commit in its next stage.
LEMMA StageIs ==
    ASSUME Lives, Head1("commit"), NEW stage \in {"queued", "truncate", "repair"},
           chain' = [chain EXCEPT ![1].stage = stage]
    PROVE  /\ chain # <<>> /\ DOMAIN chain' = DOMAIN chain /\ 1 \in DOMAIN chain /\ chain'[1] \in Operation
           /\ chain'[1].kind = "commit" /\ chain'[1].who = Running.who /\ chain'[1].src = Running.src
           /\ chain'[1].stage = stage /\ \A i \in DOMAIN chain : i # 1 => chain'[i] = chain[i]
  <1> DEFINE op == [Running EXCEPT !.stage = stage]
             Commit == [kind : {"commit"}, who : Clients, src : Source, stage : {"queued", "truncate", "repair"}]
  <1>1. chain # <<>> /\ Running.kind = "commit" /\ chain \in Seq(Operation)
    BY Unmoved DEF Head1, Running, ChainOK
  <1>2. Running \in Commit
    <2>1. Running \in Operation
      BY <1>1, RunningIs, Unmoved
    <2>2. QED
      BY <1>1, <2>1 DEF Operation
  <1>3. op \in Commit /\ op.who = Running.who /\ op.src = Running.src /\ op.stage = stage
    BY <1>2
  <1>4. op \in Operation /\ op.kind = "commit"
    BY <1>3 DEF Operation
  <1>5. 1 \in DOMAIN chain
    BY <1>1, EmptySeq
  <1>6. chain' = [chain EXCEPT ![1] = op]
    BY <1>1, <1>5 DEF Running
  <1> HIDE DEF op
  <1>7. QED
    BY <1>1, <1>3, <1>4, <1>5, <1>6

LEMMA StagePool ==
    ASSUME Lives, Pool, Lives', Head1("commit"), NEW stage \in {"queued", "truncate", "repair"},
           chain' = [chain EXCEPT ![1].stage = stage], client[Running.who].seen,
           UNCHANGED <<tracked, entry, client>>, file'.log = file.log
    PROVE  Pool'
  <1>1. /\ DOMAIN chain' = DOMAIN chain /\ 1 \in DOMAIN chain
        /\ chain'[1].kind = "commit" /\ chain'[1].who = Running.who /\ chain'[1].src = Running.src
        /\ \A i \in DOMAIN chain : i # 1 => chain'[i] = chain[i]
    BY StageIs
  <1>2. /\ Running = chain[1] /\ Running.kind = "commit" /\ file.log # <<>> /\ file'.log # <<>>
    BY RunningCommit DEF Running
  <1>3. \A i \in DOMAIN chain : chain'[i].kind = chain[i].kind /\ (chain[i].kind # "commit" => chain'[i] = chain[i])
    BY <1>1, <1>2
  <1>4. LogStored' /\ LoadsGood' /\ HoldersGood' /\ ChecksGood'
    BY <1>1, <1>2, <1>3 DEF Pool, LogStored, LoadsGood, Mine, HoldersGood, Holds, Holding, ChecksGood
  <1>5. WritesGood'
    BY <1>1, <1>3 DEF Pool, WritesGood, Writing
  <1>6. \A i \in DOMAIN chain : chain[i].kind = "commit" =>
            chain'[i].who = chain[i].who /\ chain'[i].src = chain[i].src /\ (i # 1 => chain'[i] = chain[i])
    BY <1>1, <1>2
  <1>7. CommitsGood'
    BY <1>1, <1>2, <1>3, <1>6 DEF Pool, CommitsGood
  <1>8. QED
    BY <1>4, <1>5, <1>7 DEF Pool

LEMMA CommitRepairsPool == ASSUME Lives, Pool, Lives', CommitRepairs PROVE Pool'
  <1>1. Head1("commit") /\ client[Running.who].seen
    BY CurrentSeen DEF CommitRepairs
  <1>2. QED
    BY <1>1, StagePool DEF CommitRepairs

LEMMA TruncatePool == ASSUME Lives, Pool, Lives', Truncate PROVE Pool'
  <1>1. /\ Head1("commit") /\ client[Running.who].seen /\ Running.who \in Clients /\ ClientOK
        /\ UNCHANGED tracked
    BY RunningCommit DEF Truncate, Lives, Typed
  <1>2. file'.log = file.log
    BY DEF Truncate, NoFile
  <1>3. CASE Repairs(Running.src) # <<>>
    BY <1>1, <1>2, <1>3, StagePool DEF Truncate
  <1>4. CASE Repairs(Running.src) = <<>>
    BY <1>1, <1>2, <1>4, AgainPc, SameLog, CommitDrops DEF Truncate
  <1>5. QED
    BY <1>3, <1>4

LEMMA RepairPool == ASSUME Lives, Pool, Lives', Repair PROVE Pool'
  <1>1. Head1("commit") /\ Running.who \in Clients /\ Running.src \in Source /\ ClientOK /\ file \in Source
    BY RunningCommit DEF Repair, Lives, Typed, FileOK
  <1>2. Len(file.log) <= Len(file'.log)
    <2> DEFINE log == file.log \o Repairs(Running.src)
               n == Len(file.log)
               k == Len(Repairs(Running.src))
               m == Len(log)
    <2>1. n \in Nat /\ k \in Nat /\ m = n + k
      <3>1. file.log \in Seq(Event) /\ Repairs(Running.src) \in Seq(Event)
        BY <1>1, SourceType DEF Source
      <3>2. QED
        BY <3>1, ConcatProperties, LenProperties
    <2>2. file'.log = log
      <3>1. file' = [file EXCEPT !.log = log]
        BY DEF Repair
      <3> HIDE DEF log
      <3>2. QED
        BY <1>1, <3>1 DEF Source
    <2> HIDE DEF n, k, m
    <2>3. n <= m
      BY <2>1
    <2> HIDE DEF log
    <2>4. QED
      BY <2>2, <2>3 DEF n, m
  <1>3. QED
    BY <1>1, <1>2, AgainPc, CommitDrops DEF Repair

\* Whoever held the entry leaves it ready.
LEMMA ReadyPool ==
    ASSUME Lives, Pool, Lives', UNCHANGED file, NEW c \in Clients, Holds(c), NEW r, r.pc \notin Engaged,
           client' = [client EXCEPT ![c] = r], entry' = [entry EXCEPT !.phase = "ready"],
           NEW k \in Nat, Carries(chain', chain, k), Loads(chain', chain, k),
           \A i \in DOMAIN chain' : chain'[i].kind = "commit" => chain'[i].who # c
    PROVE  Pool'
  <1>1. /\ client \in [Clients -> Caller] /\ entry \in Preparation /\ chain' \in Seq(Operation)
        /\ DOMAIN chain \subseteq Nat \ {0} /\ DOMAIN chain' \subseteq Nat \ {0}
    BY DEF Lives, Typed, ClientOK, EntryOK, ChainOK
  <1>2. entry'.phase = "ready" /\ entry'.src = entry.src
    BY <1>1 DEF Preparation
  <1>3. client'[c].pc \notin Engaged /\ \A d \in Clients : d # c => client'[d] = client[d]
    BY <1>1
  <1>4. entry.phase \in Loaded /\ file.log # <<>>
    BY EntryStored DEF Holds, Holding, Pool, HoldersGood, Loaded
  <1>5. \A d \in Clients : d # c /\ client[d].pc \in Holding => client[d].pc = "commit" /\ ~client[d].seen
    BY DEF Pool, HoldersGood, Holds, Holding
  <1>6. \A i \in DOMAIN chain' : chain'[i].kind = "load" => i + k \in DOMAIN chain /\ chain'[i] = chain[i + k]
    BY DEF Loads, From
  <1>7. LogStored'
    BY <1>2, <1>4 DEF Pool, LogStored, Loaded
  <1>8. LoadsGood'
    BY <1>4, <1>6 DEF Pool, LoadsGood, Mine, Loaded
  <1>9. WritesGood'
    BY <1>1, <1>2 DEF Pool, WritesGood, Carries
  <1>10. HoldersGood'
    BY <1>3, <1>5 DEF HoldersGood, Holds, Holding, Engaged
  <1>11. \A i \in DOMAIN chain' : chain'[i].kind \in {"commit", "check"} =>
             /\ i + k \in DOMAIN chain /\ chain'[i] = chain[i + k]
             /\ chain'[i].who \in Clients /\ chain'[i].who # c
             /\ client[chain'[i].who].pc = chain'[i].kind
    <2>1. \A i \in DOMAIN chain' : chain'[i] \in Operation
      BY <1>1, ElementOfSeq, LenProperties
    <2>2. \A i \in DOMAIN chain' : chain'[i].kind \in {"commit", "check"} =>
              i + k \in DOMAIN chain /\ chain'[i] = chain[i + k] /\ chain'[i].who \in Clients
      BY <2>1, OperationIs DEF Carries
    <2>3. \A i \in DOMAIN chain' : chain'[i].kind \in {"commit", "check"} =>
              client[chain'[i].who].pc = chain'[i].kind
      BY <2>2 DEF Pool, CommitsGood, ChecksGood
    <2>4. QED
      BY <2>2, <2>3 DEF Holds, Holding
  <1>12. CommitsGood'
    <2> SUFFICES ASSUME NEW i \in DOMAIN chain', chain'[i].kind = "commit"
                 PROVE  /\ client'[chain'[i].who].pc = "commit"
                        /\ ~client'[chain'[i].who].seen /\ Len(chain'[i].src.log) < Len(file.log)
                        /\ chain'[i].stage = "queued"
                        /\ \A j \in DOMAIN chain' :
                              chain'[j].kind = "commit" /\ chain'[j].who = chain'[i].who => i = j
      BY DEF CommitsGood
    <2>1. client[chain'[i].who].pc = "commit" /\ ~client[chain'[i].who].seen
          /\ client'[chain'[i].who] = client[chain'[i].who]
      BY <1>3, <1>5, <1>11 DEF Holding
    <2>2. Len(chain'[i].src.log) < Len(file.log) /\ chain'[i].stage = "queued"
      BY <1>11, <2>1 DEF Pool, CommitsGood
    <2>3. ASSUME NEW j \in DOMAIN chain', chain'[j].kind = "commit", chain'[j].who = chain'[i].who PROVE i = j
      <3>1. i + k = j + k
        BY <1>11, <2>3 DEF Pool, CommitsGood
      <3>2. QED
        BY <1>1, <3>1
    <2>4. QED
      BY <2>1, <2>2, <2>3
  <1>13. ChecksGood'
    <2>1. \A i \in DOMAIN chain' : chain'[i].kind = "check" => client'[chain'[i].who].pc = "check"
      BY <1>3, <1>11
    <2>2. QED
      BY <2>1, CheckersSame
  <1>14. QED
    BY <1>7, <1>8, <1>9, <1>10, <1>12, <1>13 DEF Pool

LEMMA CommitsPool == ASSUME Lives, Pool, Lives', Commits PROVE Pool'
  <1> DEFINE c == Running.who
  <1>1. /\ Head1("commit") /\ client[c].seen /\ c \in Clients /\ client[c].pc = "commit"
        /\ Running.src = file /\ file.log # <<>> /\ UNCHANGED file /\ entry.phase = "committing"
        /\ Carries(Tail(chain), chain, 1) /\ Loads(Tail(chain), chain, 1) /\ chain \in Seq(Operation)
        /\ \A i \in DOMAIN Tail(chain) : Tail(chain)[i].kind = "commit" => Tail(chain)[i].who # c
    BY CurrentSeen, RunningCommit DEF Commits, Current, Lives, Typed, ChainOK
  <1>2. Holds(c)
    BY <1>1 DEF Holds, Holding
  <1> HIDE DEF c
  <1>3. CASE client[c].cut
    <2>1. /\ entry' = [entry EXCEPT !.phase = "ready"] /\ client' = [client EXCEPT ![c] = Idle]
          /\ chain' = Tail(chain)
      BY <1>1, <1>3 DEF Commits, c
    <2>2. Idle.pc \notin Engaged
      BY <1>1, FailedPc
    <2>3. Carries(chain', chain, 1) /\ Loads(chain', chain, 1)
          /\ \A i \in DOMAIN chain' : chain'[i].kind = "commit" => chain'[i].who # c
      BY <1>1, <2>1
    <2>4. QED
      BY <1>1, <1>2, <2>1, <2>2, <2>3, ReadyPool
  <1>4. CASE ~client[c].cut /\ Present # {}
    <2>1. Drop(c, Tail(chain), Failed(c))
      BY <1>1, <1>4 DEF Commits, c
    <2>2. QED
      BY <1>1, <2>1, FailedPc, SameLog, CommitDrops DEF c
  <1>5. CASE ~client[c].cut /\ ~(Present # {})
    <2> DEFINE log == Seeded(Running.src.log)
    <2>1. /\ entry' = [entry EXCEPT !.phase = "reserved"] /\ chain' = Tail(chain)
          /\ client' = [client EXCEPT ![c].pc = "reserved", ![c].log = log]
      BY <1>1, <1>5 DEF Commits, c
    <2> HIDE DEF log
    <2>2. client \in [Clients -> Caller] /\ entry \in Preparation /\ chain' \in Seq(Operation)
          /\ DOMAIN chain \subseteq Nat \ {0} /\ DOMAIN chain' \subseteq Nat \ {0}
      BY DEF Lives, Typed, ClientOK, EntryOK, ChainOK
    <2>3. entry'.phase = "reserved" /\ entry'.src = entry.src
      BY <2>1, <2>2 DEF Preparation
    <2>4. /\ client'[c].pc = "reserved" /\ client'[c].seen
          /\ \A d \in Clients : d # c => client'[d] = client[d]
      BY <1>1, <2>1, <2>2 DEF Caller
    <2>5. \A d \in Clients : d # c /\ client[d].pc \in Holding => client[d].pc = "commit" /\ ~client[d].seen
      BY <1>1, <1>2 DEF Pool, HoldersGood, Holds, Holding
    <2>6. \A i \in DOMAIN chain' : chain'[i].kind = "load" => i + 1 \in DOMAIN chain /\ chain'[i] = chain[i + 1]
      BY <1>1, <2>1 DEF Loads, From
    <2>7. LogStored'
      BY <1>1, <2>1, <2>3 DEF Pool, LogStored, Loaded
    <2>8. LoadsGood'
      BY <1>1, <2>6 DEF Pool, LoadsGood, Mine
    <2>9. WritesGood'
      <3>1. ASSUME NEW i \in DOMAIN chain', Writing(chain'[i]) PROVE FALSE
        <4>1. i + 1 = 1 /\ i \in Nat \ {0}
          BY <1>1, <2>1, <2>2, <3>1 DEF Pool, WritesGood, Carries
        <4>2. QED
          BY <4>1
      <3>2. QED
        BY <3>1 DEF WritesGood
    <2>10. HoldersGood'
      BY <2>3, <2>4, <2>5 DEF HoldersGood, Holds, Holding
    <2>11. \A i \in DOMAIN chain' : chain'[i].kind \in {"commit", "check"} =>
               /\ i + 1 \in DOMAIN chain /\ chain'[i] = chain[i + 1]
               /\ chain'[i].who \in Clients /\ chain'[i].who # c
               /\ client[chain'[i].who].pc = chain'[i].kind
      <3>1. \A i \in DOMAIN chain' : chain'[i] \in Operation
        BY <2>2, ElementOfSeq, LenProperties
      <3>2. \A i \in DOMAIN chain' : chain'[i].kind \in {"commit", "check"} =>
                i + 1 \in DOMAIN chain /\ chain'[i] = chain[i + 1] /\ chain'[i].who \in Clients
        BY <1>1, <2>1, <3>1, OperationIs DEF Carries
      <3>3. \A i \in DOMAIN chain' : chain'[i].kind \in {"commit", "check"} =>
                client[chain'[i].who].pc = chain'[i].kind
        BY <3>2 DEF Pool, CommitsGood, ChecksGood
      <3>4. QED
        BY <1>1, <2>1, <3>2, <3>3 DEF c
    <2>12. CommitsGood'
      <3> SUFFICES ASSUME NEW i \in DOMAIN chain', chain'[i].kind = "commit"
                   PROVE  /\ client'[chain'[i].who].pc = "commit"
                          /\ ~client'[chain'[i].who].seen /\ Len(chain'[i].src.log) < Len(file.log)
                          /\ chain'[i].stage = "queued"
                          /\ \A j \in DOMAIN chain' :
                                chain'[j].kind = "commit" /\ chain'[j].who = chain'[i].who => i = j
        BY <1>1 DEF CommitsGood
      <3>1. client[chain'[i].who].pc = "commit" /\ ~client[chain'[i].who].seen
            /\ client'[chain'[i].who] = client[chain'[i].who]
        BY <2>4, <2>5, <2>11 DEF Holding
      <3>2. Len(chain'[i].src.log) < Len(file.log) /\ chain'[i].stage = "queued"
        BY <2>11, <3>1 DEF Pool, CommitsGood
      <3>3. ASSUME NEW j \in DOMAIN chain', chain'[j].kind = "commit", chain'[j].who = chain'[i].who PROVE i = j
        <4>1. i + 1 = j + 1
          BY <2>11, <3>3 DEF Pool, CommitsGood
        <4>2. QED
          BY <2>2, <4>1
      <3>4. QED
        BY <3>1, <3>2, <3>3
    <2>13. ChecksGood'
      <3>1. \A i \in DOMAIN chain' : chain'[i].kind = "check" => client'[chain'[i].who].pc = "check"
        BY <2>4, <2>11
      <3>2. QED
        BY <1>1, <2>1, <3>1, CheckersSame
    <2>14. QED
      BY <2>7, <2>8, <2>9, <2>10, <2>12, <2>13 DEF Pool
  <1>6. QED
    BY <1>3, <1>4, <1>5

LEMMA ReleasePool == ASSUME Lives, Pool, Lives', NEW c \in Clients, Release(c) PROVE Pool'
  <1>1. /\ client[c].pc = "reserved" /\ Holds(c) /\ UNCHANGED file /\ chain \in Seq(Operation)
        /\ Carries(chain, chain, 0) /\ Loads(chain, chain, 0) /\ Failed(c).pc \notin Engaged
    BY CarriesCases, FailedPc DEF Release, Holds, Holding, Pool, HoldersGood, Lives, Typed, ChainOK
  <1>2. \A i \in DOMAIN chain : chain[i].kind = "commit" => chain[i].who # c
    BY <1>1 DEF Pool, CommitsGood
  <1>3. CASE tracked.owner = 0 /\ client[c].log = Seeded(entry.src.log)
    BY <1>1, <1>2, <1>3, ReadyPool DEF Release
  <1>4. CASE ~(tracked.owner = 0 /\ client[c].log = Seeded(entry.src.log))
    <2>1. Drop(c, chain, Failed(c)) /\ client[c].pc \in Holding
      BY <1>1, <1>4 DEF Release, Holding
    <2>2. QED
      BY <1>1, <1>2, <2>1, SameLog, DropPool
  <1>5. QED
    BY <1>3, <1>4

-----------------------------------------------------------------------------
(* The steps that take the entry away.                                     *)

\* Those in X are done with the entry; the others no longer see it, and whoever
\* held it until now finds that the log has grown.
LEMMA LostPool ==
    ASSUME Lives, Pool, Lives', entry' = NoEntry, file'.log # <<>>, Len(file.log) <= Len(file'.log),
           NEW k \in {0, 1}, Carries(chain', chain, k), \A i \in DOMAIN chain' : ~Mine(chain'[i]),
           NEW X \in SUBSET Clients, \A c \in X : client'[c].pc \notin Engaged,
           \A c \in Clients \ X :
               /\ client'[c].pc = client[c].pc /\ ~client'[c].seen /\ client[c].pc # "reserved"
               /\ Holds(c) => k = 1 /\ Len(file.log) < Len(file'.log),
           \A i \in DOMAIN chain' : chain'[i].kind \in {"commit", "check"} => chain'[i].who \notin X
    PROVE  Pool'
  <1>1. /\ chain' \in Seq(Operation) /\ DOMAIN chain' \subseteq Nat \ {0} /\ k \in Nat
    BY DEF Lives, Typed, ChainOK
  <1>2. \A i \in DOMAIN chain' : chain'[i].kind \in {"commit", "check"} =>
            /\ i + k \in DOMAIN chain /\ chain'[i] = chain[i + k] /\ chain'[i].who \in Clients \ X
            /\ client'[chain'[i].who].pc = chain'[i].kind
    <2>1. \A i \in DOMAIN chain' : chain'[i] \in Operation
      BY <1>1, ElementOfSeq, LenProperties
    <2>2. \A i \in DOMAIN chain' : chain'[i].kind \in {"commit", "check"} =>
              i + k \in DOMAIN chain /\ chain'[i] = chain[i + k] /\ chain'[i].who \in Clients \ X
      BY <2>1, OperationIs DEF Carries
    <2>3. QED
      BY <2>2 DEF Pool, CommitsGood, ChecksGood
  <1>3. \A c \in Clients : client'[c].pc \in Holding =>
            client'[c].pc = "commit" /\ client[c].pc = "commit" /\ ~client'[c].seen
    BY DEF Holding, Engaged
  <1>4. ASSUME NEW i \in DOMAIN chain', chain'[i].kind = "commit"
        PROVE  chain'[i].stage = "queued" /\ Len(chain'[i].src.log) < Len(file'.log)
    <2> DEFINE c == chain'[i].who
               n == Len(file.log)
               m == Len(file'.log)
               l == Len(chain'[i].src.log)
    <2>1. c \in Clients \ X /\ client[c].pc = "commit" /\ chain[i + k].kind = "commit" /\ chain'[i] = chain[i + k]
          /\ i + k \in DOMAIN chain
      BY <1>2, <1>4
    <2>2. n \in Nat /\ m \in Nat /\ l \in Nat
      <3>1. chain'[i] \in Operation
        BY <1>1, ElementOfSeq, LenProperties
      <3>2. chain'[i].src \in Source /\ file \in Source /\ file' \in Source
        BY <1>4, <3>1, OperationIs DEF Lives, Typed, FileOK
      <3>3. QED
        BY <3>2 DEF Source
    <2>3. CASE client[c].seen
      <3>1. k = 1 /\ n < m /\ entry.phase \in Loaded /\ chain'[i].src = entry.src
        BY <2>1, <2>3 DEF Holds, Holding, Pool, HoldersGood, CommitsGood, Loaded
      <3>2. i + k # 1
        BY <1>1, <3>1
      <3>3. l <= n /\ chain'[i].stage = "queued"
        BY <2>1, <3>1, <3>2 DEF Pool, LogStored, CommitsGood
      <3>4. QED
        BY <2>2, <3>1, <3>3
    <2>4. CASE ~client[c].seen
      <3>1. l < n /\ chain'[i].stage = "queued"
        BY <2>1, <2>4 DEF Pool, CommitsGood
      <3>2. QED
        BY <2>2, <3>1
    <2>5. QED
      BY <2>3, <2>4
  <1>5. QED
    BY <1>1, <1>2, <1>3, <1>4, PoolLost

LEMMA UnseenIs ==
    ASSUME ClientOK, NEW c \in Clients
    PROVE  /\ Unseen(client)[c].pc = client[c].pc /\ ~Unseen(client)[c].seen
           /\ Unseen(client)[c].log = client[c].log
  BY DEF Unseen, ClientOK, Caller

LEMMA EvictPool == ASSUME Lives, Pool, Lives', Evict PROVE Pool'
  <1>1. /\ entry' = NoEntry /\ UNCHANGED <<file, chain>> /\ client' = Unseen(client) /\ entry.phase = "ready"
        /\ chain \in Seq(Operation) /\ ClientOK
    BY DEF Evict, Lives, Typed, ChainOK
  <1>2. file.log # <<>> /\ Len(file.log) <= Len(file.log)
    BY <1>1, EntryStored, SameLog DEF Loaded
  <1>3. \A c \in Clients : client'[c].pc = client[c].pc /\ ~client'[c].seen
                            /\ ~Holds(c) /\ client[c].pc # "reserved"
    BY <1>1, UnseenIs DEF Pool, HoldersGood, Holds, Holding
  <1>4. Carries(chain', chain, 0) /\ \A i \in DOMAIN chain' : ~Mine(chain'[i])
    BY <1>1, CarriesCases DEF Pool, LoadsGood
  <1>5. {} \in SUBSET Clients /\ 0 \in {0, 1}
    OBVIOUS
  <1>6. QED
    BY <1>1, <1>2, <1>3, <1>4, <1>5, LostPool

LEMMA AppendCommitsPool == ASSUME Lives, Pool, Lives', AppendCommits PROVE Pool'
  <1>1. /\ chain # <<>> /\ chain \in Seq(Operation) /\ Writing(Running) /\ Running = chain[1] /\ 1 \in DOMAIN chain
        /\ entry' = NoEntry /\ client' = Unseen(client) /\ chain' = Orphaned(Tail(chain)) /\ ClientOK
        /\ Running \in Operation /\ Tail(chain) \in Seq(Operation)
    BY TailIs DEF AppendCommits, Appending, Head1, Running, Writing, Lives, Typed, ChainOK
  <1>2. entry.phase # "reserved" /\ Running.batch # <<>>
    BY <1>1 DEF Pool, WritesGood
  <1>3. Len(file.log) < Len(file'.log) /\ Len(file.log) <= Len(file'.log) /\ file'.log # <<>>
    <2> DEFINE batch == Running.batch
               log == file.log \o batch
    <2>1. file \in Source /\ file.log \in Seq(Event) /\ batch \in Seq(Event)
      BY <1>1, OperationIs DEF Lives, Typed, FileOK, Source, Writing
    <2>2. file' = [file EXCEPT !.log = log]
      BY DEF AppendCommits
    <2>3. log \in Seq(Event) /\ Len(log) = Len(file.log) + Len(batch) /\ Len(file.log) \in Nat /\ Len(batch) \in Nat \ {0}
      BY <1>2, <2>1, ConcatProperties, EmptySeq, LenProperties
    <2>4. log # <<>>
      BY <1>2, <2>1, ConcatNotEmpty
    <2> HIDE DEF log
    <2>5. file'.log = log
      BY <2>1, <2>2 DEF Source
    <2> DEFINE n == Len(file.log)
               k == Len(batch)
               m == Len(log)
    <2>6. m = n + k /\ n \in Nat /\ k \in Nat \ {0}
      BY <2>3
    <2> HIDE DEF n, k, m
    <2>7. n < m /\ n <= m
      BY <2>6
    <2>8. QED
      BY <2>4, <2>5, <2>7 DEF n, m
  <1>4. Carries(chain', chain, 1) /\ \A i \in DOMAIN chain' : ~Mine(chain'[i])
    BY <1>1, CarriesCases, OrphanedCarries
  <1>5. \A c \in Clients : client'[c].pc = client[c].pc /\ ~client'[c].seen /\ client[c].pc # "reserved"
    BY <1>1, <1>2, UnseenIs DEF Pool, HoldersGood
  <1>6. {} \in SUBSET Clients /\ 1 \in {0, 1}
    OBVIOUS
  <1>7. QED
    BY <1>1, <1>3, <1>4, <1>5, <1>6, LostPool

LEMMA PublishPool == ASSUME Lives, Pool, Lives', NEW c \in Clients, Publish(c) PROVE Pool'
  <1> DEFINE log == client[c].log
             suffix == SubSeq(log, tracked.cursor + 1, Len(log))
  <1>1. /\ client[c].pc = "reserved" /\ UNCHANGED file /\ client' = [Unseen(client) EXCEPT ![c] = Idle]
        /\ ClientOK /\ chain \in Seq(Operation)
    BY DEF Publish, Lives, Typed, ChainOK
  <1>2. PICK s \in NextSlot : AttachPrepared(s, log)
    BY DEF Publish
  <1> DEFINE op == SeedOp(s, tracked.cursor + 1, suffix)
  <1>3. entry' = NoEntry /\ (chain' = Orphaned(chain) \/ chain' = Append(Orphaned(chain), op))
    BY <1>2 DEF AttachPrepared
  <1>4. op.kind = "seed" /\ op.stage = "queued"
    BY DEF SeedOp
  <1>5. entry.phase = "reserved" /\ client[c].seen /\ Holds(c)
    BY <1>1 DEF Pool, HoldersGood, Holds, Holding
  <1>6. file.log # <<>> /\ Len(file.log) <= Len(file.log)
    BY <1>5, EntryStored, SameLog DEF Loaded
  <1>7. \A d \in Clients \ {c} : client'[d].pc = client[d].pc /\ ~client'[d].seen
                                  /\ ~Holds(d) /\ client[d].pc # "reserved"
    <2>1. \A d \in Clients \ {c} : client'[d] = Unseen(client)[d]
      BY <1>1 DEF Unseen
    <2>2. QED
      BY <1>1, <1>5, <2>1, UnseenIs DEF Pool, HoldersGood, Holds, Holding
  <1>8. client'[c] = Idle /\ Idle.pc \notin Engaged
    BY <1>1, FailedPc DEF Unseen
  <1> HIDE DEF op
  <1>9. Carries(chain', chain, 0) /\ \A i \in DOMAIN chain' : ~Mine(chain'[i])
    <2> DEFINE q == Orphaned(chain)
    <2>1. q \in Seq(Operation) /\ Carries(q, chain, 0) /\ \A i \in DOMAIN q : ~Mine(q[i])
      BY <1>1, CarriesCases, OrphanedCarries
    <2> HIDE DEF q
    <2>2. CASE chain' = q
      BY <2>1, <2>2
    <2>3. CASE chain' = Append(q, op)
      <3>1. chain' \in Seq(Operation) /\ DOMAIN chain' = 1 .. Len(q) + 1 /\ DOMAIN q = 1 .. Len(q) /\ Len(q) \in Nat
            /\ (\A i \in 1 .. Len(q) : chain'[i] = q[i]) /\ chain'[Len(q) + 1] = op
        BY <2>1, <2>3, AppendProperties DEF Lives, Typed, ChainOK
      <3>2. \A i \in DOMAIN chain' : chain'[i] # op => i \in DOMAIN q /\ chain'[i] = q[i]
        BY <3>1
      <3>3. ~Mine(op) /\ ~Writing(op) /\ op.kind \notin {"commit", "check"}
        BY <1>4 DEF Mine, Writing
      <3>4. QED
        BY <2>1, <3>2, <3>3 DEF Carries
    <2>4. QED
      BY <1>3, <2>2, <2>3 DEF q
  <1>10. \A i \in DOMAIN chain' : chain'[i].kind \in {"commit", "check"} => chain'[i].who # c
    BY <1>1, <1>9 DEF Carries, Pool, CommitsGood, ChecksGood
  <1>11. {c} \in SUBSET Clients /\ 0 \in {0, 1}
    OBVIOUS
  <1>12. QED
    BY <1>1, <1>3, <1>6, <1>7, <1>8, <1>9, <1>10, <1>11, LostPool

LEMMA CheckPool == ASSUME Lives, Pool, Lives', Check \/ CheckFails PROVE Pool'
  <1> DEFINE c == Running.who
             src == client[c].src
             view == IF Present # {} THEN LiveView ELSE Balanced(src)
  <1>1. /\ chain # <<>> /\ chain \in Seq(Operation) /\ Running = chain[1] /\ 1 \in DOMAIN chain
        /\ Running.kind = "check" /\ Running \in Operation /\ Tail(chain) \in Seq(Operation)
        /\ UNCHANGED <<file, tracked>> /\ ClientOK /\ DOMAIN Tail(chain) \subseteq Nat \ {0}
    <2>1. chain # <<>> /\ chain \in Seq(Operation) /\ Running = chain[1] /\ Running.kind = "check"
          /\ UNCHANGED <<file, tracked>> /\ ClientOK
      BY DEF Check, CheckFails, Head1, Running, Lives, Typed, ChainOK
    <2>2. Tail(chain) \in Seq(Operation) /\ Running \in Operation /\ 1 \in DOMAIN chain
      BY <2>1, TailIs
    <2>3. QED
      BY <2>1, <2>2
  <1>2. c \in Clients /\ client[c].pc = "check"
    BY <1>1, OperationIs DEF Pool, ChecksGood
  <1>3. Carries(Tail(chain), chain, 1) /\ Loads(Tail(chain), chain, 1)
    BY <1>1, CarriesCases
  <1>4. \A i \in DOMAIN Tail(chain) : Tail(chain)[i].kind \in {"commit", "check"} =>
            /\ Tail(chain)[i].who \in Clients /\ Tail(chain)[i].who # c
            /\ client[Tail(chain)[i].who].pc = Tail(chain)[i].kind
    <2> SUFFICES ASSUME NEW i \in DOMAIN Tail(chain), Tail(chain)[i].kind \in {"commit", "check"}
                 PROVE  /\ Tail(chain)[i].who \in Clients /\ Tail(chain)[i].who # c
                        /\ client[Tail(chain)[i].who].pc = Tail(chain)[i].kind
      OBVIOUS
    <2>1. i + 1 \in DOMAIN chain /\ Tail(chain)[i] = chain[i + 1] /\ i + 1 # 1
      BY <1>1, <1>3 DEF Carries
    <2>2. Tail(chain)[i] \in Operation
      BY <1>1, ElementOfSeq, LenProperties
    <2>3. Tail(chain)[i].who \in Clients /\ client[Tail(chain)[i].who].pc = Tail(chain)[i].kind
      BY <2>1, <2>2, OperationIs DEF Pool, CommitsGood, ChecksGood
    <2>4. Tail(chain)[i].kind = "check" => Tail(chain)[i].who # c
      BY <1>1, <2>1 DEF Pool, ChecksGood
    <2>5. QED
      BY <1>2, <2>3, <2>4
  <1>5. \/ \E r : client' = [client EXCEPT ![c] = r] /\ r.pc \notin Engaged /\ chain' = Tail(chain) /\ UNCHANGED entry
        \/ /\ client' = [Unseen(client) EXCEPT ![c] = Again(c)] /\ chain' = Orphaned(Tail(chain)) /\ entry' = NoEntry
           /\ entry.phase = "ready"
    <2>1. Again(c).pc \notin Engaged /\ Idle.pc \notin Engaged /\ \A v : Told(c, v).pc \notin Engaged
      BY <1>1, <1>2, FailedPc, AgainPc
    <2>2. CheckFails => \/ client' = [client EXCEPT ![c] = Told(c, LiveView)] /\ chain' = Tail(chain) /\ UNCHANGED entry
                        \/ client' = [client EXCEPT ![c] = Idle] /\ chain' = Tail(chain) /\ UNCHANGED entry
      BY DEF CheckFails
    <2>3. Check =>
          \/ client' = [client EXCEPT ![c] = Told(c, view)] /\ chain' = Tail(chain) /\ UNCHANGED entry
          \/ client' = [client EXCEPT ![c] = Idle] /\ chain' = Tail(chain) /\ UNCHANGED entry
          \/ /\ client' = [Unseen(client) EXCEPT ![c] = Again(c)] /\ chain' = Orphaned(Tail(chain)) /\ entry' = NoEntry
             /\ entry.phase = "ready"
          \/ client' = [client EXCEPT ![c] = Again(c)] /\ chain' = Tail(chain) /\ UNCHANGED entry
      BY DEF Check
    <2> HIDE DEF c, view
    <2>4. QED
      BY <2>1, <2>2, <2>3
  <1>6. file.log = <<>> => file = NoFile
    BY DEF Pool, LogStored
  <1> HIDE DEF c
  <1>7. ASSUME NEW r, client' = [client EXCEPT ![c] = r], r.pc \notin Engaged, chain' = Tail(chain), UNCHANGED entry
        PROVE  Pool'
    <2>1. Len(file.log) <= Len(file'.log) /\ (file'.log = <<>> => file' = NoFile)
          /\ (tracked'.known /\ tracked'.owner = 0 => file'.log # <<>>)
      BY <1>1, <1>6, SameLog DEF Pool, LogStored
    <2>2. client'[c] = r /\ \A d \in Clients : d # c => client'[d] = client[d]
      BY <1>1, <1>2, <1>7 DEF ClientOK
    <2>3. \A d \in Clients : client'[d].pc \in Holding =>
               client'[d].pc = client[d].pc /\ client'[d].seen = client[d].seen
      BY <1>7, <2>2 DEF Engaged
    <2>4. \A i \in DOMAIN chain' : chain'[i].kind \in {"commit", "check"} =>
              client'[chain'[i].who].pc = chain'[i].kind
      BY <1>4, <1>7, <2>2
    <2>5. QED
      BY <1>3, <1>7, <2>1, <2>3, <2>4, PoolStep
  <1>8. CASE /\ client' = [Unseen(client) EXCEPT ![c] = Again(c)] /\ chain' = Orphaned(Tail(chain))
             /\ entry' = NoEntry /\ entry.phase = "ready"
    <2>1. file'.log # <<>> /\ Len(file.log) <= Len(file'.log)
      BY <1>1, <1>8, EntryStored, SameLog DEF Loaded
    <2>2. Carries(chain', chain, 1) /\ \A i \in DOMAIN chain' : ~Mine(chain'[i])
      BY <1>1, <1>3, <1>8, OrphanedCarries
    <2>3. client'[c].pc \notin Engaged
      BY <1>1, <1>2, <1>8, AgainPc DEF Unseen
    <2>4. \A d \in Clients \ {c} : client'[d].pc = client[d].pc /\ ~client'[d].seen
                                    /\ ~Holds(d) /\ client[d].pc # "reserved"
      <3>1. \A d \in Clients \ {c} : client'[d] = Unseen(client)[d]
        BY <1>8 DEF Unseen
      <3>2. QED
        BY <1>1, <1>8, <3>1, UnseenIs DEF Pool, HoldersGood, Holds, Holding
    <2>5. \A i \in DOMAIN chain' : chain'[i].kind \in {"commit", "check"} => chain'[i].who # c
      <3>1. DOMAIN chain' = DOMAIN Tail(chain) /\ From({"commit", "check"}, chain', Tail(chain), 0)
        BY <1>1, <1>8, OrphanedIs
      <3>2. \A i \in DOMAIN chain' : i + 0 = i
        BY <1>1, <3>1
      <3>3. QED
        BY <1>4, <3>1, <3>2 DEF From
    <2>6. {c} \in SUBSET Clients /\ 1 \in {0, 1}
      BY <1>2
    <2>7. QED
      BY <1>8, <2>1, <2>2, <2>3, <2>4, <2>5, <2>6, LostPool
  <1>9. QED
    BY <1>5, <1>7, <1>8

LEMMA AbortPool == ASSUME Lives, Pool, Lives', NEW c \in Clients, Abort(c) PROVE Pool'
  <1>1. UNCHANGED <<file, tracked>> /\ ClientOK /\ client \in [Clients -> Caller] /\ chain \in Seq(Operation)
        /\ Idle.pc \notin Engaged /\ Len(file.log) <= Len(file'.log)
    BY FailedPc, SameLog DEF Abort, Lives, Typed, ClientOK, ChainOK
  <1>2. CASE client[c].pc \in {"retirement", "entry"}
    <2>1. client' = [client EXCEPT ![c] = Idle] /\ UNCHANGED <<entry, chain>> /\ client[c].pc \notin Engaged
      BY <1>2 DEF Abort, Engaged, Holding
    <2>2. QED
      BY <1>1, <2>1, CallerPool
  <1>3. CASE client' = [client EXCEPT ![c].cut = TRUE] /\ UNCHANGED <<entry, chain>>
    <2> DEFINE r == [client[c] EXCEPT !.cut = TRUE]
    <2>1. client' = [client EXCEPT ![c] = r] /\ r.pc = client[c].pc /\ r.seen = client[c].seen
      BY <1>1, <1>3 DEF Caller
    <2> HIDE DEF r
    <2>2. HoldersSame
      BY <1>1, <2>1, OtherCallers
    <2>3. QED
      BY <1>1, <1>3, <2>2, PoolQuiet
  <1>4. ASSUME client[c].pc = "commit", NEW i \in DOMAIN chain, chain[i].kind = "commit", chain[i].who = c,
               Drop(c, [chain EXCEPT ![i] = VoidOp], Idle)
        PROVE  Pool'
    <2> DEFINE q == [chain EXCEPT ![i] = VoidOp]
    <2>1. VoidOp \in Operation /\ VoidOp.kind \notin {"load", "commit", "check"} /\ ~Writing(VoidOp)
          /\ i \in 1 .. Len(chain)
      BY <1>1, OperationMakes, LenProperties DEF VoidOp, Writing
    <2>2. /\ q \in Seq(Operation) /\ Len(q) = Len(chain)
          /\ \A j \in 1 .. Len(chain) : q[j] = IF j = i THEN VoidOp ELSE chain[j]
      BY <1>1, <2>1, ExceptSeq
    <2> HIDE DEF q
    <2>3. DOMAIN q = 1 .. Len(chain) /\ DOMAIN chain = 1 .. Len(chain)
      BY <1>1, <2>2, LenProperties
    <2>4. \A j \in DOMAIN q : q[j] # VoidOp => j + 0 \in DOMAIN chain /\ q[j] = chain[j + 0] /\ j # i
      BY <2>2, <2>3
    <2>5. Carries(q, chain, 0) /\ Loads(q, chain, 0)
      BY <2>1, <2>4 DEF Carries, Loads, From
    <2>6. \A j \in DOMAIN q : q[j].kind = "commit" => q[j].who # c
      <3>1. ASSUME NEW j \in DOMAIN q, q[j].kind = "commit", q[j].who = c PROVE FALSE
        <4>1. j \in DOMAIN chain /\ q[j] = chain[j] /\ j # i
          BY <2>1, <2>2, <2>3, <3>1
        <4>2. QED
          BY <1>4, <3>1, <4>1 DEF Pool, CommitsGood
      <3>2. QED
        BY <3>1
    <2>7. Drop(c, q, Idle) /\ client[c].pc \in Holding /\ 0 \in Nat
      BY <1>4 DEF q, Holding
    <2>8. QED
      BY <1>1, <2>2, <2>5, <2>6, <2>7, DropPool
  <1>5. QED
    BY <1>2, <1>3, <1>4 DEF Abort

LEMMA CreatePool == ASSUME Lives, Pool, Lives', NEW c \in Clients, Create(c) PROVE Pool'
  <1>1. /\ UNCHANGED file /\ client' = [client EXCEPT ![c] = Idle] /\ client[c].pc \notin Engaged
        /\ Idle.pc \notin Engaged /\ ClientOK
    BY FailedPc DEF Create, Engaged, Holding, Lives, Typed
  <1>2. HoldersSame
    BY <1>1, OtherCallers
  <1>3. CASE UNCHANGED <<tracked, entry, chain>>
    BY <1>1, <1>2, <1>3, PoolQuiet
  <1>4. ASSUME NEW s \in NextSlot, NEW seed, AttachNew(s, seed) PROVE Pool'
    <2> DEFINE op == CreatedOp(s, seed)
    <2>1. UNCHANGED <<tracked, entry>> /\ chain' = Append(chain, op)
          /\ op.kind \notin {"load", "commit", "check"} /\ ~Writing(op)
      BY <1>4 DEF AttachNew, CreatedOp, Writing
    <2>2. op \in Operation
      <3>1. chain' \in Seq(Operation) /\ chain \in Seq(Operation) /\ Len(chain) \in Nat
        BY DEF Lives, Typed, ChainOK
      <3> HIDE DEF op
      <3>2. Len(chain) + 1 \in DOMAIN chain' /\ chain'[Len(chain) + 1] = op
        BY <2>1, <3>1
      <3>3. QED
        BY <3>1, <3>2, ElementOfSeq, LenProperties
    <2> HIDE DEF op
    <2>3. QED
      BY <1>1, <1>2, <2>1, <2>2, PoolQuiet
  <1>5. QED
    BY <1>3, <1>4 DEF Create

LEMMA CrashPool == ASSUME Lives, Pool, Lives', Crash PROVE Pool'
  <1>1. /\ tracked' = None /\ entry' = NoEntry /\ chain' = <<>> /\ client' = [c \in Clients |-> Idle]
    BY DEF Crash
  <1>2. file'.log = <<>> => file' = NoFile
    <2>1. ASSUME NEW batch \in Seq(Event), file' \in Torn(batch), file'.log = <<>> PROVE file' = NoFile
      <3>1. file \in Source /\ file.log \in Seq(Event) /\ (file.log = <<>> => file = NoFile)
        BY DEF Lives, Typed, FileOK, Source, Pool, LogStored
      <3>2. CASE file' = [file EXCEPT !.log = @ \o batch]
        <4> DEFINE log == file.log \o batch
        <4>1. file' = [file EXCEPT !.log = log] /\ (file.log # <<>> => log # <<>>)
          BY <3>1, <3>2, ConcatNotEmpty
        <4> HIDE DEF log
        <4>2. file'.log = log
          BY <3>1, <4>1 DEF Source
        <4>3. file = NoFile /\ log = <<>>
          BY <2>1, <3>1, <4>1, <4>2
        <4>4. QED
          BY <4>1, <4>3 DEF NoFile
      <3>3. CASE file' = file
        BY <2>1, <3>1, <3>3
      <3>4. CASE file.log # <<>> /\ file'.log = file.log
        BY <2>1, <3>4
      <3>5. QED
        BY <2>1, <3>2, <3>3, <3>4 DEF Torn
    <2>2. CASE Appending /\ file' \in Torn(Running.batch)
      <3>1. chain # <<>> /\ Running.kind \in {"write", "seed"}
        BY <2>2 DEF Appending, Head1, Running
      <3>2. Running.batch \in Seq(Event)
        BY <3>1, RunningIs, OperationIs, Unmoved
      <3>3. QED
        BY <2>1, <2>2, <3>2
    <2>3. CASE Head1("commit") /\ file' \in Torn(Repairs(Running.src))
      <3>1. chain # <<>> /\ Running.kind = "commit"
        BY <2>3 DEF Head1, Running
      <3>2. Repairs(Running.src) \in Seq(Event)
        BY <3>1, RunningIs, SourceType, Unmoved
      <3>3. QED
        BY <2>1, <2>3, <3>2
    <2>4. CASE UNCHANGED file
      BY <2>4 DEF Pool, LogStored
    <2>5. QED
      BY <2>2, <2>3, <2>4 DEF Crash
  <1>3. entry'.phase = "none" /\ DOMAIN chain' = {} /\ ~tracked'.known
        /\ \A c \in Clients : client'[c].pc = "idle"
    BY <1>1 DEF NoEntry, None, Idle
  <1>4. QED
    BY <1>2, <1>3 DEF Pool, LogStored, LoadsGood, CommitsGood, WritesGood, HoldersGood, ChecksGood,
       Holds, Holding, Loaded

-----------------------------------------------------------------------------
(* While the plugin is disposed nobody calls it.                           *)

AllIdle == \A c \in Clients : client[c].pc = "idle"
Stopped == ~up => AllIdle

LEMMA StoppedNext == Lives /\ Pool /\ Stopped /\ [Next]_vars => Stopped'
  <1> SUFFICES ASSUME Lives, Pool, Stopped, [Next]_vars, ~up' PROVE AllIdle'
    BY DEF Stopped
  <1>1. CASE Unload
    BY <1>1 DEF Unload, AllIdle
  <1>2. CASE Crash \/ Reload
    BY <1>2 DEF Crash, Reload
  <1> DEFINE Commit == CommitOwned \/ CommitStale \/ CommitRepairs \/ Truncate \/ Repair \/ Commits \/ CommitFails
  <1>3. ASSUME UNCHANGED up PROVE AllIdle /\ ClientOK
    BY <1>3 DEF Stopped, Lives, Typed
  <1>4. ASSUME \/ AppendBegin \/ AppendFails \/ Created \/ Void \/ ForeignResume \/ UNCHANGED vars
               \/ \E s \in Slots : WriteReady(s) \/ Emit(s) \/ Checkpoint(s) \/ End(s) \/ Deadline(s)
        PROVE  AllIdle'
    <2>1. UNCHANGED <<up, client>>
      BY <1>4 DEF AppendBegin, AppendFails, Created, Void, ForeignResume, vars, WriteReady, Emit, Checkpoint,
         End, Deadline
    <2>2. QED
      BY <1>3, <2>1 DEF AllIdle
  <1>5. ASSUME AppendCommits \/ Evict PROVE AllIdle'
    <2>1. UNCHANGED up /\ client' = Unseen(client)
      BY <1>5 DEF AppendCommits, Evict
    <2>2. QED
      BY <1>3, <2>1, UnseenIs DEF AllIdle
  <1>6. ASSUME Retire \/ Load \/ NothingToLoad \/ LoadFails \/ \E s \in Slots : FlushReady(s) \/ Proceed(s)
        PROVE  AllIdle'
    <2>1. UNCHANGED up
      BY <1>6 DEF Retire, Load, NothingToLoad, LoadFails, LoadThrows, FlushReady, Proceed
    <2>2. \A c \in Clients : client[c].pc # "retirement" /\ c \notin Awaiting
      BY <1>3, <2>1 DEF AllIdle, Awaiting
    <2>3. CASE Retire
      BY <1>3, <2>1, <2>2, <2>3 DEF Retire, AllIdle
    <2>4. CASE Load
      BY <1>3, <2>1, <2>2, <2>4 DEF Load, AllIdle
    <2>5. CASE NothingToLoad \/ LoadFails
      <3>1. \A c \in Clients : client'[c] = client[c]
        BY <2>2, <2>5 DEF NothingToLoad, LoadFails, LoadThrows
      <3>2. QED
        BY <1>3, <2>1, <3>1 DEF AllIdle
    <2>6. ASSUME NEW s \in Slots, FlushReady(s) \/ Proceed(s) PROVE AllIdle'
      <3>1. (\E who : \E ok \in BOOLEAN : Answer(s, who, ok)) \/ UNCHANGED client
        <4>1. (session[s].w.next # "reject") \in BOOLEAN /\ TRUE \in BOOLEAN /\ FALSE \in BOOLEAN
          OBVIOUS
        <4>2. FlushReady(s) => \E who : Answer(s, who, TRUE) \/ Answer(s, who, FALSE)
          BY DEF FlushReady
        <4>3. Proceed(s) => Advance(s, Continue(session[s].w), session[s].w.next = "reject")
          BY DEF Proceed
        <4>4. Proceed(s) => (\E who : \E ok \in BOOLEAN : Answer(s, who, ok)) \/ UNCHANGED client
          BY <4>1, <4>3, Zenon DEF Advance
        <4>5. QED
          BY <2>6, <4>1, <4>2, <4>4
      <3>2. \A c \in Clients : client'[c] = client[c]
        BY <2>2, <3>1 DEF Answer
      <3>3. QED
        BY <1>3, <2>1, <3>2 DEF AllIdle
    <2>7. QED
      BY <1>6, <2>3, <2>4, <2>5, <2>6
  <1>7. ASSUME Commit PROVE FALSE
    <2>1. Head1("commit") /\ UNCHANGED up
      BY <1>7 DEF CommitOwned, CommitStale, CommitRepairs, Truncate, Repair, Commits, CommitFails, CommitThrows
    <2>2. QED
      BY <1>3, <2>1, RunningCommit DEF AllIdle
  <1>8. ASSUME Check \/ CheckFails PROVE FALSE
    <2>1. /\ chain # <<>> /\ chain \in Seq(Operation) /\ Running = chain[1] /\ Running.kind = "check" /\ UNCHANGED up
      BY <1>8 DEF Check, CheckFails, Head1, Running, Lives, Typed, ChainOK
    <2>2. Running \in Operation /\ 1 \in DOMAIN chain
      BY <2>1, TailIs
    <2>3. Running.who \in Clients /\ client[Running.who].pc = "check"
      BY <2>1, <2>2, OperationIs DEF Pool, ChecksGood
    <2>4. QED
      BY <1>3, <2>1, <2>3 DEF AllIdle
  <1>9. ASSUME NEW c \in Clients,
               \/ Retired(c) \/ EntryLost(c) \/ Inspect(c) \/ Reserve(c) \/ Ask(c) \/ Setup(c)
               \/ Publish(c) \/ Release(c) \/ Create(c) \/ GiveUp(c) \/ Abort(c)
        PROVE  FALSE
    <2>1. UNCHANGED up
      BY <1>9 DEF Retired, EntryLost, Inspect, Reserve, Ask, Setup, Publish, Release, Create, GiveUp, Abort
    <2>2. client[c].pc = "idle" /\ ~up
      BY <1>3, <2>1 DEF AllIdle
    <2>3. QED
      BY <1>9, <2>2 DEF Retired, EntryLost, Inspect, Reserve, Ask, Setup, Publish, Release, Create, GiveUp, Abort
  <1>10. QED
    BY <1>1, <1>2, <1>4, <1>5, <1>6, <1>7, <1>8, <1>9 DEF Next, Microtask, ChainStep, ChainFails, Conclude

LEMMA ReloadPool == ASSUME Lives, Pool, Stopped, Lives', Reload PROVE Pool'
  <1> DEFINE op == CreatedOp(CHOOSE s \in Present : TRUE, LiveView)
  <1>1. /\ tracked' = None /\ entry' = NoEntry /\ UNCHANGED <<file, client>> /\ AllIdle
        /\ chain' = <<>> \/ chain' = <<op>>
    BY DEF Reload, Stopped
  <1>2. op.kind = "created"
    BY DEF CreatedOp
  <1> HIDE DEF op
  <1>3. \A i \in DOMAIN chain' : chain'[i].kind = "created"
    BY <1>1, <1>2
  <1>4. entry'.phase = "none" /\ ~tracked'.known /\ \A c \in Clients : client'[c].pc = "idle"
    BY <1>1 DEF NoEntry, None, AllIdle
  <1>5. QED
    BY <1>1, <1>3, <1>4 DEF Pool, LogStored, LoadsGood, CommitsGood, WritesGood, HoldersGood, ChecksGood,
       Holds, Holding, Loaded, Mine, Writing

LEMMA InitPool == Init => Pool /\ Stopped
  <1> SUFFICES ASSUME Init PROVE Pool /\ Stopped
    OBVIOUS
  <1>1. entry.phase = "none" /\ DOMAIN chain = {} /\ ~tracked.known /\ file = NoFile /\ up
        /\ \A c \in Clients : client[c].pc = "idle"
    BY DEF Init, NoEntry, None, Idle
  <1>2. QED
    BY <1>1 DEF Pool, LogStored, LoadsGood, CommitsGood, WritesGood, HoldersGood, ChecksGood,
       Holds, Holding, Loaded, Stopped

LEMMA NextPool == Lives /\ Pool /\ Stopped /\ [Next]_vars => Pool'
  <1> SUFFICES ASSUME Lives, Pool, Stopped, [Next]_vars PROVE Pool'
    OBVIOUS
  <1>1. Lives'
    BY NextLives
  <1>2. CASE Microtask
    BY <1>1, <1>2, FlushReadyPool, WriteReadyPool, ProceedPool, RetiredPool, EntryLostPool,
       InspectPool, ReservePool DEF Microtask
  <1>3. CASE ChainStep
    BY <1>1, <1>3, AppendBeginPool, AppendCommitsPool, CreatedPool, RetirePool, LoadPool, CheckPool,
       VoidPool, LoadThrowsPool, CommitThrowsPool, CommitStalePool, CommitRepairsPool,
       TruncatePool, RepairPool, CommitsPool DEF ChainStep
  <1>4. CASE ChainFails
    BY <1>1, <1>4, AppendFailsPool, LoadThrowsPool, CommitThrowsPool, CheckPool DEF ChainFails
  <1>5. CASE \E s \in Slots : Emit(s) \/ Checkpoint(s) \/ End(s) \/ Deadline(s)
    BY <1>1, <1>5, LifecyclePool
  <1>6. CASE \E c \in Clients : Ask(c) \/ Setup(c) \/ Conclude(c) \/ Abort(c)
    BY <1>1, <1>6, AskPool, SetupPool, PublishPool, ReleasePool, CreatePool, GiveUpPool, AbortPool
       DEF Conclude
  <1>7. CASE Evict \/ ForeignResume \/ Crash \/ Unload \/ Reload
    BY <1>1, <1>7, EvictPool, ForeignResumePool, CrashPool, LifecyclePool, ReloadPool
  <1>8. CASE UNCHANGED vars
    <2>1. UNCHANGED <<file, tracked, entry, chain, client>>
      BY <1>8 DEF vars
    <2>2. QED
      BY <1>1, <2>1, SameHolders, PoolQuiet
  <1>9. QED
    BY <1>2, <1>3, <1>4, <1>5, <1>6, <1>7, <1>8 DEF Next

(* One caller at a time holds the pool's entry: it commits it or keeps it  *)
(* reserved, whatever removes, reloads or evicts the entry meanwhile; one  *)
(* load fills it; a commit queued on the chain is of the entry its caller  *)
(* holds or will find the log changed; and nothing is being appended while *)
(* the entry is reserved (preparations.ts, prepareCore, appendCore).       *)
THEOREM EntryHeldOnce == Spec => [](Pool /\ Stopped)
  <1>1. Init => Lives /\ Pool /\ Stopped
    BY InitLives, InitPool
  <1>2. Lives /\ Pool /\ Stopped /\ [Next]_vars => Lives' /\ Pool' /\ Stopped'
    BY NextLives, NextPool, StoppedNext
  <1>3. QED
    BY <1>1, <1>2, PTL DEF Spec

=============================================================================
