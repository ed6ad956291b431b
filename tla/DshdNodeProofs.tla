--------------------------- MODULE DshdNodeProofs ---------------------------
(***************************************************************************)
(* Proofs about the running daemon, for any capacity of the queue, any       *)
(* number of children, signals and fences, and any failing adapters.         *)
(*                                                                           *)
(* The inductive invariant says what every event in the queue, every effect  *)
(* not yet carried out and every thread still claims about the children, and *)
(* that the claim is still true, however late it is read; that the maps of   *)
(* the supervisor lead to children and a ready node is of a child of its     *)
(* attempt; and that the lock on the map of children orders the stops.       *)
(***************************************************************************)
EXTENDS DshdNode, SequenceTheorems, TLAPS

----------------------------------------------------------------------------
(* What reduce returns, for every snapshot and event.                        *)

\* Which arm of reduce an event can take, and what its guard then says.  The
\* proofs below go by these cases and the lemmas after them.
LEMMA ReduceCases ==
    ASSUME NEW s, NEW A, NEW e \in Event(A)
    PROVE  \/ reduce(s, e) = Reduction(s, <<>>)
           \/ e.kind = "Shutdown" /\ reduce(s, e) = OnShutdown(s)
           \/ e.kind = "Fence" /\ reduce(s, e) = OnFence(s)
           \/ e.kind = "DesiredStopped" /\ reduce(s, e) = OnDesiredStopped(s)
           \/ e.kind = "DesiredRunning" /\ reduce(s, e) = OnDesiredRunning(s)
           \/ Active(s) /\ reduce(s, e) = SpawnNext(s)
           \/ /\ e.kind = "Spawned" /\ e.attempt \in A /\ Active(s)
              /\ reduce(s, e) = OnSpawned(s, e.attempt)
           \/ /\ e.kind = "ReadyUrl" /\ current(s, e.attempt) /\ Active(s)
              /\ reduce(s, e) = OnReadyUrl(s, e.attempt)
           \/ /\ e.kind = "BootstrapSucceeded" /\ e.authority \in Authority
              /\ current(s, e.attempt) /\ Active(s)
              /\ reduce(s, e) = OnBootstrapSucceeded(s, e.authority)
           \/ /\ e.kind \in {"Failed", "ChildExited"} /\ current(s, e.attempt) /\ Active(s)
              /\ reduce(s, e) = OnFailed(s, e.attempt)
           \/ /\ e.kind \in {"Stopped", "ChildExited"} /\ current(s, e.attempt)
              /\ reduce(s, e) = OnGone(s)
  <1>1. CASE e \in [kind : CommandKind]
    BY <1>1 DEF reduce, Counts, OnOrder, CommandKind
  <1>2. CASE e \in [kind : AttemptKind, attempt : A]
    BY <1>2 DEF reduce, Counts, OnReport, CommandKind, AttemptKind
  <1>3. CASE e \in [kind : {"BootstrapSucceeded"}, attempt : A, authority : Authority]
    BY <1>3 DEF reduce, Counts, OnReport, CommandKind
  <1>4. QED
    BY <1>1, <1>2, <1>3 DEF Event

\* What winds a node down leaves it inactive, with the attempt it holds.
LEMMA WindsDown ==
    ASSUME NEW s \in Snapshot, NEW t,
           \/ t = OnShutdown(s).snapshot \/ t = OnFence(s).snapshot
           \/ t = OnDesiredStopped(s).snapshot
    PROVE  ~Active(t) /\ t.attempt = s.attempt /\ (t = s \/ t.context = NoContext)
  <1> USE DEF Active, Fenced
  <1>1. CASE t = s /\ s.shutdown
    BY <1>1
  <1>2. CASE t = [s EXCEPT !.shutdown = TRUE, !.context = NoContext, !.observed = Winding(s)]
    BY <1>2 DEF Snapshot
  <1>3. CASE t = [s EXCEPT !.registration = "Fenced", !.context = NoContext, !.observed = "Fenced"]
    BY <1>3 DEF Snapshot
  <1>4. CASE t = [s EXCEPT !.desired = "Stopped", !.context = NoContext, !.observed = Winding(s)]
    BY <1>4 DEF Snapshot
  <1>5. QED
    BY <1>1, <1>2, <1>3, <1>4 DEF OnShutdown, OnFence, OnDesiredStopped, Reduction

\* Whatever the event, the result is a snapshot.
LEMMA ReduceType ==
    ASSUME NEW s \in Snapshot, NEW A \in SUBSET AttemptId, NEW e \in Event(A)
    PROVE  reduce(s, e).snapshot \in Snapshot
  <1> DEFINE t == reduce(s, e).snapshot
  <1>1. CASE reduce(s, e) = Reduction(s, <<>>) \/ reduce(s, e) = SpawnNext(s)
    BY <1>1 DEF Reduction, SpawnNext
  <1>2. CASE reduce(s, e) = OnShutdown(s) \/ reduce(s, e) = OnDesiredStopped(s)
    <2>1. Winding(s) \in ObservedState
      BY DEF Snapshot, Winding, ObservedState
    <2>2. \/ t = s
          \/ t = [s EXCEPT !.shutdown = TRUE, !.context = NoContext, !.observed = Winding(s)]
          \/ t = [s EXCEPT !.desired = "Stopped", !.context = NoContext, !.observed = Winding(s)]
      BY <1>2 DEF OnShutdown, OnDesiredStopped, Reduction
    <2>3. QED
      BY <2>1, <2>2 DEF Snapshot, DesiredState
  <1>3. CASE reduce(s, e) = OnFence(s)
    <2>1. t = [s EXCEPT !.registration = "Fenced", !.context = NoContext, !.observed = "Fenced"]
      BY <1>3 DEF OnFence, Reduction
    <2>2. QED
      BY <2>1 DEF Snapshot, RegistrationState, ObservedState
  <1>4. CASE reduce(s, e) = OnDesiredRunning(s)
    <2>1. t = s \/ t = [s EXCEPT !.desired = "Running"]
      BY <1>4 DEF OnDesiredRunning, Reduction
    <2>2. QED
      BY <2>1 DEF Snapshot, DesiredState
  <1>5. CASE e.attempt \in A /\ reduce(s, e) = OnSpawned(s, e.attempt)
    <2>1. t = [s EXCEPT !.attempt = e.attempt, !.observed = "Starting"]
      BY <1>5 DEF OnSpawned, Reduction
    <2>2. QED
      BY <1>5, <2>1 DEF Snapshot, ObservedState
  <1>6. CASE reduce(s, e) = OnReadyUrl(s, e.attempt)
    <2>1. t = [s EXCEPT !.observed = "Authenticating"]
      BY <1>6 DEF OnReadyUrl, Reduction
    <2>2. QED
      BY <2>1 DEF Snapshot, ObservedState
  <1>7. CASE e.authority \in Authority /\ reduce(s, e) = OnBootstrapSucceeded(s, e.authority)
    <2> DEFINE g == s.generation + 1
               c == [authority |-> e.authority, generation |-> g]
    <2>1. t = [s EXCEPT !.generation = g, !.observed = "Ready", !.context = c]
      BY <1>7 DEF OnBootstrapSucceeded, Reduction
    <2>2. g \in Generation
      BY DEF Snapshot, Generation
    <2>3. c \in ConnectionContext
      BY <1>7, <2>2 DEF ConnectionContext
    <2> HIDE DEF g, c
    <2>4. QED
      BY <2>1, <2>2, <2>3 DEF Snapshot, ObservedState
  <1>8. CASE reduce(s, e) = OnFailed(s, e.attempt)
    <2>1. t = [s EXCEPT !.context = NoContext, !.observed = "Unhealthy"]
      BY <1>8 DEF OnFailed, Reduction
    <2>2. QED
      BY <2>1 DEF Snapshot, ObservedState
  <1>9. CASE reduce(s, e) = OnGone(s)
    <2>1. t = [s EXCEPT !.context = NoContext, !.attempt = NoAttempt,
                        !.observed = IF Fenced(s) THEN "Fenced" ELSE "Stopped"]
      BY <1>9 DEF OnGone, Reduction
    <2>2. QED
      BY <2>1 DEF Snapshot, ObservedState
  <1>10. QED
    BY <1>1, <1>2, <1>3, <1>4, <1>5, <1>6, <1>7, <1>8, <1>9, ReduceCases

\* What an effect tells of the reduction that asked for it: spawns are for the
\* attempt after the current one and of an active node, a bootstrap is of the
\* attempt just reported, and a stop is of the attempt that an inactive node
\* still holds.
EffectTells(s, e, t, f) ==
    /\ f \in Effect
    /\ f.kind = "Spawn" => Active(t) /\ f.arg = next(s) /\ t.attempt = s.attempt
    /\ f.kind = "Bootstrap" => e.kind = "ReadyUrl" /\ f.arg = e.attempt /\ t.attempt = s.attempt
    /\ f.kind = "Stop" => ~Active(t)
    /\ f.kind \in {"Bootstrap", "Stop", "ScheduleBackoff"} => f.arg = s.attempt /\ f.arg # NoAttempt

AllTell(s, e, t, fs) == fs \in Seq(Effect) /\ \A i \in DOMAIN fs : EffectTells(s, e, t, fs[i])

LEMMA OneTells ==
    ASSUME NEW s, NEW e, NEW t, NEW f, EffectTells(s, e, t, f)
    PROVE  AllTell(s, e, t, <<f>>)
  BY DEF EffectTells, AllTell

LEMMA TwoTell ==
    ASSUME NEW s, NEW e, NEW t, NEW f, NEW g, EffectTells(s, e, t, f), EffectTells(s, e, t, g)
    PROVE  AllTell(s, e, t, <<f, g>>)
  BY DEF EffectTells, AllTell

LEMMA EffectsTell ==
    ASSUME NEW s \in Snapshot, NEW A \in SUBSET AttemptId, NEW e \in Event(A)
    PROVE  AllTell(s, e, reduce(s, e).snapshot, reduce(s, e).effects)
  <1> DEFINE t == reduce(s, e).snapshot
             fs == reduce(s, e).effects
  <1>1. ASSUME fs = <<>> PROVE AllTell(s, e, t, fs)
    BY <1>1 DEF AllTell
  <1>n. s.attempt \in Nat /\ next(s) \in Nat /\ s.generation \in Nat
    BY DEF Snapshot, AttemptId, NoAttempt, next, Generation
  <1> USE DEF Effect, EffectKind, Do
  <1>2. EffectTells(s, e, t, DropContext)
    BY DEF EffectTells, DropContext
  <1>3. CASE reduce(s, e) = Reduction(s, <<>>) \/ reduce(s, e) = OnGone(s)
             \/ (e.kind = "Spawned" /\ reduce(s, e) = OnSpawned(s, e.attempt))
    BY <1>1, <1>3 DEF Reduction, OnGone, OnSpawned
  <1>4. ASSUME Active(t), t.attempt = s.attempt, fs = <<Do("Spawn", next(s))>>
        PROVE  AllTell(s, e, t, fs)
    <2>1. EffectTells(s, e, t, Do("Spawn", next(s)))
      BY <1>4, <1>n DEF EffectTells
    <2>2. AllTell(s, e, t, <<Do("Spawn", next(s))>>)
      BY <2>1, OneTells
    <2>3. QED
      BY <1>4, <2>2
  <1>5. CASE Active(s) /\ reduce(s, e) = SpawnNext(s)
    BY <1>4, <1>5 DEF SpawnNext, Reduction
  <1>6. CASE reduce(s, e) = OnDesiredRunning(s)
    <2>1. CASE fs = <<>>
      BY <1>1, <2>1
    <2>2. CASE ~s.shutdown /\ ~Fenced(s) /\ fs = <<Do("Spawn", next(s))>>
      <3>1. t = [s EXCEPT !.desired = "Running"]
        BY <1>6, <2>2 DEF OnDesiredRunning, Reduction
      <3>2. Active(t) /\ t.attempt = s.attempt
        BY <2>2, <3>1 DEF Active, Fenced, Snapshot
      <3>3. QED
        BY <1>4, <2>2, <3>2
    <2>3. QED
      BY <1>6, <2>1, <2>2 DEF OnDesiredRunning, Reduction
  <1>7. CASE reduce(s, e) = OnShutdown(s) \/ reduce(s, e) = OnFence(s) \/ reduce(s, e) = OnDesiredStopped(s)
    <2>1. CASE fs = <<>>
      BY <1>1, <2>1
    <2>2. CASE fs = <<DropContext>>
      <3>1. AllTell(s, e, t, <<DropContext>>)
        BY <1>2, OneTells
      <3>2. QED
        BY <2>2, <3>1
    <2>3. CASE s.attempt # NoAttempt /\ fs = <<DropContext, Do("Stop", s.attempt)>>
      <3>1. ~Active(t)
        BY <1>7, WindsDown
      <3>2. EffectTells(s, e, t, Do("Stop", s.attempt))
        BY <1>n, <2>3, <3>1 DEF EffectTells
      <3>3. AllTell(s, e, t, <<DropContext, Do("Stop", s.attempt)>>)
        BY <1>2, <3>2, TwoTell
      <3>4. QED
        BY <2>3, <3>3
    <2>4. /\ s.attempt = NoAttempt => StopCurrent(s) = <<>>
          /\ s.attempt # NoAttempt => StopCurrent(s) = <<DropContext, Do("Stop", s.attempt)>>
      BY Zenon DEF StopCurrent
    <2>5. fs = <<>> \/ fs = StopCurrent(s)
      BY <1>7 DEF OnShutdown, OnFence, OnDesiredStopped, Reduction
    <2>6. QED
      BY <2>1, <2>3, <2>4, <2>5
  <1>8. CASE e.kind = "ReadyUrl" /\ current(s, e.attempt) /\ reduce(s, e) = OnReadyUrl(s, e.attempt)
    <2>1. e.attempt \in AttemptId
      BY <1>8 DEF Event, CommandKind
    <2>2. t = [s EXCEPT !.observed = "Authenticating"] /\ fs = <<Do("Bootstrap", e.attempt)>>
      BY <1>8 DEF OnReadyUrl, Reduction
    <2>3. t.attempt = s.attempt
      BY <2>2 DEF Snapshot
    <2>4. EffectTells(s, e, t, Do("Bootstrap", e.attempt))
      BY <1>8, <2>1, <2>3 DEF EffectTells, current, AttemptId, NoAttempt
    <2>5. AllTell(s, e, t, <<Do("Bootstrap", e.attempt)>>)
      BY <2>4, OneTells
    <2>6. QED
      BY <2>2, <2>5
  <1>9. CASE reduce(s, e) = OnBootstrapSucceeded(s, e.authority)
    <2> DEFINE f == Do("PublishContext", s.generation + 1)
    <2>1. EffectTells(s, e, t, f) /\ fs = <<f>>
      BY <1>n, <1>9 DEF EffectTells, OnBootstrapSucceeded, Reduction
    <2>2. AllTell(s, e, t, <<f>>)
      BY <2>1, OneTells
    <2>3. QED
      BY <2>1, <2>2
  <1>10. CASE /\ e.kind \in {"Failed", "ChildExited"} /\ current(s, e.attempt)
              /\ reduce(s, e) = OnFailed(s, e.attempt)
    <2>1. e.attempt \in AttemptId
      BY <1>10 DEF Event, CommandKind
    <2>2. fs = <<DropContext, Do("ScheduleBackoff", e.attempt)>>
      BY <1>10 DEF OnFailed, Reduction
    <2>3. EffectTells(s, e, t, Do("ScheduleBackoff", e.attempt))
      BY <1>10, <2>1 DEF EffectTells, current, AttemptId, NoAttempt
    <2>4. AllTell(s, e, t, <<DropContext, Do("ScheduleBackoff", e.attempt)>>)
      BY <1>2, <2>3, TwoTell
    <2>5. QED
      BY <2>2, <2>4
  <1>11. QED
    BY <1>3, <1>5, <1>6, <1>7, <1>8, <1>9, <1>10, ReduceCases

\* How a reduction other than an operator's start moves the snapshot: an
\* inactive node stays inactive, an attempt is adopted only from the report of
\* its start, and a node becomes ready only for the attempt and the child that
\* authenticated.
LEMMA ReduceMoves ==
    ASSUME NEW s \in Snapshot, NEW A \in SUBSET AttemptId, NEW e \in Event(A),
           e.kind # "DesiredRunning"
    PROVE  LET t == reduce(s, e).snapshot
           IN  /\ Active(t) => Active(s)
               /\ \/ t.attempt \in {s.attempt, NoAttempt}
                  \/ e.kind = "Spawned" /\ t.attempt = e.attempt
               /\ local(t) => \/ local(s) /\ t.attempt = s.attempt /\ t.context = s.context
                              \/ /\ e.kind = "BootstrapSucceeded" /\ t.attempt = e.attempt
                                 /\ t.context.authority = e.authority
  <1> DEFINE t == reduce(s, e).snapshot
  <1> SUFFICES /\ Active(t) => Active(s)
               /\ \/ t.attempt \in {s.attempt, NoAttempt}
                  \/ e.kind = "Spawned" /\ t.attempt = e.attempt
               /\ local(t) => \/ local(s) /\ t.attempt = s.attempt /\ t.context = s.context
                              \/ /\ e.kind = "BootstrapSucceeded" /\ t.attempt = e.attempt
                                 /\ t.context.authority = e.authority
    OBVIOUS
  <1> USE DEF Active, Fenced, local
  <1>1. CASE t = s
    BY <1>1
  <1>2. CASE reduce(s, e) = OnShutdown(s) \/ reduce(s, e) = OnFence(s) \/ reduce(s, e) = OnDesiredStopped(s)
    BY <1>1, <1>2, WindsDown
  <1>3. CASE e.kind = "Spawned" /\ Active(s) /\ reduce(s, e) = OnSpawned(s, e.attempt)
    <2>1. t = [s EXCEPT !.attempt = e.attempt, !.observed = "Starting"]
      BY <1>3 DEF OnSpawned, Reduction
    <2>2. t.attempt = e.attempt /\ t.observed = "Starting"
      BY <2>1 DEF Snapshot
    <2>3. QED
      BY <1>3, <2>2
  <1>4. CASE Active(s) /\ reduce(s, e) = OnReadyUrl(s, e.attempt)
    <2>1. t = [s EXCEPT !.observed = "Authenticating"]
      BY <1>4 DEF OnReadyUrl, Reduction
    <2>2. t.attempt = s.attempt /\ t.observed = "Authenticating"
      BY <2>1 DEF Snapshot
    <2>3. QED
      BY <1>4, <2>2
  <1>5. CASE /\ e.kind = "BootstrapSucceeded" /\ e.authority \in Authority
             /\ current(s, e.attempt) /\ Active(s)
             /\ reduce(s, e) = OnBootstrapSucceeded(s, e.authority)
    <2> DEFINE g == s.generation + 1
               c == [authority |-> e.authority, generation |-> g]
    <2>1. t = [s EXCEPT !.generation = g, !.observed = "Ready", !.context = c] /\ c.authority = e.authority
      BY <1>5 DEF OnBootstrapSucceeded, Reduction
    <2> HIDE DEF g, c
    <2>2. t.context = c /\ t.attempt = s.attempt /\ s.attempt = e.attempt
      BY <1>5, <2>1 DEF Snapshot, current
    <2>3. QED
      BY <1>5, <2>1, <2>2
  <1>6. CASE reduce(s, e) = OnFailed(s, e.attempt) \/ reduce(s, e) = OnGone(s)
    <2>1. t.context = NoContext /\ t.attempt \in {s.attempt, NoAttempt} /\ (Active(t) => Active(s))
      <3>1. CASE t = [s EXCEPT !.context = NoContext, !.observed = "Unhealthy"]
        BY <3>1 DEF Snapshot
      <3>2. CASE t = [s EXCEPT !.context = NoContext, !.attempt = NoAttempt,
                               !.observed = IF Fenced(s) THEN "Fenced" ELSE "Stopped"]
        BY <3>2 DEF Snapshot
      <3>3. QED
        BY <1>6, <3>1, <3>2 DEF OnFailed, OnGone, Reduction
    <2>2. QED
      BY <2>1
  <1>7. QED
    BY <1>1, <1>2, <1>3, <1>4, <1>5, <1>6, ReduceCases DEF Reduction, SpawnNext

----------------------------------------------------------------------------
(* The invariant.                                                            *)

Numbers == 1..(MaxSpawns + 1)

\* What the sender of an event knew, which holds until the event is reduced.
GoodEvent(e) ==
    /\ e \in Event(Numbers) /\ e.kind \notin {"DesiredRunning", "DesiredStopped"}
    /\ e.kind = "Spawned" => e.attempt <= Len(procs)
    /\ e.kind = "ReadyUrl" => e.attempt \in DOMAIN ready
    /\ e.kind = "BootstrapSucceeded" =>
          e.authority \in DOMAIN procs /\ procs[e.authority].attempt = e.attempt

\* What the reduction that asked for an effect knew.
GoodEffect(f) ==
    /\ f \in Effect
    /\ f.kind = "Spawn" => Active(snap) /\ f.arg \in 1..(Len(procs) + 1)
    /\ f.kind = "Bootstrap" => f.arg \in DOMAIN ready
    /\ f.kind = "Stop" => ~Active(snap)
    /\ f.kind \in {"Bootstrap", "Stop", "ScheduleBackoff"} => f.arg \in 1..Len(procs)

QueueGood ==
    /\ queue \in Seq(Event(Numbers)) /\ Len(queue) <= QueueCap
    /\ \A i \in DOMAIN queue : GoodEvent(queue[i])

EffectsGood ==
    /\ effects \in Seq(Effect)
    /\ \A i \in DOMAIN effects : GoodEffect(effects[i])

OutboxGood ==
    outbox = <<>> \/ \E e \in Event(Numbers) :
        outbox = <<e>> /\ GoodEvent(e) /\ e.kind \in {"Spawned", "Failed"}

Procs ==
    /\ procs \in Seq(Child) /\ Len(procs) <= MaxSpawns
    /\ \A p \in DOMAIN procs : procs[p].attempt <= p

ChildrenGood == \A a \in DOMAIN children : children[a] \in DOMAIN procs
ReadyGood == \A a \in DOMAIN ready : ready[a] \in DOMAIN procs /\ procs[ready[a]].attempt = a

GoodTask(t) ==
    /\ t \in Task /\ t.attempt <= Len(procs)
    /\ t.kind = "Bootstrap" => t.child \in DOMAIN procs /\ procs[t.child].attempt = t.attempt

Threads == \A t \in DOMAIN tasks : GoodTask(t)

Shown ==
    /\ snap \in Snapshot /\ snap.attempt <= Len(procs)
    /\ local(snap) => /\ snap.context.authority \in DOMAIN procs
                      /\ procs[snap.context.authority].attempt = snap.attempt

Rest ==
    /\ main \in {"Running", "Exited"} /\ console \in BOOLEAN
    /\ shutdowns \in 0..MaxShutdowns /\ fences \in 0..MaxFences

IInv ==
    /\ QueueGood /\ EffectsGood /\ OutboxGood
    /\ Procs /\ ChildrenGood /\ ReadyGood
    /\ Threads /\ Shown /\ Rest

Stopping(t, phase) == t.kind = "Stop" /\ t.phase = phase

\* A stop of an attempt starts after the last spawn.  One thread at a time
\* waits for a child, and nobody else finds a child for that attempt, during
\* and after it.
StopThreads ==
    \A t \in DOMAIN tasks :
        /\ t.kind = "Stop" => ~Active(snap)
        /\ Stopping(t, "Terminating") \/ Stopping(t, "Reaped") => t.attempt \notin DOMAIN children
        /\ Stopping(t, "Terminating") =>
              /\ t.child \in DOMAIN procs /\ tasks[t] = 1
              /\ \A u \in DOMAIN tasks :
                    /\ Stopping(u, "Terminating") => u = t
                    /\ Stopping(u, "Reaped") => u.attempt # t.attempt

\* What makes it right to report attempt a as stopped.
Acked(a) ==
    /\ ~Active(snap)
    /\ a \notin DOMAIN children
    /\ \A t \in DOMAIN tasks : Stopping(t, "Terminating") => t.attempt # a

Acks == \A i \in DOMAIN queue : queue[i].kind = "Stopped" => Acked(queue[i].attempt)

Stops == StopThreads /\ Acks

----------------------------------------------------------------------------
(* Sequences and bags.                                                      *)

LEMMA Appended ==
    ASSUME NEW S, NEW q \in Seq(S), NEW e \in S
    PROVE  /\ Append(q, e) \in Seq(S) /\ Len(Append(q, e)) = Len(q) + 1
           /\ \A i \in DOMAIN Append(q, e) :
                 \/ i \in DOMAIN q /\ Append(q, e)[i] = q[i]
                 \/ i = Len(q) + 1 /\ Append(q, e)[i] = e
  BY AppendProperties, LenProperties

LEMMA Taken ==
    ASSUME NEW S, NEW q \in Seq(S), q # <<>>
    PROVE  /\ Tail(q) \in Seq(S) /\ Len(Tail(q)) = Len(q) - 1
           /\ 1 \in DOMAIN q /\ Head(q) = q[1] /\ Head(q) \in S
           /\ \A i \in DOMAIN Tail(q) : i + 1 \in DOMAIN q /\ Tail(q)[i] = q[i + 1]
  <1>1. /\ Head(q) \in S /\ Tail(q) \in Seq(S) /\ Len(Tail(q)) = Len(q) - 1
        /\ \A i \in 1..Len(Tail(q)) : Tail(q)[i] = q[i + 1]
    BY HeadTailProperties
  <1>2. DOMAIN q = 1..Len(q) /\ DOMAIN Tail(q) = 1..Len(Tail(q)) /\ Len(q) \in Nat \ {0}
    BY <1>1, LenProperties, EmptySeq
  <1>3. Head(q) = q[1]
    OBVIOUS
  <1>4. QED
    BY <1>1, <1>2, <1>3

LEMMA Wider ==
    ASSUME NEW S, NEW T, S \subseteq T
    PROVE  Seq(S) \subseteq Seq(T)
  BY SeqMonotonic

LEMMA Replaced ==
    ASSUME NEW S, NEW q \in Seq(S), NEW i \in DOMAIN q, NEW e \in S
    PROVE  /\ [q EXCEPT ![i] = e] \in Seq(S) /\ Len([q EXCEPT ![i] = e]) = Len(q)
           /\ DOMAIN [q EXCEPT ![i] = e] = DOMAIN q
           /\ \A j \in DOMAIN q : [q EXCEPT ![i] = e][j] = IF j = i THEN e ELSE q[j]
  BY ExceptSeq, LenProperties

LEMMA AddedToBag ==
    ASSUME NEW B, NEW x
    PROVE  /\ DOMAIN BagAdd(B, x) = DOMAIN B \cup {x}
           /\ \A y \in DOMAIN B : y # x => BagAdd(B, x)[y] = B[y]
           /\ x \notin DOMAIN B => BagAdd(B, x)[x] = 1
  BY DEF BagAdd

LEMMA RemovedFromBag ==
    ASSUME NEW B, NEW x
    PROVE  /\ DOMAIN BagRemove(B, x) \subseteq DOMAIN B
           /\ \A y \in DOMAIN B : y # x => y \in DOMAIN BagRemove(B, x) /\ BagRemove(B, x)[y] = B[y]
           /\ x \in DOMAIN B /\ B[x] = 1 => x \notin DOMAIN BagRemove(B, x)
  BY DEF BagRemove

----------------------------------------------------------------------------
(* What all steps of the running daemon have in common: children are only   *)
(* added and keep their attempts, and no URL is forgotten.  Then every part  *)
(* of the invariant that a step does not touch stays true.                  *)

Keeps ==
    /\ procs' \in Seq(Child) /\ Len(procs') >= Len(procs)
    /\ \A p \in DOMAIN procs : procs'[p].attempt = procs[p].attempt
    /\ DOMAIN ready \subseteq DOMAIN ready'

LEMMA Domains ==
    ASSUME Procs
    PROVE  DOMAIN procs = 1..Len(procs) /\ Len(procs) \in Nat
  BY LenProperties DEF Procs

LEMMA ClaimsStay ==
    ASSUME IInv, Keeps
    PROVE  /\ \A e : GoodEvent(e) => GoodEvent(e)'
           /\ snap' = snap => \A f : GoodEffect(f) => GoodEffect(f)'
           /\ \A t : GoodTask(t) => GoodTask(t)'
           /\ DOMAIN procs' = 1..Len(procs') /\ Len(procs') \in Nat
           /\ DOMAIN procs \subseteq DOMAIN procs'
  <1>1. /\ DOMAIN procs = 1..Len(procs) /\ Len(procs) \in Nat
        /\ DOMAIN procs' = 1..Len(procs') /\ Len(procs') \in Nat
        /\ Len(procs') >= Len(procs)
    BY Domains, LenProperties DEF IInv, Keeps
  <1>2. DOMAIN procs \subseteq DOMAIN procs'
    BY <1>1
  <1>3. ASSUME NEW e, GoodEvent(e) PROVE GoodEvent(e)'
    <2>1. e.kind = "Spawned" => e.attempt \in Nat
      BY <1>3 DEF GoodEvent, Event, CommandKind, Numbers
    <2>2. e.kind = "Spawned" => e.attempt <= Len(procs')
      BY <1>1, <1>3, <2>1 DEF GoodEvent
    <2>3. QED
      BY <1>2, <1>3, <2>2 DEF GoodEvent, Keeps
  <1>4. ASSUME snap' = snap, NEW f, GoodEffect(f) PROVE GoodEffect(f)'
    <2>1. f.arg \in Nat
      BY <1>4 DEF GoodEffect, Effect
    <2>2. QED
      BY <1>1, <1>4, <2>1 DEF GoodEffect, Keeps
  <1>5. ASSUME NEW t, GoodTask(t) PROVE GoodTask(t)'
    <2>1. t.attempt \in Nat
      BY <1>5 DEF GoodTask, Task, AttemptId
    <2>2. QED
      BY <1>1, <1>2, <1>5, <2>1 DEF GoodTask, Keeps
  <1>6. QED
    BY <1>1, <1>2, <1>3, <1>4, <1>5

LEMMA Frame ==
    ASSUME IInv, Keeps
    PROVE  /\ queue' = queue => QueueGood'
           /\ \A e : Post(e) /\ GoodEvent(e)' => QueueGood'
           /\ queue # <<>> /\ queue' = Tail(queue) => QueueGood'
           /\ UNCHANGED <<snap, effects>> => EffectsGood'
           /\ UNCHANGED snap /\ effects # <<>> /\ effects' = Tail(effects) => EffectsGood'
           /\ outbox' = outbox \/ outbox' = <<>> => OutboxGood'
           /\ UNCHANGED children => ChildrenGood'
           /\ UNCHANGED ready => ReadyGood'
           /\ (\A t \in DOMAIN tasks' : t \in DOMAIN tasks \/ GoodTask(t)') => Threads'
           /\ UNCHANGED snap => Shown'
           /\ UNCHANGED mainVars => Rest'
  <1>1. /\ \A e : GoodEvent(e) => GoodEvent(e)'
        /\ snap' = snap => \A f : GoodEffect(f) => GoodEffect(f)'
        /\ \A t : GoodTask(t) => GoodTask(t)'
        /\ DOMAIN procs' = 1..Len(procs') /\ Len(procs') \in Nat
        /\ DOMAIN procs \subseteq DOMAIN procs'
    BY ClaimsStay
  <1>2. queue \in Seq(Event(Numbers)) /\ Len(queue) \in Nat
    BY LenProperties DEF IInv, QueueGood
  <1>3. ASSUME queue' = queue PROVE QueueGood'
    BY <1>1, <1>3 DEF IInv, QueueGood, Numbers
  <1>4. ASSUME NEW e, Post(e), GoodEvent(e)' PROVE QueueGood'
    <2>1. e \in Event(Numbers) /\ queue' = Append(queue, e) /\ Len(queue) < QueueCap
      BY <1>4 DEF GoodEvent, Post, Numbers
    <2>2. /\ queue' \in Seq(Event(Numbers)) /\ Len(queue') = Len(queue) + 1
          /\ \A i \in DOMAIN queue' : (i \in DOMAIN queue /\ queue'[i] = queue[i]) \/ queue'[i] = e
      BY <1>2, <2>1, Appended
    <2>3. Len(queue') <= QueueCap
      BY <1>2, <2>1, <2>2, BoundsAssumption
    <2>4. (\A i \in DOMAIN queue : GoodEvent(queue[i]))'
      BY <1>1, <1>4, <2>2 DEF IInv, QueueGood
    <2>5. QED
      BY <2>2, <2>3, <2>4 DEF QueueGood, Numbers
  <1>5. ASSUME queue # <<>>, queue' = Tail(queue) PROVE QueueGood'
    <2>1. /\ queue' \in Seq(Event(Numbers)) /\ Len(queue') = Len(queue) - 1
          /\ \A i \in DOMAIN queue' : i + 1 \in DOMAIN queue /\ queue'[i] = queue[i + 1]
      BY <1>2, <1>5, Taken
    <2>2. Len(queue') <= QueueCap
      BY <1>2, <2>1, BoundsAssumption DEF IInv, QueueGood
    <2>3. (\A i \in DOMAIN queue : GoodEvent(queue[i]))'
      BY <1>1, <2>1 DEF IInv, QueueGood
    <2>4. QED
      BY <2>1, <2>2, <2>3 DEF QueueGood, Numbers
  <1>6. ASSUME UNCHANGED <<snap, effects>> PROVE EffectsGood'
    BY <1>1, <1>6 DEF IInv, EffectsGood
  <1>7. ASSUME UNCHANGED snap, effects # <<>>, effects' = Tail(effects) PROVE EffectsGood'
    <2>1. /\ effects' \in Seq(Effect)
          /\ \A i \in DOMAIN effects' : i + 1 \in DOMAIN effects /\ effects'[i] = effects[i + 1]
      BY <1>7, Taken DEF IInv, EffectsGood
    <2>2. (\A i \in DOMAIN effects : GoodEffect(effects[i]))'
      BY <1>1, <1>7, <2>1 DEF IInv, EffectsGood
    <2>3. QED
      BY <2>1, <2>2 DEF EffectsGood
  <1>8. ASSUME outbox' = outbox \/ outbox' = <<>> PROVE OutboxGood'
    BY <1>1, <1>8 DEF IInv, OutboxGood, Numbers
  <1>9. ASSUME UNCHANGED children PROVE ChildrenGood'
    BY <1>1, <1>9 DEF IInv, ChildrenGood
  <1>10. ASSUME UNCHANGED ready PROVE ReadyGood'
    BY <1>1, <1>10 DEF IInv, ReadyGood, Keeps
  <1>11. ASSUME \A t \in DOMAIN tasks' : t \in DOMAIN tasks \/ GoodTask(t)' PROVE Threads'
    BY <1>1, <1>11 DEF IInv, Threads
  <1>12. ASSUME UNCHANGED snap PROVE Shown'
    <2>1. snap.attempt \in Nat /\ Len(procs) \in Nat
      BY Domains DEF IInv, Shown, Snapshot, AttemptId, NoAttempt
    <2>2. snap'.attempt <= Len(procs')
      BY <1>1, <1>12, <2>1 DEF IInv, Shown, Keeps
    <2>3. QED
      BY <1>1, <1>12, <2>2 DEF IInv, Shown, Keeps, local
  <1>13. ASSUME UNCHANGED mainVars PROVE Rest'
    BY <1>13 DEF IInv, Rest, mainVars
  <1>14. QED
    BY <1>3, <1>4, <1>5, <1>6, <1>7, <1>8, <1>9, <1>10, <1>11, <1>12, <1>13

LEMMA UnchangedKeeps ==
    ASSUME IInv, UNCHANGED <<procs, ready>>
    PROVE  Keeps /\ Procs'
  BY Domains DEF IInv, Procs, Keeps

\* A child changes, but not the attempt it is for.
LEMMA ChangedKeeps ==
    ASSUME IInv, NEW p \in DOMAIN procs, NEW c \in Child, c.attempt = procs[p].attempt,
           procs' = [procs EXCEPT ![p] = c], DOMAIN ready \subseteq DOMAIN ready'
    PROVE  Keeps /\ Procs' /\ Len(procs') = Len(procs)
  <1>1. procs \in Seq(Child) /\ Len(procs) \in Nat
    BY Domains DEF IInv, Procs
  <1>2. /\ procs' \in Seq(Child) /\ Len(procs') = Len(procs) /\ DOMAIN procs' = DOMAIN procs
        /\ \A q \in DOMAIN procs : procs'[q] = IF q = p THEN c ELSE procs[q]
    BY <1>1, Replaced
  <1>3. QED
    BY <1>1, <1>2 DEF Keeps, Procs, IInv

----------------------------------------------------------------------------
(* One lemma per action, or per group of actions that differ only in what   *)
(* they report.                                                             *)

LEMMA InitInv == Init => IInv
  <1> SUFFICES ASSUME Init PROVE IInv
    OBVIOUS
  <1> USE BoundsAssumption
  <1>1. PICK desired \in DesiredState :
           /\ snap = InitialSnapshot(desired)
           /\ queue = IF desired = "Running" THEN <<Command("Reconcile")>> ELSE <<>>
    BY DEF Init
  <1>2. Shown
    <2>1. snap \in Snapshot
      BY <1>1 DEF InitialSnapshot, Snapshot, DesiredState, ObservedState, RegistrationState,
                  Generation, NoAttempt
    <2>2. QED
      BY <1>1, <2>1 DEF Init, Shown, InitialSnapshot, local, NoAttempt
  <1>3. GoodEvent(Command("Reconcile"))
    BY DEF GoodEvent, Command, Event, CommandKind
  <1>4. QueueGood
    <2>1. Command("Reconcile") \in Event(Numbers)
      BY <1>3 DEF GoodEvent
    <2>2. CASE desired = "Running"
      <3>1. queue = <<Command("Reconcile")>>
        BY <1>1, <2>2
      <3>2. QED
        BY <1>3, <2>1, <3>1 DEF QueueGood
    <2>3. CASE desired # "Running"
      BY <1>1, <2>3 DEF QueueGood
    <2>4. QED
      BY <2>2, <2>3
  <1>5. DOMAIN tasks = {}
    BY DEF Init, EmptyBag, SetToBag
  <1>6. QED
    BY <1>2, <1>4, <1>5
    DEF Init, IInv, EffectsGood, OutboxGood, Procs, ChildrenGood, ReadyGood, Threads, Rest

LEMMA Known ==
    ASSUME IInv
    PROVE  /\ Len(procs) \in Nat /\ Len(procs) <= MaxSpawns /\ DOMAIN procs = 1..Len(procs)
           /\ 1..Len(procs) \subseteq Numbers /\ Numbers \subseteq AttemptId
           /\ \A p \in DOMAIN procs : procs[p] \in Child /\ procs[p].attempt \in 1..Len(procs)
           /\ BagToSet(tasks) = DOMAIN tasks
           /\ \A t \in DOMAIN tasks : t \in Task /\ t.attempt \in 1..Len(procs)
  <1>1. Len(procs) \in Nat /\ Len(procs) <= MaxSpawns /\ DOMAIN procs = 1..Len(procs)
    BY Domains DEF IInv, Procs
  <1>2. 1..Len(procs) \subseteq Numbers /\ Numbers \subseteq AttemptId
    BY <1>1, BoundsAssumption DEF Numbers, AttemptId
  <1>3. \A p \in DOMAIN procs : procs[p] \in Child /\ procs[p].attempt \in 1..Len(procs)
    <2>1. \A p \in DOMAIN procs : procs[p] \in Child
      BY <1>1, ElementOfSeq DEF IInv, Procs
    <2>2. QED
      BY <1>1, <2>1 DEF IInv, Procs, Child, AttemptId
  <1>4. \A t \in DOMAIN tasks : t \in Task /\ t.attempt \in 1..Len(procs)
    BY <1>1 DEF IInv, Threads, GoodTask, Task, AttemptId
  <1>5. QED
    BY <1>1, <1>2, <1>3, <1>4 DEF BagToSet

\* Most reports claim nothing but their attempt.
LEMMA PlainReport ==
    ASSUME NEW a \in Numbers, NEW k \in AttemptKind
    PROVE  /\ Report(k, a) \in Event(Numbers) /\ Report(k, a).kind = k /\ Report(k, a).attempt = a
           /\ k \notin {"Spawned", "ReadyUrl"} => GoodEvent(Report(k, a)) /\ GoodEvent(Report(k, a))'
  <1>1. Report(k, a) \in Event(Numbers) /\ Report(k, a).kind = k /\ Report(k, a).attempt = a
    BY DEF Report, Event
  <1>2. ASSUME k \notin {"Spawned", "ReadyUrl"} PROVE GoodEvent(Report(k, a)) /\ GoodEvent(Report(k, a))'
    BY <1>1, <1>2 DEF GoodEvent, AttemptKind, Numbers
  <1>3. QED
    BY <1>1, <1>2

LEMMA Posting ==
    ASSUME NEW e \in Event(Numbers), GoodEvent(e)', outbox' = <<e>>, e.kind \in {"Spawned", "Failed"}
    PROVE  OutboxGood'
  BY DEF OutboxGood, Numbers

LEMMA ReduceKeeps ==
    ASSUME IInv, Reduce
    PROVE  IInv'
  <1> DEFINE e == Head(queue)
             t == reduce(snap, e).snapshot
             fs == reduce(snap, e).effects
  <1>1. queue # <<>> /\ snap' = t /\ effects' = fs /\ queue' = Tail(queue)
        /\ UNCHANGED <<outbox, supervisorVars, mainVars>>
    BY DEF Reduce
  <1>2. GoodEvent(e)
    BY <1>1, Taken DEF IInv, QueueGood
  <1>3. snap \in Snapshot /\ e \in Event(Numbers) /\ Numbers \in SUBSET AttemptId
    BY <1>2, Known DEF GoodEvent, IInv, Shown
  <1>4. /\ t \in Snapshot
        /\ t.attempt \in {snap.attempt, NoAttempt} \/ (e.kind = "Spawned" /\ t.attempt = e.attempt)
        /\ local(t) => \/ local(snap) /\ t.attempt = snap.attempt /\ t.context = snap.context
                       \/ /\ e.kind = "BootstrapSucceeded" /\ t.attempt = e.attempt
                          /\ t.context.authority = e.authority
    BY <1>2, <1>3, ReduceType, ReduceMoves DEF GoodEvent
  <1>5. AllTell(snap, e, t, fs)
    BY <1>3, EffectsTell
  <1> HIDE DEF e, t, fs
  <1>6. Keeps /\ Procs'
    BY <1>1, UnchangedKeeps DEF supervisorVars
  <1>7. Shown'
    BY <1>1, <1>2, <1>4, Known DEF IInv, Shown, GoodEvent, supervisorVars, NoAttempt
  <1>8. EffectsGood'
    <2>1. ASSUME NEW f, EffectTells(snap, e, t, f) PROVE GoodEffect(f)'
      <3>1. snap.attempt \in 0..Len(procs)
        BY Known DEF IInv, Shown, Snapshot, AttemptId, NoAttempt
      <3>2. f.kind = "Spawn" => f.arg \in 1..(Len(procs) + 1)
        BY <2>1, <3>1, Known DEF EffectTells, next, NoAttempt
      <3>3. f.kind \in {"Bootstrap", "Stop", "ScheduleBackoff"} => f.arg \in 1..Len(procs)
        BY <2>1, <3>1, Known DEF EffectTells, NoAttempt
      <3>4. QED
        BY <1>1, <1>2, <2>1, <3>2, <3>3 DEF EffectTells, GoodEffect, GoodEvent, supervisorVars
    <2>2. QED
      BY <1>1, <1>5, <2>1 DEF EffectsGood, AllTell
  <1>9. QED
    BY <1>1, <1>6, <1>7, <1>8, Frame DEF IInv, supervisorVars

\* The head of the effects claims what its kind says.
LEMMA NextEffect ==
    ASSUME IInv, NEW k, Executing(k)
    PROVE  /\ effects # <<>> /\ effects' = Tail(effects) /\ outbox = <<>>
           /\ Head(effects).kind = k /\ GoodEffect(Head(effects))
  BY Taken DEF Executing, IInv, EffectsGood

LEMMA ExecSpawnKeeps ==
    ASSUME IInv, ExecSpawn
    PROVE  IInv'
  <1> DEFINE n == Len(procs)
  <1>0. PICK a : a = Head(effects).arg
    OBVIOUS
  <1>1. /\ Executing("Spawn") /\ n < MaxSpawns /\ procs' = Append(procs, NewChild(a))
        /\ children' = Insert(children, a, Len(procs')) /\ outbox' = <<Report("Spawned", a)>>
        /\ UNCHANGED <<snap, queue, ready, tasks, mainVars>>
    BY <1>0 DEF ExecSpawn
  <1>2. a \in 1..(n + 1) /\ effects # <<>> /\ effects' = Tail(effects)
    BY <1>0, <1>1, NextEffect DEF GoodEffect
  <1>3. NewChild(a) \in Child /\ NewChild(a).attempt = a
    BY <1>2, Known DEF NewChild, Child, AttemptId
  <1>4. /\ procs' \in Seq(Child) /\ Len(procs') = n + 1
        /\ \A p \in DOMAIN procs' : (p \in DOMAIN procs /\ procs'[p] = procs[p])
                                   \/ (p = n + 1 /\ procs'[p] = NewChild(a))
    BY <1>1, <1>3, Appended DEF IInv, Procs
  <1>5. DOMAIN procs' = 1..(n + 1) /\ DOMAIN procs = 1..n /\ n \in Nat
    BY <1>4, Known, LenProperties
  <1>6. \A p \in DOMAIN procs : procs'[p].attempt = procs[p].attempt
    BY <1>4, <1>5
  <1>7. Keeps
    <2>1. Len(procs') >= Len(procs)
      BY <1>4, <1>5
    <2>2. QED
      BY <1>1, <1>4, <1>6, <2>1 DEF Keeps
  <1>8. Procs'
    <2>1. Len(procs') <= MaxSpawns
      BY <1>1, <1>4, <1>5, BoundsAssumption
    <2>2. \A p \in DOMAIN procs' : procs'[p].attempt <= p
      BY <1>2, <1>3, <1>4, <1>5 DEF IInv, Procs
    <2>3. QED
      BY <1>4, <2>1, <2>2 DEF Procs
  <1>9. ChildrenGood'
    BY <1>1, <1>4, <1>5 DEF IInv, ChildrenGood, Insert
  <1>10. OutboxGood'
    <2>1. a \in Numbers /\ a <= Len(procs')
      BY <1>2, <1>4, <1>5, <1>1, BoundsAssumption DEF Numbers
    <2>2. /\ Report("Spawned", a) \in Event(Numbers) /\ Report("Spawned", a).kind = "Spawned"
          /\ Report("Spawned", a).attempt = a
      BY <2>1, PlainReport DEF AttemptKind
    <2>3. GoodEvent(Report("Spawned", a))'
      BY <2>1, <2>2 DEF GoodEvent, Numbers
    <2>4. QED
      BY <1>1, <2>2, <2>3, Posting
  <1>11. QED
    BY <1>1, <1>2, <1>7, <1>8, <1>9, <1>10, Frame DEF IInv

LEMMA ExecSpawnFailsKeeps ==
    ASSUME IInv, ExecSpawnFails
    PROVE  IInv'
  <1>0. PICK a : a = Head(effects).arg
    OBVIOUS
  <1>1. /\ Executing("Spawn") /\ outbox' = <<Report("Failed", a)>>
        /\ UNCHANGED <<snap, queue, supervisorVars, mainVars>>
    BY <1>0 DEF ExecSpawnFails
  <1>2. a \in 1..(Len(procs) + 1) /\ effects # <<>> /\ effects' = Tail(effects)
    BY <1>0, <1>1, NextEffect DEF GoodEffect
  <1>3. a \in Numbers
    BY <1>2, Known, BoundsAssumption DEF Numbers
  <1>4. OutboxGood'
    <2>1. /\ Report("Failed", a) \in Event(Numbers) /\ Report("Failed", a).kind = "Failed"
          /\ GoodEvent(Report("Failed", a))'
      BY <1>3, PlainReport DEF AttemptKind
    <2>2. QED
      BY <1>1, <2>1, Posting
  <1>5. QED
    BY <1>1, <1>2, <1>4, UnchangedKeeps, Frame DEF IInv, supervisorVars

LEMMA SendKeeps ==
    ASSUME IInv, SendSpawned \/ SendSpawnFailed
    PROVE  IInv'
  <1>1. PICK e : /\ outbox = <<e>> /\ GoodEvent(e) /\ e = Head(outbox) /\ e \in Event(Numbers)
                 /\ e.kind \in {"Spawned", "Failed"}
    BY DEF IInv, OutboxGood, SendSpawned, SendSpawnFailed
  <1>2. Post(e) /\ outbox' = <<>> /\ UNCHANGED <<snap, effects, children, ready, tasks, mainVars>>
    BY <1>1 DEF SendSpawned, SendSpawnFailed, supervisorVars
  <1>3. Keeps /\ Procs'
    <2>1. CASE SendSpawned
      <3> DEFINE p == Len(procs)
                 c == [procs[p] EXCEPT !.reader = TRUE, !.waiter = TRUE]
      <3>1. e.kind = "Spawned" /\ procs' = [procs EXCEPT ![p].reader = TRUE, ![p].waiter = TRUE]
        BY <1>1, <2>1 DEF SendSpawned
      <3>2. e.attempt \in Nat \ {0}
        BY <1>1, <3>1 DEF Event, CommandKind, Numbers
      <3>3. p \in DOMAIN procs
        BY <1>1, <3>1, <3>2, Known DEF GoodEvent
      <3>4. procs[p] \in Child
        BY <3>3, Known
      <3>5. c \in Child /\ c.attempt = procs[p].attempt
        BY <3>4 DEF Child
      <3>6. procs' = [procs EXCEPT ![p] = c]
        BY <3>1, <3>3
      <3> HIDE DEF c, p
      <3>7. QED
        BY <1>2, <3>3, <3>5, <3>6, ChangedKeeps
    <2>2. CASE SendSpawnFailed
      BY <2>2, UnchangedKeeps DEF SendSpawnFailed, supervisorVars
    <2>3. QED
      BY <2>1, <2>2
  <1>4. GoodEvent(e)'
    BY <1>1, <1>3, ClaimsStay
  <1>5. QED
    BY <1>2, <1>3, <1>4, Frame DEF IInv

\* A thread starts or moves on, or one ends.
LEMMA ThreadsStay ==
    ASSUME IInv, Keeps, NEW t, GoodTask(t), DOMAIN tasks' \subseteq DOMAIN tasks \cup {t}
    PROVE  Threads'
  <1>1. \A u : GoodTask(u) => GoodTask(u)'
    BY ClaimsStay
  <1>2. \A u \in DOMAIN tasks' : GoodTask(u)
    BY DEF IInv, Threads
  <1>3. QED
    BY <1>1, <1>2 DEF Threads

\* Threads started for an effect.
LEMMA ExecTaskKeeps ==
    ASSUME IInv, ExecBootstrap \/ ExecScheduleBackoff \/ ExecStop
    PROVE  IInv'
  <1>0. PICK a, p : a = Head(effects).arg /\ p = ready[Head(effects).arg]
    OBVIOUS
  <1>1. PICK t : \E k \in {"Bootstrap", "ScheduleBackoff", "Stop"} :
           /\ Executing(k) /\ tasks' = BagAdd(tasks, t)
           /\ k = "Bootstrap" => t = Bootstrap(a, p, "Probing")
           /\ k = "ScheduleBackoff" => t = Backoff(a)
           /\ k = "Stop" => t = Stop(a, NoChild, "Locking")
    BY <1>0 DEF ExecBootstrap, ExecScheduleBackoff, ExecStop
  <1> PICK k \in {"Bootstrap", "ScheduleBackoff", "Stop"} :
           /\ Executing(k) /\ tasks' = BagAdd(tasks, t)
           /\ k = "Bootstrap" => t = Bootstrap(a, p, "Probing")
           /\ k = "ScheduleBackoff" => t = Backoff(a)
           /\ k = "Stop" => t = Stop(a, NoChild, "Locking")
    BY <1>1
  <1>2. UNCHANGED <<snap, queue, outbox, procs, children, ready, mainVars>>
    BY DEF ExecBootstrap, ExecScheduleBackoff, ExecStop
  <1>3. a \in 1..Len(procs) /\ effects # <<>> /\ effects' = Tail(effects)
        /\ (k = "Bootstrap" => a \in DOMAIN ready)
    BY <1>0, <1>1, NextEffect DEF GoodEffect
  <1>4. a \in AttemptId /\ (k = "Bootstrap" => p \in DOMAIN procs /\ p \in Nat /\ procs[p].attempt = a)
    BY <1>0, <1>3, Known DEF IInv, ReadyGood
  <1>5. GoodTask(t)
    <2>1. CASE k = "Bootstrap"
      <3>1. t = [kind |-> "Bootstrap", attempt |-> a, child |-> p, phase |-> "Probing"]
        BY <1>1, <2>1 DEF Bootstrap
      <3>2. QED
        BY <1>3, <1>4, <2>1, <3>1 DEF GoodTask, Task
    <2>2. CASE k # "Bootstrap"
      <3>1. t.attempt = a /\ t.kind # "Bootstrap" /\ t \in Task
        BY <1>1, <1>4, <2>2 DEF Backoff, Stop, Task, NoChild
      <3>2. QED
        BY <1>3, <3>1, Known DEF GoodTask
    <2>3. QED
      BY <2>1, <2>2
  <1>6. Keeps /\ Procs'
    BY <1>2, UnchangedKeeps
  <1>7. Threads'
    <2>1. DOMAIN tasks' = DOMAIN tasks \cup {t}
      BY <1>1, AddedToBag
    <2>2. QED
      BY <1>5, <1>6, <2>1, ThreadsStay
  <1>8. QED
    BY <1>2, <1>3, <1>6, <1>7, Frame DEF IInv

LEMMA ExecNothingKeeps ==
    ASSUME IInv, ExecNothing
    PROVE  IInv'
  <1>1. effects # <<>> /\ effects' = Tail(effects)
    BY NextEffect DEF ExecNothing
  <1>2. Keeps /\ Procs'
    BY UnchangedKeeps DEF ExecNothing, supervisorVars
  <1>3. QED
    BY <1>1, <1>2, Frame DEF ExecNothing, IInv, supervisorVars

LEMMA ChildExitsKeeps ==
    ASSUME IInv, NEW p \in DOMAIN procs, ChildExits(p)
    PROVE  IInv'
  <1> DEFINE c == [procs[p] EXCEPT !.alive = FALSE]
  <1>1. procs[p] \in Child
    BY Known
  <1>2. c \in Child /\ c.attempt = procs[p].attempt /\ procs' = [procs EXCEPT ![p] = c]
    BY <1>1 DEF ChildExits, Child
  <1> HIDE DEF c
  <1>3. Keeps /\ Procs'
    BY <1>2, ChangedKeeps DEF ChildExits
  <1>4. QED
    BY <1>3, Frame DEF ChildExits, IInv, coordinatorVars

\* The threads that watch a child report for the attempt it is for.
LEMMA WatchKeeps ==
    ASSUME IInv, NEW p \in DOMAIN procs, ReadStdout(p) \/ AwaitExit(p)
    PROVE  IInv'
  <1>1. procs[p] \in Child /\ procs[p].attempt \in 1..Len(procs)
    BY Known
  <1>2. PICK a \in Numbers : a = procs[p].attempt /\ a \in 1..Len(procs)
    BY <1>1, Known
  <1>3. PICK k \in {"ReadyUrl", "Failed", "ChildExited"} :
           /\ Post(Report(k, a))
           /\ IF k = "ReadyUrl" THEN ready' = Insert(ready, a, p) ELSE ready' = ready
    BY <1>2 DEF ReadStdout, AwaitExit, ReadUrl, ReadGarbage, SeeExit, WaitFails
  <1>4. UNCHANGED <<snap, effects, outbox, children, tasks, mainVars>>
    BY DEF ReadStdout, AwaitExit, ReadUrl, ReadGarbage, SeeExit, WaitFails
  <1>5. PICK c \in Child : c.attempt = a /\ procs' = [procs EXCEPT ![p] = c]
    <2> DEFINE cr == [procs[p] EXCEPT !.reader = FALSE]
               cw == [procs[p] EXCEPT !.waiter = FALSE]
    <2>1. cr \in Child /\ cr.attempt = a /\ cw \in Child /\ cw.attempt = a
      BY <1>1, <1>2 DEF Child
    <2>2. procs' = [procs EXCEPT ![p] = cr] \/ procs' = [procs EXCEPT ![p] = cw]
      BY DEF ReadStdout, AwaitExit, ReadUrl, ReadGarbage, SeeExit, WaitFails
    <2> HIDE DEF cr, cw
    <2>3. QED
      BY <2>1, <2>2
  <1>6. DOMAIN ready \subseteq DOMAIN ready' /\ (k = "ReadyUrl" => a \in DOMAIN ready')
    BY <1>3 DEF Insert
  <1>7. Keeps /\ Procs' /\ Len(procs') = Len(procs)
    BY <1>2, <1>5, <1>6, ChangedKeeps
  <1>8. ReadyGood'
    <2>1. CASE k = "ReadyUrl"
      <3>1. procs'[p].attempt = a
        BY <1>2, <1>7 DEF Keeps
      <3>2. p \in DOMAIN procs'
        BY <1>7, ClaimsStay
      <3>3. \A b \in DOMAIN ready : ready[b] \in DOMAIN procs' /\ procs'[ready[b]].attempt = b
        BY <1>7, ClaimsStay DEF IInv, ReadyGood, Keeps
      <3>4. ready' = Insert(ready, a, p)
        BY <1>3, <2>1
      <3>5. QED
        BY <3>1, <3>2, <3>3, <3>4 DEF ReadyGood, Insert
    <2>2. CASE k # "ReadyUrl"
      BY <1>3, <1>7, <2>2, Frame
    <2>3. QED
      BY <2>1, <2>2
  <1>9. GoodEvent(Report(k, a))'
    <2>1. CASE k = "ReadyUrl"
      <3>1. /\ Report(k, a) \in Event(Numbers) /\ Report(k, a).kind = k /\ Report(k, a).attempt = a
        BY PlainReport DEF AttemptKind
      <3>2. QED
        BY <1>6, <2>1, <3>1 DEF GoodEvent, Numbers
    <2>2. CASE k # "ReadyUrl"
      BY <2>2, PlainReport DEF AttemptKind
    <2>3. QED
      BY <2>1, <2>2
  <1>10. QED
    BY <1>3, <1>4, <1>7, <1>8, <1>9, Frame DEF IInv

\* A thread reports and ends.
LEMMA FinishKeeps ==
    ASSUME IInv, NEW t \in DOMAIN tasks, NEW e, GoodEvent(e), Finish(t, e)
    PROVE  IInv'
  <1>1. /\ Post(e) /\ tasks' = BagRemove(tasks, t)
        /\ UNCHANGED <<snap, effects, outbox, procs, children, ready, mainVars>>
    BY DEF Finish
  <1>2. Keeps /\ Procs'
    BY <1>1, UnchangedKeeps
  <1>3. GoodEvent(e)'
    BY <1>2, ClaimsStay
  <1>4. Threads'
    <2>1. DOMAIN tasks' \subseteq DOMAIN tasks
      BY <1>1, RemovedFromBag
    <2>2. GoodTask(t)
      BY DEF IInv, Threads
    <2>3. QED
      BY <1>2, <2>1, <2>2, ThreadsStay
  <1>5. QED
    BY <1>1, <1>2, <1>3, <1>4, Frame DEF IInv

LEMMA ReportsKeep ==
    ASSUME IInv, NEW t \in DOMAIN tasks,
           BootstrapSucceeds(t) \/ BootstrapFails(t) \/ BackoffElapses(t) \/ StopReports(t)
    PROVE  IInv'
  <1>1. t \in Task /\ t.attempt \in 1..Len(procs) /\ t.attempt \in Numbers /\ GoodTask(t)
    BY Known DEF IInv, Threads
  <1>2. CASE BootstrapSucceeds(t)
    <2> DEFINE e == BootstrapSucceeded(t.attempt, t.child)
    <2>1. t.kind = "Bootstrap" /\ Finish(t, e)
      BY <1>2 DEF BootstrapSucceeds
    <2>2. t.child \in DOMAIN procs /\ procs[t.child].attempt = t.attempt
      BY <1>1, <2>1 DEF GoodTask
    <2>3. t.child \in Authority
      BY <2>2, Known, AuthorityAssumption, BoundsAssumption
    <2>4. /\ e \in [kind : {"BootstrapSucceeded"}, attempt : Numbers, authority : Authority]
          /\ e.kind = "BootstrapSucceeded" /\ e.authority = t.child /\ e.attempt = t.attempt
      BY <1>1, <2>3 DEF BootstrapSucceeded
    <2> HIDE DEF e
    <2>5. GoodEvent(e)
      BY <2>2, <2>4 DEF GoodEvent, Event
    <2>6. QED
      BY <2>1, <2>5, FinishKeeps
  <1>3. CASE BootstrapFails(t) \/ BackoffElapses(t) \/ StopReports(t)
    <2>1. PICK k \in {"Failed", "BackoffElapsed", "Stopped"} : Finish(t, Report(k, t.attempt))
      BY <1>3 DEF BootstrapFails, BackoffElapses, StopReports
    <2>2. GoodEvent(Report(k, t.attempt))
      BY <1>1, PlainReport DEF AttemptKind
    <2>3. QED
      BY <2>1, <2>2, FinishKeeps
  <1>4. QED
    BY <1>2, <1>3

LEMMA MovesKeep ==
    ASSUME IInv, NEW t \in DOMAIN tasks, ProbeAccepted(t) \/ StopFindsChild(t) \/ StopReaps(t)
    PROVE  IInv'
  <1>1. t \in Task /\ t.attempt \in 1..Len(procs) /\ GoodTask(t)
    BY Known DEF IInv, Threads
  <1>2. ASSUME NEW u, GoodTask(u), tasks' = BagAdd(BagRemove(tasks, t), u), Keeps
        PROVE  Threads'
    <2>1. DOMAIN tasks' \subseteq DOMAIN tasks \cup {u}
      <3>1. DOMAIN tasks' = DOMAIN BagRemove(tasks, t) \cup {u}
        BY <1>2, AddedToBag
      <3>2. DOMAIN BagRemove(tasks, t) \subseteq DOMAIN tasks
        BY RemovedFromBag
      <3>3. QED
        BY <3>1, <3>2
    <2>2. QED
      BY <1>2, <2>1, ThreadsStay
  <1>3. CASE ProbeAccepted(t)
    <2> DEFINE u == [t EXCEPT !.phase = "Accepted"]
    <2>1. /\ tasks' = BagAdd(BagRemove(tasks, t), u)
          /\ UNCHANGED <<coordinatorVars, procs, children, ready, mainVars>>
      BY <1>3 DEF ProbeAccepted
    <2>2. GoodTask(u)
      <3>1. u \in Task /\ u.kind = t.kind /\ u.attempt = t.attempt /\ u.child = t.child
        BY <1>1 DEF Task
      <3>2. QED
        BY <1>1, <3>1 DEF GoodTask
    <2> HIDE DEF u
    <2>3. Keeps /\ Procs'
      BY <2>1, UnchangedKeeps
    <2>4. QED
      BY <1>2, <2>1, <2>2, <2>3, Frame DEF IInv, coordinatorVars
  <1>4. CASE StopFindsChild(t)
    <2> DEFINE u == Stop(t.attempt, children[t.attempt], "Terminating")
    <2>1. /\ tasks' = BagAdd(BagRemove(tasks, t), u) /\ t.attempt \in DOMAIN children
          /\ children' = [a \in DOMAIN children \ {t.attempt} |-> children[a]]
          /\ UNCHANGED <<coordinatorVars, procs, ready, mainVars>>
      BY <1>4 DEF StopFindsChild
    <2>2. GoodTask(u)
      <3>1. children[t.attempt] \in Nat
        BY <2>1, Known DEF IInv, ChildrenGood
      <3>2. u \in Task /\ u.kind = "Stop" /\ u.attempt = t.attempt
        BY <1>1, <3>1 DEF Task, Stop
      <3>3. QED
        BY <1>1, <3>2, Known DEF GoodTask
    <2> HIDE DEF u
    <2>3. Keeps /\ Procs'
      BY <2>1, UnchangedKeeps
    <2>4. ChildrenGood'
      BY <2>1, <2>3, ClaimsStay DEF IInv, ChildrenGood
    <2>5. Threads'
      <3>1. PICK v : v = u
        OBVIOUS
      <3>2. QED
        BY <1>2, <2>1, <2>2, <2>3, <3>1
    <2>6. QED
      BY <2>1, <2>3, <2>4, <2>5, Frame DEF IInv, coordinatorVars
  <1>5. CASE StopReaps(t)
    <2> DEFINE u == [t EXCEPT !.phase = "Reaped"]
               p == t.child
               c == [procs[p] EXCEPT !.alive = FALSE]
    <2>1. /\ tasks' = BagAdd(BagRemove(tasks, t), u)
          /\ procs' = [procs EXCEPT ![p].alive = FALSE]
          /\ UNCHANGED <<coordinatorVars, children, ready, mainVars>>
      BY <1>5 DEF StopReaps
    <2>2. GoodTask(u)
      <3>1. u \in Task /\ u.kind = t.kind /\ u.attempt = t.attempt /\ u.child = t.child
        BY <1>1 DEF Task
      <3>2. QED
        BY <1>1, <3>1 DEF GoodTask
    <2> HIDE DEF u
    <2>3. Keeps /\ Procs'
      <3>1. CASE p \in DOMAIN procs
        <4>1. c \in Child /\ c.attempt = procs[p].attempt
          <5>1. procs[p] \in Child
            BY <3>1, Known
          <5>2. QED
            BY <5>1 DEF Child
        <4>2. procs' = [procs EXCEPT ![p] = c]
          BY <2>1
        <4> HIDE DEF c
        <4>3. QED
          BY <2>1, <3>1, <4>1, <4>2, ChangedKeeps
      <3>2. CASE p \notin DOMAIN procs
        <4>1. procs' = procs
          <5>1. procs \in [1..Len(procs) -> Child]
            BY LenProperties DEF IInv, Procs
          <5>2. QED
            BY <2>1, <3>2, <5>1
        <4>2. QED
          BY <2>1, <4>1, UnchangedKeeps
      <3>3. QED
        BY <3>1, <3>2
    <2>4. QED
      BY <1>2, <2>1, <2>2, <2>3, Frame DEF IInv, coordinatorVars
  <1>6. QED
    BY <1>3, <1>4, <1>5

LEMMA MainKeeps ==
    ASSUME IInv, Signal \/ ConsoleShutdown \/ ConsoleFence
    PROVE  IInv'
  <1>1. PICK k \in {"Shutdown", "Fence"} : Post(Command(k))
    BY DEF Signal, ConsoleShutdown, ConsoleFence
  <1>2. UNCHANGED <<snap, effects, outbox, supervisorVars, main>>
    BY DEF Signal, ConsoleShutdown, ConsoleFence
  <1>3. Keeps /\ Procs'
    BY <1>2, UnchangedKeeps DEF supervisorVars
  <1>4. GoodEvent(Command(k))'
    <2>1. Command(k) \in Event(Numbers) /\ Command(k).kind = k
      BY DEF Command, Event, CommandKind
    <2>2. QED
      BY <2>1 DEF GoodEvent, Numbers
  <1>5. Rest'
    <2>1. CASE Signal \/ ConsoleShutdown
      <3>1. /\ shutdowns < MaxShutdowns /\ shutdowns' = shutdowns + 1
            /\ UNCHANGED <<main, fences>> /\ console' \in {console, FALSE}
        BY <2>1 DEF Signal, ConsoleShutdown
      <3>2. shutdowns' \in 0..MaxShutdowns
        BY <3>1, BoundsAssumption DEF IInv, Rest
      <3>3. QED
        BY <3>1, <3>2 DEF IInv, Rest
    <2>2. CASE ConsoleFence
      BY <2>2, BoundsAssumption DEF IInv, Rest, ConsoleFence
    <2>3. QED
      BY <2>1, <2>2
  <1>6. QED
    BY <1>1, <1>2, <1>3, <1>4, <1>5, Frame DEF IInv, supervisorVars

LEMMA MainExitsKeeps ==
    ASSUME IInv, MainExits
    PROVE  IInv'
  <1>1. /\ queue' = <<>> /\ effects' = <<>> /\ outbox' = <<>>
        /\ children' = <<>> /\ ready' = <<>> /\ DOMAIN tasks' = {}
        /\ main' = "Exited" /\ UNCHANGED <<snap, procs, shutdowns, fences, console>>
    BY DEF MainExits, EmptyBag, SetToBag
  <1>2. QueueGood' /\ EffectsGood' /\ OutboxGood'
    BY <1>1, BoundsAssumption DEF QueueGood, EffectsGood, OutboxGood
  <1>3. ChildrenGood' /\ ReadyGood' /\ Threads' /\ Procs'
    BY <1>1 DEF IInv, ChildrenGood, ReadyGood, Threads, Procs
  <1>4. Shown' /\ Rest'
    BY <1>1 DEF IInv, Shown, Rest, local
  <1>5. QED
    BY <1>2, <1>3, <1>4 DEF IInv

LEMMA StepInv == IInv /\ [Next]_vars => IInv'
  <1> SUFFICES ASSUME IInv, [Next]_vars PROVE IInv'
    OBVIOUS
  <1>1. CASE UNCHANGED vars
    <2>1. Keeps /\ Procs'
      BY <1>1, UnchangedKeeps DEF vars, supervisorVars
    <2>2. QED
      BY <1>1, <2>1, Frame DEF IInv, vars, coordinatorVars, supervisorVars
  <1>2. CASE Reduce
    BY <1>2, ReduceKeeps
  <1>3. CASE Execute
    BY <1>3, ExecSpawnKeeps, ExecSpawnFailsKeeps, SendKeeps, ExecTaskKeeps, ExecNothingKeeps
    DEF Execute
  <1>4. CASE \E p \in DOMAIN procs : ChildExits(p) \/ ReadStdout(p) \/ AwaitExit(p)
    BY <1>4, ChildExitsKeeps, WatchKeeps
  <1>5. CASE \E t \in BagToSet(tasks) : RunTask(t)
    BY <1>5, Known, ReportsKeep, MovesKeep DEF RunTask
  <1>6. CASE Signal \/ ConsoleShutdown \/ ConsoleFence \/ MainExits
    BY <1>6, MainKeeps, MainExitsKeeps
  <1>7. QED
    BY <1>1, <1>2, <1>3, <1>4, <1>5, <1>6 DEF Next

LEMMA InvHolds == Spec => []IInv
  BY InitInv, StepInv, PTL DEF Spec

----------------------------------------------------------------------------
(* The stops.                                                               *)

\* The snapshot has one writer.
LEMMA OnlyReduceWrites ==
    ASSUME [Next]_vars
    PROVE  Reduce \/ snap' = snap
  <1>1. CASE UNCHANGED vars \/ Execute
    BY <1>1
    DEF vars, coordinatorVars, Execute, ExecSpawn, ExecSpawnFails, SendSpawned, SendSpawnFailed,
        ExecBootstrap, ExecScheduleBackoff, ExecStop, ExecNothing
  <1>2. CASE \E p \in DOMAIN procs : ChildExits(p) \/ ReadStdout(p) \/ AwaitExit(p)
    BY <1>2
    DEF ChildExits, coordinatorVars, ReadStdout, AwaitExit, ReadUrl, ReadGarbage, SeeExit, WaitFails
  <1>3. CASE \E t \in BagToSet(tasks) : RunTask(t)
    BY <1>3
    DEF RunTask, ProbeAccepted, BootstrapSucceeds, BootstrapFails, BackoffElapses, StopFindsChild,
        StopReaps, StopReports, Finish, coordinatorVars
  <1>4. CASE Signal \/ ConsoleShutdown \/ ConsoleFence \/ MainExits
    BY <1>4 DEF Signal, ConsoleShutdown, ConsoleFence, MainExits
  <1>5. QED
    BY <1>1, <1>2, <1>3, <1>4 DEF Next

\* A node that has left the active state has left it for good: the operator
\* cannot reach the running daemon.
LEMMA StaysInactive ==
    ASSUME IInv, [Next]_vars
    PROVE  Active(snap') => Active(snap)
  <1>1. CASE Reduce
    <2>1. GoodEvent(Head(queue)) /\ snap \in Snapshot /\ Numbers \in SUBSET AttemptId
      BY <1>1, Taken, Known DEF Reduce, IInv, QueueGood, Shown
    <2>2. Head(queue) \in Event(Numbers) /\ Head(queue).kind # "DesiredRunning"
      BY <2>1 DEF GoodEvent
    <2>3. Active(reduce(snap, Head(queue)).snapshot) => Active(snap)
      BY <2>1, <2>2, ReduceMoves
    <2>4. QED
      BY <1>1, <2>3 DEF Reduce
  <1>2. QED
    BY <1>1, OnlyReduceWrites

\* A step that gives no attempt a child, and neither begins nor ends a wait.
LEMMA StopsFrame ==
    ASSUME StopThreads, Active(snap') => Active(snap),
           DOMAIN children' \subseteq DOMAIN children, DOMAIN procs \subseteq DOMAIN procs',
           \A y \in DOMAIN tasks' :
              \/ y \in DOMAIN tasks /\ (Stopping(y, "Terminating") => tasks'[y] = tasks[y])
              \/ y.kind # "Stop"
              \/ Stopping(y, "Locking") /\ ~Active(snap)
    PROVE  StopThreads' /\ \A a : Acked(a) => Acked(a)'
  BY DEF StopThreads, Acked, Stopping

LEMMA AcksSame ==
    ASSUME Acks, \A a : Acked(a) => Acked(a)', queue' = queue
    PROVE  Acks'
  BY DEF Acks

LEMMA AcksTail ==
    ASSUME IInv, Acks, \A a : Acked(a) => Acked(a)', queue # <<>>, queue' = Tail(queue)
    PROVE  Acks'
  <1>1. \A i \in DOMAIN queue' : i + 1 \in DOMAIN queue /\ queue'[i] = queue[i + 1]
    BY Taken DEF IInv, QueueGood
  <1>2. QED
    BY <1>1 DEF Acks

LEMMA AcksPost ==
    ASSUME IInv, Acks, \A a : Acked(a) => Acked(a)', NEW e \in Event(Numbers), Post(e),
           e.kind = "Stopped" => Acked(e.attempt)'
    PROVE  Acks'
  <1>1. \A i \in DOMAIN queue' : (i \in DOMAIN queue /\ queue'[i] = queue[i]) \/ queue'[i] = e
    BY Appended DEF Post, IInv, QueueGood
  <1>2. QED
    BY <1>1 DEF Acks

LEMMA CoordinatorStops ==
    ASSUME IInv, Stops, Reduce \/ Execute, Active(snap') => Active(snap)
    PROVE  Stops'
  <1> USE DEF Stops
  <1>1. ASSUME UNCHANGED <<children, procs, tasks>> PROVE StopThreads' /\ \A a : Acked(a) => Acked(a)'
    BY <1>1, StopsFrame
  <1>2. CASE Reduce
    BY <1>1, <1>2, AcksTail DEF Reduce, supervisorVars
  <1>3. CASE ExecSpawnFails \/ ExecNothing
    BY <1>1, <1>3, AcksSame DEF ExecSpawnFails, ExecNothing, supervisorVars
  <1>4. CASE ExecSpawn
    <2>1. Active(snap)
      BY <1>4, NextEffect DEF ExecSpawn, GoodEffect
    <2>2. UNCHANGED <<snap, queue, tasks>>
      BY <1>4 DEF ExecSpawn
    <2>3. QED
      BY <2>1, <2>2 DEF StopThreads, Acks, Acked, Stopping
  <1>5. CASE SendSpawned \/ SendSpawnFailed
    <2>1. PICK e \in Event(Numbers) : e = Head(outbox) /\ e.kind \in {"Spawned", "Failed"}
      BY <1>5 DEF IInv, OutboxGood, SendSpawned, SendSpawnFailed
    <2>2. Post(e) /\ UNCHANGED <<children, tasks>>
      BY <1>5, <2>1 DEF SendSpawned, SendSpawnFailed, supervisorVars
    <2>3. DOMAIN procs' = DOMAIN procs
      BY <1>5 DEF SendSpawned, SendSpawnFailed, supervisorVars
    <2>4. StopThreads' /\ \A a : Acked(a) => Acked(a)'
      BY <2>2, <2>3, StopsFrame
    <2>5. QED
      BY <2>1, <2>2, <2>4, AcksPost
  <1>6. CASE ExecBootstrap \/ ExecScheduleBackoff \/ ExecStop
    <2>1. PICK t : /\ tasks' = BagAdd(tasks, t)
                   /\ t.kind # "Stop" \/ (Stopping(t, "Locking") /\ Executing("Stop"))
      BY <1>6 DEF ExecBootstrap, ExecScheduleBackoff, ExecStop, Bootstrap, Backoff, Stop, Stopping
    <2>2. UNCHANGED <<queue, children, procs>>
      BY <1>6 DEF ExecBootstrap, ExecScheduleBackoff, ExecStop
    <2>3. Executing("Stop") => ~Active(snap)
      BY NextEffect DEF GoodEffect
    <2>4. \A y \in DOMAIN tasks' :
             \/ y \in DOMAIN tasks /\ (Stopping(y, "Terminating") => tasks'[y] = tasks[y])
             \/ y.kind # "Stop"
             \/ Stopping(y, "Locking") /\ ~Active(snap)
      <3> SUFFICES ASSUME NEW y \in DOMAIN tasks', y # t \/ Stopping(y, "Terminating")
                   PROVE  y \in DOMAIN tasks /\ tasks'[y] = tasks[y]
        BY <2>1, <2>3 DEF Stopping
      <3>1. y # t
        BY <2>1 DEF Stopping
      <3>2. /\ DOMAIN BagAdd(tasks, t) = DOMAIN tasks \cup {t}
            /\ y \in DOMAIN tasks => BagAdd(tasks, t)[y] = tasks[y]
        BY <3>1, AddedToBag
      <3>3. QED
        BY <2>1, <3>1, <3>2
    <2>5. QED
      BY <2>2, <2>4, StopsFrame, AcksSame
  <1>7. QED
    BY <1>2, <1>3, <1>4, <1>5, <1>6 DEF Execute

LEMMA ChildStops ==
    ASSUME IInv, Stops, NEW p \in DOMAIN procs, ChildExits(p) \/ ReadStdout(p) \/ AwaitExit(p)
    PROVE  Stops'
  <1> USE DEF Stops
  <1>1. /\ UNCHANGED <<snap, children, tasks>> /\ DOMAIN procs' = DOMAIN procs
    BY DEF ChildExits, ReadStdout, AwaitExit, ReadUrl, ReadGarbage, SeeExit, WaitFails, coordinatorVars
  <1>2. StopThreads' /\ \A a : Acked(a) => Acked(a)'
    BY <1>1, StopsFrame
  <1>3. CASE ChildExits(p)
    BY <1>2, <1>3, AcksSame DEF ChildExits, coordinatorVars
  <1>4. CASE ReadStdout(p) \/ AwaitExit(p)
    <2>1. PICK a \in Numbers : a = procs[p].attempt
      BY Known
    <2>2. PICK k \in {"ReadyUrl", "Failed", "ChildExited"} : Post(Report(k, a))
      BY <1>4, <2>1 DEF ReadStdout, AwaitExit, ReadUrl, ReadGarbage, SeeExit, WaitFails
    <2>3. Report(k, a) \in Event(Numbers) /\ Report(k, a).kind # "Stopped"
      BY PlainReport DEF AttemptKind
    <2>4. QED
      BY <1>2, <2>2, <2>3, AcksPost
  <1>5. QED
    BY <1>3, <1>4

LEMMA TaskStops ==
    ASSUME IInv, Stops, NEW t \in DOMAIN tasks, RunTask(t)
    PROVE  Stops'
  <1> USE DEF Stops, Stopping
  <1>1. t \in Task /\ t.attempt \in Numbers /\ GoodTask(t)
    BY Known DEF IInv, Threads
  <1>2. CASE ProbeAccepted(t)
    <2>1. PICK u : /\ tasks' = BagAdd(BagRemove(tasks, t), u) /\ t.kind = "Bootstrap" /\ u = [t EXCEPT !.phase = "Accepted"]
                   /\ UNCHANGED <<snap, queue, children, procs>>
      BY <1>2 DEF ProbeAccepted, coordinatorVars
    <2>2. u.kind # "Stop"
      BY <1>1, <2>1 DEF Task
    <2>3. \A y \in DOMAIN tasks' :
             (y \in DOMAIN tasks /\ (Stopping(y, "Terminating") => tasks'[y] = tasks[y])) \/ y.kind # "Stop"
      <3> SUFFICES ASSUME NEW y \in DOMAIN tasks', y.kind = "Stop"
                   PROVE  y \in DOMAIN tasks /\ tasks'[y] = tasks[y]
        OBVIOUS
      <3>1. y # u /\ y # t
        <4>1. t.kind # "Stop"
          BY <2>1
        <4>2. QED
          BY <2>2, <4>1
      <3> DEFINE left == BagRemove(tasks, t)
      <3>0. /\ DOMAIN BagAdd(left, u) = DOMAIN left \cup {u}
            /\ y \in DOMAIN left => BagAdd(left, u)[y] = left[y]
        BY <3>1, AddedToBag
      <3>2. y \in DOMAIN left /\ tasks'[y] = left[y]
        BY <2>1, <3>0, <3>1
      <3>3. y \in DOMAIN tasks
        BY <3>2, RemovedFromBag
      <3>4. QED
        BY <3>1, <3>2, <3>3, RemovedFromBag
    <2>4. QED
      BY <2>1, <2>3, StopsFrame, AcksSame
  <1>3. ASSUME NEW e \in Event(Numbers), Finish(t, e), ~Stopping(t, "Terminating"),
               e.kind = "Stopped" => Acked(e.attempt)
        PROVE  Stops'
    <2>1. Post(e) /\ tasks' = BagRemove(tasks, t) /\ UNCHANGED <<snap, children, procs>>
      BY <1>3 DEF Finish
    <2>2. \A y \in DOMAIN tasks' : y \in DOMAIN tasks /\ (Stopping(y, "Terminating") => tasks'[y] = tasks[y])
      BY <1>3, <2>1, RemovedFromBag
    <2>3. StopThreads' /\ \A a : Acked(a) => Acked(a)'
      BY <2>1, <2>2, StopsFrame
    <2>4. QED
      BY <1>3, <2>1, <2>3, AcksPost
  <1>4. CASE BootstrapSucceeds(t)
    <2> DEFINE e == BootstrapSucceeded(t.attempt, t.child)
    <2>1. t.kind = "Bootstrap" /\ Finish(t, e)
      BY <1>4 DEF BootstrapSucceeds
    <2>2. t.child \in Authority
      BY <1>1, <2>1, Known, AuthorityAssumption, BoundsAssumption DEF GoodTask
    <2>3. e \in Event(Numbers) /\ e.kind # "Stopped"
      BY <1>1, <2>2 DEF BootstrapSucceeded, Event
    <2> HIDE DEF e
    <2>4. QED
      BY <1>3, <2>1, <2>3
  <1>5. CASE BootstrapFails(t) \/ BackoffElapses(t)
    <2>1. PICK k \in {"Failed", "BackoffElapsed"} : Finish(t, Report(k, t.attempt))
      BY <1>5 DEF BootstrapFails, BackoffElapses
    <2>2. Report(k, t.attempt) \in Event(Numbers) /\ Report(k, t.attempt).kind # "Stopped"
      BY <1>1, PlainReport DEF AttemptKind
    <2>3. t.kind # "Stop"
      BY <1>5 DEF BootstrapFails, BackoffElapses
    <2>4. QED
      BY <1>3, <2>1, <2>2, <2>3
  <1>6. CASE StopReports(t)
    <2>1. /\ t.kind = "Stop" /\ Finish(t, Report("Stopped", t.attempt)) /\ t.phase # "Terminating"
          /\ \/ t.phase = "Reaped"
             \/ t.phase = "Locking" /\ ~ChildrenLocked /\ t.attempt \notin DOMAIN children
      BY <1>6 DEF StopReports
    <2>2. Acked(t.attempt)
      <3>1. CASE t.phase = "Reaped"
        BY <2>1, <3>1 DEF Acked, StopThreads
      <3>2. CASE ~ChildrenLocked /\ t.attempt \notin DOMAIN children
        BY <2>1, <3>2, Known DEF Acked, StopThreads, ChildrenLocked
      <3>3. QED
        BY <2>1, <3>1, <3>2
    <2>3. Report("Stopped", t.attempt) \in Event(Numbers) /\ Report("Stopped", t.attempt).attempt = t.attempt
      BY <1>1, PlainReport DEF AttemptKind
    <2>4. QED
      BY <1>3, <2>1, <2>2, <2>3
  <1>7. CASE StopFindsChild(t)
    <2>1. PICK u : /\ u = Stop(t.attempt, children[t.attempt], "Terminating")
                   /\ tasks' = BagAdd(BagRemove(tasks, t), u)
      BY <1>7 DEF StopFindsChild
    <2>2. /\ t.kind = "Stop" /\ t.attempt \in DOMAIN children
          /\ DOMAIN children' = DOMAIN children \ {t.attempt}
          /\ UNCHANGED <<snap, queue, procs>>
          /\ \A y \in DOMAIN tasks : ~Stopping(y, "Terminating")
      BY <1>7, Known DEF StopFindsChild, coordinatorVars, ChildrenLocked
    <2>3. Stopping(u, "Terminating") /\ u.attempt = t.attempt /\ u.child \in DOMAIN procs
      BY <2>1, <2>2 DEF Stop, IInv, ChildrenGood
    <2>4. DOMAIN BagRemove(tasks, t) \subseteq DOMAIN tasks /\ u \notin DOMAIN tasks
      BY <2>2, <2>3, RemovedFromBag
    <2>5. DOMAIN tasks' \subseteq DOMAIN tasks \cup {u} /\ tasks'[u] = 1
      BY <2>1, <2>4, AddedToBag
    <2>6. StopThreads'
      BY <2>2, <2>3, <2>5 DEF StopThreads
    <2>7. Acks'
      BY <2>2, <2>3, <2>5 DEF Acks, Acked
    <2>8. QED
      BY <2>6, <2>7
  <1>8. CASE StopReaps(t)
    <2>1. PICK u : /\ u = [t EXCEPT !.phase = "Reaped"]
                   /\ tasks' = BagAdd(BagRemove(tasks, t), u)
      BY <1>8 DEF StopReaps
    <2>2. /\ Stopping(t, "Terminating") /\ UNCHANGED <<snap, queue, children>>
          /\ DOMAIN procs' = DOMAIN procs
      BY <1>8 DEF StopReaps, coordinatorVars
    <2>3. Stopping(u, "Reaped") /\ u.attempt = t.attempt
      BY <1>1, <2>1, <2>2 DEF Task
    <2>4. t \notin DOMAIN BagRemove(tasks, t) /\ DOMAIN BagRemove(tasks, t) \subseteq DOMAIN tasks
      BY <2>2, RemovedFromBag DEF StopThreads
    <2>5. DOMAIN tasks' = DOMAIN BagRemove(tasks, t) \cup {u}
      BY <2>1, AddedToBag
    <2>6. \A y \in DOMAIN tasks' : (y \in DOMAIN tasks \/ y = u) /\ ~Stopping(y, "Terminating")
      BY <2>2, <2>3, <2>4, <2>5 DEF StopThreads
    <2>7. StopThreads'
      BY <2>2, <2>3, <2>6 DEF StopThreads
    <2>8. Acks'
      BY <2>2, <2>6 DEF Acks, Acked
    <2>9. QED
      BY <2>7, <2>8
  <1>9. QED
    BY <1>2, <1>4, <1>5, <1>6, <1>7, <1>8 DEF RunTask

LEMMA StopsStep ==
    ASSUME IInv, Stops, [Next]_vars
    PROVE  Stops'
  <1>1. Active(snap') => Active(snap)
    BY StaysInactive
  <1>2. CASE UNCHANGED vars
    BY <1>2 DEF vars, coordinatorVars, supervisorVars, Stops, StopThreads, Acks, Acked
  <1>3. CASE Signal \/ ConsoleShutdown \/ ConsoleFence
    <2>1. PICK k \in {"Shutdown", "Fence"} : Post(Command(k))
      BY <1>3 DEF Signal, ConsoleShutdown, ConsoleFence
    <2>2. Command(k) \in Event(Numbers) /\ Command(k).kind # "Stopped"
      BY DEF Command, Event, CommandKind
    <2>3. UNCHANGED <<snap, children, procs, tasks>>
      BY <1>3 DEF Signal, ConsoleShutdown, ConsoleFence, supervisorVars
    <2>4. StopThreads' /\ \A a : Acked(a) => Acked(a)'
      BY <2>3, StopsFrame DEF Stops
    <2>5. QED
      BY <2>1, <2>2, <2>4, AcksPost DEF Stops
  <1>4. CASE MainExits
    BY <1>4 DEF MainExits, EmptyBag, SetToBag, Stops, StopThreads, Acks
  <1>5. QED
    BY <1>1, <1>2, <1>3, <1>4, CoordinatorStops, ChildStops, TaskStops, Known DEF Next

LEMMA StopsInit == Init => Stops
  BY DEF Init, Stops, StopThreads, Acks, InitialSnapshot, Command, EmptyBag, SetToBag

LEMMA StopsHold == Spec => []Stops
  BY InvHolds, StopsInit, StopsStep, PTL DEF Spec

----------------------------------------------------------------------------
(* The theorems.                                                            *)

\* Every variable of the daemon keeps its type, and the queue, the number of
\* children and the bounded inputs stay within their bounds
\* (coordinator.rs, Coordinator; supervisor.rs, Supervisor; main.rs, run).
THEOREM TypeCorrect == Spec => []TypeOK
  <1>1. IInv => TypeOK
    <2> SUFFICES ASSUME IInv PROVE TypeOK
      OBVIOUS
    <2>1. Event(Numbers) \subseteq Event(AttemptId)
      BY Known DEF Event
    <2>2. queue \in Seq(Event(AttemptId)) /\ Len(queue) <= QueueCap
      <3>1. queue \in Seq(Event(Numbers)) /\ Len(queue) <= QueueCap
        BY DEF IInv, QueueGood
      <3>2. Seq(Event(Numbers)) \subseteq Seq(Event(AttemptId))
        BY <2>1, Wider
      <3>3. QED
        BY <3>1, <3>2
    <2>3. outbox \in Seq(Event(AttemptId)) /\ Len(outbox) <= 1
      <3>1. CASE outbox = <<>>
        BY <3>1
      <3>2. CASE outbox # <<>>
        <4>1. PICK e \in Event(AttemptId) : outbox = <<e>>
          BY <2>1, <3>2 DEF IInv, OutboxGood
        <4>2. QED
          BY <4>1
      <3>3. QED
        BY <3>1, <3>2
    <2>4. BagToSet(tasks) \subseteq Task
      BY DEF IInv, Threads, GoodTask, BagToSet
    <2>5. QED
      BY <2>2, <2>3, <2>4 DEF IInv, EffectsGood, Procs, Shown, Rest, TypeOK
  <1>2. QED
    BY <1>1, InvHolds, PTL

\* However late its events are reduced, a bootstrap finds the URL of a child of
\* its own attempt, and a ready node is ready on behalf of the current attempt
\* (supervisor.rs, Supervisor::execute; coordinator.rs, reduce).
THEOREM RightChildSafe == Spec => []RightChild
  <1>1. IInv => RightChild
    <2> SUFFICES ASSUME IInv PROVE RightChild
      OBVIOUS
    <2>1. ReadyIsCurrent
      BY DEF IInv, Shown, ReadyIsCurrent
    <2>2. \A i \in DOMAIN effects : effects[i].kind = "Bootstrap" => effects[i].arg \in DOMAIN ready
      BY DEF IInv, EffectsGood, GoodEffect
    <2>3. \A t \in BagToSet(tasks) : t.kind = "Bootstrap" => procs[t.child].attempt = t.attempt
      BY DEF IInv, Threads, GoodTask, BagToSet
    <2>4. QED
      BY <2>1, <2>2, <2>3 DEF RightChild, BootstrapFindsUrl
  <1>2. QED
    BY <1>1, InvHolds, PTL

\* Two stops of one attempt never acknowledge for each other: while Stopped is
\* queued for an attempt, no thread is still waiting for its child
\* (supervisor.rs, Supervisor::stop).
THEOREM AcksSafe == Spec => []AckMeansReaped
  <1>1. Stops => AckMeansReaped
    BY DEF Stops, Acks, Acked, Stopping, AckMeansReaped, BagToSet
  <1>2. QED
    BY <1>1, StopsHold, PTL

LEMMA OtherStepsKeepProcs ==
    ASSUME [Next]_vars, ~ExecSpawn
    PROVE  DOMAIN procs' = DOMAIN procs
  <1>1. CASE UNCHANGED vars \/ Reduce \/ Execute
    BY <1>1
    DEF vars, supervisorVars, Reduce, Execute, ExecSpawnFails, SendSpawned, SendSpawnFailed,
        ExecBootstrap, ExecScheduleBackoff, ExecStop, ExecNothing
  <1>2. CASE \E p \in DOMAIN procs : ChildExits(p) \/ ReadStdout(p) \/ AwaitExit(p)
    BY <1>2 DEF ChildExits, ReadStdout, AwaitExit, ReadUrl, ReadGarbage, SeeExit, WaitFails
  <1>3. CASE \E t \in BagToSet(tasks) : RunTask(t)
    BY <1>3
    DEF RunTask, ProbeAccepted, BootstrapSucceeds, BootstrapFails, BackoffElapses, StopFindsChild,
        StopReaps, StopReports, Finish
  <1>4. CASE Signal \/ ConsoleShutdown \/ ConsoleFence \/ MainExits
    BY <1>4 DEF Signal, ConsoleShutdown, ConsoleFence, MainExits, supervisorVars
  <1>5. QED
    BY <1>1, <1>2, <1>3, <1>4 DEF Next

\* No child is started after a shutdown, a fence or an operator stop was
\* reduced, although the spawn is an effect carried out after its reduction
\* (coordinator.rs, run_coordinator; supervisor.rs, spawn_attempt).
THEOREM SpawnsSafe == Spec => SpawnsOnlyWhenActive
  <1>1. IInv /\ [Next]_vars => [Len(procs') > Len(procs) => Active(snap)]_vars
    <2> SUFFICES ASSUME IInv, [Next]_vars, Len(procs') > Len(procs)
                 PROVE  Active(snap)
      OBVIOUS
    <2>1. CASE ExecSpawn
      BY <2>1, NextEffect DEF ExecSpawn, GoodEffect
    <2>2. CASE ~ExecSpawn
      <3>1. procs \in Seq(Child) /\ procs' \in Seq(Child)
        BY StepInv DEF IInv, Procs
      <3>2. DOMAIN procs' = 1..Len(procs') /\ DOMAIN procs = 1..Len(procs)
            /\ Len(procs') \in Nat /\ Len(procs) \in Nat
        BY <3>1, LenProperties
      <3>3. Len(procs') \in DOMAIN procs' /\ Len(procs') \notin DOMAIN procs
        BY <3>2
      <3>4. DOMAIN procs' = DOMAIN procs
        BY <2>2, OtherStepsKeepProcs
      <3>5. QED
        BY <3>3, <3>4
    <2>3. QED
      BY <2>1, <2>2
  <1>2. QED
    BY <1>1, InvHolds, PTL DEF Spec, SpawnsOnlyWhenActive

\* The instance of the reducer is the reducer the coordinator calls.
LEMMA SameInitial == \A d : Reducer!InitialSnapshot(d) = InitialSnapshot(d)
  BY DEF InitialSnapshot, NoAttempt, Reducer!InitialSnapshot, Reducer!NoAttempt

LEMMA SameEvent == \A A : Reducer!Event(A) = Event(A)
  BY DEF Event, Reducer!Event, CommandKind, Reducer!CommandKind, AttemptKind, Reducer!AttemptKind

LEMMA SameReduce ==
    ASSUME NEW s, NEW e
    PROVE  Reducer!reduce(s, e) = reduce(s, e)
  <1>1. Reducer!Counts(s, e) <=> Counts(s, e)
    BY DEF Counts, Active, Fenced, current,
           Reducer!Counts, Reducer!Active, Reducer!Fenced, Reducer!current
  <1>2. Reducer!OnOrder(s, e) = OnOrder(s, e)
    BY DEF OnOrder, OnShutdown, OnFence, OnDesiredStopped, OnDesiredRunning, SpawnNext, Reduction,
           Winding, StopCurrent, DropContext, Do, next, Fenced, NoAttempt,
           Reducer!OnOrder, Reducer!OnShutdown, Reducer!OnFence, Reducer!OnDesiredStopped,
           Reducer!OnDesiredRunning, Reducer!SpawnNext, Reducer!Reduction, Reducer!Winding,
           Reducer!StopCurrent, Reducer!DropContext, Reducer!Do, Reducer!next, Reducer!Fenced,
           Reducer!NoAttempt
  <1>3. Reducer!OnReport(s, e) = OnReport(s, e)
    BY DEF OnReport, OnSpawned, OnReadyUrl, OnBootstrapSucceeded, SpawnNext, OnGone, OnFailed,
           Reduction, DropContext, Do, next, Fenced, Active, NoAttempt,
           Reducer!OnReport, Reducer!OnSpawned, Reducer!OnReadyUrl, Reducer!OnBootstrapSucceeded,
           Reducer!SpawnNext, Reducer!OnGone, Reducer!OnFailed, Reducer!Reduction,
           Reducer!DropContext, Reducer!Do, Reducer!next, Reducer!Fenced, Reducer!Active,
           Reducer!NoAttempt
  <1>4. QED
    BY <1>1, <1>2, <1>3 DEF reduce, Reduction, CommandKind,
       Reducer!reduce, Reducer!Reduction, Reducer!CommandKind

\* Whatever the threads of the daemon send and in whatever order, the snapshot
\* starts and moves only as the reducer allows: what is proved of the reducer
\* holds of the running daemon (coordinator.rs, run_coordinator).
THEOREM ReducerImplemented == Spec => ImplementsReducer
  <1>1. Init => Reducer!ReducerInit
    BY SameInitial DEF Init, Reducer!ReducerInit, DesiredState, Reducer!DesiredState
  <1>2. IInv /\ [Next]_vars => [Reducer!ReducerNext]_snap
    <2> SUFFICES ASSUME IInv, Reduce PROVE Reducer!ReducerNext
      BY OnlyReduceWrites
    <2>1. Head(queue) \in Event(1..(MaxSpawns + 1))
      BY Taken DEF Reduce, IInv, QueueGood, GoodEvent, Numbers
    <2>2. Reducer!Receive(Head(queue))
      BY SameReduce DEF Reduce, Reducer!Receive
    <2>3. QED
      BY <2>1, <2>2, SameEvent DEF Reducer!ReducerNext
  <1>3. QED
    BY <1>1, <1>2, InvHolds, PTL DEF Spec, ImplementsReducer, Reducer!ReducerSpec
=============================================================================
