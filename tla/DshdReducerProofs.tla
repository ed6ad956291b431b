------------------------- MODULE DshdReducerProofs -------------------------
(***************************************************************************)
(* The reducer's safety properties, for every set of attempts, every set of *)
(* authorities and every sequence of events.                                *)
(***************************************************************************)
EXTENDS DshdReducer, TLAPS

----------------------------------------------------------------------------
(* What reduce returns, for every snapshot, event and set of attempts.      *)

\* Which arm of reduce an event can take, and what its guard then says.  The
\* proofs below go by these cases and never open reduce again.
LEMMA ReduceCases ==
    ASSUME NEW s, NEW A, NEW e \in Event(A)
    PROVE  \/ reduce(s, e) = Reduction(s, <<>>)
           \/ e.kind = "Shutdown" /\ reduce(s, e) = OnShutdown(s)
           \/ e.kind = "Fence" /\ reduce(s, e) = OnFence(s)
           \/ e.kind = "DesiredStopped" /\ reduce(s, e) = OnDesiredStopped(s)
           \/ e.kind = "DesiredRunning" /\ reduce(s, e) = OnDesiredRunning(s)
           \/ Active(s) /\ reduce(s, e) = SpawnNext(s)
           \/ /\ e.kind = "Spawned" /\ e.attempt \in A /\ Active(s)
              /\ reduce(s, e) = OnSpawned(s, e.attempt)
           \/ /\ e.kind = "ReadyUrl" /\ current(s, e.attempt) /\ Active(s)
              /\ reduce(s, e) = OnReadyUrl(s, e.attempt)
           \/ /\ e.kind = "BootstrapSucceeded" /\ e.authority \in Authority
              /\ current(s, e.attempt) /\ Active(s)
              /\ reduce(s, e) = OnBootstrapSucceeded(s, e.authority)
           \/ /\ e.kind \in {"Failed", "ChildExited"} /\ current(s, e.attempt) /\ Active(s)
              /\ reduce(s, e) = OnFailed(s, e.attempt)
           \/ /\ e.kind \in {"Stopped", "ChildExited"} /\ current(s, e.attempt)
              /\ reduce(s, e) = OnGone(s)
  <1>1. CASE e \in [kind : CommandKind]
    BY <1>1 DEF reduce, Counts, OnOrder, CommandKind
  <1>2. CASE e \in [kind : AttemptKind, attempt : A]
    BY <1>2 DEF reduce, Counts, OnReport, CommandKind, AttemptKind
  <1>3. CASE e \in [kind : {"BootstrapSucceeded"}, attempt : A, authority : Authority]
    BY <1>3 DEF reduce, Counts, OnReport, CommandKind
  <1>4. QED
    BY <1>1, <1>2, <1>3 DEF Event

(* What an arm assigns, as the proofs below need it: the whole record is    *)
(* rebuilt, so a field is untouched only if it is not named here.           *)

LEMMA ShutdownFields ==
    ASSUME NEW s \in Snapshot, NEW t, t = OnShutdown(s).snapshot
    PROVE  \/ t = s
           \/ /\ t.shutdown /\ t.context = NoContext
              /\ t.generation = s.generation /\ t.attempt = s.attempt
  <1>1. CASE s.shutdown
    BY <1>1 DEF OnShutdown, Reduction
  <1>2. CASE ~s.shutdown
    <2>1. t = [s EXCEPT !.shutdown = TRUE, !.context = NoContext, !.observed = Winding(s)]
      BY <1>2 DEF OnShutdown, Reduction
    <2>2. QED
      BY <2>1 DEF Snapshot
  <1>3. QED
    BY <1>1, <1>2

LEMMA FenceFields ==
    ASSUME NEW s \in Snapshot, NEW t, t = OnFence(s).snapshot
    PROVE  /\ t.registration = "Fenced" /\ t.context = NoContext
           /\ t.generation = s.generation /\ t.attempt = s.attempt
  <1>1. t = [s EXCEPT !.registration = "Fenced", !.context = NoContext, !.observed = "Fenced"]
    BY DEF OnFence, Reduction
  <1>2. QED
    BY <1>1 DEF Snapshot

LEMMA DesiredStoppedFields ==
    ASSUME NEW s \in Snapshot, NEW t, t = OnDesiredStopped(s).snapshot
    PROVE  /\ t.desired = "Stopped" /\ t.context = NoContext
           /\ t.generation = s.generation /\ t.attempt = s.attempt
           /\ t.shutdown = s.shutdown /\ t.registration = s.registration
  <1>1. t = [s EXCEPT !.desired = "Stopped", !.context = NoContext, !.observed = Winding(s)]
    BY DEF OnDesiredStopped, Reduction
  <1>2. QED
    BY <1>1 DEF Snapshot

LEMMA DesiredRunningFields ==
    ASSUME NEW s \in Snapshot, NEW t, t = OnDesiredRunning(s).snapshot
    PROVE  /\ t.context = s.context /\ t.generation = s.generation
           /\ t.attempt = s.attempt
           /\ t.shutdown = s.shutdown /\ t.registration = s.registration
           /\ t.desired = s.desired \/ (t.desired = "Running" /\ ~s.shutdown /\ ~Fenced(s))
  <1>1. CASE t = s
    BY <1>1
  <1>2. CASE t = [s EXCEPT !.desired = "Running"] /\ ~s.shutdown /\ ~Fenced(s)
    BY <1>2 DEF Snapshot
  <1>3. QED
    BY <1>1, <1>2 DEF OnDesiredRunning, Reduction

LEMMA AdvanceFields ==
    ASSUME NEW s \in Snapshot, NEW a, NEW t,
           t = OnSpawned(s, a).snapshot \/ t = OnReadyUrl(s, a).snapshot
    PROVE  /\ t.desired = s.desired /\ t.context = s.context
           /\ t.generation = s.generation
           /\ t.shutdown = s.shutdown /\ t.registration = s.registration
  <1>1. CASE t = [s EXCEPT !.attempt = a, !.observed = "Starting"]
    BY <1>1 DEF Snapshot
  <1>2. CASE t = [s EXCEPT !.observed = "Authenticating"]
    BY <1>2 DEF Snapshot
  <1>3. QED
    BY <1>1, <1>2 DEF OnSpawned, OnReadyUrl, Reduction

LEMMA LossFields ==
    ASSUME NEW s \in Snapshot, NEW a, NEW t,
           t = OnFailed(s, a).snapshot \/ t = OnGone(s).snapshot
    PROVE  /\ t.desired = s.desired /\ t.context = NoContext
           /\ t.generation = s.generation
           /\ t.shutdown = s.shutdown /\ t.registration = s.registration
           /\ t.attempt \in {s.attempt, NoAttempt}
  <1>1. CASE t = [s EXCEPT !.context = NoContext, !.observed = "Unhealthy"]
    BY <1>1 DEF Snapshot
  <1>2. CASE t = [s EXCEPT !.context = NoContext, !.attempt = NoAttempt,
                           !.observed = IF Fenced(s) THEN "Fenced" ELSE "Stopped"]
    BY <1>2 DEF Snapshot
  <1>3. QED
    BY <1>1, <1>2 DEF OnFailed, OnGone, Reduction

----------------------------------------------------------------------------
(* The invariant.                                                           *)

\* The part of the context promise that one state shows, which the induction
\* needs.  A context is on offer only while the node is meant to serve, and it is the
\* one published last: no event, however late, leaves an older generation or
\* a context of a stopped, shut down or fenced node in the snapshot.
OfferIsLatest ==
    snap.context # NoContext =>
        Active(snap) /\ snap.context.generation = snap.generation

IInv == TypeOK /\ OfferIsLatest /\ HonestLabel

----------------------------------------------------------------------------
(* What an arm does to the invariant, one lemma per arm that changes the    *)
(* snapshot.                                                                *)

LEMMA InitInv == ReducerInit => IInv
  <1> SUFFICES ASSUME NEW desired \in DesiredState, snap = InitialSnapshot(desired)
               PROVE  IInv
    BY DEF ReducerInit
  <1>1. TypeOK
    BY DEF TypeOK, InitialSnapshot, Snapshot, DesiredState, ObservedState, RegistrationState,
           Generation, NoAttempt
  <1>2. OfferIsLatest /\ HonestLabel
    BY DEF OfferIsLatest, HonestLabel, InitialSnapshot, NoAttempt, Fenced
  <1>3. QED
    BY <1>1, <1>2 DEF IInv

LEMMA ShutdownKeeps ==
    ASSUME IInv, snap' = OnShutdown(snap).snapshot
    PROVE  IInv'
  <1>1. CASE snap.shutdown
    BY <1>1 DEF OnShutdown, Reduction, IInv, TypeOK, OfferIsLatest, HonestLabel, Active, Fenced
  <1>2. CASE ~snap.shutdown
    <2>1. snap' = [snap EXCEPT !.shutdown = TRUE, !.context = NoContext,
                               !.observed = Winding(snap)]
      BY <1>2 DEF OnShutdown, Reduction
    <2>2. Winding(snap) \in ObservedState
      BY DEF IInv, TypeOK, Snapshot, Winding, ObservedState
    <2>3. TypeOK'
      BY <2>1, <2>2 DEF IInv, TypeOK, Snapshot
    <2>4. OfferIsLatest' /\ HonestLabel'
      BY <2>1 DEF IInv, TypeOK, Snapshot, OfferIsLatest, HonestLabel, Winding, Fenced, Active
    <2>5. QED
      BY <2>3, <2>4 DEF IInv
  <1>3. QED
    BY <1>1, <1>2

LEMMA FenceKeeps ==
    ASSUME IInv, snap' = OnFence(snap).snapshot
    PROVE  IInv'
  <1>1. snap' = [snap EXCEPT !.registration = "Fenced", !.context = NoContext,
                             !.observed = "Fenced"]
    BY DEF OnFence, Reduction
  <1>2. TypeOK'
    BY <1>1 DEF IInv, TypeOK, Snapshot, ObservedState, RegistrationState
  <1>3. OfferIsLatest' /\ HonestLabel'
    BY <1>1 DEF IInv, TypeOK, Snapshot, OfferIsLatest, HonestLabel, Fenced, Active
  <1>4. QED
    BY <1>2, <1>3 DEF IInv

LEMMA DesiredStoppedKeeps ==
    ASSUME IInv, snap' = OnDesiredStopped(snap).snapshot
    PROVE  IInv'
  <1>1. snap' = [snap EXCEPT !.desired = "Stopped", !.context = NoContext,
                             !.observed = Winding(snap)]
    BY DEF OnDesiredStopped, Reduction
  <1>2. Winding(snap) \in ObservedState
    BY DEF IInv, TypeOK, Snapshot, Winding, ObservedState
  <1>3. TypeOK'
    BY <1>1, <1>2 DEF IInv, TypeOK, Snapshot, DesiredState
  <1>4. OfferIsLatest' /\ HonestLabel'
    BY <1>1 DEF IInv, TypeOK, Snapshot, OfferIsLatest, HonestLabel, Winding, Fenced, Active
  <1>5. QED
    BY <1>3, <1>4 DEF IInv

LEMMA DesiredRunningKeeps ==
    ASSUME IInv, snap' = OnDesiredRunning(snap).snapshot
    PROVE  IInv'
  <1>1. CASE snap' = snap
    BY <1>1 DEF IInv, TypeOK, OfferIsLatest, HonestLabel, Active, Fenced
  <1>2. CASE snap' = [snap EXCEPT !.desired = "Running"]
    <2>1. TypeOK'
      BY <1>2 DEF IInv, TypeOK, Snapshot, DesiredState
    <2>2. OfferIsLatest' /\ HonestLabel'
      BY <1>2 DEF IInv, TypeOK, Snapshot, OfferIsLatest, HonestLabel, Fenced, Active
    <2>3. QED
      BY <2>1, <2>2 DEF IInv
  <1>3. QED
    BY <1>1, <1>2 DEF OnDesiredRunning, Reduction

LEMMA SpawnedKeeps ==
    ASSUME IInv, NEW a \in Attempts, Active(snap), snap' = OnSpawned(snap, a).snapshot
    PROVE  IInv'
  <1>1. snap' = [snap EXCEPT !.attempt = a, !.observed = "Starting"]
    BY DEF OnSpawned, Reduction
  <1>2. a # NoAttempt
    BY AttemptsAssumption DEF AttemptId, NoAttempt
  <1>3. TypeOK'
    BY <1>1, AttemptsAssumption DEF IInv, TypeOK, Snapshot, ObservedState
  <1>4. OfferIsLatest' /\ HonestLabel'
    BY <1>1, <1>2 DEF IInv, TypeOK, Snapshot, OfferIsLatest, HonestLabel, Fenced, Active
  <1>5. QED
    BY <1>3, <1>4 DEF IInv

LEMMA ReadyUrlKeeps ==
    ASSUME IInv, NEW a, Active(snap), snap' = OnReadyUrl(snap, a).snapshot
    PROVE  IInv'
  <1>1. snap' = [snap EXCEPT !.observed = "Authenticating"]
    BY DEF OnReadyUrl, Reduction
  <1>2. TypeOK'
    BY <1>1 DEF IInv, TypeOK, Snapshot, ObservedState
  <1>3. OfferIsLatest' /\ HonestLabel'
    BY <1>1 DEF IInv, TypeOK, Snapshot, OfferIsLatest, HonestLabel, Fenced, Active
  <1>4. QED
    BY <1>2, <1>3 DEF IInv

LEMMA BootstrapSucceededKeeps ==
    ASSUME IInv, NEW auth \in Authority, Active(snap),
           snap' = OnBootstrapSucceeded(snap, auth).snapshot
    PROVE  IInv'
  <1> DEFINE g == snap.generation + 1
             c == [authority |-> auth, generation |-> g]
  <1>1. snap' = [snap EXCEPT !.generation = g, !.observed = "Ready", !.context = c]
    BY DEF OnBootstrapSucceeded, Reduction
  <1>2. g \in Generation
    BY DEF IInv, TypeOK, Snapshot, Generation
  <1>3. c \in ConnectionContext /\ c # NoContext /\ c.generation = g
    BY <1>2, NoContextAssumption DEF ConnectionContext
  <1> HIDE DEF g, c
  <1>4. TypeOK'
    BY <1>1, <1>2, <1>3 DEF IInv, TypeOK, Snapshot, ObservedState
  <1>5. OfferIsLatest' /\ HonestLabel'
    BY <1>1, <1>3 DEF IInv, TypeOK, Snapshot, OfferIsLatest, HonestLabel, Fenced, Active
  <1>6. QED
    BY <1>4, <1>5 DEF IInv

LEMMA FailedKeeps ==
    ASSUME IInv, NEW a, Active(snap), snap' = OnFailed(snap, a).snapshot
    PROVE  IInv'
  <1>1. snap' = [snap EXCEPT !.context = NoContext, !.observed = "Unhealthy"]
    BY DEF OnFailed, Reduction
  <1>2. TypeOK'
    BY <1>1 DEF IInv, TypeOK, Snapshot, ObservedState
  <1>3. OfferIsLatest' /\ HonestLabel'
    BY <1>1 DEF IInv, TypeOK, Snapshot, OfferIsLatest, HonestLabel, Fenced, Active
  <1>4. QED
    BY <1>2, <1>3 DEF IInv

LEMMA GoneKeeps ==
    ASSUME IInv, snap' = OnGone(snap).snapshot
    PROVE  IInv'
  <1>1. snap' = [snap EXCEPT !.context = NoContext, !.attempt = NoAttempt,
                             !.observed = IF Fenced(snap) THEN "Fenced" ELSE "Stopped"]
    BY DEF OnGone, Reduction
  <1>2. TypeOK'
    BY <1>1 DEF IInv, TypeOK, Snapshot, ObservedState
  <1>3. OfferIsLatest' /\ HonestLabel'
    BY <1>1 DEF IInv, TypeOK, Snapshot, OfferIsLatest, HonestLabel, Fenced, Active
  <1>4. QED
    BY <1>2, <1>3 DEF IInv

LEMMA StepInv == IInv /\ [ReducerNext]_snap => IInv'
  <1>1. CASE UNCHANGED snap
    BY <1>1 DEF IInv, TypeOK, OfferIsLatest, HonestLabel, Active, Fenced
  <1>2. ASSUME IInv, NEW e \in Event(Attempts), Receive(e)
        PROVE  IInv'
    <2>1. snap' = reduce(snap, e).snapshot
      BY <1>2 DEF Receive
    <2>2. CASE reduce(snap, e) = Reduction(snap, <<>>)
      BY <1>1, <2>1, <2>2, <1>2 DEF Reduction
    <2>3. CASE e.kind = "Shutdown" /\ reduce(snap, e) = OnShutdown(snap)
      BY <1>2, <2>1, <2>3, ShutdownKeeps
    <2>4. CASE e.kind = "Fence" /\ reduce(snap, e) = OnFence(snap)
      BY <1>2, <2>1, <2>4, FenceKeeps
    <2>5. CASE e.kind = "DesiredStopped" /\ reduce(snap, e) = OnDesiredStopped(snap)
      BY <1>2, <2>1, <2>5, DesiredStoppedKeeps
    <2>6. CASE e.kind = "DesiredRunning" /\ reduce(snap, e) = OnDesiredRunning(snap)
      BY <1>2, <2>1, <2>6, DesiredRunningKeeps
    <2>7. CASE Active(snap) /\ reduce(snap, e) = SpawnNext(snap)
      BY <1>1, <2>1, <2>7, <1>2 DEF SpawnNext, Reduction
    <2>8. CASE /\ e.kind = "Spawned" /\ e.attempt \in Attempts /\ Active(snap)
               /\ reduce(snap, e) = OnSpawned(snap, e.attempt)
      BY <1>2, <2>1, <2>8, SpawnedKeeps
    <2>9. CASE /\ e.kind = "ReadyUrl" /\ current(snap, e.attempt) /\ Active(snap)
               /\ reduce(snap, e) = OnReadyUrl(snap, e.attempt)
      BY <1>2, <2>1, <2>9, ReadyUrlKeeps
    <2>10. CASE /\ e.kind = "BootstrapSucceeded" /\ e.authority \in Authority
                /\ current(snap, e.attempt) /\ Active(snap)
                /\ reduce(snap, e) = OnBootstrapSucceeded(snap, e.authority)
      BY <1>2, <2>1, <2>10, BootstrapSucceededKeeps
    <2>11. CASE /\ e.kind \in {"Failed", "ChildExited"} /\ current(snap, e.attempt)
                /\ Active(snap) /\ reduce(snap, e) = OnFailed(snap, e.attempt)
      BY <1>2, <2>1, <2>11, FailedKeeps
    <2>12. CASE /\ e.kind \in {"Stopped", "ChildExited"} /\ current(snap, e.attempt)
                /\ reduce(snap, e) = OnGone(snap)
      BY <1>2, <2>1, <2>12, GoneKeeps
    <2>13. QED
      BY <1>2, <2>2, <2>3, <2>4, <2>5, <2>6, <2>7, <2>8, <2>9, <2>10, <2>11, <2>12, ReduceCases
  <1>3. QED
    BY <1>1, <1>2 DEF ReducerNext

----------------------------------------------------------------------------
(* The theorems.                                                            *)

LEMMA InvHolds == ReducerSpec => []IInv
  BY InitInv, StepInv, PTL DEF ReducerSpec

\* The coordinator's snapshot keeps its type, and never holds an attempt no
\* event was about.
THEOREM TypeCorrect == ReducerSpec => []TypeOK
  <1>1. IInv => TypeOK
    BY DEF IInv
  <1>2. QED
    BY <1>1, InvHolds, PTL

\* The context in the snapshot is the one published last, and is there only
\* while the node should be serving.
THEOREM OfferStaysLatest == ReducerSpec => []OfferIsLatest
  <1>1. IInv => OfferIsLatest
    BY DEF IInv
  <1>2. QED
    BY <1>1, InvHolds, PTL

\* The observed state agrees with the rest of the snapshot, whatever comes in.
THEOREM LabelStaysHonest == ReducerSpec => []HonestLabel
  <1>1. IInv => HonestLabel
    BY DEF IInv
  <1>2. QED
    BY <1>1, InvHolds, PTL

\* A node that has been shut down or fenced adopts no further attempt.
THEOREM ClosedStaysClosed == ReducerSpec => ClosedNeverAdopts
  <1>1. ASSUME IInv, [ReducerNext]_snap
        PROVE  [Closed => snap'.attempt \in {snap.attempt, NoAttempt}]_snap
    <2> SUFFICES ASSUME NEW e \in Event(Attempts), Receive(e), Closed
                 PROVE  snap'.attempt \in {snap.attempt, NoAttempt}
      BY <1>1 DEF ReducerNext
    <2>1. ~Active(snap)
      BY DEF Closed, Active
    <2>2. snap' = reduce(snap, e).snapshot /\ snap \in Snapshot
      BY <1>1 DEF Receive, IInv, TypeOK
    <2>3. CASE reduce(snap, e) = Reduction(snap, <<>>)
      BY <2>2, <2>3 DEF Reduction
    <2>4. CASE reduce(snap, e) = OnShutdown(snap)
      BY <2>2, <2>4, ShutdownFields
    <2>5. CASE reduce(snap, e) = OnFence(snap)
      BY <2>2, <2>5, FenceFields
    <2>6. CASE reduce(snap, e) = OnDesiredStopped(snap)
      BY <2>2, <2>6, DesiredStoppedFields
    <2>7. CASE reduce(snap, e) = OnDesiredRunning(snap)
      BY <2>2, <2>7, DesiredRunningFields
    <2>8. CASE reduce(snap, e) = OnGone(snap)
      BY <2>2, <2>8, LossFields
    <2>9. QED
      BY <2>1, <2>3, <2>4, <2>5, <2>6, <2>7, <2>8, ReduceCases
  <1>2. QED
    BY <1>1, InvHolds, PTL DEF ReducerSpec, ClosedNeverAdopts

----------------------------------------------------------------------------
(* The refinement: an event is a step of the gate or leaves it as it is.    *)

LEMMA GateStep ==
    ASSUME IInv, [ReducerNext]_snap
    PROVE  [Gate!GateNext]_(Gate!gateVars)
  <1> USE DEF Gate!GateNext, Gate!gateVars, Gate!None, Closed, Fenced
  <1>1. CASE UNCHANGED snap
    BY <1>1
  <1>2. ASSUME NEW e \in Event(Attempts), Receive(e)
        PROVE  [Gate!GateNext]_(Gate!gateVars)
    <2>1. snap' = reduce(snap, e).snapshot /\ snap \in Snapshot
      BY <1>2 DEF Receive, IInv, TypeOK
    <2>2. CASE reduce(snap, e) = Reduction(snap, <<>>) \/ reduce(snap, e) = SpawnNext(snap)
      BY <1>1, <2>1, <2>2 DEF Reduction, SpawnNext
    <2>3. CASE reduce(snap, e) = OnShutdown(snap) \/ reduce(snap, e) = OnFence(snap)
      <3>1. CASE UNCHANGED snap
        BY <1>1, <3>1
      <3>2. CASE snap' # snap
        <4>1. Closed' /\ snap'.context = NoContext /\ snap'.generation = snap.generation
          BY <2>1, <2>3, <3>2, ShutdownFields, FenceFields
        <4>2. Gate!Close
          BY <4>1 DEF Gate!Close
        <4>3. QED
          BY <4>2
      <3>3. QED
        BY <3>1, <3>2
    <2>4. CASE reduce(snap, e) = OnDesiredStopped(snap)
      <3>1. /\ snap'.desired = "Stopped" /\ snap'.context = NoContext
            /\ snap'.generation = snap.generation /\ Closed' = Closed
        BY <2>1, <2>4, DesiredStoppedFields
      <3>2. CASE Closed
        BY <3>1, <3>2 DEF Gate!Close
      <3>3. CASE ~Closed /\ snap.desired = "Running"
        BY <3>1, <3>3 DEF Gate!Pause
      <3>4. CASE ~Closed /\ snap.desired # "Running"
        BY <3>1, <3>4 DEF Gate!Withdraw
      <3>5. QED
        BY <3>2, <3>3, <3>4
    <2>5. CASE reduce(snap, e) = OnDesiredRunning(snap)
      <3>1. /\ snap'.context = snap.context /\ snap'.generation = snap.generation
            /\ Closed' = Closed
            /\ snap'.desired = snap.desired \/ (snap'.desired = "Running" /\ ~Closed)
        BY <2>1, <2>5, DesiredRunningFields
      <3>2. CASE snap'.desired = snap.desired
        BY <3>1, <3>2
      <3>3. CASE snap'.desired = "Running" /\ snap.desired # "Running" /\ ~Closed
        BY <3>1, <3>3 DEF Gate!Resume
      <3>4. QED
        BY <3>1, <3>2, <3>3
    <2>6. CASE \/ reduce(snap, e) = OnSpawned(snap, e.attempt)
               \/ reduce(snap, e) = OnReadyUrl(snap, e.attempt)
      <3>1. /\ snap'.desired = snap.desired /\ snap'.context = snap.context
            /\ snap'.generation = snap.generation /\ Closed' = Closed
        BY <2>1, <2>6, AdvanceFields
      <3>2. QED
        BY <3>1
    <2>7. CASE /\ Active(snap) /\ e.authority \in Authority
               /\ reduce(snap, e) = OnBootstrapSucceeded(snap, e.authority)
      <3> DEFINE g == snap.generation + 1
                 c == [authority |-> e.authority, generation |-> g]
      <3>1. g \in Generation
        BY <2>1 DEF Snapshot, Generation
      <3>2. c \in ConnectionContext /\ c # NoContext /\ c.generation = g
        BY <2>7, <3>1, NoContextAssumption DEF ConnectionContext
      <3>3. snap' = [snap EXCEPT !.generation = g, !.observed = "Ready", !.context = c]
        BY <2>1, <2>7 DEF Reduction, OnBootstrapSucceeded
      <3> HIDE DEF c
      <3>4. /\ snap'.desired = snap.desired /\ snap'.context = c
            /\ snap'.generation = g /\ Closed' = Closed
        BY <2>1, <3>3 DEF Snapshot
      <3>5. Gate!Publish
        BY <3>2, <3>4, <2>7 DEF Gate!Publish, Active
      <3>6. QED
        BY <3>5
    <2>8. CASE \/ reduce(snap, e) = OnFailed(snap, e.attempt)
               \/ reduce(snap, e) = OnGone(snap)
      <3>1. /\ snap'.desired = snap.desired /\ snap'.context = NoContext
            /\ snap'.generation = snap.generation /\ Closed' = Closed
        BY <2>1, <2>8, LossFields
      <3>2. Gate!Withdraw
        BY <3>1 DEF Gate!Withdraw
      <3>3. QED
        BY <3>2
    <2>9. QED
      BY <2>2, <2>3, <2>4, <2>5, <2>6, <2>7, <2>8, ReduceCases
  <1>3. QED
    BY <1>1, <1>2 DEF ReducerNext

\* The snapshot implements the abstract gate: generations only grow, one at a
\* time, the latest is the only one on offer, and it is withdrawn in the step
\* that stops, shuts down or fences the node.
THEOREM ContextPromiseKept == ReducerSpec => KeepsContextPromise
  <1>1. ReducerInit => Gate!GateInit
    BY DEF ReducerInit, InitialSnapshot, Gate!GateInit, Gate!None, Closed, Fenced, DesiredState
  <1>2. IInv /\ [ReducerNext]_snap => [Gate!GateNext]_(Gate!gateVars)
    BY GateStep
  <1>3. QED
    BY <1>1, <1>2, InvHolds, PTL DEF ReducerSpec, KeepsContextPromise, Gate!GateSpec
============================================================================
