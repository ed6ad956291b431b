---------------------------- MODULE DshdReducer ----------------------------
(***************************************************************************)
(* The coordinator's snapshot under any sequence of events whatever: late,  *)
(* duplicated, out of order, about attempts that never existed.  This is    *)
(* what the reducer guarantees before anything is known of the threads that *)
(* send the events; DshdNode adds those and refines this module.            *)
(***************************************************************************)
EXTENDS DshdState

CONSTANT Attempts   \* the attempts the events are about

ASSUME AttemptsAssumption == Attempts \subseteq AttemptId

VARIABLE snap

ReducerInit == \E desired \in DesiredState : snap = InitialSnapshot(desired)

Receive(e) == snap' = reduce(snap, e).snapshot

ReducerNext == \E e \in Event(Attempts) : Receive(e)

ReducerSpec == ReducerInit /\ [][ReducerNext]_snap

----------------------------------------------------------------------------
(* Properties.                                                              *)

TypeOK == snap \in Snapshot /\ snap.attempt \in Attempts \cup {NoAttempt}

Closed == snap.shutdown \/ Fenced(snap)

\* The label the daemon shows agrees with the rest of the snapshot: main leaves
\* on Stopped, so Stopped must mean that no attempt is held, Fenced is shown
\* only once the node is fenced, and the running labels must never outlive a
\* stop, a shutdown or a fence.
HonestLabel ==
    /\ snap.observed = "Stopped" => snap.attempt = NoAttempt
    /\ snap.observed = "Stopping" => snap.attempt # NoAttempt
    /\ snap.observed = "Fenced" => Fenced(snap)
    /\ snap.observed = "Ready" => snap.context # NoContext
    /\ snap.observed \in {"Starting", "Authenticating", "Ready", "Unhealthy"} => Active(snap)

\* A closed node only winds down: the one attempt it may still hold is the one
\* it held, and a child that reports late is never adopted.
ClosedNeverAdopts ==
    [][Closed => snap'.attempt \in {snap.attempt, NoAttempt}]_snap

Gate == INSTANCE DshdContextGate WITH
    mode       <- IF Closed THEN "closed" ELSE IF snap.desired = "Running" THEN "open" ELSE "paused",
    generation <- snap.generation,
    offered    <- IF snap.context = NoContext THEN 0 ELSE snap.context.generation

\* The snapshot keeps the promise made to the holders of its context.
KeepsContextPromise == Gate!GateSpec
============================================================================
