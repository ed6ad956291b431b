----------------------------- MODULE DshdState -----------------------------
(***************************************************************************)
(* The pure state model of the node daemon dshd: the snapshot, the typed    *)
(* events, the effects, and reduce, which maps a snapshot and an event to   *)
(* the next snapshot and the effects it asks for.                           *)
(*                                                                          *)
(* Abstracted: sequence (read only by the transcript printed by main) and   *)
(* last_error (never read).  A context keeps its authority, which names the *)
(* child process that answered, and its generation; origin is a function of *)
(* the authority and the cookie is never read back.                         *)
(***************************************************************************)
EXTENDS Naturals, Sequences

CONSTANTS Authority,   \* the loopback authorities a child may listen on
          NoContext    \* Option::None of the connection context

AttemptId == Nat \ {0}
NoAttempt == 0
Generation == Nat

DesiredState == {"Running", "Stopped"}
ObservedState == {"Starting", "Authenticating", "Ready", "Unhealthy",
                  "Stopping", "Stopped", "Fenced"}
\* Registering, Leased and Degraded belong to the central client, which the
\* workspace does not have yet: no code constructs them.
RegistrationState == {"Unregistered", "Fenced"}

ConnectionContext == [authority : Authority, generation : Generation]

ASSUME NoContextAssumption == NoContext \notin ConnectionContext

Snapshot == [desired      : DesiredState,
             observed     : ObservedState,
             registration : RegistrationState,
             attempt      : AttemptId \cup {NoAttempt},
             generation   : Generation,
             context      : ConnectionContext \cup {NoContext},
             shutdown     : BOOLEAN]

\* Snapshot::default with the desired state read from disk.
InitialSnapshot(desired) ==
    [desired      |-> desired,
     observed     |-> "Stopped",
     registration |-> "Unregistered",
     attempt      |-> NoAttempt,
     generation   |-> 0,
     context      |-> NoContext,
     shutdown     |-> FALSE]

----------------------------------------------------------------------------
(* Events and effects.                                                      *)

CommandKind == {"Reconcile", "DesiredRunning", "DesiredStopped", "Fence", "Shutdown"}
AttemptKind == {"Spawned", "ReadyUrl", "Failed", "ChildExited", "BackoffElapsed", "Stopped"}

Command(k) == [kind |-> k]
Report(k, a) == [kind |-> k, attempt |-> a]
BootstrapSucceeded(a, auth) ==
    [kind |-> "BootstrapSucceeded", attempt |-> a, authority |-> auth]

\* Every event about attempts in the set A.
Event(A) == [kind : CommandKind]
            \cup [kind : AttemptKind, attempt : A]
            \cup [kind : {"BootstrapSucceeded"}, attempt : A, authority : Authority]

\* PersistDesired is declared by the code and never emitted.
EffectKind == {"Spawn", "Bootstrap", "Stop", "ScheduleBackoff", "PublishContext", "DropContext"}
Effect == [kind : EffectKind, arg : Nat]
Do(k, n) == [kind |-> k, arg |-> n]
DropContext == Do("DropContext", 0)

----------------------------------------------------------------------------
(* The reducer.                                                             *)

next(s) == IF s.attempt = NoAttempt THEN 1 ELSE s.attempt + 1

\* Mutant: a report about any attempt counts.
currentAny(s, a) == s.attempt # NoAttempt
current(s, a) == s.attempt = a

Fenced(s) == s.registration = "Fenced"

\* Mutant: a shutdown does not keep the node from starting attempts.
ActiveAfterShutdown(s) == s.desired = "Running" /\ ~Fenced(s)

\* The guard repeated on every arm that starts or advances an attempt.
Active(s) == s.desired = "Running" /\ ~s.shutdown /\ ~Fenced(s)

Reduction(s, effects) == [snapshot |-> s, effects |-> effects]

StopCurrent(s) ==
    IF s.attempt = NoAttempt THEN <<>> ELSE <<DropContext, Do("Stop", s.attempt)>>

\* Mutant: the case of a node that holds no attempt is forgotten.
WindingForever(s) == IF Fenced(s) THEN s.observed ELSE "Stopping"

\* What Shutdown and DesiredPersisted(Stopped) show while a child winds down;
\* a fenced node keeps showing Fenced.
Winding(s) ==
    IF Fenced(s) THEN s.observed
    ELSE IF s.attempt = NoAttempt THEN "Stopped" ELSE "Stopping"

OnShutdown(s) ==
    IF s.shutdown THEN Reduction(s, <<>>)
    ELSE Reduction([s EXCEPT !.shutdown = TRUE, !.context = NoContext,
                             !.observed = Winding(s)],
                   StopCurrent(s))

\* Mutants: the context stays in the snapshot; the child is not told to stop.
OnFenceKeepsContext(s) ==
    Reduction([s EXCEPT !.registration = "Fenced", !.observed = "Fenced"], StopCurrent(s))
OnFenceWithoutStop(s) ==
    Reduction([s EXCEPT !.registration = "Fenced", !.context = NoContext,
                        !.observed = "Fenced"],
              <<DropContext>>)

OnFence(s) ==
    Reduction([s EXCEPT !.registration = "Fenced", !.context = NoContext,
                        !.observed = "Fenced"],
              StopCurrent(s))

OnDesiredStopped(s) ==
    Reduction([s EXCEPT !.desired = "Stopped", !.context = NoContext,
                        !.observed = Winding(s)],
              StopCurrent(s))

OnDesiredRunning(s) ==
    IF ~s.shutdown /\ ~Fenced(s)
    THEN Reduction([s EXCEPT !.desired = "Running"], <<Do("Spawn", next(s))>>)
    ELSE Reduction(s, <<>>)

\* Reconcile, and a backoff that elapses for the current attempt.
SpawnNext(s) == Reduction(s, <<Do("Spawn", next(s))>>)

\* Mutant: the attempt is numbered again instead of taken from the report.
OnSpawnedRenumbered(s, a) ==
    Reduction([s EXCEPT !.attempt = next(s), !.observed = "Starting"], <<>>)

\* The attempt is adopted whatever it is: neither the attempt it replaces nor
\* a context that is still published is looked at.
OnSpawned(s, a) ==
    Reduction([s EXCEPT !.attempt = a, !.observed = "Starting"], <<>>)

OnReadyUrl(s, a) ==
    Reduction([s EXCEPT !.observed = "Authenticating"], <<Do("Bootstrap", a)>>)

OnBootstrapSucceeded(s, auth) ==
    LET g == s.generation + 1
    IN  Reduction([s EXCEPT !.generation = g, !.observed = "Ready",
                            !.context = [authority |-> auth, generation |-> g]],
                  <<Do("PublishContext", g)>>)

\* Mutant: nothing is scheduled after a failure.
OnFailedForGood(s, a) ==
    Reduction([s EXCEPT !.context = NoContext, !.observed = "Unhealthy"], <<DropContext>>)

\* Failed, and ChildExited while the node should be running.
OnFailed(s, a) ==
    Reduction([s EXCEPT !.context = NoContext, !.observed = "Unhealthy"],
              <<DropContext, Do("ScheduleBackoff", a)>>)

\* Stopped, and ChildExited while the node is winding down.
OnGone(s) ==
    Reduction([s EXCEPT !.context = NoContext, !.attempt = NoAttempt,
                        !.observed = IF Fenced(s) THEN "Fenced" ELSE "Stopped"],
              <<>>)

\* The guards of the match: orders of the operator always count, what starts or
\* advances an attempt counts only while the node is active, and a report only
\* if it is about the current attempt.
Counts(s, e) ==
    \/ e.kind \in {"Shutdown", "Fence", "DesiredStopped", "DesiredRunning"}
    \/ e.kind \in {"Reconcile", "Spawned"} /\ Active(s)
    \/ /\ e.kind \in {"ReadyUrl", "BootstrapSucceeded", "Failed", "BackoffElapsed"}
       /\ current(s, e.attempt) /\ Active(s)
    \/ e.kind \in {"ChildExited", "Stopped"} /\ current(s, e.attempt)

OnOrder(s, e) ==
    IF e.kind = "Shutdown" THEN OnShutdown(s)
    ELSE IF e.kind = "Fence" THEN OnFence(s)
    ELSE IF e.kind = "DesiredStopped" THEN OnDesiredStopped(s)
    ELSE IF e.kind = "DesiredRunning" THEN OnDesiredRunning(s)
    ELSE SpawnNext(s)   \* Reconcile

OnReport(s, e) ==
    IF e.kind = "Spawned" THEN OnSpawned(s, e.attempt)
    ELSE IF e.kind = "ReadyUrl" THEN OnReadyUrl(s, e.attempt)
    ELSE IF e.kind = "BootstrapSucceeded" THEN OnBootstrapSucceeded(s, e.authority)
    ELSE IF e.kind = "BackoffElapsed" THEN SpawnNext(s)
    ELSE IF e.kind = "Stopped" \/ (e.kind = "ChildExited" /\ ~Active(s)) THEN OnGone(s)
    ELSE OnFailed(s, e.attempt)   \* Failed, or a child that should be running

\* An event that does not count is late or out of order and changes nothing.
reduce(s, e) ==
    IF ~Counts(s, e) THEN Reduction(s, <<>>)
    ELSE IF e.kind \in CommandKind THEN OnOrder(s, e)
    ELSE OnReport(s, e)

----------------------------------------------------------------------------
(* What observability reads off a snapshot.  ready also needs a lease, and  *)
(* no code grants one yet.                                                  *)
local(s) == s.observed = "Ready" /\ s.context # NoContext
============================================================================
