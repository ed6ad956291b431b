------------------------------ MODULE DshdNode ------------------------------
(***************************************************************************)
(* The running dshd process: the Coordinator thread and its bounded event    *)
(* queue, the Supervisor that carries out the effects and the threads it     *)
(* starts, the Harness children, and main, which turns signals and console   *)
(* lines into events and decides when the daemon exits.                      *)
(*                                                                           *)
(* Every thread reports by a blocking send on the coordinator's queue, and   *)
(* the coordinator carries out effects itself, so it sends to its own queue. *)
(* When main returns the process ends and its threads with it, but a child   *)
(* runs in a process group of its own and does not.                          *)
(***************************************************************************)
EXTENDS DshdState, FiniteSets, Bags, BagsExt, Functions

CONSTANTS QueueCap,     \* capacity of the event queue (64 in the code)
          MaxSpawns,    \* bound: children ever started
          MaxShutdowns, \* bound: SIGINT, SIGTERM, "shutdown" lines and --hold-ms, together
          MaxFences,    \* bound: "fence" lines on the console
          Faults        \* which adapters may fail on their own account

ASSUME BoundsAssumption ==
    /\ QueueCap \in Nat \ {0}
    /\ MaxSpawns \in Nat /\ MaxShutdowns \in Nat /\ MaxFences \in Nat
    /\ Faults \subseteq {"spawn",     \* the program cannot be started
                        "protocol",  \* a live child announces or answers nonsense
                        "wait"}      \* try_wait fails
\* Each child listens on a port of its own, and the authority names the child.
ASSUME AuthorityAssumption == Authority = 1..MaxSpawns

VARIABLES
    snap,      \* Coordinator.snapshot
    queue,     \* the events in the sync_channel
    effects,   \* effects of the last reduction not yet carried out
    outbox,    \* the event the coordinator is itself sending: <<>> or <<e>>
    procs,     \* the children ever started, in order
    children,  \* Supervisor.children: attempt -> child
    ready,     \* Supervisor.ready: attempt -> child whose URL was read
    tasks,     \* bag of the bootstrap, backoff and stop threads
    main,      \* "Running", or "Exited" once run() has returned
    shutdowns, fences, console

coordinatorVars == <<snap, queue, effects, outbox>>
supervisorVars == <<procs, children, ready, tasks>>
mainVars == <<main, shutdowns, fences, console>>
vars == <<coordinatorVars, supervisorVars, mainVars>>

Child == [attempt : AttemptId,
          alive   : BOOLEAN,
          reader  : BOOLEAN,     \* the stdout thread has yet to report
          waiter  : BOOLEAN]     \* the wait thread has yet to report
NewChild(a) == [attempt |-> a, alive |-> TRUE, reader |-> FALSE, waiter |-> FALSE]

NoChild == 0

Bootstrap(a, p, phase) == [kind |-> "Bootstrap", attempt |-> a, child |-> p, phase |-> phase]
Backoff(a) == [kind |-> "Backoff", attempt |-> a, child |-> NoChild, phase |-> "Sleeping"]
Stop(a, p, phase) == [kind |-> "Stop", attempt |-> a, child |-> p, phase |-> phase]
Task == [kind : {"Bootstrap", "Backoff", "Stop"}, attempt : AttemptId,
         child : Nat, phase : {"Probing", "Accepted", "Sleeping", "Locking", "Terminating", "Reaped"}]

Live == {p \in DOMAIN procs : procs[p].alive}

\* A map in which p replaces whatever was kept for attempt a.
Insert(map, a, p) == [b \in DOMAIN map \cup {a} |-> IF b = a THEN p ELSE map[b]]

Init ==
    /\ \E desired \in DesiredState :
          /\ snap = InitialSnapshot(desired)
          /\ queue = IF desired = "Running" THEN <<Command("Reconcile")>> ELSE <<>>
    /\ effects = <<>> /\ outbox = <<>>
    /\ procs = <<>> /\ children = <<>> /\ ready = <<>> /\ tasks = EmptyBag
    /\ main = "Running" /\ shutdowns = 0 /\ fences = 0 /\ console = TRUE

----------------------------------------------------------------------------
(* The queue: a send waits for room.                                        *)

\* Mutant: an unbounded channel.
PostUnbounded(e) == queue' = Append(queue, e)
Post(e) == Len(queue) < QueueCap /\ queue' = Append(queue, e)

Up == main = "Running"

----------------------------------------------------------------------------
(* The coordinator thread: take an event, publish the new snapshot, then    *)
(* carry out its effects one after the other before the next event.         *)

\* Mutant: effects are handed to a worker, and the coordinator reduces on.
ReduceAhead ==
    /\ Up /\ outbox = <<>> /\ queue # <<>>
    /\ snap' = reduce(snap, Head(queue)).snapshot
    /\ effects' = effects \o reduce(snap, Head(queue)).effects
    /\ queue' = Tail(queue)
    /\ UNCHANGED <<outbox, supervisorVars, mainVars>>

Reduce ==
    /\ Up /\ effects = <<>> /\ outbox = <<>> /\ queue # <<>>
    /\ snap' = reduce(snap, Head(queue)).snapshot
    /\ effects' = reduce(snap, Head(queue)).effects
    /\ queue' = Tail(queue)
    /\ UNCHANGED <<outbox, supervisorVars, mainVars>>

\* The next effect is one of kind k, and the coordinator is free to execute it.
Executing(k) ==
    /\ Up /\ outbox = <<>> /\ effects # <<>> /\ Head(effects).kind = k
    /\ effects' = Tail(effects)

\* Mutant: the lock is released once the child is taken out of the map.
ChildrenNeverLocked == FALSE

\* stop holds the lock on children from the removal of its child until the
\* child has been waited for.
ChildrenLocked == \E t \in BagToSet(tasks) : t.kind = "Stop" /\ t.phase = "Terminating"

\* The child runs a little before the lock is taken; until it is in the map
\* nothing but main's exit can tell, and main may exit after this step too.
ExecSpawn ==
    /\ Executing("Spawn")
    /\ ~ChildrenLocked
    /\ Len(procs) < MaxSpawns
    /\ LET a == Head(effects).arg
       IN  /\ procs' = Append(procs, NewChild(a))
           /\ children' = Insert(children, a, Len(procs'))
           /\ outbox' = <<Report("Spawned", a)>>
    /\ UNCHANGED <<snap, queue, ready, tasks, mainVars>>

ExecSpawnFails ==
    /\ "spawn" \in Faults
    /\ Executing("Spawn")
    /\ outbox' = <<Report("Failed", Head(effects).arg)>>
    /\ UNCHANGED <<snap, queue, supervisorVars, mainVars>>

\* The stdout and wait threads start only once Spawned is in the queue.
SendSpawned ==
    /\ Up /\ outbox # <<>> /\ Head(outbox).kind = "Spawned"
    /\ Post(Head(outbox))
    /\ outbox' = <<>>
    /\ procs' = [procs EXCEPT ![Len(procs)].reader = TRUE, ![Len(procs)].waiter = TRUE]
    /\ UNCHANGED <<snap, effects, children, ready, tasks, mainVars>>

SendSpawnFailed ==
    /\ Up /\ outbox # <<>> /\ Head(outbox).kind = "Failed"
    /\ Post(Head(outbox))
    /\ outbox' = <<>>
    /\ UNCHANGED <<snap, effects, supervisorVars, mainVars>>

\* The URL is looked up at once; the exchange runs in a thread.
ExecBootstrap ==
    /\ Executing("Bootstrap")
    /\ LET a == Head(effects).arg
       IN  tasks' = BagAdd(tasks, Bootstrap(a, ready[a], "Probing"))
    /\ UNCHANGED <<snap, queue, outbox, procs, children, ready, mainVars>>

ExecScheduleBackoff ==
    /\ Executing("ScheduleBackoff")
    /\ tasks' = BagAdd(tasks, Backoff(Head(effects).arg))
    /\ UNCHANGED <<snap, queue, outbox, procs, children, ready, mainVars>>

ExecStop ==
    /\ Executing("Stop")
    /\ tasks' = BagAdd(tasks, Stop(Head(effects).arg, NoChild, "Locking"))
    /\ UNCHANGED <<snap, queue, outbox, procs, children, ready, mainVars>>

\* No adapter is behind PublishContext and DropContext.
ExecNothing ==
    /\ Executing("PublishContext") \/ Executing("DropContext")
    /\ UNCHANGED <<snap, queue, outbox, supervisorVars, mainVars>>

Execute ==
    \/ ExecSpawn \/ ExecSpawnFails \/ SendSpawned \/ SendSpawnFailed
    \/ ExecBootstrap \/ ExecScheduleBackoff \/ ExecStop \/ ExecNothing

----------------------------------------------------------------------------
(* A child and the two threads that watch it.                               *)

ChildExits(p) ==
    /\ procs[p].alive
    /\ procs' = [procs EXCEPT ![p].alive = FALSE]
    /\ UNCHANGED <<coordinatorVars, children, ready, tasks, mainVars>>

\* The stdout thread takes the first URL announced and ends.  When the child
\* printed it shows only here; what is left in the pipe of a dead child is
\* still read.  The URL is kept before it is reported, and nobody looks it up
\* before the report, so the two are one step.
ReadUrl(p) ==
    /\ Up /\ procs[p].reader
    /\ Post(Report("ReadyUrl", procs[p].attempt))
    /\ ready' = Insert(ready, procs[p].attempt, p)
    /\ procs' = [procs EXCEPT ![p].reader = FALSE]
    /\ UNCHANGED <<snap, effects, outbox, children, tasks, mainVars>>

ReadGarbage(p) ==
    /\ "protocol" \in Faults
    /\ Up /\ procs[p].reader
    /\ Post(Report("Failed", procs[p].attempt))
    /\ procs' = [procs EXCEPT ![p].reader = FALSE]
    /\ UNCHANGED <<snap, effects, outbox, children, ready, tasks, mainVars>>

SeeExit(p) ==
    /\ Up /\ procs[p].waiter /\ ~procs[p].alive
    /\ Post(Report("ChildExited", procs[p].attempt))
    /\ procs' = [procs EXCEPT ![p].waiter = FALSE]
    /\ UNCHANGED <<snap, effects, outbox, children, ready, tasks, mainVars>>

WaitFails(p) ==
    /\ "wait" \in Faults
    /\ Up /\ procs[p].waiter
    /\ Post(Report("Failed", procs[p].attempt))
    /\ procs' = [procs EXCEPT ![p].waiter = FALSE]
    /\ UNCHANGED <<snap, effects, outbox, children, ready, tasks, mainVars>>

----------------------------------------------------------------------------
(* The bootstrap and backoff threads.                                       *)

\* The thread reports e and ends.
Finish(t, e) ==
    /\ Up /\ Post(e)
    /\ tasks' = BagRemove(tasks, t)
    /\ UNCHANGED <<snap, effects, outbox, procs, children, ready, mainVars>>

\* Token exchange and probe both answered: the child was alive to answer.
ProbeAccepted(t) ==
    /\ Up /\ t.kind = "Bootstrap" /\ t.phase = "Probing" /\ procs[t.child].alive
    /\ tasks' = BagAdd(BagRemove(tasks, t), [t EXCEPT !.phase = "Accepted"])
    /\ UNCHANGED <<coordinatorVars, procs, children, ready, mainVars>>

BootstrapSucceeds(t) ==
    /\ t.kind = "Bootstrap" /\ t.phase = "Accepted"
    /\ Finish(t, BootstrapSucceeded(t.attempt, t.child))

BootstrapFails(t) ==
    /\ t.kind = "Bootstrap" /\ t.phase = "Probing"
    /\ "protocol" \in Faults \/ ~procs[t.child].alive
    /\ Finish(t, Report("Failed", t.attempt))

\* Spawns already asked for but not yet carried out.
SpawnsAhead ==
    Cardinality({i \in DOMAIN queue : queue[i].kind \in {"Reconcile", "BackoffElapsed"}})
    + Cardinality({i \in DOMAIN effects : effects[i].kind = "Spawn"})

\* The timer may be late by any amount; past the bound on children it never
\* elapses.
BackoffElapses(t) ==
    /\ t.kind = "Backoff"
    /\ Len(procs) + SpawnsAhead < MaxSpawns
    /\ Finish(t, Report("BackoffElapsed", t.attempt))

----------------------------------------------------------------------------
(* The stop thread: SIGTERM to the process group, SIGKILL after             *)
(* stop_timeout, wait, then Stopped.                                        *)

StopFindsChild(t) ==
    /\ Up /\ t.kind = "Stop" /\ t.phase = "Locking" /\ ~ChildrenLocked
    /\ t.attempt \in DOMAIN children
    /\ tasks' = BagAdd(BagRemove(tasks, t), Stop(t.attempt, children[t.attempt], "Terminating"))
    /\ children' = [a \in DOMAIN children \ {t.attempt} |-> children[a]]
    /\ UNCHANGED <<coordinatorVars, procs, ready, mainVars>>

\* The child obeyed SIGTERM (ChildExits), or is killed here.
StopReaps(t) ==
    /\ Up /\ t.kind = "Stop" /\ t.phase = "Terminating"
    /\ procs' = [procs EXCEPT ![t.child].alive = FALSE]
    /\ tasks' = BagAdd(BagRemove(tasks, t), [t EXCEPT !.phase = "Reaped"])
    /\ UNCHANGED <<coordinatorVars, children, ready, mainVars>>

StopReports(t) ==
    /\ t.kind = "Stop"
    /\ \/ t.phase = "Reaped"
       \/ t.phase = "Locking" /\ ~ChildrenLocked /\ t.attempt \notin DOMAIN children
    /\ Finish(t, Report("Stopped", t.attempt))

----------------------------------------------------------------------------
(* main: signals, the console, and the poll that ends the daemon.           *)

Signal ==
    /\ Up /\ shutdowns < MaxShutdowns /\ Post(Command("Shutdown"))
    /\ shutdowns' = shutdowns + 1
    /\ UNCHANGED <<snap, effects, outbox, supervisorVars, main, fences, console>>

ConsoleShutdown ==
    /\ Up /\ console /\ shutdowns < MaxShutdowns /\ Post(Command("Shutdown"))
    /\ console' = FALSE
    /\ shutdowns' = shutdowns + 1
    /\ UNCHANGED <<snap, effects, outbox, supervisorVars, main, fences>>

\* Mutant: the console fences the node behind the coordinator's back.
ConsoleFenceDirect ==
    /\ Up /\ console /\ fences < MaxFences
    /\ snap' = [snap EXCEPT !.registration = "Fenced"]
    /\ fences' = fences + 1
    /\ UNCHANGED <<queue, effects, outbox, supervisorVars, main, shutdowns, console>>

ConsoleFence ==
    /\ Up /\ console /\ fences < MaxFences /\ Post(Command("Fence"))
    /\ fences' = fences + 1
    /\ UNCHANGED <<snap, effects, outbox, supervisorVars, main, shutdowns, console>>

MayExit == snap.shutdown /\ snap.observed = "Stopped"

\* The threads and the queue go with the process; the children do not.
MainExits ==
    /\ Up /\ MayExit
    /\ main' = "Exited"
    /\ queue' = <<>> /\ effects' = <<>> /\ outbox' = <<>>
    /\ children' = <<>> /\ ready' = <<>> /\ tasks' = EmptyBag
    /\ UNCHANGED <<snap, procs, shutdowns, fences, console>>

----------------------------------------------------------------------------
ReadStdout(p) == ReadUrl(p) \/ ReadGarbage(p)
AwaitExit(p) == SeeExit(p) \/ WaitFails(p)
RunTask(t) ==
    \/ ProbeAccepted(t) \/ BootstrapSucceeds(t) \/ BootstrapFails(t) \/ BackoffElapses(t)
    \/ StopFindsChild(t) \/ StopReaps(t) \/ StopReports(t)

Next ==
    \/ Reduce \/ Execute
    \/ \E p \in DOMAIN procs : ChildExits(p) \/ ReadStdout(p) \/ AwaitExit(p)
    \/ \E t \in BagToSet(tasks) : RunTask(t)
    \/ Signal \/ ConsoleShutdown \/ ConsoleFence \/ MainExits

Spec == Init /\ [][Next]_vars

\* Every thread of the daemon keeps running and main keeps polling, a backoff
\* elapses and a stop is bounded by stop_timeout.  Nothing is assumed of what a
\* child prints (ReadStdout may never happen), of when it exits, or of signals
\* and console input.
Fairness ==
    /\ WF_vars(Reduce \/ Execute) /\ WF_vars(MainExits)
    /\ \A p \in 1..MaxSpawns : WF_vars(p \in DOMAIN procs /\ SeeExit(p))
    /\ \A k \in {"Bootstrap", "Backoff", "Stop"} :
          WF_vars(\E t \in BagToSet(tasks) : t.kind = k /\ RunTask(t))

FairSpec == Spec /\ Fairness

----------------------------------------------------------------------------
(* Safety.                                                                  *)

TypeOK ==
    /\ snap \in Snapshot
    /\ queue \in Seq(Event(AttemptId)) /\ Len(queue) <= QueueCap
    /\ effects \in Seq(Effect)
    /\ outbox \in Seq(Event(AttemptId)) /\ Len(outbox) <= 1
    /\ procs \in Seq(Child) /\ Len(procs) <= MaxSpawns
    /\ BagToSet(tasks) \subseteq Task
    /\ main \in {"Running", "Exited"} /\ console \in BOOLEAN
    /\ shutdowns \in 0..MaxShutdowns /\ fences \in 0..MaxFences

\* A child is started only while the node should be running: not once a
\* shutdown, a fence or an operator stop has been reduced, even if the spawn
\* was asked for before it.
SpawnsOnlyWhenActive == [][Len(procs') > Len(procs) => Active(snap)]_vars

\* Stopped is reported for an attempt only when no stop thread is still
\* waiting for that attempt's child: two stops of one attempt (a fence and a
\* shutdown) do not let the second one acknowledge for the first.
AckMeansReaped ==
    \A i \in DOMAIN queue : queue[i].kind = "Stopped" =>
        ~ \E t \in BagToSet(tasks) :
            t.kind = "Stop" /\ t.phase = "Terminating" /\ t.attempt = queue[i].attempt

\* The bootstrap of an attempt always finds the URL of a child of that
\* attempt: the error path for a missing URL is never taken, whatever is
\* queued between the ReadyUrl event and its effect.
BootstrapFindsUrl ==
    /\ \A i \in DOMAIN effects : effects[i].kind = "Bootstrap" => effects[i].arg \in DOMAIN ready
    /\ \A t \in BagToSet(tasks) : t.kind = "Bootstrap" =>
          procs[t.child].attempt = t.attempt

\* Whoever sees a ready node holds the context of a child of the current
\* attempt: an authentication that was still under way for an earlier child
\* cannot make the node ready on behalf of its successor.
ReadyIsCurrent ==
    local(snap) => procs[snap.context.authority].attempt = snap.attempt

\* Whatever is late, queued or overlapping, a bootstrap and a ready node are of
\* the child they are for.
RightChild == BootstrapFindsUrl /\ ReadyIsCurrent

\* Whatever the threads send, the snapshot moves only as the reducer allows.
Reducer == INSTANCE DshdReducer WITH Attempts <- 1..(MaxSpawns + 1)
ImplementsReducer == Reducer!ReducerSpec

----------------------------------------------------------------------------
(* Liveness, up to the bound on children.                                   *)

OutOfChildren == Len(procs) + SpawnsAhead >= MaxSpawns

\* A node that is shut down, and not fenced, exits.
ShutdownEnds == snap.shutdown ~> main = "Exited" \/ Fenced(snap)

\* A fenced node lets go of its child.
FenceDrains == Fenced(snap) ~> snap.attempt = NoAttempt

\* Both ways of closing a node come to an end.
ClosingEnds == ShutdownEnds /\ FenceDrains

\* The failure of a program that could not be started names an attempt no
\* Spawned has made current: the reducer will drop it, and with it the retry.
UnheardFailure ==
    /\ outbox # <<>> /\ Head(outbox).kind = "Failed" /\ Head(outbox).attempt # snap.attempt
    /\ Report("Spawned", Head(outbox).attempt) \notin Range(queue)

\* The node should run and either shows a failure or has no child at all,
\* whatever it shows: nothing started yet, or Ready through a child that died.
Ailing == Active(snap) /\ (snap.observed = "Unhealthy" \/ Live = {})

\* The coordinator waits for room in the queue that only it empties.
Jammed == outbox # <<>> /\ Len(queue) = QueueCap

\* Unless the program could not be started, or the coordinator has jammed, an
\* ailing node gets another child or is closed: a failure is retried, and a
\* child whose death a late authentication has hidden is missed after all.
Recovers == []~UnheardFailure => (Ailing ~> ~Ailing \/ OutOfChildren \/ Jammed)

----------------------------------------------------------------------------
(* What the repository's documents say of the daemon and the code does not  *)
(* do; each is refuted by a run of its own.                                 *)

\* mvp-baseline: at most one active Harness managed by dshd in a container.
AtMostOneHarness == Cardinality(Live) <= 1

\* M2 plan, T07: no orphaned child process is left when the daemon ends.
NoOrphans == main = "Exited" => Live = {}

\* ST-04, ST-13 and ST-14: whichever of the two comes first, a node that is
\* fenced and shut down while it holds a child comes to show Stopped.
FencedShutdownShowsStopped ==
    Fenced(snap) /\ snap.shutdown /\ snap.attempt # NoAttempt ~> snap.observed = "Stopped"

\* Service design, crash recovery: while the node should run, a failure or the
\* death of its child is retried after 1, 2, 4 ... 30 seconds.
AlwaysRecovers == Ailing /\ procs # <<>> ~> ~Ailing \/ OutOfChildren \/ Jammed
============================================================================
