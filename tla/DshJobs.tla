------------------------------- MODULE DshJobs -------------------------------
(***************************************************************************)
(* Background jobs: the process-local registry (jobs-local), the job tools *)
(* and completion notices (tool-jobs), what the tool runtime makes of the  *)
(* result of a cancelled call (core/tools), and the owners' teardown.      *)
(*                                                                         *)
(* The process is single threaded: an action runs from one await to the    *)
(* next. An owner's driver is reduced to what matters here: whether it     *)
(* runs, what waits in its inbox, and that its turns may be cancelled,     *)
(* blocked or fail. A job controller is attached for as long as the        *)
(* service is up.                                                          *)
(***************************************************************************)
EXTENDS Naturals, FiniteSets

CONSTANTS
    Jobs,      \* records that may be started
    Stubborn,  \* the jobs whose producer's cancel throws
    Owners,    \* agents
    Nobody,    \* the owner of an unowned job
    Calls,     \* calls of job tools under way at once
    NoCall,    \* the job of a call slot that is free
    Limit,     \* maxConcurrentJobsPerOwner
    Budget     \* maxConsecutiveWakes; 0 is quiet delivery

ASSUME StubbornAssumption == Stubborn \subseteq Jobs
ASSUME NobodyAssumption == Nobody \notin Owners /\ NoCall \notin Jobs
ASSUME LimitsAssumption == Limit \in Nat \ {0} /\ Budget \in Nat

VARIABLES
    service,   \* "up", "closing" (listeners closed, jobs cancelled) or "down"
    job,       \* the registry's records and the work behind them
    agent,     \* the owners
    call       \* the calls of job_output and job_kill

vars == <<service, job, agent, call>>

Terminal == {"completed", "killed", "failed"}
Live == {"running", "stopping"}

NoJob ==
    [owner |-> Nobody, status |-> "none", reported |-> FALSE, noticed |-> FALSE,
     stored |-> FALSE, waiters |-> {}, waiting |-> {}, work |-> "none"]

(* History: heard, the completions the owner knows of; lost, those that    *)
(* went with a step that never entered or was cut short; left, the notices *)
(* the driver ended over.                                                  *)
NewAgent ==
    [phase |-> "live", attached |-> FALSE, running |-> FALSE, cut |-> FALSE, spent |-> 0,
     notices |-> {}, heard |-> {}, lost |-> {}, left |-> {}, draining |-> {}]

NoCallYet == [pc |-> "idle", by |-> Nobody, job |-> NoCall, cut |-> FALSE, ended |-> FALSE]

Stored(j) == job[j].stored
Ended(j) == job[j].status \in Terminal
Alive(j) == job[j].status \in Live
Owned(o) == {j \in Jobs : Stored(j) /\ job[j].owner = o}
May(a, j) == Stored(j) /\ job[j].owner \in {Nobody, a}
Mine(a) == {c \in Calls : call[c].by = a}

-----------------------------------------------------------------------------
(* Settlement of the record r.                                             *)

(* A wait not yet resumed counts as a reader; without one, and without a   *)
(* claim to the report, the completion is announced.                       *)
Settled(r, status) ==
    LET reported == r.reported \/ r.waiters # {}
    IN  [r EXCEPT !.status = status, !.reported = reported, !.noticed = ~reported, !.waiting = {}]

(* The waits for the jobs of js are released.                              *)
Woken(js) ==
    [c \in Calls |->
        IF \E j \in js : c \in job[j].waiting THEN [call[c] EXCEPT !.pc = "woken"] ELSE call[c]]

(* The completion listener of tool-jobs, for the announced jobs js of one  *)
(* owner: open a turn on an idle owner while the budget lasts, otherwise   *)
(* leave the notice in the inbox.                                          *)
Notified(ag, js) ==
    IF js = {} \/ ag.phase # "live" THEN ag
    ELSE LET wakes == ~ag.running /\ ag.spent < Budget
         IN  [ag EXCEPT !.notices = @ \cup js, !.running = @ \/ wakes,
                        !.spent = IF wakes THEN @ + 1 ELSE @]

(* The work of j is over and its record settles as status.                 *)
Settles(j, status) ==
    LET r == Settled(job[j], status)
    IN  /\ job' = [job EXCEPT ![j] = [r EXCEPT !.work = "released"]]
        /\ agent' = [a \in Owners |->
              Notified(agent[a], IF service = "up" /\ r.noticed /\ r.owner = a THEN {j} ELSE {})]
        /\ call' = Woken({j})

-----------------------------------------------------------------------------
(* start, and the producer's side. work: "busy", "winding" down after a    *)
(* cancel, the outcome its `done` resolved with, "released".               *)

\* Mutant: a start does not ask for the owner's cleanup.
AdmitsUnchecked(o) ==
    service = "up" /\ Cardinality({j \in Owned(o) : Alive(j)}) < Limit

(* Preflight: the owner is the registered agent, and its scope has, or     *)
(* still takes, the cleanup that will drain the job.                       *)
Admits(o) ==
    /\ service = "up"
    /\ o \in Owners => agent[o].phase # "gone" /\ (agent[o].attached \/ agent[o].phase = "live")
    /\ Cardinality({j \in Owned(o) : Alive(j)}) < Limit

Start(j, o) ==
    /\ job[j].status = "none" /\ Admits(o)
    /\ job' = [job EXCEPT ![j] =
          [NoJob EXCEPT !.owner = o, !.status = "running", !.stored = TRUE, !.work = "busy"]]
    /\ agent' = IF o \in Owners THEN [agent EXCEPT ![o].attached = TRUE] ELSE agent
    /\ UNCHANGED <<service, call>>

(* The producer has released its resources and resolves `done`. What it    *)
(* calls completed stands for a failure of its own too.                    *)
Finish(j) ==
    /\ \/ job[j].work = "busy" /\ job' = [job EXCEPT ![j].work = "completed"]
       \/ /\ job[j].work = "winding"
          /\ \E outcome \in {"completed", "killed"} : job' = [job EXCEPT ![j].work = outcome]
    /\ UNCHANGED <<service, agent, call>>

\* Mutant: a late outcome replaces an earlier one.
SettleLast(j) ==
    /\ job[j].work \in Terminal
    /\ Settles(j, job[j].work)
    /\ UNCHANGED service

(* The continuation of `done`. The first outcome wins.                     *)
Settle(j) ==
    /\ job[j].work \in Terminal
    /\ \/ /\ Ended(j)
          /\ job' = [job EXCEPT ![j].work = "released"]
          /\ UNCHANGED <<agent, call>>
       \/ ~Ended(j) /\ Settles(j, job[j].work)
    /\ UNCHANGED service

CancelWork(r) == [r EXCEPT !.work = IF @ = "busy" THEN "winding" ELSE @]

-----------------------------------------------------------------------------
(* The tools. A call runs in a step of its agent.                          *)

Calling(c, a, j) ==
    /\ call[c].pc = "idle" /\ service = "up"
    /\ agent[a].phase = "live" /\ agent[a].running /\ ~agent[a].cut
    /\ May(a, j)
Made(c, a, j, pc, ended) ==
    call' = [call EXCEPT ![c] =
        [NoCallYet EXCEPT !.pc = pc, !.by = a, !.job = j, !.ended = ended]]

(* A terminal record that is read counts as reported.                      *)
Read(r) == [r EXCEPT !.reported = @ \/ r.status \in Terminal]

(* job_output without wait: it reads before its first await.               *)
Output(c, a, j) ==
    /\ Calling(c, a, j)
    /\ job' = [job EXCEPT ![j] = Read(@)]
    /\ Made(c, a, j, "returned", Ended(j))
    /\ UNCHANGED <<service, agent>>

(* job_output with wait.                                                   *)
Wait(c, a, j) ==
    /\ Calling(c, a, j)
    /\ \/ /\ Ended(j)
          /\ job' = [job EXCEPT ![j] = Read(@)]
          /\ Made(c, a, j, "reading", FALSE)
       \/ /\ ~Ended(j)
          /\ job' = [job EXCEPT ![j].waiters = @ \cup {c}, ![j].waiting = @ \cup {c}]
          /\ Made(c, a, j, "waiting", FALSE)
    /\ UNCHANGED <<service, agent>>

(* The wait's deadline passes.                                             *)
Timeout(c) ==
    /\ call[c].pc = "waiting"
    /\ call' = [call EXCEPT ![c].pc = "woken"]
    /\ job' = [job EXCEPT ![call[c].job].waiting = @ \ {c}]
    /\ UNCHANGED <<service, agent>>

\* Mutant: only a rejected wait is uncounted.
ResumeCounted(c) ==
    /\ call[c].pc = "woken"
    /\ call' = [call EXCEPT ![c].pc = "reading"]
    /\ job' = [job EXCEPT ![call[c].job] = Read(@)]
    /\ UNCHANGED <<service, agent>>

(* The wait resumes and returns its snapshot.                              *)
Resume(c) ==
    /\ call[c].pc = "woken"
    /\ call' = [call EXCEPT ![c].pc = "reading"]
    /\ LET j == call[c].job
       IN  job' = [job EXCEPT ![j] = [Read(@) EXCEPT !.waiters = job[j].waiters \ {c}]]
    /\ UNCHANGED <<service, agent>>

(* job_output then reads; a record removed meanwhile is unknown to it.     *)
ReadAfterWait(c) ==
    /\ call[c].pc = "reading"
    /\ LET j == call[c].job
       IN  \/ /\ ~May(call[c].by, j)
              /\ call' = [call EXCEPT ![c] = NoCallYet]
              /\ UNCHANGED job
           \/ /\ May(call[c].by, j)
              /\ call' = [call EXCEPT ![c].pc = "returned", ![c].ended = Ended(j)]
              /\ job' = [job EXCEPT ![j] = Read(@)]
    /\ UNCHANGED <<service, agent>>

(* job_kill. The owner who asked for the end needs no telling. A cancel    *)
(* that throws changes nothing.                                            *)
Kill(c, a, j) ==
    /\ Calling(c, a, j)
    /\ \/ /\ Ended(j)
          /\ job' = [job EXCEPT ![j].reported = TRUE]
          /\ Made(c, a, j, "returned", TRUE)
          /\ UNCHANGED agent
       \/ /\ ~Ended(j) /\ j \notin Stubborn
          /\ job' = [job EXCEPT ![j] =
                [CancelWork(@) EXCEPT !.status = "stopping", !.reported = TRUE]]
          /\ Made(c, a, j, "returned", FALSE)
          /\ agent' = [agent EXCEPT ![a].heard = @ \cup {j}]
    /\ UNCHANGED service

(* The news reaches the owner, or goes with the step that carried it.      *)
Told(a, news, entered) ==
    IF entered THEN [agent[a] EXCEPT !.heard = @ \cup news]
               ELSE [agent[a] EXCEPT !.lost = @ \cup news]

(* The runtime finalizes the result. A cancellation that came first        *)
(* replaces it, whatever it says, and a step that fails records nothing.   *)
Return(c) ==
    /\ call[c].pc = "returned"
    /\ LET a == call[c].by
       IN  \E entered \in IF call[c].cut THEN {FALSE} ELSE BOOLEAN :
             agent' = [agent EXCEPT ![a] =
                 Told(a, IF call[c].ended THEN {call[c].job} ELSE {}, entered)]
    /\ call' = [call EXCEPT ![c] = NoCallYet]
    /\ UNCHANGED <<service, job>>

-----------------------------------------------------------------------------
(* The owner's driver.                                                     *)

Wake(a) ==
    /\ agent[a].phase = "live" /\ ~agent[a].running
    /\ agent' = [agent EXCEPT ![a].running = TRUE]
    /\ UNCHANGED <<service, job, call>>

(* A step claims what is pending, and may still be blocked, fail or be     *)
(* cancelled before it enters; input of the user's refills the budget.     *)
Claim(a) ==
    /\ agent[a].phase = "live" /\ agent[a].running /\ ~agent[a].cut
    /\ \E prompted, entered \in BOOLEAN :
          agent' = [agent EXCEPT ![a] =
              [Told(a, agent[a].notices, entered) EXCEPT
                  !.notices = {}, !.left = {}, !.spent = IF prompted THEN 0 ELSE @]]
    /\ UNCHANGED <<service, job, call>>

(* A turn that closes by itself after a step takes a further one for what  *)
(* is pending. One that is cancelled, blocked, empty or fails does not     *)
(* look, and between the last look of any turn and the idle phase a notice *)
(* finds the owner still busy.                                             *)
Rest(a) ==
    /\ agent[a].running /\ Mine(a) = {}
    /\ agent' = [agent EXCEPT ![a].running = FALSE, ![a].cut = FALSE,
                             ![a].left = agent[a].notices]
    /\ UNCHANGED <<service, job, call>>

Rejected(a) == {c \in Mine(a) : call[c].pc = "waiting"}

(* A cancellation of a's turn rejects its calls that wait; the others      *)
(* finish under it.                                                        *)
CallsCut(a) ==
    [c \in Calls |-> CASE c \in Rejected(a) -> NoCallYet
                       [] c \in Mine(a) \ Rejected(a) -> [call[c] EXCEPT !.cut = TRUE]
                       [] c \notin Mine(a) -> call[c]]

\* Mutant: a rejected wait stays counted.
UncountedLate(a) ==
    [j \in Jobs |-> [job[j] EXCEPT !.waiting = @ \ Rejected(a)]]

(* A rejected wait is uncounted at once.                                   *)
Uncounted(a) ==
    [j \in Jobs |-> [job[j] EXCEPT !.waiting = @ \ Rejected(a), !.waiters = @ \ Rejected(a)]]

(* cancel: the pending messages go with the turn unless the caller keeps   *)
(* them.                                                                   *)
Cancel(a) ==
    /\ agent[a].phase = "live"
    /\ \E keep \in BOOLEAN :
          agent' = [agent EXCEPT ![a].cut = agent[a].running,
                                 ![a].notices = IF keep THEN @ ELSE {},
                                 ![a].left = IF keep THEN @ ELSE {},
                                 ![a].lost = IF keep THEN @ ELSE @ \cup agent[a].notices]
    /\ call' = CallsCut(a) /\ job' = Uncounted(a)
    /\ UNCHANGED service

-----------------------------------------------------------------------------
(* Teardown.                                                               *)

\* Mutant: a cancel that throws is only logged.
TornDownLoosely(j) ==
    IF j \in Stubborn \/ ~Alive(j) THEN job[j]
    ELSE [CancelWork(job[j]) EXCEPT !.reported = TRUE, !.status = "stopping"]

(* cancelForTeardown, of one record: reported first, then cancelled; a     *)
(* cancel that throws forces the record.                                   *)
TornDown(j) ==
    LET told == [job[j] EXCEPT !.reported = TRUE]
    IN  CASE ~Alive(j) -> job[j]
          [] Alive(j) /\ j \in Stubborn -> Settled(told, "failed")
          [] Alive(j) /\ j \notin Stubborn -> [CancelWork(told) EXCEPT !.status = "stopping"]

CancelForTeardown(js) ==
    /\ job' = [j \in Jobs |-> IF j \in js THEN TornDown(j) ELSE job[j]]
    /\ call' = Woken({j \in js \cap Stubborn : Alive(j)})

(* The agent was cancelled and is idle; its scope begins to unload.        *)
Dispose(a) ==
    /\ agent[a].phase = "live" /\ ~agent[a].running
    /\ agent' = [agent EXCEPT ![a] =
          [NewAgent EXCEPT !.phase = "unloading", !.attached = agent[a].attached]]
    /\ UNCHANGED <<service, job, call>>

(* The scope's disposers run, among them the owner's cleanup.              *)
Cleanup(a) ==
    /\ agent[a].phase = "unloading"
    /\ LET js == IF agent[a].attached THEN Owned(a) ELSE {}
       IN  /\ CancelForTeardown(js)
           /\ agent' = [agent EXCEPT ![a].phase = "draining", ![a].attached = FALSE,
                                     ![a].draining = js]
    /\ UNCHANGED service

(* disposeOwned resumes once every job it saw has settled.                 *)
Drained(a) ==
    /\ agent[a].phase = "draining"
    /\ \A j \in agent[a].draining : Ended(j)
    /\ job' = [j \in Jobs |->
          IF j \in agent[a].draining THEN [job[j] EXCEPT !.stored = FALSE] ELSE job[j]]
    /\ agent' = [agent EXCEPT ![a].phase = "gone", ![a].draining = {}]
    /\ UNCHANGED <<service, call>>

(* disposeAll. Nobody finds the service from here on.                      *)
Close ==
    /\ service = "up"
    /\ service' = "closing"
    /\ CancelForTeardown({j \in Jobs : Stored(j)})
    /\ UNCHANGED agent

Down ==
    /\ service = "closing"
    /\ \A j \in Jobs : Stored(j) => Ended(j)
    /\ service' = "down"
    /\ job' = [j \in Jobs |-> [job[j] EXCEPT !.stored = FALSE]]
    /\ agent' = [a \in Owners |-> [agent[a] EXCEPT !.attached = FALSE]]
    /\ UNCHANGED call

-----------------------------------------------------------------------------
Init ==
    /\ service = "up"
    /\ job = [j \in Jobs |-> NoJob]
    /\ agent = [a \in Owners |-> NewAgent]
    /\ call = [c \in Calls |-> NoCallYet]

Next ==
    \/ \E j \in Jobs : Finish(j) \/ Settle(j) \/ \E o \in Owners \cup {Nobody} : Start(j, o)
    \/ \E c \in Calls, a \in Owners, j \in Jobs : Output(c, a, j) \/ Wait(c, a, j) \/ Kill(c, a, j)
    \/ \E c \in Calls : Timeout(c) \/ Resume(c) \/ ReadAfterWait(c) \/ Return(c)
    \/ \E a \in Owners : Wake(a) \/ Claim(a) \/ Rest(a) \/ Cancel(a)
    \/ \E a \in Owners : Dispose(a) \/ Cleanup(a) \/ Drained(a)
    \/ Close \/ Down

Spec == Init /\ [][Next]_vars

(* Continuations run, and a producer whose cancel returned settles in the  *)
(* end, as JobHooks asks of it. Nothing else is assumed to happen.         *)
Fairness ==
    /\ \A a \in Owners : WF_vars(Cleanup(a)) /\ WF_vars(Drained(a))
    /\ \A j \in Jobs : WF_vars(Settle(j)) /\ WF_vars(job[j].work = "winding" /\ Finish(j))
    /\ WF_vars(Down)

FairSpec == Spec /\ Fairness

-----------------------------------------------------------------------------
JobType ==
    [owner : Owners \cup {Nobody}, status : {"none"} \cup Live \cup Terminal,
     reported : BOOLEAN, noticed : BOOLEAN, stored : BOOLEAN,
     waiters : SUBSET Calls, waiting : SUBSET Calls,
     work : {"none", "busy", "winding", "released"} \cup Terminal]

AgentType ==
    [phase : {"live", "unloading", "draining", "gone"}, attached : BOOLEAN,
     running : BOOLEAN, cut : BOOLEAN, spent : 0 .. Budget, notices : SUBSET Jobs,
     heard : SUBSET Jobs, lost : SUBSET Jobs, left : SUBSET Jobs, draining : SUBSET Jobs]

CallType ==
    [pc : {"idle", "waiting", "woken", "reading", "returned"}, by : Owners \cup {Nobody},
     job : Jobs \cup {NoCall}, cut : BOOLEAN, ended : BOOLEAN]

WaitersCounted ==
    \A j \in Jobs, c \in Calls :
        /\ c \in job[j].waiting <=> call[c].pc = "waiting" /\ call[c].job = j
        /\ c \in job[j].waiters <=> call[c].pc \in {"waiting", "woken"} /\ call[c].job = j

(* The state stays within its types, and who still waits is counted.       *)
TypeOK ==
    /\ service \in {"up", "closing", "down"}
    /\ job \in [Jobs -> JobType]
    /\ agent \in [Owners -> AgentType]
    /\ call \in [Calls -> CallType]
    /\ WaitersCounted

(* A call that will tell its agent of the completion of j.                 *)
Carries(c, j) ==
    /\ call[c].job = j /\ call[c].by = job[j].owner
    /\ call[c].pc \in {"woken", "reading"} \/ (call[c].pc = "returned" /\ call[c].ended)

(* A notice of j that waits for the owner: an idle one has it only when    *)
(* its wakes are spent, or its driver ended over it.                       *)
Delivered(j, a) ==
    /\ j \in agent[a].notices
    /\ agent[a].running \/ agent[a].spent = Budget \/ j \in agent[a].left

(* No completion is lost between the ways of learning of it: of every job  *)
(* that has ended, a living owner has heard, or is about to (a notice, a   *)
(* call under way), or it had the news in a step that was cut short. Guards*)
(* the `reported` flag, the count of waiters and the choice between waking *)
(* and injecting (settle, wait, read, kill, the completion listener)       *)
(* against each other. That a pending notice is claimed in time it does    *)
(* not say: the driver may end over it.                                    *)
CompletionIsHeard ==
    \A j \in Jobs :
        LET a == job[j].owner
        IN  service = "up" /\ a \in Owners /\ Ended(j) /\ agent[a].phase = "live" =>
                \/ Delivered(j, a)
                \/ j \in agent[a].heard \cup agent[a].lost
                \/ \E c \in Calls : Carries(c, j)

(* When an owner, or the service, is gone, so are its records, and no work *)
(* is left running behind them except where its cancel threw. Not even the *)
(* work of a start that races the teardown (ensureOwnerCleanup).           *)
NothingOutlivesItsOwner ==
    \A j \in Jobs :
        /\ job[j].status # "none"
        /\ service = "down" \/ (job[j].owner \in Owners /\ agent[job[j].owner].phase = "gone")
        => ~Stored(j) /\ (job[j].work \notin {"busy", "winding"} \/ j \in Stubborn)

(* Every record keeps the promise of DshJobRecord, whatever overlaps: kill,*)
(* waits, reads, a late outcome after a forced one, and two teardowns.     *)
Record ==
    INSTANCE DshJobRecord WITH
        status   <- [j \in Jobs |-> job[j].status],
        reported <- [j \in Jobs |-> job[j].reported],
        noticed  <- [j \in Jobs |-> job[j].noticed]
KeepsRecord == Record!Spec

(* A teardown comes to an end, although producers may be slow or refuse    *)
(* (cancelForTeardown forces what cannot be cancelled).                    *)
DisposalEnds ==
    /\ \A a \in Owners : agent[a].phase = "unloading" ~> agent[a].phase = "gone"
    /\ service = "closing" ~> service = "down"
==============================================================================
