---------------------------- MODULE DshJobsProofs ----------------------------
(***************************************************************************)
(* Proofs about background jobs for any number of jobs, owners and calls,   *)
(* any limit and any budget.  The inductive invariant joins the types and   *)
(* CompletionIsHeard with four parts: for whom each call was made (Callers),*)
(* what the fields of a record say of one another (Records), that a scope   *)
(* with a job in it keeps the cleanup that drains it (Scopes), and that a   *)
(* report claimed before the end was claimed by somebody told (Claims).     *)
(***************************************************************************)
EXTENDS DshJobs, TLAPS

(* A call under way was made by an agent, of a record it may access.        *)
Callers ==
    \A c \in Calls : call[c].pc # "idle" =>
        /\ call[c].by \in Owners /\ call[c].job \in Jobs
        /\ job[call[c].job].owner \in {Nobody, call[c].by}
        /\ job[call[c].job].status # "none"

GoneOwner(o) == o \in Owners /\ agent[o].phase = "gone"

(* What a record's fields say of one another.                               *)
RecordOf(j) ==
    /\ job[j].status = "none" => job[j].work = "none" /\ ~Stored(j)
    /\ Alive(j) => Stored(j) /\ ~job[j].noticed
    /\ Ended(j) /\ j \notin Stubborn => job[j].work \notin {"busy", "winding"}
    /\ Ended(j) /\ ~Stored(j) => service = "down" \/ GoneOwner(job[j].owner)

Records == \A j \in Jobs : RecordOf(j)

(* A scope with a job in it still has the cleanup that will drain it.       *)
ScopeOf(a) ==
    /\ agent[a].phase \in {"live", "unloading"} /\ ~agent[a].attached => Owned(a) = {}
    /\ agent[a].phase = "draining" => ~agent[a].attached /\ Owned(a) \subseteq agent[a].draining
    /\ agent[a].phase = "gone" => Owned(a) = {}
    /\ \A j \in agent[a].draining :
          job[j].owner = a /\ job[j].status # "none" /\ agent[a].phase = "draining"

Scopes ==
    /\ service = "down" => \A j \in Jobs : ~Stored(j)
    /\ \A a \in Owners : ScopeOf(a)

(* The owner who stopped a job was told so by the call that did it.         *)
Claims ==
    \A j \in Jobs :
        LET a == job[j].owner
        IN  service = "up" /\ a \in Owners /\ Alive(j) /\ job[j].reported
            /\ agent[a].phase = "live" => j \in agent[a].heard

IInv == TypeOK /\ Callers /\ Records /\ Scopes /\ Claims /\ CompletionIsHeard

----------------------------------------------------------------------------
(* What the operations on one record, one agent and the calls return.       *)

LEMMA SettledFacts ==
    ASSUME NEW r \in JobType, NEW s \in Terminal
    PROVE  /\ Settled(r, s) \in JobType
           /\ Settled(r, s).status = s
           /\ Settled(r, s).owner = r.owner /\ Settled(r, s).stored = r.stored
           /\ Settled(r, s).work = r.work
           /\ Settled(r, s).waiters = r.waiters /\ Settled(r, s).waiting = {}
           /\ Settled(r, s).reported = (r.reported \/ r.waiters # {})
           /\ Settled(r, s).noticed = ~Settled(r, s).reported
  BY DEF Settled, JobType

LEMMA ReadFacts ==
    ASSUME NEW r \in JobType
    PROVE  /\ Read(r) \in JobType
           /\ Read(r).status = r.status /\ Read(r).owner = r.owner /\ Read(r).stored = r.stored
           /\ Read(r).work = r.work /\ Read(r).noticed = r.noticed
           /\ Read(r).waiters = r.waiters /\ Read(r).waiting = r.waiting
           /\ Read(r).reported = (r.reported \/ r.status \in Terminal)
  BY DEF Read, JobType, Terminal

LEMMA CancelFacts ==
    ASSUME NEW r \in JobType
    PROVE  LET s == [CancelWork(r) EXCEPT !.status = "stopping", !.reported = TRUE]
           IN  /\ s \in JobType
               /\ s.status = "stopping" /\ s.reported
               /\ s.owner = r.owner /\ s.stored = r.stored /\ s.noticed = r.noticed
               /\ s.waiters = r.waiters /\ s.waiting = r.waiting
  BY DEF CancelWork, JobType, Live

\* A cancel that throws settles the record as failed; the others wait.
LEMMA TornDownFacts ==
    ASSUME job \in [Jobs -> JobType], NEW j \in Jobs
    PROVE  /\ TornDown(j) \in JobType
           /\ TornDown(j).owner = job[j].owner /\ TornDown(j).stored = job[j].stored
           /\ TornDown(j).waiters = job[j].waiters
           /\ ~Alive(j) => TornDown(j) = job[j]
           /\ Alive(j) /\ j \in Stubborn =>
                /\ TornDown(j).status = "failed" /\ TornDown(j).waiting = {}
                /\ TornDown(j).reported /\ ~TornDown(j).noticed
           /\ Alive(j) /\ j \notin Stubborn =>
                /\ TornDown(j).status = "stopping" /\ TornDown(j).waiting = job[j].waiting
                /\ TornDown(j).reported /\ TornDown(j).noticed = job[j].noticed
  <1> DEFINE told == [job[j] EXCEPT !.reported = TRUE]
  <1>1. /\ told \in JobType /\ told.owner = job[j].owner /\ told.stored = job[j].stored
        /\ told.waiters = job[j].waiters /\ told.waiting = job[j].waiting
        /\ told.reported /\ told.noticed = job[j].noticed
    BY DEF JobType
  <1>2. CASE ~Alive(j)
    BY <1>2 DEF TornDown
  <1>3. CASE Alive(j) /\ j \in Stubborn
    <2>1. TornDown(j) = Settled(told, "failed")
      BY <1>3 DEF TornDown
    <2>2. "failed" \in Terminal
      BY DEF Terminal
    <2> HIDE DEF told
    <2>3. TornDown(j) \in JobType /\ TornDown(j) = Settled(told, "failed")
      BY <1>1, <2>1, <2>2, SettledFacts
    <2>4. /\ TornDown(j).owner = told.owner /\ TornDown(j).stored = told.stored
          /\ TornDown(j).waiters = told.waiters /\ TornDown(j).waiting = {}
          /\ TornDown(j).status = "failed"
          /\ TornDown(j).reported = (told.reported \/ told.waiters # {})
          /\ TornDown(j).noticed = ~TornDown(j).reported
      BY <1>1, <2>1, <2>2, SettledFacts
    <2>5. QED
      BY <1>1, <1>3, <2>3, <2>4
  <1>4. CASE Alive(j) /\ j \notin Stubborn
    <2>1. TornDown(j) = [CancelWork(told) EXCEPT !.status = "stopping"]
      BY <1>4 DEF TornDown
    <2> HIDE DEF told
    <2>2. QED
      BY <1>1, <1>4, <2>1 DEF CancelWork, JobType, Live
  <1>5. QED
    BY <1>2, <1>3, <1>4

\* A notice reaches a living agent; an idle one is woken unless its budget
\* is spent.
LEMMA NotifiedFacts ==
    ASSUME NEW ag \in AgentType, NEW js \in SUBSET Jobs
    PROVE  LET n == Notified(ag, js)
           IN  /\ n \in AgentType
               /\ n.phase = ag.phase /\ n.attached = ag.attached /\ n.cut = ag.cut
               /\ n.heard = ag.heard /\ n.lost = ag.lost /\ n.left = ag.left
               /\ n.draining = ag.draining
               /\ ag.notices \subseteq n.notices
               /\ ag.running => n.running
               /\ n.spent = ag.spent \/ n.running
               /\ js # {} /\ ag.phase = "live" =>
                    js \subseteq n.notices /\ (n.running \/ n.spent = Budget)
  <1>1. CASE js = {} \/ ag.phase # "live"
    BY <1>1 DEF Notified
  <1>2. CASE js # {} /\ ag.phase = "live" /\ (ag.running \/ ~(ag.spent < Budget))
    <2>1. Notified(ag, js) = [ag EXCEPT !.notices = @ \cup js]
      BY <1>2, LimitsAssumption DEF Notified, AgentType
    <2>2. ag.running \/ ag.spent = Budget
      BY <1>2, LimitsAssumption DEF AgentType
    <2>3. QED
      BY <1>2, <2>1, <2>2 DEF AgentType
  <1>3. CASE js # {} /\ ag.phase = "live" /\ ~ag.running /\ ag.spent < Budget
    <2>1. Notified(ag, js) =
            [ag EXCEPT !.notices = @ \cup js, !.running = TRUE, !.spent = @ + 1]
      BY <1>3 DEF Notified, AgentType
    <2>2. ag.spent + 1 \in 0 .. Budget
      BY <1>3, LimitsAssumption DEF AgentType
    <2>3. Notified(ag, js) \in AgentType
      BY <2>1, <2>2, Zenon DEF AgentType
    <2>4. QED
      BY <1>3, <2>1, <2>3 DEF AgentType
  <1>4. QED
    BY <1>1, <1>2, <1>3

\* Only calls that wait are woken, and keep what they were made for.
LEMMA WokenFacts ==
    ASSUME TypeOK, NEW js \in SUBSET Jobs, NEW c \in Calls
    PROVE  /\ Woken(js)[c] \in CallType
           /\ Woken(js)[c].by = call[c].by /\ Woken(js)[c].job = call[c].job
           /\ Woken(js)[c].ended = call[c].ended
           /\ call[c].pc = "waiting" /\ call[c].job \in js => Woken(js)[c].pc = "woken"
           /\ ~(call[c].pc = "waiting" /\ call[c].job \in js) => Woken(js)[c] = call[c]
  <1>1. (\E j \in js : c \in job[j].waiting) <=> call[c].pc = "waiting" /\ call[c].job \in js
    BY DEF TypeOK, WaitersCounted
  <1>2. Woken(js)[c] = IF call[c].pc = "waiting" /\ call[c].job \in js
                       THEN [call[c] EXCEPT !.pc = "woken"] ELSE call[c]
    BY <1>1 DEF Woken
  <1>3. QED
    BY <1>2 DEF TypeOK, CallType

----------------------------------------------------------------------------
LEMMA InitInv == Init => IInv
  <1> SUFFICES ASSUME Init PROVE IInv
    OBVIOUS
  <1>1. TypeOK
    BY LimitsAssumption DEF Init, TypeOK, WaitersCounted, NoJob, NewAgent, NoCallYet, JobType,
       AgentType, CallType, Live, Terminal
  <1>2. QED
    BY <1>1, Zenon DEF Init, IInv, Callers, Records, RecordOf, Scopes, ScopeOf, Claims,
       CompletionIsHeard, NoJob, NewAgent, NoCallYet, Alive, Ended, Stored, Owned, Live,
       Terminal

\* A start: no other record is touched, and the owner's scope has its cleanup.
LEMMA StartKeeps ==
    ASSUME IInv, NEW j \in Jobs, NEW o \in Owners \cup {Nobody}, Start(j, o)
    PROVE  IInv'
  <1>0. TypeOK /\ Callers /\ Records /\ Scopes /\ Claims /\ CompletionIsHeard
    BY DEF IInv
  <1>1. /\ job' = [job EXCEPT ![j] = [NoJob EXCEPT !.owner = o, !.status = "running", !.stored = TRUE, !.work = "busy"]]
        /\ service' = "up" /\ service = "up" /\ call' = call /\ job[j].status = "none"
    BY DEF Start, Admits
  <1>2. TypeOK'
    <2>1. job' \in [Jobs -> JobType]
      BY <1>0, <1>1 DEF TypeOK, NoJob, JobType, Live
    <2>2. agent' \in [Owners -> AgentType]
      <3>1. CASE o \in Owners
        <4>1. agent' = [agent EXCEPT ![o] = [agent[o] EXCEPT !.attached = TRUE]]
          BY <3>1 DEF Start
        <4>2. [agent[o] EXCEPT !.attached = TRUE] \in AgentType
          <5>1. agent[o] \in AgentType
            BY <1>0, <3>1 DEF TypeOK
          <5>2. QED
            BY <5>1, Zenon DEF AgentType
        <4>3. QED
          BY <1>0, <4>1, <4>2, <3>1 DEF TypeOK
      <3>2. CASE o \notin Owners
        BY <1>0, <3>2 DEF TypeOK, Start
      <3>3. QED
        BY <3>1, <3>2
    <2>3. WaitersCounted'
      BY <1>0, <1>1 DEF TypeOK, WaitersCounted, NoJob, JobType, Callers
    <2>4. QED
      BY <1>0, <1>1, <2>1, <2>2, <2>3 DEF TypeOK
  <1>3. Callers'
    BY <1>0, <1>1 DEF TypeOK, Callers
  <1>4. Records'
    BY <1>0, <1>1 DEF TypeOK, Records, RecordOf, NoJob, Alive, Ended, Stored, Live, Terminal,
       GoneOwner, Start, AgentType
  <1>5. Scopes'
    BY <1>0, <1>1 DEF TypeOK, Scopes, ScopeOf, NoJob, Stored, Owned, Start, AgentType, Admits
  <1>6. Claims'
    BY <1>0, <1>1 DEF TypeOK, Claims, NoJob, Alive, Live, Start, AgentType
  <1>7. CompletionIsHeard'
    BY <1>0, <1>1 DEF TypeOK, CompletionIsHeard, NoJob, Ended, Terminal, Start, AgentType,
       Delivered, Carries
  <1>8. QED
    BY <1>2, <1>3, <1>4, <1>5, <1>6, <1>7 DEF IInv
----------------------------------------------------------------------------
(* Most steps leave every record's owner, status and place in the registry  *)
(* alone, and claim no report but that of a job which has ended.            *)

Unmoved ==
    \A k \in Jobs :
        /\ job'[k].owner = job[k].owner /\ job'[k].status = job[k].status
        /\ job'[k].stored = job[k].stored /\ job'[k].noticed = job[k].noticed
        /\ job'[k].reported => job[k].reported \/ Ended(k)
        /\ job'[k].work = job[k].work \/ (job[k].work # "none" /\ job'[k].work \in Terminal \cup {"released"})

SamePlace ==
    \A a \in Owners :
        /\ agent'[a].phase = agent[a].phase /\ agent'[a].attached = agent[a].attached
        /\ agent'[a].draining = agent[a].draining /\ agent[a].heard \subseteq agent'[a].heard

LEMMA UnmovedKeeps ==
    ASSUME IInv, Unmoved, SamePlace, service' = service
    PROVE  Records' /\ Scopes' /\ Claims'
  <1>0. Records /\ Scopes /\ Claims
    BY DEF IInv
  <1>1. \A k \in Jobs : /\ Ended(k)' <=> Ended(k)
                        /\ Alive(k)' <=> Alive(k)
                        /\ Stored(k)' <=> Stored(k)
    BY DEF Unmoved, Ended, Alive, Stored
  <1>2. \A a \in Owners : Owned(a)' = Owned(a)
    BY <1>1 DEF Unmoved, Owned
  <1>3. \A k \in Jobs : GoneOwner(job[k].owner) => GoneOwner(job[k].owner)'
    BY DEF SamePlace, GoneOwner, Unmoved
  <1>4. Records'
    BY <1>0, <1>1, <1>3 DEF Records, RecordOf, Unmoved, Terminal
  <1>5. Scopes'
    <2>1. (service = "down" => \A j \in Jobs : ~Stored(j))'
      BY <1>0, <1>1 DEF Scopes, ScopeOf
    <2>2. ASSUME NEW a \in Owners
          PROVE  /\ agent'[a].phase \in {"live", "unloading"} /\ ~agent'[a].attached => Owned(a)' = {}
                 /\ agent'[a].phase = "draining" =>
                        ~agent'[a].attached /\ Owned(a)' \subseteq agent'[a].draining
                 /\ agent'[a].phase = "gone" => Owned(a)' = {}
      BY <1>0, <1>2 DEF Scopes, ScopeOf, SamePlace
    <2>3. ASSUME NEW a \in Owners, NEW j \in agent'[a].draining
          PROVE  job'[j].owner = a /\ job'[j].status # "none" /\ agent'[a].phase = "draining"
      <3>1. j \in agent[a].draining /\ j \in Jobs
        BY DEF SamePlace, IInv, TypeOK, AgentType
      <3>2. QED
        BY <1>0, <3>1 DEF Scopes, ScopeOf, SamePlace, Unmoved
    <2>4. QED
      BY <2>1, <2>2, <2>3 DEF Scopes, ScopeOf
  <1>6. Claims'
    BY <1>0, <1>1 DEF Claims, Unmoved, SamePlace, Alive, Ended, Live, Terminal
  <1>7. QED
    BY <1>4, <1>5, <1>6

\* The news of a completion on its way to a, or already there.
News(k, a) == Delivered(k, a) \/ k \in agent[a].heard \cup agent[a].lost

LEMMA NewsKept ==
    ASSUME IInv, Unmoved, SamePlace, service' = service,
           \A a \in Owners, k \in Jobs : News(k, a) => News(k, a)',
           \A c \in Calls, k \in Jobs :
              /\ Carries(c, k) /\ Ended(k) /\ service = "up"
              /\ job[k].owner \in Owners /\ agent[job[k].owner].phase = "live"
              => Carries(c, k)' \/ News(k, job[k].owner)'
    PROVE  CompletionIsHeard'
  <1> SUFFICES ASSUME NEW k \in Jobs, service' = "up", job'[k].owner \in Owners, Ended(k)',
                      agent'[job'[k].owner].phase = "live"
               PROVE  News(k, job[k].owner)' \/ \E c \in Calls : Carries(c, k)'
    BY DEF CompletionIsHeard, News, Delivered
  <1>1. /\ service = "up" /\ job[k].owner \in Owners /\ Ended(k)
        /\ agent[job[k].owner].phase = "live" /\ job'[k].owner = job[k].owner
    BY DEF Unmoved, SamePlace, Ended
  <1>2. News(k, job[k].owner) \/ \E c \in Calls : Carries(c, k)
    BY <1>1 DEF IInv, CompletionIsHeard, News
  <1>3. QED
    BY <1>1, <1>2

----------------------------------------------------------------------------
(* The calls.                                                               *)

\* A call that is made is of the agent's step and of a record it may access.
LEMMA MadeFacts ==
    ASSUME IInv, NEW c \in Calls, NEW a \in Owners, NEW j \in Jobs, Calling(c, a, j),
           NEW pc \in {"waiting", "reading", "returned"}, NEW ended \in BOOLEAN,
           Made(c, a, j, pc, ended)
    PROVE  /\ call' \in [Calls -> CallType]
           /\ call'[c].pc = pc /\ call'[c].by = a /\ call'[c].job = j
           /\ call'[c].ended = ended
           /\ \A d \in Calls \ {c} : call'[d] = call[d]
           /\ call[c].pc = "idle"
           /\ service = "up" /\ agent[a].phase = "live" /\ Stored(j) /\ job[j].status # "none"
           /\ job[j].owner \in {Nobody, a}
  <1>1. call' = [call EXCEPT ![c] = [NoCallYet EXCEPT !.pc = pc, !.by = a, !.job = j, !.ended = ended]]
    BY DEF Made
  <1>2. LET new == [NoCallYet EXCEPT !.pc = pc, !.by = a, !.job = j, !.ended = ended]
        IN  /\ new \in CallType
            /\ new.pc = pc /\ new.by = a /\ new.job = j /\ new.ended = ended
    BY DEF NoCallYet, CallType
  <1>3. call \in [Calls -> CallType] /\ Records
    BY DEF IInv, TypeOK
  <1>4. call' \in [Calls -> CallType]
    BY <1>1, <1>2, <1>3
  <1>5. QED
    BY <1>1, <1>2, <1>3, <1>4 DEF Calling, May, Stored, Records, RecordOf

LEMMA OutputKeeps ==
    ASSUME IInv, NEW c \in Calls, NEW a \in Owners, NEW j \in Jobs, Output(c, a, j)
    PROVE  IInv'
  <1>0. /\ TypeOK /\ Callers /\ job \in [Jobs -> JobType] /\ job[j] \in JobType
    BY DEF IInv, TypeOK
  <1>1. /\ Calling(c, a, j) /\ Made(c, a, j, "returned", Ended(j))
        /\ job' = [job EXCEPT ![j] = Read(job[j])] /\ UNCHANGED <<service, agent>>
    BY DEF Output
  <1>2. Ended(j) \in BOOLEAN
    BY DEF Ended
  <1>3. /\ call' \in [Calls -> CallType]
        /\ call'[c].pc = "returned" /\ call'[c].by = a /\ call'[c].job = j
        /\ \A d \in Calls \ {c} : call'[d] = call[d]
        /\ call[c].pc = "idle" /\ job[j].owner \in {Nobody, a} /\ job[j].status # "none"
    BY <1>1, <1>2, MadeFacts
  <1>4. /\ job' \in [Jobs -> JobType]
        /\ \A k \in Jobs : job'[k].waiting = job[k].waiting /\ job'[k].waiters = job[k].waiters
    BY <1>0, <1>1, ReadFacts
  <1>5. Unmoved
    BY <1>0, <1>1, ReadFacts DEF Unmoved, Ended
  <1>6. TypeOK'
    BY <1>0, <1>1, <1>3, <1>4 DEF TypeOK, WaitersCounted
  <1>7. Callers'
    BY <1>0, <1>3, <1>5 DEF Callers, Unmoved
  <1>8. SamePlace
    BY <1>1 DEF SamePlace
  <1>9. CompletionIsHeard'
    BY <1>1, <1>3, <1>5, <1>8, NewsKept DEF News, Delivered, Carries, Unmoved
  <1>10. QED
    BY <1>1, <1>5, <1>6, <1>7, <1>8, <1>9, UnmovedKeeps DEF IInv

LEMMA WaitKeeps ==
    ASSUME IInv, NEW c \in Calls, NEW a \in Owners, NEW j \in Jobs, Wait(c, a, j)
    PROVE  IInv'
  <1>0. /\ TypeOK /\ Callers /\ job \in [Jobs -> JobType] /\ job[j] \in JobType
    BY DEF IInv, TypeOK
  <1>1. PICK pc \in {"waiting", "reading"}, ended \in BOOLEAN :
          /\ Calling(c, a, j) /\ Made(c, a, j, pc, ended) /\ UNCHANGED <<service, agent>>
          /\ pc = "reading" => job' = [job EXCEPT ![j] = Read(job[j])]
          /\ pc = "waiting" => job' = [job EXCEPT ![j].waiters = @ \cup {c},
                                                  ![j].waiting = @ \cup {c}]
    BY DEF Wait
  <1>2. /\ call' \in [Calls -> CallType]
        /\ call'[c].pc = pc /\ call'[c].by = a /\ call'[c].job = j
        /\ \A d \in Calls \ {c} : call'[d] = call[d]
        /\ call[c].pc = "idle" /\ job[j].owner \in {Nobody, a} /\ job[j].status # "none"
    BY <1>1, MadeFacts
  <1>3. /\ job' \in [Jobs -> JobType] /\ Unmoved
        /\ \A k \in Jobs \ {j} : job'[k] = job[k]
        /\ job'[j].waiting = IF pc = "waiting" THEN job[j].waiting \cup {c} ELSE job[j].waiting
        /\ job'[j].waiters = IF pc = "waiting" THEN job[j].waiters \cup {c} ELSE job[j].waiters
    <2>1. CASE pc = "reading"
      <3>1. job' = [job EXCEPT ![j] = Read(job[j])]
        BY <1>1, <2>1
      <3>2. QED
        BY <1>0, <2>1, <3>1, ReadFacts DEF Unmoved, Ended
    <2>2. CASE pc = "waiting"
      BY <1>0, <1>1, <2>2 DEF Unmoved, JobType
    <2>3. QED
      BY <2>1, <2>2
  <1>4. TypeOK'
    BY <1>0, <1>1, <1>2, <1>3 DEF TypeOK, WaitersCounted
  <1>5. Callers'
    BY <1>0, <1>2, <1>3 DEF Callers, Unmoved
  <1>6. SamePlace
    BY <1>1 DEF SamePlace
  <1>7. CompletionIsHeard'
    BY <1>1, <1>2, <1>3, <1>6, NewsKept DEF News, Delivered, Carries, Unmoved
  <1>8. QED
    BY <1>1, <1>3, <1>4, <1>5, <1>6, <1>7, UnmovedKeeps DEF IInv

LEMMA TimeoutKeeps ==
    ASSUME IInv, NEW c \in Calls, Timeout(c)
    PROVE  IInv'
  <1> DEFINE j == call[c].job
  <1>0. TypeOK /\ Callers /\ j \in Jobs
    BY DEF IInv, Callers, Timeout
  <1>1. /\ call[c].pc = "waiting" /\ call' = [call EXCEPT ![c].pc = "woken"]
        /\ job' = [job EXCEPT ![j].waiting = @ \ {c}] /\ UNCHANGED <<service, agent>>
    BY DEF Timeout
  <1> HIDE DEF j
  <1>2. job' \in [Jobs -> JobType] /\ Unmoved
    BY <1>0, <1>1 DEF TypeOK, Unmoved, JobType
  <1>3. /\ call' \in [Calls -> CallType] /\ call'[c].pc = "woken"
        /\ call'[c].by = call[c].by /\ call'[c].job = call[c].job
        /\ \A d \in Calls \ {c} : call'[d] = call[d]
    BY <1>0, <1>1 DEF TypeOK, CallType
  <1>4. TypeOK'
    BY <1>0, <1>1, <1>2, <1>3 DEF TypeOK, WaitersCounted, JobType, j
  <1>5. Callers'
    BY <1>0, <1>1, <1>2, <1>3 DEF Callers, Unmoved
  <1>6. SamePlace
    BY <1>1 DEF SamePlace
  <1>7. CompletionIsHeard'
    BY <1>1, <1>2, <1>3, <1>6, NewsKept DEF News, Delivered, Carries, Unmoved
  <1>8. QED
    BY <1>1, <1>2, <1>4, <1>5, <1>6, <1>7, UnmovedKeeps DEF IInv

LEMMA ResumeKeeps ==
    ASSUME IInv, NEW c \in Calls, Resume(c)
    PROVE  IInv'
  <1> DEFINE j == call[c].job
  <1>0. TypeOK /\ Callers /\ j \in Jobs /\ job[j] \in JobType
    BY DEF IInv, Callers, Resume, TypeOK
  <1>1. /\ call[c].pc = "woken" /\ call' = [call EXCEPT ![c].pc = "reading"]
        /\ job' = [job EXCEPT ![j] = [Read(job[j]) EXCEPT !.waiters = job[j].waiters \ {c}]]
        /\ UNCHANGED <<service, agent>>
    BY DEF Resume
  <1> HIDE DEF j
  <1> DEFINE read == Read(job[j])
             new == [read EXCEPT !.waiters = job[j].waiters \ {c}]
  <1>2. /\ read \in JobType /\ read.waiters = job[j].waiters /\ read.waiting = job[j].waiting
        /\ read.status = job[j].status /\ read.owner = job[j].owner
        /\ read.stored = job[j].stored /\ read.work = job[j].work
        /\ read.noticed = job[j].noticed
        /\ read.reported = (job[j].reported \/ job[j].status \in Terminal)
    BY <1>0, ReadFacts
  <1> HIDE DEF read
  <1>3. /\ new \in JobType /\ new.waiters = job[j].waiters \ {c}
        /\ new.waiting = job[j].waiting /\ new.status = job[j].status
        /\ new.owner = job[j].owner /\ new.stored = job[j].stored
        /\ new.work = job[j].work /\ new.noticed = job[j].noticed
        /\ new.reported => job[j].reported \/ Ended(j)
    BY <1>2 DEF JobType, Ended
  <1>4. job' = [job EXCEPT ![j] = new]
    BY <1>1 DEF read
  <1> HIDE DEF new
  <1>5. job' \in [Jobs -> JobType] /\ Unmoved
    BY <1>0, <1>3, <1>4 DEF TypeOK, Unmoved
  <1>6. /\ call' \in [Calls -> CallType] /\ call'[c].pc = "reading"
        /\ call'[c].by = call[c].by /\ call'[c].job = call[c].job
        /\ \A d \in Calls \ {c} : call'[d] = call[d]
    BY <1>0, <1>1 DEF TypeOK, CallType
  <1>7. TypeOK'
    <2>1. \A k \in Jobs \ {j} : job'[k] = job[k]
      BY <1>0, <1>4 DEF TypeOK
    <2>2. job'[j].waiting = job[j].waiting /\ job'[j].waiters = job[j].waiters \ {c}
      BY <1>0, <1>3, <1>4 DEF TypeOK
    <2>3. WaitersCounted'
      BY <1>0, <1>1, <1>6, <2>1, <2>2 DEF TypeOK, WaitersCounted, j
    <2>4. QED
      BY <1>0, <1>1, <1>5, <1>6, <2>3 DEF TypeOK
  <1>8. Callers'
    BY <1>0, <1>1, <1>5, <1>6 DEF Callers, Unmoved
  <1>9. SamePlace
    BY <1>1 DEF SamePlace
  <1>10. CompletionIsHeard'
    BY <1>1, <1>5, <1>6, <1>9, NewsKept DEF News, Delivered, Carries, Unmoved
  <1>11. QED
    BY <1>1, <1>5, <1>7, <1>8, <1>9, <1>10, UnmovedKeeps DEF IInv

LEMMA ReadAfterWaitKeeps ==
    ASSUME IInv, NEW c \in Calls, ReadAfterWait(c)
    PROVE  IInv'
  <1> DEFINE j == call[c].job
  <1>0. /\ TypeOK /\ Callers /\ Records /\ j \in Jobs /\ job[j] \in JobType
        /\ call[c].pc = "reading" /\ UNCHANGED <<service, agent>>
        /\ job[j].owner \in {Nobody, call[c].by} /\ job[j].status # "none"
    BY DEF IInv, Callers, ReadAfterWait, TypeOK
  <1>1. CASE ~May(call[c].by, j)
    <2>1. job' = job /\ call' = [call EXCEPT ![c] = NoCallYet]
      BY <1>1 DEF ReadAfterWait
    <2>2. Ended(j) /\ (service = "down" \/ GoneOwner(job[j].owner))
      BY <1>0, <1>1 DEF Records, RecordOf, May, TypeOK, JobType, Alive, Ended, Live, Terminal
    <2> HIDE DEF j
    <2>3. Unmoved /\ SamePlace
      BY <1>0, <2>1 DEF Unmoved, SamePlace
    <2>4. NoCallYet \in CallType /\ NoCallYet.pc = "idle"
      BY DEF NoCallYet, CallType
    <2>5. /\ call' \in [Calls -> CallType] /\ call'[c].pc = "idle"
          /\ \A d \in Calls \ {c} : call'[d] = call[d]
      BY <1>0, <2>1, <2>4 DEF TypeOK
    <2>6. TypeOK'
      BY <1>0, <2>1, <2>5 DEF TypeOK, WaitersCounted
    <2>7. Callers'
      BY <1>0, <2>1, <2>5 DEF Callers
    <2>8. CompletionIsHeard'
      <3>1. ASSUME NEW k \in Jobs, Carries(c, k), service = "up", job[k].owner \in Owners,
                   agent[job[k].owner].phase = "live"
            PROVE  FALSE
        BY <2>2, <3>1 DEF Carries, GoneOwner, j
      <3>2. QED
        BY <1>0, <2>1, <2>3, <2>5, <3>1, NewsKept DEF News, Delivered, Carries
    <2>9. QED
      BY <1>0, <2>3, <2>6, <2>7, <2>8, UnmovedKeeps DEF IInv
  <1>2. CASE May(call[c].by, j)
    <2>1. /\ job' = [job EXCEPT ![j] = Read(job[j])]
          /\ call' = [call EXCEPT ![c].pc = "returned", ![c].ended = Ended(j)]
      BY <1>2 DEF ReadAfterWait
    <2> HIDE DEF j
    <2>2. job' \in [Jobs -> JobType] /\ Unmoved /\ SamePlace
      BY <1>0, <2>1, ReadFacts DEF TypeOK, Unmoved, SamePlace, Ended
    <2>3. \A k \in Jobs : job'[k].waiting = job[k].waiting /\ job'[k].waiters = job[k].waiters
      BY <1>0, <2>1, ReadFacts DEF TypeOK
    <2>4. /\ call' \in [Calls -> CallType] /\ call'[c].pc = "returned"
          /\ call'[c].by = call[c].by /\ call'[c].job = call[c].job /\ call'[c].ended = Ended(j)
          /\ \A d \in Calls \ {c} : call'[d] = call[d]
      <3>1. Ended(j) \in BOOLEAN
        BY DEF Ended
      <3>2. QED
        BY <1>0, <2>1, <3>1 DEF TypeOK, CallType
    <2>5. TypeOK'
      BY <1>0, <2>2, <2>3, <2>4 DEF TypeOK, WaitersCounted
    <2>6. Callers'
      BY <1>0, <2>2, <2>4 DEF Callers, Unmoved
    <2>7. CompletionIsHeard'
      BY <1>0, <2>2, <2>4, NewsKept DEF News, Delivered, Carries, Unmoved, j
    <2>8. QED
      BY <1>0, <2>2, <2>5, <2>6, <2>7, UnmovedKeeps DEF IInv
  <1>3. QED
    BY <1>1, <1>2

LEMMA ReturnKeeps ==
    ASSUME IInv, NEW c \in Calls, Return(c)
    PROVE  IInv'
  <1> TypeOK /\ Callers
    BY DEF IInv
  <1>0. PICK a \in Owners, says \in SUBSET Jobs :
          /\ a = call[c].by /\ says = (IF call[c].ended THEN {call[c].job} ELSE {})
          /\ agent[a] \in AgentType
    <2>1. /\ call[c].by \in Owners /\ call[c].job \in Jobs /\ agent[call[c].by] \in AgentType
      BY DEF Callers, Return, TypeOK
    <2>2. (IF call[c].ended THEN {call[c].job} ELSE {}) \in SUBSET Jobs
      BY <2>1
    <2>3. QED
      BY <2>1, <2>2, Zenon
  <1>1. /\ call[c].pc = "returned" /\ UNCHANGED <<service, job>>
        /\ call' = [call EXCEPT ![c] = NoCallYet]
    BY DEF Return
  <1>2. \/ agent' = [agent EXCEPT ![a].lost = @ \cup says]
        \/ agent' = [agent EXCEPT ![a].heard = @ \cup says]
    BY <1>0 DEF Return, Told
  <1>3. /\ agent' \in [Owners -> AgentType] /\ SamePlace
        /\ \A b \in Owners : /\ agent'[b].notices = agent[b].notices
                             /\ agent'[b].running = agent[b].running
                             /\ agent'[b].spent = agent[b].spent
                             /\ agent'[b].left = agent[b].left
                             /\ agent[b].lost \subseteq agent'[b].lost
        /\ says \subseteq agent'[a].heard \cup agent'[a].lost
    <2>1. /\ [agent[a] EXCEPT !.lost = @ \cup says] \in AgentType
          /\ [agent[a] EXCEPT !.heard = @ \cup says] \in AgentType
      BY <1>0 DEF AgentType
    <2>2. CASE agent' = [agent EXCEPT ![a].lost = @ \cup says]
      BY <1>0, <2>1, <2>2 DEF TypeOK, SamePlace, AgentType
    <2>3. CASE agent' = [agent EXCEPT ![a].heard = @ \cup says]
      BY <1>0, <2>1, <2>3 DEF TypeOK, SamePlace, AgentType
    <2>4. QED
      BY <1>2, <2>2, <2>3
  <1>4. NoCallYet \in CallType /\ NoCallYet.pc = "idle"
    BY DEF NoCallYet, CallType
  <1>5. /\ call' \in [Calls -> CallType] /\ call'[c].pc = "idle"
        /\ \A d \in Calls \ {c} : call'[d] = call[d]
    BY <1>0, <1>1, <1>4 DEF TypeOK
  <1>6. TypeOK'
    BY <1>0, <1>1, <1>3, <1>5 DEF TypeOK, WaitersCounted
  <1>7. Callers'
    BY <1>0, <1>1, <1>5 DEF Callers
  <1>8. Unmoved
    BY <1>1 DEF Unmoved
  <1>9. CompletionIsHeard'
    <2>1. \A k \in Jobs : Carries(c, k) => job[k].owner = a /\ k \in says
      BY <1>0, <1>1 DEF Carries
    <2>2. \A b \in Owners, k \in Jobs : News(k, b) => News(k, b)'
      BY <1>3 DEF News, Delivered, SamePlace
    <2>3. \A d \in Calls \ {c}, k \in Jobs : Carries(d, k) => Carries(d, k)'
      BY <1>1, <1>5 DEF Carries
    <2>4. \A k \in says : k \in Jobs => News(k, a)'
      BY <1>3 DEF News
    <2>5. QED
      BY <1>1, <1>3, <1>8, <2>1, <2>2, <2>3, <2>4, NewsKept
  <1>10. QED
    BY <1>1, <1>3, <1>6, <1>7, <1>8, <1>9, UnmovedKeeps DEF IInv

\* A stop asked for by the tool: the job's status, its report and the owner's
\* knowledge change in one step, so nothing is announced later.
LEMMA KillKeeps ==
    ASSUME IInv, NEW c \in Calls, NEW a \in Owners, NEW j \in Jobs, Kill(c, a, j)
    PROVE  IInv'
  <1>0. /\ TypeOK /\ Callers /\ Records /\ Scopes /\ Claims /\ CompletionIsHeard
        /\ job \in [Jobs -> JobType] /\ job[j] \in JobType
        /\ agent \in [Owners -> AgentType] /\ agent[a] \in AgentType
        /\ Calling(c, a, j) /\ service' = service
    BY DEF IInv, TypeOK, Kill
  <1>1. CASE Ended(j)
    <2>1. /\ job' = [job EXCEPT ![j].reported = TRUE] /\ Made(c, a, j, "returned", TRUE)
          /\ agent' = agent
      BY <1>1 DEF Kill
    <2>2. /\ call' \in [Calls -> CallType]
          /\ call'[c].pc = "returned" /\ call'[c].by = a /\ call'[c].job = j
          /\ \A d \in Calls \ {c} : call'[d] = call[d]
          /\ call[c].pc = "idle" /\ job[j].owner \in {Nobody, a} /\ job[j].status # "none"
      BY <1>0, <2>1, MadeFacts
    <2>3. job' \in [Jobs -> JobType] /\ Unmoved /\ SamePlace
      BY <1>0, <1>1, <2>1 DEF JobType, Unmoved, SamePlace
    <2>4. \A k \in Jobs : job'[k].waiting = job[k].waiting /\ job'[k].waiters = job[k].waiters
      BY <1>0, <2>1 DEF JobType
    <2>5. TypeOK'
      BY <1>0, <2>1, <2>2, <2>3, <2>4 DEF TypeOK, WaitersCounted
    <2>6. Callers'
      BY <1>0, <2>2, <2>3 DEF Callers, Unmoved
    <2>7. CompletionIsHeard'
      BY <1>0, <2>1, <2>2, <2>3, NewsKept DEF News, Delivered, Carries, Unmoved
    <2>8. QED
      BY <1>0, <2>3, <2>5, <2>6, <2>7, UnmovedKeeps DEF IInv
  <1>2. CASE ~Ended(j)
    <2> DEFINE new == [CancelWork(job[j]) EXCEPT !.status = "stopping", !.reported = TRUE]
    <2>1. /\ job' = [job EXCEPT ![j] = new] /\ Made(c, a, j, "returned", FALSE)
          /\ agent' = [agent EXCEPT ![a].heard = @ \cup {j}] /\ j \notin Stubborn
      BY <1>2 DEF Kill
    <2>2. /\ new \in JobType /\ new.status = "stopping" /\ new.reported
          /\ new.owner = job[j].owner /\ new.stored = job[j].stored /\ new.noticed = job[j].noticed
          /\ new.waiters = job[j].waiters /\ new.waiting = job[j].waiting
      BY <1>0, CancelFacts
    <2> HIDE DEF new
    <2>3. /\ call' \in [Calls -> CallType]
          /\ call'[c].pc = "returned" /\ call'[c].by = a /\ call'[c].job = j
          /\ \A d \in Calls \ {c} : call'[d] = call[d]
          /\ call[c].pc = "idle" /\ job[j].owner \in {Nobody, a} /\ job[j].status # "none"
          /\ Stored(j)
      <3>1. PICK ended \in BOOLEAN : Made(c, a, j, "returned", ended)
        BY <2>1
      <3>2. QED
        BY <1>0, <3>1, MadeFacts
    <2>4. Alive(j)
      BY <1>0, <1>2, <2>3 DEF JobType, Alive, Ended, Terminal, Live
    <2>5. /\ job' \in [Jobs -> JobType] /\ job'[j] = new
          /\ \A k \in Jobs \ {j} : job'[k] = job[k]
      BY <1>0, <2>1, <2>2
    <2>6. /\ agent' \in [Owners -> AgentType]
          /\ agent'[a].heard = agent[a].heard \cup {j}
          /\ \A b \in Owners :
                /\ agent'[b].phase = agent[b].phase /\ agent'[b].attached = agent[b].attached
                /\ agent'[b].draining = agent[b].draining
                /\ agent'[b].notices = agent[b].notices /\ agent'[b].running = agent[b].running
                /\ agent'[b].spent = agent[b].spent /\ agent'[b].left = agent[b].left
                /\ agent'[b].lost = agent[b].lost /\ agent[b].heard \subseteq agent'[b].heard
      <3>1. [agent[a] EXCEPT !.heard = @ \cup {j}] \in AgentType
        BY <1>0 DEF AgentType
      <3>2. QED
        BY <1>0, <2>1, <3>1 DEF AgentType
    <2>7. TypeOK'
      BY <1>0, <2>2, <2>3, <2>5, <2>6 DEF TypeOK, WaitersCounted
    <2>8. Callers'
      BY <1>0, <2>2, <2>3, <2>5 DEF Callers
    <2>9. Records'
      BY <1>0, <2>2, <2>4, <2>5, <2>6 DEF Records, RecordOf, Alive, Ended, Stored, Live,
         Terminal, GoneOwner
    <2>10. Scopes'
      <3>1. \A b \in Owners : Owned(b)' = Owned(b)
        BY <2>2, <2>5 DEF Owned, Stored
      <3>2. \A k \in Jobs : job'[k].owner = job[k].owner /\ (Stored(k)' <=> Stored(k))
                            /\ (job'[k].status # "none" <=> job[k].status # "none")
        BY <2>2, <2>3, <2>5 DEF Stored
      <3>3. QED
        BY <1>0, <2>6, <3>1, <3>2 DEF Scopes, ScopeOf, TypeOK, AgentType
    <2>11. Claims'
      BY <1>0, <2>2, <2>3, <2>5, <2>6, NobodyAssumption DEF Claims, Alive, Live
    <2>12. CompletionIsHeard'
      <3>1. \A k \in Jobs : Ended(k)' => k # j /\ Ended(k) /\ job'[k] = job[k]
        BY <2>2, <2>5 DEF Ended, Terminal
      <3>2. \A d \in Calls, k \in Jobs : k # j /\ Carries(d, k) => Carries(d, k)'
        BY <2>3, <2>5 DEF Carries
      <3>3. QED
        BY <1>0, <2>6, <3>1, <3>2 DEF CompletionIsHeard, Delivered
    <2>13. QED
      BY <2>7, <2>8, <2>9, <2>10, <2>11, <2>12 DEF IInv
  <1>3. QED
    BY <1>1, <1>2

----------------------------------------------------------------------------
(* The producers.                                                           *)

LEMMA FinishKeeps ==
    ASSUME IInv, NEW j \in Jobs, Finish(j)
    PROVE  IInv'
  <1>0. TypeOK /\ Callers /\ job \in [Jobs -> JobType] /\ UNCHANGED <<service, agent, call>>
    BY DEF IInv, TypeOK, Finish
  <1>1. PICK w \in Terminal : /\ job' = [job EXCEPT ![j].work = w]
                              /\ job[j].work \in {"busy", "winding"}
    BY DEF Finish, Terminal
  <1>2. job' \in [Jobs -> JobType] /\ Unmoved
    BY <1>0, <1>1 DEF Unmoved, JobType
  <1>3. \A k \in Jobs : job'[k].waiting = job[k].waiting /\ job'[k].waiters = job[k].waiters
    BY <1>0, <1>1 DEF JobType
  <1>4. TypeOK'
    BY <1>0, <1>2, <1>3 DEF TypeOK, WaitersCounted
  <1>5. Callers'
    BY <1>0, <1>2 DEF Callers, Unmoved
  <1>6. SamePlace
    BY <1>0 DEF SamePlace
  <1>7. CompletionIsHeard'
    BY <1>0, <1>2, <1>6, NewsKept DEF News, Delivered, Carries, Unmoved
  <1>8. QED
    BY <1>0, <1>2, <1>4, <1>5, <1>6, <1>7, UnmovedKeeps DEF IInv

\* The step on which the four ways of learning of a completion meet.
LEMMA SettlesKeeps ==
    ASSUME IInv, NEW j \in Jobs, NEW s \in Terminal, Settles(j, s), Alive(j), service' = service
    PROVE  IInv'
  <1> DEFINE r == Settled(job[j], s)
             told == [a \in Owners |->
                        IF service = "up" /\ r.noticed /\ r.owner = a THEN {j} ELSE {}]
  <1>0. /\ TypeOK /\ Callers /\ Records /\ Scopes /\ Claims /\ CompletionIsHeard
        /\ job \in [Jobs -> JobType] /\ job[j] \in JobType
    BY DEF IInv, TypeOK
  <1>1. /\ job' = [job EXCEPT ![j] = [r EXCEPT !.work = "released"]]
        /\ agent' = [a \in Owners |-> Notified(agent[a], told[a])]
        /\ call' = Woken({j})
    BY DEF Settles
  <1>2. /\ r \in JobType /\ r.status = s /\ r.owner = job[j].owner /\ r.stored = job[j].stored
        /\ r.waiters = job[j].waiters /\ r.waiting = {}
        /\ r.reported <=> job[j].reported \/ job[j].waiters # {}
        /\ r.noticed <=> ~r.reported
    BY <1>0, SettledFacts
  <1>3. /\ told \in [Owners -> SUBSET Jobs]
        /\ service = "up" /\ r.noticed => \A a \in Owners : r.owner = a => told[a] = {j}
    OBVIOUS
  <1> HIDE DEF r, told
  <1>4. /\ job' \in [Jobs -> JobType]
        /\ \A k \in Jobs \ {j} : job'[k] = job[k]
        /\ job'[j].status = s /\ job'[j].owner = job[j].owner /\ job'[j].stored = job[j].stored
        /\ job'[j].waiters = job[j].waiters /\ job'[j].waiting = {} /\ job'[j].work = "released"
    BY <1>0, <1>1, <1>2 DEF JobType
  <1>5. /\ agent' \in [Owners -> AgentType]
        /\ \A a \in Owners :
              /\ agent'[a].phase = agent[a].phase /\ agent'[a].attached = agent[a].attached
              /\ agent'[a].heard = agent[a].heard /\ agent'[a].lost = agent[a].lost
              /\ agent'[a].left = agent[a].left /\ agent'[a].draining = agent[a].draining
              /\ agent[a].notices \subseteq agent'[a].notices
              /\ agent[a].running => agent'[a].running
              /\ agent'[a].spent = agent[a].spent \/ agent'[a].running
              /\ told[a] # {} /\ agent[a].phase = "live" =>
                    told[a] \subseteq agent'[a].notices /\ (agent'[a].running \/ agent'[a].spent = Budget)
    BY <1>0, <1>1, <1>3, NotifiedFacts DEF TypeOK
  <1>6. /\ call' \in [Calls -> CallType]
        /\ \A c \in Calls :
              /\ call'[c].by = call[c].by /\ call'[c].job = call[c].job
              /\ call'[c].ended = call[c].ended
              /\ call[c].pc = "waiting" /\ call[c].job = j => call'[c].pc = "woken"
              /\ ~(call[c].pc = "waiting" /\ call[c].job = j) => call'[c] = call[c]
    <2>1. call' = [c \in Calls |-> Woken({j})[c]]
      BY <1>1 DEF Woken
    <2>2. QED
      BY <1>0, <2>1, WokenFacts
  <1>7. s \in Terminal /\ job[j].status \in Live /\ "none" \notin Live \cup Terminal
    BY DEF Alive, Live, Terminal
  <1>8. TypeOK'
    <2>1. WaitersCounted'
      BY <1>0, <1>4, <1>6 DEF TypeOK, WaitersCounted
    <2>2. QED
      BY <1>0, <1>4, <1>5, <1>6, <2>1 DEF TypeOK
  <1>9. Callers'
    BY <1>0, <1>4, <1>6, <1>7 DEF Callers
  <1>10. Records'
    BY <1>0, <1>4, <1>5, <1>7 DEF Records, RecordOf, Alive, Ended, Stored, Live, Terminal, GoneOwner
  <1>11. Scopes'
    <2>1. \A b \in Owners : Owned(b)' = Owned(b)
      BY <1>4 DEF Owned, Stored
    <2>2. \A k \in Jobs : job'[k].owner = job[k].owner /\ (Stored(k)' <=> Stored(k))
                          /\ (job'[k].status # "none" <=> job[k].status # "none")
      BY <1>4, <1>7 DEF Stored
    <2>3. QED
      BY <1>0, <1>5, <2>1, <2>2 DEF Scopes, ScopeOf, TypeOK, AgentType
  <1>12. Claims'
    BY <1>0, <1>4, <1>5, <1>7 DEF Claims, Alive, Live, Terminal
  <1>13. CompletionIsHeard'
    <2> SUFFICES ASSUME NEW k \in Jobs, NEW a \in Owners, a = job[k].owner,
                        service = "up", Ended(k)', agent[a].phase = "live"
                 PROVE  \/ Delivered(k, a)'
                        \/ k \in agent'[a].heard \cup agent'[a].lost
                        \/ \E c \in Calls : Carries(c, k)'
      BY <1>4, <1>5 DEF CompletionIsHeard
    <2>1. CASE k # j
      <3>1. Ended(k) /\ job'[k] = job[k]
        BY <1>4, <2>1 DEF Ended
      <3>2. \A c \in Calls : Carries(c, k) => Carries(c, k)'
        BY <1>6, <3>1 DEF Carries
      <3>3. Delivered(k, a) => Delivered(k, a)'
        BY <1>5 DEF Delivered
      <3>4. QED
        BY <1>0, <1>5, <3>1, <3>2, <3>3 DEF CompletionIsHeard
    <2>2. CASE k = j /\ job[j].reported
      BY <1>0, <1>5, <2>2 DEF Claims
    <2>3. CASE k = j /\ job[j].waiters # {}
      <3>1. PICK c \in Calls : call[c].pc \in {"waiting", "woken"} /\ call[c].job = j
        BY <1>0, <2>3 DEF TypeOK, WaitersCounted, JobType
      <3>2. call[c].by = a
        BY <1>0, <2>3, <3>1, NobodyAssumption DEF Callers
      <3>3. Carries(c, k)'
        BY <1>4, <1>6, <2>3, <3>1, <3>2 DEF Carries
      <3>4. QED
        BY <3>3
    <2>4. CASE k = j /\ ~job[j].reported /\ job[j].waiters = {}
      BY <1>2, <1>3, <1>5, <2>4 DEF Delivered
    <2>5. QED
      BY <2>1, <2>2, <2>3, <2>4
  <1>14. QED
    BY <1>8, <1>9, <1>10, <1>11, <1>12, <1>13 DEF IInv

LEMMA SettleKeeps ==
    ASSUME IInv, NEW j \in Jobs, Settle(j)
    PROVE  IInv'
  <1>0. TypeOK /\ Callers /\ Records /\ job \in [Jobs -> JobType]
    BY DEF IInv, TypeOK
  <1>1. CASE Ended(j) /\ job' = [job EXCEPT ![j].work = "released"] /\ UNCHANGED <<agent, call>>
    <2>1. /\ job' \in [Jobs -> JobType]
          /\ \A k \in Jobs : job'[k].waiting = job[k].waiting /\ job'[k].waiters = job[k].waiters
      BY <1>0, <1>1 DEF JobType
    <2>2. Unmoved /\ SamePlace /\ service' = service
      BY <1>0, <1>1 DEF Settle, Unmoved, JobType, SamePlace, Terminal
    <2>3. TypeOK'
      BY <1>0, <1>1, <2>1, <2>2 DEF TypeOK, WaitersCounted
    <2>4. Callers'
      BY <1>0, <1>1, <2>2 DEF Callers, Unmoved
    <2>5. CompletionIsHeard'
      BY <1>1, <2>2, NewsKept DEF News, Delivered, Carries, Unmoved
    <2>6. QED
      BY <2>2, <2>3, <2>4, <2>5, UnmovedKeeps DEF IInv
  <1>2. CASE ~Ended(j) /\ Settles(j, job[j].work)
    <2>1. job[j].work \in Terminal /\ service' = service
      BY DEF Settle
    <2>2. Alive(j)
      BY <1>0, <1>2, <2>1 DEF Records, RecordOf, JobType, Alive, Ended, Live, Terminal
    <2>3. QED
      BY <1>2, <2>1, <2>2, SettlesKeeps
  <1>3. QED
    BY <1>1, <1>2 DEF Settle

----------------------------------------------------------------------------
(* The owners' drivers.                                                     *)

\* What a driver's step leaves alone: its agent's place, and all it heard.
\* Nothing it does to the inbox makes news disappear.
LEMMA DriverKeeps ==
    ASSUME IInv, NEW a \in Owners, NEW new \in AgentType, UNCHANGED <<service, job, call>>,
           agent' = [agent EXCEPT ![a] = new],
           new.phase = agent[a].phase, new.attached = agent[a].attached,
           new.draining = agent[a].draining, agent[a].heard \subseteq new.heard,
           agent[a].lost \subseteq new.lost,
           \A k \in agent[a].notices :
              agent[a].running \/ agent[a].spent = Budget \/ k \in agent[a].left =>
                 \/ k \in new.heard \cup new.lost
                 \/ k \in new.notices /\ (new.running \/ new.spent = Budget \/ k \in new.left)
    PROVE  IInv'
  <1>0. TypeOK /\ Callers
    BY DEF IInv
  <1>1. /\ agent' \in [Owners -> AgentType] /\ agent'[a] = new
        /\ \A b \in Owners \ {a} : agent'[b] = agent[b]
    BY <1>0 DEF TypeOK
  <1>2. TypeOK'
    BY <1>0, <1>1 DEF TypeOK, WaitersCounted
  <1>3. Callers'
    BY <1>0 DEF Callers
  <1>4. Unmoved /\ SamePlace
    BY <1>0, <1>1 DEF Unmoved, SamePlace
  <1>5. \A b \in Owners, k \in Jobs : News(k, b) => News(k, b)'
    BY <1>1 DEF News, Delivered
  <1>6. CompletionIsHeard'
    BY <1>4, <1>5, NewsKept DEF Carries
  <1>7. QED
    BY <1>2, <1>3, <1>4, <1>6, UnmovedKeeps DEF IInv

LEMMA WakeKeeps ==
    ASSUME IInv, NEW a \in Owners, Wake(a)
    PROVE  IInv'
  <1> DEFINE new == [agent[a] EXCEPT !.running = TRUE]
  <1>1. agent[a] \in AgentType
    BY DEF IInv, TypeOK
  <1>2. agent' = [agent EXCEPT ![a] = new] /\ UNCHANGED <<service, job, call>>
    BY DEF Wake
  <1>3. new \in AgentType
    BY <1>1, Zenon DEF AgentType
  <1>4. /\ new.phase = agent[a].phase /\ new.attached = agent[a].attached
        /\ new.draining = agent[a].draining /\ new.heard = agent[a].heard
        /\ new.lost = agent[a].lost /\ new.notices = agent[a].notices /\ new.running
    BY <1>1 DEF AgentType
  <1> HIDE DEF new
  <1>5. QED
    BY <1>2, <1>3, <1>4, DriverKeeps

LEMMA ClaimKeeps ==
    ASSUME IInv, NEW a \in Owners, Claim(a)
    PROVE  IInv'
  <1>1. agent[a] \in AgentType
    BY DEF IInv, TypeOK
  <1>2. PICK prompted \in BOOLEAN, entered \in BOOLEAN :
          agent' = [agent EXCEPT ![a] =
              [Told(a, agent[a].notices, entered) EXCEPT
                  !.notices = {}, !.left = {}, !.spent = IF prompted THEN 0 ELSE @]]
    BY DEF Claim
  <1> DEFINE told == Told(a, agent[a].notices, entered)
             new == [told EXCEPT !.notices = {}, !.left = {},
                                 !.spent = IF prompted THEN 0 ELSE told.spent]
  <1>3. /\ told \in AgentType /\ told.phase = agent[a].phase /\ told.attached = agent[a].attached
        /\ told.draining = agent[a].draining
        /\ agent[a].heard \subseteq told.heard /\ agent[a].lost \subseteq told.lost
        /\ agent[a].notices \subseteq told.heard \cup told.lost
    BY <1>1 DEF Told, AgentType
  <1>4. agent' = [agent EXCEPT ![a] = new]
    BY <1>2
  <1> HIDE DEF told
  <1>5. (IF prompted THEN 0 ELSE told.spent) \in 0 .. Budget
    BY <1>3, LimitsAssumption DEF AgentType
  <1>6. /\ new \in AgentType
        /\ new.phase = told.phase /\ new.attached = told.attached /\ new.draining = told.draining
        /\ new.heard = told.heard /\ new.lost = told.lost /\ new.notices = {}
    BY <1>3, <1>5 DEF AgentType
  <1> HIDE DEF new
  <1>7. UNCHANGED <<service, job, call>>
    BY DEF Claim
  <1>8. QED
    BY <1>3, <1>4, <1>6, <1>7, DriverKeeps

LEMMA RestKeeps ==
    ASSUME IInv, NEW a \in Owners, Rest(a)
    PROVE  IInv'
  <1> DEFINE new == [agent[a] EXCEPT !.running = FALSE, !.cut = FALSE, !.left = agent[a].notices]
  <1>1. agent[a] \in AgentType
    BY DEF IInv, TypeOK
  <1>2. agent' = [agent EXCEPT ![a] = new] /\ UNCHANGED <<service, job, call>>
    BY DEF Rest
  <1>3. new \in AgentType
    BY <1>1, Zenon DEF AgentType
  <1>4. /\ new.phase = agent[a].phase /\ new.attached = agent[a].attached
        /\ new.draining = agent[a].draining /\ new.heard = agent[a].heard
        /\ new.lost = agent[a].lost /\ new.notices = agent[a].notices
        /\ new.left = agent[a].notices
    BY <1>1 DEF AgentType
  <1> HIDE DEF new
  <1>5. QED
    BY <1>2, <1>3, <1>4, DriverKeeps

----------------------------------------------------------------------------
\* A cancelled turn: the pending notices are kept or lost, a waiting call goes
\* and is uncounted with it, and no other call changes what it carries.
LEMMA CancelKeeps ==
    ASSUME IInv, NEW a \in Owners, Cancel(a)
    PROVE  IInv'
  <1>0. /\ TypeOK /\ Callers /\ agent[a] \in AgentType
        /\ agent \in [Owners -> AgentType] /\ service' = service
    BY DEF IInv, TypeOK, Cancel
  <1>1. PICK keep \in BOOLEAN :
          agent' = [agent EXCEPT ![a].cut = agent[a].running,
                                 ![a].notices = IF keep THEN @ ELSE {},
                                 ![a].left = IF keep THEN @ ELSE {},
                                 ![a].lost = IF keep THEN @ ELSE @ \cup agent[a].notices]
    BY DEF Cancel
  <1> DEFINE notices == IF keep THEN agent[a].notices ELSE {}
             left == IF keep THEN agent[a].left ELSE {}
             lost == IF keep THEN agent[a].lost ELSE agent[a].lost \cup agent[a].notices
             new == [agent[a] EXCEPT !.cut = agent[a].running, !.notices = notices,
                                     !.left = left, !.lost = lost]
  <1>2. /\ notices \in SUBSET Jobs /\ left \in SUBSET Jobs /\ lost \in SUBSET Jobs
        /\ agent[a].lost \subseteq lost
        /\ \A k \in agent[a].notices : k \in lost \/ k \in notices
        /\ \A k \in agent[a].notices : k \in agent[a].left => k \in lost \/ k \in left
    BY <1>0 DEF AgentType
  <1>3. agent' = [agent EXCEPT ![a] = new]
    BY <1>1
  <1> HIDE DEF notices, left, lost
  <1>4. new \in AgentType
    BY <1>0, <1>2, Zenon DEF AgentType
  <1>5. /\ new.phase = agent[a].phase /\ new.attached = agent[a].attached
        /\ new.draining = agent[a].draining /\ new.heard = agent[a].heard
        /\ new.lost = lost /\ new.notices = notices /\ new.left = left
        /\ new.running = agent[a].running /\ new.spent = agent[a].spent
    BY <1>0 DEF AgentType
  <1> HIDE DEF new
  <1>6. /\ agent' \in [Owners -> AgentType] /\ agent'[a] = new
        /\ \A b \in Owners \ {a} : agent'[b] = agent[b]
    BY <1>0, <1>3, <1>4
  <1>7. SamePlace
    BY <1>5, <1>6 DEF SamePlace
  <1>8. \A b \in Owners, k \in Jobs : News(k, b) => News(k, b)'
    BY <1>2, <1>5, <1>6 DEF News, Delivered
  <1>9. /\ job' \in [Jobs -> JobType] /\ Unmoved
        /\ \A k \in Jobs : /\ job'[k].waiting = job[k].waiting \ Rejected(a)
                           /\ job'[k].waiters = job[k].waiters \ Rejected(a)
    <2>1. job' = [k \in Jobs |-> [job[k] EXCEPT !.waiting = @ \ Rejected(a), !.waiters = @ \ Rejected(a)]]
      BY DEF Cancel, Uncounted
    <2>2. job \in [Jobs -> JobType]
      BY <1>0 DEF TypeOK
    <2>3. ASSUME NEW k \in Jobs
          PROVE  /\ job'[k] \in JobType
                 /\ job'[k].waiting = job[k].waiting \ Rejected(a)
                 /\ job'[k].waiters = job[k].waiters \ Rejected(a)
                 /\ job'[k].owner = job[k].owner /\ job'[k].status = job[k].status
                 /\ job'[k].stored = job[k].stored /\ job'[k].noticed = job[k].noticed
                 /\ job'[k].reported = job[k].reported /\ job'[k].work = job[k].work
      <3>1. job[k] \in JobType
        BY <2>2
      <3>2. job'[k] = [job[k] EXCEPT !.waiting = @ \ Rejected(a), !.waiters = @ \ Rejected(a)]
        BY <2>1
      <3>3. QED
        BY <3>1, <3>2 DEF JobType
    <2>4. QED
      BY <2>1, <2>3 DEF Unmoved
  <1>10. /\ call' \in [Calls -> CallType]
         /\ \A c \in Calls : c \in Rejected(a) => call'[c].pc = "idle"
         /\ \A c \in Calls \ Rejected(a) :
               /\ call'[c].pc = call[c].pc /\ call'[c].by = call[c].by
               /\ call'[c].job = call[c].job /\ call'[c].ended = call[c].ended
    <2>1. NoCallYet \in CallType /\ NoCallYet.pc = "idle"
      BY DEF NoCallYet, CallType
    <2>2. call \in [Calls -> CallType] /\ call' = CallsCut(a)
      BY <1>0 DEF TypeOK, Cancel
    <2>3. ASSUME NEW c \in Calls
          PROVE  /\ call'[c] \in CallType
                 /\ c \in Rejected(a) => call'[c].pc = "idle"
                 /\ c \notin Rejected(a) =>
                       /\ call'[c].pc = call[c].pc /\ call'[c].by = call[c].by
                       /\ call'[c].job = call[c].job /\ call'[c].ended = call[c].ended
      <3>1. CASE c \in Rejected(a)
        <4>1. c \in Mine(a)
          BY <3>1 DEF Rejected
        <4>2. call'[c] = NoCallYet
          BY <2>2, <3>1, <4>1 DEF CallsCut
        <4>3. QED
          BY <2>1, <3>1, <4>2
      <3>2. CASE c \in Mine(a) \ Rejected(a)
        <4>1. call'[c] = [call[c] EXCEPT !.cut = TRUE]
          BY <2>2, <3>2 DEF CallsCut
        <4>2. QED
          BY <2>2, <3>2, <4>1 DEF CallType
      <3>3. CASE c \notin Mine(a)
        <4>1. c \notin Rejected(a)
          BY <3>3 DEF Rejected
        <4>2. call'[c] = call[c]
          BY <2>2, <3>3, <4>1 DEF CallsCut
        <4>3. QED
          BY <2>2, <4>1, <4>2
      <3>4. QED
        BY <3>1, <3>2, <3>3
    <2>4. call' = [c \in Calls |-> call'[c]]
      BY <2>2 DEF CallsCut
    <2>5. QED
      BY <2>3, <2>4
  <1>11. TypeOK'
    <2>1. WaitersCounted'
      BY <1>0, <1>9, <1>10 DEF TypeOK, WaitersCounted
    <2>2. QED
      BY <1>0, <1>6, <1>9, <1>10, <2>1 DEF TypeOK
  <1>12. Callers'
    BY <1>0, <1>9, <1>10 DEF Callers, Unmoved
  <1>13. CompletionIsHeard'
    <2>1. \A c \in Calls, k \in Jobs : Carries(c, k) => Carries(c, k)'
      BY <1>9, <1>10 DEF Carries, Unmoved, Rejected
    <2>2. QED
      BY <1>0, <1>7, <1>8, <1>9, <2>1, NewsKept
  <1>14. QED
    BY <1>0, <1>7, <1>9, <1>11, <1>12, <1>13, UnmovedKeeps DEF IInv

----------------------------------------------------------------------------
(* Teardown.                                                                *)

LEMMA DisposeKeeps ==
    ASSUME IInv, NEW a \in Owners, Dispose(a)
    PROVE  IInv'
  <1> DEFINE new == [NewAgent EXCEPT !.phase = "unloading", !.attached = agent[a].attached]
  <1>0. /\ TypeOK /\ Callers /\ Records /\ Scopes /\ Claims /\ CompletionIsHeard
        /\ agent[a] \in AgentType /\ agent \in [Owners -> AgentType]
    BY DEF IInv, TypeOK
  <1>1. /\ agent[a].phase = "live" /\ agent' = [agent EXCEPT ![a] = new]
        /\ UNCHANGED <<service, job, call>>
    BY DEF Dispose
  <1>2. /\ new \in AgentType /\ new.phase = "unloading" /\ new.attached = agent[a].attached
        /\ new.draining = {}
    <2>1. agent[a].attached \in BOOLEAN /\ 0 \in 0 .. Budget
      BY <1>0, LimitsAssumption DEF AgentType
    <2>2. new = [NewAgent EXCEPT !.phase = "unloading", !.attached = agent[a].attached]
      OBVIOUS
    <2>3. new \in AgentType
      BY <2>1, Zenon DEF NewAgent, AgentType
    <2>4. QED
      BY <2>3 DEF NewAgent
  <1> HIDE DEF new
  <1>3. /\ agent' \in [Owners -> AgentType] /\ agent'[a] = new
        /\ \A b \in Owners \ {a} : agent'[b] = agent[b]
    BY <1>0, <1>1, <1>2
  <1>4. TypeOK'
    BY <1>0, <1>1, <1>3 DEF TypeOK, WaitersCounted
  <1>5. Callers'
    BY <1>0, <1>1 DEF Callers
  <1>6. Records'
    BY <1>0, <1>1, <1>2, <1>3 DEF Records, RecordOf, Alive, Ended, Stored, GoneOwner
  <1>7. Scopes'
    BY <1>0, <1>1, <1>2, <1>3 DEF Scopes, ScopeOf, Owned, Stored
  <1>8. Claims' /\ CompletionIsHeard'
    BY <1>0, <1>1, <1>2, <1>3 DEF Claims, CompletionIsHeard, Delivered, Carries, Alive, Ended
  <1>9. QED
    BY <1>4, <1>5, <1>6, <1>7, <1>8 DEF IInv

\* Tearing down the jobs of js: those that can be cancelled are stopping and
\* reported, the others have failed; the rest, and what has ended, is left.
LEMMA TeardownFacts ==
    ASSUME IInv, NEW js \in SUBSET Jobs, CancelForTeardown(js),
           service = "down" => service' = "down",
           \A o : GoneOwner(o) => GoneOwner(o)'
    PROVE  /\ job' \in [Jobs -> JobType] /\ call' \in [Calls -> CallType]
           /\ WaitersCounted' /\ Callers' /\ Records'
           /\ \A k \in Jobs :
                 /\ job'[k].owner = job[k].owner /\ job'[k].stored = job[k].stored
                 /\ job'[k].status # "none" <=> job[k].status # "none"
                 /\ k \notin js \/ ~Alive(k) => job'[k] = job[k]
           /\ \A c \in Calls :
                 /\ call'[c].by = call[c].by /\ call'[c].job = call[c].job
                 /\ call'[c].ended = call[c].ended
                 /\ call'[c].pc = call[c].pc \/ (call[c].pc = "waiting" /\ call'[c].pc = "woken")
  <1>0. /\ TypeOK /\ Callers /\ Records /\ WaitersCounted
        /\ job \in [Jobs -> JobType] /\ call \in [Calls -> CallType]
    BY DEF IInv, TypeOK
  <1> DEFINE forced == {j \in js \cap Stubborn : Alive(j)}
  <1>1. /\ job' = [j \in Jobs |-> IF j \in js THEN TornDown(j) ELSE job[j]]
        /\ call' = Woken(forced) /\ forced \in SUBSET Jobs
    BY DEF CancelForTeardown
  <1>2. \A k \in Jobs : k \in forced <=> k \in js /\ k \in Stubborn /\ Alive(k)
    OBVIOUS
  <1> HIDE DEF forced
  <1>3. job' \in [Jobs -> JobType]
    BY <1>0, <1>1, TornDownFacts
  <1>4. ASSUME NEW k \in Jobs
        PROVE  /\ job'[k].owner = job[k].owner /\ job'[k].stored = job[k].stored
               /\ job'[k].waiters = job[k].waiters
               /\ k \notin js \/ ~Alive(k) => job'[k] = job[k]
               /\ k \in forced => /\ job'[k].status = "failed" /\ job'[k].waiting = {}
                                  /\ ~job'[k].noticed
               /\ k \in js /\ Alive(k) /\ k \notin forced =>
                     /\ job'[k].status = "stopping" /\ job'[k].waiting = job[k].waiting
                     /\ job'[k].noticed = job[k].noticed
    <2>1. CASE k \in js
      BY <1>0, <1>1, <1>2, <2>1, TornDownFacts
    <2>2. CASE k \notin js
      BY <1>1, <1>2, <2>2
    <2>3. QED
      BY <2>1, <2>2
  <1>5. ASSUME NEW c \in Calls
        PROVE  /\ call'[c] \in CallType
               /\ call'[c].by = call[c].by /\ call'[c].job = call[c].job
               /\ call'[c].ended = call[c].ended
               /\ call[c].pc = "waiting" /\ call[c].job \in forced => call'[c].pc = "woken"
               /\ ~(call[c].pc = "waiting" /\ call[c].job \in forced) => call'[c] = call[c]
    BY <1>0, <1>1, WokenFacts
  <1>6. call' \in [Calls -> CallType]
    <2>1. call' = [c \in Calls |-> call'[c]]
      BY <1>1 DEF Woken
    <2>2. QED
      BY <1>5, <2>1
  <1>7. \A k \in Jobs : job'[k].status # "none" <=> job[k].status # "none"
    BY <1>2, <1>4 DEF Alive, Live
  <1>8. WaitersCounted'
    <2>1. \A k \in Jobs : job'[k].waiting = IF k \in forced THEN {} ELSE job[k].waiting
      BY <1>2, <1>4
    <2>2. QED
      BY <1>0, <1>4, <1>5, <2>1 DEF WaitersCounted
  <1>9. Callers'
    BY <1>0, <1>4, <1>5, <1>7 DEF Callers
  <1>10. Records'
    <2> SUFFICES ASSUME NEW k \in Jobs
                 PROVE  RecordOf(k)'
      BY DEF Records, RecordOf
    <2>1. Stored(k)' <=> Stored(k)
      BY <1>4 DEF Stored
    <2>2. CASE k \notin js \/ ~Alive(k)
      <3>1. job'[k] = job[k]
        BY <1>4, <2>2
      <3>2. GoneOwner(job[k].owner) => GoneOwner(job[k].owner)'
        BY <3>1 DEF GoneOwner
      <3>3. QED
        BY <1>0, <2>1, <3>1, <3>2 DEF Records, RecordOf, Alive, Ended
    <2>3. CASE k \in forced
      BY <1>0, <1>2, <1>4, <2>1, <2>3 DEF Records, RecordOf, Alive, Ended, Live, Terminal
    <2>4. CASE k \in js /\ Alive(k) /\ k \notin forced
      BY <1>0, <1>2, <1>4, <2>1, <2>4 DEF Records, RecordOf, Alive, Ended, Live, Terminal
    <2>5. QED
      BY <2>2, <2>3, <2>4
  <1>11. QED
    BY <1>3, <1>4, <1>5, <1>6, <1>7, <1>8, <1>9, <1>10

LEMMA CleanupKeeps ==
    ASSUME IInv, NEW a \in Owners, Cleanup(a)
    PROVE  IInv'
  <1>0. /\ TypeOK /\ Scopes /\ Claims /\ CompletionIsHeard /\ service' = service
        /\ agent[a] \in AgentType /\ agent \in [Owners -> AgentType]
        /\ agent[a].phase = "unloading"
    BY DEF IInv, TypeOK, Cleanup
  <1>1. PICK js \in SUBSET Jobs :
          /\ js = (IF agent[a].attached THEN Owned(a) ELSE {})
          /\ CancelForTeardown(js)
          /\ agent' = [agent EXCEPT ![a].phase = "draining", ![a].attached = FALSE,
                                    ![a].draining = js]
    <2>1. Owned(a) \in SUBSET Jobs
      BY DEF Owned
    <2>2. QED
      BY <2>1, Zenon DEF Cleanup
  <1>2. js = Owned(a)
    BY <1>0, <1>1 DEF Scopes, ScopeOf
  <1> DEFINE new == [agent[a] EXCEPT !.phase = "draining", !.attached = FALSE, !.draining = js]
  <1>3. new \in AgentType
    BY <1>0, <1>1, Zenon DEF AgentType
  <1>4. new.phase = "draining" /\ ~new.attached /\ new.draining = js
    BY <1>0 DEF AgentType
  <1>5. agent' = [agent EXCEPT ![a] = new]
    BY <1>1
  <1> HIDE DEF new
  <1>6. /\ agent' \in [Owners -> AgentType] /\ agent'[a] = new
        /\ \A b \in Owners \ {a} : agent'[b] = agent[b]
    BY <1>0, <1>3, <1>5
  <1>7. \A o : GoneOwner(o) => GoneOwner(o)'
    BY <1>0, <1>6 DEF GoneOwner
  <1>8. /\ job' \in [Jobs -> JobType] /\ call' \in [Calls -> CallType]
        /\ WaitersCounted' /\ Callers' /\ Records'
        /\ \A k \in Jobs :
              /\ job'[k].owner = job[k].owner /\ job'[k].stored = job[k].stored
              /\ job'[k].status # "none" <=> job[k].status # "none"
              /\ k \notin js => job'[k] = job[k]
        /\ \A c \in Calls :
              /\ call'[c].by = call[c].by /\ call'[c].job = call[c].job
              /\ call'[c].ended = call[c].ended
              /\ call'[c].pc = call[c].pc \/ (call[c].pc = "waiting" /\ call'[c].pc = "woken")
    BY <1>0, <1>1, <1>7, TeardownFacts
  <1>9. TypeOK'
    BY <1>0, <1>6, <1>8 DEF TypeOK
  <1>10. Scopes'
    <2>1. \A b \in Owners : Owned(b)' = Owned(b)
      BY <1>8 DEF Owned, Stored
    <2>2. \A k \in js : k \in Jobs /\ job'[k].owner = a /\ job'[k].status # "none"
      BY <1>2, <1>8 DEF Owned, IInv, Records, RecordOf, Stored
    <2>3. (service = "down" => \A k \in Jobs : ~Stored(k))'
      BY <1>0, <1>8 DEF Scopes, ScopeOf, Stored
    <2>4. ASSUME NEW b \in Owners
          PROVE  ScopeOf(b)'
      <3>1. CASE b = a
        BY <1>2, <1>4, <1>6, <2>1, <2>2, <3>1 DEF ScopeOf
      <3>2. CASE b # a
        <4>1. agent'[b] = agent[b] /\ agent[b].draining \subseteq Jobs
          BY <1>0, <1>6, <3>2 DEF AgentType
        <4>2. QED
          BY <1>0, <1>8, <2>1, <4>1 DEF Scopes, ScopeOf
      <3>3. QED
        BY <3>1, <3>2
    <2>5. QED
      BY <2>3, <2>4 DEF Scopes, ScopeOf
  <1>11. Claims' /\ CompletionIsHeard'
    <2>1. ASSUME NEW k \in Jobs, job'[k].owner \in Owners, agent'[job'[k].owner].phase = "live"
          PROVE  /\ job'[k] = job[k] /\ job[k].owner # a
                 /\ agent'[job[k].owner] = agent[job[k].owner]
      <3>1. job[k].owner # a /\ job'[k].owner = job[k].owner
        BY <1>4, <1>6, <1>8, <2>1
      <3>2. QED
        BY <1>2, <1>6, <1>8, <2>1, <3>1 DEF Owned
    <2>2. \A c \in Calls, k \in Jobs : Carries(c, k) => Carries(c, k)'
      BY <1>8 DEF Carries
    <2>3. Claims'
      BY <1>0, <2>1 DEF Claims, Alive
    <2>4. CompletionIsHeard'
      BY <1>0, <2>1, <2>2 DEF CompletionIsHeard, Delivered, Ended
    <2>5. QED
      BY <2>3, <2>4
  <1>12. QED
    BY <1>8, <1>9, <1>10, <1>11 DEF IInv

LEMMA DrainedKeeps ==
    ASSUME IInv, NEW a \in Owners, Drained(a)
    PROVE  IInv'
  <1>0. /\ TypeOK /\ Callers /\ Records /\ Scopes /\ Claims /\ CompletionIsHeard
        /\ agent[a] \in AgentType /\ agent \in [Owners -> AgentType]
        /\ agent[a].phase = "draining" /\ UNCHANGED <<service, call>>
        /\ \A j \in agent[a].draining : Ended(j)
    BY DEF IInv, TypeOK, Drained
  <1> DEFINE new == [agent[a] EXCEPT !.phase = "gone", !.draining = {}]
  <1>1. /\ agent' = [agent EXCEPT ![a] = new]
        /\ job' = [j \in Jobs |->
              IF j \in agent[a].draining THEN [job[j] EXCEPT !.stored = FALSE] ELSE job[j]]
    BY DEF Drained
  <1>2. new \in AgentType /\ new.phase = "gone" /\ new.draining = {}
    BY <1>0 DEF AgentType
  <1> HIDE DEF new
  <1>3. /\ agent' \in [Owners -> AgentType] /\ agent'[a] = new
        /\ \A b \in Owners \ {a} : agent'[b] = agent[b]
    BY <1>0, <1>1, <1>2
  <1>4. ASSUME NEW k \in Jobs
        PROVE  /\ job'[k] \in JobType
               /\ k \notin agent[a].draining => job'[k] = job[k]
               /\ k \in agent[a].draining =>
                     ~job'[k].stored /\ Ended(k) /\ job[k].owner = a
               /\ job'[k].owner = job[k].owner /\ job'[k].status = job[k].status
               /\ job'[k].noticed = job[k].noticed /\ job'[k].reported = job[k].reported
               /\ job'[k].waiters = job[k].waiters /\ job'[k].waiting = job[k].waiting
               /\ job'[k].work = job[k].work
    <2>1. job[k] \in JobType
      BY <1>0 DEF TypeOK
    <2>2. CASE k \in agent[a].draining
      BY <1>0, <1>1, <2>1, <2>2 DEF JobType, Scopes, ScopeOf
    <2>3. CASE k \notin agent[a].draining
      BY <1>1, <2>1, <2>3
    <2>4. QED
      BY <2>2, <2>3
  <1>5. job' \in [Jobs -> JobType]
    BY <1>1, <1>4
  <1>6. TypeOK'
    BY <1>0, <1>3, <1>4, <1>5 DEF TypeOK, WaitersCounted
  <1>7. Callers'
    BY <1>0, <1>4 DEF Callers
  <1>8. Records'
    <2> SUFFICES ASSUME NEW k \in Jobs
                 PROVE  RecordOf(k)'
      BY <1>4 DEF Records, RecordOf
    <2>1. CASE k \in agent[a].draining
      BY <1>0, <1>2, <1>3, <1>4, <2>1 DEF Records, RecordOf, Alive, Ended, Stored, Live,
         Terminal, GoneOwner
    <2>2. CASE k \notin agent[a].draining
      <3>1. job'[k] = job[k]
        BY <1>4, <2>2
      <3>2. GoneOwner(job[k].owner) => GoneOwner(job[k].owner)'
        BY <1>0, <1>3, <3>1 DEF GoneOwner
      <3>3. QED
        BY <1>0, <3>1, <3>2 DEF Records, RecordOf, Alive, Ended, Stored
    <2>3. QED
      BY <2>1, <2>2
  <1>9. Scopes'
    <2>1. \A b \in Owners : Owned(b)' \subseteq Owned(b)
      BY <1>4 DEF Owned, Stored
    <2>2. Owned(a)' = {}
      BY <1>0, <1>4 DEF Owned, Stored, Scopes, ScopeOf
    <2>3. (service = "down" => \A k \in Jobs : ~Stored(k))'
      BY <1>0, <1>4 DEF Scopes, ScopeOf, Stored
    <2>4. ASSUME NEW b \in Owners
          PROVE  ScopeOf(b)'
      <3>1. CASE b = a
        BY <1>2, <1>3, <2>2, <3>1 DEF ScopeOf
      <3>2. CASE b # a
        <4>1. agent'[b] = agent[b] /\ agent[b].draining \subseteq Jobs
          BY <1>0, <1>3, <3>2 DEF AgentType
        <4>2. QED
          BY <1>0, <1>4, <2>1, <4>1 DEF Scopes, ScopeOf
      <3>3. QED
        BY <3>1, <3>2
    <2>5. QED
      BY <2>3, <2>4 DEF Scopes, ScopeOf
  <1>10. Claims' /\ CompletionIsHeard'
    <2>1. ASSUME NEW k \in Jobs, job'[k].owner \in Owners, agent'[job'[k].owner].phase = "live"
          PROVE  job'[k].owner # a /\ agent'[job[k].owner] = agent[job[k].owner]
      BY <1>2, <1>3, <1>4, <2>1
    <2>2. \A c \in Calls, k \in Jobs : Carries(c, k) => Carries(c, k)'
      BY <1>0, <1>4 DEF Carries
    <2>3. Claims'
      BY <1>0, <1>4, <2>1 DEF Claims, Alive
    <2>4. CompletionIsHeard'
      BY <1>0, <1>4, <2>1, <2>2 DEF CompletionIsHeard, Delivered, Ended
    <2>5. QED
      BY <2>3, <2>4
  <1>11. QED
    BY <1>6, <1>7, <1>8, <1>9, <1>10 DEF IInv

LEMMA CloseKeeps ==
    ASSUME IInv, Close
    PROVE  IInv'
  <1>0. /\ TypeOK /\ Scopes /\ service = "up" /\ service' = "closing" /\ agent' = agent
        /\ CancelForTeardown({j \in Jobs : Stored(j)})
    BY DEF IInv, Close
  <1>1. \A o : GoneOwner(o) => GoneOwner(o)'
    BY <1>0 DEF GoneOwner
  <1>2. PICK js \in SUBSET Jobs : CancelForTeardown(js)
    BY <1>0
  <1>3. /\ job' \in [Jobs -> JobType] /\ call' \in [Calls -> CallType]
        /\ WaitersCounted' /\ Callers' /\ Records'
        /\ \A k \in Jobs :
              /\ job'[k].owner = job[k].owner /\ job'[k].stored = job[k].stored
              /\ job'[k].status # "none" <=> job[k].status # "none"
    BY <1>0, <1>1, <1>2, TeardownFacts
  <1>4. TypeOK'
    BY <1>0, <1>3 DEF TypeOK
  <1>5. Scopes'
    <2>1. \A b \in Owners : Owned(b)' = Owned(b) /\ agent[b].draining \subseteq Jobs
      BY <1>0, <1>3 DEF Owned, Stored, TypeOK, AgentType
    <2>2. QED
      BY <1>0, <1>3, <2>1 DEF Scopes, ScopeOf
  <1>6. Claims' /\ CompletionIsHeard'
    BY <1>0 DEF Claims, CompletionIsHeard
  <1>7. QED
    BY <1>3, <1>4, <1>5, <1>6 DEF IInv

LEMMA DownKeeps ==
    ASSUME IInv, Down
    PROVE  IInv'
  <1>0. /\ TypeOK /\ Callers /\ Records /\ Scopes
        /\ agent \in [Owners -> AgentType] /\ job \in [Jobs -> JobType]
        /\ service' = "down" /\ call' = call
        /\ job' = [j \in Jobs |-> [job[j] EXCEPT !.stored = FALSE]]
        /\ agent' = [a \in Owners |-> [agent[a] EXCEPT !.attached = FALSE]]
        /\ \A j \in Jobs : Stored(j) => Ended(j)
    BY DEF IInv, TypeOK, Down
  <1>1. ASSUME NEW k \in Jobs
        PROVE  /\ job'[k] \in JobType /\ ~job'[k].stored
               /\ job'[k].owner = job[k].owner /\ job'[k].status = job[k].status
               /\ job'[k].waiters = job[k].waiters /\ job'[k].waiting = job[k].waiting
               /\ job'[k].work = job[k].work
    BY <1>0 DEF JobType
  <1>2. ASSUME NEW b \in Owners
        PROVE  /\ agent'[b] \in AgentType /\ ~agent'[b].attached
               /\ agent'[b].phase = agent[b].phase /\ agent'[b].draining = agent[b].draining
    <2>1. agent[b] \in AgentType /\ agent'[b] = [agent[b] EXCEPT !.attached = FALSE]
      BY <1>0
    <2>2. agent'[b] \in AgentType
      BY <2>1, Zenon DEF AgentType
    <2>3. QED
      BY <2>1, <2>2 DEF AgentType
  <1>3. job' \in [Jobs -> JobType] /\ agent' \in [Owners -> AgentType]
    BY <1>0, <1>1, <1>2
  <1>4. TypeOK'
    BY <1>0, <1>1, <1>3 DEF TypeOK, WaitersCounted
  <1>5. Callers'
    BY <1>0, <1>1 DEF Callers
  <1>6. Records'
    BY <1>0, <1>1 DEF Records, RecordOf, Alive, Ended, Stored, Live, Terminal
  <1>7. Scopes'
    <2>1. \A b \in Owners : Owned(b)' = {} /\ agent[b].draining \subseteq Jobs
      BY <1>0, <1>1 DEF Owned, Stored, AgentType
    <2>2. QED
      BY <1>0, <1>1, <1>2, <2>1 DEF Scopes, ScopeOf, Stored
  <1>8. Claims' /\ CompletionIsHeard'
    BY <1>0 DEF Claims, CompletionIsHeard
  <1>9. QED
    BY <1>4, <1>5, <1>6, <1>7, <1>8 DEF IInv

----------------------------------------------------------------------------
(* Every step keeps the invariant; what it implies of the properties.       *)

LEMMA StepKeeps == IInv /\ [Next]_vars => IInv'
  <1> SUFFICES ASSUME IInv, [Next]_vars PROVE IInv'
    OBVIOUS
  <1>1. CASE UNCHANGED vars
    BY <1>1 DEF vars, IInv, TypeOK, WaitersCounted, Callers, Records, RecordOf, Scopes,
       ScopeOf, Claims,
                CompletionIsHeard, Delivered, Carries, Stored, Ended, Alive, Owned, GoneOwner
  <1>2. CASE \E j \in Jobs : Finish(j) \/ Settle(j) \/ \E o \in Owners \cup {Nobody} : Start(j, o)
    BY <1>2, FinishKeeps, SettleKeeps, StartKeeps
  <1>3. CASE \E c \in Calls, a \in Owners, j \in Jobs : Output(c, a, j) \/ Wait(c, a, j) \/ Kill(c, a, j)
    BY <1>3, OutputKeeps, WaitKeeps, KillKeeps
  <1>4. CASE \E c \in Calls : Timeout(c) \/ Resume(c) \/ ReadAfterWait(c) \/ Return(c)
    BY <1>4, TimeoutKeeps, ResumeKeeps, ReadAfterWaitKeeps, ReturnKeeps
  <1>5. CASE \E a \in Owners : Wake(a) \/ Claim(a) \/ Rest(a) \/ Cancel(a)
    BY <1>5, WakeKeeps, ClaimKeeps, RestKeeps, CancelKeeps
  <1>6. CASE \E a \in Owners : Dispose(a) \/ Cleanup(a) \/ Drained(a)
    BY <1>6, DisposeKeeps, CleanupKeeps, DrainedKeeps
  <1>7. CASE Close \/ Down
    BY <1>7, CloseKeeps, DownKeeps
  <1>8. QED
    BY <1>1, <1>2, <1>3, <1>4, <1>5, <1>6, <1>7 DEF Next

\* The state stays within its types and every wait is counted once, whatever
\* the number of jobs, owners and calls (jobs-local, tool-jobs).
THEOREM TypeCorrect == Spec => []TypeOK
  <1>1. IInv => TypeOK
    BY DEF IInv
  <1>2. QED
    BY <1>1, InitInv, StepKeeps, PTL DEF Spec

\* No living owner misses the completion of a job of its own: it has heard of
\* it, or a notice or a call that reads it is on its way, or the turn that
\* carried the news was cancelled (settle, wait, read, kill, the listener).
THEOREM CompletionsAreHeard == Spec => []CompletionIsHeard
  <1>1. IInv => CompletionIsHeard
    BY DEF IInv
  <1>2. QED
    BY <1>1, InitInv, StepKeeps, PTL DEF Spec

\* Neither a record nor its work outlives the owner or the service, except the
\* work whose cancel threw (ensureOwnerCleanup, disposeOwned, disposeAll).
THEOREM OwnersTakeTheirJobs == Spec => []NothingOutlivesItsOwner
  <1>1. IInv => NothingOutlivesItsOwner
    <2> SUFFICES ASSUME IInv, NEW j \in Jobs, job[j].status # "none",
                        service = "down" \/ GoneOwner(job[j].owner)
                 PROVE  ~Stored(j) /\ (job[j].work \notin {"busy", "winding"} \/ j \in Stubborn)
      BY DEF NothingOutlivesItsOwner, GoneOwner
    <2>1. ~Stored(j)
      BY DEF IInv, Scopes, ScopeOf, GoneOwner, Owned, Stored
    <2>2. Ended(j)
      BY <2>1 DEF IInv, Records, RecordOf, TypeOK, JobType, Alive, Ended, Live, Terminal
    <2>3. QED
      BY <2>1, <2>2 DEF IInv, Records, RecordOf
  <1>2. QED
    BY <1>1, InitInv, StepKeeps, PTL DEF Spec

----------------------------------------------------------------------------
(* The registry implements DshJobRecord: each step of the module is, for    *)
(* every record, a step of the promise or leaves the record as it is.       *)

RecordStep(k) ==
    Record!Keeps(k) \/ Record!Register(k) \/ Record!Stop(k) \/ Record!Settle(k) \/ Record!Report(k)

\* Of a record the promise speaks only of its status and two flags.
LEMMA KeptRecord ==
    ASSUME NEW k \in Jobs, job'[k].status = job[k].status,
           job'[k].noticed = job[k].noticed,
           job'[k].reported = job[k].reported \/ (Ended(k) /\ job'[k].reported)
    PROVE  RecordStep(k)
  <1>1. CASE job'[k].reported = job[k].reported
    BY <1>1 DEF RecordStep, Record!Keeps
  <1>2. CASE Ended(k) /\ job'[k].reported
    BY <1>2 DEF RecordStep, Record!Report, Record!Terminal, Ended, Terminal
  <1>3. QED
    BY <1>1, <1>2

LEMMA TornDownRecord ==
    ASSUME IInv, NEW js \in SUBSET Jobs, CancelForTeardown(js), NEW k \in Jobs
    PROVE  RecordStep(k)
  <1>0. job \in [Jobs -> JobType] /\ Records
    BY DEF IInv, TypeOK
  <1>1. job'[k] = IF k \in js THEN TornDown(k) ELSE job[k]
    BY DEF CancelForTeardown
  <1>2. CASE k \notin js \/ ~Alive(k)
    <2>1. job'[k] = job[k]
      BY <1>0, <1>1, <1>2, TornDownFacts
    <2>2. QED
      BY <2>1, KeptRecord
  <1>3. CASE k \in js /\ Alive(k) /\ k \in Stubborn
    <2>1. job'[k].status = "failed" /\ job'[k].reported /\ ~job'[k].noticed
      BY <1>0, <1>1, <1>3, TornDownFacts
    <2>2. job'[k].noticed = ~job'[k].reported
      <3>1. job'[k].noticed \in BOOLEAN /\ job'[k].reported \in BOOLEAN
        BY <1>0, <1>1, <1>3, TornDownFacts DEF JobType
      <3>2. QED
        BY <2>1, <3>1
    <2>3. Record!Settle(k)
      BY <1>3, <2>1, <2>2 DEF Record!Settle, Record!Live, Record!Terminal, Alive, Live
    <2>4. QED
      BY <2>3 DEF RecordStep
  <1>4. CASE k \in js /\ Alive(k) /\ k \notin Stubborn
    <2>1. job'[k].status = "stopping" /\ job'[k].reported /\ ~job'[k].noticed
      BY <1>0, <1>1, <1>4, TornDownFacts DEF Records, RecordOf
    <2>2. Record!Stop(k)
      BY <1>4, <2>1 DEF Record!Stop, Record!Live, Alive, Live
    <2>3. QED
      BY <2>2 DEF RecordStep
  <1>5. QED
    BY <1>2, <1>3, <1>4

LEMMA SettledRecord ==
    ASSUME IInv, NEW j \in Jobs, Settle(j), NEW k \in Jobs
    PROVE  RecordStep(k)
  <1>0. job \in [Jobs -> JobType] /\ job[j] \in JobType /\ Records
    BY DEF IInv, TypeOK
  <1>1. CASE Ended(j) /\ job' = [job EXCEPT ![j].work = "released"]
    BY <1>0, <1>1, KeptRecord DEF JobType
  <1>2. CASE ~Ended(j) /\ Settles(j, job[j].work)
    <2> DEFINE r == Settled(job[j], job[j].work)
    <2>1. /\ job[j].work \in Terminal /\ job' = [job EXCEPT ![j] = [r EXCEPT !.work = "released"]]
      BY <1>2 DEF Settle, Settles
    <2>2. /\ r \in JobType /\ r.status = job[j].work
          /\ job[j].reported => r.reported
          /\ r.noticed = ~r.reported
      BY <1>0, <2>1, SettledFacts
    <2> HIDE DEF r
    <2>3. CASE k # j
      BY <1>0, <2>1, <2>3, KeptRecord
    <2>4. CASE k = j
      <3>1. /\ job'[j].status = r.status /\ job'[j].reported = r.reported
            /\ job'[j].noticed = r.noticed
        BY <1>0, <2>1, <2>2 DEF JobType
      <3>2. Alive(j)
        BY <1>0, <1>2, <2>1 DEF Records, RecordOf, JobType, Alive, Ended, Live, Terminal
      <3>3. Record!Settle(j)
        BY <2>1, <2>2, <3>1, <3>2 DEF Record!Settle, Record!Live, Record!Terminal, Alive, Live,
           Terminal
      <3>4. QED
        BY <2>4, <3>3 DEF RecordStep
    <2>5. QED
      BY <2>3, <2>4
  <1>3. QED
    BY <1>1, <1>2 DEF Settle

\* The steps of a call: most read, one stops.
LEMMA CallRecord ==
    ASSUME IInv, NEW c \in Calls, NEW k \in Jobs,
           \/ \E a \in Owners, j \in Jobs : Output(c, a, j) \/ Wait(c, a, j) \/ Kill(c, a, j)
           \/ Timeout(c) \/ Resume(c) \/ ReadAfterWait(c) \/ Return(c)
    PROVE  RecordStep(k)
  <1>0. job \in [Jobs -> JobType] /\ Callers /\ Records
    BY DEF IInv, TypeOK
  <1>1. ASSUME NEW j \in Jobs, job' = [job EXCEPT ![j] = Read(job[j])]
        PROVE  RecordStep(k)
    <2>1. /\ Read(job[j]).status = job[j].status /\ Read(job[j]).noticed = job[j].noticed
          /\ Ended(j) => Read(job[j]).reported
          /\ ~Ended(j) => Read(job[j]).reported = job[j].reported
      BY <1>0, ReadFacts DEF Ended, JobType
    <2>2. CASE k = j
      <3>1. job'[j] = Read(job[j])
        BY <1>0, <1>1
      <3>2. QED
        BY <2>1, <2>2, <3>1, KeptRecord
    <2>3. CASE k # j
      BY <1>0, <1>1, <2>3, KeptRecord
    <2>4. QED
      BY <2>2, <2>3
  <1>2. CASE \E a \in Owners, j \in Jobs : Output(c, a, j)
    BY <1>1, <1>2 DEF Output
  <1>3. CASE \E a \in Owners, j \in Jobs : Wait(c, a, j)
    <2>1. PICK a \in Owners, j \in Jobs : Wait(c, a, j)
      BY <1>3
    <2>2. CASE job' = [job EXCEPT ![j] = Read(job[j])]
      BY <1>1, <2>2
    <2>3. CASE job' = [job EXCEPT ![j].waiters = @ \cup {c}, ![j].waiting = @ \cup {c}]
      BY <1>0, <2>3, KeptRecord DEF JobType
    <2>4. QED
      BY <2>1, <2>2, <2>3 DEF Wait
  <1>4. CASE \E a \in Owners, j \in Jobs : Kill(c, a, j)
    <2>1. PICK a \in Owners, j \in Jobs : Kill(c, a, j)
      BY <1>4
    <2>2. CASE Ended(j) /\ job' = [job EXCEPT ![j].reported = TRUE]
      BY <1>0, <2>2, KeptRecord DEF JobType
    <2>3. CASE ~Ended(j) /\ job' = [job EXCEPT ![j] =
                   [CancelWork(job[j]) EXCEPT !.status = "stopping", !.reported = TRUE]]
      <3> DEFINE new == [CancelWork(job[j]) EXCEPT !.status = "stopping", !.reported = TRUE]
      <3>1. new.status = "stopping" /\ new.reported /\ new.noticed = job[j].noticed
        BY <1>0, CancelFacts
      <3>2. job' = [job EXCEPT ![j] = new]
        BY <2>3
      <3> HIDE DEF new
      <3>3. Alive(j)
        BY <1>0, <2>1, <2>3 DEF Kill, Calling, May, Stored, Records, RecordOf, JobType, Alive,
           Ended, Live, Terminal
      <3>4. CASE k = j
        <4>1. Record!Stop(j)
          BY <1>0, <3>1, <3>2, <3>3 DEF Record!Stop, Record!Live, Records, RecordOf, Alive, Live
        <4>2. QED
          BY <3>4, <4>1 DEF RecordStep
      <3>5. CASE k # j
        BY <1>0, <3>2, <3>5, KeptRecord
      <3>6. QED
        BY <3>4, <3>5
    <2>4. QED
      BY <2>1, <2>2, <2>3 DEF Kill
  <1>5. CASE Timeout(c)
    <2>1. job' = [job EXCEPT ![call[c].job].waiting = @ \ {c}] /\ call[c].job \in Jobs
      BY <1>0, <1>5 DEF Timeout, Callers
    <2>2. QED
      BY <1>0, <2>1, KeptRecord DEF JobType
  <1>6. CASE Resume(c)
    <2> DEFINE read == Read(job[call[c].job])
               new == [read EXCEPT !.waiters = job[call[c].job].waiters \ {c}]
    <2>1. call[c].job \in Jobs /\ job' = [job EXCEPT ![call[c].job] = new]
      BY <1>0, <1>6 DEF Resume, Callers
    <2>2. /\ read \in JobType
          /\ read.status = job[call[c].job].status /\ read.noticed = job[call[c].job].noticed
          /\ Ended(call[c].job) => read.reported
          /\ ~Ended(call[c].job) => read.reported = job[call[c].job].reported
      BY <1>0, <2>1, ReadFacts DEF Ended, JobType
    <2> HIDE DEF read
    <2>3. new.status = read.status /\ new.noticed = read.noticed /\ new.reported = read.reported
      BY <2>2 DEF JobType
    <2> HIDE DEF new
    <2>4. CASE k = call[c].job
      <3>1. job'[k] = new
        BY <1>0, <2>1, <2>4
      <3>2. QED
        BY <2>2, <2>3, <2>4, <3>1, KeptRecord
    <2>5. CASE k # call[c].job
      BY <1>0, <2>1, <2>5, KeptRecord
    <2>6. QED
      BY <2>4, <2>5
  <1>7. CASE ReadAfterWait(c)
    <2>1. call[c].job \in Jobs
      BY <1>0, <1>7 DEF ReadAfterWait, Callers
    <2>2. CASE job' = job
      BY <2>2, KeptRecord
    <2>3. CASE job' = [job EXCEPT ![call[c].job] = Read(job[call[c].job])]
      BY <1>1, <2>1, <2>3
    <2>4. QED
      BY <1>7, <2>2, <2>3 DEF ReadAfterWait
  <1>8. CASE Return(c)
    BY <1>8, KeptRecord DEF Return
  <1>9. QED
    BY <1>2, <1>3, <1>4, <1>5, <1>6, <1>7, <1>8

LEMMA StartedRecord ==
    ASSUME IInv, NEW j \in Jobs, NEW o \in Owners \cup {Nobody}, Start(j, o), NEW k \in Jobs
    PROVE  RecordStep(k)
  <1>0. job \in [Jobs -> JobType]
    BY DEF IInv, TypeOK
  <1>1. /\ job[j].status = "none"
        /\ job' = [job EXCEPT ![j] =
              [NoJob EXCEPT !.owner = o, !.status = "running", !.stored = TRUE, !.work = "busy"]]
    BY DEF Start
  <1>2. CASE k # j
    BY <1>0, <1>1, <1>2, KeptRecord
  <1>3. CASE k = j
    <2>1. job'[j].status = "running" /\ ~job'[j].reported /\ ~job'[j].noticed
      BY <1>0, <1>1 DEF NoJob
    <2>2. Record!Register(j)
      BY <1>1, <2>1 DEF Record!Register
    <2>3. QED
      BY <1>3, <2>2 DEF RecordStep
  <1>4. QED
    BY <1>2, <1>3

LEMMA StepRecords ==
    ASSUME IInv, Next
    PROVE  Record!Next
  <1> SUFFICES ASSUME NEW k \in Jobs PROVE RecordStep(k)
    BY DEF Record!Next, RecordStep
  <1>0. job \in [Jobs -> JobType] /\ job[k] \in JobType
    BY DEF IInv, TypeOK
  <1>1. CASE \E j \in Jobs, o \in Owners \cup {Nobody} : Start(j, o)
    BY <1>1, StartedRecord
  <1>2. CASE \E j \in Jobs : Settle(j)
    BY <1>2, SettledRecord
  <1>3. CASE \E j \in Jobs : Finish(j)
    <2>1. PICK j \in Jobs, w \in Terminal : job' = [job EXCEPT ![j].work = w]
      BY <1>3 DEF Finish, Terminal
    <2>2. QED
      BY <1>0, <2>1, KeptRecord DEF JobType
  <1>4. CASE \/ \E c \in Calls, a \in Owners, j \in Jobs :
                   Output(c, a, j) \/ Wait(c, a, j) \/ Kill(c, a, j)
             \/ \E c \in Calls : Timeout(c) \/ Resume(c) \/ ReadAfterWait(c) \/ Return(c)
    BY <1>4, CallRecord
  <1>5. CASE \E a \in Owners : Wake(a) \/ Claim(a) \/ Rest(a) \/ Dispose(a)
    BY <1>5, KeptRecord DEF Wake, Claim, Rest, Dispose
  <1>6. CASE \E a \in Owners : Cancel(a)
    <2>1. PICK a \in Owners : job' = Uncounted(a)
      BY <1>6 DEF Cancel
    <2>2. QED
      BY <1>0, <2>1, KeptRecord DEF Uncounted, JobType
  <1>7. CASE \E a \in Owners : Cleanup(a)
    <2>1. PICK a \in Owners : CancelForTeardown(IF agent[a].attached THEN Owned(a) ELSE {})
      BY <1>7 DEF Cleanup
    <2>2. (IF agent[a].attached THEN Owned(a) ELSE {}) \in SUBSET Jobs
      BY DEF Owned
    <2>3. QED
      BY <2>1, <2>2, TornDownRecord
  <1>8. CASE \E a \in Owners : Drained(a)
    <2>1. PICK a \in Owners :
            job' = [j \in Jobs |->
                IF j \in agent[a].draining THEN [job[j] EXCEPT !.stored = FALSE] ELSE job[j]]
      BY <1>8 DEF Drained
    <2>2. QED
      BY <1>0, <2>1, KeptRecord DEF JobType
  <1>9. CASE Close
    <2>1. {j \in Jobs : Stored(j)} \in SUBSET Jobs
      OBVIOUS
    <2>2. QED
      BY <1>9, <2>1, TornDownRecord DEF Close
  <1>10. CASE Down
    BY <1>0, <1>10, KeptRecord DEF Down, JobType
  <1>11. QED
    BY <1>1, <1>2, <1>3, <1>4, <1>5, <1>6, <1>7, <1>8, <1>9, <1>10 DEF Next

\* Every record keeps the promise of DshJobRecord: one terminal status, a
\* report never taken back, and an announcement exactly when nobody had claimed
\* the report by then (settle, kill, read, cancelForTeardown).
THEOREM RecordsAreKept == Spec => KeepsRecord
  <1>1. Init => Record!Init
    BY DEF Init, NoJob, Record!Init
  <1>2. IInv /\ [Next]_vars => [Record!Next]_(Record!vars)
    <2> SUFFICES ASSUME IInv, [Next]_vars PROVE [Record!Next]_(Record!vars)
      OBVIOUS
    <2>1. CASE Next
      BY <2>1, StepRecords
    <2>2. CASE UNCHANGED vars
      BY <2>2 DEF vars, Record!vars
    <2>3. QED
      BY <2>1, <2>2
  <1>3. QED
    BY <1>1, <1>2, InitInv, StepKeeps, PTL DEF Spec, KeepsRecord, Record!Spec
==============================================================================
