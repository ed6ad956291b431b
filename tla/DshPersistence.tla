--------------------------- MODULE DshPersistence ---------------------------
(***************************************************************************)
(* Persistence of one session id: the coordinator (coordinator.ts), its    *)
(* pool of prepared sessions (preparations.ts), the JSONL backend's file   *)
(* (session-persistence-jsonl) and the lifecycles that create, resume and  *)
(* end the session (core/session, core/agent-loop).                        *)
(*                                                                         *)
(* The process is single threaded: an action runs from one await to the    *)
(* next. What overlaps are the promises: the lifecycles' writers, the      *)
(* callers of prepare and inspect, and the chain that serialises every     *)
(* storage operation of the id. A crash keeps the file only. Microtasks    *)
(* (continuations) run before timers do.                                   *)
(*                                                                         *)
(* A slot holds one lifecycle (a Session object and its controller) from   *)
(* its publication until the coordinator has forgotten it.                 *)
(***************************************************************************)
EXTENDS Naturals, Sequences, FiniteSets, SequencesExt, DshWriteBehind

CONSTANTS
    Slots,       \* lifecycles that may exist at once
    Clients,     \* concurrent callers of prepare and inspect
    MaxEvents,   \* a lifecycle's own turn events stop at this log length
    MaxTrouble   \* failures, crashes, aborts, evictions, reloads, foreign writes

ASSUME SlotsAssumption == Slots \subseteq Nat \ {0}
ASSUME BoundsAssumption == MaxEvents \in Nat /\ MaxTrouble \in Nat

VARIABLES
    file,       \* the log on disk: complete frames, and a torn last frame
    tracked,    \* states.get(id): the durable cursor and its owner
    entry,      \* the pool's entry for the id
    chain,      \* operations queued on the id; the first one is running
    session,    \* the lifecycles
    retiring,   \* retirements.get(id): the slot being retired
    client,     \* the callers
    up,         \* the write path listens; FALSE while the plugin is disposed
    acked,      \* the events a resolved flush vouched for
    trouble     \* mishaps so far

vars == <<file, tracked, entry, chain, session, retiring, client, up, acked, trouble>>

Kinds == {"turn/start", "turn/end", "session/end-seed", "note"}
Event == [kind : Kinds, by : {0} \cup Slots]

(* 0 stands for no slot, and for the author of what no lifecycle wrote.    *)
None == [cursor |-> 0, owner |-> 0, known |-> FALSE]
NoFile == [log |-> <<>>, torn |-> FALSE, extra |-> <<>>]
NoEntry == [phase |-> "none", src |-> NoFile]

Unused ==
    [life |-> "none", events |-> <<>>, handed |-> 0, init |-> "ok", atInit |-> {}, atBarrier |-> {},
     w |-> NewWriter]

Idle ==
    [does |-> "prepare", pc |-> "idle", seen |-> FALSE, on |-> 0, src |-> NoFile,
     log |-> <<>>, cut |-> FALSE, floor |-> <<>>, fresh |-> TRUE]

-----------------------------------------------------------------------------
(* Logs.                                                                   *)

(* The last turn that was started has not ended.                           *)
OpenTurn(log) ==
    \E i \in DOMAIN log :
        /\ log[i].kind = "turn/start"
        /\ \A j \in DOMAIN log : j > i => log[j].kind # "turn/end"

Closers(log) == IF OpenTurn(log) THEN <<[kind |-> "turn/end", by |-> 0]>> ELSE <<>>

(* loadStored: the events of the complete frames and the records decoded   *)
(* from a torn last one.                                                   *)
Stored(src) == src.log \o src.extra
Balanced(src) == Stored(src) \o Closers(Stored(src))
NeedsRepair(src) == src.torn \/ Closers(Stored(src)) # <<>>

(* The Session constructor marks the end of what it was seeded with, once. *)
Seeded(log) ==
    IF log # <<>> /\ Last(log).kind = "session/end-seed" THEN log
    ELSE Append(log, [kind |-> "session/end-seed", by |-> 0])

-----------------------------------------------------------------------------
(* The pool and the chain.                                                 *)

Present == {s \in Slots : session[s].life \in {"live", "vetoed"}}   \* ctx.sessions.get(id)
Free == {s \in Slots : session[s].life = "none"}
InUse == Slots \ Free

(* What removing the entry does to those who joined it (they are woken)    *)
(* and to the load that would have filled it.                              *)
\* Mutant: removing an entry does not settle its reservation.
UnseenByNobody(cl) == cl

Unseen(cl) == [c \in Clients |-> [cl[c] EXCEPT !.seen = FALSE]]
Orphaned(q) ==
    [i \in DOMAIN q |-> IF q[i].kind = "load" THEN [q[i] EXCEPT !.mine = FALSE] ELSE q[i]]

LoadOp == [kind |-> "load", mine |-> TRUE]
CommitOp(c, src) == [kind |-> "commit", who |-> c, src |-> src, stage |-> "queued"]
CheckOp(c) == [kind |-> "check", who |-> c]
VoidOp == [kind |-> "void"]
WriteOp(s) == [kind |-> "write", who |-> s, stage |-> "queued", from |-> 0, batch |-> <<>>]
SeedOp(s, from, batch) ==
    [kind |-> "seed", who |-> s, stage |-> "queued", from |-> from, batch |-> batch]
CreatedOp(s, seed) == [kind |-> "created", who |-> s, batch |-> seed]
RetireOp(s) == [kind |-> "retire", who |-> s]

Head1(kind) == chain # <<>> /\ chain[1].kind = kind
Running == chain[1]
Queued(kind, who) == \E i \in DOMAIN chain : chain[i].kind = kind /\ chain[i].who = who

(* How a caller's turn ends: it tries again from the retirement, where one *)
(* that was cut throws at once; it throws (after which a configured prepare *)
(* lists the store and, finding no log, creates the session); or it returns *)
(* a view, fresh when that covers what was durable at the call.            *)
Again(c) ==
    [client[c] EXCEPT !.pc = "retirement", !.seen = FALSE, !.on = retiring, !.src = NoFile]
Retries(c) == IF client[c].cut THEN Idle ELSE Again(c)
Failed(c) ==
    IF client[c].does = "prepare" /\ file.log = <<>> /\ Present = {}
    THEN [Idle EXCEPT !.pc = "absent"] ELSE Idle
Told(c, view) == [Idle EXCEPT !.fresh = IsPrefix(client[c].floor, view)]
LiveView == session[CHOOSE s \in Present : TRUE].events

Writable == entry.phase \notin {"committing", "reserved"}

Spend == trouble < MaxTrouble /\ trouble' = trouble + 1

(* A continuation is ready to run: a settled promise someone awaits. Timers *)
(* fire and I/O completes only when there is none.                          *)
Microtasks ==
    \/ \E s \in Slots :
          \/ session[s].w.next # "none"
          \/ session[s].init # "pending" /\ session[s].atInit # {}
          \/ session[s].init # "pending" /\ Active(session[s].w) /\ ~Queued("write", s)
    \/ \E c \in Clients :
          \/ client[c].pc = "retirement" /\ client[c].on = 0
          \/ client[c].pc = "entry" /\ client[c].seen /\ entry.phase = "ready"
          \/ client[c].pc = "loaded"
          \/ /\ client[c].pc = "entry" /\ ~client[c].seen
             /\ \A i \in DOMAIN chain : chain[i].kind = "load" => chain[i].mine
    \/ chain # <<>> /\ (chain[1].kind = "void" \/ chain[1].kind = "retire")
    \/ chain # <<>> /\ chain[1].kind \in {"write", "seed"} /\ chain[1].stage = "queued"
Quiet == ~Microtasks /\ \A c \in Clients : client[c].pc # "absent"

-----------------------------------------------------------------------------
(* Flush: callers wait for the lifecycle's initialisation, then for the    *)
(* writer's barrier.                                                       *)

Callers == {"checkpoint", "retire", "unload"}
Waiting(s) == session[s].atInit \cup session[s].atBarrier

CallFlush(rec, caller) ==
    [rec EXCEPT !.w = CancelWait(@), !.atInit = @ \cup {caller}]

(* Answer the callers `who` of slot s. A resolved flush vouches for every  *)
(* event handed over; a retirement that drained releases the lifecycle     *)
(* next on the chain, one that did not is forgotten and its waiters throw. *)
Answer(s, who, ok) ==
    /\ acked' = IF ok /\ who # {} THEN SubSeq(session[s].events, 1, session[s].handed) ELSE acked
    /\ chain' = IF ok /\ "retire" \in who THEN Append(chain, RetireOp(s)) ELSE chain
    /\ LET failed == ~ok /\ "retire" \in who
       IN  /\ retiring' = IF failed /\ retiring = s THEN 0 ELSE retiring
           /\ client' = [c \in Clients |->
                 IF failed /\ client[c].pc = "retirement" /\ client[c].on = s
                 THEN Failed(c) ELSE client[c]]

(* The writer of s moves to w; if that closes its barrier, its callers are *)
(* answered.                                                               *)
Advance(s, w, rejected) ==
    IF session[s].w.barrier # "none" /\ w.barrier = "none"
    THEN /\ session' = [session EXCEPT ![s].w = w, ![s].atBarrier = {}]
         /\ Answer(s, session[s].atBarrier, ~rejected)
    ELSE /\ session' = [session EXCEPT ![s].w = w]
         /\ UNCHANGED <<acked, chain, retiring, client>>

Checkpoint(s) ==
    /\ session[s].life = "live" /\ "checkpoint" \notin Waiting(s) /\ Quiet /\ up
    /\ session' = [session EXCEPT ![s] = CallFlush(@, "checkpoint")]
    /\ UNCHANGED <<file, tracked, entry, chain, retiring, client, acked, trouble, up>>

FlushReady(s) ==
    /\ \E caller \in session[s].atInit :
          \/ /\ session[s].init = "failed"
             /\ session' = [session EXCEPT ![s].w = CancelWait(@), ![s].atInit = @ \ {caller}]
             /\ Answer(s, {caller}, FALSE)
          \/ /\ session[s].init = "ok"
             /\ LET w == Flush(session[s].w)
                    closed == w.barrier = "none"
                IN  /\ session' = [session EXCEPT ![s].w = w, ![s].atInit = @ \ {caller},
                                      ![s].atBarrier = IF closed THEN @ ELSE @ \cup {caller}]
                    /\ Answer(s, IF closed THEN {caller} ELSE {}, TRUE)
    /\ UNCHANGED <<file, tracked, entry, trouble, up>>

(* The writer's own steps.                                                 *)
Deadline(s) ==
    /\ session[s].w.timer /\ Quiet
    /\ session' = [session EXCEPT ![s].w = OnDeadline(@)]
    /\ UNCHANGED <<file, tracked, entry, chain, retiring, client, acked, trouble, up>>

WriteReady(s) ==
    /\ Active(session[s].w) /\ ~Queued("write", s)
    /\ \/ /\ session[s].init = "ok"
          /\ chain' = Append(chain, WriteOp(s))
          /\ UNCHANGED session
       \/ /\ session[s].init = "failed"
          /\ session' = [session EXCEPT ![s].w = Settle(@, FALSE)]
          /\ UNCHANGED chain
    /\ UNCHANGED <<file, tracked, entry, retiring, client, acked, trouble, up>>

Proceed(s) ==
    /\ session[s].w.next # "none"
    /\ Advance(s, Continue(session[s].w), session[s].w.next = "reject")
    /\ UNCHANGED <<file, tracked, entry, trouble, up>>

-----------------------------------------------------------------------------
(* Lifecycles.                                                             *)

(* Session.append, observed by the write path, if it listens, in the same  *)
(* call.                                                                   *)
Emit(s) ==
    /\ session[s].life = "live" /\ Len(session[s].events) < MaxEvents
    /\ LET kind == IF OpenTurn(session[s].events) THEN "turn/end" ELSE "turn/start"
           rec  == [session[s] EXCEPT !.events = Append(@, [kind |-> kind, by |-> s])]
           seq  == Len(rec.events)
       IN  session' = [session EXCEPT ![s] =
              IF up THEN [rec EXCEPT !.handed = seq, !.w = Enqueue(@, seq)] ELSE rec]
    /\ UNCHANGED <<file, tracked, entry, chain, retiring, client, acked, trouble, up>>

(* detachEntered: the session leaves the store and, when the coordinator   *)
(* knows it and listens, starts to retire.                                 *)
End(s) ==
    /\ Quiet
    /\ \/ /\ session[s].life = "live" /\ up
          /\ session' = [session EXCEPT ![s] = [CallFlush(@, "retire") EXCEPT !.life = "ended"]]
          /\ retiring' = s
       \/ /\ session[s].life = "live" /\ ~up
          /\ session' = [session EXCEPT ![s].life = "ended"]
          /\ UNCHANGED retiring
       \/ /\ session[s].life = "vetoed"
          /\ session' = [session EXCEPT ![s] = Unused]
          /\ UNCHANGED retiring
    /\ UNCHANGED <<file, tracked, entry, chain, client, acked, trouble, up>>

(* Publication of the events `log` in slot s: enter, announce and the      *)
(* coordinator's initFor. The session takes its own reservation, or        *)
(* initialises from scratch, or is vetoed by an entry that is not its own. *)
Attachable(log) ==
    /\ tracked.owner = 0
    /\ tracked.cursor = Len(Balanced(entry.src))
    /\ tracked.cursor <= Len(log)

Enter(s, log, init) ==
    session' = [session EXCEPT ![s] =
        [Unused EXCEPT !.life = "live", !.events = log, !.handed = Len(log), !.init = init]]

Veto(s) == session' = [session EXCEPT ![s] = [Unused EXCEPT !.life = "vetoed"]]

AttachPrepared(s, log) ==
    LET suffix == SubSeq(log, tracked.cursor + 1, Len(log))
    IN  /\ Enter(s, log, IF suffix = <<>> THEN "ok" ELSE "pending")
        /\ tracked' = [tracked EXCEPT !.owner = s]
        /\ entry' = NoEntry
        /\ chain' = IF suffix = <<>> THEN Orphaned(chain)
                    ELSE Append(Orphaned(chain), SeedOp(s, tracked.cursor + 1, suffix))

AttachNew(s, log) ==
    /\ Enter(s, log, "pending")
    /\ chain' = Append(chain, CreatedOp(s, log))
    /\ UNCHANGED <<tracked, entry>>

-----------------------------------------------------------------------------
(* Appends, all at the head of the chain.                                  *)

(* How an append of a writer's batch or of an initialisation settles.      *)
Settled(op, ok) ==
    IF op.kind = "write" THEN [session EXCEPT ![op.who].w = Settle(@, ok)]
    ELSE [session EXCEPT ![op.who].init = IF ok THEN "ok" ELSE "failed"]

(* appendLiveBatch drops what initialisation has stored: a batch is in      *)
(* order, so that is how it begins. What is left must continue the log.     *)
Fresh(s) ==
    LET batch  == session[s].w.batch
        stored == {i \in DOMAIN batch : batch[i] <= tracked.cursor}
    IN  SubSeq(batch, Cardinality(stored) + 1, Len(batch))

AppendBegin ==
    /\ Head1("write") \/ Head1("seed")
    /\ Running.stage = "queued"
    /\ LET op    == Running
           seqs  == IF op.kind = "write" THEN Fresh(op.who)
                    ELSE [i \in DOMAIN op.batch |-> op.from + i - 1]
           legal == Writable /\ \A i \in DOMAIN seqs : seqs[i] = tracked.cursor + i
       IN  IF seqs # <<>> /\ legal
           THEN /\ chain' = [chain EXCEPT ![1] = [@ EXCEPT !.stage = "io",
                       !.batch = [i \in DOMAIN seqs |-> session[op.who].events[seqs[i]]]]]
                /\ UNCHANGED session
           ELSE chain' = Tail(chain) /\ session' = Settled(op, seqs = <<>>)
    /\ UNCHANGED <<file, tracked, entry, retiring, client, acked, trouble, up>>

Appending == (Head1("write") \/ Head1("seed")) /\ Running.stage = "io"

(* The frame is synced: advance the cursor and drop the prepared view.     *)
AppendCommits ==
    /\ Appending /\ Quiet
    /\ file' = [file EXCEPT !.log = @ \o Running.batch]
    /\ tracked' = [tracked EXCEPT !.cursor = @ + Len(Running.batch)]
    /\ entry' = NoEntry
    /\ client' = Unseen(client)
    /\ chain' = Orphaned(Tail(chain))
    /\ session' = Settled(Running, TRUE)
    /\ UNCHANGED <<retiring, acked, trouble, up>>

(* The write or its sync fails and the file is rolled back.                *)
AppendFails ==
    /\ Appending /\ Quiet /\ Spend
    /\ chain' = Tail(chain)
    /\ session' = Settled(Running, FALSE)
    /\ UNCHANGED <<file, tracked, entry, retiring, client, acked, up>>

\* Mutant: an id is free until something is stored under it.
CollidesWhenStored == tracked.owner # 0 /\ tracked.cursor > 0

(* onCreated, up to the append of the seed beyond what is stored: an owner *)
(* with something stored, or still to store, keeps the id.                 *)
CollidesWithOwner ==
    /\ tracked.owner # 0
    /\ tracked.cursor > 0 \/ HasWork(session[tracked.owner].w)

(* By then the state of an owner that stored nothing is deleted.           *)
InitFails(s) ==
    /\ chain' = Tail(chain)
    /\ session' = [session EXCEPT ![s].init = "failed"]
    /\ tracked' = IF tracked.owner # 0 /\ ~CollidesWithOwner THEN None ELSE tracked
    /\ UNCHANGED file

InitOwns(s, seed, cursor) ==
    LET suffix == SubSeq(seed, cursor + 1, Len(seed))
    IN  /\ tracked' = [cursor |-> cursor, owner |-> s, known |-> TRUE]
        /\ IF suffix = <<>>
           THEN /\ chain' = Tail(chain)
                /\ session' = [session EXCEPT ![s].init = "ok"]
           ELSE /\ chain' = <<SeedOp(s, cursor + 1, suffix)>> \o Tail(chain)
                /\ UNCHANGED session

(* seedCoversPrefix: the live session's events begin with what is stored.  *)
Covers(seed, stored) == IsPrefix(stored, seed)

Created ==
    /\ Head1("created") /\ Quiet
    /\ LET s == Running.who
           seed == Running.batch
           claim == tracked.known /\ tracked.owner = 0
           stored == IF claim THEN SubSeq(Stored(file), 1, tracked.cursor) ELSE Stored(file)
       IN  \/ /\ \/ tracked.known /\ CollidesWithOwner
                 \/ ~Covers(seed, stored)
                 \/ ~claim /\ stored = <<>> /\ entry # NoEntry
              /\ InitFails(s)
           \/ /\ ~(tracked.known /\ CollidesWithOwner)
              /\ Covers(seed, stored)
              /\ claim \/ stored # <<>> \/ entry = NoEntry
              /\ InitOwns(s, seed, Len(stored))
              /\ file' = IF claim THEN file ELSE [NoFile EXCEPT !.log = stored]
    /\ UNCHANGED <<entry, retiring, client, acked, trouble, up>>

\* Mutant: a retirement that has ended is never forgotten.
RetireRemembered ==
    /\ Head1("retire")
    /\ session' = [session EXCEPT ![Running.who] = Unused]
    /\ tracked' = IF tracked.owner = Running.who THEN None ELSE tracked
    /\ client' = [c \in Clients |->
          IF client[c].pc = "retirement" /\ client[c].on = Running.who
          THEN [client[c] EXCEPT !.on = 0] ELSE client[c]]
    /\ chain' = Tail(chain)
    /\ UNCHANGED <<file, entry, retiring, acked, trouble, up>>

(* retireCore's last step, after the flush.                                *)
Retire ==
    /\ Head1("retire")
    /\ LET s == Running.who
       IN  /\ session' = [session EXCEPT ![s] = Unused]
           /\ tracked' = IF tracked.owner = s THEN None ELSE tracked
           /\ retiring' = IF retiring = s THEN 0 ELSE retiring
           /\ client' = [c \in Clients |->
                 IF client[c].pc = "retirement" /\ client[c].on = s
                 THEN [client[c] EXCEPT !.on = 0] ELSE client[c]]
    /\ chain' = Tail(chain)
    /\ UNCHANGED <<file, entry, acked, trouble, up>>

-----------------------------------------------------------------------------
(* Callers of prepare and inspect.                                         *)

(* Caller cl, as c, joins the pool's entry, starting its load if there is none. *)
Look(c, cl) ==
    IF Present # {}
    THEN /\ client' = [client EXCEPT ![c] =
                 IF cl.does = "inspect" THEN Told(c, LiveView) ELSE Failed(c)]
         /\ UNCHANGED <<entry, chain>>
    ELSE LET loaded == cl.does = "inspect" /\ entry.phase \notin {"none", "loading"}
         IN  /\ client' = [client EXCEPT ![c] = [cl EXCEPT
                    !.pc = IF loaded THEN "loaded" ELSE "entry", !.seen = TRUE,
                    !.src = IF loaded THEN entry.src ELSE NoFile]]
             /\ IF entry.phase = "none"
                THEN entry' = [NoEntry EXCEPT !.phase = "loading"] /\ chain' = Append(chain, LoadOp)
                ELSE UNCHANGED <<entry, chain>>

(* A call. prepare always awaits the retirement, inspect only if there is  *)
(* one.                                                                    *)
Ask(c) ==
    /\ client[c].pc = "idle" /\ ~Microtasks /\ up
    /\ \/ /\ client' = [client EXCEPT ![c] = [Idle EXCEPT !.pc = "retirement", !.on = retiring]]
          /\ UNCHANGED <<entry, chain>>
       \/ LET cl == [Idle EXCEPT !.does = "inspect", !.floor = file.log]
          IN  IF retiring = 0 THEN Present = {} /\ Look(c, cl)
              ELSE /\ client' = [client EXCEPT ![c] =
                                   [cl EXCEPT !.pc = "retirement", !.on = retiring]]
                   /\ UNCHANGED <<entry, chain>>
    /\ UNCHANGED <<file, tracked, session, retiring, acked, trouble, up>>

Retired(c) ==
    /\ client[c].pc = "retirement" /\ client[c].on = 0
    /\ Look(c, client[c])
    /\ UNCHANGED <<file, tracked, session, retiring, acked, trouble, up>>

(* Those whose load the running operation is.                              *)
Awaiting == {c \in Clients : client[c].pc = "entry" /\ client[c].seen = Running.mine}

(* prepareCore: read the file and build the unpublished session.           *)
Load ==
    /\ Head1("load") /\ Quiet
    /\ file # NoFile /\ Present = {}
    /\ entry' = IF Running.mine THEN [phase |-> "ready", src |-> file] ELSE entry
    /\ client' = [c \in Clients |->
          IF c \in Awaiting /\ client[c].does = "inspect"
          THEN [client[c] EXCEPT !.pc = "loaded", !.src = file] ELSE client[c]]
    /\ chain' = Tail(chain)
    /\ UNCHANGED <<file, tracked, session, retiring, acked, trouble, up>>

(* The load throws: nothing is stored or the id has become live, or the    *)
(* read fails.                                                             *)
LoadThrows ==
    /\ entry' = IF Running.mine THEN NoEntry ELSE entry
    /\ client' = [c \in Clients |->
          IF c \notin Awaiting THEN client[c]
          ELSE IF client[c].does = "inspect" /\ Present # {} THEN Told(c, LiveView)
          ELSE Failed(c)]
    /\ chain' = Tail(chain)
    /\ UNCHANGED <<file, tracked, session, retiring, acked, up>>

NothingToLoad ==
    /\ Head1("load") /\ Quiet
    /\ file = NoFile \/ Present # {}
    /\ LoadThrows /\ UNCHANGED trouble

LoadFails ==
    /\ Head1("load") /\ Quiet
    /\ file # NoFile /\ Present = {}
    /\ LoadThrows /\ Spend

(* A joined entry is gone once the load it awaited has run.                *)
EntryLost(c) ==
    /\ client[c].pc = "entry" /\ ~client[c].seen
    /\ \A i \in DOMAIN chain : chain[i].kind = "load" => chain[i].mine
    /\ client' = [client EXCEPT ![c] = Again(c)]
    /\ UNCHANGED <<file, tracked, entry, chain, session, retiring, acked, trouble, up>>

(* reserve: the first to find the entry ready commits it.                  *)
Reserve(c) ==
    /\ client[c].pc = "entry" /\ client[c].seen
    /\ client[c].does = "prepare" /\ entry.phase = "ready"
    /\ entry' = [entry EXCEPT !.phase = "committing"]
    /\ chain' = Append(chain, CommitOp(c, entry.src))
    /\ client' = [client EXCEPT ![c].pc = "commit"]
    /\ UNCHANGED <<file, tracked, session, retiring, acked, trouble, up>>

\* Mutant: the revision of a cached source is not compared.
CurrentUnchecked(src) == TRUE

(* isPreparedSourceCurrent: the file still has the revision of src.        *)
Current(src) == src = file

(* Caller c, done with its entry, removes it and moves on as r; q is the   *)
(* chain that remains.                                                     *)
Drop(c, q, r) ==
    IF client[c].seen
    THEN /\ entry' = NoEntry /\ chain' = Orphaned(q)
         /\ client' = [Unseen(client) EXCEPT ![c] = r]
    ELSE /\ UNCHANGED entry /\ chain' = q
         /\ client' = [client EXCEPT ![c] = r]

(* commitPrepared: an owner or an I/O failure throws; a changed file is    *)
(* reloaded; a repair is written first, and then reloaded too.             *)
CommitThrows ==
    /\ Drop(Running.who, Tail(chain), Failed(Running.who))
    /\ UNCHANGED <<file, tracked, session, retiring, acked, up>>

CommitOwned ==
    /\ Head1("commit") /\ Quiet /\ Running.stage = "queued" /\ tracked.owner # 0
    /\ CommitThrows /\ UNCHANGED trouble

CommitFails ==
    /\ Head1("commit") /\ Quiet /\ tracked.owner = 0 /\ Spend
    /\ CommitThrows

CommitStale ==
    /\ Head1("commit") /\ Quiet /\ Running.stage = "queued"
    /\ tracked.owner = 0 /\ ~Current(Running.src)
    /\ Drop(Running.who, Tail(chain), Retries(Running.who))
    /\ UNCHANGED <<file, tracked, session, retiring, acked, trouble, up>>

CommitRepairs ==
    /\ Head1("commit") /\ Quiet /\ Running.stage = "queued"
    /\ tracked.owner = 0 /\ Current(Running.src) /\ NeedsRepair(Running.src)
    /\ chain' = [chain EXCEPT ![1].stage = IF Running.src.torn THEN "truncate" ELSE "repair"]
    /\ UNCHANGED <<file, tracked, entry, session, retiring, client, acked, trouble, up>>

Repairs(src) == src.extra \o Closers(Stored(src))

Truncate ==
    /\ Head1("commit") /\ Quiet /\ Running.stage = "truncate"
    /\ file' = [NoFile EXCEPT !.log = file.log]
    /\ IF Repairs(Running.src) # <<>>
       THEN /\ chain' = [chain EXCEPT ![1].stage = "repair"]
            /\ UNCHANGED <<entry, client>>
       ELSE Drop(Running.who, Tail(chain), Retries(Running.who))
    /\ UNCHANGED <<tracked, session, retiring, acked, trouble, up>>

Repair ==
    /\ Head1("commit") /\ Quiet /\ Running.stage = "repair"
    /\ file' = [file EXCEPT !.log = @ \o Repairs(Running.src)]
    /\ Drop(Running.who, Tail(chain), Retries(Running.who))
    /\ UNCHANGED <<tracked, session, retiring, acked, trouble, up>>

(* The log is current and balanced: its cursor is established, ownerless,  *)
(* and the caller holds the prepared session unless it was cancelled, its  *)
(* entry was removed, or the id has become live.                           *)
Commits ==
    /\ Head1("commit") /\ Quiet /\ Running.stage = "queued"
    /\ tracked.owner = 0 /\ Current(Running.src) /\ ~NeedsRepair(Running.src)
    /\ tracked' = [cursor |-> Len(Running.src.log), owner |-> 0, known |-> TRUE]
    /\ LET c == Running.who
       IN  IF client[c].cut
           THEN /\ entry' = IF client[c].seen THEN [entry EXCEPT !.phase = "ready"] ELSE entry
                /\ client' = [client EXCEPT ![c] = Idle]
                /\ chain' = Tail(chain)
           ELSE IF ~client[c].seen \/ Present # {}
           THEN Drop(c, Tail(chain), IF client[c].seen THEN Failed(c) ELSE Again(c))
           ELSE /\ entry' = [entry EXCEPT !.phase = "reserved"]
                /\ client' = [client EXCEPT ![c].pc = "reserved", ![c].log = Seeded(Running.src.log)]
                /\ chain' = Tail(chain)
    /\ UNCHANGED <<file, session, retiring, acked, trouble, up>>

(* Agent setup writes to the unpublished session.                          *)
Setup(c) ==
    /\ client[c].pc = "reserved" /\ client[c].log = Seeded(entry.src.log)
    /\ Len(client[c].log) < MaxEvents
    /\ client' = [client EXCEPT ![c].log = Append(@, [kind |-> "note", by |-> 0])]
    /\ UNCHANGED <<file, tracked, entry, chain, session, retiring, acked, trouble, up>>

NextSlot == {s \in Free : \A t \in Free : s <= t}

Publish(c) ==
    /\ client[c].pc = "reserved" /\ Present = {} /\ Attachable(client[c].log)
    /\ \E s \in NextSlot : AttachPrepared(s, client[c].log)
    /\ client' = [Unseen(client) EXCEPT ![c] = Idle]
    /\ UNCHANGED <<file, retiring, acked, trouble, up>>

(* Setup or the attachment fails, or the id is taken: an untouched session *)
(* is kept ready.                                                          *)
Release(c) ==
    /\ client[c].pc = "reserved"
    /\ IF tracked.owner = 0 /\ client[c].log = Seeded(entry.src.log)
       THEN /\ entry' = [entry EXCEPT !.phase = "ready"]
            /\ client' = [client EXCEPT ![c] = Failed(c)]
            /\ UNCHANGED chain
       ELSE Drop(c, chain, Failed(c))
    /\ UNCHANGED <<file, tracked, session, retiring, acked, trouble, up>>

(* After a failed prepare and a store without a log: report the failure,   *)
(* or create the session (restoreOrCreateConfigured).                      *)
GiveUp(c) ==
    /\ client[c].pc = "absent"
    /\ client' = [client EXCEPT ![c] = Idle]
    /\ UNCHANGED <<file, tracked, entry, chain, session, retiring, acked, trouble, up>>

Create(c) ==
    /\ client[c].pc = "absent" /\ file.log = <<>>
    /\ client' = [client EXCEPT ![c] = Idle]
    /\ \/ /\ Present # {}
          /\ UNCHANGED <<session, tracked, entry, chain>>
       \/ /\ Present = {} /\ entry = NoEntry
          /\ \E s \in NextSlot : \E seed \in {<<>>, <<[kind |-> "note", by |-> s]>>} :
                AttachNew(s, seed)
       \/ /\ Present = {} /\ entry # NoEntry
          /\ \E s \in NextSlot : Veto(s)
          /\ UNCHANGED <<tracked, entry, chain>>
    /\ UNCHANGED <<file, retiring, acked, trouble, up>>

(* inspect, with the source in hand: check its revision unless the id has  *)
(* become live.                                                            *)
Inspect(c) ==
    /\ client[c].pc = "loaded"
    /\ IF Present # {}
       THEN client' = [client EXCEPT ![c] = Told(c, LiveView)] /\ UNCHANGED chain
       ELSE /\ client' = [client EXCEPT ![c].pc = "check"]
            /\ chain' = Append(chain, CheckOp(c))
    /\ UNCHANGED <<file, tracked, entry, session, retiring, acked, trouble, up>>

Check ==
    /\ Head1("check") /\ Quiet
    /\ LET c == Running.who
           src == client[c].src
           stale == Present = {} /\ ~Current(src)
           cached == entry.phase # "none" /\ entry.src = src
       IN  \/ /\ ~stale
              /\ client' = [client EXCEPT ![c] =
                     Told(c, IF Present # {} THEN LiveView ELSE Balanced(src))]
              /\ chain' = Tail(chain) /\ UNCHANGED entry
           \/ /\ stale /\ cached /\ entry.phase # "ready"
              /\ client' = [client EXCEPT ![c] = Idle]    \* borrowed from its holder
              /\ chain' = Tail(chain) /\ UNCHANGED entry
           \/ /\ stale /\ cached /\ entry.phase = "ready"
              /\ client' = [Unseen(client) EXCEPT ![c] = Again(c)]
              /\ chain' = Orphaned(Tail(chain)) /\ entry' = NoEntry
           \/ /\ stale /\ ~cached
              /\ client' = [client EXCEPT ![c] = Again(c)]
              /\ chain' = Tail(chain) /\ UNCHANGED entry
    /\ UNCHANGED <<file, tracked, session, retiring, acked, trouble, up>>

(* Reading the revision fails: the caller throws, unless the id is live.   *)
CheckFails ==
    /\ Head1("check") /\ Quiet /\ Spend
    /\ client' = [client EXCEPT ![Running.who] =
           IF Present # {} THEN Told(Running.who, LiveView) ELSE Idle]
    /\ chain' = Tail(chain)
    /\ UNCHANGED <<file, tracked, entry, session, retiring, acked, up>>

(* Cancellation. A commit at the head of the chain has started and runs to *)
(* its end; one behind another operation becomes a no-op there.            *)
Abort(c) ==
    /\ client[c].does = "prepare" /\ ~client[c].cut /\ Spend
    /\ \/ /\ client[c].pc \in {"retirement", "entry"}
          /\ client' = [client EXCEPT ![c] = Idle]
          /\ UNCHANGED <<entry, chain>>
       \/ /\ client[c].pc = "commit"
          /\ \E i \in DOMAIN chain :
                /\ chain[i].kind = "commit" /\ chain[i].who = c
                /\ IF i > 1
                   THEN Drop(c, [chain EXCEPT ![i] = VoidOp], Idle)
                   ELSE /\ client' = [client EXCEPT ![c].cut = TRUE]
                        /\ UNCHANGED <<entry, chain>>
    /\ UNCHANGED <<file, tracked, session, retiring, acked, up>>

Void ==
    /\ Head1("void")
    /\ chain' = Tail(chain)
    /\ UNCHANGED <<file, tracked, entry, session, retiring, client, acked, trouble, up>>

-----------------------------------------------------------------------------
(* The environment.                                                        *)

(* Other ids push a ready entry out of the LRU.                            *)
Evict ==
    /\ entry.phase = "ready" /\ Quiet /\ Spend
    /\ entry' = NoEntry /\ client' = Unseen(client)
    /\ UNCHANGED <<file, tracked, chain, session, retiring, acked, up>>

(* Another process resumes the id, works and leaves, while none here does  *)
(* more than read or cache it (one live writer at a time).                 *)
ForeignResume ==
    /\ file # NoFile /\ Len(file.log) < MaxEvents
    /\ InUse = {} /\ Writable /\ tracked.owner = 0 /\ Spend
    /\ file' = [NoFile EXCEPT !.log = Append(Seeded(Balanced(file)), [kind |-> "note", by |-> 0])]
    /\ UNCHANGED <<tracked, entry, chain, session, retiring, client, acked, up>>

(* What a crash leaves of a frame being appended: all of it, or a torn     *)
(* frame from which a prefix is decoded. The first frame is published by a *)
(* link, whole or not at all.                                              *)
Torn(batch) ==
    {[file EXCEPT !.log = @ \o batch], file} \cup
    (IF file.log = <<>> THEN {}
     ELSE {[log |-> file.log, torn |-> TRUE, extra |-> SubSeq(batch, 1, k)] : k \in 0 .. Len(batch)})

Crash ==
    /\ Quiet /\ Spend
    /\ \/ /\ Appending
          /\ file' \in Torn(Running.batch)
       \/ /\ Head1("commit") /\ Running.stage = "repair"
          /\ file' \in Torn(Repairs(Running.src))
       \/ /\ ~Appending /\ ~(Head1("commit") /\ Running.stage = "repair")
          /\ UNCHANGED file
    /\ tracked' = None /\ entry' = NoEntry /\ chain' = <<>> /\ retiring' = 0
    /\ session' = [s \in Slots |-> Unused]
    /\ client' = [c \in Clients |-> Idle]
    /\ up' = TRUE
    /\ UNCHANGED acked

(* The plugin is reloaded while no caller is using it. Its listeners go    *)
(* first, then every lifecycle it knows is flushed; once those flushes and *)
(* the chain have settled, the new instance adopts the sessions that are   *)
(* live, from their events.                                                *)
Unload ==
    /\ up /\ Quiet /\ Spend
    /\ \A c \in Clients : client[c].pc = "idle"
    /\ InUse # {} /\ \A s \in Slots : session[s].life # "vetoed"
    /\ up' = FALSE
    /\ session' = [s \in Slots |->
          IF s \in InUse THEN CallFlush(session[s], "unload") ELSE session[s]]
    /\ UNCHANGED <<file, tracked, entry, chain, retiring, client, acked>>

Reload ==
    /\ ~up /\ chain = <<>> /\ Quiet
    /\ \A s \in Slots : "unload" \notin Waiting(s)
    /\ up' = TRUE
    /\ tracked' = None /\ entry' = NoEntry /\ retiring' = 0
    /\ chain' = IF Present = {} THEN <<>> ELSE <<CreatedOp(CHOOSE s \in Present : TRUE, LiveView)>>
    /\ session' = [s \in Slots |->
          IF s \notin Present THEN Unused
          ELSE [Unused EXCEPT !.life = "live", !.events = LiveView, !.handed = Len(LiveView),
                              !.init = "pending"]]
    /\ UNCHANGED <<file, client, acked, trouble>>

-----------------------------------------------------------------------------
Init ==
    /\ file = NoFile /\ tracked = None /\ entry = NoEntry /\ chain = <<>>
    /\ session = [s \in Slots |-> Unused]
    /\ retiring = 0
    /\ client = [c \in Clients |-> Idle]
    /\ up = TRUE /\ acked = <<>> /\ trouble = 0

(* The running operation of the chain, when its I/O does not fail.         *)
ChainStep ==
    \/ AppendBegin \/ AppendCommits \/ Created \/ Retire \/ Load \/ Check \/ Void
    \/ NothingToLoad \/ CommitOwned \/ CommitStale \/ CommitRepairs \/ Truncate \/ Repair \/ Commits

ChainFails == AppendFails \/ LoadFails \/ CommitFails \/ CheckFails

Microtask ==
    \/ \E s \in Slots : FlushReady(s) \/ WriteReady(s) \/ Proceed(s)
    \/ \E c \in Clients : Retired(c) \/ EntryLost(c) \/ Inspect(c) \/ Reserve(c)

Conclude(c) == Publish(c) \/ Release(c) \/ Create(c) \/ GiveUp(c)

Next ==
    \/ Microtask \/ ChainStep \/ ChainFails
    \/ \E s \in Slots : Emit(s) \/ Checkpoint(s) \/ End(s) \/ Deadline(s)
    \/ \E c \in Clients : Ask(c) \/ Setup(c) \/ Conclude(c) \/ Abort(c)
    \/ Evict \/ ForeignResume \/ Crash \/ Unload \/ Reload

Spec == Init /\ [][Next]_vars

(* Continuations run, the chain's I/O completes, and a caller left with an *)
(* unpublished session, or with nothing to resume, does not sit on it. The *)
(* event loop serves I/O between calls, however many arrive, hence SF; and *)
(* those who wait for a reservation to settle are woken in the order they  *)
(* joined it, so the same caller is not overtaken for ever.                *)
Fairness ==
    /\ WF_vars(Microtask)
    /\ SF_vars(ChainStep)
    /\ \A c \in Clients : SF_vars(Reserve(c)) /\ WF_vars(Conclude(c))

FairSpec == Spec /\ Fairness

-----------------------------------------------------------------------------
Source == [log : Seq(Event), torn : BOOLEAN, extra : Seq(Event)]

Operation ==
    [kind : {"load"}, mine : BOOLEAN]
    \cup [kind : {"commit"}, who : Clients, src : Source, stage : {"queued", "truncate", "repair"}]
    \cup [kind : {"check"}, who : Clients]
    \cup [kind : {"void"}]
    \cup [kind : {"write", "seed"}, who : Slots, stage : {"queued", "io"}, from : Nat,
          batch : Seq(Event)]
    \cup [kind : {"created"}, who : Slots, batch : Seq(Event)]
    \cup [kind : {"retire"}, who : Slots]

(* The state stays within its types: the operations on the chain, and the  *)
(* owner and the retirement, which name lifecycles that still exist.       *)
TypeOK ==
    /\ file \in Source
    /\ tracked \in [cursor : Nat, owner : {0} \cup InUse, known : BOOLEAN]
    /\ entry \in [phase : {"none", "loading", "ready", "committing", "reserved"}, src : Source]
    /\ chain \in Seq(Operation)
    /\ session \in [Slots ->
          [life : {"none", "live", "vetoed", "ended"}, events : Seq(Event), handed : Nat,
           init : {"pending", "ok", "failed"}, atInit : SUBSET Callers,
           atBarrier : SUBSET Callers, w : Writer]]
    /\ retiring \in {0} \cup {s \in Slots : session[s].life = "ended"}
    /\ client \in [Clients ->
          [does : {"prepare", "inspect"},
           pc : {"idle", "retirement", "entry", "commit", "reserved", "loaded", "check", "absent"},
           seen : BOOLEAN, on : {0} \cup Slots, src : Source, log : Seq(Event),
           cut : BOOLEAN, floor : Seq(Event), fresh : BOOLEAN]]
    /\ up \in BOOLEAN /\ acked \in Seq(Event)
    /\ trouble \in 0 .. MaxTrouble

(* Whatever fails, is retried, crashes or is repaired, the log of the id   *)
(* only grows, each time to turns that do not nest or cross a resume; and  *)
(* a flush is never resolved before the events it covers are in it         *)
(* (appendCore, drainBarrier, commitRepair, adoptLivePrefix).              *)
Durable == INSTANCE DshDurableLog WITH log <- file.log
KeepsDurableLog == Durable!Spec

(* A queued event is never forgotten: some deadline, write, continuation   *)
(* or flush will move it, unless writing failed since (paused until the    *)
(* next event or flush) or the lifecycle could not be initialised; and a   *)
(* lifecycle is released only when it has nothing left to write. Guards    *)
(* the deadline bookkeeping of SessionWriteBehind against a lost wakeup.   *)
NotStranded ==
    \A s \in Slots : LET w == session[s].w IN
        /\ w.pending # <<>> =>
              \/ w.timer \/ Active(w) \/ w.next # "none" \/ w.barrier # "none"
              \/ session[s].atInit # {}
              \/ w.paused \/ session[s].init = "failed"
        /\ Queued("retire", s) => ~HasWork(w)

(* A live session that persistence accepted holds the log: the file is a   *)
(* prefix of its events, up to the cursor, with nothing torn, and no other *)
(* lifecycle still has accepted events to write. So a resume neither       *)
(* misses the tail of a retiring lifecycle nor interleaves with it.        *)
LiveSessionIsTheLog ==
    \A s \in Slots : session[s].life = "live" /\ session[s].init = "ok" =>
        /\ tracked.owner = s /\ tracked.cursor = Len(file.log)
        /\ ~file.torn /\ IsPrefix(file.log, session[s].events)
        /\ \A t \in Slots \ {s} : session[t].init = "ok" => ~HasWork(session[t].w)

(* What inspect returns covers what was on disk at the call, unless it was *)
(* borrowed from a resume under way: a cached view is checked against the  *)
(* file's revision after every await.                                      *)
InspectionIsFresh == \A c \in Clients : client[c].fresh

(* Every caller of prepare and inspect gets an answer, and so does every   *)
(* flush and retirement, however they overlap and whatever fails.          *)
Answered ==
    /\ \A c \in Clients : client[c].pc # "idle" ~> client[c].pc = "idle"
    /\ \A s \in Slots : \A caller \in Callers : caller \in Waiting(s) ~> caller \notin Waiting(s)
============================================================================
