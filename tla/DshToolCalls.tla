--------------------------- MODULE DshToolCalls ---------------------------
(***************************************************************************)
(* The tool-call scheduler of the dsh agent loop: executeToolCalls runs the *)
(* calls of one step as a sequence of groups, an exclusive call by itself   *)
(* and parallel calls from a bounded rolling pool.  Every call passes a     *)
(* pre stage, its body and a post stage.  Bodies overlap; the pre and post  *)
(* stages, and what is written to the session log, follow the model order.  *)
(*                                                                          *)
(* The scheduler is one async function, so everything between two of its    *)
(* awaits is one step here; bodies, hooks and the caller's abort signal     *)
(* move while it waits.                                                     *)
(*                                                                          *)
(* Abstracted: arguments and contents; additional contexts, which are       *)
(* accepted right after the result that carries them, and concluded, which  *)
(* is a disjunction over the recorded results.                              *)
(***************************************************************************)
EXTENDS Naturals, FiniteSets

CONSTANTS N,            \* calls of the step, in model order
          MaxParallel,  \* maxParallelToolCalls
          Faults,       \* which stages of the tool runtime may throw
          Retryable     \* calls a tools/execute wrapper may dispatch again

ASSUME NAssumption == N \in Nat
ASSUME MaxParallelAssumption == MaxParallel \in Nat \ {0}
ASSUME FaultsAssumption == Faults \subseteq {"prepare", "dispatch", "finalize"}

Call == 1..N
ASSUME RetryableAssumption == Retryable \subseteq Call

Outcome == {"ok", "error", "aborted",
            "skipped"}   \* ABORTED_BEFORE_DISPATCH

VARIABLES
    pc,         \* where the scheduler is, or which await it is at
    mode,       \* of the group: "exclusive" or "parallel"
    first,      \* the call the group starts with
    last,       \* the last call the group may start
    exclusive,  \* calls of the group that were exclusive when they were started
    started,    \* calls announced so far
    committed,  \* results recorded so far
    inFlight,   \* the keys of inFlight
    stage,      \* of each call: "idle", "dispatched", "body" or "settled"
    ran,        \* of each call: "no", "once" its body was invoked, "again" after
                \* that a wrapper's further dispatch was cut short
    slot,       \* of each call: its outcome awaiting the commit
    signal,     \* the step's abort signal
    failure,    \* schedulerFailure is set
    seq,        \* the session's last event seq
    callSeq, resultSeq,  \* of each call: the seq of its tool/call and its tool/result, or 0
    recorded    \* of each call: the outcome its tool/result carries

groupVars == <<mode, first, last, exclusive>>
toolVars == <<stage, ran, slot>>
logVars == <<seq, callSeq, resultSeq, recorded>>
vars == <<pc, groupVars, started, committed, inFlight, toolVars, signal, failure, logVars>>

Pending(outcome, needsPost) == [outcome |-> outcome, needsPost |-> needsPost]
Empty == Pending("none", FALSE)
Slot == {Empty} \cup [outcome : Outcome, needsPost : BOOLEAN]

Init ==
    /\ pc = "Group"
    /\ mode = "exclusive" /\ first = 1 /\ last = 0 /\ exclusive = {}
    /\ started = 0 /\ committed = 0
    /\ inFlight = {}
    /\ stage = [c \in Call |-> "idle"]
    /\ ran = [c \in Call |-> "no"]
    /\ slot = [c \in Call |-> Empty]
    /\ signal = FALSE /\ failure = FALSE
    /\ seq = 0
    /\ callSeq = [c \in Call |-> 0]
    /\ resultSeq = [c \in Call |-> 0]
    /\ recorded = [c \in Call |-> "none"]

----------------------------------------------------------------------------
(* executeToolCalls: classify the next call and open its group.             *)

NextGroup ==
    /\ pc = "Group" /\ started < N
    /\ \E m \in {"exclusive", "parallel"} :
          /\ mode' = m
          /\ last' = IF m = "parallel" THEN N ELSE started + 1
    /\ first' = started + 1
    /\ exclusive' = {}
    /\ pc' = "Commit"
    /\ UNCHANGED <<started, committed, inFlight, toolVars, signal, failure, logVars>>

ReturnAll ==
    /\ pc = "Group" /\ started = N
    /\ pc' = "Returned"
    /\ UNCHANGED <<groupVars, started, committed, inFlight, toolVars, signal, failure, logVars>>

----------------------------------------------------------------------------
(* commitReady: record the results that are next in model order.            *)

\* Mutant: whether the call has settled is not looked at.
CommittableUnchecked == committed < last
Committable == committed < last /\ slot[committed + 1] # Empty

Record(outcome) ==
    LET c == committed + 1
    IN  /\ committed' = c
        /\ seq' = seq + 1
        /\ resultSeq' = [resultSeq EXCEPT ![c] = seq']
        /\ recorded' = [recorded EXCEPT ![c] = outcome]
        /\ UNCHANGED callSeq

CommitFinal ==
    /\ pc = "Commit" /\ Committable /\ ~slot[committed + 1].needsPost
    /\ Record(slot[committed + 1].outcome)
    /\ UNCHANGED <<pc, groupVars, started, inFlight, toolVars, signal, failure>>

AwaitFinalize ==
    /\ pc = "Commit" /\ Committable /\ slot[committed + 1].needsPost
    /\ pc' = "Finalize"
    /\ UNCHANGED <<groupVars, started, committed, inFlight, toolVars, signal, failure, logVars>>

\* Mutant: every cancelled call claims that its body never ran.
CancelledBeforeDispatch(c) == "skipped"

\* What a success becomes when the caller has cancelled.
Cancelled(c) == IF ran[c] # "no" THEN "aborted" ELSE "skipped"

\* post-execute keeps the result or blocks it.
Finalized ==
    /\ pc = "Finalize"
    /\ LET c == committed + 1
           kept == IF signal /\ slot[c].outcome = "ok" THEN Cancelled(c) ELSE slot[c].outcome
       IN  \E o \in {kept, "error"} : Record(o)
    /\ pc' = "Commit"
    /\ UNCHANGED <<groupVars, started, inFlight, toolVars, signal, failure>>

FinalizeThrows ==
    /\ "finalize" \in Faults
    /\ pc = "Finalize"
    /\ failure' = TRUE
    /\ pc' = "Drain"
    /\ UNCHANGED <<groupVars, started, committed, inFlight, toolVars, signal, logVars>>

----------------------------------------------------------------------------
(* fillPool and startCall.                                                  *)

\* Every result that is ready has been committed and no failure is pending.
\* The local flag aborted is refreshed from the signal right before it is used.
Settled == pc = "Commit" /\ ~Committable

CanStart == ~signal /\ started < last /\ Cardinality(inFlight) < MaxParallel

\* Mutant: the mode of a later call is not looked at.
StartModesUnchecked == IF started < first THEN {mode} ELSE {"exclusive", "parallel"}
\* The call that opened its group is not classified again; a later one starts
\* only if it is still parallel (FillStops takes the other case).
StartModes == IF started < first THEN {mode} ELSE {"parallel"}

Start ==
    /\ Settled /\ ~failure /\ CanStart
    /\ started' = started + 1
    /\ \E m \in StartModes :
          exclusive' = IF m = "exclusive" THEN exclusive \cup {started'} ELSE exclusive
    /\ seq' = seq + 1
    /\ callSeq' = [callSeq EXCEPT ![started'] = seq']
    /\ pc' = "Prepare"
    /\ UNCHANGED <<mode, first, last, committed, inFlight, toolVars, signal, failure, resultSeq, recorded>>

PrepareDispatches ==
    /\ pc = "Prepare" /\ ~signal /\ ~failure
    /\ inFlight' = inFlight \cup {started}
    /\ stage' = [stage EXCEPT ![started] = "dispatched"]
    /\ pc' = "Commit"
    /\ UNCHANGED <<groupVars, started, committed, ran, slot, signal, failure, logVars>>

\* A denial, an error or a cancellation answers the call without its body.
PrepareAnswers ==
    /\ pc = "Prepare" /\ ~failure
    /\ \E o \in IF signal THEN {"error", "skipped"} ELSE {"error"}, post \in BOOLEAN :
          slot' = [slot EXCEPT ![started] = Pending(o, post)]
    /\ pc' = "Commit"
    /\ UNCHANGED <<groupVars, started, committed, inFlight, stage, ran, signal, failure, logVars>>

\* The pre stage threw, or a body did while it ran: the call stays unanswered.
PrepareFails ==
    /\ pc = "Prepare"
    /\ failure \/ "prepare" \in Faults
    /\ failure' = TRUE
    /\ pc' = "Drain"
    /\ UNCHANGED <<groupVars, started, committed, inFlight, toolVars, signal, logVars>>

----------------------------------------------------------------------------
(* runGroup: wait for bodies, and end the group.                            *)

\* Mutant: only the calls of this group are looked after.
SkipRestOfGroup == (started + 1)..last
\* The calls that never started, in this group and after it.
SkipRest == (started + 1)..N

\* Nothing can start: the pool is full, the group is used up, the caller
\* cancelled, or the next call has become exclusive.
FillStops == ~CanStart \/ (mode = "parallel" /\ started >= first)

AwaitRace ==
    /\ Settled /\ ~failure /\ FillStops /\ inFlight # {}
    /\ pc' = "Race"
    /\ UNCHANGED <<groupVars, started, committed, inFlight, toolVars, signal, failure, logVars>>

\* Mutant: a settled call stays in the pool.
RacedStays(c) ==
    /\ pc = "Race" /\ c \in inFlight /\ stage[c] = "settled"
    /\ pc' = IF failure THEN "Drain" ELSE "Commit"
    /\ UNCHANGED <<groupVars, started, committed, inFlight, toolVars, signal, failure, logVars>>

\* Which of several settled bodies wins the race makes no difference: what is
\* committed next depends on the slots alone.
Raced(c) ==
    /\ pc = "Race" /\ c \in inFlight /\ stage[c] = "settled"
    /\ inFlight' = inFlight \ {c}
    /\ pc' = IF failure THEN "Drain" ELSE "Commit"
    /\ UNCHANGED <<groupVars, started, committed, toolVars, signal, failure, logVars>>

Fail ==
    /\ Settled /\ failure
    /\ pc' = "Drain"
    /\ UNCHANGED <<groupVars, started, committed, inFlight, toolVars, signal, failure, logVars>>

\* Promise.allSettled, then the first failure is thrown.
Drained ==
    /\ pc = "Drain"
    /\ \A c \in inFlight : stage[c] = "settled"
    /\ pc' = "Threw"
    /\ UNCHANGED <<groupVars, started, committed, inFlight, toolVars, signal, failure, logVars>>

\* A cancelled group: each call that never started gets its call and a
\* synthetic result, one pair after the other.
EndAborted ==
    /\ Settled /\ ~failure /\ signal /\ inFlight = {}
    /\ callSeq' = [c \in Call |-> IF c \in SkipRest THEN seq + 2 * (c - started) - 1 ELSE callSeq[c]]
    /\ resultSeq' = [c \in Call |-> IF c \in SkipRest THEN seq + 2 * (c - started) ELSE resultSeq[c]]
    /\ recorded' = [c \in Call |-> IF c \in SkipRest THEN "skipped" ELSE recorded[c]]
    /\ seq' = seq + 2 * (N - started)
    /\ started' = N
    /\ committed' = committed + (N - started)
    /\ pc' = "Returned"
    /\ UNCHANGED <<groupVars, inFlight, toolVars, signal, failure>>

\* A group that ends by itself throws if a started call was not committed.
EndGroup ==
    /\ Settled /\ ~failure /\ ~signal /\ FillStops /\ inFlight = {}
    /\ pc' = IF committed = started THEN "Group" ELSE "Threw"
    /\ UNCHANGED <<groupVars, started, committed, inFlight, toolVars, signal, failure, logVars>>

----------------------------------------------------------------------------
(* The tool runtime, and whoever holds the abort controller.                *)

\* The body is reached through wrappers and looks at the signal once more.
BodyStarts(c) ==
    /\ stage[c] = "dispatched" /\ ~signal
    /\ stage' = [stage EXCEPT ![c] = "body"]
    /\ ran' = [ran EXCEPT ![c] = "once"]
    /\ UNCHANGED <<pc, groupVars, started, committed, inFlight, slot, signal, failure, logVars>>

\* The body, a wrapper in its place, or the check before the body answers; a
\* failing wrapper answers with a result that skips the post stage, and one
\* that puts its own signal in the call's place may cancel it.
DispatchSettles(c) ==
    /\ stage[c] \in {"dispatched", "body"}
    /\ stage' = [stage EXCEPT ![c] = "settled"]
    /\ \E s \in {Pending("error", FALSE), Pending("error", TRUE), Pending(Cancelled(c), TRUE)}
                \cup (IF signal THEN {} ELSE {Pending("ok", TRUE)}) :
          slot' = [slot EXCEPT ![c] = s]
    /\ UNCHANGED <<pc, groupVars, started, committed, inFlight, ran, signal, failure, logVars>>

\* The body has answered, and a wrapper around it calls next() another time.  One
\* that reaches the body is the body still running; this one is cut short by the
\* check before it, which does not ask whether an earlier dispatch ran the body.
RetryIsCut(c) ==
    /\ c \in Retryable /\ stage[c] = "body"
    /\ stage' = [stage EXCEPT ![c] = "settled"]
    /\ ran' = [ran EXCEPT ![c] = "again"]
    /\ slot' = [slot EXCEPT ![c] = Pending("skipped", TRUE)]
    /\ UNCHANGED <<pc, groupVars, started, committed, inFlight, signal, failure, logVars>>

DispatchRejects(c) ==
    /\ "dispatch" \in Faults
    /\ stage[c] \in {"dispatched", "body"}
    /\ stage' = [stage EXCEPT ![c] = "settled"]
    /\ failure' = TRUE
    /\ UNCHANGED <<pc, groupVars, started, committed, inFlight, ran, slot, signal, logVars>>

Ended == pc \in {"Returned", "Threw"}

Abort ==
    /\ ~signal /\ ~Ended
    /\ signal' = TRUE
    /\ UNCHANGED <<pc, groupVars, started, committed, inFlight, toolVars, failure, logVars>>

----------------------------------------------------------------------------
Hook == PrepareDispatches \/ PrepareAnswers \/ PrepareFails \/ Finalized \/ FinalizeThrows

Scheduler ==
    \/ NextGroup \/ ReturnAll \/ CommitFinal \/ AwaitFinalize \/ Start
    \/ AwaitRace \/ Fail \/ Drained \/ EndAborted \/ EndGroup
    \/ \E c \in Call : Raced(c)

Body(c) == DispatchSettles(c) \/ RetryIsCut(c) \/ DispatchRejects(c)

Next == Scheduler \/ Hook \/ Abort \/ \E c \in Call : BodyStarts(c) \/ Body(c)

Spec == Init /\ [][Next]_vars

\* Once the caller has cancelled, and while anything is left to do, something of
\* it is done: the event loop serves the scheduler's own promises, and hooks and
\* bodies settle, since they are handed the signal and asked to stop.  Before that
\* a hook may wait for a user forever.
Fairness == WF_vars(signal /\ (Scheduler \/ Hook \/ \E c \in Call : Body(c)))

FairSpec == Spec /\ Fairness

----------------------------------------------------------------------------
(* Properties.                                                              *)

TypeOK ==
    /\ pc \in {"Group", "Commit", "Finalize", "Prepare", "Race", "Drain", "Returned", "Threw"}
    /\ mode \in {"exclusive", "parallel"}
    /\ first \in 1..(N + 1) /\ last \in 0..N /\ exclusive \subseteq Call
    /\ started \in 0..N /\ committed \in 0..started
    /\ inFlight \subseteq Call
    /\ stage \in [Call -> {"idle", "dispatched", "body", "settled"}]
    /\ ran \in [Call -> {"no", "once", "again"}]
    /\ slot \in [Call -> Slot]
    /\ signal \in BOOLEAN /\ failure \in BOOLEAN
    /\ seq \in Nat
    /\ callSeq \in [Call -> Nat] /\ resultSeq \in [Call -> Nat]
    /\ recorded \in [Call -> Outcome \cup {"none"}]

\* The log reads as if the calls had run one after the other: calls and results
\* are in model order and every result comes after its own call, in whatever
\* order the bodies settled.
LedgerInOrder ==
    \A c \in Call :
        /\ resultSeq[c] # 0 => callSeq[c] # 0 /\ callSeq[c] < resultSeq[c]
        /\ \A d \in 1..(c - 1) :
              /\ callSeq[c] # 0 => callSeq[d] # 0 /\ callSeq[d] < callSeq[c]
              /\ resultSeq[c] # 0 => resultSeq[d] # 0 /\ resultSeq[d] < resultSeq[c]

Running == {c \in Call : stage[c] \in {"dispatched", "body"}}

\* A call that was exclusive when it was started is a barrier, in whatever group
\* that happened: while it may run nothing else does, all that precedes it has
\* been recorded and nothing after it has been announced.  The pool never holds
\* more bodies than it is configured for.
BarrierHolds ==
    /\ \A c \in Running \cap exclusive : Running = {c} /\ committed = c - 1 /\ started = c
    /\ Cardinality(Running) <= MaxParallel

\* The log does not lie about side effects: a call recorded as aborted ran its
\* body, and one recorded as aborted before dispatch did not, unless a wrapper
\* dispatched the call again after its body had run and that dispatch was cut
\* short.
CancellationIsHonest ==
    \A c \in Call :
        /\ recorded[c] = "skipped" => ran[c] # "once"
        /\ recorded[c] = "aborted" => ran[c] # "no"

\* A step throws only because something threw, so the check for uncommitted
\* calls at the end of a group never fires; and once something threw no result
\* is recorded for a call that has none of its own.
ThrowsHonestly ==
    /\ pc = "Threw" => failure
    /\ failure => \A c \in Call : recorded[c] # "none" => slot[c] # Empty

\* However the step ends, no body is left running behind it.
LeavesNothingRunning == Ended => Running = {}

\* What a step may not do, however its calls settle, fail or are cancelled:
\* log out of order, misreport a body, throw for nothing or invent results, and
\* end over a body that runs (runGroup, appendToolResult, cancellationResult).
StepIsHonest ==
    LedgerInOrder /\ CancellationIsHonest /\ ThrowsHonestly /\ LeavesNothingRunning

Ledger == INSTANCE DshToolLedger WITH
    announced <- {c \in Call : callSeq[c] # 0},
    answered  <- {c \in Call : resultSeq[c] # 0},
    outcome   <- IF pc = "Returned" THEN "complete" ELSE IF pc = "Threw" THEN "failed" ELSE "open"

\* The step keeps the promise its readers rely on.
KeepsLedger == Ledger!LedgerSpec

\* A cancelled step ends.
AbortEnds == signal ~> Ended
============================================================================
