------------------------------ MODULE DshAgent ------------------------------
(***************************************************************************)
(* The driver of one dsh agent and its inbox (ReactLoopAgent and Inbox).    *)
(* A waking message starts a driver; the driver runs turns, a turn runs     *)
(* steps, and each step boundary claims what has arrived.  Everybody else   *)
(* sends, cancels, removes, runs maintenance and disposes while the driver  *)
(* waits for a hook, the model or a tool, and also from inside the          *)
(* synchronous notifications of the session log and of the agent's status.  *)
(*                                                                          *)
(* One step of the model runs to the next point where somebody else can     *)
(* act: an await, or a notification.  Such points are the values of pc, and *)
(* an insertion whose observers still run (sending), and a retired activity *)
(* whose idle notification still runs (retiring).                           *)
(*                                                                          *)
(* Abstracted: a message is its place in the order of sending, so a list of *)
(* pending messages is a set (prepend and replace, which edit a list in the *)
(* middle, are left out); what is in a request; a request that is retried   *)
(* stays within its step; appends to the log do not fail.                   *)
(***************************************************************************)
EXTENDS Naturals

CONSTANTS N,           \* bound: messages sent
          MaxSteps,    \* bound: steps after which tools ask for no further one
          MaxActivity, \* bound: activities after which no maintenance begins
          GapSends     \* may code outside run between a driver's last look at the
                       \* inbox and its retirement, with no cancellation about

ASSUME BoundsAssumption == N \in Nat /\ MaxSteps \in Nat /\ MaxActivity \in Nat
ASSUME GapAssumption == GapSends \in BOOLEAN

Msg == 1..N
Ending == {"completed", "max-tokens", "blocked", "aborted", "error"}

VARIABLES
    phase,         \* phase.kind
    pc,            \* of a running driver
    aborted,       \* the cause phase.abort was aborted with, or "none"
    wakeRequested,
    turn, step,    \* phase.turn or phase.lastTurn, and phase.step
    turnEnds, thrown,          \* locals of turn(); thrown: the step threw
    nextTurn, nextStep,        \* the inbox
    sent,          \* messages sent so far
    waking,        \* those sent to wake the driver
    prompts,       \* those that were put into the next-turn list
    taken,         \* of each message: the turn that claimed it, or 0
    sending,       \* "no", or a waking send whose insertion is being observed: "live" or "afterAbort"
    activity,      \* the activity activityDone belongs to
    settled,       \* the last activity whose promise is settled
    retiring, replay,          \* the activity that has just gone idle, or 0; its captured wakeRequested
    disposal, awaited,         \* teardown: "no", "draining" or "done"; the activity whenIdle awaits
    openTurn, openStep, ended, steps, lastEnd  \* what the log holds

phaseVars == <<phase, pc, aborted, wakeRequested, turn, step>>
turnVars == <<turnEnds, thrown>>
inboxVars == <<nextTurn, nextStep, taken>>
sendVars == <<sent, waking, prompts, sending>>
activityVars == <<activity, settled, retiring, replay>>
disposalVars == <<disposal, awaited>>
logVars == <<openTurn, openStep, ended, steps, lastEnd>>
vars == <<phaseVars, turnVars, inboxVars, sendVars, activityVars, disposalVars, logVars>>

Pending == nextTurn \cup nextStep
First(S) == {m \in S : \A n \in S : m <= n}

Init ==
    /\ phase = "idle" /\ pc = "Kick" /\ aborted = "none" /\ wakeRequested = FALSE
    /\ turn = 0 /\ step = 0
    /\ turnEnds = "none" /\ thrown = FALSE
    /\ nextTurn = {} /\ nextStep = {} /\ taken = [m \in Msg |-> 0]
    /\ sent = 0 /\ waking = {} /\ prompts = {} /\ sending = "no"
    /\ activity = 0 /\ settled = 0 /\ retiring = 0 /\ replay = FALSE
    /\ disposal = "no" /\ awaited = 0
    /\ openTurn = 0 /\ openStep = 0 /\ ended = 0 /\ steps = 0 /\ lastEnd = "none"

----------------------------------------------------------------------------
(* What others do: send, cancel, remove, runMaintenance, dispose.           *)

StartDriver ==
    /\ phase' = "running" /\ pc' = "Kick" /\ step' = 0
    /\ aborted' = "none" /\ wakeRequested' = FALSE
    /\ activity' = activity + 1
    /\ UNCHANGED turn

\* Mutant: a wake behind an aborted driver is left to that driver.
WakeDriverUnlatched(afterAbort) ==
    IF phase = "idle"
    THEN StartDriver
    ELSE /\ wakeRequested' = (wakeRequested \/ (aborted # "disposed" /\ phase = "maintenance"))
         /\ UNCHANGED <<phase, pc, aborted, turn, step, activity>>

WakeDriver(afterAbort) ==
    IF phase = "idle"
    THEN StartDriver
    ELSE /\ wakeRequested' = (wakeRequested
               \/ (aborted # "disposed" /\ (phase = "maintenance" \/ afterAbort)))
         /\ UNCHANGED <<phase, pc, aborted, turn, step, activity>>

InGap == phase = "running" /\ pc = "Retire" /\ aborted = "none"

\* followup and steer wake, inject does not.  Waking input cannot join an
\* aborted activity: it is for the next turn.
Insert(where, wakeup) ==
    LET m == sent + 1
        afterAbort == wakeup /\ phase # "idle" /\ aborted # "none"
        list == IF afterAbort THEN "next-turn" ELSE where
    IN  /\ sent < N /\ sending = "no"
        /\ InGap => GapSends
        /\ sent' = m
        /\ waking' = IF wakeup THEN waking \cup {m} ELSE waking
        /\ prompts' = IF list = "next-turn" THEN prompts \cup {m} ELSE prompts
        /\ nextTurn' = IF list = "next-turn" THEN nextTurn \cup {m} ELSE nextTurn
        /\ nextStep' = IF list = "next-step" THEN nextStep \cup {m} ELSE nextStep
        /\ sending' = IF ~wakeup THEN "no" ELSE IF afterAbort THEN "afterAbort" ELSE "live"
        /\ UNCHANGED <<phaseVars, turnVars, taken, activityVars, disposalVars, logVars>>

\* The rest of send, once the observers of the insertion have returned.
Wake ==
    /\ sending # "no"
    /\ sending' = "no"
    /\ WakeDriver(sending = "afterAbort")
    /\ UNCHANGED <<turnVars, inboxVars, sent, waking, prompts, settled, retiring, replay,
                   disposalVars, logVars>>

\* Mutant: the cause is remembered although nothing is active.
CancelIdle(cause, keepInbox) ==
    /\ nextTurn' = IF keepInbox THEN nextTurn ELSE {}
    /\ nextStep' = IF keepInbox THEN nextStep ELSE {}
    /\ wakeRequested' = (wakeRequested /\ keepInbox)
    /\ aborted' = IF aborted = "none" THEN cause ELSE aborted

Cancel(cause, keepInbox) ==
    /\ nextTurn' = IF keepInbox THEN nextTurn ELSE {}
    /\ nextStep' = IF keepInbox THEN nextStep ELSE {}
    /\ wakeRequested' = (wakeRequested /\ keepInbox)
    /\ aborted' = IF phase # "idle" /\ aborted = "none" THEN cause ELSE aborted

UserCancels ==
    /\ \E keepInbox \in BOOLEAN : Cancel("user", keepInbox)
    /\ UNCHANGED <<phase, pc, turn, step, turnVars, taken, sendVars, activityVars,
                   disposalVars, logVars>>

Remove ==
    /\ \E m \in Pending :
          /\ nextTurn' = nextTurn \ {m}
          /\ nextStep' = nextStep \ {m}
    /\ UNCHANGED <<phaseVars, turnVars, taken, sendVars, activityVars, disposalVars, logVars>>

RunMaintenance ==
    /\ phase = "idle" /\ activity < MaxActivity
    /\ phase' = "maintenance"
    /\ aborted' = "none" /\ wakeRequested' = FALSE
    /\ activity' = activity + 1
    /\ UNCHANGED <<pc, turn, step, turnVars, inboxVars, sendVars, settled, retiring, replay,
                   disposalVars, logVars>>

\* The agent's teardown cancels and awaits whenIdle.
Dispose ==
    /\ disposal = "no"
    /\ disposal' = "draining" /\ awaited' = activity
    /\ Cancel("disposed", FALSE)
    /\ UNCHANGED <<phase, pc, turn, step, turnVars, taken, sendVars, activityVars, logVars>>

\* Mutant: whenIdle looks once.
WhenIdleOnce ==
    /\ disposal = "draining" /\ sending = "no" /\ retiring = 0 /\ awaited <= settled
    /\ disposal' = "done"
    /\ UNCHANGED <<phaseVars, turnVars, inboxVars, sendVars, activityVars, awaited, logVars>>

\* whenIdle resumes after the activity it awaits and looks for a newer one.
WhenIdle ==
    /\ disposal = "draining" /\ sending = "no" /\ retiring = 0 /\ awaited <= settled
    /\ disposal' = IF awaited = activity THEN "done" ELSE "draining"
    /\ awaited' = IF awaited = activity THEN 0 ELSE activity
    /\ UNCHANGED <<phaseVars, turnVars, inboxVars, sendVars, activityVars, logVars>>

----------------------------------------------------------------------------
(* turn() and step().                                                       *)

\* Nothing outside the driver is on the stack, so its code can run on; after
\* an await it also needs the notifications of the last retirement to be over.
Runs(at) == phase = "running" /\ pc = at /\ sending = "no"
Resumes(at) == Runs(at) /\ retiring = 0

\* Mutant: a boundary takes every queued prompt.
ClaimAll(boundary) ==
    LET batch == nextStep \cup (IF boundary = "next-turn" THEN nextTurn ELSE {})
    IN  /\ nextStep' = {}
        /\ nextTurn' = nextTurn \ batch
        /\ taken' = [m \in Msg |-> IF m \in batch THEN turn ELSE taken[m]]

Claim(boundary) ==
    LET batch == nextStep \cup (IF boundary = "next-turn" THEN First(nextTurn) ELSE {})
    IN  /\ nextStep' = {}
        /\ nextTurn' = nextTurn \ batch
        /\ taken' = [m \in Msg |-> IF m \in batch THEN turn ELSE taken[m]]

\* What the driver leaves alone from the first claim of a turn to its end.
ambient == <<phase, aborted, wakeRequested, turn, sendVars, activityVars, disposalVars>>

\* The finally of turn(), with which its locals go; again: the turn ended by
\* itself, and the inbox is looked at once more.
EndTurn(reason, again) ==
    /\ openTurn' = 0 /\ ended' = ended + 1 /\ lastEnd' = reason
    /\ turnEnds' = "none" /\ thrown' = FALSE
    /\ pc' = IF again THEN "Ended" ELSE "Retire"
    /\ UNCHANGED <<openStep, steps>>

\* The catch of turn(): a failure is announced before the turn is closed.
Throw ==
    \/ aborted # "none" /\ EndTurn("aborted", FALSE)
    \/ aborted = "none" /\ pc' = "Erred" /\ UNCHANGED <<turnVars, logVars>>

NextBatch(boundary) == Claim(boundary) /\ pc' = "PreStep" /\ UNCHANGED <<turnVars, logVars>>

KickAborted ==
    /\ Runs("Kick") /\ aborted # "none"
    /\ pc' = "Retire"
    /\ UNCHANGED <<ambient, step, turnVars, inboxVars, logVars>>

OpenTurn ==
    /\ Runs("Kick") /\ aborted = "none"
    /\ turn' = turn + 1
    /\ openTurn' = turn' /\ steps' = 0
    /\ pc' = "Opened"
    /\ UNCHANGED <<phase, aborted, wakeRequested, step, turnVars, inboxVars, sendVars,
                   activityVars, disposalVars, openStep, ended, lastEnd>>

\* The first claim of the turn, unless an observer of turn/start cancelled.
EnterTurn ==
    /\ Runs("Opened")
    /\ \/ aborted # "none" /\ Throw /\ UNCHANGED inboxVars
       \/ aborted = "none" /\ NextBatch("next-turn")
    /\ UNCHANGED <<ambient, step>>

\* Prompt assembly or a pre-step hook throws, or the signal did.
PreStepThrows ==
    /\ Resumes("PreStep")
    /\ Throw
    /\ UNCHANGED <<ambient, step, inboxVars>>

Reject ==
    /\ Resumes("PreStep") /\ aborted = "none"
    /\ EndTurn("blocked", FALSE)
    /\ UNCHANGED <<ambient, step, inboxVars>>

\* The decision enters no message: the turn is over if it was, or if it has
\* not begun.
EnterEmpty ==
    /\ Resumes("PreStep") /\ aborted = "none"
    /\ \/ turnEnds # "none" /\ EndTurn(turnEnds, TRUE)
       \/ turnEnds = "none" /\ step = 0 /\ EndTurn("completed", FALSE)
    /\ UNCHANGED <<ambient, step, inboxVars>>

StartStep ==
    /\ Resumes("PreStep") /\ aborted = "none"
    /\ step' = step + 1
    /\ openStep' = step'
    /\ pc' = "Step"
    /\ UNCHANGED <<ambient, turnVars, inboxVars, openTurn, ended, steps, lastEnd>>

CloseStep ==
    /\ openStep' = 0 /\ steps' = steps + 1
    /\ pc' = "StepEnded"
    /\ UNCHANGED <<ambient, step, inboxVars, openTurn, ended, lastEnd>>

\* "none": tools owe the model an answer.  max-tokens sticks.
StepReturns ==
    /\ Resumes("Step")
    /\ \E end \in {"completed", "max-tokens", "none"} :
          /\ end = "none" => step < MaxSteps
          /\ turnEnds' = IF turnEnds = "max-tokens" THEN turnEnds ELSE end
    /\ CloseStep
    /\ UNCHANGED thrown

StepThrows ==
    /\ Resumes("Step")
    /\ thrown' = TRUE
    /\ CloseStep
    /\ UNCHANGED turnEnds

\* After step/end and its observers.
StepBoundary ==
    /\ Runs("StepEnded")
    /\ \/ (thrown \/ aborted # "none") /\ Throw /\ UNCHANGED inboxVars
       \/ /\ ~thrown /\ aborted = "none" /\ turnEnds # "none" /\ nextStep = {}
          /\ pc' = "Stopping"
          /\ UNCHANGED <<turnVars, inboxVars, logVars>>
       \/ /\ ~thrown /\ aborted = "none" /\ (turnEnds = "none" \/ nextStep # {})
          /\ NextBatch("next-step")
    /\ UNCHANGED <<ambient, step>>

\* Mutant: the signal is not looked at after the turn-stopping hooks.
StoppedUnchecked ==
    /\ Resumes("Stopping")
    /\ \/ nextStep = {} /\ EndTurn(turnEnds, TRUE) /\ UNCHANGED inboxVars
       \/ nextStep # {} /\ NextBatch("next-step")
    /\ UNCHANGED <<ambient, step>>

\* The turn-stopping hooks are done: steering that arrived meanwhile runs.
Stopped ==
    /\ Resumes("Stopping") /\ aborted = "none"
    /\ \/ nextStep = {} /\ EndTurn(turnEnds, TRUE) /\ UNCHANGED inboxVars
       \/ nextStep # {} /\ NextBatch("next-step")
    /\ UNCHANGED <<ambient, step>>

StoppingThrows ==
    /\ Resumes("Stopping")
    /\ Throw
    /\ UNCHANGED <<ambient, step, inboxVars>>

CloseErred ==
    /\ Runs("Erred")
    /\ EndTurn("error", FALSE)
    /\ UNCHANGED <<ambient, step, inboxVars>>

\* Mutant: only queued prompts are looked at.
NextTurnForPrompts ==
    /\ Runs("Ended")
    /\ \/ nextTurn = {} /\ pc' = "Retire" /\ UNCHANGED <<aborted, wakeRequested, step>>
       \/ /\ nextTurn # {}
          /\ aborted' = "none" /\ wakeRequested' = FALSE /\ step' = 0
          /\ pc' = "Kick"
    /\ UNCHANGED <<phase, turn, turnVars, inboxVars, sendVars, activityVars, disposalVars, logVars>>
\* Mutant: the step count goes on.
NextTurnKeepsStep ==
    /\ Runs("Ended")
    /\ \/ Pending = {} /\ pc' = "Retire" /\ UNCHANGED <<aborted, wakeRequested>>
       \/ /\ Pending # {}
          /\ aborted' = "none" /\ wakeRequested' = FALSE
          /\ pc' = "Kick"
    /\ UNCHANGED <<phase, turn, step, turnVars, inboxVars, sendVars, activityVars, disposalVars, logVars>>

\* After turn/end and its observers: go on under a fresh controller, or stop.
NextTurn ==
    /\ Runs("Ended")
    /\ \/ Pending = {} /\ pc' = "Retire" /\ UNCHANGED <<aborted, wakeRequested, step>>
       \/ /\ Pending # {}
          /\ aborted' = "none" /\ wakeRequested' = FALSE /\ step' = 0
          /\ pc' = "Kick"
    /\ UNCHANGED <<phase, turn, turnVars, inboxVars, sendVars, activityVars, disposalVars, logVars>>

----------------------------------------------------------------------------
(* Going idle: kick's finally, and that of a maintenance task.              *)

GoIdle ==
    /\ phase' = "idle" /\ aborted' = "none" /\ wakeRequested' = FALSE /\ step' = 0
    /\ retiring' = activity /\ replay' = wakeRequested
    /\ UNCHANGED <<pc, turn, turnVars, inboxVars, sendVars, activity, settled,
                   disposalVars, logVars>>

\* Mutant: what follows the loop is not in a finally block.
RetireUnlessThrown == Resumes("Retire") /\ lastEnd \notin {"error", "aborted"} /\ GoIdle

Retire == Resumes("Retire") /\ GoIdle

MaintenanceSettles ==
    /\ phase = "maintenance" /\ sending = "no" /\ retiring = 0
    /\ GoIdle

\* The observers of the idle status have returned, a driver one of them may
\* have started has reached its first await.
Replay ==
    /\ retiring # 0 /\ sending = "no"
    /\ phase = "running" => pc \in {"PreStep", "Retire"}
    /\ \/ replay /\ Pending # {} /\ WakeDriver(FALSE)
       \/ ~(replay /\ Pending # {}) /\ UNCHANGED <<phaseVars, activity>>
    /\ settled' = retiring
    /\ retiring' = 0 /\ replay' = FALSE
    /\ UNCHANGED <<turnVars, inboxVars, sendVars, disposalVars, logVars>>

----------------------------------------------------------------------------
\* Steps the driver takes by itself, and what it waits for.
Driver ==
    \/ KickAborted \/ OpenTurn \/ EnterTurn \/ StepBoundary \/ CloseErred \/ NextTurn \/ Retire

Awaited ==
    \/ PreStepThrows \/ Reject \/ EnterEmpty \/ StartStep
    \/ StepReturns \/ StepThrows \/ Stopped \/ StoppingThrows
    \/ MaintenanceSettles

Others ==
    \/ \E where \in {"next-turn", "next-step"}, wakeup \in BOOLEAN : Insert(where, wakeup)
    \/ UserCancels \/ Remove \/ RunMaintenance \/ Dispose

Next == Driver \/ Awaited \/ Others \/ Wake \/ Replay \/ WhenIdle

Spec == Init /\ [][Next]_vars

\* Code that has begun to run is run to its next await.  Hooks, the model,
\* tools and maintenance tasks are handed the signal, so once it is aborted
\* they settle; before that they may take for ever.
Fairness ==
    /\ WF_vars(Driver) /\ WF_vars(Wake) /\ WF_vars(Replay) /\ WF_vars(WhenIdle)
    /\ WF_vars(aborted # "none" /\ Awaited)

FairSpec == Spec /\ Fairness

----------------------------------------------------------------------------
(* Properties.                                                              *)

TypeOK ==
    /\ phase \in {"idle", "maintenance", "running"}
    /\ pc \in {"Kick", "Opened", "PreStep", "Step", "StepEnded", "Stopping", "Erred", "Ended", "Retire"}
    /\ aborted \in {"none", "user", "disposed"} /\ wakeRequested \in BOOLEAN
    /\ phase = "idle" => aborted = "none" /\ ~wakeRequested
    /\ turn \in Nat /\ step \in Nat
    /\ turnEnds \in {"none", "completed", "max-tokens"} /\ thrown \in BOOLEAN
    /\ nextTurn \subseteq 1..sent /\ nextStep \subseteq 1..sent /\ nextTurn \cap nextStep = {}
    /\ sent \in 0..N /\ waking \subseteq 1..sent /\ prompts \subseteq 1..sent
    /\ taken \in [Msg -> 0..turn]
    /\ sending \in {"no", "live", "afterAbort"}
    /\ activity \in Nat /\ settled \in 0..activity /\ retiring \in 0..activity /\ replay \in BOOLEAN
    /\ disposal \in {"no", "draining", "done"} /\ awaited \in 0..activity
    /\ openTurn \in Nat /\ openStep \in Nat /\ ended \in Nat /\ steps \in Nat
    /\ lastEnd \in Ending \cup {"none"}

\* A follow-up is the sole ordinary message of its own turn, and prompts run
\* in the order they were sent, whatever was cancelled or replayed in between.
OwnTurn ==
    \A m, n \in prompts :
        m < n /\ taken[m] # 0 /\ taken[n] # 0 => taken[m] < taken[n]

Trace == INSTANCE DshSessionTrace WITH
    openTurn <- openTurn, openStep <- openStep,
    nextTurn <- ended + 1, nextStep <- steps + 1

\* The log has the shape its readers and its invariant companion rely on.
KeepsTrace == Trace!TraceSpec

\* A turn that was cancelled while it ran is not recorded as one that ended by
\* itself or was blocked; a failure reported before the cancellation stays one.
CancelIsRecorded ==
    [][openTurn # 0 /\ openTurn' = 0 /\ aborted # "none" => lastEnd' \in {"aborted", "error"}]_vars

\* Teardown goes on only when neither a driver nor a maintenance task runs,
\* even if the status notification of the one it cancelled started another.
DisposerSeesIdle ==
    [][disposal = "draining" /\ disposal' = "done" => phase = "idle"]_vars

\* steer: a running driver consumes it at its next step boundary.  A driver
\* that was not cancelled and whose last turn ended by itself after a step
\* leaves no waking message behind.
NothingLeftBehind ==
    [][/\ phase = "running" /\ phase' = "idle" /\ aborted = "none"
       /\ lastEnd \in {"completed", "max-tokens"} /\ steps > 0
       => Pending \cap waking = {}]_vars

\* A cancelled activity converges.
AbortConverges == aborted # "none" ~> aborted = "none"

\* A message sent to wake an agent whose activity the user has cancelled does
\* so: a driver that nobody has cancelled runs next, or the wake is latched
\* behind a maintenance task that nobody has cancelled, unless everything
\* pending is withdrawn first.
WakeSurvivesCancel ==
    sending = "afterAbort" /\ aborted = "user" ~>
        \/ aborted = "none" /\ (phase = "running" \/ (phase = "maintenance" /\ wakeRequested))
        \/ Pending = {}
============================================================================
