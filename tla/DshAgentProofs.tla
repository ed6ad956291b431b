-------------------------- MODULE DshAgentProofs --------------------------
(***************************************************************************)
(* Proofs about the agent driver for any number of messages and any bounds. *)
(* The inductive invariant has five parts: the types, how the log relates   *)
(* to the driver's counters (Shape), that an active agent has not settled   *)
(* its activity (Unsettled), that queued prompts are younger than those     *)
(* claimed before (Queued), and OwnTurn itself.  Swept, why a driver        *)
(* retires, is invariant only if nobody sends in the gap before retirement. *)
(***************************************************************************)
EXTENDS DshAgent, TLAPS

\* TypeOK in parts that a step disturbs separately.
PhaseOK ==
    /\ phase \in {"idle", "maintenance", "running"}
    /\ pc \in {"Kick", "Opened", "PreStep", "Step", "StepEnded", "Stopping",
              "Erred", "Ended", "Retire"}

SignalOK ==
    /\ aborted \in {"none", "user", "disposed"} /\ wakeRequested \in BOOLEAN
    /\ phase = "idle" => aborted = "none" /\ ~wakeRequested

CountOK ==
    /\ turn \in Nat /\ step \in Nat
    /\ turnEnds \in {"none", "completed", "max-tokens"} /\ thrown \in BOOLEAN

InboxOK ==
    /\ nextTurn \subseteq 1..sent /\ nextStep \subseteq 1..sent /\ nextTurn \cap nextStep = {}
    /\ sent \in 0..N /\ waking \subseteq 1..sent /\ prompts \subseteq 1..sent
    /\ sending \in {"no", "live", "afterAbort"}

TakenOK == turn \in Nat /\ taken \in [Msg -> 0..turn]

ActivityOK ==
    /\ activity \in Nat /\ settled \in 0..activity /\ retiring \in 0..activity /\ replay \in BOOLEAN
    /\ disposal \in {"no", "draining", "done"} /\ awaited \in 0..activity

LogOK ==
    /\ openTurn \in Nat /\ openStep \in Nat /\ ended \in Nat /\ steps \in Nat
    /\ lastEnd \in Ending \cup {"none"}

LEMMA TypeParts ==
    TypeOK <=> PhaseOK /\ SignalOK /\ CountOK /\ InboxOK /\ TakenOK /\ ActivityOK /\ LogOK
  BY DEF TypeOK, PhaseOK, SignalOK, CountOK, InboxOK, TakenOK, ActivityOK, LogOK

\* At which points of the driver a turn or a step is open, and their numbers.
Shape ==
    /\ phase # "running" => pc \in {"Kick", "Retire"}
    /\ pc \in {"Kick", "Ended", "Retire"} => openTurn = 0 /\ turn = ended
    /\ pc \notin {"Kick", "Ended", "Retire"} =>
          openTurn = turn /\ turn = ended + 1
          /\ step = IF pc = "Step" THEN steps + 1 ELSE steps
    /\ openStep = IF pc = "Step" THEN step ELSE 0
    /\ pc = "Kick" => step = 0

Unsettled == phase # "idle" => settled < activity /\ retiring < activity

\* Prompts are claimed from the front: what is queued is younger than what was
\* claimed, and a turn that has just opened has claimed nothing.
Queued ==
    /\ nextTurn \subseteq prompts /\ nextStep \cap prompts = {}
    /\ \A m \in Msg : m > sent => taken[m] = 0
    /\ \A m \in nextTurn : \A n \in prompts : taken[n] # 0 => n < m
    /\ pc = "Opened" => \A m \in Msg : taken[m] < turn

\* A driver that nobody cancelled and whose last turn ended by itself retires
\* only after it has looked at an empty inbox.
Swept ==
    phase = "running" /\ pc = "Retire" /\ aborted = "none"
    /\ lastEnd \in {"completed", "max-tokens"} /\ steps > 0
    => Pending = {}

IInv == TypeOK /\ Shape /\ Unsettled /\ Queued /\ OwnTurn

LEMMA InitInv == Init => IInv /\ Swept
  <1> SUFFICES ASSUME Init PROVE IInv /\ Swept
    OBVIOUS
  <1>1. PhaseOK /\ SignalOK /\ CountOK
    BY DEF Init, PhaseOK, SignalOK, CountOK
  <1>2. InboxOK
    BY BoundsAssumption DEF Init, InboxOK
  <1>3. TakenOK
    BY DEF Init, TakenOK
  <1>4. ActivityOK
    <2>1. activity \in Nat /\ settled \in 0..activity /\ retiring \in 0..activity
      BY DEF Init
    <2>2. awaited \in 0..activity
      BY DEF Init
    <2>3. replay \in BOOLEAN /\ disposal \in {"no", "draining", "done"}
      BY DEF Init
    <2> QED
      BY <2>1, <2>2, <2>3 DEF ActivityOK
  <1>5. LogOK
    BY DEF Init, LogOK
  <1>6. Shape /\ Unsettled /\ Queued /\ OwnTurn /\ Swept
    BY DEF Init, Shape, Unsettled, Queued, OwnTurn, Swept
  <1> QED
    BY <1>1, <1>2, <1>3, <1>4, <1>5, <1>6, TypeParts DEF IInv

----------------------------------------------------------------------------
(* Type correctness, part by part.                                          *)

LEMMA PhaseOKStep == TypeOK /\ Next => PhaseOK'
  <1> SUFFICES ASSUME TypeOK, Next PROVE PhaseOK'
    OBVIOUS
  <1>0. PhaseOK
    BY TypeParts
  <1> USE DEF ambient, turnVars, inboxVars, sendVars, activityVars, disposalVars, logVars, phaseVars
  <1>1. CASE KickAborted \/ OpenTurn \/ StartStep \/ StepReturns \/ StepThrows \/ NextTurn
    BY <1>1, <1>0 DEF KickAborted, OpenTurn, StartStep, StepReturns, StepThrows, NextTurn,
           PhaseOK, CloseStep
  <1>2. CASE EnterTurn \/ StepBoundary \/ Stopped
    BY <1>2, <1>0 DEF EnterTurn, StepBoundary, Stopped, PhaseOK, NextBatch, Throw, EndTurn
  <1>3. CASE CloseErred \/ PreStepThrows \/ Reject \/ EnterEmpty \/ StoppingThrows
    BY <1>3, <1>0 DEF CloseErred, PreStepThrows, Reject, EnterEmpty, StoppingThrows, PhaseOK,
           Throw, EndTurn
  <1>4. CASE Retire \/ MaintenanceSettles \/ RunMaintenance \/ Wake \/ Replay
    BY <1>4, <1>0 DEF Retire, MaintenanceSettles, RunMaintenance, Wake, Replay, PhaseOK, GoIdle,
           WakeDriver, StartDriver
  <1>5. CASE (\E where \in {"next-turn", "next-step"}, wakeup \in BOOLEAN : Insert(where, wakeup))
          \/ UserCancels \/ Remove \/ Dispose \/ WhenIdle
    BY <1>5, <1>0 DEF UserCancels, Remove, Dispose, WhenIdle, Insert, PhaseOK, Cancel, Pending
  <1> QED
    BY <1>1, <1>2, <1>3, <1>4, <1>5 DEF Next, Driver, Awaited, Others

LEMMA SignalOKStep == TypeOK /\ Next => SignalOK'
  <1> SUFFICES ASSUME TypeOK, Next PROVE SignalOK'
    OBVIOUS
  <1>0. SignalOK /\ CountOK
    BY TypeParts
  <1> USE DEF ambient, turnVars, inboxVars, sendVars, activityVars, disposalVars, logVars, phaseVars
  <1>1. CASE NextTurn
    BY <1>1, <1>0 DEF NextTurn, SignalOK, Runs
  <1>2. CASE UserCancels \/ Dispose
    BY <1>2, <1>0 DEF UserCancels, Dispose, SignalOK, Cancel
  <1>3. CASE Retire \/ MaintenanceSettles \/ RunMaintenance \/ Wake
    BY <1>3, <1>0 DEF Retire, MaintenanceSettles, RunMaintenance, Wake, SignalOK, GoIdle,
           WakeDriver, StartDriver
  <1>4. CASE Replay
    <2>1. CASE WakeDriver(FALSE) /\ phase = "idle"
      BY <2>1 DEF WakeDriver, StartDriver, SignalOK
    <2>2. CASE WakeDriver(FALSE) /\ phase # "idle"
      <3>1. wakeRequested' \in BOOLEAN
        BY <2>2 DEF WakeDriver
      <3>2. aborted' = aborted /\ phase' = phase
        BY <2>2 DEF WakeDriver
      <3>3. QED
        BY <1>0, <2>2, <3>1, <3>2 DEF SignalOK
    <2>3. CASE UNCHANGED phaseVars
      BY <1>0, <2>3 DEF SignalOK
    <2>4. QED
      BY <1>4, <2>1, <2>2, <2>3 DEF Replay
  <1>5. CASE KickAborted \/ OpenTurn \/ EnterTurn \/ StepBoundary \/ CloseErred
          \/ PreStepThrows \/ Reject \/ EnterEmpty \/ StartStep \/ StepReturns \/ StepThrows
          \/ Stopped \/ StoppingThrows
          \/ (\E where \in {"next-turn", "next-step"}, wakeup \in BOOLEAN : Insert(where, wakeup))
          \/ Remove \/ WhenIdle
    BY <1>5, <1>0 DEF KickAborted, OpenTurn, EnterTurn, StepBoundary, CloseErred, PreStepThrows,
           Reject, EnterEmpty, StartStep, StepReturns, StepThrows, Stopped, StoppingThrows,
           Remove, WhenIdle, Insert, SignalOK, Claim, CloseStep, EndTurn, NextBatch, Pending,
           Throw
  <1> QED
    BY <1>1, <1>2, <1>3, <1>4, <1>5 DEF Next, Driver, Awaited, Others

LEMMA CountOKStep == TypeOK /\ Next => CountOK'
  <1> SUFFICES ASSUME TypeOK, Next PROVE CountOK'
    OBVIOUS
  <1>0. SignalOK /\ CountOK
    BY TypeParts
  <1> USE DEF ambient, turnVars, inboxVars, sendVars, activityVars, disposalVars, logVars, phaseVars
  <1>1. CASE OpenTurn \/ StartStep \/ NextTurn
    BY <1>1, <1>0 DEF OpenTurn, StartStep, NextTurn, CountOK
  <1>2. CASE StepReturns \/ StepThrows
    BY <1>2, <1>0 DEF StepReturns, StepThrows, CountOK, CloseStep
  <1>3. CASE EnterTurn \/ StepBoundary \/ Stopped \/ CloseErred \/ PreStepThrows \/ Reject
          \/ EnterEmpty \/ StoppingThrows
    BY <1>3, <1>0 DEF EnterTurn, StepBoundary, Stopped, CloseErred, PreStepThrows, Reject,
           EnterEmpty, StoppingThrows, CountOK, NextBatch, Throw, EndTurn
  <1>4. CASE Retire \/ MaintenanceSettles \/ Wake \/ Replay
    BY <1>4, <1>0 DEF Retire, MaintenanceSettles, Wake, Replay, CountOK, GoIdle, WakeDriver,
           StartDriver
  <1>5. CASE KickAborted
          \/ (\E where \in {"next-turn", "next-step"}, wakeup \in BOOLEAN : Insert(where, wakeup))
          \/ UserCancels \/ Remove \/ RunMaintenance \/ Dispose \/ WhenIdle
    BY <1>5, <1>0 DEF KickAborted, UserCancels, Remove, RunMaintenance, Dispose, WhenIdle, Insert,
           CountOK, Cancel, Pending
  <1> QED
    BY <1>1, <1>2, <1>3, <1>4, <1>5 DEF Next, Driver, Awaited, Others

LEMMA InboxOKStep == TypeOK /\ Next => InboxOK'
  <1> SUFFICES ASSUME TypeOK, Next PROVE InboxOK'
    OBVIOUS
  <1>0. InboxOK
    BY TypeParts
  <1> USE DEF ambient, turnVars, inboxVars, sendVars, activityVars, disposalVars, logVars, phaseVars
  <1>1. CASE EnterTurn \/ StepBoundary \/ Stopped
    BY <1>1, <1>0 DEF EnterTurn, StepBoundary, Stopped, InboxOK, NextBatch, Claim
  <1>2. CASE (\E where \in {"next-turn", "next-step"}, wakeup \in BOOLEAN : Insert(where, wakeup))
    BY <1>2, <1>0, BoundsAssumption DEF InboxOK, Insert
  <1>3. CASE UserCancels \/ Dispose \/ Remove
    BY <1>3, <1>0 DEF UserCancels, Dispose, Remove, InboxOK, Cancel, Pending
  <1>4. CASE Wake
    BY <1>4, <1>0 DEF Wake, InboxOK
  <1>5. CASE KickAborted \/ OpenTurn \/ CloseErred \/ NextTurn \/ Retire \/ PreStepThrows
          \/ Reject \/ EnterEmpty \/ StartStep \/ StepReturns \/ StepThrows \/ StoppingThrows
          \/ MaintenanceSettles \/ RunMaintenance \/ Replay \/ WhenIdle
    BY <1>5, <1>0 DEF KickAborted, OpenTurn, CloseErred, NextTurn, Retire, PreStepThrows, Reject,
           EnterEmpty, StartStep, StepReturns, StepThrows, StoppingThrows, MaintenanceSettles,
           RunMaintenance, Replay, WhenIdle, InboxOK, CloseStep, EndTurn, GoIdle, StartDriver,
           Throw, WakeDriver
  <1> QED
    BY <1>1, <1>2, <1>3, <1>4, <1>5 DEF Next, Driver, Awaited, Others

LEMMA TakenOKStep == TypeOK /\ Next => TakenOK'
  <1> SUFFICES ASSUME TypeOK, Next PROVE TakenOK'
    OBVIOUS
  <1>0. TakenOK
    BY TypeParts
  <1> USE DEF ambient, turnVars, inboxVars, sendVars, activityVars, disposalVars, logVars, phaseVars
  <1>1. CASE OpenTurn
    BY <1>1, <1>0 DEF OpenTurn, TakenOK
  <1>2. CASE EnterTurn
    BY <1>2, <1>0 DEF EnterTurn, TakenOK, NextBatch, Claim, First
  <1>3. CASE StepBoundary
    BY <1>3, <1>0 DEF StepBoundary, TakenOK, NextBatch, Claim
  <1>4. CASE Stopped
    <2>1. turn' = turn
      BY <1>4 DEF Stopped
    <2>2. ASSUME Claim("next-step")
          PROVE  taken' \in [Msg -> 0..turn]
      BY <1>0, <2>2 DEF TakenOK, Claim
    <2>3. taken' = taken \/ Claim("next-step")
      BY <1>4 DEF Stopped, NextBatch
    <2> QED
      BY <1>0, <2>1, <2>2, <2>3 DEF TakenOK
  <1>5. CASE Wake \/ Replay
    BY <1>5, <1>0 DEF Wake, Replay, TakenOK, WakeDriver, StartDriver
  <1>6. CASE KickAborted \/ CloseErred \/ NextTurn \/ Retire \/ PreStepThrows \/ Reject
          \/ EnterEmpty \/ StartStep \/ StepReturns \/ StepThrows \/ StoppingThrows
          \/ MaintenanceSettles
          \/ (\E where \in {"next-turn", "next-step"}, wakeup \in BOOLEAN : Insert(where, wakeup))
          \/ UserCancels \/ Remove \/ RunMaintenance \/ Dispose \/ WhenIdle
    BY <1>6, <1>0 DEF KickAborted, CloseErred, NextTurn, Retire, PreStepThrows, Reject,
           EnterEmpty, StartStep, StepReturns, StepThrows, StoppingThrows, MaintenanceSettles,
           UserCancels, Remove, RunMaintenance, Dispose, WhenIdle, Insert, TakenOK, Cancel,
           CloseStep, EndTurn, GoIdle, Pending, Throw
  <1> QED
    BY <1>1, <1>2, <1>3, <1>4, <1>5, <1>6 DEF Next, Driver, Awaited, Others

LEMMA ActivityOKStep == TypeOK /\ Next => ActivityOK'
  <1> SUFFICES ASSUME TypeOK, Next PROVE ActivityOK'
    OBVIOUS
  <1>0. SignalOK /\ CountOK /\ ActivityOK
    BY TypeParts
  <1> USE DEF ambient, turnVars, inboxVars, sendVars, activityVars, disposalVars, logVars, phaseVars
  <1>1. CASE Retire \/ MaintenanceSettles
    BY <1>1, <1>0 DEF Retire, MaintenanceSettles, ActivityOK, GoIdle, SignalOK
  <1>2. CASE RunMaintenance
    BY <1>2, <1>0 DEF RunMaintenance, ActivityOK
  <1>3. CASE Wake
    BY <1>3, <1>0 DEF Wake, ActivityOK, WakeDriver, StartDriver
  <1>4. CASE Replay
    <2>1. activity' \in Nat /\ activity <= activity'
      BY <1>0, <1>4 DEF ActivityOK, Replay, WakeDriver, StartDriver
    <2>2. settled' = retiring /\ retiring' = 0 /\ replay' = FALSE
      BY <1>4 DEF Replay
    <2>3. disposal' = disposal /\ awaited' = awaited
      BY <1>4 DEF Replay
    <2>4. settled' \in 0..activity' /\ retiring' \in 0..activity' /\ awaited' \in 0..activity'
      BY <1>0, <2>1, <2>2, <2>3 DEF ActivityOK
    <2>5. replay' \in BOOLEAN /\ disposal' \in {"no", "draining", "done"}
      BY <1>0, <2>2, <2>3 DEF ActivityOK
    <2> QED
      BY <2>1, <2>4, <2>5 DEF ActivityOK
  <1>5. CASE Dispose
    BY <1>5, <1>0 DEF Dispose, ActivityOK
  <1>6. CASE WhenIdle
    BY <1>6, <1>0 DEF WhenIdle, ActivityOK
  <1>7. CASE KickAborted \/ OpenTurn \/ EnterTurn \/ StepBoundary \/ CloseErred \/ NextTurn
          \/ PreStepThrows \/ Reject \/ EnterEmpty \/ StartStep \/ StepReturns \/ StepThrows
          \/ Stopped \/ StoppingThrows
          \/ (\E where \in {"next-turn", "next-step"}, wakeup \in BOOLEAN : Insert(where, wakeup))
          \/ UserCancels \/ Remove
    BY <1>7, <1>0 DEF KickAborted, OpenTurn, EnterTurn, StepBoundary, CloseErred, NextTurn,
           PreStepThrows, Reject, EnterEmpty, StartStep, StepReturns, StepThrows, Stopped,
           StoppingThrows, UserCancels, Remove, Insert, ActivityOK, Cancel, Claim, CloseStep,
           EndTurn, NextBatch, Pending, Throw
  <1> QED
    BY <1>1, <1>2, <1>3, <1>4, <1>5, <1>6, <1>7 DEF Next, Driver, Awaited, Others

LEMMA LogOKStep == TypeOK /\ Next => LogOK'
  <1> SUFFICES ASSUME TypeOK, Next PROVE LogOK'
    OBVIOUS
  <1>0. SignalOK /\ CountOK /\ LogOK
    BY TypeParts
  <1> USE DEF ambient, turnVars, inboxVars, sendVars, activityVars, disposalVars, logVars, phaseVars
  <1>1. CASE OpenTurn \/ StartStep \/ StepReturns \/ StepThrows
    BY <1>1, <1>0 DEF OpenTurn, StartStep, StepReturns, StepThrows, LogOK, CloseStep, CountOK,
           Ending
  <1>2. CASE EnterTurn \/ StepBoundary \/ Stopped
    BY <1>2, <1>0 DEF EnterTurn, StepBoundary, Stopped, LogOK, NextBatch, Throw, EndTurn, CountOK,
           Ending
  <1>3. CASE CloseErred \/ PreStepThrows \/ Reject \/ EnterEmpty \/ StoppingThrows
    BY <1>3, <1>0 DEF CloseErred, PreStepThrows, Reject, EnterEmpty, StoppingThrows, LogOK, Throw,
           EndTurn, CountOK, Ending
  <1>4. CASE KickAborted \/ NextTurn \/ Retire \/ MaintenanceSettles
          \/ (\E where \in {"next-turn", "next-step"}, wakeup \in BOOLEAN : Insert(where, wakeup))
          \/ UserCancels \/ Remove \/ RunMaintenance \/ Dispose \/ Wake \/ Replay \/ WhenIdle
    BY <1>4, <1>0 DEF KickAborted, NextTurn, Retire, MaintenanceSettles, UserCancels, Remove,
           RunMaintenance, Dispose, Wake, Replay, WhenIdle, Insert, LogOK, Cancel, GoIdle,
           Pending, StartDriver, WakeDriver
  <1> QED
    BY <1>1, <1>2, <1>3, <1>4 DEF Next, Driver, Awaited, Others
----------------------------------------------------------------------------
(* The log and the counters of the driver.                                  *)

LEMMA ShapeStep == TypeOK /\ Shape /\ Next => Shape'
  <1> SUFFICES ASSUME TypeOK, Shape, Next PROVE Shape'
    OBVIOUS
  <1>0. /\ turn \in Nat /\ step \in Nat /\ ended \in Nat /\ steps \in Nat
        /\ pc \in {"Kick", "Opened", "PreStep", "Step", "StepEnded", "Stopping",
                  "Erred", "Ended", "Retire"}
    BY DEF TypeOK
  <1> USE DEF ambient, turnVars, logVars, phaseVars, Runs, Resumes
  <1>1. CASE KickAborted \/ NextTurn
    BY <1>0, <1>1 DEF Shape, KickAborted, NextTurn
  <1>2. CASE OpenTurn
    BY <1>0, <1>2 DEF Shape, OpenTurn
  <1>3. CASE EnterTurn \/ StepBoundary \/ Stopped
    BY <1>0, <1>3 DEF Shape, EnterTurn, StepBoundary, Stopped, NextBatch, Throw, EndTurn
  <1>4. CASE CloseErred \/ PreStepThrows \/ Reject \/ EnterEmpty \/ StoppingThrows
    BY <1>0, <1>4 DEF Shape, CloseErred, PreStepThrows, Reject, EnterEmpty, StoppingThrows, Throw,
           EndTurn
  <1>5. CASE StartStep
    BY <1>0, <1>5 DEF Shape, StartStep
  <1>6. CASE StepReturns \/ StepThrows
    BY <1>0, <1>6 DEF Shape, StepReturns, StepThrows, CloseStep
  <1>7. CASE Retire \/ MaintenanceSettles \/ RunMaintenance
    BY <1>0, <1>7 DEF Shape, Retire, MaintenanceSettles, RunMaintenance, GoIdle
  <1>8. CASE Wake \/ Replay
    BY <1>0, <1>8 DEF Shape, Wake, Replay, WakeDriver, StartDriver
  <1>9. CASE Others \/ WhenIdle
    BY <1>0, <1>7, <1>9 DEF Shape, Others, Insert, UserCancels, Remove, Dispose, WhenIdle
  <1> QED
    BY <1>1, <1>2, <1>3, <1>4, <1>5, <1>6, <1>7, <1>8, <1>9 DEF Next, Driver, Awaited

\* Every step of the driver writes at most the one event the trace has room for.
LEMMA TraceStep == TypeOK /\ Shape /\ Next => [Trace!TraceNext]_Trace!traceVars
  <1> SUFFICES ASSUME TypeOK, Shape, Next PROVE Trace!TraceNext \/ UNCHANGED logVars
    BY DEF Trace!traceVars, logVars
  <1>0. /\ turn \in Nat /\ step \in Nat /\ ended \in Nat /\ steps \in Nat
        /\ pc \in {"Kick", "Opened", "PreStep", "Step", "StepEnded", "Stopping",
                  "Erred", "Ended", "Retire"}
    BY DEF TypeOK
  <1> USE DEF ambient, Runs, Resumes
  <1>1. CASE OpenTurn
    BY <1>0, <1>1 DEF Shape, OpenTurn, Trace!TraceNext, Trace!TurnStart
  <1>2. ASSUME NEW reason, NEW again, EndTurn(reason, again), openTurn # 0, openStep = 0
        PROVE  Trace!TraceNext
    BY <1>0, <1>2 DEF EndTurn, Trace!TraceNext, Trace!TurnEnd
  <1>3. CASE EnterTurn \/ StepBoundary \/ Stopped
    <2>1. pc \in {"Opened", "StepEnded", "Stopping"}
      BY <1>3 DEF EnterTurn, StepBoundary, Stopped
    <2>2. openTurn # 0 /\ openStep = 0
      BY <1>0, <2>1 DEF Shape
    <2> QED
    BY <1>2, <1>3, <2>2 DEF EnterTurn, StepBoundary, Stopped, NextBatch, Throw
  <1>4. CASE CloseErred \/ PreStepThrows \/ Reject \/ EnterEmpty \/ StoppingThrows
    <2>1. pc \in {"Erred", "PreStep", "Stopping"}
      BY <1>4 DEF CloseErred, PreStepThrows, Reject, EnterEmpty, StoppingThrows
    <2>2. openTurn # 0 /\ openStep = 0
      BY <1>0, <2>1 DEF Shape
    <2> QED
    BY <1>2, <1>4, <2>2 DEF CloseErred, PreStepThrows, Reject, EnterEmpty, StoppingThrows, Throw
  <1>5. CASE StartStep
    BY <1>0, <1>5 DEF Shape, StartStep, Trace!TraceNext, Trace!StepStart
  <1>6. CASE StepReturns \/ StepThrows
    BY <1>0, <1>6 DEF Shape, StepReturns, StepThrows, CloseStep, Trace!TraceNext, Trace!StepEnd
  <1>7. CASE KickAborted \/ NextTurn \/ Retire \/ MaintenanceSettles \/ Wake \/ Replay
          \/ WhenIdle \/ Others
    BY <1>7 DEF KickAborted, NextTurn, Retire, MaintenanceSettles, GoIdle, Wake, Replay, WhenIdle,
           Others, Insert, UserCancels, Remove, RunMaintenance, Dispose
  <1> QED
    BY <1>1, <1>3, <1>4, <1>5, <1>6, <1>7 DEF Next, Driver, Awaited

----------------------------------------------------------------------------
(* The activity of an agent that is not idle has not settled.               *)

LEMMA UnsettledStep == TypeOK /\ Unsettled /\ Next => Unsettled'
  <1> SUFFICES ASSUME TypeOK, Unsettled, Next PROVE Unsettled'
    OBVIOUS
  <1>0. /\ activity \in Nat /\ settled \in Nat /\ retiring \in Nat
        /\ settled <= activity /\ retiring <= activity
    BY DEF TypeOK
  <1>1. CASE Wake \/ RunMaintenance
    BY <1>0, <1>1 DEF Unsettled, Wake, RunMaintenance, WakeDriver, StartDriver
  <1>2. CASE Replay
    BY <1>0, <1>2 DEF Unsettled, Replay, WakeDriver, StartDriver, phaseVars
  <1>3. CASE Retire \/ MaintenanceSettles
    BY <1>0, <1>3 DEF Unsettled, Retire, MaintenanceSettles, GoIdle
  <1>4. CASE Others
    BY <1>0, <1>1, <1>4 DEF Unsettled, Others, Insert, UserCancels, Remove, Dispose, phaseVars,
           activityVars
  <1>5. CASE Driver \/ Awaited \/ WhenIdle
    BY <1>0, <1>3, <1>5 DEF Unsettled, Driver, Awaited, KickAborted, OpenTurn, EnterTurn,
           StepBoundary, CloseErred, NextTurn, PreStepThrows, Reject, EnterEmpty, StartStep,
           StepReturns, StepThrows, CloseStep, Stopped, StoppingThrows, WhenIdle, ambient,
           phaseVars, activityVars
  <1> QED
    BY <1>1, <1>2, <1>4, <1>5 DEF Next

----------------------------------------------------------------------------
(* Retirement looks at an empty inbox.                                      *)

LEMMA SweptStep == ~GapSends /\ TypeOK /\ Shape /\ Swept /\ Next => Swept'
  <1> SUFFICES ASSUME ~GapSends, TypeOK, Shape, Swept, Next PROVE Swept'
    OBVIOUS
  <1> USE DEF ambient, turnVars, inboxVars, sendVars, logVars, phaseVars, activityVars,
             disposalVars, Runs, Resumes
  <1>1. CASE NextTurn \/ KickAborted
    BY <1>1 DEF Swept, NextTurn, KickAborted, Pending
  <1>2. CASE EnterTurn \/ StepBoundary \/ Stopped
    BY <1>2 DEF Swept, EnterTurn, StepBoundary, Stopped, NextBatch, Throw, EndTurn
  <1>3. CASE CloseErred \/ PreStepThrows \/ Reject \/ StoppingThrows
    BY <1>3 DEF Swept, CloseErred, PreStepThrows, Reject, StoppingThrows, Throw, EndTurn
  <1>4. CASE EnterEmpty
    <2>1. CASE EndTurn(turnEnds, TRUE)
      BY <2>1 DEF Swept, EndTurn
    <2>2. CASE step = 0 /\ EndTurn("completed", FALSE)
      <3>1. pc = "PreStep"
        BY <1>4 DEF EnterEmpty
      <3>2. steps = 0
        BY <2>2, <3>1 DEF Shape
      <3> QED
        BY <2>2, <3>2 DEF Swept, EndTurn
    <2> QED
      BY <1>4, <2>1, <2>2 DEF EnterEmpty
  <1>5. CASE OpenTurn \/ StartStep \/ StepReturns \/ StepThrows
    BY <1>5 DEF Swept, OpenTurn, StartStep, StepReturns, StepThrows, CloseStep
  <1>6. CASE Wake \/ RunMaintenance \/ Retire \/ MaintenanceSettles
    BY <1>6 DEF Swept, Wake, WakeDriver, StartDriver, Retire, MaintenanceSettles, GoIdle, Pending,
           RunMaintenance
  <1>7. CASE Replay
    BY <1>7 DEF Swept, Replay, WakeDriver, StartDriver, Pending
  <1>8. CASE \E where \in {"next-turn", "next-step"}, wakeup \in BOOLEAN : Insert(where, wakeup)
    BY <1>8 DEF Swept, Insert, InGap, Pending
  <1>9. CASE UserCancels \/ Remove \/ Dispose \/ WhenIdle
    BY <1>9 DEF Swept, UserCancels, Remove, Dispose, Cancel, WhenIdle, Pending
  <1> QED
    BY <1>1, <1>2, <1>3, <1>4, <1>5, <1>6, <1>7, <1>8, <1>9 DEF Next, Driver, Awaited, Others
----------------------------------------------------------------------------
(* Prompts and the turns that claim them.                                   *)

\* First picks the smallest number, if there is one.
LEMMA FirstIsLeast ==
    ASSUME NEW S \in SUBSET Nat
    PROVE  /\ First(S) \subseteq S
           /\ \A m \in First(S), n \in S \ First(S) : m < n
           /\ \A m \in First(S), n \in First(S) : m = n
  BY DEF First

LEMMA QueuedStep == TypeOK /\ Queued /\ OwnTurn /\ Next => Queued' /\ OwnTurn'
  <1> SUFFICES ASSUME TypeOK, Queued, OwnTurn, Next PROVE Queued' /\ OwnTurn'
    OBVIOUS
  <1>0. /\ turn \in Nat /\ sent \in Nat /\ sent <= N
        /\ taken \in [Msg -> 0..turn] /\ Msg \subseteq Nat /\ 1..sent \subseteq Msg
        /\ nextTurn \subseteq 1..sent /\ nextStep \subseteq 1..sent /\ prompts \subseteq 1..sent
        /\ nextTurn \cap nextStep = {}
    BY BoundsAssumption DEF TypeOK, Msg
  <1> USE DEF ambient, turnVars, inboxVars, sendVars, logVars, phaseVars, activityVars,
             disposalVars, Runs, Resumes
  <1>1. ASSUME Claim("next-step"), UNCHANGED <<sent, prompts, turn>>, pc' # "Opened"
        PROVE  Queued' /\ OwnTurn'
    <2>1. nextStep' = {} /\ nextTurn' = nextTurn
      BY <1>0, <1>1 DEF Claim
    <2>2. \A m \in Msg : m \notin nextStep => taken'[m] = taken[m]
      BY <1>0, <1>1 DEF Claim
    <2>3. \A m \in prompts : taken'[m] = taken[m]
      BY <1>0, <2>2 DEF Queued
    <2>4. OwnTurn'
      BY <1>1, <2>3 DEF OwnTurn
    <2>5. Queued'
      BY <1>0, <1>1, <2>1, <2>2, <2>3 DEF Queued
    <2> QED
      BY <2>4, <2>5
  <1>2. ASSUME Claim("next-turn"), UNCHANGED <<sent, prompts, turn>>, pc = "Opened", pc' # "Opened"
        PROVE  Queued' /\ OwnTurn'
    <2> DEFINE F == First(nextTurn)
    <2>1. /\ F \subseteq nextTurn
          /\ \A m \in F, n \in nextTurn \ F : m < n
          /\ \A m \in F, n \in F : m = n
      <3>1. nextTurn \in SUBSET Nat
        BY <1>0
      <3> QED
        BY <3>1, FirstIsLeast
    <2>2. nextStep' = {} /\ nextTurn' = nextTurn \ F
      BY <1>0, <1>2, <2>1 DEF Claim
    <2>3. \A m \in Msg : taken'[m] = IF m \in nextStep \cup F THEN turn ELSE taken[m]
      BY <1>2 DEF Claim
    <2> HIDE DEF F
    <2>4. \A m \in prompts : m \in Msg /\ taken'[m] = IF m \in F THEN turn ELSE taken[m]
      BY <1>0, <2>3 DEF Queued
    <2>5. \A m \in Msg : taken[m] < turn
      BY <1>2 DEF Queued
    <2>6. OwnTurn'
      <3> SUFFICES ASSUME NEW m \in prompts, NEW n \in prompts, m < n, taken'[m] # 0, taken'[n] # 0
                   PROVE  taken'[m] < taken'[n]
        BY <1>2 DEF OwnTurn
      <3>1. CASE n \in F
        <4>1. m \notin F
          BY <1>0, <2>1, <3>1
        <4> QED
          BY <2>4, <2>5, <3>1, <4>1
      <3>2. CASE n \notin F /\ m \in F
        <4>1. taken[n] # 0
          BY <2>4, <3>2
        <4>2. n < m
          BY <2>1, <3>2, <4>1 DEF Queued
        <4> QED
          BY <1>0, <4>2
      <3>3. CASE n \notin F /\ m \notin F
        BY <2>4, <3>3 DEF OwnTurn
      <3> QED
        BY <3>1, <3>2, <3>3
    <2>7. \A m \in nextTurn' : \A n \in prompts' : taken'[n] # 0 => n < m
      BY <1>2, <2>1, <2>2, <2>4 DEF Queued
    <2>8. \A m \in Msg : m > sent => taken'[m] = 0
      BY <1>0, <2>1, <2>3 DEF Queued
    <2> QED
      BY <1>2, <2>2, <2>6, <2>7, <2>8 DEF Queued
  <1>3. ASSUME UNCHANGED <<sent, prompts, turn, taken>>, nextTurn' \subseteq nextTurn,
               nextStep' \subseteq nextStep, pc' # "Opened" \/ pc = "Opened"
        PROVE  Queued' /\ OwnTurn'
    BY <1>3 DEF Queued, OwnTurn
  <1>4. CASE EnterTurn
    BY <1>2, <1>3, <1>4 DEF EnterTurn, NextBatch, Throw, EndTurn
  <1>5. CASE StepBoundary
    BY <1>1, <1>3, <1>5 DEF StepBoundary, NextBatch, Throw, EndTurn
  <1>6. CASE Stopped
    BY <1>1, <1>3, <1>6 DEF Stopped, NextBatch, EndTurn
  <1>7. CASE CloseErred \/ PreStepThrows \/ Reject \/ EnterEmpty \/ StoppingThrows
    BY <1>3, <1>7 DEF CloseErred, PreStepThrows, Reject, EnterEmpty, StoppingThrows, Throw, EndTurn
  <1>8. CASE OpenTurn
    <2>1. UNCHANGED <<sent, prompts, taken, nextTurn, nextStep>> /\ turn' = turn + 1
      BY <1>8 DEF OpenTurn
    <2>2. \A m \in Msg : taken[m] < turn'
      BY <1>0, <2>1
    <2> QED
      BY <2>1, <2>2 DEF Queued, OwnTurn
  <1>9. CASE StartStep \/ StepReturns \/ StepThrows \/ KickAborted \/ NextTurn
    BY <1>3, <1>9 DEF StartStep, StepReturns, StepThrows, CloseStep, KickAborted, NextTurn
  <1>10. CASE Retire \/ MaintenanceSettles \/ RunMaintenance \/ WhenIdle
    BY <1>3, <1>10 DEF Retire, MaintenanceSettles, GoIdle, RunMaintenance, WhenIdle
  <1>11. CASE Wake \/ Replay
    BY <1>3, <1>11 DEF Wake, Replay, WakeDriver, StartDriver
  <1>12. CASE UserCancels \/ Remove \/ Dispose
    BY <1>3, <1>12 DEF UserCancels, Remove, Dispose, Cancel
  <1>13. ASSUME NEW where \in {"next-turn", "next-step"}, NEW wakeup \in BOOLEAN,
                Insert(where, wakeup)
         PROVE  Queued' /\ OwnTurn'
    <2>1. /\ sent' = sent + 1 /\ sent + 1 \in Msg
          /\ UNCHANGED <<taken, turn, pc>>
      BY <1>0, <1>13, BoundsAssumption DEF Insert, Msg
    <2>2. \/ nextTurn' = nextTurn \cup {sent + 1} /\ prompts' = prompts \cup {sent + 1}
             /\ nextStep' = nextStep
          \/ nextTurn' = nextTurn /\ prompts' = prompts /\ nextStep' = nextStep \cup {sent + 1}
      BY <1>13 DEF Insert
    <2>3. taken[sent + 1] = 0
      BY <1>0, <2>1 DEF Queued
    <2>4. sent + 1 \notin nextStep /\ sent + 1 \notin prompts
      BY <1>0
    <2>5. OwnTurn'
      BY <2>1, <2>2, <2>3 DEF OwnTurn
    <2>6. nextTurn' \subseteq prompts' /\ nextStep' \cap prompts' = {}
      BY <2>2, <2>4 DEF Queued
    <2>7. \A m \in nextTurn' : \A n \in prompts' : taken'[n] # 0 => n < m
      <3> SUFFICES ASSUME NEW m \in nextTurn', NEW n \in prompts', taken[n] # 0 PROVE n < m
        BY <2>1
      <3>1. n \in prompts
        BY <2>2, <2>3
      <3>2. CASE m \in nextTurn
        BY <3>1, <3>2 DEF Queued
      <3>3. CASE m = sent + 1
        BY <1>0, <3>1, <3>3
      <3> QED
        BY <2>2, <3>2, <3>3
    <2>8. \A m \in Msg : m > sent' => taken'[m] = 0
      BY <1>0, <2>1 DEF Queued
    <2> QED
      BY <2>1, <2>5, <2>6, <2>7, <2>8 DEF Queued
  <1> QED
    BY <1>4, <1>5, <1>6, <1>7, <1>8, <1>9, <1>10, <1>11, <1>12, <1>13 DEF Next, Driver, Awaited,
           Others
----------------------------------------------------------------------------
(* What a step may never do.                                                *)

LEMMA CancelRecordedStep ==
    Next => (openTurn # 0 /\ openTurn' = 0 /\ aborted # "none" => lastEnd' \in {"aborted", "error"})
  <1> SUFFICES ASSUME Next, openTurn # 0, openTurn' = 0, aborted # "none"
               PROVE  lastEnd' \in {"aborted", "error"}
    OBVIOUS
  <1> USE DEF logVars
  <1>1. CASE EnterTurn \/ StepBoundary \/ PreStepThrows \/ StoppingThrows \/ CloseErred
    BY <1>1 DEF EnterTurn, StepBoundary, PreStepThrows, StoppingThrows, CloseErred, Throw,
           EndTurn, NextBatch
  <1>2. CASE KickAborted \/ NextTurn \/ Wake \/ Replay \/ WhenIdle \/ Others
    BY <1>2 DEF KickAborted, NextTurn, Wake, Replay, WhenIdle, Others, Insert, UserCancels,
           Remove, RunMaintenance, Dispose
  <1>3. CASE StepReturns \/ StepThrows \/ Retire \/ MaintenanceSettles
    BY <1>3 DEF StepReturns, StepThrows, CloseStep, Retire, MaintenanceSettles, GoIdle
  <1>4. CASE OpenTurn \/ Reject \/ EnterEmpty \/ StartStep \/ Stopped
    BY <1>4 DEF OpenTurn, Reject, EnterEmpty, StartStep, Stopped
  <1> QED
    BY <1>1, <1>2, <1>3, <1>4 DEF Next, Driver, Awaited

LEMMA DisposerStep ==
    TypeOK /\ Unsettled /\ Next => (disposal = "draining" /\ disposal' = "done" => phase = "idle")
  <1> SUFFICES ASSUME TypeOK, Unsettled, Next, disposal = "draining", disposal' = "done"
               PROVE  phase = "idle"
    OBVIOUS
  <1>1. CASE WhenIdle
    BY <1>1 DEF WhenIdle, Unsettled, TypeOK
  <1>2. CASE Driver \/ Awaited
    BY <1>2 DEF Driver, Awaited, KickAborted, OpenTurn, EnterTurn, StepBoundary, CloseErred,
           NextTurn,
           Retire, GoIdle, PreStepThrows, Reject, EnterEmpty, StartStep, StepReturns, StepThrows,
           CloseStep, Stopped, StoppingThrows, MaintenanceSettles, ambient, disposalVars
  <1>3. CASE Others \/ Wake \/ Replay
    BY <1>3 DEF Others, Wake, Replay, Insert, UserCancels, Remove, RunMaintenance, Dispose,
           disposalVars
  <1> QED
    BY <1>1, <1>2, <1>3 DEF Next

LEMMA NothingLeftStep ==
    Swept /\ Next =>
        (phase = "running" /\ phase' = "idle" /\ aborted = "none"
         /\ lastEnd \in {"completed", "max-tokens"} /\ steps > 0 => Pending \cap waking = {})
  <1> SUFFICES ASSUME Swept, Next, phase = "running", phase' = "idle", aborted = "none",
                      lastEnd \in {"completed", "max-tokens"}, steps > 0
               PROVE  Pending = {}
    OBVIOUS
  <1> USE DEF phaseVars
  <1>1. CASE Retire
    BY <1>1 DEF Retire, Resumes, Runs, Swept
  <1>2. CASE Driver /\ ~Retire
    BY <1>2 DEF Driver, KickAborted, OpenTurn, EnterTurn, StepBoundary, CloseErred, NextTurn,
           ambient
  <1>3. CASE Awaited
    BY <1>3 DEF Awaited, PreStepThrows, Reject, EnterEmpty, StartStep, StepReturns, StepThrows,
           CloseStep, Stopped, StoppingThrows, MaintenanceSettles, ambient
  <1>4. CASE Others \/ WhenIdle
    BY <1>4 DEF Others, Insert, UserCancels, Remove, RunMaintenance, Dispose, WhenIdle
  <1>5. CASE Wake \/ Replay
    BY <1>5 DEF Wake, Replay, WakeDriver
  <1> QED
    BY <1>1, <1>2, <1>3, <1>4, <1>5 DEF Next

----------------------------------------------------------------------------
(* The theorems.                                                            *)

LEMMA InvStep == IInv /\ [Next]_vars => IInv'
  <1> SUFFICES ASSUME IInv, [Next]_vars PROVE IInv'
    OBVIOUS
  <1>1. CASE Next
    <2>1. TypeOK'
      <3>1. PhaseOK' /\ SignalOK' /\ CountOK'
        BY <1>1, PhaseOKStep, SignalOKStep, CountOKStep DEF IInv
      <3>2. InboxOK' /\ TakenOK' /\ ActivityOK' /\ LogOK'
        BY <1>1, InboxOKStep, TakenOKStep, ActivityOKStep, LogOKStep DEF IInv
      <3> QED
        BY <3>1, <3>2
           DEF TypeOK, PhaseOK, SignalOK, CountOK, InboxOK, TakenOK, ActivityOK, LogOK
    <2>2. Shape' /\ Unsettled' /\ Queued' /\ OwnTurn'
      BY <1>1, ShapeStep, UnsettledStep, QueuedStep DEF IInv
    <2> QED
      BY <2>1, <2>2 DEF IInv
  <1>2. CASE UNCHANGED vars
    <2> USE DEF vars, phaseVars, turnVars, inboxVars, sendVars, activityVars, disposalVars, logVars
    <2>1. TypeOK'
      BY <1>2 DEF IInv, TypeOK
    <2>2. Shape' /\ Unsettled'
      BY <1>2 DEF IInv, Shape, Unsettled
    <2>3. Queued' /\ OwnTurn'
      BY <1>2 DEF IInv, Queued, OwnTurn
    <2> QED
      BY <2>1, <2>2, <2>3 DEF IInv
  <1> QED
    BY <1>1, <1>2

LEMMA Invariance == Spec => []IInv
  BY InitInv, InvStep, PTL DEF Spec

\* The driver's variables keep their types, whatever is sent, cancelled,
\* removed or disposed at whatever moment.
THEOREM TypeCorrect == Spec => []TypeOK
  <1>1. IInv => TypeOK
    BY DEF IInv
  <1> QED
    BY <1>1, Invariance, PTL

\* Prompts run in the order they were sent, each in a turn of its own, for any
\* number of them and any cancellations in between.
THEOREM PromptsKeepTheirTurns == Spec => []OwnTurn
  <1>1. IInv => OwnTurn
    BY DEF IInv
  <1> QED
    BY <1>1, Invariance, PTL

\* Along every exit of a turn the log keeps the shape its readers rely on: the
\* driver implements DshSessionTrace.
THEOREM TraceKept == Spec => KeepsTrace
  <1>1. Init => Trace!TraceInit
    BY DEF Init, Trace!TraceInit
  <1>2. IInv /\ [Next]_vars => [Trace!TraceNext]_Trace!traceVars
    <2>1. UNCHANGED vars => UNCHANGED Trace!traceVars
      BY DEF vars, logVars, Trace!traceVars
    <2> QED
      BY <2>1, TraceStep DEF IInv
  <1> QED
    BY <1>1, <1>2, Invariance, PTL DEF Spec, KeepsTrace, Trace!TraceSpec

\* A turn that was cancelled while it ran never ends as one that completed or
\* was blocked.
THEOREM CancelsAreRecorded == Spec => CancelIsRecorded
  BY CancelRecordedStep, PTL DEF Spec, CancelIsRecorded

\* Teardown goes on only when the agent is idle, however many activities start
\* while it drains.
THEOREM TeardownSeesIdle == Spec => DisposerSeesIdle
  <1>1. IInv /\ [Next]_vars =>
            [disposal = "draining" /\ disposal' = "done" => phase = "idle"]_vars
    BY DisposerStep DEF IInv
  <1> QED
    BY <1>1, Invariance, PTL DEF Spec, DisposerSeesIdle

\* If nobody can send in the gap before the retirement, a driver leaves no
\* waking message behind.
THEOREM NothingStaysBehind ==
    ASSUME ~GapSends
    PROVE  Spec => NothingLeftBehind
  <1>1. IInv /\ Swept /\ [Next]_vars => Swept'
    <2>1. UNCHANGED vars /\ Swept => Swept'
      BY DEF vars, phaseVars, inboxVars, logVars, Swept, Pending
    <2> QED
      BY <2>1, SweptStep DEF IInv
  <1>2. Swept /\ [Next]_vars =>
            [/\ phase = "running" /\ phase' = "idle" /\ aborted = "none"
             /\ lastEnd \in {"completed", "max-tokens"} /\ steps > 0
             => Pending \cap waking = {}]_vars
    BY NothingLeftStep
  <1> QED
    BY <1>1, <1>2, InitInv, Invariance, PTL DEF Spec, NothingLeftBehind
============================================================================
