-------------------------- MODULE DshSessionTrace --------------------------
(***************************************************************************)
(* The shape every session log has, as the session package's invariant      *)
(* companion checks it event by event: turns are numbered without a gap and *)
(* never overlap, and so are the steps within a turn.  Of the companion's   *)
(* relations these are the ones that turn/start, turn/end, step/start and   *)
(* step/end take part in.                                                   *)
(***************************************************************************)
EXTENDS Naturals

VARIABLES openTurn, openStep,  \* the number of what is open, or 0
          nextTurn, nextStep
traceVars == <<openTurn, openStep, nextTurn, nextStep>>

TraceInit == openTurn = 0 /\ openStep = 0 /\ nextTurn = 1 /\ nextStep = 1

TurnStart ==
    /\ openTurn = 0
    /\ openTurn' = nextTurn
    /\ nextStep' = 1
    /\ UNCHANGED <<openStep, nextTurn>>

TurnEnd ==
    /\ openTurn # 0 /\ openStep = 0
    /\ openTurn' = 0
    /\ nextTurn' = nextTurn + 1
    /\ UNCHANGED <<openStep, nextStep>>

StepStart ==
    /\ openTurn # 0 /\ openStep = 0
    /\ openStep' = nextStep
    /\ UNCHANGED <<openTurn, nextTurn, nextStep>>

StepEnd ==
    /\ openTurn # 0 /\ openStep # 0
    /\ openStep' = 0
    /\ nextStep' = nextStep + 1
    /\ UNCHANGED <<openTurn, nextTurn>>

TraceNext == TurnStart \/ TurnEnd \/ StepStart \/ StepEnd

TraceSpec == TraceInit /\ [][TraceNext]_traceVars
============================================================================
