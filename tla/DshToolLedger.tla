--------------------------- MODULE DshToolLedger ---------------------------
(***************************************************************************)
(* What the session log promises about the tool calls of one step, whatever *)
(* ran in parallel: calls are announced in the order of the model, answered *)
(* in the same order and never before they were announced.  A step that     *)
(* completes has answered every call, those it skipped included; one that   *)
(* fails leaves the rest unanswered and answers nothing afterwards.         *)
(***************************************************************************)
EXTENDS Naturals

CONSTANT N   \* calls of the step

VARIABLES announced, answered,  \* the calls of which the log holds the call, the result
          outcome
ledgerVars == <<announced, answered, outcome>>

All == 1..N

LedgerInit == announced = {} /\ answered = {} /\ outcome = "open"

Announce ==
    /\ outcome = "open"
    /\ \E c \in All \ announced :
          /\ 1..(c - 1) \subseteq announced
          /\ announced' = announced \cup {c}
    /\ UNCHANGED <<answered, outcome>>

Answer ==
    /\ outcome = "open"
    /\ \E c \in announced \ answered :
          /\ 1..(c - 1) \subseteq answered
          /\ answered' = answered \cup {c}
    /\ UNCHANGED <<announced, outcome>>

\* The rest is announced and answered at once, and only when nothing is open.
Skip ==
    /\ outcome = "open" /\ answered = announced
    /\ announced' = All /\ answered' = All
    /\ outcome' = "complete"

Complete ==
    /\ outcome = "open" /\ answered = All
    /\ outcome' = "complete"
    /\ UNCHANGED <<announced, answered>>

Fail ==
    /\ outcome = "open"
    /\ outcome' = "failed"
    /\ UNCHANGED <<announced, answered>>

LedgerNext == Announce \/ Answer \/ Skip \/ Complete \/ Fail

LedgerSpec == LedgerInit /\ [][LedgerNext]_ledgerVars
============================================================================
