---------------------------- MODULE DshJobRecord ----------------------------
(***************************************************************************)
(* What the job registry promises of every record, whoever kills, reads,   *)
(* waits for or tears down the job: one terminal status, the first; a      *)
(* report is never taken back; and one announcement of the completion,     *)
(* with the settlement, exactly when nobody has claimed the report by then.*)
(***************************************************************************)
CONSTANT Jobs

VARIABLES
    status,     \* of each job: "none", "running", "stopping" or terminal
    reported,   \* somebody was told, or needs no telling
    noticed     \* the completion was announced to the owner

vars == <<status, reported, noticed>>

Terminal == {"completed", "killed", "failed"}
Live == {"running", "stopping"}

Init ==
    /\ status = [j \in Jobs |-> "none"]
    /\ reported = [j \in Jobs |-> FALSE]
    /\ noticed = [j \in Jobs |-> FALSE]

Keeps(j) ==
    status'[j] = status[j] /\ reported'[j] = reported[j] /\ noticed'[j] = noticed[j]

Register(j) ==
    /\ status[j] = "none" /\ status'[j] = "running"
    /\ ~reported'[j] /\ ~noticed'[j]

(* A stop that was asked for claims the report at once.                    *)
Stop(j) ==
    /\ status[j] \in Live /\ status'[j] = "stopping"
    /\ reported'[j] /\ ~noticed'[j]

Settle(j) ==
    /\ status[j] \in Live /\ status'[j] \in Terminal
    /\ reported[j] => reported'[j]
    /\ noticed'[j] = ~reported'[j]

Report(j) ==
    /\ status[j] \in Terminal /\ status'[j] = status[j]
    /\ reported'[j] /\ noticed'[j] = noticed[j]

(* A teardown moves several records at once, each by a step of its own.    *)
Next ==
    \A j \in Jobs : Keeps(j) \/ Register(j) \/ Stop(j) \/ Settle(j) \/ Report(j)

Spec == Init /\ [][Next]_vars
=============================================================================
