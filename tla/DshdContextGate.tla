-------------------------- MODULE DshdContextGate --------------------------
(***************************************************************************)
(* What dshd promises whoever holds its connection context, with no trace   *)
(* of attempts, child processes or threads.  The node publishes generations *)
(* one at a time.  Each new one is larger than every earlier one, and only  *)
(* the latest is ever on offer.  Whatever stops the node from serving (an   *)
(* operator stop, a shutdown, a fence) withdraws the offer in the very step *)
(* that takes effect, and a closed node never offers anything again.        *)
(***************************************************************************)
EXTENDS Naturals

VARIABLES mode,        \* may the node offer a context?
          generation,  \* the largest generation ever offered
          offered      \* the generation on offer, or None
gateVars == <<mode, generation, offered>>

None == 0

GateInit ==
    /\ mode \in {"open", "paused"}
    /\ generation = 0
    /\ offered = None

Publish ==
    /\ mode = "open"
    /\ generation' = generation + 1
    /\ offered' = generation'
    /\ UNCHANGED mode

Withdraw ==
    /\ offered' = None
    /\ UNCHANGED <<mode, generation>>

\* An operator stop, which an operator start undoes.
Pause ==
    /\ mode = "open"
    /\ mode' = "paused"
    /\ offered' = None
    /\ UNCHANGED generation

Resume ==
    /\ mode = "paused"
    /\ mode' = "open"
    /\ UNCHANGED <<generation, offered>>

\* Shutdown or fence, which nothing undoes.
Close ==
    /\ mode' = "closed"
    /\ offered' = None
    /\ UNCHANGED generation

GateNext == Publish \/ Withdraw \/ Pause \/ Resume \/ Close

GateSpec == GateInit /\ [][GateNext]_gateVars
============================================================================
