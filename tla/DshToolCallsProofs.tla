------------------------ MODULE DshToolCallsProofs ------------------------
(***************************************************************************)
(* Proofs about the tool-call scheduler for every number of calls, every    *)
(* pool size and every combination of faults.  The inductive invariant has  *)
(* four parts: what the log holds (Books), what each call's stage, slot and *)
(* body say of one another (Stages), why a started call may still be open   *)
(* (Accounted), and what each await of the scheduler relies on (Awaits).    *)
(***************************************************************************)
EXTENDS DshToolCalls, FiniteSetTheorems, TLAPS

Busy(c) == stage[c] \in {"dispatched", "body"}

\* Calls and results are written for a prefix of the calls, in order.
Books ==
    /\ \A c \in Call : (callSeq[c] # 0 <=> c <= started) /\ callSeq[c] <= seq
    /\ \A c \in Call : (resultSeq[c] # 0 <=> c <= committed) /\ resultSeq[c] <= seq
    /\ \A c \in Call : recorded[c] # "none" <=> c <= committed
    /\ LedgerInOrder

Stages ==
    /\ \A c \in Call : c > started => stage[c] = "idle" /\ slot[c] = Empty
    /\ \A c \in Call : stage[c] \in {"idle", "dispatched"} => ran[c] = "no"
    /\ \A c \in Call : stage[c] = "body" => ran[c] # "no"
    /\ \A c \in Call : Busy(c) => c \in inFlight /\ slot[c] = Empty
    /\ \A c \in Call : slot[c].outcome = "skipped" => ran[c] # "once"
    /\ \A c \in Call : slot[c].outcome = "aborted" => ran[c] # "no"
    /\ CancellationIsHonest

\* A started call that has neither a result nor a slot is running, is being
\* prepared, or was lost to a failure.
Accounted ==
    /\ \A c \in Call : committed < c /\ c <= started =>
          slot[c] # Empty \/ Busy(c) \/ failure \/ (pc = "Prepare" /\ c = started)
    /\ pc # "Returned" => \A c \in Call : c <= committed => slot[c] # Empty

Awaits ==
    /\ pc \in {"Group", "Returned"} => committed = started /\ inFlight = {} /\ ~failure
    /\ pc = "Returned" => started = N
    /\ pc \notin {"Group", "Returned"} => started <= last
    /\ pc = "Prepare" => committed < started /\ stage[started] = "idle" /\ slot[started] = Empty
    /\ pc = "Finalize" => committed < started /\ slot[committed + 1] # Empty
    /\ pc \in {"Drain", "Threw"} => failure
    /\ pc = "Threw" => \A c \in Call : ~Busy(c)

IInv == TypeOK /\ Books /\ Stages /\ Accounted /\ Awaits

----------------------------------------------------------------------------
(* Consequences of the invariant the steps rely on.                         *)

LEMMA InitInv == Init => IInv
  <1> SUFFICES ASSUME Init PROVE IInv
    OBVIOUS
  <1>1. \A c \in Call : c \in Nat /\ c > 0
    BY NAssumption DEF Call
  <1>2. Empty \in Slot /\ Empty.outcome = "none"
    BY DEF Empty, Pending, Slot
  <1>3. TypeOK
    <2>1. first \in 1..(N + 1) /\ last \in 0..N /\ started \in 0..N /\ committed \in 0..started
      BY NAssumption DEF Init
    <2>2. /\ slot \in [Call -> Slot]
          /\ stage \in [Call -> {"idle", "dispatched", "body", "settled"}]
          /\ ran \in [Call -> {"no", "once", "again"}]
          /\ recorded \in [Call -> Outcome \cup {"none"}]
      BY <1>2 DEF Init
    <2>3. seq \in Nat /\ callSeq \in [Call -> Nat] /\ resultSeq \in [Call -> Nat]
      BY DEF Init
    <2>4. QED
      BY <2>1, <2>2, <2>3 DEF Init, TypeOK
  <1>4. Books
    BY <1>1 DEF Init, Books, LedgerInOrder
  <1>5. Stages
    BY <1>2 DEF Init, Stages, CancellationIsHonest, Busy
  <1>6. Accounted /\ Awaits
    BY <1>1, NAssumption DEF Init, Accounted, Awaits
  <1>7. QED
    BY <1>3, <1>4, <1>5, <1>6 DEF IInv

\* When nothing can be committed, nothing runs and nothing failed, every
\* started call has its result: the scheduler's own check cannot fire.
LEMMA NothingUncommitted ==
    ASSUME IInv, Settled, ~failure, inFlight = {}
    PROVE  committed = started
  <1>1. SUFFICES ASSUME committed < started
                 PROVE  FALSE
    BY NAssumption DEF IInv, TypeOK
  <1>2. committed + 1 \in Call /\ committed + 1 <= started /\ started <= last
    BY <1>1, NAssumption DEF IInv, TypeOK, Call, Awaits, Settled
  <1>3. slot[committed + 1] = Empty
    BY <1>2, NAssumption DEF IInv, TypeOK, Settled, Committable
  <1>4. ~Busy(committed + 1)
    BY <1>2 DEF IInv, Stages
  <1>5. QED
    BY <1>2, <1>3, <1>4, NAssumption DEF IInv, TypeOK, Accounted, Settled

\* Recording the next result of a call whose outcome is known.
LEMMA RecordKeeps ==
    ASSUME IInv, NEW o \in Outcome, Record(o),
           committed < started, slot[committed + 1] # Empty,
           o = "skipped" => ran[committed + 1] # "once", o = "aborted" => ran[committed + 1] # "no",
           UNCHANGED <<groupVars, started, inFlight, toolVars, signal, failure>>
    PROVE  /\ committed' \in 0..started' /\ committed' = committed + 1
           /\ seq' \in Nat /\ callSeq' \in [Call -> Nat] /\ resultSeq' \in [Call -> Nat]
           /\ recorded' \in [Call -> Outcome \cup {"none"}]
           /\ Books' /\ Stages'
           /\ \A c \in Call : c <= committed' => slot'[c] # Empty \/ pc = "Returned"
  <1> DEFINE k == committed + 1
  <1> USE NAssumption DEF IInv, TypeOK
  <1>1. k \in Call /\ k \in Nat /\ k <= started
    BY DEF Call
  <1>2. /\ committed' = k /\ seq' = seq + 1 /\ callSeq' = callSeq
        /\ resultSeq' = [resultSeq EXCEPT ![k] = seq + 1]
        /\ recorded' = [recorded EXCEPT ![k] = o]
    BY DEF Record
  <1>3. started' = started /\ slot' = slot /\ ran' = ran /\ stage' = stage /\ inFlight' = inFlight
    BY DEF toolVars
  <1>4. \A c \in Call : c <= k <=> c <= committed \/ c = k
    BY DEF Call
  <1>5. o # "none"
    BY DEF Outcome
  <1> HIDE DEF k
  <1>6. \A c \in Call : resultSeq'[c] = IF c = k THEN seq + 1 ELSE resultSeq[c]
    BY <1>1, <1>2
  <1>7. \A c \in Call : recorded'[c] = IF c = k THEN o ELSE recorded[c]
    BY <1>1, <1>2
  <1>8. LedgerInOrder'
    <2> SUFFICES ASSUME NEW c \in Call
                 PROVE  /\ resultSeq'[c] # 0 => callSeq[c] # 0 /\ callSeq[c] < resultSeq'[c]
                        /\ \A d \in 1..(c - 1) :
                              resultSeq'[c] # 0 => resultSeq'[d] # 0 /\ resultSeq'[d] < resultSeq'[c]
      BY <1>2 DEF Books, LedgerInOrder
    <2>1. \A d \in 1..(c - 1) : d \in Call /\ d < c
      BY DEF Call
    <2>2. CASE c = k
      <3>1. \A d \in 1..(c - 1) : d # k /\ d <= committed
        BY <1>1, <1>4, <2>1, <2>2 DEF k
      <3>2. QED
        BY <1>1, <1>6, <2>1, <2>2, <3>1 DEF Books
    <2>3. CASE c # k
      BY <1>1, <1>6, <2>1, <2>3, <1>4 DEF Books, LedgerInOrder, k, Call
    <2>4. QED
      BY <2>2, <2>3
  <1>9. Books'
    BY <1>1, <1>2, <1>3, <1>4, <1>5, <1>6, <1>7, <1>8 DEF Books
  <1>10. Stages'
    BY <1>1, <1>3, <1>7 DEF Stages, Busy, CancellationIsHonest, k
  <1>11. \A c \in Call : c <= committed' => slot'[c] # Empty \/ pc = "Returned"
    BY <1>1, <1>2, <1>3, <1>4 DEF Accounted, k
  <1>12. QED
    BY <1>1, <1>2, <1>3, <1>9, <1>10, <1>11 DEF k

----------------------------------------------------------------------------
(* The steps.                                                               *)

\* Steps that touch neither the calls nor the log.
LEMMA QuietKeeps ==
    ASSUME IInv,
           \/ NextGroup \/ ReturnAll \/ AwaitFinalize \/ FinalizeThrows \/ PrepareFails
           \/ AwaitRace \/ Fail \/ Drained \/ Abort
    PROVE  IInv'
  <1> USE NAssumption DEF IInv, TypeOK, Call, groupVars, toolVars, logVars
  <1>1. CASE NextGroup
    BY <1>1 DEF NextGroup, Books, LedgerInOrder, Stages, CancellationIsHonest, Accounted, Awaits, Busy
  <1>2. CASE ReturnAll
    BY <1>2 DEF ReturnAll, Books, LedgerInOrder, Stages, CancellationIsHonest, Accounted, Awaits, Busy
  <1>3. CASE AwaitFinalize
    BY <1>3 DEF AwaitFinalize, Committable, Books, LedgerInOrder, Stages, CancellationIsHonest,
                Accounted, Awaits, Busy
  <1>4. CASE FinalizeThrows
    BY <1>4 DEF FinalizeThrows, Books, LedgerInOrder, Stages, CancellationIsHonest, Accounted,
                Awaits, Busy
  <1>5. CASE PrepareFails
    BY <1>5 DEF PrepareFails, Books, LedgerInOrder, Stages, CancellationIsHonest, Accounted,
                Awaits, Busy
  <1>6. CASE AwaitRace
    BY <1>6 DEF AwaitRace, Settled, Books, LedgerInOrder, Stages, CancellationIsHonest,
                Accounted, Awaits, Busy
  <1>7. CASE Fail
    BY <1>7 DEF Fail, Settled, Books, LedgerInOrder, Stages, CancellationIsHonest, Accounted,
                Awaits, Busy
  <1>8. CASE Drained
    BY <1>8 DEF Drained, Books, LedgerInOrder, Stages, CancellationIsHonest, Accounted, Awaits, Busy
  <1>9. CASE Abort
    BY <1>9 DEF Abort, Books, LedgerInOrder, Stages, CancellationIsHonest, Accounted, Awaits, Busy
  <1>10. QED
    BY <1>1, <1>2, <1>3, <1>4, <1>5, <1>6, <1>7, <1>8, <1>9

LEMMA CommitKeeps ==
    ASSUME IInv, CommitFinal \/ Finalized
    PROVE  IInv'
  <1> USE NAssumption DEF IInv, TypeOK
  <1>1. committed + 1 \in Call /\ committed < started /\ slot[committed + 1] # Empty
    BY DEF CommitFinal, Finalized, Committable, Awaits, Call, Stages
  <1>2. slot[committed + 1].outcome \in Outcome
    BY <1>1 DEF Slot
  <1>3. PICK o \in Outcome :
          /\ Record(o)
          /\ o = "skipped" => ran[committed + 1] # "once"
          /\ o = "aborted" => ran[committed + 1] # "no"
    BY <1>1, <1>2 DEF CommitFinal, Finalized, Cancelled, Outcome, Stages
  <1>4. /\ UNCHANGED <<groupVars, started, inFlight, toolVars, signal, failure>>
        /\ pc' = "Commit" /\ pc # "Returned" /\ pc # "Group"
    BY DEF CommitFinal, Finalized
  <1>5. /\ committed' \in 0..started' /\ committed' = committed + 1
        /\ seq' \in Nat /\ callSeq' \in [Call -> Nat] /\ resultSeq' \in [Call -> Nat]
        /\ recorded' \in [Call -> Outcome \cup {"none"}]
        /\ Books' /\ Stages'
        /\ \A c \in Call : c <= committed' => slot'[c] # Empty \/ pc = "Returned"
    BY <1>1, <1>3, <1>4, RecordKeeps
  <1>6. TypeOK'
    BY <1>4, <1>5 DEF groupVars, toolVars
  <1>7. Accounted'
    BY <1>4, <1>5 DEF Accounted, Busy, toolVars, CommitFinal, Finalized, Call
  <1>8. Awaits'
    BY <1>4, <1>5 DEF Awaits, groupVars, toolVars, CommitFinal, Finalized
  <1>9. QED
    BY <1>5, <1>6, <1>7, <1>8

LEMMA StartKeeps ==
    ASSUME IInv, Start
    PROVE  IInv'
  <1> USE NAssumption DEF IInv, TypeOK, Call, Start, Settled, CanStart, groupVars, toolVars
  <1>1. TypeOK'
    OBVIOUS
  <1>2. Books'
    BY DEF Books, LedgerInOrder
  <1>3. Stages'
    BY DEF Stages, Busy, CancellationIsHonest
  <1>4. Accounted'
    BY DEF Accounted, Busy
  <1>5. Awaits'
    <2>1. stage[started + 1] = "idle" /\ slot[started + 1] = Empty
      BY DEF Stages
    <2>2. QED
      BY <2>1 DEF Awaits
  <1>6. QED
    BY <1>1, <1>2, <1>3, <1>4, <1>5

LEMMA PrepareKeeps ==
    ASSUME IInv, PrepareDispatches \/ PrepareAnswers
    PROVE  IInv'
  <1> USE NAssumption DEF IInv, TypeOK, Call
  <1>1. /\ committed < started /\ started \in Call /\ ~failure /\ pc = "Prepare"
        /\ stage[started] = "idle" /\ slot[started] = Empty /\ ran[started] = "no"
    BY DEF PrepareDispatches, PrepareAnswers, Awaits, Stages
  <1>2. CASE PrepareDispatches
    <2>1. TypeOK' /\ Books'
      BY <1>1, <1>2 DEF PrepareDispatches, groupVars, logVars, Books, LedgerInOrder
    <2>2. Stages'
      BY <1>1, <1>2 DEF PrepareDispatches, logVars, Stages, CancellationIsHonest, Busy
    <2>3. Accounted' /\ Awaits'
      BY <1>1, <1>2 DEF PrepareDispatches, groupVars, logVars, Accounted, Awaits, Busy
    <2> QED  BY <2>1, <2>2, <2>3
  <1>3. CASE PrepareAnswers
    <2>1. PICK s : /\ slot' = [slot EXCEPT ![started] = s]
                   /\ s \in Slot /\ s # Empty /\ s.outcome \in {"error", "skipped"}
      <3>1. \A o \in {"error", "skipped"}, post \in BOOLEAN :
              /\ Pending(o, post) \in Slot /\ Pending(o, post) # Empty
              /\ Pending(o, post).outcome \in {"error", "skipped"}
        BY DEF Pending, Slot, Empty, Outcome
      <3>2. QED
        BY <1>3, <3>1 DEF PrepareAnswers
    <2>3. \A c \in Call : slot'[c] = IF c = started THEN s ELSE slot[c]
      BY <1>1, <2>1
    <2>4. UNCHANGED <<groupVars, started, committed, inFlight, stage, ran, signal, failure, logVars>>
      BY <1>3 DEF PrepareAnswers
    <2>5. pc' = "Commit"
      BY <1>3 DEF PrepareAnswers
    <2>6. TypeOK'
      BY <2>1, <2>4, <2>5 DEF groupVars, logVars
    <2>7. Books'
      BY <2>4 DEF Books, LedgerInOrder, logVars
    <2>8. Stages'
      BY <1>1, <2>1, <2>3, <2>4 DEF Stages, Busy, CancellationIsHonest, logVars
    <2>9. Accounted'
      BY <1>1, <2>1, <2>3, <2>4, <2>5 DEF Accounted, Busy
    <2>10. Awaits'
      BY <1>3, <2>4, <2>5 DEF PrepareAnswers, Awaits, groupVars
    <2>11. QED
      BY <2>6, <2>7, <2>8, <2>9, <2>10
  <1>4. QED
    BY <1>2, <1>3

LEMMA RacedKeeps ==
    ASSUME IInv, NEW c \in Call, Raced(c)
    PROVE  IInv'
  BY NAssumption
  DEF IInv, TypeOK, Call, Raced, Books, LedgerInOrder, Stages, CancellationIsHonest, Accounted,
      Awaits, Busy, groupVars, toolVars, logVars

LEMMA EndGroupKeeps ==
    ASSUME IInv, EndGroup
    PROVE  IInv'
  <1>1. committed = started
    BY NothingUncommitted DEF EndGroup
  <1>2. QED
    BY <1>1, NAssumption
    DEF EndGroup, Settled, IInv, TypeOK, Call, Books, LedgerInOrder, Stages, CancellationIsHonest,
        Accounted, Awaits, Busy, groupVars, toolVars, logVars

LEMMA EndAbortedKeeps ==
    ASSUME IInv, EndAborted
    PROVE  IInv'
  <1> USE NAssumption DEF IInv, TypeOK, Call
  <1>1. committed = started
    BY NothingUncommitted DEF EndAborted
  <1>2. /\ started' = N /\ committed' = N /\ pc' = "Returned"
        /\ seq' \in Nat /\ seq' = seq + 2 * (N - started)
        /\ UNCHANGED <<groupVars, inFlight, toolVars, signal, failure>>
    BY <1>1 DEF EndAborted
  <1>3. \A c \in Call : IF c <= started
          THEN callSeq'[c] = callSeq[c] /\ resultSeq'[c] = resultSeq[c] /\ recorded'[c] = recorded[c]
          ELSE /\ callSeq'[c] = seq + 2 * (c - started) - 1
               /\ resultSeq'[c] = seq + 2 * (c - started)
               /\ recorded'[c] = "skipped"
    BY DEF EndAborted, SkipRest
  <1>4. TypeOK'
    BY <1>2 DEF EndAborted, SkipRest, groupVars, toolVars, Outcome
  <1>5. LedgerInOrder'
    <2> SUFFICES ASSUME NEW c \in Call
                 PROVE  /\ callSeq'[c] < resultSeq'[c] /\ callSeq'[c] # 0
                        /\ \A d \in 1..(c - 1) :
                              /\ callSeq'[d] # 0 /\ callSeq'[d] < callSeq'[c]
                              /\ resultSeq'[d] # 0 /\ resultSeq'[d] < resultSeq'[c]
      BY DEF LedgerInOrder
    <2>1. CASE c <= started
      BY <1>1, <1>3, <2>1 DEF Books, LedgerInOrder
    <2>2. CASE c > started
      <3>1. callSeq'[c] = seq + 2 * (c - started) - 1 /\ resultSeq'[c] = seq + 2 * (c - started)
        BY <1>3, <2>2
      <3>2. ASSUME NEW d \in 1..(c - 1), d <= started
            PROVE  /\ callSeq'[d] \in Nat \ {0} /\ callSeq'[d] <= seq
                   /\ resultSeq'[d] \in Nat \ {0} /\ resultSeq'[d] <= seq
        BY <1>1, <1>3, <3>2 DEF Books
      <3>3. ASSUME NEW d \in 1..(c - 1), d > started
            PROVE  /\ callSeq'[d] = seq + 2 * (d - started) - 1
                   /\ resultSeq'[d] = seq + 2 * (d - started)
        BY <1>3, <3>3
      <3>4. ASSUME NEW d \in 1..(c - 1)
            PROVE  /\ callSeq'[d] # 0 /\ callSeq'[d] < callSeq'[c]
                   /\ resultSeq'[d] # 0 /\ resultSeq'[d] < resultSeq'[c]
        <4>1. CASE d <= started
          BY <2>2, <3>1, <3>2, <4>1
        <4>2. CASE d > started
          BY <2>2, <3>1, <3>3, <4>2
        <4>3. QED
          BY <4>1, <4>2
      <3>5. QED
        BY <2>2, <3>1, <3>4
    <2>3. QED
      BY <2>1, <2>2
  <1>6. Books'
    <2>1. ASSUME NEW c \in Call
          PROVE  /\ callSeq'[c] # 0 /\ callSeq'[c] <= seq'
                 /\ resultSeq'[c] # 0 /\ resultSeq'[c] <= seq'
                 /\ recorded'[c] # "none"
      <3>1. CASE c <= started
        BY <1>1, <1>2, <1>3, <3>1, SMTT(40) DEF Books
      <3>2. CASE c > started
        BY <1>2, <1>3, <3>2, SMTT(40)
      <3>3. QED
        BY <3>1, <3>2
    <2>2. QED
      BY <1>2, <1>5, <2>1 DEF Books
  <1>7. Stages'
    BY <1>1, <1>2, <1>3 DEF Stages, Busy, CancellationIsHonest, toolVars
  <1>8. Accounted' /\ Awaits'
    BY <1>2 DEF EndAborted, Accounted, Awaits, Busy, groupVars, toolVars
  <1>9. QED
    BY <1>4, <1>6, <1>7, <1>8

LEMMA BodyStartsKeeps ==
    ASSUME IInv, NEW c \in Call, BodyStarts(c)
    PROVE  IInv'
  <1> USE NAssumption DEF IInv, TypeOK, BodyStarts, groupVars, logVars
  <1>1. /\ c \in inFlight /\ slot[c] = Empty /\ Empty.outcome = "none" /\ c <= started
        /\ \A d \in Call : /\ stage'[d] = IF d = c THEN "body" ELSE stage[d]
                          /\ ran'[d] = IF d = c THEN "once" ELSE ran[d]
    BY DEF Stages, Busy, Empty, Pending, Call
  <1>2. recorded[c] = "none" \/ pc = "Returned"
    BY <1>1 DEF Accounted, Books, Call
  <1>3. pc # "Returned"
    BY <1>1 DEF Awaits
  <1>4. Stages'
    BY <1>1, <1>2, <1>3 DEF Stages, Busy, CancellationIsHonest
  <1>5. QED
    BY <1>1, <1>4 DEF Books, LedgerInOrder, Accounted, Awaits, Busy

LEMMA BodyEndsKeeps ==
    ASSUME IInv, NEW c \in Call, Body(c)
    PROVE  IInv'
  <1> USE NAssumption DEF IInv, TypeOK
  <1>1. /\ Busy(c) /\ c \in inFlight /\ slot[c] = Empty /\ c <= started
        /\ stage' = [stage EXCEPT ![c] = "settled"]
        /\ UNCHANGED <<pc, groupVars, started, committed, inFlight, signal, logVars>>
    <2>1. /\ Busy(c) /\ stage' = [stage EXCEPT ![c] = "settled"]
          /\ UNCHANGED <<pc, groupVars, started, committed, inFlight, signal, logVars>>
      BY DEF Body, DispatchSettles, RetryIsCut, DispatchRejects, Busy
    <2>2. QED
      BY <2>1 DEF Stages, Busy, Call
  <1>2. \A d \in Call : stage'[d] = IF d = c THEN "settled" ELSE stage[d]
    BY <1>1
  <1>3. /\ failure' = failure \/ (failure' = TRUE /\ slot' = slot)
        /\ failure => failure'
        /\ slot' \in [Call -> Slot]
        /\ \A d \in Call \ {c} : slot'[d] = slot[d]
        /\ slot'[c] # Empty \/ failure'
        /\ ran' \in [Call -> {"no", "once", "again"}]
        /\ \A d \in Call \ {c} : ran'[d] = ran[d]
        /\ slot'[c].outcome = "skipped" => ran'[c] # "once"
        /\ slot'[c].outcome = "aborted" => ran'[c] # "no"
    <2>1. CASE DispatchSettles(c)
      <3>1. PICK o \in {"error", "ok", "aborted", "skipped"}, post \in BOOLEAN :
              /\ slot' = [slot EXCEPT ![c] = Pending(o, post)]
              /\ o = "skipped" => ran[c] # "once"
              /\ o = "aborted" => ran[c] # "no"
        BY <2>1 DEF DispatchSettles, Cancelled, Pending
      <3>2. Pending(o, post) \in Slot /\ Pending(o, post).outcome = o /\ Pending(o, post) # Empty
        BY DEF Pending, Slot, Outcome, Empty
      <3>3. QED
        BY <2>1, <3>1, <3>2 DEF DispatchSettles
    <2>2. CASE RetryIsCut(c)
      <3>1. /\ Pending("skipped", TRUE) \in Slot /\ Pending("skipped", TRUE) # Empty
            /\ Pending("skipped", TRUE).outcome = "skipped"
        BY DEF Pending, Slot, Outcome, Empty
      <3>2. QED
        BY <2>2, <3>1 DEF RetryIsCut
    <2>3. CASE DispatchRejects(c)
      BY <1>1, <2>3 DEF DispatchRejects, toolVars, Empty, Pending
    <2>4. QED
      BY <2>1, <2>2, <2>3 DEF Body
  <1>4. TypeOK'
    BY <1>1, <1>3 DEF groupVars, logVars, Body, DispatchSettles, RetryIsCut, DispatchRejects
  <1>5. Books'
    BY <1>1 DEF Books, LedgerInOrder, logVars
  <1>6. Stages'
    <2>1. \A d \in Call : d > started' => stage'[d] = "idle" /\ slot'[d] = Empty
      BY <1>1, <1>2, <1>3 DEF Stages, Call
    <2>2. /\ \A d \in Call : stage'[d] \in {"idle", "dispatched"} => ran'[d] = "no"
          /\ \A d \in Call : stage'[d] = "body" => ran'[d] # "no"
      BY <1>1, <1>2, <1>3 DEF Stages
    <2>3. \A d \in Call : stage'[d] \in {"dispatched", "body"} => d \in inFlight' /\ slot'[d] = Empty
      BY <1>1, <1>2, <1>3 DEF Stages, Busy
    <2>4. /\ \A d \in Call : slot'[d].outcome = "skipped" => ran'[d] # "once"
          /\ \A d \in Call : slot'[d].outcome = "aborted" => ran'[d] # "no"
      <3> SUFFICES ASSUME NEW d \in Call
                   PROVE  /\ slot'[d].outcome = "skipped" => ran'[d] # "once"
                          /\ slot'[d].outcome = "aborted" => ran'[d] # "no"
        OBVIOUS
      <3>1. CASE d = c
        BY <1>3, <3>1
      <3>2. CASE d # c
        BY <1>3, <3>2 DEF Stages
      <3>3. QED
        BY <3>1, <3>2
    \* A call whose body has not answered has no result on record.
    <2>5. CancellationIsHonest'
      <3>1. recorded[c] = "none"
        BY <1>1 DEF Accounted, Awaits, Books, Busy, Call, Empty, Pending
      <3>2. QED
        BY <1>1, <1>3, <3>1 DEF Stages, CancellationIsHonest, logVars
    <2>6. QED
      BY <2>1, <2>2, <2>3, <2>4, <2>5 DEF Stages, Busy
  <1>7. Accounted'
    BY <1>1, <1>2, <1>3 DEF Accounted, Busy
  <1>8. Awaits'
    <2>1. pc \notin {"Group", "Returned", "Threw"}
      BY <1>1 DEF Awaits
    <2>2. QED
      BY <1>1, <1>2, <1>3, <2>1 DEF Awaits, Busy, groupVars, Call
  <1>9. QED
    BY <1>4, <1>5, <1>6, <1>7, <1>8

LEMMA StepInv == IInv /\ [Next]_vars => IInv'
  <1> SUFFICES ASSUME IInv, [Next]_vars PROVE IInv'
    OBVIOUS
  <1>1. CASE UNCHANGED vars
    BY <1>1
    DEF vars, groupVars, toolVars, logVars, IInv, TypeOK, Books, LedgerInOrder, Stages,
        CancellationIsHonest, Accounted, Awaits, Busy
  <1>2. CASE Scheduler
    BY <1>2, QuietKeeps, CommitKeeps, StartKeeps, RacedKeeps, EndGroupKeeps, EndAbortedKeeps
    DEF Scheduler
  <1>3. CASE Hook
    BY <1>3, QuietKeeps, CommitKeeps, PrepareKeeps DEF Hook
  <1>4. CASE Abort
    BY <1>4, QuietKeeps
  <1>5. CASE \E c \in Call : BodyStarts(c) \/ Body(c)
    BY <1>5, BodyStartsKeeps, BodyEndsKeeps
  <1>6. QED
    BY <1>1, <1>2, <1>3, <1>4, <1>5 DEF Next

LEMMA InvHolds == Spec => []IInv
  BY InitInv, StepInv, PTL DEF Spec

----------------------------------------------------------------------------
(* The safety properties.                                                   *)

\* The types are right, and no more results are recorded than calls announced.
THEOREM TypeCorrect == Spec => []TypeOK
  <1>1. IInv => TypeOK
    BY DEF IInv
  <1>2. QED
    BY <1>1, InvHolds, PTL

\* Calls and results appear in the log in model order, each result after its call.
THEOREM LogInOrder == Spec => []LedgerInOrder
  <1>1. IInv => LedgerInOrder
    BY DEF IInv, Books
  <1>2. QED
    BY <1>1, InvHolds, PTL

\* What the log says of a cancelled call's body is true.
THEOREM CancellationIsReported == Spec => []CancellationIsHonest
  <1>1. IInv => CancellationIsHonest
    BY DEF IInv, Stages
  <1>2. QED
    BY <1>1, InvHolds, PTL

\* The scheduler throws only after a failure, and fabricates nothing then.
THEOREM FailureIsReported == Spec => []ThrowsHonestly
  <1>1. IInv => ThrowsHonestly
    BY DEF IInv, ThrowsHonestly, Accounted, Awaits, Books
  <1>2. QED
    BY <1>1, InvHolds, PTL

\* Whichever way the step ends, its bodies have settled.
THEOREM NothingLeftRunning == Spec => []LeavesNothingRunning
  <1>1. IInv => LeavesNothingRunning
    BY DEF IInv, LeavesNothingRunning, Ended, Running, Stages, Awaits, Busy
  <1>2. QED
    BY <1>1, InvHolds, PTL

\* All of it: however its calls settle, fail or are cancelled, a step logs in
\* order, reports bodies truthfully, throws for cause and leaves nothing behind.
THEOREM StepStaysHonest == Spec => []StepIsHonest
  BY LogInOrder, CancellationIsReported, FailureIsReported, NothingLeftRunning, PTL DEF StepIsHonest

----------------------------------------------------------------------------
(* The refinement of the ledger.                                            *)

Announced == {c \in Call : callSeq[c] # 0}
Answered == {c \in Call : resultSeq[c] # 0}

LEMMA LedgerStep ==
    ASSUME IInv, [Next]_vars
    PROVE  [Ledger!LedgerNext]_(Ledger!ledgerVars)
  <1> DEFINE outcome == IF pc = "Returned" THEN "complete" ELSE IF pc = "Threw" THEN "failed" ELSE "open"
  <1> USE NAssumption DEF Ledger!LedgerNext, Ledger!ledgerVars, Ledger!All
  <1>1. /\ Announced = {c \in Call : c <= started} /\ Answered = {c \in Call : c <= committed}
        /\ Announced' = {c \in Call : c <= started'} /\ Answered' = {c \in Call : c <= committed'}
    <2>1. Books /\ Books'
      BY StepInv DEF IInv
    <2>2. QED
      BY <2>1 DEF Books, Announced, Answered
  <1>2. started \in 0..N /\ committed \in 0..started
    BY DEF IInv, TypeOK
  <1>3. CASE UNCHANGED <<started, committed, pc>>
    BY <1>1, <1>3 DEF Announced, Answered
  <1>4. CASE UNCHANGED <<started, committed>> /\ outcome = "open" /\ outcome' = "open"
    BY <1>1, <1>4 DEF Announced, Answered
  <1>5. CASE ReturnAll
    <2>1. Answered = Call /\ UNCHANGED <<started, committed>> /\ outcome = "open" /\ outcome' = "complete"
      BY <1>1, <1>5 DEF ReturnAll, IInv, Awaits, Call
    <2>2. Ledger!Complete
      BY <1>1, <2>1 DEF Ledger!Complete, Announced, Answered, Call
    <2>3. QED
      BY <2>2
  <1>6. CASE Drained
    BY <1>1, <1>6 DEF Drained, Ledger!Fail, Announced, Answered
  <1>7. CASE Start
    <2>1. /\ started + 1 \in Call /\ started' = started + 1 /\ committed' = committed
          /\ outcome = "open" /\ outcome' = "open"
      BY <1>2, <1>7 DEF Start, Settled, CanStart, Call, IInv, TypeOK
    <2>2. /\ started + 1 \in Call \ Announced /\ 1..started \subseteq Announced
          /\ Announced' = Announced \cup {started + 1} /\ Answered' = Answered
      BY <1>1, <1>2, <2>1 DEF Call
    <2>3. Ledger!Announce
      <3>1. 1..((started + 1) - 1) = 1..started
        BY <1>2
      <3>2. QED
        BY <2>1, <2>2, <3>1 DEF Ledger!Announce, Announced, Answered, Call
    <2>4. QED
      BY <2>3
  <1>8. CASE CommitFinal \/ Finalized
    <2>1. /\ committed + 1 \in Call /\ committed < started /\ committed' = committed + 1
          /\ started' = started /\ outcome = "open" /\ outcome' = "open"
      BY <1>2, <1>8
      DEF CommitFinal, Finalized, Record, Committable, IInv, TypeOK, Awaits, Stages, Call
    <2>2. /\ committed + 1 \in Announced \ Answered /\ 1..committed \subseteq Answered
          /\ Answered' = Answered \cup {committed + 1} /\ Announced' = Announced
      BY <1>1, <1>2, <2>1 DEF Call
    <2>3. Ledger!Answer
      <3>1. 1..((committed + 1) - 1) = 1..committed
        BY <1>2
      <3>2. QED
        BY <2>1, <2>2, <3>1 DEF Ledger!Answer, Announced, Answered, Call
    <2>4. QED
      BY <2>3
  <1>9. CASE EndAborted
    <2>1. /\ committed = started /\ started' = N /\ committed' = N
          /\ outcome = "open" /\ outcome' = "complete"
      BY <1>2, <1>9, NothingUncommitted DEF EndAborted, Settled
    <2>2. Answered = Announced /\ Announced' = Call /\ Answered' = Call
      BY <1>1, <2>1 DEF Call
    <2>3. Ledger!Skip
      BY <2>1, <2>2 DEF Ledger!Skip, Announced, Answered, Call
    <2>4. QED
      BY <2>3
  <1>10. CASE EndGroup
    BY <1>4, <1>10, NothingUncommitted DEF EndGroup, Settled
  <1>11. CASE \/ NextGroup \/ AwaitFinalize \/ FinalizeThrows \/ PrepareDispatches
              \/ PrepareAnswers \/ PrepareFails \/ AwaitRace \/ Fail
              \/ (\E c \in Call : Raced(c))
    BY <1>4, <1>11
    DEF NextGroup, AwaitFinalize, FinalizeThrows, PrepareDispatches, PrepareAnswers, PrepareFails,
        AwaitRace, Fail, Raced, Settled
  <1>12. CASE \/ UNCHANGED vars \/ Abort \/ \E c \in Call : BodyStarts(c) \/ Body(c)
    BY <1>3, <1>12 DEF vars, Abort, BodyStarts, Body, DispatchSettles, RetryIsCut, DispatchRejects
  <1>13. QED
    BY <1>5, <1>6, <1>7, <1>8, <1>9, <1>10, <1>11, <1>12 DEF Next, Scheduler, Hook

\* The scheduler implements the ledger: however bodies, hooks, failures and a
\* cancellation interleave, the log grows as if the calls ran one by one.
THEOREM LedgerKept == Spec => KeepsLedger
  <1>1. Init => Ledger!LedgerInit
    BY DEF Init, Ledger!LedgerInit
  <1>2. IInv /\ [Next]_vars => [Ledger!LedgerNext]_(Ledger!ledgerVars)
    BY LedgerStep
  <1>3. QED
    BY <1>1, <1>2, InvHolds, PTL DEF Spec, KeepsLedger, Ledger!LedgerSpec

----------------------------------------------------------------------------
(* The barrier.                                                             *)

\* A call is prepared only when the pool has room for it; the group of an
\* exclusive call is that call, and begins when all before it is recorded.
Admission ==
    /\ Cardinality(inFlight) <= MaxParallel
    /\ pc = "Prepare" => Cardinality(inFlight) < MaxParallel
    /\ mode = "exclusive" /\ pc \notin {"Group", "Returned"} =>
          last = first /\ committed >= first - 1
    /\ exclusive \subseteq IF mode = "exclusive" THEN {first} ELSE {}

LEMMA PoolIsFinite == TypeOK => IsFiniteSet(inFlight) /\ Cardinality(inFlight) \in Nat
  <1> SUFFICES ASSUME TypeOK PROVE IsFiniteSet(inFlight) /\ Cardinality(inFlight) \in Nat
    OBVIOUS
  <1>1. IsFiniteSet(Call)
    BY NAssumption, FS_Interval DEF Call
  <1>2. IsFiniteSet(inFlight)
    BY <1>1, FS_Subset DEF TypeOK
  <1> QED  BY <1>2, FS_CardinalityType

LEMMA AdmissionStep ==
    ASSUME IInv, Admission, [Next]_vars
    PROVE  Admission'
  <1> USE NAssumption, MaxParallelAssumption, PoolIsFinite DEF Admission, IInv, TypeOK
  <1>1. ASSUME UNCHANGED <<groupVars, started, inFlight>>, committed' >= committed,
               pc' # "Prepare" \/ pc = "Prepare",
               pc \in {"Group", "Returned"} => pc' \in {"Group", "Returned"}
        PROVE  Admission'
    <2>1. committed' \in Nat
      <3>1. TypeOK'
        BY StepInv
      <3> QED  BY <3>1 DEF TypeOK
    <2> QED  BY <1>1, <2>1 DEF groupVars
  <1>2. CASE UNCHANGED vars
    BY <1>1, <1>2 DEF vars
  <1>3. CASE NextGroup
    <2>1. Awaits /\ pc = "Group"
      BY <1>3 DEF NextGroup
    <2>2. committed = started /\ committed' = started /\ first' = started + 1
          /\ (mode' = "exclusive" => last' = started + 1)
      BY <1>3, <2>1 DEF NextGroup, Awaits
    <2> QED  BY <1>3, <2>2 DEF NextGroup
  <1>4. CASE Start
    <2>1. started' = started + 1 /\ started < last /\ pc = "Commit" /\ UNCHANGED <<mode, first, last>>
      BY <1>4 DEF Start, Settled, CanStart
    <2>2. exclusive' \subseteq IF mode = "exclusive" THEN {first} ELSE {}
      <3>1. CASE started < first /\ mode = "exclusive"
        <4>1. started' = first
          BY <2>1, <3>1
        <4> QED  BY <1>4, <3>1, <4>1 DEF Start, StartModes
      <3>2. CASE ~(started < first /\ mode = "exclusive")
        BY <1>4, <3>2 DEF Start, StartModes
      <3> QED  BY <3>1, <3>2
    <2> QED  BY <1>4, <2>1, <2>2 DEF Start, Settled, CanStart
  <1>5. CASE PrepareDispatches
    <2>1. inFlight' = inFlight \cup {started}
      BY <1>5 DEF PrepareDispatches
    <2>2. Cardinality(inFlight') <= MaxParallel
      <3>1. Cardinality(inFlight') \in {Cardinality(inFlight), Cardinality(inFlight) + 1}
        BY <2>1, FS_AddElement
      <3>2. Cardinality(inFlight) < MaxParallel
        BY <1>5 DEF PrepareDispatches
      <3> QED  BY <3>1, <3>2
    <2> QED  BY <1>5, <2>2 DEF PrepareDispatches, groupVars
  <1>6. CASE \E c \in Call : Raced(c)
    <2>1. PICK c \in Call : Raced(c)
      BY <1>6
    <2>2. Cardinality(inFlight') <= MaxParallel
      <3>1. Cardinality(inFlight') \in {Cardinality(inFlight), Cardinality(inFlight) - 1}
        BY <2>1, FS_RemoveElement DEF Raced
      <3> QED  BY <3>1
    <2> QED  BY <2>1, <2>2 DEF Raced, groupVars
  <1>7. CASE CommitFinal \/ Finalized
    <2>1. committed' = committed + 1 /\ pc' = "Commit" /\ pc \in {"Commit", "Finalize"}
      BY <1>7 DEF CommitFinal, Finalized, Record
    <2> QED  BY <1>1, <1>7, <2>1 DEF CommitFinal, Finalized
  <1>8. CASE EndAborted \/ EndGroup
    <2>1. CASE EndAborted
      BY <2>1 DEF EndAborted, groupVars
    <2>2. CASE EndGroup
      BY <1>1, <2>2 DEF EndGroup, Settled
    <2> QED  BY <1>8, <2>1, <2>2
  <1>9. CASE ReturnAll \/ AwaitFinalize \/ AwaitRace \/ Fail \/ Drained
    BY <1>1, <1>9 DEF ReturnAll, AwaitFinalize, AwaitRace, Fail, Drained, Settled
  <1>10. CASE PrepareAnswers \/ PrepareFails \/ FinalizeThrows
    BY <1>1, <1>10 DEF PrepareAnswers, PrepareFails, FinalizeThrows
  <1>11. CASE Abort \/ \E c \in Call : BodyStarts(c) \/ Body(c)
    <2>1. UNCHANGED <<pc, groupVars, started, committed, inFlight>>
      BY <1>11, Zenon DEF Abort, BodyStarts, Body, DispatchSettles, RetryIsCut, DispatchRejects
    <2> QED  BY <1>1, <2>1
  <1> QED
    BY <1>2, <1>3, <1>4, <1>5, <1>6, <1>7, <1>8, <1>9, <1>10, <1>11 DEF Next, Scheduler, Hook

LEMMA AdmissionIsBarrier ==
    ASSUME IInv, Admission
    PROVE  BarrierHolds
  <1> USE NAssumption, MaxParallelAssumption DEF IInv, TypeOK
  <1>1. Running \subseteq inFlight
    BY DEF Running, Stages, Busy
  <1>2. Cardinality(Running) <= MaxParallel
    <2>1. Cardinality(Running) <= Cardinality(inFlight)
      BY <1>1, PoolIsFinite, FS_Subset
    <2>2. Cardinality(Running) \in Nat
      BY <1>1, PoolIsFinite, FS_Subset, FS_CardinalityType
    <2> QED  BY <2>1, <2>2, PoolIsFinite DEF Admission
  <1>3. ASSUME NEW x \in Running \cap exclusive
        PROVE  Running = {x} /\ committed = x - 1 /\ started = x
    <2>0. mode = "exclusive" /\ x = first /\ first \in Running
      BY DEF Admission
    <2>1. pc \notin {"Group", "Returned"}
      BY <1>1, <2>0 DEF Awaits
    <2>2. last = first /\ committed >= first - 1 /\ started <= last
      BY <2>0, <2>1 DEF Admission, Awaits
    <2>3. \A c \in Running : c \in Call /\ committed < c /\ c <= started
      BY <2>1 DEF Running, Stages, Busy, Accounted, Call
    <2>4. first \in Call /\ committed = first - 1 /\ started = first
      BY <2>0, <2>2, <2>3
    <2>5. \A c \in Running : c = first
      BY <2>3, <2>4 DEF Call
    <2> QED  BY <2>0, <2>4, <2>5
  <1> QED  BY <1>2, <1>3 DEF BarrierHolds

\* Whatever the hooks answer and in whatever order the bodies settle: an
\* exclusive call runs alone, after all before it was recorded and before
\* anything after it is announced, and the pool keeps to its size.
THEOREM ExclusiveIsBarrier == Spec => []BarrierHolds
  <1>1. Init => Admission
    <2> SUFFICES ASSUME Init PROVE Admission
      OBVIOUS
    <2>1. Cardinality(inFlight) = 0
      BY FS_EmptySet DEF Init
    <2> QED  BY <2>1, MaxParallelAssumption DEF Init, Admission
  <1>2. IInv /\ Admission /\ [Next]_vars => Admission'
    BY AdmissionStep
  <1>3. IInv /\ Admission => BarrierHolds
    BY AdmissionIsBarrier
  <1> QED  BY <1>1, <1>2, <1>3, InvHolds, PTL DEF Spec
============================================================================
