--------------------------- MODULE DshdBootProofs ---------------------------
(***************************************************************************)
(* Proofs about racing starts on one state directory, for any set of        *)
(* daemons and node ids and any number of starts, kills and power losses.   *)
(* The inductive invariant says what each step of main may rely on about    *)
(* the two files (Stored, Written), that the guard and the serving daemon   *)
(* name each other (Guarded), and which daemon a refused one has lost to    *)
(* (Contended).                                                             *)
(***************************************************************************)
EXTENDS DshdBoot, TLAPS

Present == disk.identity \in Identity

Own(d) == [node |-> config[d], storage |-> storage[d]]

(* Whoever is past the identity found its own node there; whoever has yet to *)
(* sync it wrote it.                                                         *)
Stored ==
    \A d \in Daemon :
        /\ pc[d] \in {"LoadDesired", "RenameDesired", "SyncDesired", "Acquire", "Serving"} =>
              Present /\ disk.identity.node = config[d]
        /\ pc[d] = "SyncIdentity" => disk.identity = Own(d)
        /\ pc[d] = "Refused" => disk.identity # NoFile

(* A default is written only where there was none; nobody else writes.       *)
Written ==
    \A d \in Daemon :
        /\ pc[d] = "RenameDesired" => disk.desired \in {NoFile, "RUNNING"}
        /\ pc[d] = "SyncDesired" => disk.desired = "RUNNING"
        /\ pc[d] \in {"Acquire", "Serving"} =>
              disk.desired \in {"RUNNING", "STOPPED"} /\ desired[d] = disk.desired

Guarded == \A d \in Daemon : pc[d] = "Serving" <=> holder = d

Clean == Present /\ disk.desired # Corrupt

(* On the way to a refusal, or there.                                        *)
Losing == {"CheckAbsent", "LinkIdentity", "Refused"}
Mine == {d \in Daemon : config[d] = disk.identity.node}

(* A daemon of the volume's node loses only to another that has not lost.    *)
Contended ==
    Clean /\ (\E d \in Mine : pc[d] \in Losing) => \E d \in Mine : pc[d] \notin Losing

IInv == TypeOK /\ AcknowledgedIsForGood /\ Stored /\ Written /\ Guarded /\ Contended

(* A volume may begin fresh, used or corrupt.                                *)
LEMMA InitIInv == Init => IInv
<1> SUFFICES ASSUME Init PROVE IInv
  OBVIOUS
<1> USE BoundsAssumption, FilesAssumption
<1>1. /\ disk.identity \in IdentityFile /\ disk.desired \in DesiredFile
      /\ disk \in [identity : IdentityFile, desired : DesiredFile]
  <2>1. PICK i \in {NoFile, Corrupt} \cup [node : NodeId, storage : {0}], e \in DesiredFile :
           disk = [identity |-> i, desired |-> e]
    BY DEF Init
  <2>2. i \in IdentityFile
    BY DEF IdentityFile, Identity
  <2> QED  BY <2>1, <2>2
<1>2. acknowledged \subseteq Identity
  BY <1>1 DEF Init, IdentityFile
<1>3. TypeOK
  BY <1>1, <1>2 DEF Init, TypeOK, Nobody, DesiredFile
<1>4. AcknowledgedIsForGood
  BY DEF Init, AcknowledgedIsForGood
<1>5. Stored /\ Written /\ Guarded /\ Contended
  BY DEF Init, Stored, Written, Guarded, Contended, Losing, Mine, Nobody
<1> QED  BY <1>3, <1>4, <1>5 DEF IInv

(* A power loss leaves a mixture of two well-typed directories.              *)
LEMMA TypePreserved ==
  ASSUME TypeOK, [Next]_vars PROVE TypeOK'
<1> USE BoundsAssumption DEF TypeOK
<1>0. CASE UNCHANGED vars
  BY <1>0 DEF vars
<1>1. CASE PowerLoss
  <2>1. disk' \in [identity : IdentityFile, desired : DesiredFile]
    <3>1. PICK i \in {disk.identity, durable.identity}, e \in {disk.desired, durable.desired} :
             disk' = [identity |-> i, desired |-> e]
      BY <1>1 DEF PowerLoss
    <3>2. i \in IdentityFile /\ e \in DesiredFile
      OBVIOUS
    <3> QED  BY <3>1, <3>2
  <2>2. losses' \in 0..MaxLosses
    BY <1>1 DEF PowerLoss
  <2> QED  BY <1>1, <2>1, <2>2 DEF PowerLoss, Nobody
<1> SUFFICES ASSUME NEW d \in Daemon, Step(d) PROVE TypeOK'
  BY <1>0, <1>1 DEF Next
<1>o. [node |-> config[d], storage |-> storage[d]] \in Identity
  BY DEF Identity
<1>2. CASE Start(d)
  BY <1>2 DEF Start, Goto
<1>3. CASE LoadIdentity(d) \/ CheckAbsent(d) \/ Acquire(d) \/ Dies(d)
  BY <1>3 DEF LoadIdentity, CheckAbsent, Acquire, Dies, Goto, Nobody
<1>4. CASE LinkIdentity(d)
  <2>1. disk' \in [identity : IdentityFile, desired : DesiredFile]
    BY <1>4, <1>o DEF LinkIdentity, IdentityFile
  <2> QED  BY <1>4, <2>1 DEF LinkIdentity, Goto
<1>5. CASE SyncIdentity(d)
  BY <1>5, <1>o DEF SyncIdentity, Goto
<1>6. CASE LoadDesired(d)
  BY <1>6 DEF LoadDesired, Goto
<1>7. CASE RenameDesired(d)
  BY <1>7 DEF RenameDesired, Goto, DesiredFile
<1>8. CASE SyncDesired(d)
  BY <1>8 DEF SyncDesired, Goto, DesiredFile
<1> QED  BY <1>2, <1>3, <1>4, <1>5, <1>6, <1>7, <1>8 DEF Step

(* No step replaces an acknowledged identity: the files agree on it, and a   *)
(* daemon links its own only where there is none.                            *)
LEMMA AcknowledgedPreserved ==
  ASSUME IInv, [Next]_vars PROVE AcknowledgedIsForGood'
<1> USE FilesAssumption DEF AcknowledgedIsForGood, IInv
<1>0. CASE UNCHANGED vars
  BY <1>0 DEF vars
<1>1. CASE PowerLoss
  <2> SUFFICES ASSUME NEW i \in acknowledged PROVE disk'.identity = i /\ durable'.identity = i
    BY <1>1 DEF PowerLoss
  <2> QED  BY <1>1 DEF PowerLoss
<1> SUFFICES ASSUME NEW d \in Daemon, Step(d) PROVE AcknowledgedIsForGood'
  BY <1>0, <1>1 DEF Next
<1>2. CASE LinkIdentity(d)
  <2>1. disk.identity = NoFile => acknowledged = {}
    BY DEF TypeOK
  <2> QED  BY <1>2, <2>1 DEF LinkIdentity
<1>3. CASE SyncIdentity(d)
  BY <1>3 DEF SyncIdentity, Stored, Own
<1>4. CASE RenameDesired(d) \/ SyncDesired(d)
  BY <1>4 DEF RenameDesired, SyncDesired, TypeOK
<1>5. CASE Start(d) \/ LoadIdentity(d) \/ CheckAbsent(d) \/ LoadDesired(d) \/ Acquire(d) \/ Dies(d)
  BY <1>5 DEF Start, LoadIdentity, CheckAbsent, LoadDesired, Acquire, Dies
<1> QED  BY <1>2, <1>3, <1>4, <1>5 DEF Step

(* The identity a daemon relied on stays: it appears once, and only a power  *)
(* loss, which no daemon survives, takes it away.                            *)
LEMMA StoredPreserved ==
  ASSUME IInv, [Next]_vars PROVE Stored'
<1> USE FilesAssumption DEF IInv
<1>0. CASE UNCHANGED vars
  BY <1>0 DEF vars, Stored, Present, Own
<1>1. CASE PowerLoss
  BY <1>1 DEF PowerLoss, Stored
<1> SUFFICES ASSUME NEW d \in Daemon, Step(d) PROVE Stored'
  BY <1>0, <1>1 DEF Next
<1> USE DEF Stored, Present, Own, Goto, TypeOK
<1>2. CASE Start(d)
  BY <1>2 DEF Start
<1>3. CASE LoadIdentity(d)
  BY <1>3 DEF LoadIdentity, IdentityFile
<1>4. CASE CheckAbsent(d)
  BY <1>4 DEF CheckAbsent
<1>5. CASE LinkIdentity(d)
  <2>1. \A e \in Daemon : [node |-> config[e], storage |-> storage[e]] \in Identity
    BY DEF Identity
  <2>2. CASE disk.identity = NoFile
    <3>1. \A e \in Daemon : pc[e] \notin {"LoadDesired", "RenameDesired", "SyncDesired",
                                         "Acquire", "Serving", "SyncIdentity", "Refused"}
      BY <2>1, <2>2
    <3>2. disk'.identity = Own(d) /\ disk'.identity.node = config[d] /\ disk'.identity \in Identity
      BY <1>5, <2>1, <2>2 DEF LinkIdentity
    <3>3. pc' = [pc EXCEPT ![d] = "SyncIdentity"] /\ UNCHANGED <<config, storage>>
      BY <1>5, <2>2 DEF LinkIdentity
    <3> QED  BY <3>1, <3>2, <3>3
  <2>3. CASE disk.identity # NoFile
    BY <1>5, <2>3 DEF LinkIdentity
  <2> QED  BY <2>2, <2>3
<1>6. CASE SyncIdentity(d)
  <2>1. [node |-> config[d], storage |-> storage[d]] \in Identity
    BY DEF Identity
  <2> QED  BY <1>6, <2>1 DEF SyncIdentity
<1>7. CASE LoadDesired(d)
  BY <1>7 DEF LoadDesired
<1>8. CASE RenameDesired(d) \/ SyncDesired(d)
  BY <1>8 DEF RenameDesired, SyncDesired
<1>9. CASE Acquire(d) \/ Dies(d)
  BY <1>9 DEF Acquire, Dies
<1> QED  BY <1>2, <1>3, <1>4, <1>5, <1>6, <1>7, <1>8, <1>9 DEF Step

(* The default overwrites at most another default.                           *)
LEMMA WrittenPreserved ==
  ASSUME IInv, [Next]_vars PROVE Written'
<1> USE FilesAssumption DEF IInv
<1>0. CASE UNCHANGED vars
  BY <1>0 DEF vars, Written
<1>1. CASE PowerLoss
  BY <1>1 DEF PowerLoss, Written
<1> SUFFICES ASSUME NEW d \in Daemon, Step(d) PROVE Written'
  BY <1>0, <1>1 DEF Next
<1> USE DEF Written, Goto, TypeOK, DesiredFile
<1>2. CASE Start(d) \/ LoadIdentity(d) \/ CheckAbsent(d)
  BY <1>2 DEF Start, LoadIdentity, CheckAbsent
<1>3. CASE LinkIdentity(d) \/ SyncIdentity(d)
  BY <1>3 DEF LinkIdentity, SyncIdentity
<1>4. CASE LoadDesired(d)
  BY <1>4 DEF LoadDesired
<1>5. CASE RenameDesired(d)
  <2>1. disk.desired # "STOPPED" /\ disk'.desired = "RUNNING"
    BY <1>5 DEF RenameDesired
  <2> QED  BY <1>5, <2>1 DEF RenameDesired
<1>6. CASE SyncDesired(d)
  BY <1>6 DEF SyncDesired
<1>7. CASE Acquire(d) \/ Dies(d)
  BY <1>7 DEF Acquire, Dies
<1> QED  BY <1>2, <1>3, <1>4, <1>5, <1>6, <1>7 DEF Step

(* The kernel drops the guard of a daemon that ends.                         *)
LEMMA GuardedPreserved ==
  ASSUME IInv, [Next]_vars PROVE Guarded'
<1> USE FilesAssumption DEF IInv, Guarded, Nobody, TypeOK
<1>0. CASE UNCHANGED vars
  BY <1>0 DEF vars
<1>1. CASE PowerLoss
  BY <1>1 DEF PowerLoss
<1> SUFFICES ASSUME NEW d \in Daemon, Step(d) PROVE Guarded'
  BY <1>0, <1>1 DEF Next
<1> USE DEF Goto
<1>2. CASE Start(d) \/ LoadIdentity(d) \/ CheckAbsent(d) \/ LinkIdentity(d) \/ SyncIdentity(d)
  BY <1>2 DEF Start, LoadIdentity, CheckAbsent, LinkIdentity, SyncIdentity
<1>3. CASE LoadDesired(d) \/ RenameDesired(d) \/ SyncDesired(d)
  BY <1>3 DEF LoadDesired, RenameDesired, SyncDesired
<1>4. CASE Acquire(d)
  BY <1>4 DEF Acquire
<1>5. CASE Dies(d)
  BY <1>5 DEF Dies
<1> QED  BY <1>2, <1>3, <1>4, <1>5 DEF Step

(* A daemon of the volume's node loses to the one that linked the identity,  *)
(* or to the one that holds the guard, which is of that node as well.        *)
LEMMA ContendedPreserved ==
  ASSUME IInv, [Next]_vars PROVE Contended'
<1> USE FilesAssumption DEF IInv
<1>0. CASE UNCHANGED vars
  BY <1>0 DEF vars, Contended, Clean, Present, Mine
<1>1. CASE PowerLoss
  BY <1>1 DEF PowerLoss, Contended, Losing, Mine
<1> SUFFICES ASSUME NEW d \in Daemon, Step(d) PROVE Contended'
  BY <1>0, <1>1 DEF Next
<1> USE DEF Goto, TypeOK
<1>2. ASSUME UNCHANGED <<disk, config>>, pc'[d] \notin Losing, \A e \in Daemon \ {d} : pc'[e] = pc[e]
      PROVE  Contended'
  BY <1>2 DEF Contended, Clean, Present, Mine
<1>3. ASSUME UNCHANGED <<disk, config>>, \A e \in Daemon \ {d} : pc'[e] = pc[e],
             Clean => config[d] # disk.identity.node
      PROVE  Contended'
  BY <1>3 DEF Contended, Clean, Present, Mine
<1>4. CASE Start(d) \/ SyncIdentity(d) \/ SyncDesired(d) \/ Dies(d)
  BY <1>2, <1>4 DEF Start, SyncIdentity, SyncDesired, Dies, Losing
<1>5. CASE LoadIdentity(d)
  <2>1. CASE disk.identity = NoFile \/ disk.identity = Corrupt
    BY <1>5, <2>1 DEF LoadIdentity, Contended, Clean, Present
  <2>2. CASE disk.identity \in Identity
    BY <1>2, <1>3, <1>5, <2>2 DEF LoadIdentity, Losing
  <2> QED  BY <2>1, <2>2 DEF IdentityFile
<1>6. CASE CheckAbsent(d)
  BY <1>6 DEF CheckAbsent, Contended, Clean, Present, Mine, Losing
<1>7. CASE LinkIdentity(d)
  <2>1. CASE disk.identity = NoFile
    <3>1. d \in Mine' /\ pc'[d] \notin Losing
      BY <1>7, <2>1 DEF LinkIdentity, Mine, Losing
    <3> QED  BY <3>1 DEF Contended
  <2>2. CASE disk.identity # NoFile
    BY <1>7, <2>2 DEF LinkIdentity, Contended, Clean, Present, Mine, Losing
  <2> QED  BY <2>1, <2>2
<1>8. CASE LoadDesired(d)
  <2>1. CASE disk.desired = Corrupt
    BY <1>8, <2>1 DEF LoadDesired, Contended, Clean
  <2>2. CASE disk.desired # Corrupt
    BY <1>2, <1>8, <2>2 DEF LoadDesired, Losing
  <2> QED  BY <2>1, <2>2
<1>9. CASE RenameDesired(d)
  <2>1. d \in Mine' /\ pc'[d] \notin Losing
    BY <1>9 DEF RenameDesired, Mine, Losing, Stored
  <2> QED  BY <2>1 DEF Contended
<1>10. CASE Acquire(d)
  <2>1. CASE holder = Nobody
    BY <1>2, <1>10, <2>1 DEF Acquire, Losing
  <2>2. CASE holder # Nobody
    <3>1. holder \in Daemon /\ pc[holder] = "Serving" /\ config[holder] = disk.identity.node
      BY <2>2 DEF Guarded, Stored
    <3>2. holder \in Mine' /\ pc'[holder] \notin Losing
      BY <1>10, <2>2, <3>1 DEF Acquire, Mine, Losing
    <3> QED  BY <3>2 DEF Contended
  <2> QED  BY <2>1, <2>2
<1> QED  BY <1>4, <1>5, <1>6, <1>7, <1>8, <1>9, <1>10 DEF Step

(* The inductive invariant holds throughout.                                 *)
THEOREM Inductive == Spec => []IInv
<1>1. Init => IInv
  BY InitIInv
<1>2. IInv /\ [Next]_vars => IInv'
  BY TypePreserved, AcknowledgedPreserved, StoredPreserved, WrittenPreserved, GuardedPreserved,
     ContendedPreserved DEF IInv
<1> QED  BY <1>1, <1>2, PTL DEF Spec

(* Every variable keeps its type: what a daemon reads from disk is always a  *)
(* whole file, never the beginning of one.                                   *)
THEOREM TypeCorrect == Spec => []TypeOK
<1>1. IInv => TypeOK
  BY DEF IInv
<1> QED  BY <1>1, Inductive, PTL

(* However many daemons race, die and lose power, an identity whose creation *)
(* was reported done is on the volume for good, so a volume never            *)
(* acknowledges two storage ids.                                             *)
THEOREM AcknowledgedSafe == Spec => []AcknowledgedIsForGood
<1>1. IInv => AcknowledgedIsForGood
  BY DEF IInv
<1> QED  BY <1>1, Inductive, PTL

(* A serving daemon is alone and acts on the files as they are on the volume *)
(* although it read them before it held the guard.                           *)
THEOREM ServingSafe == Spec => []ServesWhatIsStored
<1>1. IInv => ServesWhatIsStored
  <2> SUFFICES ASSUME IInv, NEW d \in Daemon, pc[d] = "Serving"
               PROVE  /\ \A e \in Daemon \ {d} : pc[e] # "Serving"
                      /\ disk.identity \notin {NoFile, Corrupt} /\ disk.identity.node = config[d]
                      /\ disk.desired \notin {NoFile, Corrupt} /\ desired[d] = disk.desired
    BY DEF ServesWhatIsStored
  <2>1. \A e \in Daemon \ {d} : pc[e] # "Serving"
    BY DEF IInv, Guarded
  <2>2. disk.identity \notin {NoFile, Corrupt} /\ disk.identity.node = config[d]
    BY FilesAssumption DEF IInv, Stored, Present
  <2>3. disk.desired \notin {NoFile, Corrupt} /\ desired[d] = disk.desired
    BY FilesAssumption DEF IInv, Written
  <2> QED  BY <2>1, <2>2, <2>3
<1> QED  BY <1>1, Inductive, PTL

(* Racing daemons do not refuse each other to the last: all are refused only *)
(* when a file is corrupt or the volume belongs to a node none of them is.   *)
THEOREM SomebodyWins == Spec => []RaceHasWinner
<1>1. IInv => RaceHasWinner
  <2> SUFFICES ASSUME IInv, \A d \in Daemon : pc[d] = "Refused",
                      Corrupt \notin {disk.identity, disk.desired}
               PROVE  \A d \in Daemon : config[d] # disk.identity.node
    BY DEF RaceHasWinner
  <2> SUFFICES ASSUME NEW d \in Daemon, config[d] = disk.identity.node PROVE FALSE
    OBVIOUS
  <2>1. Clean
    BY DEF IInv, Stored, Clean, Present, TypeOK, IdentityFile
  <2>2. d \in Mine /\ pc[d] \in Losing
    BY DEF Mine, Losing
  <2>3. \A e \in Mine : pc[e] \in Losing
    BY DEF Mine, Losing
  <2> QED  BY <2>1, <2>2, <2>3 DEF IInv, Contended
<1> QED  BY <1>1, Inductive, PTL
==============================================================================
