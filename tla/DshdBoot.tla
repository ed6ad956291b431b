------------------------------ MODULE DshdBoot ------------------------------
(***************************************************************************)
(* Starting dshd on a state directory: identity, desired state, and last    *)
(* the writer guard, as main does it.  Nothing keeps two daemons from       *)
(* starting at once on one volume, so everything before the guard races.    *)
(*                                                                          *)
(* A file is replaced by writing a temporary, syncing it, renaming it and   *)
(* syncing the directory.  A reader never sees a partial file, but until    *)
(* the directory is synced a power loss may undo the rename.                *)
(***************************************************************************)
EXTENDS Naturals

CONSTANTS Daemon,     \* processes that may be started on the volume
          NodeId,     \* the node ids they may be configured with
          NoFile, Corrupt,
          MaxStarts,  \* bound: daemons started, restarts included
          MaxLosses   \* bound: power losses

VARIABLES
    disk,          \* the directory as every process sees it
    durable,       \* the directory as a power loss would leave it
    holder,        \* who holds the flock on writer.lock
    pc, desired,   \* of each daemon: the next step, the desired state it read
    config,        \* of each daemon: its --node-id
    storage,       \* of each daemon: the storage id generated for this start
    acknowledged,  \* history: identities whose creation was reported done
    starts, losses
vars == <<disk, durable, holder, pc, desired, config, storage, acknowledged, starts, losses>>

Nobody == NoFile
Identity == [node : NodeId, storage : 0..MaxStarts]
IdentityFile == Identity \cup {NoFile, Corrupt}
DesiredFile == {"RUNNING", "STOPPED", NoFile, Corrupt}

ASSUME BoundsAssumption == MaxStarts \in Nat /\ MaxLosses \in Nat
ASSUME FilesAssumption ==
    /\ NoFile # Corrupt /\ NoFile \notin Daemon
    /\ {NoFile, Corrupt} \cap (Identity \cup {"RUNNING", "STOPPED"}) = {}

\* The volume of a fresh node, or of one that ran before (storage id 0).
Init ==
    /\ disk \in [identity : {NoFile, Corrupt} \cup [node : NodeId, storage : {0}],
                 desired : DesiredFile]
    /\ disk.identity = NoFile => disk.desired = NoFile
    /\ durable = disk
    /\ holder = Nobody
    /\ pc = [d \in Daemon |-> "Off"]
    /\ desired = [d \in Daemon |-> NoFile]
    /\ config \in [Daemon -> NodeId]
    /\ storage = [d \in Daemon |-> 0]
    /\ acknowledged = {disk.identity} \ {NoFile, Corrupt}
    /\ starts = 0 /\ losses = 0

Goto(d, step) == pc' = [pc EXCEPT ![d] = step]

Start(d) ==
    /\ pc[d] \in {"Off", "Refused"} /\ starts < MaxStarts
    /\ starts' = starts + 1
    /\ storage' = [storage EXCEPT ![d] = starts']
    /\ Goto(d, "LoadIdentity")
    /\ UNCHANGED <<disk, durable, holder, desired, config, acknowledged, losses>>

\* Mutant: the node id on the volume is not compared with the configured one.
LoadIdentityOfAnyNode(d) ==
    /\ pc[d] = "LoadIdentity"
    /\ Goto(d, IF disk.identity = NoFile THEN "CheckAbsent"
               ELSE IF disk.identity = Corrupt THEN "Refused"
               ELSE "LoadDesired")
    /\ UNCHANGED <<disk, durable, holder, desired, config, storage, acknowledged, starts, losses>>

\* IdentityStore::load and decide.
LoadIdentity(d) ==
    /\ pc[d] = "LoadIdentity"
    /\ Goto(d, IF disk.identity = NoFile THEN "CheckAbsent"
               ELSE IF disk.identity = Corrupt \/ disk.identity.node # config[d] THEN "Refused"
               ELSE "LoadDesired")
    /\ UNCHANGED <<disk, durable, holder, desired, config, storage, acknowledged, starts, losses>>

CheckAbsent(d) ==
    /\ pc[d] = "CheckAbsent"
    /\ Goto(d, IF disk.identity = NoFile THEN "LinkIdentity" ELSE "Refused")
    /\ UNCHANGED <<disk, durable, holder, desired, config, storage, acknowledged, starts, losses>>

\* Mutant: the rename replaces whatever is there.
LinkIdentityOver(d) ==
    /\ pc[d] = "LinkIdentity"
    /\ disk' = [disk EXCEPT !.identity = [node |-> config[d], storage |-> storage[d]]]
    /\ Goto(d, "SyncIdentity")
    /\ UNCHANGED <<durable, holder, desired, config, storage, acknowledged, starts, losses>>

\* The rename that ends the atomic write does not replace a file that has
\* appeared since the check.
LinkIdentity(d) ==
    /\ pc[d] = "LinkIdentity"
    /\ IF disk.identity = NoFile
       THEN /\ disk' = [disk EXCEPT !.identity = [node |-> config[d], storage |-> storage[d]]]
            /\ Goto(d, "SyncIdentity")
       ELSE Goto(d, "Refused") /\ UNCHANGED disk
    /\ UNCHANGED <<durable, holder, desired, config, storage, acknowledged, starts, losses>>

SyncIdentity(d) ==
    /\ pc[d] = "SyncIdentity"
    /\ durable' = disk
    /\ acknowledged' = acknowledged \cup {[node |-> config[d], storage |-> storage[d]]}
    /\ Goto(d, "LoadDesired")
    /\ UNCHANGED <<disk, holder, desired, config, storage, starts, losses>>

LoadDesired(d) ==
    /\ pc[d] = "LoadDesired"
    /\ desired' = [desired EXCEPT ![d] = disk.desired]
    /\ Goto(d, IF disk.desired = NoFile THEN "RenameDesired"
               ELSE IF disk.desired = Corrupt THEN "Refused"
               ELSE "Acquire")
    /\ UNCHANGED <<disk, durable, holder, config, storage, acknowledged, starts, losses>>

\* Mutant: the file is written in place, and is empty at first.
RenameDesiredInPlace(d) ==
    /\ pc[d] = "RenameDesired"
    /\ disk' = [disk EXCEPT !.desired = IF @ = NoFile THEN "" ELSE "RUNNING"]
    /\ Goto(d, IF disk.desired = NoFile THEN "RenameDesired" ELSE "SyncDesired")
    /\ UNCHANGED <<durable, holder, desired, config, storage, acknowledged, starts, losses>>

\* The default is written over whatever has appeared since the check.
RenameDesired(d) ==
    /\ pc[d] = "RenameDesired"
    /\ disk' = [disk EXCEPT !.desired = "RUNNING"]
    /\ Goto(d, "SyncDesired")
    /\ UNCHANGED <<durable, holder, desired, config, storage, acknowledged, starts, losses>>

SyncDesired(d) ==
    /\ pc[d] = "SyncDesired"
    /\ durable' = disk
    /\ desired' = [desired EXCEPT ![d] = "RUNNING"]
    /\ Goto(d, "Acquire")
    /\ UNCHANGED <<disk, holder, config, storage, acknowledged, starts, losses>>

Acquire(d) ==
    /\ pc[d] = "Acquire"
    /\ IF holder = Nobody
       THEN holder' = d /\ Goto(d, "Serving")
       ELSE Goto(d, "Refused") /\ UNCHANGED holder
    /\ UNCHANGED <<disk, durable, desired, config, storage, acknowledged, starts, losses>>

\* Mutant: the lock is a file that a dead daemon leaves behind.
DiesHoldingLock(d) ==
    /\ pc[d] \notin {"Off", "Refused"}
    /\ Goto(d, "Off")
    /\ UNCHANGED <<disk, durable, holder, desired, config, storage, acknowledged, starts, losses>>

\* A daemon ends or is killed at any point; the kernel drops its lock.
Dies(d) ==
    /\ pc[d] \notin {"Off", "Refused"}
    /\ Goto(d, "Off")
    /\ holder' = IF holder = d THEN Nobody ELSE holder
    /\ UNCHANGED <<disk, durable, desired, config, storage, acknowledged, starts, losses>>

\* Each rename that was not synced is kept or lost.
PowerLoss ==
    /\ losses < MaxLosses
    /\ losses' = losses + 1
    /\ disk' \in [identity : {disk.identity, durable.identity},
                  desired : {disk.desired, durable.desired}]
    /\ durable' = disk'
    /\ holder' = Nobody
    /\ pc' = [d \in Daemon |-> "Off"]
    /\ UNCHANGED <<desired, config, storage, acknowledged, starts>>

Step(d) ==
    \/ Start(d) \/ LoadIdentity(d) \/ CheckAbsent(d) \/ LinkIdentity(d) \/ SyncIdentity(d)
    \/ LoadDesired(d) \/ RenameDesired(d) \/ SyncDesired(d) \/ Acquire(d) \/ Dies(d)

Next == PowerLoss \/ \E d \in Daemon : Step(d)

Spec == Init /\ [][Next]_vars

----------------------------------------------------------------------------
(* Properties.                                                              *)

TypeOK ==
    /\ disk \in [identity : IdentityFile, desired : DesiredFile]
    /\ durable \in [identity : IdentityFile, desired : DesiredFile]
    /\ holder \in Daemon \cup {Nobody}
    /\ pc \in [Daemon -> {"Off", "LoadIdentity", "CheckAbsent", "LinkIdentity", "SyncIdentity",
                          "LoadDesired", "RenameDesired", "SyncDesired", "Acquire",
                          "Serving", "Refused"}]
    /\ desired \in [Daemon -> DesiredFile]
    /\ config \in [Daemon -> NodeId]
    /\ storage \in [Daemon -> 0..MaxStarts]
    /\ acknowledged \subseteq Identity
    /\ starts \in 0..MaxStarts /\ losses \in 0..MaxLosses

\* An identity whose creation was reported done is the volume's identity for
\* good: no daemon that races with the creator, no crash and no power loss
\* replaces it, so a volume never acknowledges two storage ids.
AcknowledgedIsForGood ==
    \A i \in acknowledged : disk.identity = i /\ durable.identity = i

\* Whoever gets as far as serving is alone, runs under the node id stored on
\* the volume and acts on the desired state stored there, although it read
\* both before it held the guard.
ServesWhatIsStored ==
    \A d \in Daemon : pc[d] = "Serving" =>
        /\ \A e \in Daemon \ {d} : pc[e] # "Serving"
        /\ disk.identity \notin {NoFile, Corrupt} /\ disk.identity.node = config[d]
        /\ disk.desired \notin {NoFile, Corrupt} /\ desired[d] = disk.desired

\* Daemons that race for a volume do not all lose: if every one of them has
\* been refused, the volume is corrupt or belongs to another node.
RaceHasWinner ==
    (\A d \in Daemon : pc[d] = "Refused") =>
        \/ Corrupt \in {disk.identity, disk.desired}
        \/ \A d \in Daemon : config[d] # disk.identity.node
============================================================================
