---------------------------- MODULE Commissioning ----------------------------
(***************************************************************************)
(* How devices get a node id and become nodes: the commissioning commands, *)
(* _get_next_node_id, the first interview, the wait for the setup task,    *)
(* interview_node and remove_node in server/device_controller.py.          *)
(*                                                                         *)
(* The four commands differ in how they reach the device: by code (over    *)
(* BLE or the network), on the network, through the window another fabric  *)
(* has opened, or by MAC address, which scans before it takes a node id.   *)
(* From the id on they are the same coroutine, cut here at its awaits: the *)
(* branches in which they differ, on NodeNotResolving and on retries <= 0, *)
(* are never reached.                                                      *)
(*                                                                         *)
(* A save writes everything storage holds (module Storage says when it     *)
(* does); a crash goes back to what was saved.  Setup tasks are in module  *)
(* NodeLifecycle; here a command waits for one or finds one that mDNS has  *)
(* started.                                                                *)
(***************************************************************************)
EXTENDS Naturals, FiniteSets, FiniteSetsExt

CONSTANTS Devices,
          Calls,       \* commissioning commands under way at a time
          Retries,     \* first interviews tried, 3 in the code
          MaxId,       \* bound on node ids
          MaxReading,  \* bound on interview_node commands under way
          MaxCrashes   \* bound on crashes

ASSUME CommissioningAssumption == 
  /\ Retries \in Nat \ {0} /\ MaxReading \in Nat \ {0}
  /\ MaxId \in Nat /\ MaxCrashes \in Nat

Ids      == 1..MaxId
NoId     == 0

VARIABLES
  last,      \* last_node_id in storage
  nodes,     \* the ids in _nodes, and in storage
  disk,      \* last and nodes as last saved
  call,      \* the commands: pc, id, device and interviews left
  reading,   \* ids with an interview_node under way
  removing,  \* remove_node, per id: no, shutdown or unpair
  fabric,    \* the id each device has in the fabric
  crashes,   \* how often the server crashed
  lost,      \* history: ids handed out and unsaved at a crash
  causes     \* history: ids whose device was left on the fabric, with a reason

memory == <<last, nodes>>
work   == <<call, reading, removing>>
past   == <<crashes, lost, causes>>
vars   == <<memory, disk, work, fabric, past>>

Idle == [pc |-> "idle", id |-> NoId, device |-> NoId, left |-> 0]
At(c, pc) == call[c].pc = pc
DevicesOf(n) == {d \in Devices : fabric[d] = n}

\* At the end the fabric label is set, if that works, and get_node returns the
\* node or raises NodeNotExists.
Return(c) == call' = [call EXCEPT ![c] = Idle]
\* Once the interviews are over the command needs no more than the id.
GoOn(c, pc) == call' = [call EXCEPT ![c] = [pc |-> pc, id |-> call[c].id,
                                            device |-> NoId, left |-> 0]]

-----------------------------------------------------------------------------
(***************************************************************************)
(* A commissioning command.                                                *)
(***************************************************************************)
NextNodeIdFromNodes == Max(nodes \cup {NoId}) + 1

NextNodeId == last + 1

\* The command takes the next id and asks the SDK to pair the device under it.
TakeId(c, d) ==
  /\ NextNodeId \in Ids
  /\ last' = NextNodeId
  /\ call' = [call EXCEPT ![c] = [pc |-> "commission", id |-> NextNodeId,
                                  device |-> d, left |-> Retries]]
  /\ UNCHANGED <<nodes, disk, reading, removing, fabric, past>>

\* Without bluetooth only network_only commands get this far.
CommissionWithCode(c, d) == At(c, "idle") /\ TakeId(c, d)

CommissionOnNetwork(c, d) == At(c, "idle") /\ TakeId(c, d)

CommissionOnWindow(c, d) == At(c, "idle") /\ TakeId(c, d)

\* The scan for the MAC address is awaited, then the id is taken ...
CommissionWithMac(c, d) ==
  /\ At(c, "idle")
  /\ call' = [call EXCEPT ![c] = [pc |-> "scan", id |-> NoId, device |-> d, left |-> 0]]
  /\ UNCHANGED <<memory, disk, reading, removing, fabric, past>>

\* ... unless the device was not found or is not in commissioning mode.
ScanEnds(c) ==
  /\ At(c, "scan")
  /\ \/ TakeId(c, call[c].device)
     \/ Return(c) /\ UNCHANGED <<memory, disk, reading, removing, fabric, past>>

\* The SDK pairs a device that is not on the fabric yet.
Commissioned(c) ==
  /\ At(c, "commission") /\ fabric[call[c].device] = NoId
  /\ fabric' = [fabric EXCEPT ![call[c].device] = call[c].id]
  /\ call' = [call EXCEPT ![c] = [pc |-> "interview", id |-> call[c].id,
                                  device |-> NoId, left |-> call[c].left]]
  /\ UNCHANGED <<memory, disk, reading, removing, past>>

CommissionFailsReturnsId(c) ==
  /\ At(c, "commission") /\ Return(c) /\ last' = last - 1
  /\ UNCHANGED <<nodes, disk, reading, removing, fabric, past>>

\* NodeCommissionFailed; the id is not used again.
CommissionFails(c) ==
  /\ At(c, "commission") /\ Return(c)
  /\ UNCHANGED <<memory, disk, reading, removing, fabric, past>>

\* The device has joined the fabric, under the id it was given, and the command
\* fails all the same: the SDK reports an error that came later, or another id
\* (RuntimeError).  Nothing takes the device off the fabric.
CommissionFailsLate(c) ==
  /\ At(c, "commission") /\ fabric[call[c].device] = NoId
  /\ fabric' = [fabric EXCEPT ![call[c].device] = call[c].id]
  /\ Return(c) /\ causes' = causes \cup {call[c].id}
  /\ UNCHANGED <<memory, disk, reading, removing, crashes, lost>>

\* _setup_node_create_task: the command waits for the task, unless mDNS has
\* started one already.
AwaitSetup(c) == Return(c) \/ GoOn(c, "wait")

Interviewed(c) ==
  /\ At(c, "interview")
  /\ nodes' = nodes \cup {call[c].id}
  /\ AwaitSetup(c)
  /\ UNCHANGED <<last, disk, reading, removing, fabric, past>>

\* When the retries are used up the command sleeps once more and goes on; the
\* branch that unpairs the device is not reached, as the loop ends first.
InterviewFails(c) ==
  /\ At(c, "interview")
  /\ IF call[c].left > 1
       THEN call' = [call EXCEPT ![c].left = @ - 1] /\ UNCHANGED causes
       ELSE /\ GoOn(c, "sleep")
            /\ causes' = causes \cup {call[c].id}
  /\ UNCHANGED <<memory, disk, reading, removing, fabric, crashes, lost>>

\* Only NodeInterviewFailed, which stands for an error of the SDK in the read, is
\* retried.  Any other exception ends the command at once: an
\* InteractionModelError, a read that returns None, a device that lacks the
\* cluster in which the fabric label is looked up (KeyError).
InterviewBreaks(c) ==
  /\ At(c, "interview") /\ Return(c)
  /\ causes' = causes \cup {call[c].id}
  /\ UNCHANGED <<memory, disk, reading, removing, fabric, crashes, lost>>

\* Without the node the setup task raises NodeNotExists into the command.
SetupAnyway(c) ==
  /\ At(c, "sleep")
  /\ IF call[c].id \in nodes THEN AwaitSetup(c) ELSE Return(c)
  /\ UNCHANGED <<memory, disk, reading, removing, fabric, past>>

\* The task ends: subscribed, given up, or the node is gone.
SetupEnds(c) ==
  /\ At(c, "wait") /\ Return(c)
  /\ UNCHANGED <<memory, disk, reading, removing, fabric, past>>

-----------------------------------------------------------------------------
(***************************************************************************)
(* Interviews and removals.                                                *)
(***************************************************************************)
\* interview_node reads any device on the fabric ...
InterviewNode(n) ==
  /\ n \notin reading /\ DevicesOf(n) # {} /\ Cardinality(reading) < MaxReading
  /\ reading' = reading \cup {n}
  /\ UNCHANGED <<memory, disk, call, removing, fabric, past>>

\* ... and stores what it read, also for a node that is not known (any more).
InterviewNodeDone(n) ==
  /\ n \in reading /\ reading' = reading \ {n}
  /\ nodes' \in {nodes, nodes \cup {n}}
  /\ UNCHANGED <<last, disk, call, removing, fabric, past>>

\* remove_node cancels the setup task; a command that waits for it is cancelled
\* with it and never answered.
RemoveNode(n) ==
  /\ n \in nodes /\ removing[n] = "no"
  /\ removing' = [removing EXCEPT ![n] = "shutdown"]
  /\ call' = [c \in Calls |-> IF At(c, "wait") /\ call[c].id = n THEN Idle ELSE call[c]]
  /\ UNCHANGED <<memory, disk, reading, fabric, past>>

RemoveForgets(n) ==
  /\ removing[n] = "shutdown"
  /\ removing' = [removing EXCEPT ![n] = "no"] /\ nodes' = nodes \ {n}
  /\ UNCHANGED <<last, disk, call, reading, fabric, past>>

\* After the await of shutdown_subscription.
RemoveDrops(n) ==
  /\ removing[n] = "shutdown"
  /\ removing' = [removing EXCEPT ![n] = "unpair"] /\ nodes' = nodes \ {n}
  /\ UNCHANGED <<last, disk, call, reading, fabric, past>>

\* unpair_device; an error is only logged.
RemoveUnpairs(n) ==
  /\ removing[n] = "unpair" /\ removing' = [removing EXCEPT ![n] = "no"]
  /\ \/ /\ \E d \in DevicesOf(n) : fabric' = [fabric EXCEPT ![d] = NoId]
        /\ UNCHANGED causes
     \/ causes' = causes \cup {n} /\ UNCHANGED fabric
  /\ UNCHANGED <<memory, disk, call, reading, crashes, lost>>

-----------------------------------------------------------------------------
(***************************************************************************)
(* The world: storage, the process, and devices that are reset.            *)
(***************************************************************************)
Save ==
  /\ disk # [last |-> last, nodes |-> nodes]
  /\ disk' = [last |-> last, nodes |-> nodes]
  /\ UNCHANGED <<memory, work, fabric, past>>

\* The process ends; start() loads what was saved.
Crash ==
  /\ crashes < MaxCrashes /\ crashes' = crashes + 1
  /\ last' = disk.last /\ nodes' = disk.nodes
  /\ call' = [c \in Calls |-> Idle] /\ reading' = {}
  /\ removing' = [n \in Ids |-> "no"]
  /\ lost' = lost \cup ((disk.last + 1)..last)
  /\ causes' = causes \cup {n \in Ids \ disk.nodes : DevicesOf(n) # {}}
  /\ UNCHANGED <<disk, fabric>>

FactoryReset(d) ==
  /\ fabric[d] # NoId /\ fabric' = [fabric EXCEPT ![d] = NoId]
  /\ UNCHANGED <<memory, disk, work, past>>

-----------------------------------------------------------------------------
Init ==
  /\ last = 0 /\ nodes = {} /\ disk = [last |-> 0, nodes |-> {}]
  /\ call = [c \in Calls |-> Idle] /\ reading = {}
  /\ removing = [n \in Ids |-> "no"]
  /\ fabric = [d \in Devices |-> NoId]
  /\ crashes = 0 /\ lost = {} /\ causes = {}

Step(c) ==
  \/ ScanEnds(c) \/ Commissioned(c) \/ CommissionFails(c) \/ CommissionFailsLate(c)
  \/ Interviewed(c) \/ InterviewFails(c) \/ InterviewBreaks(c)
  \/ SetupAnyway(c) \/ SetupEnds(c)

Next ==
  \/ \E c \in Calls, d \in Devices :
       \/ CommissionWithCode(c, d) \/ CommissionOnNetwork(c, d)
       \/ CommissionOnWindow(c, d) \/ CommissionWithMac(c, d)
  \/ \E c \in Calls : Step(c)
  \/ \E n \in Ids : \/ InterviewNode(n) \/ InterviewNodeDone(n)
                    \/ RemoveNode(n) \/ RemoveDrops(n) \/ RemoveUnpairs(n)
  \/ Save \/ Crash \/ \E d \in Devices : FactoryReset(d)

Spec == Init /\ [][Next]_vars

-----------------------------------------------------------------------------
(***************************************************************************)
(* Properties.                                                             *)
(***************************************************************************)
TypeOK ==
  /\ last \in 0..MaxId /\ nodes \subseteq Ids /\ reading \subseteq Ids
  /\ disk \in [last : 0..MaxId, nodes : SUBSET Ids]
  /\ call \in [Calls -> [pc : {"scan", "commission", "interview", "sleep", "wait"},
                         id : Ids \cup {NoId},
                         device : Devices \cup {NoId}, left : 0..Retries] \cup {Idle}]
  /\ removing \in [Ids -> {"no", "shutdown", "unpair"}]
  /\ fabric \in [Devices -> Ids \cup {NoId}]
  /\ crashes \in 0..MaxCrashes /\ lost \subseteq Ids /\ causes \subseteq Ids

\* No two devices get the same node id, however commissionings, failures,
\* removals and crashes are mixed, unless the id was handed out and a crash
\* came before it was saved.  (_get_next_node_id.)
UniqueIds ==
  \A d, e \in Devices : fabric[d] = fabric[e] /\ fabric[d] # NoId /\ d # e
                          => fabric[d] \in lost

\* The next id is never that of a node the server knows or would load, so a new
\* node does not take the place of another in _nodes, with the same exception.
NextIdIsFree == nodes \cup disk.nodes \subseteq (1..last) \cup lost

\* A device on the fabric that the server does not know is being commissioned
\* or removed, or was left there by one of these: commissioning that failed
\* after the device had joined, interviews that failed three times or once with
\* another exception, an unpairing that failed, a crash.  Every other mix of
\* commands, removals and resets keeps sight of it.
Handled(n) == \/ \E c \in Calls : ~At(c, "idle") /\ call[c].id = n
              \/ removing[n] # "no"
NoStrayDevice ==
  \A d \in Devices : fabric[d] \in Ids \ nodes => Handled(fabric[d]) \/ fabric[d] \in causes

=============================================================================
