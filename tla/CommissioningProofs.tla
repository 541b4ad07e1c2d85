------------------------- MODULE CommissioningProofs -------------------------
(***************************************************************************)
(* Proofs about Commissioning, for any number of devices, commands, ids,   *)
(* interviews and crashes: node ids are unique, the next one is free, and  *)
(* only the failures the module names leave a device on the fabric.        *)
(***************************************************************************)
EXTENDS Commissioning, TLAPS

\* Ids beyond last_node_id that are in use all the same: handed out, not saved
\* at a crash, and their device is still on the fabric.
Stale == lost \cap causes

\* Commands have ids of their own, none beyond last_node_id: a crash, which
\* alone takes it back, ends them.
CallIds ==
  /\ \A c \in Calls :
       call[c].id \in IF call[c].pc \in {"idle", "scan"} THEN {NoId} ELSE 1 .. last
  /\ \A c, e \in Calls : c # e /\ call[c].id = call[e].id => call[c].id = NoId

UsedIds ==
  /\ nodes \cup reading \subseteq (1 .. last) \cup Stale
  /\ \A d \in Devices : fabric[d] \in (0 .. last) \cup Stale
  /\ disk.last <= last
  /\ disk.nodes \subseteq (1 .. disk.last) \cup Stale

\* The id a command is about to give a device is no other device's.
FreshIds ==
  \A c \in Calls, d \in Devices :
    At(c, "commission") /\ fabric[d] = call[c].id => fabric[d] \in Stale

OneDevice ==
  \A d, e \in Devices : d # e /\ fabric[d] = fabric[e] => fabric[d] \in Stale \cup {NoId}

\* Of the commands only one that interviews its device answers for it.
Interviewing(n) == \E c \in Calls : At(c, "interview") /\ call[c].id = n

NoStray ==
  /\ \A c \in Calls : At(c, "sleep") => call[c].id \in causes
  /\ \A d \in Devices : fabric[d] \in Ids \ nodes =>
       Interviewing(fabric[d]) \/ removing[fabric[d]] # "no" \/ fabric[d] \in causes

IInv == TypeOK /\ CallIds /\ UsedIds /\ FreshIds /\ OneDevice /\ NoStray

LEMMA CommandMovesOne ==
  ASSUME TypeOK, NEW c \in Calls, NEW step, call' = [call EXCEPT ![c] = step]
  PROVE  call'[c] = step /\ \A e \in Calls \ {c} : call'[e] = call[e]
BY DEF TypeOK

-----------------------------------------------------------------------------
\* A step of a command that keeps or gives up its id.
LEMMA CommandGoesOn ==
  ASSUME IInv, NEW c \in Calls, NEW step, call' = [call EXCEPT ![c] = step],
         step = Idle \/ (/\ step.pc \in {"interview", "sleep", "wait"}
                         /\ step.id = call[c].id
                         /\ call[c].pc \notin {"idle", "scan"}
                         /\ step.device = NoId /\ step.left \in 0 .. Retries
                         /\ step = [pc |-> step.pc, id |-> step.id,
                                    device |-> step.device, left |-> step.left]
                         /\ step.pc = "sleep" => call[c].id \in causes'),
         UNCHANGED <<last, disk, reading, removing, fabric, crashes, lost>>,
         nodes \subseteq nodes', nodes' \subseteq nodes \cup {call[c].id},
         nodes' \subseteq Ids,
         causes' \in {causes, causes \cup {call[c].id}}, causes' \subseteq Ids,
         At(c, "interview") => step.pc = "interview" \/ call[c].id \in nodes' \cup causes'
  PROVE  IInv'
<1>1. call'[c] = step /\ \A e \in Calls \ {c} : call'[e] = call[e]
  BY CommandMovesOne DEF IInv
<1>2. TypeOK'
  BY <1>1 DEF IInv, TypeOK, Idle
<1>3. CallIds'
  BY <1>1 DEF IInv, CallIds, Idle, NoId
<1>4. Stale \subseteq Stale'
  BY DEF Stale
<1>5. UsedIds'
  BY <1>4 DEF IInv, UsedIds, CallIds, TypeOK, Ids, NoId
<1>6. FreshIds'
  BY <1>1, <1>4 DEF IInv, FreshIds, At, Idle
<1>7. OneDevice'
  BY <1>4 DEF IInv, OneDevice
<1>8. NoStray'
  BY <1>1 DEF IInv, NoStray, Interviewing, At, Idle
<1>9. QED
  BY <1>2, <1>3, <1>5, <1>6, <1>7, <1>8 DEF IInv

LEMMA TakeIdStep ==
  ASSUME IInv, NEW c \in Calls, NEW d \in Devices \cup {NoId}, TakeId(c, d),
         call[c].pc \in {"idle", "scan"}
  PROVE  IInv'
<1> DEFINE step == [pc |-> "commission", id |-> NextNodeId, device |-> d, left |-> Retries]
<1>1. call'[c] = step /\ \A e \in Calls \ {c} : call'[e] = call[e]
  BY CommandMovesOne DEF IInv, TakeId
<1>2. /\ last' = last + 1 /\ last + 1 \in Ids
      /\ UNCHANGED <<nodes, disk, reading, removing, fabric, crashes, lost, causes>>
  BY DEF TakeId, NextNodeId, past
<1>3. TypeOK'
  BY <1>1, <1>2, CommissioningAssumption DEF IInv, TypeOK, NextNodeId, Ids, TakeId
<1>4. CallIds'
  BY <1>1, <1>2 DEF IInv, TypeOK, CallIds, NextNodeId, Ids, NoId
<1>5. UsedIds'
  BY <1>2 DEF IInv, TypeOK, UsedIds, Stale, Ids
<1>6. FreshIds'
  BY <1>1, <1>2 DEF IInv, TypeOK, UsedIds, FreshIds, At, Stale, NextNodeId, Ids
<1>7. OneDevice'
  BY <1>2 DEF IInv, OneDevice, Stale
<1>8. NoStray'
  BY <1>1, <1>2 DEF IInv, NoStray, Interviewing, At
<1>9. QED
  BY <1>3, <1>4, <1>5, <1>6, <1>7, <1>8 DEF IInv

LEMMA ScanStep ==
  ASSUME IInv, NEW c \in Calls, NEW d \in Devices, CommissionWithMac(c, d)
  PROVE  IInv'
<1> DEFINE step == [pc |-> "scan", id |-> NoId, device |-> d, left |-> 0]
<1>1. call'[c] = step /\ \A e \in Calls \ {c} : call'[e] = call[e]
  BY CommandMovesOne DEF IInv, CommissionWithMac
<1>2. /\ UNCHANGED <<last, nodes, disk, reading, removing, fabric, crashes, lost, causes>>
      /\ call[c].pc = "idle"
  BY DEF CommissionWithMac, At, memory, past
<1>3. TypeOK'
  BY <1>1, <1>2, CommissioningAssumption
     DEF IInv, TypeOK, Idle, NoId, memory, past, CommissionWithMac
<1>4. CallIds' /\ UsedIds' /\ FreshIds' /\ OneDevice' /\ NoStray'
  BY <1>1, <1>2 DEF IInv, CallIds, UsedIds, FreshIds, OneDevice, NoStray, Interviewing, At,
                    Idle, Stale, memory, past
<1>5. QED
  BY <1>3, <1>4 DEF IInv

\* The two steps that give a device its id.
LEMMA CommissionedStep ==
  ASSUME IInv, NEW c \in Calls, Commissioned(c) \/ CommissionFailsLate(c)
  PROVE  IInv'
<1> DEFINE d == call[c].device
           n == call[c].id
           step == IF Commissioned(c)
                     THEN [pc |-> "interview", id |-> n, device |-> NoId, left |-> call[c].left]
                     ELSE Idle
<1>0. n \in Ids \cup {NoId} /\ d \in Devices \cup {NoId} /\ call[c].left \in 0 .. Retries
  BY DEF IInv, TypeOK, Commissioned, CommissionFailsLate, At, Idle
<1>1. call' = [call EXCEPT ![c] = step]
  BY DEF Commissioned, CommissionFailsLate, Return
<1>2. call'[c] = step /\ \A e \in Calls \ {c} : call'[e] = call[e]
  BY <1>1, CommandMovesOne DEF IInv
<1>3. /\ At(c, "commission") /\ fabric' = [fabric EXCEPT ![d] = n]
      /\ UNCHANGED <<last, nodes, disk, reading, removing, crashes, lost>>
      /\ causes \subseteq causes' /\ causes' \subseteq causes \cup {n}
      /\ step = Idle => n \in causes'
  BY DEF Commissioned, CommissionFailsLate, memory, past, Idle
<1>4. \/ step = Idle /\ step.pc = "idle" /\ step.id = NoId
      \/ step.pc = "interview" /\ step.id = n
  BY DEF Idle
<1>5. n \in 1 .. last /\ n # NoId
  BY <1>3 DEF IInv, TypeOK, CallIds, At, NoId
<1>6. TypeOK'
  <2>1. call' \in [Calls -> [pc : {"scan", "commission", "interview", "sleep", "wait"},
                             id : Ids \cup {NoId},
                             device : Devices \cup {NoId}, left : 0..Retries] \cup {Idle}]
    BY <1>0, <1>1 DEF IInv, TypeOK
  <2>2. fabric' \in [Devices -> Ids \cup {NoId}]
    BY <1>0, <1>3 DEF IInv, TypeOK
  <2>3. n \in Ids
    BY <1>0, <1>5
  <2>4. QED
    BY <1>3, <2>1, <2>2, <2>3 DEF IInv, TypeOK
<1> HIDE DEF step
<1>7. CallIds'
  <2>1. \A e \in Calls \ {c} : call'[e].id = call[e].id /\ call'[e].pc = call[e].pc
    BY <1>2
  <2>2. call'[c].id \in {n, NoId} /\ last' = last
    BY <1>2, <1>3, <1>4
  <2>3. call'[c].id \in IF call'[c].pc \in {"idle", "scan"} THEN {NoId} ELSE 1 .. last
    BY <1>2, <1>4, <1>5
  <2>4. QED
    BY <2>1, <2>2, <2>3 DEF IInv, CallIds
<1>8. Stale \subseteq Stale'
  BY <1>3 DEF Stale
<1>9. UsedIds'
  BY <1>3, <1>5, <1>8 DEF IInv, TypeOK, UsedIds, Ids
<1>10. FreshIds'
  BY <1>2, <1>3, <1>4, <1>5, <1>8 DEF IInv, TypeOK, CallIds, FreshIds, At
<1>11. OneDevice'
  BY <1>3, <1>8 DEF IInv, TypeOK, FreshIds, OneDevice
<1>12. NoStray'
  BY <1>2, <1>3, <1>4 DEF IInv, TypeOK, NoStray, Interviewing, At
<1>13. QED
  BY <1>6, <1>7, <1>9, <1>10, <1>11, <1>12 DEF IInv

-----------------------------------------------------------------------------
\* Interviews outside commissioning, and the first half of a removal.
LEMMA NodeStep ==
  ASSUME IInv, NEW n \in Ids,
         InterviewNode(n) \/ InterviewNodeDone(n) \/ RemoveNode(n) \/ RemoveDrops(n)
  PROVE  IInv'
<1>1. CASE InterviewNode(n)
  <2>1. n \in (1 .. last) \cup Stale
    BY <1>1 DEF InterviewNode, DevicesOf, IInv, UsedIds, Ids
  <2>2. QED
    BY <1>1, <2>1 DEF InterviewNode, IInv, TypeOK, CallIds, UsedIds, FreshIds, OneDevice,
                      NoStray, Interviewing, At, Stale, memory, past
<1>2. CASE InterviewNodeDone(n)
  BY <1>2 DEF InterviewNodeDone, IInv, TypeOK, CallIds, UsedIds, FreshIds, OneDevice,
              NoStray, Interviewing, At, Stale, past
<1>3. CASE RemoveNode(n)
  <2>1. \A c \in Calls :
          call'[c] = call[c] \/ (At(c, "wait") /\ call'[c] = Idle)
    BY <1>3 DEF RemoveNode
  <2>2. /\ UNCHANGED <<last, nodes, disk, reading, fabric, crashes, lost, causes>>
        /\ removing' = [removing EXCEPT ![n] = "shutdown"]
    BY <1>3 DEF RemoveNode, memory, past
  <2>3. TypeOK'
    BY <1>3, <2>2 DEF RemoveNode, IInv, TypeOK
  <2>4. CallIds' /\ FreshIds'
    BY <2>1, <2>2 DEF IInv, CallIds, FreshIds, At, Idle, Stale
  <2>5. UsedIds' /\ OneDevice'
    BY <2>2 DEF IInv, UsedIds, OneDevice, Stale
  <2>6. NoStray'
    BY <2>1, <2>2 DEF IInv, TypeOK, NoStray, Interviewing, At, Idle
  <2>7. QED
    BY <2>3, <2>4, <2>5, <2>6 DEF IInv
<1>4. CASE RemoveDrops(n)
  BY <1>4 DEF RemoveDrops, IInv, TypeOK, CallIds, UsedIds, FreshIds, OneDevice,
              NoStray, Interviewing, At, Stale, past
<1>5. QED
  BY <1>1, <1>2, <1>3, <1>4

\* The second half: one device is unpaired.  Another one with the same id has
\* a stale id, so it is known to be left.
LEMMA UnpairStep ==
  ASSUME IInv, NEW n \in Ids, RemoveUnpairs(n)
  PROVE  IInv'
<1>1. /\ UNCHANGED <<memory, disk, call, reading, crashes, lost>>
      /\ removing' = [removing EXCEPT ![n] = "no"]
  BY DEF RemoveUnpairs
<1>2. CASE causes' = causes \cup {n} /\ UNCHANGED fabric
  BY <1>1, <1>2 DEF IInv, TypeOK, CallIds, UsedIds, FreshIds, OneDevice, NoStray,
                    Interviewing, At, Stale, memory
<1>3. ASSUME NEW d \in Devices, fabric[d] = n, fabric' = [fabric EXCEPT ![d] = NoId],
             UNCHANGED causes
      PROVE  IInv'
  <2>1. TypeOK' /\ CallIds' /\ UsedIds' /\ FreshIds'
    BY <1>1, <1>3 DEF IInv, TypeOK, CallIds, UsedIds, FreshIds, At, Stale, NoId, Ids, memory
  <2>2. OneDevice'
    BY <1>1, <1>3 DEF IInv, TypeOK, OneDevice, Stale
  <2>3. \A e \in Devices : fabric'[e] = n => n \in causes
    BY <1>3 DEF IInv, TypeOK, OneDevice, Stale, Ids, NoId
  <2>4. NoStray'
    BY <1>1, <1>3, <2>3 DEF IInv, TypeOK, NoStray, Interviewing, At, Ids, NoId, memory
  <2>5. QED
    BY <2>1, <2>2, <2>4 DEF IInv
<1>4. QED
  BY <1>2, <1>3 DEF RemoveUnpairs, DevicesOf

\* After a crash, ids beyond the last one that was saved are stale where a
\* device or a stored node still has them.
LEMMA CrashStep ==
  ASSUME IInv, Crash
  PROVE  IInv'
<1>1. /\ last' = disk.last /\ nodes' = disk.nodes
      /\ reading' = {} /\ removing' = [n \in Ids |-> "no"]
      /\ lost' = lost \cup ((disk.last + 1) .. last)
      /\ causes' = causes \cup {n \in Ids \ disk.nodes : DevicesOf(n) # {}}
      /\ UNCHANGED <<disk, fabric>>
  BY DEF Crash
<1>2. \A c \in Calls : call'[c] = Idle
  BY DEF Crash
<1>3. TypeOK'
  <2>1. last' \in 0 .. MaxId /\ nodes' \subseteq Ids /\ reading' \subseteq Ids
        /\ disk' \in [last : 0 .. MaxId, nodes : SUBSET Ids]
        /\ fabric' \in [Devices -> Ids \cup {NoId}]
    BY <1>1 DEF IInv, TypeOK
  <2>2. removing' \in [Ids -> {"no", "shutdown", "unpair"}] /\ causes' \subseteq Ids
    BY <1>1 DEF IInv, TypeOK
  <2>3. lost' \subseteq Ids
    <3>1. disk.last \in 0 .. MaxId /\ last \in 0 .. MaxId /\ lost \subseteq Ids
      BY DEF IInv, TypeOK
    <3>2. (disk.last + 1) .. last \subseteq Ids
      BY <3>1, CommissioningAssumption DEF Ids
    <3>3. QED
      BY <1>1, <3>1, <3>2
  <2>4. crashes' \in 0 .. MaxCrashes
    BY CommissioningAssumption DEF Crash, IInv, TypeOK
  <2>5. QED
    BY <2>1, <2>2, <2>3, <2>4 DEF Crash, TypeOK
<1>4. CallIds' /\ FreshIds'
  BY <1>2 DEF CallIds, FreshIds, At, Idle
<1>5. Stale \subseteq Stale'
  BY <1>1 DEF Stale
<1>6. \A d \in Devices : fabric[d] \in (0 .. disk.last) \cup Stale'
  <2> TAKE d \in Devices
  <2>1. CASE fabric[d] \in disk.nodes \cup (0 .. disk.last) \cup Stale
    BY <1>5, <2>1 DEF IInv, UsedIds, TypeOK, Ids
  <2>2. CASE fabric[d] \notin disk.nodes \cup (0 .. disk.last) \cup Stale
    <3>1. fabric[d] \in (disk.last + 1) .. last /\ fabric[d] \in Ids
      BY <2>2 DEF IInv, UsedIds, TypeOK, Ids, NoId
    <3>2. QED
      BY <1>1, <2>2, <3>1 DEF Stale, DevicesOf
  <2>3. QED
    BY <2>1, <2>2
<1>7. UsedIds'
  BY <1>1, <1>5, <1>6 DEF IInv, UsedIds, TypeOK
<1>8. OneDevice'
  BY <1>1, <1>5 DEF IInv, OneDevice
<1>9. NoStray'
  BY <1>1, <1>2 DEF IInv, TypeOK, NoStray, At, Idle, DevicesOf
<1>10. QED
  BY <1>3, <1>4, <1>7, <1>8, <1>9 DEF IInv

LEMMA SaveStep ==
  ASSUME IInv, Save PROVE IInv'
BY DEF Save, IInv, TypeOK, CallIds, UsedIds, FreshIds, OneDevice, NoStray, Interviewing,
       At, Stale, Ids, memory, work, past

LEMMA ResetStep ==
  ASSUME IInv, NEW d \in Devices, FactoryReset(d)
  PROVE  IInv'
<1>1. /\ fabric' = [fabric EXCEPT ![d] = NoId]
      /\ UNCHANGED <<last, nodes, disk, call, reading, removing, crashes, lost, causes>>
  BY DEF FactoryReset, memory, work, past
<1>2. TypeOK' /\ CallIds'
  BY <1>1 DEF IInv, TypeOK, CallIds
<1>3. \A e \in Devices : fabric'[e] \in {fabric[e], NoId}
  BY <1>1 DEF IInv, TypeOK
<1>4. UsedIds'
  BY <1>1, <1>3 DEF IInv, TypeOK, UsedIds, Stale, NoId
<1>5. FreshIds'
  <2> SUFFICES ASSUME NEW c \in Calls, NEW e \in Devices, At(c, "commission"),
                      fabric'[e] = call[c].id
               PROVE  fabric'[e] \in Stale
    BY <1>1 DEF FreshIds, At, Stale
  <2>1. fabric'[e] # NoId
    BY DEF IInv, TypeOK, CallIds, At, NoId
  <2>2. QED
    BY <1>3, <2>1 DEF IInv, FreshIds
<1>6. OneDevice' /\ NoStray'
  BY <1>1, <1>3 DEF IInv, OneDevice, NoStray, Interviewing, At, Stale, Ids, NoId
<1>7. QED
  BY <1>2, <1>4, <1>5, <1>6 DEF IInv

-----------------------------------------------------------------------------
LEMMA InitIInv == Init => IInv
BY CommissioningAssumption
   DEF Init, IInv, TypeOK, CallIds, UsedIds, FreshIds, OneDevice, NoStray, Interviewing, At,
       Idle, Stale, Ids, NoId

LEMMA CommandReturns ==
  ASSUME IInv, NEW c \in Calls, Return(c),
         UNCHANGED <<last, disk, reading, removing, fabric, past>>,
         nodes \subseteq nodes', nodes' \subseteq nodes \cup {call[c].id},
         nodes' \subseteq Ids,
         At(c, "interview") => call[c].id \in nodes'
  PROVE  IInv'
<1>1. call' = [call EXCEPT ![c] = Idle]
  BY DEF Return
<1>2. UNCHANGED <<crashes, lost, causes>> /\ causes \subseteq Ids
  BY DEF past, IInv, TypeOK
<1>3. QED
  BY <1>1, <1>2, CommandGoesOn

LEMMA CommandKeepsId ==
  ASSUME IInv, NEW c \in Calls, NEW pc \in {"sleep", "wait"}, GoOn(c, pc),
         call[c].pc \notin {"idle", "scan"},
         UNCHANGED <<last, disk, reading, removing, fabric, crashes, lost>>,
         nodes \subseteq nodes', nodes' \subseteq nodes \cup {call[c].id},
         nodes' \subseteq Ids,
         causes' \in {causes, causes \cup {call[c].id}},
         pc = "sleep" => call[c].id \in causes',
         At(c, "interview") => call[c].id \in nodes' \cup causes'
  PROVE  IInv'
<1> DEFINE step == [pc |-> pc, id |-> call[c].id, device |-> NoId, left |-> 0]
<1>1. call' = [call EXCEPT ![c] = step]
  BY DEF GoOn
<1>2. call[c].id \in Ids /\ causes' \subseteq Ids /\ step.left \in 0 .. Retries
  BY CommissioningAssumption DEF IInv, TypeOK, CallIds, Idle, Ids
<1>3. step = [pc |-> step.pc, id |-> step.id, device |-> step.device, left |-> step.left]
  OBVIOUS
<1>4. QED
  BY <1>1, <1>2, <1>3, CommandGoesOn

\* One interview less is left.
LEMMA CommandTriesAgain ==
  ASSUME IInv, NEW c \in Calls, At(c, "interview"), call[c].left > 1,
         call' = [call EXCEPT ![c].left = @ - 1],
         UNCHANGED <<last, nodes, disk, reading, removing, fabric, crashes, lost, causes>>
  PROVE  IInv'
<1>1. \A e \in Calls : /\ call'[e].pc = call[e].pc
                       /\ call'[e].id = call[e].id
  BY DEF IInv, TypeOK, Idle
<1>2. TypeOK'
  <2> DEFINE c0 == call[c]
             fewer == [pc |-> c0.pc, id |-> c0.id, device |-> c0.device,
                       left |-> c0.left - 1]
  <2>1. c0 \in [pc : {"scan", "commission", "interview", "sleep", "wait"},
                id : Ids \cup {NoId}, device : Devices \cup {NoId}, left : 0 .. Retries]
    BY DEF IInv, TypeOK, At, Idle
  <2>2. [c0 EXCEPT !.left = c0.left - 1] = fewer
    BY <2>1
  <2>3. c0.left - 1 \in 0 .. Retries
    BY <2>1, CommissioningAssumption
  <2>4. call' = [call EXCEPT ![c] = fewer]
    BY <2>2 DEF IInv, TypeOK
  <2>5. QED
    BY <2>1, <2>3, <2>4 DEF IInv, TypeOK
<1>3. CallIds' /\ UsedIds' /\ FreshIds' /\ OneDevice' /\ NoStray'
  BY <1>1 DEF IInv, CallIds, UsedIds, FreshIds, OneDevice, NoStray, Interviewing, At, Stale
<1>4. QED
  BY <1>2, <1>3 DEF IInv

\* The steps of a command.
LEMMA CommandStep ==
  ASSUME IInv, NEW c \in Calls, Step(c)
  PROVE  IInv'
<1> DEFINE n == call[c].id
<1>1. nodes \subseteq Ids /\ (call[c].pc \notin {"idle", "scan"} => n \in Ids)
  BY DEF IInv, TypeOK, CallIds, Ids, NoId, Idle
<1>2. CASE ScanEnds(c)
  <2>1. At(c, "scan") /\ call[c].device \in Devices \cup {NoId}
    BY <1>2 DEF ScanEnds, At, IInv, TypeOK, Idle
  <2>2. CASE Return(c) /\ UNCHANGED <<memory, disk, reading, removing, fabric, past>>
    BY <1>1, <2>1, <2>2, CommandReturns DEF At, memory
  <2>3. CASE TakeId(c, call[c].device)
    BY <2>1, <2>3, TakeIdStep DEF At
  <2>4. QED
    BY <1>2, <2>2, <2>3 DEF ScanEnds
<1>3. CASE Commissioned(c) \/ CommissionFailsLate(c)
  BY <1>3, CommissionedStep
<1>4. CASE CommissionFails(c) \/ SetupEnds(c)
  BY <1>1, <1>4, CommandReturns DEF CommissionFails, SetupEnds, At, memory
<1>5. ASSUME AwaitSetup(c), call[c].pc \notin {"idle", "scan"}, nodes' = nodes \cup {n},
             UNCHANGED <<last, disk, reading, removing, fabric, past>>
      PROVE  IInv'
  <2>1. CASE Return(c)
    BY <1>1, <1>5, <2>1, CommandReturns
  <2>2. CASE GoOn(c, "wait")
    BY <1>1, <1>5, <2>2, CommandKeepsId DEF past
  <2>3. QED
    BY <1>5, <2>1, <2>2 DEF AwaitSetup
<1>6. CASE Interviewed(c)
  BY <1>5, <1>6 DEF Interviewed, At
<1>7. CASE InterviewFails(c)
  <2>1. /\ At(c, "interview")
        /\ UNCHANGED <<last, nodes, disk, reading, removing, fabric, crashes, lost>>
    BY <1>7 DEF InterviewFails, memory
  <2>2. CASE call[c].left > 1
    BY <1>7, <2>1, <2>2, CommandTriesAgain DEF InterviewFails
  <2>3. CASE ~(call[c].left > 1)
    BY <1>1, <1>7, <2>1, <2>3, CommandKeepsId DEF InterviewFails, At
  <2>4. QED
    BY <2>2, <2>3
<1>8. CASE InterviewBreaks(c)
  <2>1. /\ call' = [call EXCEPT ![c] = Idle] /\ At(c, "interview")
        /\ UNCHANGED <<last, nodes, disk, reading, removing, fabric, crashes, lost>>
        /\ causes' = causes \cup {n}
    BY <1>8 DEF InterviewBreaks, Return, memory
  <2>2. causes' \subseteq Ids
    BY <1>1, <2>1 DEF IInv, TypeOK, At
  <2>3. QED
    BY <1>1, <2>1, <2>2, CommandGoesOn
<1>9. CASE SetupAnyway(c)
  <2>1. /\ call[c].pc = "sleep"
        /\ UNCHANGED <<last, nodes, disk, reading, removing, fabric, past>>
    BY <1>9 DEF SetupAnyway, At, memory
  <2>2. CASE n \in nodes
    BY <1>5, <1>9, <2>1, <2>2 DEF SetupAnyway
  <2>3. CASE n \notin nodes
    BY <1>1, <1>9, <2>1, <2>3, CommandReturns DEF SetupAnyway, At
  <2>4. QED
    BY <2>2, <2>3
<1>10. QED
  BY <1>2, <1>3, <1>4, <1>6, <1>7, <1>8, <1>9 DEF Step

LEMMA NextIInv ==
  ASSUME IInv, [Next]_vars PROVE IInv'
<1>1. ASSUME NEW c \in Calls, NEW d \in Devices,
             CommissionWithCode(c, d) \/ CommissionOnNetwork(c, d) \/ CommissionOnWindow(c, d)
      PROVE  IInv'
  BY <1>1, TakeIdStep DEF CommissionWithCode, CommissionOnNetwork, CommissionOnWindow, At
<1>2. CASE UNCHANGED vars
  BY <1>2 DEF vars, memory, work, past, IInv, TypeOK, CallIds, UsedIds, FreshIds, OneDevice,
              NoStray, Interviewing, At, Stale
<1>3. QED
  BY <1>1, <1>2, ScanStep, CommandStep, NodeStep, UnpairStep, CrashStep, SaveStep, ResetStep
     DEF Next

LEMMA AlwaysIInv == Spec => []IInv
BY InitIInv, NextIInv, PTL DEF Spec

\* No two devices get the same node id, unless it was handed out and not saved
\* before a crash.
THEOREM NodeIdsAreUnique == Spec => []UniqueIds
<1>1. IInv => UniqueIds
  BY DEF IInv, OneDevice, UniqueIds, Stale
<1>2. QED
  BY <1>1, AlwaysIInv, PTL

\* No node the server knows or would load has the next id, with the same
\* exception.
THEOREM NextIdIsUnused == Spec => []NextIdIsFree
<1>1. IInv => NextIdIsFree
  BY DEF IInv, TypeOK, UsedIds, NextIdIsFree, Stale
<1>2. QED
  BY <1>1, AlwaysIInv, PTL

\* A device on the fabric that the server does not know is being commissioned
\* or removed, or was left there for a known reason.
THEOREM StrayDevicesAreKnown == Spec => []NoStrayDevice
<1>1. IInv => NoStrayDevice
  BY DEF IInv, NoStray, Interviewing, NoStrayDevice, Handled, At
<1>2. QED
  BY <1>1, AlwaysIInv, PTL
=============================================================================
