-------------------------- MODULE GroupKeysProofs --------------------------
(***************************************************************************)
(* Proofs about GroupKeys, for any nodes, groups, concurrent calls and     *)
(* settings: the types (TypeInv), the keys outlive the nodes recorded for  *)
(* them, calls come to an end, the record of provisioned nodes survives a  *)
(* restart; and in a healthy network (HealthyOK) every recorded node is    *)
(* reached, no keyset is orphaned, and calls leave other groups alone.     *)
(***************************************************************************)
EXTENDS GroupKeys, TLAPS, FiniteSetTheorems

RecordsInv ==
  /\ provisioned = [g \in Groups |-> provisioned[g]]
  /\ savedNodes = [g \in Groups |-> savedNodes[g]]
  /\ NoNodeForgotten

\* The end of a call.  Where it does not write group_nodes, it only takes nodes
\* off the record.
LEMMA FinishKeepsRecords ==
  ASSUME RecordsInv, NEW t \in Calls, Finish(t)
  PROVE  RecordsInv'
<1> USE DEF RecordsInv, NoNodeForgotten
<1>1. CASE AddFinish(node(t), t)
  BY <1>1 DEF AddFinish
<1>2. CASE RemoveFinish(node(t), t)
  BY <1>2 DEF RemoveFinish
<1>3. CASE ResetFinish(node(t), t)
  BY <1>3 DEF ResetFinish
<1>4. QED
  BY <1>1, <1>2, <1>3 DEF Finish

\* group_key_set_remove.
LEMMA KeysetRemoveKeepsRecords ==
  ASSUME RecordsInv, NEW t \in Calls, NEW n, NEW k, KeysetRemove(t, n, k)
  PROVE  RecordsInv'
BY DEF KeysetRemove, RecordsInv, NoNodeForgotten

\* Every other step of a call leaves both records alone.
LEMMA StepKeepsRecords ==
  ASSUME RecordsInv, NEW t \in Calls, Begin(t) \/ Step(t)
  PROVE  RecordsInv'
<1>1. ASSUME UNCHANGED <<provisioned, savedNodes>> PROVE RecordsInv'
  BY <1>1 DEF RecordsInv, NoNodeForgotten
<1>2. ASSUME NEW n, NEW g, AddBegin(t, n, g) \/ RemoveBegin(t, n, g)
      PROVE  RecordsInv'
  BY <1>1, <1>2 DEF AddBegin, RemoveBegin, controllerVars
<1>3. ASSUME NEW n, NEW k, NEW g,
             RemoveAllBegin(t, n) \/ ResetBegin(t, n) \/ SetAcl(t, n) \/ KeysetAdd(t, n, k)
               \/ BindBegin(t, n, g, k) \/ SendBegin(t, g)
      PROVE  RecordsInv'
  BY <1>1, <1>3 DEF RemoveAllBegin, ResetBegin, SetAcl, KeysetAdd, BindBegin, SendBegin,
                    controllerVars
<1>4. CASE AddCapacity(t) \/ AddEvict(t) \/ AddKeyWrite(t) \/ AddReuse(t) \/ AddBindRead(t)
             \/ AddBindWrite(t) \/ AddGroup(t)
  BY <1>1, <1>4 DEF AddCapacity, AddEvict, AddKeyWrite, AddReuse, AddBindRead, AddBindWrite,
                    AddGroup, ReadMap, controllerVars
<1>5. CASE CleanRead(t) \/ CleanList(t) \/ CleanRemove(t)
  BY <1>1, <1>5 DEF CleanRead, CleanList, CleanRemove, ReadMap, controllerVars
<1>6. CASE RemoveDrop(t) \/ RemoveStripRead(t) \/ RemoveStripWrite(t) \/ ResetSweep(t)
             \/ ResetMapClear(t)
  BY <1>1, <1>6 DEF RemoveDrop, RemoveStripRead, RemoveStripWrite, ResetSweep, ResetMapClear,
                    ReadMap, controllerVars
<1>7. CASE SendRefresh(t) \/ BindWrite(t)
  BY <1>1, <1>7 DEF SendRefresh, BindWrite, controllerVars
<1>8. CASE AclRead(t) \/ AclWrite(t)
  BY <1>1, <1>8, FinishKeepsRecords DEF AclRead, AclWrite, controllerVars
<1>9. QED
  BY <1>2, <1>3, <1>4, <1>5, <1>6, <1>7, <1>8, KeysetRemoveKeepsRecords DEF Begin, Step

\* A node recorded for a group is recorded for it after a restart, whatever
\* exchanges fail, for any number of concurrent calls and of every kind.
THEOREM NodesAreNotForgotten == Spec => []NoNodeForgotten
<1>1. Init => RecordsInv
  BY DEF Init, RecordsInv, NoNodeForgotten
<1>2. RecordsInv /\ [Next]_vars => RecordsInv'
  <2> SUFFICES ASSUME RecordsInv, [Next]_vars PROVE RecordsInv'
    OBVIOUS
  <2>1. CASE Restart
    BY <2>1 DEF Restart, RecordsInv, NoNodeForgotten
  <2>2. CASE UNCHANGED vars
    BY <2>2 DEF vars, controllerVars, RecordsInv, NoNodeForgotten
  <2>3. QED
    BY <2>1, <2>2, StepKeepsRecords DEF Next
<1>3. RecordsInv => NoNodeForgotten
  BY DEF RecordsInv
<1>4. QED
  BY <1>1, <1>2, <1>3, PTL DEF Spec

-----------------------------------------------------------------------------
(* Types.  Besides its type, a call keeps to a shape: the parts of the code *)
(* it can be in and what it holds depend on the API command it runs.       *)

PcsOf(op) ==
  CASE op = "add" -> {"capacity", "evict", "write", "rewrite", "fallback", "bindRead",
                      "bindWrite", "addGroup", "cleanRead", "cleanList",
                      "cleanRemove", "aclRead", "aclWrite"}
    [] op \in {"remove", "removeall"} -> {"drop", "stripRead", "stripWrite", "cleanRead",
                      "cleanList", "cleanRemove", "aclRead", "aclWrite"}
    [] op = "reset" -> {"sweep", "mapClear", "aclRead", "aclWrite"}
    [] op = "send" -> {"refresh"}
    [] op = "bind" -> {"mapRead"}
    [] OTHER -> {"idle"}

Shape(t) ==
  LET c == call[t] IN
  /\ c.pc \in PcsOf(c.op)
  /\ c.op = "none" => c = Idle
  /\ c.op # "none" => c.op \in Operations /\ NodesOf(t) # {}
  /\ c.op \notin {"none", "send"} => c.node \in NodesOf(t)
  /\ c.op \in {"add", "bind"} => \E g \in Groups : c.targets = {g}
  /\ c.op \in {"add", "send"} => c.kid \in Kids /\ c.key \in Keys
  /\ c.op = "reset" => c.targets = Groups

TypeInv == /\ TypeOK /\ setting \in SettingTypes
           /\ \A t \in Calls : Shape(t)

LEMMA IdleType == Idle \in CallRecords
BY DEF Idle, CallRecords, Pcs, NoMap, Maps, NoKid, NoKey

\* A call that is not idle has a node of its caller's, a group command one group.
LEMMA ShapeFacts ==
  ASSUME TypeInv, NEW t \in Calls
  PROVE  /\ call[t] \in CallRecords /\ call[t].pc \in PcsOf(call[t].op)
         /\ NodesOf(t) \subseteq Nodes
         /\ call[t].pc \notin {"idle", "refresh"} => node(t) \in NodesOf(t)
         /\ call[t].pc = "idle" <=> call[t].op = "none"
         /\ call[t].op \in {"add", "bind"} => /\ TheGroup(t) \in Groups
                                              /\ call[t].targets = {TheGroup(t)}
<1>1. call[t] \in CallRecords /\ Shape(t) /\ call[t].pc \in PcsOf(call[t].op)
  BY DEF TypeInv, TypeOK, Shape
<1>2. NodesOf(t) \subseteq Nodes
  BY DEF TypeInv, SettingTypes, NodesOf
<1>3. call[t].pc \notin {"idle", "refresh"} => node(t) \in NodesOf(t)
  BY <1>1 DEF Shape, PcsOf, node
<1>4. call[t].pc = "idle" <=> call[t].op = "none"
  BY <1>1 DEF PcsOf, CallRecords, Pcs
<1>5. call[t].op \in {"add", "bind"} => /\ TheGroup(t) \in Groups
                                        /\ call[t].targets = {TheGroup(t)}
  BY <1>1 DEF Shape, TheGroup
<1>6. QED
  BY <1>1, <1>2, <1>3, <1>4, <1>5

CallsOK == call \in [Calls -> CallRecords] /\ \A t \in Calls : Shape(t)

\* A step of one call keeps the shape of all when it keeps that of its own.
LEMMA OneCallMoves ==
  ASSUME TypeInv, NEW t \in Calls, UNCHANGED setting,
         call' = [call EXCEPT ![t] = call'[t]], call'[t] \in CallRecords, Shape(t)'
  PROVE  CallsOK'
<1>1. call' \in [Calls -> CallRecords]
  BY DEF TypeInv, TypeOK
<1>2. ASSUME NEW u \in Calls PROVE Shape(u)'
  <2>1. CASE u # t
    BY <2>1, Shape(u) DEF TypeInv, TypeOK, Shape, NodesOf, Operations
  <2>2. QED
    BY <2>1
<1>3. QED
  BY <1>1, <1>2 DEF CallsOK

LEMMA ReturnType ==
  ASSUME TypeInv, NEW t \in Calls, UNCHANGED setting, Return(t)
  PROVE  CallsOK'
<1>1. call' = [call EXCEPT ![t] = Idle] /\ call'[t] = Idle
  BY DEF Return, TypeInv, TypeOK
<1>2. Shape(t)'
  BY <1>1 DEF Shape, PcsOf, Idle
<1>3. QED
  BY <1>1, <1>2, IdleType, OneCallMoves

LEMMA GotoType ==
  ASSUME TypeInv, NEW t \in Calls, NEW pc \in PcsOf(call[t].op), UNCHANGED setting,
         call[t].op # "none", Goto(t, pc)
  PROVE  CallsOK'
<1>1. /\ call' = [call EXCEPT ![t] = [call[t] EXCEPT !.pc = pc]]
      /\ call'[t] = [call[t] EXCEPT !.pc = pc]
  BY DEF Goto, TypeInv, TypeOK
<1>2. call[t] \in CallRecords /\ Shape(t)
  BY DEF TypeInv, TypeOK
<1>3. call'[t] \in CallRecords
  BY <1>1, <1>2 DEF CallRecords, PcsOf, Pcs
<1>4. Shape(t)'
  BY <1>1, <1>2 DEF Shape, NodesOf, Operations, CallRecords
<1>5. QED
  BY <1>1, <1>3, <1>4, OneCallMoves

LEMMA PcsType == ASSUME NEW op PROVE PcsOf(op) \subseteq Pcs
BY DEF PcsOf, Pcs

\* Where a call is tells which command it runs.
LEMMA OpOfPc ==
  ASSUME TypeInv, NEW t \in Calls
  PROVE  /\ call[t].pc \in {"capacity", "evict", "write", "rewrite", "fallback", "bindRead",
                            "bindWrite", "addGroup"} => call[t].op = "add"
         /\ call[t].pc \in {"cleanRead", "cleanList", "cleanRemove"} =>
              call[t].op \in {"add", "remove", "removeall"}
         /\ call[t].pc \in {"drop", "stripRead", "stripWrite"} =>
              call[t].op \in {"remove", "removeall"}
         /\ call[t].pc \in {"sweep", "mapClear"} => call[t].op = "reset"
         /\ call[t].pc = "refresh" => call[t].op = "send"
         /\ call[t].pc = "mapRead" => call[t].op = "bind"
         /\ call[t].pc \in {"aclRead", "aclWrite"} =>
              call[t].op \in {"add", "remove", "removeall", "reset"}
<1>1. call[t].op \in {"none", "add", "remove", "removeall", "reset", "send", "bind"}
  BY ShapeFacts DEF CallRecords
<1>2. QED
  BY <1>1, ShapeFacts DEF PcsOf

\* The end of a call keeps the types of the records.
LEMMA FinishTypes ==
  ASSUME TypeInv, NEW t \in Calls, Finish(t), node(t) \in Nodes
  PROVE  ControllerTypes'
<1> USE DEF ControllerTypes
<1>a. ControllerTypes
  BY DEF TypeInv, TypeOK
<1>1. CASE AddFinish(node(t), t)
  BY <1>a, <1>1 DEF AddFinish, Finish
<1>2. CASE RemoveFinish(node(t), t)
  BY <1>a, <1>2 DEF RemoveFinish, Finish
<1>3. CASE ResetFinish(node(t), t)
  BY <1>a, <1>3 DEF ResetFinish, Finish, Keysets
<1>4. QED
  BY <1>1, <1>2, <1>3 DEF Finish

\* A step of a running call that changes neither its command nor what it is for.
LEMMA SameCommand ==
  ASSUME TypeInv, NEW t \in Calls, UNCHANGED setting, call[t].op # "none",
         call' = [call EXCEPT ![t] = call'[t]], call'[t] \in CallRecords,
         call'[t].pc \in PcsOf(call[t].op), call'[t].op = call[t].op,
         call'[t].node = call[t].node, call'[t].targets = call[t].targets,
         call'[t].kid = call[t].kid, call'[t].key = call[t].key
  PROVE  CallsOK'
<1>1. Shape(t)'
  BY DEF TypeInv, Shape, NodesOf, Operations
<1>2. QED
  BY <1>1, OneCallMoves

\* Reading a device's GroupKeyMap keeps the types.
LEMMA ReadMapTypes ==
  ASSUME TypeInv, NEW t \in Calls, UNCHANGED setting, call[t].op # "none",
         node(t) \in Nodes, NEW pc \in PcsOf(call[t].op), ReadMap(t, pc)
  PROVE  CallsOK'
<1>1. PICK m \in Maps : call' = [call EXCEPT ![t].seenMap = m, ![t].pc = pc]
  <2>1. keyMap[node(t)] \in Maps /\ NoMap \in Maps
    BY DEF TypeInv, TypeOK, DeviceTypes, NoMap, Maps
  <2>2. QED
    BY <2>1 DEF ReadMap
<1>2. call \in [Calls -> CallRecords] /\ pc \in Pcs
  BY PcsType DEF TypeInv, TypeOK
<1>3. /\ call' = [call EXCEPT ![t] = call'[t]]
      /\ call'[t] = [call[t] EXCEPT !.seenMap = m, !.pc = pc]
  BY <1>1, <1>2
<1>4. call'[t] \in CallRecords
  BY <1>2, <1>3 DEF CallRecords
<1>5. QED
  BY <1>2, <1>3, <1>4, SameCommand DEF CallRecords

\* Writing a keyset keeps the types.
LEMMA WriteKeysetTypes ==
  ASSUME DeviceTypes, NEW n, NEW k, NEW v \in Keys \cup {NoKey}, WriteKeyset(n, k, v)
  PROVE  keyset' \in [Nodes -> [Kids -> Keys \cup {NoKey}]]
BY DEF DeviceTypes, WriteKeyset

\* What a running call does keeps the types.
LEMMA StepTypes ==
  ASSUME TypeInv, NEW t \in Calls, UNCHANGED setting, Step(t)
  PROVE  TypeInv'
<1> DEFINE n == node(t)
<1>a. ControllerTypes /\ DeviceTypes /\ setting' \in SettingTypes
  BY DEF TypeInv, TypeOK
<1>b. /\ call \in [Calls -> CallRecords] /\ call[t] \in CallRecords /\ Shape(t)
      /\ call[t].pc \notin {"idle", "refresh"} => n \in Nodes
      /\ call[t].op \in {"add", "bind"} => TheGroup(t) \in Groups
  BY ShapeFacts DEF TypeInv, TypeOK
<1>c. ASSUME ControllerTypes', DeviceTypes', CallsOK' PROVE TypeInv'
  BY <1>a, <1>c DEF TypeInv, TypeOK, CallsOK
<1>d. ASSUME call' = [call EXCEPT ![t] = call'[t]], call'[t] \in CallRecords, Shape(t)'
      PROVE  CallsOK'
  BY <1>d, OneCallMoves
<1>1. CASE AddCapacity(t)
  <2>1. ControllerTypes'
    BY <1>a, <1>1 DEF AddCapacity, ControllerTypes, controllerVars
  <2>2. DeviceTypes'
    BY <1>a, <1>1 DEF AddCapacity, DeviceTypes, deviceVars
  <2>3. CallsOK'
    <3>1. CASE \E oldest \in member[n] :
                 call' = [call EXCEPT ![t].pc = "evict", ![t].todo = {oldest}]
      <4>1. call[t].op = "add" /\ member[n] \subseteq Groups
        BY <1>1, <1>a, <1>b, OpOfPc DEF AddCapacity, At, DeviceTypes
      <4>2. PICK oldest \in Groups :
              call' = [call EXCEPT ![t].pc = "evict", ![t].todo = {oldest}]
        BY <3>1, <4>1
      <4>3. /\ call' = [call EXCEPT ![t] = call'[t]]
            /\ call'[t] = [call[t] EXCEPT !.pc = "evict", !.todo = {oldest}]
        BY <4>2, <1>b
      <4>4. "evict" \in PcsOf(call[t].op)
        BY <4>1 DEF PcsOf
      <4>5. "evict" \in Pcs /\ {oldest} \in SUBSET (Kids \cup Groups \cup Nodes)
        BY <4>4, PcsType
      <4>6. call'[t] \in CallRecords
        BY <4>3, <4>5, <1>b DEF CallRecords
      <4>7. QED
        BY <4>1, <4>3, <4>4, <4>6, <1>b, SameCommand DEF CallRecords
    <3>2. CASE Goto(t, "write") \/ Return(t)
      BY <1>1, <3>2, OpOfPc, GotoType, ReturnType DEF AddCapacity, At, PcsOf
    <3>3. QED
      BY <1>1, <3>1, <3>2 DEF AddCapacity
  <2>4. QED
    BY <1>c, <2>1, <2>2, <2>3
<1>2. CASE AddEvict(t)
  <2>1. ControllerTypes'
    BY <1>a, <1>2 DEF AddEvict, ControllerTypes, controllerVars
  <2>2. DeviceTypes'
    BY <1>a, <1>2, OpOfPc, <1>b DEF AddEvict, At, DeviceTypes, deviceVars
  <2>3. CallsOK'
    BY <1>2, OpOfPc, GotoType, ReturnType DEF AddEvict, At, PcsOf
  <2>4. QED
    BY <1>c, <2>1, <2>2, <2>3
<1>3. CASE AddKeyWrite(t)
  <2>1. ControllerTypes'
    BY <1>a, <1>3, OpOfPc, <1>b DEF AddKeyWrite, Note, At, Shape,
       ControllerTypes, controllerVars
  <2>2. DeviceTypes'
    BY <1>a, <1>3, OpOfPc, <1>b DEF AddKeyWrite, WriteKeyset, At, Shape,
       DeviceTypes, deviceVars
  <2>3. CallsOK'
    BY <1>3, OpOfPc, GotoType, ReturnType DEF AddKeyWrite, At, PcsOf
  <2>4. QED
    BY <1>c, <2>1, <2>2, <2>3
<1>4. CASE AddReuse(t)
  <2>1. CASE Return(t) /\ UNCHANGED <<keyStore, tracker>>
    <3>1. ControllerTypes' /\ DeviceTypes'
      BY <1>4, <2>1, <1>a DEF AddReuse, ControllerTypes, DeviceTypes, deviceVars
    <3>2. QED
      BY <2>1, <3>1, <1>c, ReturnType
  <2>2. CASE \E h \in Groups :
               /\ keyStore[h].kid \in StoreIds
               /\ keyStore' = [keyStore EXCEPT ![TheGroup(t)] = keyStore[h]]
               /\ Note(n, keyStore[h].kid)
               /\ call' = [call EXCEPT ![t].pc = "bindRead", ![t].kid = keyStore[h].kid,
                                       ![t].key = keyStore[h].key]
    <3>1. PICK h \in Groups :
               /\ keyStore[h].kid \in StoreIds
               /\ keyStore' = [keyStore EXCEPT ![TheGroup(t)] = keyStore[h]]
               /\ Note(n, keyStore[h].kid)
               /\ call' = [call EXCEPT ![t].pc = "bindRead", ![t].kid = keyStore[h].kid,
                                       ![t].key = keyStore[h].key]
      BY <2>2
    <3>2. /\ keyStore[h] \in Keysets
          /\ keyStore[h].kid \in Kids /\ keyStore[h].key \in Keys
      BY <3>1, <1>a DEF ControllerTypes, Keysets, StoreIds, NoKeyset
    <3>3. ControllerTypes' /\ DeviceTypes'
      BY <1>4, <3>1, <3>2, <1>a DEF AddReuse, Note, ControllerTypes, DeviceTypes, deviceVars
    <3>4. /\ call' = [call EXCEPT ![t] = call'[t]]
          /\ call'[t] = [call[t] EXCEPT !.pc = "bindRead", !.kid = keyStore[h].kid,
                                        !.key = keyStore[h].key]
      BY <3>1, <1>b
    <3>5. call'[t] \in CallRecords
      BY <3>2, <3>4, <1>b DEF CallRecords, Pcs
    <3>6. call[t].op = "add"
      BY <1>4, OpOfPc DEF AddReuse, At
    <3>7. Shape(t)'
      BY <3>2, <3>4, <3>6, <1>b DEF Shape, PcsOf, NodesOf, Operations, CallRecords
    <3>8. QED
      BY <1>c, <1>d, <3>3, <3>4, <3>5, <3>7
  <2>3. QED
    BY <1>4, <2>1, <2>2 DEF AddReuse
<1>5. CASE AddBindRead(t)
  <2>1. ControllerTypes'
    BY <1>a, <1>5, OpOfPc, <1>b DEF AddBindRead, ReadMap, ControllerTypes,
       controllerVars
  <2>2. DeviceTypes'
    BY <1>a, <1>5, OpOfPc, <1>b DEF AddBindRead, ReadMap, DeviceTypes,
       deviceVars
  <2>3. CallsOK'
    BY <1>5, <1>b, OpOfPc, ReadMapTypes DEF AddBindRead, At, PcsOf
  <2>4. QED
    BY <1>c, <2>1, <2>2, <2>3
<1>6. CASE AddBindWrite(t)
  <2>1. ControllerTypes'
    BY <1>a, <1>6 DEF AddBindWrite, ControllerTypes, controllerVars
  <2>2. DeviceTypes'
    <3>1. CASE UNCHANGED keyMap
      BY <1>a, <1>6, <3>1 DEF AddBindWrite, DeviceTypes
    <3>2. CASE keyMap' = [keyMap EXCEPT ![n] = [call[t].seenMap EXCEPT ![TheGroup(t)] = call[t].kid]]
      <4>1. [call[t].seenMap EXCEPT ![TheGroup(t)] = call[t].kid] \in Maps
        BY <1>b DEF CallRecords, Maps
      <4>2. QED
        BY <1>a, <1>6, <3>2, <4>1 DEF AddBindWrite, DeviceTypes
    <3>3. QED
      BY <1>6, <3>1, <3>2 DEF AddBindWrite
  <2>3. CallsOK'
    BY <1>6, OpOfPc, GotoType DEF AddBindWrite, At, PcsOf
  <2>4. QED
    BY <1>c, <2>1, <2>2, <2>3
<1>7. CASE AddGroup(t)
  <2>1. ControllerTypes'
    BY <1>a, <1>7 DEF AddGroup, ControllerTypes, controllerVars
  <2>2. DeviceTypes'
    BY <1>a, <1>7, OpOfPc, <1>b DEF AddGroup, At, CallRecords, DeviceTypes,
       deviceVars
  <2>3. CallsOK'
    BY <1>7, OpOfPc, GotoType, ReturnType DEF AddGroup, At, PcsOf
  <2>4. QED
    BY <1>c, <2>1, <2>2, <2>3
<1>8. CASE CleanRead(t)
  <2>1. ControllerTypes'
    BY <1>a, <1>8, OpOfPc, <1>b DEF CleanRead, ReadMap, ControllerTypes,
       controllerVars
  <2>2. DeviceTypes'
    BY <1>a, <1>8, OpOfPc, <1>b DEF CleanRead, ReadMap, DeviceTypes,
       deviceVars
  <2>3. CallsOK'
    BY <1>8, <1>b, OpOfPc, ReadMapTypes DEF CleanRead, At, PcsOf
  <2>4. QED
    BY <1>c, <2>1, <2>2, <2>3
<1>9. CASE CleanList(t)
  <2>1. ControllerTypes'
    BY <1>a, <1>9 DEF CleanList, ControllerTypes, controllerVars
  <2>2. DeviceTypes'
    BY <1>a, <1>9 DEF CleanList, DeviceTypes, deviceVars
  <2>3. CallsOK'
    <3>1. PICK todo \in SUBSET Kids :
            call' = [call EXCEPT ![t].todo = todo, ![t].cleaned = FALSE,
                       ![t].pc = IF todo = {} THEN AfterCleanup(t, FALSE) ELSE "cleanRemove"]
      <4>1. n \in Nodes
        BY <1>9, <1>b DEF CleanList, At
      <4>2. Installed(n) \subseteq Kids /\ tracker[n] \subseteq Kids
        BY <4>1, <1>a DEF Installed, ControllerTypes
      <4>3. (BruteForceRange \cap Kids) \cup StoreIds \subseteq Kids
        BY <1>a DEF StoreIds, ControllerTypes, Keysets, NoKeyset
      <4>4. \A exposed : Listed(n, exposed) \subseteq Kids
        BY <4>2, <4>3 DEF Listed
      <4>5. QED
        BY <1>9, <4>4 DEF CleanList
    <3>2. AfterCleanup(t, FALSE) \in PcsOf(call[t].op) /\ "cleanRemove" \in PcsOf(call[t].op)
      BY <1>9, <1>b, OpOfPc DEF CleanList, At, AfterCleanup, PcsOf
    <3>3. PICK pc \in PcsOf(call[t].op) :
            call' = [call EXCEPT ![t].todo = todo, ![t].cleaned = FALSE, ![t].pc = pc]
      BY <3>1, <3>2
    <3>4. /\ call' = [call EXCEPT ![t] = call'[t]]
          /\ call'[t] = [call[t] EXCEPT !.todo = todo, !.cleaned = FALSE, !.pc = pc]
      BY <3>3, <1>b
    <3>5. call'[t] \in CallRecords
      <4>1. pc \in Pcs /\ todo \in SUBSET (Kids \cup Groups \cup Nodes)
        BY <3>1, <3>3, <1>b, PcsType DEF CallRecords
      <4>2. QED
        BY <3>1, <3>4, <4>1, <1>b DEF CallRecords
    <3>6. call[t].op # "none"
      BY <1>9, OpOfPc DEF CleanList, At
    <3>7. QED
      BY <3>3, <3>4, <3>5, <3>6, <1>b, SameCommand DEF CallRecords
  <2>4. QED
    BY <1>c, <2>1, <2>2, <2>3
<1>10. CASE CleanRemove(t)
  <2>1. ControllerTypes'
    <3>1. PICK k : Forget(n, k) \/ UNCHANGED tracker
      BY <1>10 DEF CleanRemove
    <3>2. tracker' \in [Nodes -> SUBSET Kids]
      BY <1>a, <3>1 DEF Forget, ControllerTypes
    <3>3. QED
      BY <1>a, <1>10, <3>2 DEF CleanRemove, ControllerTypes
  <2>2. DeviceTypes'
    BY <1>a, <1>10, OpOfPc, <1>b, WriteKeysetTypes DEF CleanRemove, At,
       DeviceTypes, deviceVars
  <2>3. CallsOK'
    <3>1. PICK todo \in SUBSET call[t].todo, cleaned \in BOOLEAN :
            call' = [call EXCEPT ![t].todo = todo, ![t].cleaned = cleaned,
                       ![t].pc = IF todo = {} THEN AfterCleanup(t, cleaned) ELSE "cleanRemove"]
      <4>1. /\ call[t].pc = "cleanRemove" /\ call[t].cleaned \in BOOLEAN
            /\ \A k : call[t].todo \ {k} \in SUBSET call[t].todo
        BY <1>10, <1>b DEF CleanRemove, At, CallRecords
      <4>2. QED
        BY <1>10, <4>1 DEF CleanRemove
    <3>2. AfterCleanup(t, cleaned) \in PcsOf(call[t].op) /\ "cleanRemove" \in PcsOf(call[t].op)
      BY <1>10, <1>b, OpOfPc DEF CleanRemove, At, AfterCleanup, PcsOf
    <3>3. PICK pc \in PcsOf(call[t].op) :
            call' = [call EXCEPT ![t].todo = todo, ![t].cleaned = cleaned, ![t].pc = pc]
      BY <3>1, <3>2
    <3>4. /\ call' = [call EXCEPT ![t] = call'[t]]
          /\ call'[t] = [call[t] EXCEPT !.todo = todo, !.cleaned = cleaned, !.pc = pc]
      BY <3>3, <1>b
    <3>5. call'[t] \in CallRecords
      <4>1. pc \in Pcs /\ todo \in SUBSET (Kids \cup Groups \cup Nodes)
        BY <3>1, <3>3, <1>b, PcsType DEF CallRecords
      <4>2. QED
        BY <3>1, <3>4, <4>1, <1>b DEF CallRecords
    <3>6. call[t].op # "none"
      BY <1>10, OpOfPc DEF CleanRemove, At
    <3>7. QED
      BY <3>3, <3>4, <3>5, <3>6, <1>b, SameCommand DEF CallRecords
  <2>4. QED
    BY <1>c, <2>1, <2>2, <2>3
<1>11. CASE RemoveDrop(t)
  <2>1. ControllerTypes'
    BY <1>a, <1>11 DEF RemoveDrop, ControllerTypes, controllerVars
  <2>2. DeviceTypes'
    BY <1>a, <1>11, OpOfPc, <1>b DEF RemoveDrop, At, CallRecords, DeviceTypes,
       deviceVars
  <2>3. CallsOK'
    BY <1>11, OpOfPc, GotoType, ReturnType DEF RemoveDrop, At, PcsOf
  <2>4. QED
    BY <1>c, <2>1, <2>2, <2>3
<1>12. CASE RemoveStripRead(t)
  <2>1. ControllerTypes'
    BY <1>a, <1>12, OpOfPc, <1>b DEF RemoveStripRead, ReadMap,
       ControllerTypes, controllerVars
  <2>2. DeviceTypes'
    BY <1>a, <1>12, OpOfPc, <1>b DEF RemoveStripRead, ReadMap, DeviceTypes,
       deviceVars
  <2>3. CallsOK'
    BY <1>12, <1>b, OpOfPc, ReadMapTypes DEF RemoveStripRead, At, PcsOf
  <2>4. QED
    BY <1>c, <2>1, <2>2, <2>3
<1>13. CASE RemoveStripWrite(t)
  <2>1. ControllerTypes'
    BY <1>a, <1>13 DEF RemoveStripWrite, ControllerTypes, controllerVars
  <2>2. DeviceTypes'
    <3>1. CASE UNCHANGED keyMap
      BY <1>a, <1>13, <3>1 DEF RemoveStripWrite, DeviceTypes
    <3>2. CASE keyMap' = [keyMap EXCEPT ![n] = [g \in Groups |-> IF g \in call[t].targets THEN NoKid ELSE call[t].seenMap[g]]]
      <4>1. [g \in Groups |-> IF g \in call[t].targets THEN NoKid ELSE call[t].seenMap[g]] \in Maps
        BY <1>b DEF CallRecords, Maps
      <4>2. QED
        BY <1>a, <1>13, <3>2, <4>1 DEF RemoveStripWrite, DeviceTypes
    <3>3. QED
      BY <1>13, <3>1, <3>2 DEF RemoveStripWrite
  <2>3. CallsOK'
    BY <1>13, OpOfPc, GotoType, ReturnType DEF RemoveStripWrite, At, PcsOf
  <2>4. QED
    BY <1>c, <2>1, <2>2, <2>3
<1>14. CASE ResetSweep(t)
  <2>1. ControllerTypes'
    BY <1>a, <1>14 DEF ResetSweep, ControllerTypes, controllerVars
  <2>2. DeviceTypes'
    BY <1>a, <1>14, OpOfPc, <1>b, WriteKeysetTypes DEF ResetSweep, At,
       DeviceTypes, deviceVars
  <2>3. CallsOK'
    <3>1. CASE Goto(t, "mapClear")
      BY <1>14, <3>1, OpOfPc, GotoType DEF ResetSweep, At, PcsOf
    <3>2. CASE \E todo \in SUBSET call[t].todo :
                 call' = [call EXCEPT ![t].todo = todo]
      <4>1. PICK todo \in SUBSET call[t].todo : call' = [call EXCEPT ![t].todo = todo]
        BY <3>2
      <4>2. /\ call' = [call EXCEPT ![t] = call'[t]]
            /\ call'[t] = [call[t] EXCEPT !.todo = todo]
        BY <4>1, <1>b
      <4>3. call'[t] \in CallRecords /\ call[t].op # "none" /\ call[t].pc \in PcsOf(call[t].op)
        BY <1>14, <4>2, <1>b, OpOfPc DEF CallRecords, ResetSweep, At, Shape
      <4>4. QED
        BY <4>2, <4>3, <1>b, SameCommand DEF CallRecords
    <3>3. QED
      BY <1>14, <3>1, <3>2 DEF ResetSweep
  <2>4. QED
    BY <1>c, <2>1, <2>2, <2>3
<1>15. CASE ResetMapClear(t)
  <2>1. ControllerTypes'
    BY <1>a, <1>15 DEF ResetMapClear, ControllerTypes, controllerVars
  <2>2. DeviceTypes'
    BY <1>a, <1>15, OpOfPc, <1>b DEF ResetMapClear, NoMap, Maps, DeviceTypes,
       deviceVars
  <2>3. CallsOK'
    BY <1>15, OpOfPc, GotoType, ReturnType DEF ResetMapClear, At, PcsOf
  <2>4. QED
    BY <1>c, <2>1, <2>2, <2>3
<1>16. CASE AclRead(t) /\ ~Finish(t)
  <2>1. ControllerTypes'
    BY <1>a, <1>16 DEF AclRead, ControllerTypes, controllerVars
  <2>2. DeviceTypes'
    BY <1>a, <1>16 DEF AclRead, DeviceTypes, deviceVars
  <2>3. CallsOK'
    <3>1. call' = [call EXCEPT ![t].pc = "aclWrite", ![t].seenAcl = acl[n]]
      BY <1>16 DEF AclRead
    <3>2. acl[n] \subseteq Groups /\ "aclWrite" \in PcsOf(call[t].op)
      BY <1>16, <1>a, <1>b, OpOfPc DEF AclRead, At, DeviceTypes, PcsOf
    <3>3. /\ call' = [call EXCEPT ![t] = call'[t]]
          /\ call'[t] = [call[t] EXCEPT !.pc = "aclWrite", !.seenAcl = acl[n]]
      BY <3>1, <1>b
    <3>4. call'[t] \in CallRecords
      <4>1. "aclWrite" \in Pcs /\ acl[n] \in SUBSET Groups
        BY <3>2 DEF Pcs
      <4>2. QED
        BY <3>3, <4>1, <1>b DEF CallRecords
    <3>5. call[t].op # "none"
      BY <1>16, OpOfPc DEF AclRead, At
    <3>6. QED
      BY <3>2, <3>3, <3>4, <3>5, <1>b, SameCommand DEF CallRecords
  <2>4. QED
    BY <1>c, <2>1, <2>2, <2>3
<1>17. CASE (AclRead(t) \/ AclWrite(t)) /\ Finish(t)
  <2>1. ControllerTypes'
    BY <1>17, <1>b, FinishTypes DEF AclRead, AclWrite, At
  <2>2. DeviceTypes'
    <3>1. WantedAcl(t, call[t].seenAcl) \subseteq Groups
      BY <1>b DEF WantedAcl, CallRecords
    <3>2. QED
      BY <1>a, <1>17, <3>1 DEF AclRead, AclWrite, DeviceTypes, deviceVars
  <2>3. CallsOK'
    BY <1>17, ReturnType DEF Finish
  <2>4. QED
    BY <1>c, <2>1, <2>2, <2>3
<1>18. CASE SendRefresh(t)
  <2>1. ControllerTypes'
    BY <1>a, <1>18, <1>b, OpOfPc DEF SendRefresh, Note, At, Shape, ControllerTypes
  <2>2. DeviceTypes'
    <3>1. call[t].key \in Keys
      BY <1>18, <1>b, OpOfPc DEF SendRefresh, At, Shape
    <3>2. PICK m : WriteKeyset(m, call[t].kid, call[t].key) \/ UNCHANGED keyset
      BY <1>18 DEF SendRefresh
    <3>3. keyset' \in [Nodes -> [Kids -> Keys \cup {NoKey}]]
      BY <1>a, <3>1, <3>2, WriteKeysetTypes DEF DeviceTypes
    <3>4. QED
      BY <1>a, <1>18, <3>3 DEF SendRefresh, DeviceTypes
  <2>3. CallsOK'
    <3>1. CASE Return(t)
      BY <3>1, ReturnType
    <3>2. CASE \E todo \in SUBSET call[t].todo :
                 call' = [call EXCEPT ![t].todo = todo]
      <4>1. PICK todo \in SUBSET call[t].todo : call' = [call EXCEPT ![t].todo = todo]
        BY <3>2
      <4>2. /\ call' = [call EXCEPT ![t] = call'[t]]
            /\ call'[t] = [call[t] EXCEPT !.todo = todo]
        BY <4>1, <1>b
      <4>3. call'[t] \in CallRecords /\ call[t].op # "none" /\ call[t].pc \in PcsOf(call[t].op)
        BY <1>18, <4>2, <1>b, OpOfPc DEF CallRecords, SendRefresh, At, Shape
      <4>4. QED
        BY <4>2, <4>3, <1>b, SameCommand DEF CallRecords
    <3>3. QED
      BY <1>18, <3>1, <3>2, <1>b DEF SendRefresh, Return
  <2>4. QED
    BY <1>c, <2>1, <2>2, <2>3
<1>19. CASE BindWrite(t)
  <2>1. ControllerTypes'
    BY <1>a, <1>19 DEF BindWrite, ControllerTypes, controllerVars
  <2>2. DeviceTypes'
    <3>1. CASE UNCHANGED keyMap
      BY <1>a, <1>19, <3>1 DEF BindWrite, DeviceTypes
    <3>2. CASE keyMap' = [keyMap EXCEPT ![n] = [call[t].seenMap EXCEPT ![TheGroup(t)] = call[t].kid]]
      <4>1. [call[t].seenMap EXCEPT ![TheGroup(t)] = call[t].kid] \in Maps
        BY <1>b DEF CallRecords, Maps
      <4>2. QED
        BY <1>a, <1>19, <3>2, <4>1 DEF BindWrite, DeviceTypes
    <3>3. QED
      BY <1>19, <3>1, <3>2 DEF BindWrite
  <2>3. CallsOK'
    BY <1>19, ReturnType DEF BindWrite
  <2>4. QED
    BY <1>c, <2>1, <2>2, <2>3
<1>20. QED
  BY <1>1, <1>2, <1>3, <1>4, <1>5, <1>6, <1>7, <1>8, <1>9, <1>10, <1>11, <1>12, <1>13, <1>14, <1>15, <1>16, <1>17, <1>18, <1>19 DEF Step, AclWrite

\* A new call is idle but for what its beginning sets.
LEMMA BeginCall ==
  ASSUME TypeInv, NEW t \in Calls, UNCHANGED setting, NEW c \in CallRecords,
         call' = [call EXCEPT ![t] = c], c.pc \in PcsOf(c.op), c.op \in Operations,
         NodesOf(t) # {}, c.op # "send" => c.node \in NodesOf(t),
         c.op \in {"add", "bind"} => \E g \in Groups : c.targets = {g},
         c.op \in {"add", "send"} => c.kid \in Kids /\ c.key \in Keys,
         c.op = "reset" => c.targets = Groups, c.op # "none"
  PROVE  CallsOK'
<1>1. call'[t] = c
  BY DEF TypeInv, TypeOK
<1>2. Shape(t)'
  BY <1>1 DEF Shape, NodesOf, Operations
<1>3. QED
  BY <1>1, <1>2, OneCallMoves

\* So does the beginning of a call.
LEMMA BeginTypes ==
  ASSUME TypeInv, NEW t \in Calls, UNCHANGED setting, Begin(t)
  PROVE  TypeInv'
<1>a. ControllerTypes /\ DeviceTypes /\ setting' \in SettingTypes
  BY DEF TypeInv, TypeOK
<1>b. NodesOf(t) \subseteq Nodes
  BY ShapeFacts
<1>c. ASSUME ControllerTypes', DeviceTypes', CallsOK' PROVE TypeInv'
  BY <1>a, <1>c DEF TypeInv, TypeOK, CallsOK
<1>d. ASSUME UNCHANGED call PROVE CallsOK'
  BY <1>d DEF CallsOK, TypeInv, TypeOK, Shape, NodesOf, Operations
<1>1. ASSUME NEW n \in NodesOf(t), NEW g \in Groups, AddBegin(t, n, g)
      PROVE  TypeInv'
  <2> DEFINE ks == IF keyStore[g] = NoKeyset THEN [kid |-> KeysetId(g), key |-> lastKey + 1]
                                             ELSE keyStore[g]
             c == [Idle EXCEPT !.pc = "capacity", !.op = "add", !.node = n,
                               !.targets = {g}, !.kid = ks.kid, !.key = ks.key]
  <2>1. /\ ks \in [kid : Kids, key : Keys]
        /\ keyStore' = [keyStore EXCEPT ![g] = ks] /\ call' = [call EXCEPT ![t] = c]
    <3>1. keyStore[g] # NoKeyset => keyStore[g] \in [kid : Kids, key : Keys]
      BY <1>a DEF ControllerTypes, Keysets
    <3>2. keyStore[g] = NoKeyset => lastKey + 1 \in Keys /\ KeysetId(g) \in Kids
      BY <1>1, <1>a, GroupsAssumption DEF AddBegin, ControllerTypes, SettingTypes, Keys,
         Kids, TypeInv
    <3>3. QED
      BY <1>1, <3>1, <3>2 DEF AddBegin
  <2>2. lastKey' \in 0..MaxKey
    BY <1>1, <1>a, GroupsAssumption DEF AddBegin, ControllerTypes, SettingTypes, TypeInv
  <2>3. ControllerTypes' /\ DeviceTypes'
    BY <1>1, <1>a, <2>1, <2>2 DEF AddBegin, ControllerTypes, DeviceTypes, Keysets, deviceVars
  <2>4. CallsOK'
    <3>a. ks.kid \in Kids /\ ks.key \in Keys
      BY <2>1
    <3> HIDE DEF ks
    <3>1. /\ c \in CallRecords
          /\ c.op = "add" /\ c.pc = "capacity" /\ c.node = n /\ c.targets = {g}
          /\ c.kid \in Kids /\ c.key \in Keys
      BY <3>a, <1>b, IdleType DEF CallRecords, Pcs
    <3>2. "capacity" \in PcsOf("add") /\ "add" \in Operations
      BY <1>1 DEF PcsOf, AddBegin
    <3>3. QED
      BY <2>1, <3>1, <3>2, BeginCall
  <2>5. QED
    BY <1>c, <2>3, <2>4
<1>2. ASSUME NEW n \in NodesOf(t), NEW g \in Groups, RemoveBegin(t, n, g)
      PROVE  TypeInv'
  <2> DEFINE c == [Idle EXCEPT !.pc = "drop", !.op = "remove", !.node = n, !.targets = {g}]
  <2>1. /\ c \in CallRecords
        /\ c.op = "remove" /\ c.pc = "drop" /\ c.node = n
    BY <1>b, IdleType DEF CallRecords, Pcs
  <2>2. "drop" \in PcsOf("remove") /\ "remove" \in Operations
    BY <1>2 DEF PcsOf, RemoveBegin
  <2>3. CallsOK'
    BY <1>2, <2>1, <2>2, BeginCall DEF RemoveBegin
  <2>4. QED
    BY <1>2, <1>a, <1>c, <2>3 DEF RemoveBegin, ControllerTypes, DeviceTypes, controllerVars,
       deviceVars
<1>3. ASSUME NEW n \in NodesOf(t), RemoveAllBegin(t, n)
      PROVE  TypeInv'
  <2>1. PICK listed \in SUBSET Groups, pc \in {"cleanRead", "drop"} :
          call' = [call EXCEPT ![t] = [Idle EXCEPT
                     !.pc = pc, !.op = "removeall", !.node = n, !.targets = listed]]
    BY <1>3, <1>a, <1>b DEF RemoveAllBegin, DeviceTypes
  <2> DEFINE c == [Idle EXCEPT !.pc = pc, !.op = "removeall", !.node = n, !.targets = listed]
  <2>2. /\ c \in CallRecords
        /\ c.op = "removeall" /\ c.pc = pc /\ c.node = n
    BY <1>b, IdleType DEF CallRecords, Pcs
  <2>3. pc \in PcsOf("removeall") /\ "removeall" \in Operations
    BY <1>3 DEF PcsOf, RemoveAllBegin
  <2>4. CallsOK'
    BY <2>1, <2>2, <2>3, BeginCall
  <2>5. QED
    BY <1>3, <1>a, <1>c, <2>4 DEF RemoveAllBegin, ControllerTypes, DeviceTypes,
       controllerVars, deviceVars
<1>4. ASSUME NEW n \in NodesOf(t), ResetBegin(t, n)
      PROVE  TypeInv'
  <2>1. PICK todo \in SUBSET Kids :
          call' = [call EXCEPT ![t] = [Idle EXCEPT
             !.pc = "sweep", !.op = "reset", !.node = n, !.targets = Groups, !.todo = todo]]
    <3>1. tracker[n] \subseteq Kids /\ \A g \in Groups : keyStore[g].kid \in Kids \cup {NoKid}
      BY <1>a, <1>b DEF ControllerTypes, Keysets, NoKeyset
    <3>2. QED
      BY <1>4, <3>1 DEF ResetBegin
  <2> DEFINE c == [Idle EXCEPT !.pc = "sweep", !.op = "reset", !.node = n,
                               !.targets = Groups, !.todo = todo]
  <2>2. /\ c \in CallRecords
        /\ c.op = "reset" /\ c.pc = "sweep" /\ c.node = n /\ c.targets = Groups
    BY <1>b, IdleType DEF CallRecords, Pcs
  <2>3. "sweep" \in PcsOf("reset") /\ "reset" \in Operations
    BY <1>4 DEF PcsOf, ResetBegin
  <2>4. CallsOK'
    BY <2>1, <2>2, <2>3, BeginCall
  <2>5. QED
    BY <1>4, <1>a, <1>c, <2>4 DEF ResetBegin, ControllerTypes, DeviceTypes,
       controllerVars, deviceVars
<1>5. ASSUME NEW n \in NodesOf(t), NEW k \in Kids, KeysetRemove(t, n, k)
      PROVE  TypeInv'
  <2>1. CallsOK'
    BY <1>5, <1>d DEF KeysetRemove
  <2>2. DeviceTypes'
    BY <1>5, <1>a, WriteKeysetTypes DEF KeysetRemove, DeviceTypes
  <2>3. ControllerTypes'
    BY <1>5, <1>a DEF KeysetRemove, ControllerTypes, Forget, Keysets
  <2>4. QED
    BY <1>c, <2>1, <2>2, <2>3
<1>6. ASSUME NEW g \in Groups, SendBegin(t, g)
      PROVE  TypeInv'
  <2> DEFINE c == [Idle EXCEPT !.pc = "refresh", !.op = "send", !.kid = keyStore[g].kid,
                               !.key = keyStore[g].key, !.todo = provisioned[g]]
  <2>1. keyStore[g] \in [kid : Kids, key : Keys] /\ provisioned[g] \subseteq Nodes
    BY <1>6, <1>a DEF SendBegin, ControllerTypes, Keysets
  <2>2. /\ c \in CallRecords
        /\ c.op = "send" /\ c.pc = "refresh" /\ c.kid \in Kids /\ c.key \in Keys
    BY <2>1, IdleType DEF CallRecords, Pcs
  <2>3. "refresh" \in PcsOf("send") /\ "send" \in Operations /\ NodesOf(t) # {}
    BY <1>6 DEF PcsOf, SendBegin
  <2>4. CallsOK'
    BY <1>6, <2>2, <2>3, BeginCall DEF SendBegin
  <2>5. QED
    BY <1>6, <1>a, <1>c, <2>4 DEF SendBegin, ControllerTypes, DeviceTypes,
       controllerVars, deviceVars
<1>7. ASSUME NEW n \in NodesOf(t), NEW k \in Kids, KeysetAdd(t, n, k)
      PROVE  TypeInv'
  <2>1. CallsOK'
    BY <1>7, <1>d DEF KeysetAdd
  <2>2. PICK key \in Keys : WriteKeyset(n, k, key)
    BY <1>7, <1>a, GroupsAssumption DEF KeysetAdd, ControllerTypes, Keys
  <2>3. DeviceTypes'
    BY <1>7, <2>2, <1>a, WriteKeysetTypes DEF KeysetAdd, DeviceTypes
  <2>4. ControllerTypes'
    BY <1>7, <1>a DEF KeysetAdd, ControllerTypes, Note
  <2>5. QED
    BY <1>c, <2>1, <2>3, <2>4
<1>8. ASSUME NEW n \in NodesOf(t), NEW k \in Kids, NEW g \in Groups, BindBegin(t, n, g, k)
      PROVE  TypeInv'
  <2> DEFINE c == [Idle EXCEPT !.pc = "mapRead", !.op = "bind", !.node = n,
                               !.targets = {g}, !.kid = k, !.seenMap = keyMap[n]]
  <2>1. /\ c \in CallRecords
        /\ c.op = "bind" /\ c.pc = "mapRead" /\ c.node = n /\ c.targets = {g}
    BY <1>a, <1>b, IdleType DEF CallRecords, Pcs, DeviceTypes
  <2>2. "mapRead" \in PcsOf("bind") /\ "bind" \in Operations
    BY <1>8 DEF PcsOf, BindBegin
  <2>3. CallsOK'
    BY <1>8, <2>1, <2>2, BeginCall DEF BindBegin
  <2>4. QED
    BY <1>8, <1>a, <1>c, <2>3 DEF BindBegin, ControllerTypes, DeviceTypes,
       controllerVars, deviceVars
<1>9. ASSUME NEW n \in NodesOf(t), SetAcl(t, n)
      PROVE  TypeInv'
  <2>1. CallsOK'
    BY <1>9, <1>d DEF SetAcl
  <2>2. QED
    BY <1>9, <1>a, <1>c, <2>1 DEF SetAcl, ControllerTypes, DeviceTypes, controllerVars
<1>10. QED
  BY <1>1, <1>2, <1>3, <1>4, <1>5, <1>6, <1>7, <1>8, <1>9 DEF Begin

LEMMA TypeStart == Init => TypeInv
<1> SUFFICES ASSUME Init PROVE TypeInv
  OBVIOUS
<1>1. ControllerTypes
  BY GroupsAssumption DEF Init, ControllerTypes, Keysets
<1>2. DeviceTypes
  BY DEF Init, DeviceTypes, NoMap, Maps
<1>3. call \in [Calls -> CallRecords]
  BY IdleType DEF Init
<1>4. \A t \in Calls : Shape(t)
  BY DEF Init, Shape, Idle, PcsOf
<1>5. setting \in SettingTypes
  BY GroupsAssumption DEF Init
<1>6. QED
  BY <1>1, <1>2, <1>3, <1>4, <1>5 DEF TypeInv, TypeOK

LEMMA TypeStep == TypeInv /\ [Next]_vars => TypeInv'
<1> SUFFICES ASSUME TypeInv, [Next]_vars PROVE TypeInv'
  OBVIOUS
<1>1. CASE Next /\ Restart
  <2>1. ControllerTypes' /\ DeviceTypes' /\ setting' \in SettingTypes
    BY <1>1 DEF Next, Restart, TypeInv, TypeOK, ControllerTypes, DeviceTypes, deviceVars
  <2>2. call' \in [Calls -> CallRecords]
    BY <1>1, IdleType DEF Restart
  <2>3. \A t \in Calls : Shape(t)'
    BY <1>1 DEF Restart, Shape, Idle, PcsOf
  <2>4. QED
    BY <2>1, <2>2, <2>3 DEF TypeInv, TypeOK
<1>2. CASE Next /\ ~Restart
  BY <1>2, StepTypes, BeginTypes DEF Next
<1>3. CASE UNCHANGED vars
  BY <1>3 DEF vars, controllerVars, deviceVars, TypeInv, TypeOK, ControllerTypes,
     DeviceTypes, Shape, NodesOf, Operations
<1>4. QED
  BY <1>1, <1>2, <1>3

LEMMA TypeInvariance == Spec => []TypeInv
BY TypeStart, TypeStep, PTL DEF Spec

\* Every variable keeps its type in every network, whatever fails and restarts.
THEOREM GroupTypes == Spec => []TypeOK
<1>1. TypeInv => TypeOK
  BY DEF TypeInv
<1>2. QED
  BY <1>1, TypeInvariance, PTL

-----------------------------------------------------------------------------
(* What holds of every network.                                            *)

\* A step that leaves both records alone, or ends a call.
LEMMA KeyStep ==
  ASSUME TypeInv, NEW t \in Calls, UNCHANGED setting, Begin(t) \/ Step(t),
         NEW g \in Groups, HasKey(g)
  PROVE  HasKey(g)' \/ (Adding(g) /\ keyStore[g] = NoKeyset)
<1> USE DEF HasKey
<1>a. ControllerTypes
  BY DEF TypeInv, TypeOK
<1>1. CASE UNCHANGED <<keyStore, provisioned>>
  BY <1>1
<1>2. CASE Finish(t) /\ call[t].op = "add"
  <2>1. AddFinish(node(t), t)
    BY <1>2 DEF Finish
  <2>2. TheGroup(t) \in call[t].targets
    BY <1>2, ShapeFacts
  <2>3. CASE g = TheGroup(t)
    BY <1>2, <2>1, <2>2, <2>3 DEF AddFinish, Adding
  <2>4. CASE g # TheGroup(t)
    BY <1>a, <2>1, <2>4 DEF AddFinish, ControllerTypes
  <2>5. QED
    BY <2>3, <2>4
<1>3. CASE Finish(t) /\ call[t].op = "reset"
  BY <1>3 DEF Finish, ResetFinish
<1>4. CASE Finish(t) /\ call[t].op \notin {"add", "reset"}
  BY <1>4 DEF Finish, RemoveFinish
<1>5. ASSUME NEW n \in NodesOf(t), NEW k \in Kids, KeysetRemove(t, n, k)
      PROVE  HasKey(g)'
  BY <1>5 DEF KeysetRemove
<1>6. ASSUME NEW n \in NodesOf(t), NEW h \in Groups, AddBegin(t, n, h)
      PROVE  HasKey(g)'
  BY <1>6, <1>a DEF AddBegin, ControllerTypes, NoKeyset, NoKey, Keysets, Keys
<1>7. CASE AddReuse(t)
  <2>1. CASE UNCHANGED keyStore
    BY <1>7, <2>1 DEF AddReuse
  <2>2. CASE \E h \in Groups : /\ keyStore[h].kid \in StoreIds
                               /\ keyStore' = [keyStore EXCEPT ![TheGroup(t)] = keyStore[h]]
    <3>1. PICK h \in Groups : /\ keyStore[h].kid \in StoreIds
                              /\ keyStore' = [keyStore EXCEPT ![TheGroup(t)] = keyStore[h]]
      BY <2>2
    <3>2. keyStore[h] # NoKeyset
      BY <3>1 DEF StoreIds, NoKeyset
    <3>3. QED
      BY <1>7, <1>a, <3>1, <3>2 DEF AddReuse, ControllerTypes
  <2>3. QED
    BY <1>7, <2>1, <2>2 DEF AddReuse
<1>8. CASE Begin(t)
  BY <1>1, <1>5, <1>6, <1>8 DEF Begin, RemoveBegin, RemoveAllBegin, ResetBegin, SetAcl,
     KeysetAdd, BindBegin, SendBegin, controllerVars
<1>9. CASE Step(t) /\ ~AclRead(t) /\ ~AclWrite(t) /\ ~AddReuse(t)
  <2>1. UNCHANGED <<keyStore, provisioned>>
    BY <1>9 DEF Step, AddCapacity, AddEvict, AddKeyWrite, AddBindRead, AddBindWrite, AddGroup,
       CleanRead, CleanList, CleanRemove, ReadMap, RemoveDrop, RemoveStripRead,
       RemoveStripWrite, ResetSweep, ResetMapClear, SendRefresh, BindWrite, controllerVars
  <2>2. QED
    BY <1>1, <2>1
<1>10. CASE AclRead(t) \/ AclWrite(t)
  <2>1. CASE Finish(t)
    BY <2>1, <1>2, <1>3, <1>4
  <2>2. CASE ~Finish(t)
    BY <1>10, <2>2, <1>1 DEF AclRead, AclWrite, controllerVars
  <2>3. QED
    BY <2>1, <2>2
<1>11. QED
  BY <1>7, <1>8, <1>9, <1>10

\* A group loses its key only with its last node, whatever fails and however
\* calls for any nodes interleave.
THEOREM KeysOutliveNodes == Spec => ProvisionedHasKey
<1>1. TypeInv /\ Next => \A g \in Groups :
        HasKey(g) /\ ~Restart => HasKey(g)' \/ (Adding(g) /\ keyStore[g] = NoKeyset)
  BY KeyStep DEF Next
<1>2. TypeInv /\ [Next]_vars =>
        [\A g \in Groups :
          HasKey(g) /\ ~Restart => HasKey(g)' \/ (Adding(g) /\ keyStore[g] = NoKeyset)]_vars
  BY <1>1
<1>3. QED
  BY <1>2, TypeInvariance, PTL DEF Spec, ProvisionedHasKey

\* The stages are numbered in the order of the list.
LEMMA StageNumbers == \A i \in 1..21 : StageOf[Stages[i]] = i
<1>1. DOMAIN Stages = 1..21
  BY DEF Stages
<1>2. \A i, j \in 1..21 : Stages[i] = Stages[j] => i = j
  BY DEF Stages
<1>3. QED
  BY <1>1, <1>2 DEF StageOf

LEMMA StageOfPc ==
  /\ StageOf["idle"] = 1 /\ StageOf["refresh"] = 2 /\ StageOf["mapRead"] = 3
  /\ StageOf["aclWrite"] = 4 /\ StageOf["aclRead"] = 5 /\ StageOf["mapClear"] = 6
  /\ StageOf["sweep"] = 7 /\ StageOf["addGroup"] = 8 /\ StageOf["bindWrite"] = 9
  /\ StageOf["bindRead"] = 10 /\ StageOf["fallback"] = 11 /\ StageOf["rewrite"] = 12
  /\ StageOf["cleanRemove"] = 13 /\ StageOf["cleanList"] = 14
  /\ StageOf["cleanRead"] = 15 /\ StageOf["stripWrite"] = 16
  /\ StageOf["stripRead"] = 17 /\ StageOf["drop"] = 18 /\ StageOf["write"] = 19
  /\ StageOf["evict"] = 20 /\ StageOf["capacity"] = 21
<1> DEFINE s(i) == StageOf[Stages[i]] = i
<1>1. /\ s(1) /\ s(2) /\ s(3) /\ s(4) /\ s(5) /\ s(6) /\ s(7) /\ s(8) /\ s(9) /\ s(10)
      /\ s(11) /\ s(12) /\ s(13) /\ s(14) /\ s(15) /\ s(16) /\ s(17) /\ s(18) /\ s(19)
      /\ s(20) /\ s(21)
  BY StageNumbers
<1>2. QED
  BY <1>1 DEF Stages

LEMMA FiniteIds == IsFiniteSet(Groups) /\ IsFiniteSet(Kids)
<1>1. IsFiniteSet(Groups)
  <2>1. LastGroupId \in Int
    BY DEF LastGroupId
  <2>2. IsFiniteSet(1..LastGroupId)
    BY <2>1, FS_Interval
  <2>3. QED
    BY <2>2, GroupsAssumption, FS_Subset
<1>2. IsFiniteSet(Kids)
  <2> DEFINE f == [g \in Groups |-> KeysetId(g)]
  <2>1. f \in Surjection(Groups, Kids)
    BY DEF Kids, Surjection
  <2>2. QED
    BY <1>1, <2>1, FS_Surjection
<1>3. QED
  BY <1>1, <1>2

\* What a call has on its list is finite, and taking one off makes it shorter.
LEMMA ListShrinks ==
  ASSUME TypeInv, NEW t \in Calls
  PROVE  /\ Cardinality(call[t].todo) \in Nat
         /\ \A x \in call[t].todo :
              Cardinality(call[t].todo \ {x}) < Cardinality(call[t].todo)
<1>1. IsFiniteSet(Groups) /\ IsFiniteSet(Kids)
  BY FiniteIds
<1>3. IsFiniteSet(Kids \cup Groups \cup Nodes)
  BY <1>1, GroupsAssumption, FS_Union
<1>4. call[t].todo \in SUBSET (Kids \cup Groups \cup Nodes)
  BY ShapeFacts DEF CallRecords
<1>5. IsFiniteSet(call[t].todo)
  BY <1>3, <1>4, FS_Subset
<1>6. Cardinality(call[t].todo) \in Nat
  BY <1>5, FS_CardinalityType
<1>7. ASSUME NEW x \in call[t].todo
      PROVE  Cardinality(call[t].todo \ {x}) < Cardinality(call[t].todo)
  <2>1. Cardinality(call[t].todo \ {x}) = Cardinality(call[t].todo) - 1
    BY <1>5, FS_RemoveElement
  <2>2. QED
    BY <1>6, <2>1
<1>8. QED
  BY <1>6, <1>7

\* A step that takes a call to a later part of the code advances it.
LEMMA LaterStage ==
  ASSUME TypeInv, NEW t \in Calls, StageOf[call'[t].pc] < StageOf[call[t].pc]
  PROVE  Less(Left(call'[t]), Left(call[t]))
BY DEF Less, Left

LEMMA ShorterList ==
  ASSUME TypeInv, NEW t \in Calls, call'[t].pc = call[t].pc,
         NEW x \in call[t].todo, call'[t].todo = call[t].todo \ {x}
  PROVE  Less(Left(call'[t]), Left(call[t]))
BY ListShrinks DEF Less, Left

LEMMA StepAdvances ==
  ASSUME TypeInv, NEW t \in Calls, Step(t)
  PROVE  /\ Less(Left(call'[t]), Left(call[t]))
         /\ \A u \in Calls : u # t => call'[u] = call[u]
<1>a. call \in [Calls -> CallRecords] /\ call[t] \in CallRecords
  BY DEF TypeInv, TypeOK
<1>b. ASSUME NEW c, call' = [call EXCEPT ![t] = c]
      PROVE  /\ call'[t] = c
             /\ \A u \in Calls : u # t => call'[u] = call[u]
  BY <1>a, <1>b
<1>c. ASSUME NEW pc, Goto(t, pc)
      PROVE  /\ call'[t].pc = pc
             /\ \A u \in Calls : u # t => call'[u] = call[u]
  BY <1>a, <1>c DEF Goto, CallRecords
<1>d. ASSUME Return(t)
      PROVE  /\ call'[t].pc = "idle"
             /\ \A u \in Calls : u # t => call'[u] = call[u]
  BY <1>a, <1>d DEF Return, Idle
<1>1. CASE AddCapacity(t)
  BY <1>1, <1>a, <1>c, <1>d, LaterStage, StageOfPc DEF AddCapacity, At, CallRecords
<1>2. CASE AddEvict(t)
  BY <1>2, <1>a, <1>c, <1>d, LaterStage, StageOfPc DEF AddEvict, At
<1>3. CASE AddKeyWrite(t)
  BY <1>3, <1>a, <1>c, LaterStage, StageOfPc DEF AddKeyWrite, At
<1>4. CASE AddReuse(t)
  <2>a. call[t].pc = "fallback"
    BY <1>4 DEF AddReuse, At
  <2>1. CASE Return(t)
    BY <2>a, <2>1, <1>d, LaterStage, StageOfPc
  <2>2. CASE \E kid, key : call' = [call EXCEPT ![t].pc = "bindRead", ![t].kid = kid,
                                               ![t].key = key]
    <3>1. /\ call'[t].pc = "bindRead"
          /\ \A u \in Calls : u # t => call'[u] = call[u]
      BY <2>2, <1>a DEF CallRecords
    <3>2. QED
      BY <2>a, <3>1, LaterStage, StageOfPc
  <2>3. QED
    BY <1>4, <2>1, <2>2 DEF AddReuse
<1>5. CASE AddBindRead(t) \/ CleanRead(t) \/ RemoveStripRead(t)
  <2>1. ASSUME NEW pc, ReadMap(t, pc)
        PROVE  /\ call'[t].pc = pc
               /\ \A u \in Calls : u # t => call'[u] = call[u]
    <3>1. PICK m : call' = [call EXCEPT ![t].seenMap = m, ![t].pc = pc]
      BY <2>1 DEF ReadMap
    <3>2. QED
      BY <3>1, <1>a DEF CallRecords
  <2>2. QED
    BY <1>5, <2>1, LaterStage, StageOfPc DEF AddBindRead, CleanRead, RemoveStripRead, At
<1>6. CASE AddBindWrite(t) \/ AddGroup(t) \/ RemoveDrop(t) \/ RemoveStripWrite(t)
             \/ ResetMapClear(t)
  BY <1>6, <1>a, <1>c, <1>d, LaterStage, StageOfPc DEF AddBindWrite, AddGroup, RemoveDrop,
     RemoveStripWrite, ResetMapClear, At
<1>7. CASE CleanList(t)
  <2>1. PICK todo :
          call' = [call EXCEPT ![t].todo = todo, ![t].cleaned = FALSE,
                     ![t].pc = IF todo = {} THEN AfterCleanup(t, FALSE) ELSE "cleanRemove"]
    BY <1>7 DEF CleanList
  <2>2. /\ call'[t].pc = IF todo = {} THEN AfterCleanup(t, FALSE) ELSE "cleanRemove"
        /\ \A u \in Calls : u # t => call'[u] = call[u]
    BY <2>1, <1>a DEF CallRecords
  <2>3. AfterCleanup(t, FALSE) \in {"aclRead", "rewrite", "fallback"}
    BY DEF AfterCleanup
  <2>4. call[t].pc = "cleanList"
    BY <1>7 DEF CleanList, At
  <2>5. call'[t].pc \in {"aclRead", "rewrite", "fallback", "cleanRemove"}
    BY <2>2, <2>3
  <2>6. StageOf[call'[t].pc] < StageOf[call[t].pc]
    BY <2>4, <2>5, StageOfPc
  <2>7. QED
    BY <2>2, <2>6, LaterStage
<1>8. CASE CleanRemove(t)
  <2>1. PICK k \in call[t].todo, cleaned \in BOOLEAN :
          call' = [call EXCEPT ![t].todo = call[t].todo \ {k}, ![t].cleaned = cleaned,
                     ![t].pc = IF call[t].todo \ {k} = {} THEN AfterCleanup(t, cleaned)
                                                          ELSE call[t].pc]
    BY <1>8, <1>a DEF CleanRemove, CallRecords
  <2>2. /\ call'[t].pc = IF call[t].todo \ {k} = {} THEN AfterCleanup(t, cleaned)
                                                    ELSE call[t].pc
        /\ call'[t].todo = call[t].todo \ {k}
        /\ \A u \in Calls : u # t => call'[u] = call[u]
    BY <2>1, <1>a DEF CallRecords
  <2>3. AfterCleanup(t, cleaned) \in {"aclRead", "rewrite", "fallback"}
    BY DEF AfterCleanup
  <2>4. call[t].pc = "cleanRemove"
    BY <1>8 DEF CleanRemove, At
  <2>5. CASE call[t].todo \ {k} = {}
    <3>1. call'[t].pc \in {"aclRead", "rewrite", "fallback"}
      BY <2>2, <2>3, <2>5
    <3>2. StageOf[call'[t].pc] < StageOf[call[t].pc]
      BY <2>4, <3>1, StageOfPc
    <3>3. QED
      BY <2>2, <3>2, LaterStage
  <2>6. CASE call[t].todo \ {k} # {}
    BY <2>2, <2>6, ShorterList
  <2>7. QED
    BY <2>5, <2>6
<1>9. CASE ResetSweep(t)
  <2>1. CASE Goto(t, "mapClear")
    BY <1>9, <2>1, <1>c, LaterStage, StageOfPc DEF ResetSweep, At
  <2>2. CASE \E k \in call[t].todo : call' = [call EXCEPT ![t].todo = @ \ {k}]
    BY <1>9, <2>2, <1>a, ShorterList DEF CallRecords
  <2>3. QED
    BY <1>9, <2>1, <2>2 DEF ResetSweep
<1>10. CASE AclRead(t) \/ AclWrite(t)
  <2>1. CASE Return(t)
    BY <1>10, <2>1, <1>d, LaterStage, StageOfPc DEF AclRead, AclWrite, At
  <2>2. CASE call' = [call EXCEPT ![t].pc = "aclWrite", ![t].seenAcl = acl[node(t)]]
             /\ AclRead(t)
    BY <2>2, <1>a, LaterStage, StageOfPc DEF AclRead, At, CallRecords
  <2>3. QED
    BY <1>10, <2>1, <2>2 DEF AclRead, AclWrite, Finish
<1>11. CASE SendRefresh(t)
  <2>1. PICK x \in call[t].todo :
          call' = [call EXCEPT ![t] = IF call[t].todo \ {x} = {} THEN Idle
                                      ELSE [call[t] EXCEPT !.todo = call[t].todo \ {x}]]
    BY <1>11 DEF SendRefresh
  <2>2. CASE call[t].todo \ {x} = {}
    <3>1. Return(t)
      BY <2>1, <2>2 DEF Return
    <3>2. QED
      BY <1>11, <3>1, <1>d, LaterStage, StageOfPc DEF SendRefresh, At
  <2>3. CASE call[t].todo \ {x} # {}
    BY <2>1, <2>3, <1>a, ShorterList DEF CallRecords
  <2>4. QED
    BY <2>2, <2>3
<1>12. CASE BindWrite(t)
  BY <1>12, <1>d, LaterStage, StageOfPc DEF BindWrite, At
<1>13. QED
  BY <1>1, <1>2, <1>3, <1>4, <1>5, <1>6, <1>7, <1>8, <1>9, <1>10, <1>11, <1>12 DEF Step

\* A call begins where it was idle, and disturbs no other.
LEMMA BeginIsIdle ==
  ASSUME TypeInv, NEW t \in Calls, Begin(t)
  PROVE  /\ At(t, "idle")
         /\ \A u \in Calls : u # t => call'[u] = call[u]
<1>a. call \in [Calls -> CallRecords]
  BY DEF TypeInv, TypeOK
<1>1. At(t, "idle")
  BY DEF Begin, AddBegin, RemoveBegin, RemoveAllBegin, ResetBegin, KeysetRemove, SendBegin,
     KeysetAdd, BindBegin, SetAcl
<1>2. (\E c : call' = [call EXCEPT ![t] = c]) \/ UNCHANGED call
  BY DEF Begin, AddBegin, RemoveBegin, RemoveAllBegin, ResetBegin, KeysetRemove, SendBegin,
     KeysetAdd, BindBegin, SetAcl
<1>3. QED
  BY <1>a, <1>1, <1>2

\* Every step of a call brings it nearer to its end, for every number of groups,
\* nodes and calls and whatever fails.
THEOREM CallsComeToAnEnd == Spec => CallsAdvance
<1> DEFINE Advance == \A t \in Calls : call'[t] # call[t] /\ ~At(t, "idle")
                                         => Less(Left(call'[t]), Left(call[t]))
<1>1. TypeInv /\ Next => Advance
  <2> SUFFICES ASSUME TypeInv, Next, NEW t \in Calls, call'[t] # call[t], ~At(t, "idle")
               PROVE  Less(Left(call'[t]), Left(call[t]))
    OBVIOUS
  <2>1. CASE Restart
    <3>1. call'[t].pc = "idle" /\ call[t].pc \in Pcs \ {"idle"}
      BY <2>1, ShapeFacts DEF Restart, Idle, CallRecords, At
    <3>2. StageOf[call'[t].pc] < StageOf[call[t].pc]
      BY <3>1, StageOfPc DEF Pcs
    <3>3. QED
      BY <3>2, LaterStage
  <2>2. ASSUME NEW u \in Calls, Begin(u) \/ Step(u)
        PROVE  Less(Left(call'[t]), Left(call[t]))
    BY <2>2, StepAdvances, BeginIsIdle
  <2>3. QED
    BY <2>1, <2>2 DEF Next
<1>2. TypeInv /\ [Next]_vars => [Advance]_vars
  BY <1>1
<1>3. QED
  BY <1>2, TypeInvariance, PTL DEF Spec, CallsAdvance

-----------------------------------------------------------------------------
(* A healthy network.  The properties about it need each other and an      *)
(* account of what every call, at each of its awaits, has left on its      *)
(* device and still holds: CallOK for the calls, NodeOK for the nodes.     *)

WorksOn(t, n) == call[t].op \notin {"none", "send"} /\ node(t) = n

\* The keysets that a call has not bound yet or is about to remove.
Unbound(t) ==
  CASE call[t].pc \in {"bindRead", "bindWrite"} -> {call[t].kid}
    [] call[t].pc \in {"cleanRead", "cleanList"} -> Kids
    [] call[t].pc \in {"cleanRemove", "sweep"} -> call[t].todo
    [] OTHER -> {}

\* A group_add holds the key of its group, and what it did so far is in place.
AddOK(t, g) ==
  LET c == call[t]  n == c.node IN
  /\ c.pc \in {"capacity", "write", "bindRead", "bindWrite", "addGroup", "aclRead", "aclWrite"}
  /\ c.kid = KeysetId(g) /\ keyStore[g] = [kid |-> c.kid, key |-> c.key]
  /\ c.pc \notin {"capacity", "write"} => keyset[n][c.kid] = c.key
  /\ c.pc \in {"addGroup", "aclRead", "aclWrite"} => keyMap[n][g] = c.kid
  /\ c.pc \in {"aclRead", "aclWrite"} => g \in member[n]

\* What a call read is still so when it is used, and a call leaves no keyset
\* unbound but those it has still to deal with.
CallOK(t) ==
  LET c == call[t]  n == c.node IN
  /\ c.op = "add" => \A g \in c.targets : AddOK(t, g)
  /\ c.pc \in {"bindWrite", "stripWrite", "cleanList"} => c.seenMap = keyMap[n]
  /\ c.pc = "aclWrite" => c.seenAcl = acl[n]
  /\ c.pc = "cleanRemove" => c.todo \cap Referenced(keyMap[n]) = {}
  /\ c.op = "send" =>
       \E g \in Groups : /\ keyStore[g] = [kid |-> c.kid, key |-> c.key]
                         /\ c.todo \subseteq provisioned[g]
  /\ c.op \in {"add", "remove", "removeall"} =>
       Installed(n) \subseteq Referenced(keyMap[n]) \cup Unbound(t)
  /\ c.op = "reset" => Installed(n) \subseteq Unbound(t)

NodeOK(n) ==
  /\ Installed(n) \subseteq tracker[n]
  /\ \A g \in Groups : keyMap[n][g] \in {NoKid, KeysetId(g)}
  /\ \A g \in Groups :
       n \in provisioned[g] /\ (\A t \in Calls : WorksOn(t, n) => g \notin call[t].targets)
         => Usable(n, g)
  /\ (\A t \in Calls : ~WorksOn(t, n)) => Installed(n) \subseteq Referenced(keyMap[n])

StoreOK == \A g \in Groups : keyStore[g] = NoKeyset \/ keyStore[g].kid = KeysetId(g)

HealthyOK == /\ StoreOK
             /\ \A t \in Calls : CallOK(t)
             /\ \A n \in Nodes : NodeOK(n)

\* What OthersUndisturbed says of a step.
Harmless ==
  \A n \in Nodes, g \in Groups :
    Usable(n, g) /\ ~Usable(n, g)' =>
      \/ n \notin provisioned'[g]
      \/ \E t \in Calls : node(t) = n /\ g \in call[t].targets

\* Different groups have different keyset ids.
LEMMA KeysetIds ==
  /\ \A g \in Groups : KeysetId(g) \in Kids /\ KeysetId(g) # NoKid
  /\ \A g, h \in Groups : KeysetId(g) = KeysetId(h) => g = h
<1>a. LastGroupId \in Nat
  BY DEF LastGroupId
<1>1. \A g \in Groups : g \in Nat /\ 1 <= g /\ g <= LastGroupId
  BY <1>a, GroupsAssumption
<1>2. \A g \in Groups : g \in Nat /\ 1 <= g /\ g <= 65527
  BY <1>1 DEF LastGroupId
<1>3. \A g \in Groups : KeysetId(g) = g + 1
  BY <1>2 DEF KeysetId
<1>4. QED
  BY <1>2, <1>3 DEF Kids, NoKid

\* There is room for every keyset and every group.
LEMMA Room ==
  ASSUME TypeInv, Healthy, NEW n \in Nodes
  PROVE  /\ \A k \in Kids : HasRoom(n, k)
         /\ \A g \in Groups : g \notin member[n] => Cardinality(member[n]) < GroupSlots
         /\ \A targets \in SUBSET Groups : Cardinality(member[n] \cup targets) <= GroupSlots
<1>1. IsFiniteSet(Groups) /\ IsFiniteSet(Kids)
  BY FiniteIds
<1>2. /\ Cardinality(Groups) \in Nat /\ Cardinality(Kids) \in Nat
      /\ KeysetSlots \in Nat /\ GroupSlots \in Nat
      /\ KeysetSlots >= Cardinality(Kids) /\ GroupSlots >= Cardinality(Groups)
  BY <1>1, FS_CardinalityType DEF TypeInv, SettingTypes, KeysetSlots, GroupSlots, Healthy
<1>3. ASSUME NEW k \in Kids PROVE HasRoom(n, k)
  <2>1. CASE keyset[n][k] = NoKey
    <3>1. Installed(n) \in SUBSET (Kids \ {k})
      BY <2>1 DEF Installed
    <3>2. IsFiniteSet(Kids \ {k}) /\ Cardinality(Kids \ {k}) = Cardinality(Kids) - 1
      BY <1>1, FS_RemoveElement
    <3>3. /\ Cardinality(Installed(n)) <= Cardinality(Kids \ {k})
          /\ Cardinality(Installed(n)) \in Nat
      BY <3>1, <3>2, FS_Subset, FS_CardinalityType
    <3>4. QED
      BY <1>2, <3>2, <3>3 DEF HasRoom
  <2>2. QED
    BY <2>1 DEF HasRoom
<1>4. member[n] \in SUBSET Groups
  BY DEF TypeInv, TypeOK, DeviceTypes
<1>5. ASSUME NEW g \in Groups, g \notin member[n]
      PROVE  Cardinality(member[n]) < GroupSlots
  <2>1. member[n] \in SUBSET (Groups \ {g})
    BY <1>4, <1>5
  <2>2. IsFiniteSet(Groups \ {g}) /\ Cardinality(Groups \ {g}) = Cardinality(Groups) - 1
    BY <1>1, FS_RemoveElement
  <2>3. /\ Cardinality(member[n]) <= Cardinality(Groups \ {g})
        /\ Cardinality(member[n]) \in Nat
    BY <2>1, <2>2, FS_Subset, FS_CardinalityType
  <2>4. QED
    BY <1>2, <2>2, <2>3
<1>6. ASSUME NEW targets \in SUBSET Groups
      PROVE  Cardinality(member[n] \cup targets) <= GroupSlots
  <2>1. member[n] \cup targets \in SUBSET Groups
    BY <1>4
  <2>2. /\ Cardinality(member[n] \cup targets) <= Cardinality(Groups)
        /\ Cardinality(member[n] \cup targets) \in Nat
    BY <1>1, <2>1, FS_Subset, FS_CardinalityType
  <2>3. QED
    BY <1>2, <2>2
<1>7. QED
  BY <1>3, <1>5, <1>6

\* Two calls work on different nodes; a reset or a groupcast runs alone.
LEMMA Separate ==
  ASSUME TypeInv, Healthy, NEW t \in Calls, NEW u \in Calls, t # u
  PROVE  /\ \A n \in NodesOf(t) : ~WorksOn(u, n)
         /\ call[u].op \in {"reset", "send"} => NodesOf(t) = {} /\ call[t].op = "none"
         /\ "keysetremove" \in Operations /\ NodesOf(u) # {} =>
              NodesOf(t) = {} /\ call[t].op = "none"
<1>1. Shape(t) /\ Shape(u)
  BY DEF TypeInv
<1>2. \A n \in NodesOf(t) : ~WorksOn(u, n)
  BY <1>1 DEF WorksOn, Shape, Healthy, node
<1>3. ASSUME Operations \cap {"reset", "keysetremove", "send"} # {}, NodesOf(u) # {}
      PROVE  NodesOf(t) = {} /\ call[t].op = "none"
  BY <1>1, <1>3 DEF Healthy, Shape
<1>4. QED
  BY <1>1, <1>2, <1>3 DEF Shape

\* What is known of a call that works on a node.
LEMMA Working ==
  ASSUME TypeInv, Healthy, HealthyOK, NEW t \in Calls, call[t].op \notin {"none", "send"}
  PROVE  /\ node(t) \in Nodes /\ node(t) \in NodesOf(t) /\ WorksOn(t, node(t))
         /\ \A u \in Calls : WorksOn(u, node(t)) => u = t
         /\ CallOK(t) /\ NodeOK(node(t))
<1>1. node(t) \in Nodes /\ node(t) \in NodesOf(t)
  BY ShapeFacts DEF TypeInv, Shape, node
<1>2. QED
  BY <1>1, Separate DEF HealthyOK, WorksOn

LEMMA IdleOK == ASSUME NEW t \in Calls, call[t] = Idle PROVE CallOK(t)
BY DEF CallOK, Idle

\* A step of one call that touches no device but its own.
LEMMA LocalStep ==
  ASSUME TypeInv, TypeInv', Healthy, HealthyOK, UNCHANGED <<setting, keyStore, provisioned>>,
         NEW t \in Calls, NEW n \in NodesOf(t),
         call[t].op = "none" \/ WorksOn(t, n), WorksOn(t, n)',
         call[t].op # "none" => call'[t].targets = call[t].targets,
         \A u \in Calls : u # t => call'[u] = call[u],
         \A m \in Nodes : m # n =>
           /\ keyset'[m] = keyset[m] /\ keyMap'[m] = keyMap[m] /\ member'[m] = member[m]
           /\ acl'[m] = acl[m] /\ tracker'[m] = tracker[m],
         \A g \in Groups : g \notin call'[t].targets /\ Usable(n, g) => Usable(n, g)',
         Installed(n)' \subseteq tracker'[n],
         \A g \in Groups : keyMap'[n][g] \in {NoKid, KeysetId(g)},
         CallOK(t)'
  PROVE  HealthyOK'
<1>1. StoreOK'
  BY DEF HealthyOK, StoreOK
<1>2. \A u \in Calls : u # t => ~WorksOn(u, n) /\ ~WorksOn(u, n)'
  BY Separate DEF WorksOn, node
<1>3. ASSUME NEW u \in Calls, u # t PROVE CallOK(u)'
  <2>1. call'[u] = call[u] /\ CallOK(u) /\ call[u].op # "send"
    BY <1>3, Separate DEF HealthyOK
  <2>2. CASE call[u].op = "none"
    BY <2>1, <2>2, IdleOK DEF TypeInv, Shape, CallOK, Idle
  <2>3. CASE call[u].op # "none"
    <3> DEFINE m == node(u)
    <3>1. m \in Nodes /\ m # n
      BY <1>2, <1>3, <2>1, <2>3, Working DEF WorksOn
    <3>2. /\ keyset'[m] = keyset[m] /\ keyMap'[m] = keyMap[m] /\ member'[m] = member[m]
          /\ acl'[m] = acl[m]
      BY <3>1
    <3>3. QED
      BY <2>1, <3>2 DEF CallOK, AddOK, Unbound, Installed, Referenced, node
  <2>4. QED
    BY <2>2, <2>3
<1>4. ASSUME NEW m \in Nodes, m # n PROVE NodeOK(m)'
  <2>1. \A s \in Calls : (WorksOn(s, m) <=> WorksOn(s, m)')
                          /\ (WorksOn(s, m) => call'[s] = call[s])
    BY <1>4 DEF WorksOn, node
  <2>2. \A g \in Groups : Usable(m, g) => Usable(m, g)'
    BY <1>4 DEF Usable
  <2>3. QED
    BY <1>4, <2>1, <2>2 DEF HealthyOK, NodeOK, Installed, Referenced
<1>5. NodeOK(n)'
  <2>1. n \in Nodes
    BY ShapeFacts
  <2>2. ASSUME NEW g \in Groups, n \in provisioned[g], g \notin call'[t].targets
        PROVE  Usable(n, g)
    BY <1>2, <2>1, <2>2 DEF HealthyOK, NodeOK, WorksOn
  <2>3. QED
    BY <2>1, <2>2 DEF NodeOK
<1>6. QED
  BY <1>1, <1>3, <1>4, <1>5 DEF HealthyOK


\* The tables of one device change, and what the tracker knows of it.
OnlyNode(n) ==
  \A m \in Nodes : m # n =>
    /\ keyset'[m] = keyset[m] /\ keyMap'[m] = keyMap[m] /\ member'[m] = member[m]
    /\ acl'[m] = acl[m] /\ tracker'[m] = tracker[m]

\* A step of a running call keeps the healthy state, and is harmless, when its
\* device and what the call holds stay as they should.
LEMMA OwnStep ==
  ASSUME TypeInv, TypeInv', Healthy, HealthyOK, UNCHANGED <<setting, keyStore, provisioned>>,
         NEW t \in Calls, call[t].op \notin {"none", "send"}, NEW n, n = node(t),
         call' = [call EXCEPT ![t] = call'[t]], call'[t].op = call[t].op,
         call'[t].node = call[t].node, call'[t].targets = call[t].targets,
         OnlyNode(n),
         \A g \in Groups : g \notin call[t].targets /\ Usable(n, g)
                             => Usable(n, g)',
         Installed(n)' \subseteq tracker'[n],
         \A g \in Groups : keyMap'[n][g] \in {NoKid, KeysetId(g)},
         CallOK(t)'
  PROVE  HealthyOK' /\ Harmless
<1>1. n \in Nodes /\ n \in NodesOf(t) /\ WorksOn(t, n)
  BY Working
<1>2. WorksOn(t, n)'
  BY <1>1 DEF WorksOn, node
<1>3. \A u \in Calls : u # t => call'[u] = call[u]
  BY DEF TypeInv, TypeOK
<1>a. /\ n \in NodesOf(t) /\ (call[t].op = "none" \/ WorksOn(t, n)) /\ WorksOn(t, n)'
      /\ (call[t].op # "none" => call'[t].targets = call[t].targets)
      /\ \A u \in Calls : u # t => call'[u] = call[u]
      /\ \A m \in Nodes : m # n =>
           /\ keyset'[m] = keyset[m] /\ keyMap'[m] = keyMap[m] /\ member'[m] = member[m]
           /\ acl'[m] = acl[m] /\ tracker'[m] = tracker[m]
      /\ \A g \in Groups : g \notin call'[t].targets /\ Usable(n, g) => Usable(n, g)'
      /\ Installed(n)' \subseteq tracker'[n]
      /\ \A g \in Groups : keyMap'[n][g] \in {NoKid, KeysetId(g)}
      /\ CallOK(t)'
  BY <1>1, <1>2, <1>3 DEF OnlyNode
<1>4. HealthyOK'
  BY <1>a, LocalStep
<1>5. Harmless
  <2>1. \A m \in Nodes, g \in Groups : m # n /\ Usable(m, g) => Usable(m, g)'
    BY DEF OnlyNode, Usable
  <2>2. \A g \in Groups : Usable(n, g) /\ ~Usable(n, g)' => g \in call[t].targets
    OBVIOUS
  <2>3. QED
    BY <2>1, <2>2 DEF Harmless
<1>6. QED
  BY <1>4, <1>5

\* A step that only changes what the call holds.
LEMMA QuietStep ==
  ASSUME TypeInv, TypeInv', Healthy, HealthyOK, UNCHANGED <<setting, controllerVars, deviceVars>>,
         NEW t \in Calls, call[t].op \notin {"none", "send"}, NEW n, n = node(t),
         call' = [call EXCEPT ![t] = call'[t]], call'[t].op = call[t].op,
         call'[t].node = call[t].node, call'[t].targets = call[t].targets, CallOK(t)'
  PROVE  HealthyOK' /\ Harmless
<1>1. n \in Nodes /\ NodeOK(n)
  BY Working
<1>2. OnlyNode(n)
  BY DEF OnlyNode, controllerVars, deviceVars
<1>3. /\ \A g \in Groups : Usable(n, g) => Usable(n, g)'
      /\ UNCHANGED <<keyStore, provisioned>>
  BY DEF Usable, controllerVars, deviceVars
<1>4. Installed(n)' \subseteq tracker'[n]
  BY <1>1 DEF NodeOK, Installed, controllerVars, deviceVars
<1>5. \A g \in Groups : keyMap'[n][g] \in {NoKid, KeysetId(g)}
  BY <1>1 DEF NodeOK, deviceVars
<1>6. QED
  BY <1>2, <1>3, <1>4, <1>5, OwnStep

\* Nobody works on the node that a call has just left, or has not started on.
LEMMA NobodyElse ==
  ASSUME TypeInv, Healthy, HealthyOK, NEW t \in Calls, NEW n \in NodesOf(t),
         call[t].op = "none"
  PROVE  /\ n \in Nodes /\ NodeOK(n)
         /\ Installed(n) \subseteq tracker[n] \cap Referenced(keyMap[n])
         /\ \A g \in Groups : n \in provisioned[g] => Usable(n, g)
<1>1. n \in Nodes /\ NodeOK(n)
  BY ShapeFacts DEF HealthyOK
<1>2. \A u \in Calls : ~WorksOn(u, n)
  BY Separate DEF WorksOn
<1>3. QED
  BY <1>1, <1>2 DEF NodeOK

\* The last step of a call.
LEMMA EndStep ==
  ASSUME TypeInv, TypeInv', Healthy, HealthyOK, UNCHANGED setting,
         NEW t \in Calls, NEW n \in NodesOf(t),
         call[t].op = "none" \/ WorksOn(t, n),
         call' = [call EXCEPT ![t] = Idle], OnlyNode(n),
         keyStore' = keyStore \/ \A u \in Calls : u # t => call[u].op = "none",
         StoreOK',
         \A m \in Nodes, g \in Groups : m # n /\ m \in provisioned'[g] =>
           m \in provisioned[g] /\ keyStore'[g] = keyStore[g],
         Installed(n)' \subseteq tracker'[n], Installed(n)' \subseteq Referenced(keyMap'[n]),
         \A g \in Groups : keyMap'[n][g] \in {NoKid, KeysetId(g)},
         \A g \in Groups : n \in provisioned'[g] => Usable(n, g)'
  PROVE  HealthyOK'
<1>1. \A u \in Calls : u # t => ~WorksOn(u, n) /\ ~WorksOn(u, n)' /\ call'[u] = call[u]
  BY Separate DEF WorksOn, node
<1>2. call'[t] = Idle
  BY DEF TypeInv, TypeOK
<1>3. ASSUME NEW u \in Calls PROVE CallOK(u)'
  <2>1. CASE call'[u] = Idle
    BY <2>1 DEF CallOK, Idle
  <2>2. CASE call'[u] # Idle
    <3> DEFINE m == node(u)
    <3>1. u # t /\ call'[u] = call[u] /\ CallOK(u) /\ Shape(u)
      BY <1>1, <1>2, <2>2 DEF HealthyOK, TypeInv
    <3>2. call[u].op \notin {"none", "send"}
      BY <2>2, <3>1, Separate DEF Shape
    <3>3. m \in Nodes /\ m # n /\ keyStore' = keyStore
      BY <1>1, <3>1, <3>2, Working DEF WorksOn
    <3>4. /\ keyset'[m] = keyset[m] /\ keyMap'[m] = keyMap[m] /\ member'[m] = member[m]
          /\ acl'[m] = acl[m]
      BY <3>3 DEF OnlyNode
    <3>5. QED
      BY <3>1, <3>2, <3>3, <3>4 DEF CallOK, AddOK, Unbound, Installed, Referenced, node
  <2>3. QED
    BY <2>1, <2>2
<1>4. ASSUME NEW m \in Nodes, m # n PROVE NodeOK(m)'
  <2>1. NodeOK(m)
    BY DEF HealthyOK
  <2>2. \A s \in Calls : (WorksOn(s, m) <=> WorksOn(s, m)')
                          /\ (WorksOn(s, m) => call'[s] = call[s])
    BY <1>1, <1>2, <1>4 DEF WorksOn, node, Idle
  <2>3. /\ keyset'[m] = keyset[m] /\ keyMap'[m] = keyMap[m] /\ member'[m] = member[m]
        /\ acl'[m] = acl[m] /\ tracker'[m] = tracker[m]
    BY <1>4 DEF OnlyNode
  <2>4. \A g \in Groups : keyStore'[g] = keyStore[g] /\ Usable(m, g) => Usable(m, g)'
    BY <2>3 DEF Usable
  <2>5. QED
    BY <1>4, <2>1, <2>2, <2>3, <2>4 DEF NodeOK, Installed, Referenced
<1>5. NodeOK(n)'
  BY DEF NodeOK
<1>6. QED
  BY <1>3, <1>4, <1>5 DEF HealthyOK

\* What a running call with a device of its own has to go on.
LEMMA Running ==
  ASSUME TypeInv, Healthy, HealthyOK, NEW t \in Calls, call[t].op \notin {"none", "send"}
  PROVE  /\ call \in [Calls -> CallRecords] /\ call[t] \in CallRecords
         /\ ~Faults /\ StoreOK /\ CallOK(t) /\ NodeOK(node(t))
         /\ node(t) \in Nodes /\ node(t) \in NodesOf(t)
         /\ \A pc : Goto(t, pc) =>
              /\ call' = [call EXCEPT ![t] = call'[t]]
              /\ call'[t] = [call[t] EXCEPT !.pc = pc]
<1>1. call \in [Calls -> CallRecords]
  BY DEF TypeInv, TypeOK
<1>2. QED
  BY <1>1, Working DEF Healthy, HealthyOK, Goto

\* A healthy group_add: what it did so far is in place, and it holds its key.
LEMMA RunningAdd ==
  ASSUME TypeInv, Healthy, HealthyOK, NEW t \in Calls, call[t].op = "add"
  PROVE  LET g == TheGroup(t) IN
         /\ g \in Groups /\ call[t].targets = {g} /\ AddOK(t, g)
         /\ call[t].kid = KeysetId(g) /\ call[t].kid \in Kids /\ call[t].kid # NoKid
         /\ call[t].key \in Keys /\ call[t].key # NoKey
<1>1. TheGroup(t) \in Groups /\ call[t].targets = {TheGroup(t)}
  BY ShapeFacts
<1>2. AddOK(t, TheGroup(t)) /\ call[t].key \in Keys
  BY <1>1, Running DEF CallOK, TypeInv, Shape
<1>3. QED
  BY <1>1, <1>2, KeysetIds DEF AddOK, Keys, NoKey

LEMMA AddSteps ==
  ASSUME TypeInv, TypeInv', Healthy, HealthyOK, UNCHANGED setting, NEW t \in Calls,
         \/ AddCapacity(t) \/ AddEvict(t) \/ AddKeyWrite(t) \/ AddReuse(t)
         \/ AddBindRead(t) \/ AddBindWrite(t) \/ AddGroup(t)
  PROVE  HealthyOK' /\ Harmless
<1>a. call[t].op = "add"
  BY OpOfPc DEF AddCapacity, AddEvict, AddKeyWrite, AddReuse, AddBindRead, AddBindWrite,
                AddGroup, At
<1> PICK n \in Nodes : n = node(t)
  BY <1>a, Running
<1> PICK g \in Groups : g = TheGroup(t)
  BY <1>a, RunningAdd
<1>b. /\ call \in [Calls -> CallRecords] /\ call[t] \in CallRecords
      /\ ~Faults /\ StoreOK /\ CallOK(t) /\ NodeOK(n)
      /\ \A pc : Goto(t, pc) =>
              /\ call' = [call EXCEPT ![t] = call'[t]]
              /\ call'[t] = [call[t] EXCEPT !.pc = pc]
  BY <1>a, Running
<1>c. /\ call[t].targets = {g} /\ AddOK(t, g)
      /\ call[t].kid = KeysetId(g) /\ call[t].kid \in Kids /\ call[t].kid # NoKid
      /\ call[t].key \in Keys /\ call[t].key # NoKey
  BY <1>a, RunningAdd
<1>d. call[t].pc \notin {"evict", "rewrite", "fallback"} /\ n = call[t].node
  BY <1>c DEF AddOK, node
<1>e. /\ keyset \in [Nodes -> [Kids -> Keys \cup {NoKey}]] /\ keyMap \in [Nodes -> Maps]
      /\ member \in [Nodes -> SUBSET Groups] /\ acl \in [Nodes -> SUBSET Groups]
      /\ tracker \in [Nodes -> SUBSET Kids]
  BY DEF TypeInv, TypeOK, DeviceTypes, ControllerTypes
<1>f. Installed(n) \subseteq Referenced(keyMap[n]) \cup Unbound(t)
  BY <1>a, <1>b, <1>d DEF CallOK
<1>1. CASE AddCapacity(t)
  <2>1. Goto(t, "write") /\ UNCHANGED <<controllerVars, deviceVars>> /\ At(t, "capacity")
    <3>1. g \notin member[n] => ~(Cardinality(member[n]) >= GroupSlots)
      <4>1. IsFiniteSet(member[n])
        BY <1>e, FiniteIds, FS_Subset
      <4>2. Cardinality(member[n]) \in Nat /\ GroupSlots \in Nat
        BY <4>1, FS_CardinalityType DEF TypeInv, SettingTypes, GroupSlots
      <4>3. QED
        BY <4>2, Room
    <3>2. QED
      BY <1>1, <1>b, <1>c, <3>1 DEF AddCapacity
  <2>2. call' = [call EXCEPT ![t] = call'[t]] /\ call'[t] = [call[t] EXCEPT !.pc = "write"]
    BY <2>1, <1>b
  <2>3. CallOK(t)'
    BY <2>1, <2>2, <1>a, <1>b, <1>c, <1>d, <1>f
       DEF CallOK, AddOK, Unbound, At, Installed, Referenced, controllerVars, deviceVars,
           CallRecords
  <2>4. QED
    BY <2>1, <2>2, <2>3, <1>a, <1>b, QuietStep DEF CallRecords
<1>2. CASE AddEvict(t) \/ AddReuse(t)
  BY <1>2, <1>d DEF AddEvict, AddReuse, At
<1>3. CASE AddKeyWrite(t)
  <2> DEFINE k == call[t].kid
  <2>1. /\ WriteKeyset(n, k, call[t].key) /\ Note(n, k) /\ Goto(t, "bindRead")
        /\ UNCHANGED <<keyStore, provisioned, keyMap, member, acl>> /\ At(t, "write")
    BY <1>3, <1>b, <1>c, <1>d, Room DEF AddKeyWrite, At
  <2>2. call' = [call EXCEPT ![t] = call'[t]] /\ call'[t] = [call[t] EXCEPT !.pc = "bindRead"]
    BY <2>1, <1>b
  <2>3. /\ keyset'[n] = [keyset[n] EXCEPT ![k] = call[t].key]
        /\ tracker'[n] = tracker[n] \cup {k} /\ OnlyNode(n)
    BY <2>1, <1>e DEF WriteKeyset, Note, OnlyNode
  <2>4. Installed(n)' = Installed(n) \cup {k}
    BY <2>3, <1>c, <1>e DEF Installed
  <2>5. CallOK(t)'
    <3>1. AddOK(t, g)'
      BY <2>1, <2>2, <2>3, <1>b, <1>c, <1>d, <1>e DEF AddOK, CallRecords
    <3>2. Unbound(t)' = {k} /\ Unbound(t) = {} /\ Referenced(keyMap[n])' = Referenced(keyMap[n])
      BY <2>1, <2>2, <1>b DEF Unbound, At, CallRecords, Referenced
    <3>3. Installed(n)' \subseteq Referenced(keyMap[n])' \cup Unbound(t)'
      BY <2>4, <3>2, <1>f
    <3>4. QED
      BY <2>2, <3>1, <3>3, <1>a, <1>b, <1>c, <1>d DEF CallOK, CallRecords
  <2>6. ASSUME NEW h \in Groups, h \notin call[t].targets, Usable(n, h) PROVE Usable(n, h)'
    <3>1. keyStore[h].kid # k
      BY <2>6, <1>b, <1>c, KeysetIds DEF StoreOK, Usable
    <3>2. QED
      BY <2>1, <2>3, <2>6, <3>1, <1>e DEF Usable
  <2>7. Installed(n)' \subseteq tracker'[n]
    BY <2>3, <2>4, <1>b DEF NodeOK
  <2>8. \A h \in Groups : keyMap'[n][h] \in {NoKid, KeysetId(h)}
    BY <2>1, <1>b DEF NodeOK
  <2>9. QED
    BY <2>1, <2>2, <2>3, <2>5, <2>6, <2>7, <2>8, <1>a, <1>b, OwnStep DEF CallRecords
<1>4. CASE AddBindRead(t)
  <2>1. /\ call' = [call EXCEPT ![t].seenMap = keyMap[n], ![t].pc = "bindWrite"]
        /\ UNCHANGED <<controllerVars, deviceVars>> /\ At(t, "bindRead")
    BY <1>4, <1>b DEF AddBindRead, ReadMap
  <2>2. /\ call' = [call EXCEPT ![t] = call'[t]]
        /\ call'[t] = [call[t] EXCEPT !.seenMap = keyMap[n], !.pc = "bindWrite"]
    BY <2>1, <1>b
  <2>3. CallOK(t)'
    <3>1. AddOK(t, g)'
      BY <2>1, <2>2, <1>b, <1>c, <1>d DEF AddOK, At, controllerVars, deviceVars, CallRecords
    <3>2. Unbound(t)' = Unbound(t) /\ Installed(n)' = Installed(n)
          /\ Referenced(keyMap[n])' = Referenced(keyMap[n]) /\ keyMap' = keyMap
      BY <2>1, <2>2, <1>b DEF Unbound, At, Installed, Referenced, deviceVars, CallRecords
    <3>3. QED
      BY <2>2, <3>1, <3>2, <1>a, <1>b, <1>c, <1>d, <1>f DEF CallOK, CallRecords
  <2>4. QED
    BY <2>1, <2>2, <2>3, <1>a, <1>b, QuietStep DEF CallRecords
<1>5. CASE AddBindWrite(t)
  <2> DEFINE k == call[t].kid
  <2>1. /\ keyMap' = [keyMap EXCEPT ![n] = [call[t].seenMap EXCEPT ![g] = k]]
        /\ Goto(t, "addGroup") /\ UNCHANGED <<controllerVars, keyset, member, acl>>
        /\ At(t, "bindWrite")
    BY <1>5, <1>b DEF AddBindWrite
  <2>2. call' = [call EXCEPT ![t] = call'[t]] /\ call'[t] = [call[t] EXCEPT !.pc = "addGroup"]
    BY <2>1, <1>b
  <2>a. UNCHANGED <<keyStore, provisioned, tracker>>
    BY <2>1 DEF controllerVars
  <2>3. call[t].seenMap = keyMap[n]
    BY <2>1, <1>b, <1>d DEF CallOK, At
  <2>4. keyMap'[n] = [keyMap[n] EXCEPT ![g] = k] /\ OnlyNode(n)
    BY <2>1, <2>a, <2>3, <1>e DEF OnlyNode
  <2>b. keyMap[n] \in [Groups -> Kids \cup {NoKid}]
    BY <1>e DEF Maps
  <2>5. Installed(n)' \subseteq Referenced(keyMap'[n])
    <3>1. Referenced(keyMap[n]) \subseteq Referenced(keyMap'[n]) /\ k \in Referenced(keyMap'[n])
      BY <2>4, <2>b, <1>b, <1>c DEF Referenced, NodeOK
    <3>2. Unbound(t) = {k} /\ Installed(n)' = Installed(n)
      BY <2>1, <1>b DEF Unbound, At, Installed
    <3>3. QED
      BY <3>1, <3>2, <1>f
  <2>6. CallOK(t)'
    <3>1. AddOK(t, g)'
      BY <2>1, <2>a, <2>2, <2>4, <2>b, <1>b, <1>c, <1>d DEF AddOK, CallRecords, At
    <3>2. QED
      BY <2>2, <2>5, <3>1, <1>a, <1>b, <1>c, <1>d DEF CallOK, CallRecords
  <2>7. ASSUME NEW h \in Groups, h \notin call[t].targets, Usable(n, h) PROVE Usable(n, h)'
    BY <2>1, <2>a, <2>4, <2>b, <2>7, <1>c DEF Usable
  <2>8. Installed(n)' \subseteq tracker'[n]
    BY <2>1, <2>a, <1>b DEF NodeOK, Installed
  <2>9. \A h \in Groups : keyMap'[n][h] \in {NoKid, KeysetId(h)}
    BY <2>4, <2>b, <1>b, <1>c DEF NodeOK
  <2>10. QED
    BY <2>a, <2>2, <2>4, <2>6, <2>7, <2>8, <2>9, <1>a, <1>b, OwnStep DEF CallRecords
<1>6. CASE AddGroup(t)
  <2>1. /\ member' = [member EXCEPT ![n] = @ \cup {g}]
        /\ Goto(t, "aclRead") /\ UNCHANGED <<controllerVars, keyset, keyMap, acl>>
        /\ At(t, "addGroup")
    <3>1. /\ member' = [member EXCEPT ![n] = IF Cardinality(member[n] \cup {g}) > GroupSlots
                                               THEN member[n] ELSE member[n] \cup {g}]
          /\ Goto(t, "aclRead") /\ UNCHANGED <<controllerVars, keyset, keyMap, acl>>
          /\ At(t, "addGroup")
      BY <1>6, <1>b, <1>c DEF AddGroup
    <3>2. Cardinality(member[n] \cup {g}) <= GroupSlots /\ GroupSlots \in Nat
          /\ Cardinality(member[n] \cup {g}) \in Nat
      <4>1. member[n] \cup {g} \in SUBSET Groups
        BY <1>e
      <4>2. IsFiniteSet(member[n] \cup {g})
        BY <4>1, FiniteIds, FS_Subset
      <4>3. QED
        BY <4>2, Room, FS_CardinalityType DEF TypeInv, SettingTypes, GroupSlots
    <3>3. ~(Cardinality(member[n] \cup {g}) > GroupSlots)
      BY <3>2
    <3>4. QED
      BY <3>1, <3>3
  <2>2. call' = [call EXCEPT ![t] = call'[t]] /\ call'[t] = [call[t] EXCEPT !.pc = "aclRead"]
    BY <2>1, <1>b
  <2>a. UNCHANGED <<keyStore, provisioned, tracker>>
    BY <2>1 DEF controllerVars
  <2>3. member'[n] = member[n] \cup {g} /\ OnlyNode(n)
    BY <2>1, <2>a, <1>e DEF OnlyNode
  <2>4. Installed(n)' = Installed(n) /\ Referenced(keyMap[n])' = Referenced(keyMap[n])
    BY <2>1 DEF Installed, Referenced
  <2>5. CallOK(t)'
    <3>1. AddOK(t, g)'
      BY <2>1, <2>a, <2>2, <2>3, <1>b, <1>c, <1>d DEF AddOK, CallRecords, At
    <3>2. Unbound(t) = {}
      BY <2>1 DEF At, Unbound
    <3>3. QED
      BY <2>2, <2>4, <3>1, <3>2, <1>a, <1>b, <1>c, <1>d, <1>f DEF CallOK, CallRecords
  <2>6. ASSUME NEW h \in Groups, Usable(n, h) PROVE Usable(n, h)'
    BY <2>1, <2>a, <2>3, <2>6 DEF Usable
  <2>7. Installed(n)' \subseteq tracker'[n] /\ \A h \in Groups : keyMap'[n][h] \in {NoKid, KeysetId(h)}
    BY <2>1, <2>a, <2>4, <1>b DEF NodeOK
  <2>8. QED
    BY <2>a, <2>2, <2>3, <2>5, <2>6, <2>7, <1>a, <1>b, OwnStep DEF CallRecords
<1>7. QED
  BY <1>1, <1>2, <1>3, <1>4, <1>5, <1>6

LEMMA CleanSteps ==
  ASSUME TypeInv, TypeInv', Healthy, HealthyOK, UNCHANGED setting, NEW t \in Calls,
         CleanRead(t) \/ CleanList(t) \/ CleanRemove(t)
  PROVE  HealthyOK' /\ Harmless
<1>a. call[t].op \in {"add", "remove", "removeall"}
      /\ call[t].pc \in {"cleanRead", "cleanList", "cleanRemove"}
  BY OpOfPc DEF CleanRead, CleanList, CleanRemove, At
<1> PICK n \in Nodes : n = node(t)
  BY <1>a, Running
<1>b. /\ call \in [Calls -> CallRecords] /\ call[t] \in CallRecords
      /\ ~Faults /\ StoreOK /\ CallOK(t) /\ NodeOK(n)
  BY <1>a, Running
<1>c. call[t].op \in {"remove", "removeall"} /\ n = call[t].node
  BY <1>a, RunningAdd DEF AddOK, node
<1>d. Installed(n) \subseteq Referenced(keyMap[n]) \cup Unbound(t)
  BY <1>b, <1>c DEF CallOK
<1>1. CASE CleanRead(t)
  <2>1. /\ call' = [call EXCEPT ![t].seenMap = keyMap[n], ![t].pc = "cleanList"]
        /\ UNCHANGED <<controllerVars, deviceVars>>
    BY <1>1, <1>b DEF CleanRead, ReadMap
  <2>2. /\ call' = [call EXCEPT ![t] = call'[t]]
        /\ call'[t] = [call[t] EXCEPT !.seenMap = keyMap[n], !.pc = "cleanList"]
    BY <2>1, <1>b
  <2>3. CallOK(t)'
    <3>1. Unbound(t)' = Kids /\ Installed(n)' \subseteq Kids /\ keyMap' = keyMap
      BY <2>1, <2>2, <1>b DEF Unbound, Installed, deviceVars, CallRecords
    <3>2. QED
      BY <2>2, <3>1, <1>b, <1>c DEF CallOK, CallRecords
  <2>4. QED
    BY <2>1, <2>2, <2>3, <1>b, <1>c, QuietStep DEF CallRecords
<1>2. CASE CleanList(t)
  <2> DEFINE all == Listed(n, TableExposed)
  <2>1. /\ Installed(n) \subseteq all
        /\ LET orphaned == all \ Referenced(call[t].seenMap)
           IN call' = [call EXCEPT ![t].todo = orphaned, ![t].cleaned = FALSE,
                ![t].pc = IF orphaned = {} THEN AfterCleanup(t, FALSE)
                                           ELSE "cleanRemove"]
    <3>1. Installed(n) \subseteq all
      BY <1>b DEF NodeOK, Listed
    <3>2. QED
      BY <3>1, <1>2, <1>b DEF CleanList
  <2> HIDE DEF all
  <2> DEFINE orphaned == all \ Referenced(keyMap[n])
             pc == IF orphaned = {} THEN "aclRead" ELSE "cleanRemove"
  <2>2. call[t].seenMap = keyMap[n] /\ AfterCleanup(t, FALSE) = "aclRead"
    BY <1>2, <1>b, <1>c DEF CleanList, At, CallOK, AfterCleanup
  <2>3. /\ call' = [call EXCEPT ![t] = call'[t]]
        /\ call'[t] = [call[t] EXCEPT !.todo = orphaned, !.cleaned = FALSE, !.pc = pc]
    BY <2>1, <2>2, <1>b
  <2>4. UNCHANGED <<controllerVars, deviceVars>>
    BY <1>2 DEF CleanList
  <2>5. call'[t].op = call[t].op /\ call'[t].node = n /\ call'[t].targets = call[t].targets
        /\ call'[t].todo = orphaned /\ call'[t].pc = pc
    BY <2>3, <1>b, <1>c DEF CallRecords
  <2>6. CallOK(t)'
    <3>1. Installed(n)' = Installed(n) /\ Referenced(keyMap[n])' = Referenced(keyMap[n])
      BY <2>4 DEF Installed, Referenced, deviceVars
    <3>2. Installed(n) \subseteq Referenced(keyMap[n]) \cup orphaned
      BY <2>1
    <3>3. Unbound(t)' = orphaned
      BY <2>5 DEF Unbound
    <3>4. QED
      BY <2>5, <3>1, <3>2, <3>3, <1>c DEF CallOK
  <2>7. QED
    BY <2>3, <2>4, <2>5, <2>6, <1>c, QuietStep
<1>3. CASE CleanRemove(t)
  <2>1. PICK k \in call[t].todo :
          LET rest == call[t].todo \ {k}
              Done(cleaned) ==
                call' = [call EXCEPT ![t].todo = rest, ![t].cleaned = cleaned,
                  ![t].pc = IF rest = {} THEN AfterCleanup(t, cleaned) ELSE @]
          IN \/ /\ k \in Installed(n)
                /\ WriteKeyset(n, k, NoKey) /\ Forget(n, k) /\ Done(TRUE)
             \/ /\ k \notin Installed(n)
                /\ WriteKeyset(n, k, NoKey) \/ UNCHANGED keyset
                /\ UNCHANGED tracker /\ Done(call[t].cleaned)
    BY <1>3, <1>b DEF CleanRemove
  <2>2. At(t, "cleanRemove") /\ UNCHANGED <<keyStore, provisioned, keyMap, member, acl>>
    BY <1>3 DEF CleanRemove
  <2> DEFINE rest == call[t].todo \ {k}
             pc == IF rest = {} THEN "aclRead" ELSE "cleanRemove"
  <2>3. PICK cleaned :
          call' = [call EXCEPT ![t].todo = rest, ![t].cleaned = cleaned, ![t].pc = pc]
    BY <2>1, <2>2, <1>b, <1>c DEF AfterCleanup, At
  <2>4. /\ call' = [call EXCEPT ![t] = call'[t]]
        /\ call'[t] = [call[t] EXCEPT !.todo = rest, !.cleaned = cleaned, !.pc = pc]
    BY <2>3, <1>b
  <2>5. call'[t].op = call[t].op /\ call'[t].node = n /\ call'[t].targets = call[t].targets
        /\ call'[t].todo = rest /\ call'[t].pc = pc
    BY <2>4, <1>b, <1>c DEF CallRecords
  <2>6. /\ keyset \in [Nodes -> [Kids -> Keys \cup {NoKey}]]
        /\ tracker \in [Nodes -> SUBSET Kids]
    BY DEF TypeInv, TypeOK, DeviceTypes, ControllerTypes
  <2>7. /\ OnlyNode(n) /\ Installed(n)' = Installed(n) \ {k}
        /\ \A j \in Kids : j # k => keyset'[n][j] = keyset[n][j]
        /\ tracker[n] \ {k} \subseteq tracker'[n]
    <3>1. keyset' = keyset \/ WriteKeyset(n, k, NoKey)
      BY <2>1
    <3>2. /\ \A m \in Nodes : m # n => keyset'[m] = keyset[m]
          /\ \A j \in Kids : j # k => keyset'[n][j] = keyset[n][j]
          /\ WriteKeyset(n, k, NoKey) /\ k \in Kids => keyset'[n][k] = NoKey
      BY <3>1, <2>6 DEF WriteKeyset
    <3>3. Installed(n)' = Installed(n) \ {k}
      BY <2>1, <3>2 DEF Installed
    <3>4. /\ \A m \in Nodes : m # n => tracker'[m] = tracker[m]
          /\ tracker[n] \ {k} \subseteq tracker'[n]
      BY <2>1, <2>6 DEF Forget
    <3>5. QED
      BY <2>2, <3>2, <3>3, <3>4 DEF OnlyNode
  <2>8. k \notin Referenced(keyMap[n]) /\ rest \cap Referenced(keyMap[n]) = {}
    BY <2>2, <1>b, <1>c DEF CallOK, At
  <2>9. CallOK(t)'
    <3>1. Unbound(t) = call[t].todo /\ Unbound(t)' = rest
      BY <2>2, <2>5 DEF Unbound, At
    <3>2. Referenced(keyMap[n])' = Referenced(keyMap[n])
      BY <2>2 DEF Referenced
    <3>3. Installed(n)' \subseteq Referenced(keyMap[n])' \cup Unbound(t)'
      BY <2>7, <3>1, <3>2, <1>d
    <3>4. QED
      BY <2>5, <2>8, <3>2, <3>3, <1>c DEF CallOK
  <2>10. ASSUME NEW g \in Groups, Usable(n, g) PROVE Usable(n, g)'
    <3>1. keyStore[g].kid \in Kids /\ keyStore[g].kid # k
      BY <2>8, <2>10, <1>b, KeysetIds DEF Usable, StoreOK, Referenced
    <3>2. QED
      BY <2>2, <2>7, <2>10, <3>1 DEF Usable
  <2>11. /\ Installed(n)' \subseteq tracker'[n]
         /\ \A g \in Groups : keyMap'[n][g] \in {NoKid, KeysetId(g)}
    BY <2>2, <2>7, <1>b DEF NodeOK
  <2>12. QED
    BY <2>2, <2>4, <2>5, <2>7, <2>9, <2>10, <2>11, <1>c, OwnStep
<1>4. QED
  BY <1>1, <1>2, <1>3

LEMMA RemoveSteps ==
  ASSUME TypeInv, TypeInv', Healthy, HealthyOK, UNCHANGED setting, NEW t \in Calls,
         \/ RemoveDrop(t) \/ RemoveStripRead(t) \/ RemoveStripWrite(t)
         \/ ResetSweep(t) \/ ResetMapClear(t)
  PROVE  HealthyOK' /\ Harmless
<1>a. /\ call[t].op \in {"remove", "removeall", "reset"}
      /\ ResetSweep(t) \/ ResetMapClear(t) => call[t].op = "reset"
      /\ RemoveDrop(t) \/ RemoveStripRead(t) \/ RemoveStripWrite(t) =>
           call[t].op \in {"remove", "removeall"}
  BY OpOfPc DEF RemoveDrop, RemoveStripRead, RemoveStripWrite, ResetSweep, ResetMapClear, At
<1> PICK n \in Nodes : n = node(t)
  BY <1>a, Running
<1>b. /\ call \in [Calls -> CallRecords] /\ call[t] \in CallRecords
      /\ ~Faults /\ StoreOK /\ CallOK(t) /\ NodeOK(n)
      /\ \A pc : Goto(t, pc) =>
              /\ call' = [call EXCEPT ![t] = call'[t]]
              /\ call'[t] = [call[t] EXCEPT !.pc = pc]
  BY <1>a, Running
<1>c. n = call[t].node /\ call[t].targets \subseteq Groups
      /\ (call[t].op = "reset" => call[t].targets = Groups)
  BY <1>b DEF node, CallRecords, TypeInv, Shape
<1>d. /\ call[t].op # "reset" => Installed(n) \subseteq Referenced(keyMap[n]) \cup Unbound(t)
      /\ call[t].op = "reset" => Installed(n) \subseteq Unbound(t)
  BY <1>a, <1>b, <1>c DEF CallOK
<1>e. /\ keyset \in [Nodes -> [Kids -> Keys \cup {NoKey}]] /\ keyMap \in [Nodes -> Maps]
      /\ member \in [Nodes -> SUBSET Groups]
  BY DEF TypeInv, TypeOK, DeviceTypes
<1>1. CASE RemoveDrop(t)
  <2>1. /\ member' = [member EXCEPT ![n] = @ \ call[t].targets] /\ Goto(t, "stripRead")
        /\ UNCHANGED <<controllerVars, keyset, keyMap, acl>> /\ At(t, "drop")
    BY <1>1, <1>b DEF RemoveDrop
  <2>2. call' = [call EXCEPT ![t] = call'[t]] /\ call'[t] = [call[t] EXCEPT !.pc = "stripRead"]
    BY <2>1, <1>b
  <2>3. UNCHANGED <<keyStore, provisioned, tracker>> /\ OnlyNode(n)
        /\ member'[n] = member[n] \ call[t].targets
    BY <2>1, <1>e DEF OnlyNode, controllerVars
  <2>4. Installed(n)' = Installed(n) /\ Referenced(keyMap[n])' = Referenced(keyMap[n])
        /\ Unbound(t) = {}
    BY <2>1 DEF Installed, Referenced, Unbound, At
  <2>5. CallOK(t)'
    BY <2>2, <2>4, <1>a, <1>b, <1>c, <1>d, <1>1 DEF CallOK, CallRecords
  <2>6. ASSUME NEW g \in Groups, g \notin call[t].targets, Usable(n, g) PROVE Usable(n, g)'
    BY <2>1, <2>3, <2>6 DEF Usable
  <2>7. /\ Installed(n)' \subseteq tracker'[n]
        /\ \A g \in Groups : keyMap'[n][g] \in {NoKid, KeysetId(g)}
    BY <2>1, <2>3, <2>4, <1>b DEF NodeOK
  <2>8. QED
    BY <2>2, <2>3, <2>5, <2>6, <2>7, <1>a, <1>b, OwnStep DEF CallRecords
<1>2. CASE RemoveStripRead(t)
  <2>1. /\ call' = [call EXCEPT ![t].seenMap = keyMap[n], ![t].pc = "stripWrite"]
        /\ UNCHANGED <<controllerVars, deviceVars>> /\ At(t, "stripRead")
    BY <1>2, <1>b DEF RemoveStripRead, ReadMap
  <2>2. /\ call' = [call EXCEPT ![t] = call'[t]]
        /\ call'[t] = [call[t] EXCEPT !.seenMap = keyMap[n], !.pc = "stripWrite"]
    BY <2>1, <1>b
  <2>3. CallOK(t)'
    <3>1. /\ Unbound(t) = {} /\ Installed(n)' = Installed(n) /\ keyMap' = keyMap
          /\ Referenced(keyMap[n])' = Referenced(keyMap[n])
      BY <2>1 DEF Unbound, At, Installed, Referenced, deviceVars
    <3>2. QED
      BY <2>2, <3>1, <1>2, <1>a, <1>b, <1>c, <1>d DEF CallOK, CallRecords
  <2>4. QED
    BY <2>1, <2>2, <2>3, <1>a, <1>b, QuietStep DEF CallRecords
<1>3. CASE RemoveStripWrite(t)
  <2> DEFINE stripped == [g \in Groups |-> IF g \in call[t].targets THEN NoKid
                                                                    ELSE keyMap[n][g]]
  <2>1. call[t].seenMap = keyMap[n]
    BY <1>3, <1>b, <1>c DEF CallOK, RemoveStripWrite, At
  <2>2. /\ keyMap' = [keyMap EXCEPT ![n] = stripped] /\ Goto(t, "cleanRead")
        /\ UNCHANGED <<controllerVars, keyset, member, acl>>
    BY <1>3, <1>b, <2>1 DEF RemoveStripWrite
  <2>3. call' = [call EXCEPT ![t] = call'[t]] /\ call'[t] = [call[t] EXCEPT !.pc = "cleanRead"]
    BY <2>2, <1>b
  <2>4. UNCHANGED <<keyStore, provisioned, tracker>> /\ OnlyNode(n) /\ keyMap'[n] = stripped
    BY <2>2, <1>e DEF OnlyNode, controllerVars
  <2>5. CallOK(t)'
    <3>1. Unbound(t)' = Kids /\ Installed(n)' \subseteq Kids
      BY <2>3, <1>b DEF Unbound, CallRecords, Installed
    <3>2. QED
      BY <2>3, <3>1, <1>a, <1>b, <1>c, <1>3 DEF CallOK, CallRecords
  <2>6. ASSUME NEW g \in Groups, g \notin call[t].targets, Usable(n, g) PROVE Usable(n, g)'
    BY <2>2, <2>4, <2>6 DEF Usable
  <2>7. /\ Installed(n)' \subseteq tracker'[n]
        /\ \A g \in Groups : keyMap'[n][g] \in {NoKid, KeysetId(g)}
    BY <2>2, <2>4, <1>b DEF NodeOK, Installed
  <2>8. QED
    BY <2>3, <2>4, <2>5, <2>6, <2>7, <1>a, <1>b, OwnStep DEF CallRecords
<1>4. CASE ResetSweep(t)
  <2>a. UNCHANGED <<keyStore, provisioned, tracker, keyMap, member, acl>> /\ Unbound(t) = call[t].todo
    BY <1>4 DEF ResetSweep, controllerVars, Unbound, At
  <2>1. CASE call[t].todo = {}
    <3>1. Goto(t, "mapClear") /\ UNCHANGED keyset
      BY <1>4, <2>1 DEF ResetSweep
    <3>2. call' = [call EXCEPT ![t] = call'[t]]
          /\ call'[t] = [call[t] EXCEPT !.pc = "mapClear"]
      BY <3>1, <1>b
    <3>3. Installed(n)' = {} /\ OnlyNode(n)
      BY <2>a, <2>1, <3>1, <1>4, <1>a, <1>d DEF Installed, OnlyNode
    <3>4. CallOK(t)'
      BY <3>2, <3>3, <1>4, <1>a, <1>b, <1>c DEF CallOK, CallRecords
    <3>5. Installed(n)' \subseteq tracker'[n]
          /\ \A g \in Groups : keyMap'[n][g] \in {NoKid, KeysetId(g)}
      BY <2>a, <3>3, <1>b DEF NodeOK
    <3>6. QED
      BY <2>a, <3>2, <3>3, <3>4, <3>5, <1>4, <1>a, <1>b, <1>c, OwnStep DEF CallRecords
  <2>2. CASE call[t].todo # {}
    <3>1. PICK k \in call[t].todo :
            /\ WriteKeyset(n, k, NoKey) /\ call' = [call EXCEPT ![t].todo = @ \ {k}]
      BY <1>4, <2>2, <1>b DEF ResetSweep
    <3>2. call' = [call EXCEPT ![t] = call'[t]]
          /\ call'[t] = [call[t] EXCEPT !.todo = call[t].todo \ {k}]
      BY <3>1, <1>b
    <3>3. Installed(n)' = Installed(n) \ {k} /\ OnlyNode(n)
      BY <2>a, <3>1, <1>e DEF Installed, OnlyNode, WriteKeyset
    <3>4. CallOK(t)'
      <4>1. Unbound(t)' = call[t].todo \ {k}
        BY <3>2, <1>4, <1>b DEF Unbound, ResetSweep, At, CallRecords
      <4>2. QED
        BY <2>a, <3>2, <3>3, <4>1, <1>4, <1>a, <1>b, <1>c, <1>d
           DEF CallOK, CallRecords, ResetSweep, At
    <3>5. Installed(n)' \subseteq tracker'[n]
          /\ \A g \in Groups : keyMap'[n][g] \in {NoKid, KeysetId(g)}
      BY <2>a, <3>3, <1>b DEF NodeOK
    <3>6. QED
      BY <2>a, <3>2, <3>3, <3>4, <3>5, <1>4, <1>a, <1>b, <1>c, OwnStep DEF CallRecords
  <2>3. QED
    BY <2>1, <2>2
<1>5. CASE ResetMapClear(t)
  <2>1. /\ keyMap' = [keyMap EXCEPT ![n] = NoMap] /\ Goto(t, "aclRead")
        /\ UNCHANGED <<controllerVars, keyset, member, acl>> /\ At(t, "mapClear")
    BY <1>5, <1>b DEF ResetMapClear
  <2>2. call' = [call EXCEPT ![t] = call'[t]] /\ call'[t] = [call[t] EXCEPT !.pc = "aclRead"]
    BY <2>1, <1>b
  <2>3. UNCHANGED <<keyStore, provisioned, tracker>> /\ OnlyNode(n) /\ keyMap'[n] = NoMap
    BY <2>1, <1>e DEF OnlyNode, controllerVars
  <2>4. Installed(n)' = {}
    BY <2>1, <1>5, <1>a, <1>d DEF Installed, Unbound, At
  <2>5. CallOK(t)'
    BY <2>2, <2>4, <1>5, <1>a, <1>b, <1>c DEF CallOK, CallRecords
  <2>6. /\ Installed(n)' \subseteq tracker'[n]
        /\ \A g \in Groups : keyMap'[n][g] \in {NoKid, KeysetId(g)}
    BY <2>3, <2>4 DEF NoMap
  <2>7. QED
    BY <2>2, <2>3, <2>5, <2>6, <1>5, <1>a, <1>b, <1>c, OwnStep DEF CallRecords
<1>6. QED
  BY <1>1, <1>2, <1>3, <1>4, <1>5

\* What the end of a call leaves: the ACL was as wanted or is now so written.
LEMMA FinishStep ==
  ASSUME TypeInv, TypeInv', Healthy, HealthyOK, UNCHANGED setting, NEW t \in Calls,
         At(t, "aclRead") \/ At(t, "aclWrite"), Finish(t),
         UNCHANGED <<keyset, keyMap, member>>,
         acl' = [acl EXCEPT ![node(t)] = WantedAcl(t, acl[node(t)])]
  PROVE  HealthyOK' /\ Harmless
<1>a. call[t].op \in {"add", "remove", "removeall", "reset"}
  BY OpOfPc DEF At
<1> PICK n \in Nodes : n = node(t)
  BY <1>a, Running
<1>b. /\ call \in [Calls -> CallRecords] /\ call[t] \in CallRecords
      /\ ~Faults /\ StoreOK /\ CallOK(t) /\ NodeOK(n) /\ n \in NodesOf(t)
  BY <1>a, Running
<1>c. n = call[t].node /\ WorksOn(t, n) /\ \A u \in Calls : WorksOn(u, n) => u = t
  BY <1>a, Working DEF node
<1>d. /\ tracker \in [Nodes -> SUBSET Kids] /\ provisioned \in [Groups -> SUBSET Nodes]
      /\ acl \in [Nodes -> SUBSET Groups] /\ keyStore \in [Groups -> Keysets]
  BY DEF TypeInv, TypeOK, DeviceTypes, ControllerTypes
<1>e. /\ call' = [call EXCEPT ![t] = Idle]
      /\ acl'[n] = WantedAcl(t, acl[n]) /\ \A m \in Nodes : m # n => acl'[m] = acl[m]
      /\ Installed(n)' = Installed(n) /\ Referenced(keyMap'[n]) = Referenced(keyMap[n])
      /\ \A g \in Groups : keyMap'[n][g] \in {NoKid, KeysetId(g)}
  BY <1>b, <1>d DEF Finish, Return, Installed, NodeOK
<1>f. /\ call[t].op # "reset" => Installed(n) \subseteq Referenced(keyMap[n])
      /\ call[t].op = "reset" => Installed(n) = {}
  BY <1>a, <1>b, <1>c DEF CallOK, Unbound, At
<1>g. \A g \in Groups : n \in provisioned[g] /\ g \notin call[t].targets => Usable(n, g)
  BY <1>b, <1>c DEF NodeOK
<1>1. CASE call[t].op = "add"
  <2> PICK g \in Groups : g = TheGroup(t)
    BY <1>1, RunningAdd
  <2>1. call[t].targets = {g} /\ AddOK(t, g) /\ call[t].kid # NoKid
    BY <1>1, RunningAdd
  <2>2. /\ provisioned' = [provisioned EXCEPT ![g] = @ \cup {n}] /\ UNCHANGED <<keyStore, tracker>>
    BY <1>1 DEF Finish, AddFinish
  <2>3. acl'[n] = acl[n] \cup {g} /\ OnlyNode(n)
    BY <1>1, <1>e, <2>1, <2>2 DEF WantedAcl, OnlyNode
  <2>4. Usable(n, g)'
    BY <1>c, <2>1, <2>2, <2>3 DEF AddOK, Usable, At, NoKeyset
  <2>5. \A m \in Nodes, h \in Groups : Usable(m, h) => Usable(m, h)'
    BY <1>e, <2>2, <2>3 DEF Usable
  <2>6. \A h \in Groups : n \in provisioned'[h] => Usable(n, h)'
    BY <1>d, <1>g, <2>1, <2>2, <2>4, <2>5
  <2>7. \A m \in Nodes, h \in Groups : m # n /\ m \in provisioned'[h] =>
           m \in provisioned[h] /\ keyStore'[h] = keyStore[h]
    BY <1>d, <2>2
  <2>8. Installed(n)' \subseteq tracker'[n] /\ Installed(n)' \subseteq Referenced(keyMap'[n])
    BY <1>1, <1>b, <1>e, <1>f, <2>2 DEF NodeOK
  <2>9. StoreOK'
    BY <1>b, <2>2 DEF StoreOK
  <2>10. QED
    BY <1>b, <1>c, <1>e, <2>2, <2>3, <2>5, <2>6, <2>7, <2>8, <2>9, EndStep DEF Harmless
<1>2. CASE call[t].op \in {"remove", "removeall"}
  <2>1. RemoveFinish(n, t)
    BY <1>2 DEF Finish
  <2>2. /\ UNCHANGED <<keyStore, tracker>>
        /\ \A g \in Groups : provisioned'[g] \subseteq provisioned[g]
        /\ \A g \in Groups : n \in provisioned'[g] =>
             call[t].op = "remove" /\ g \notin call[t].targets
    BY <1>2, <1>d, <2>1 DEF RemoveFinish
  <2>3. OnlyNode(n)
    BY <1>e, <2>2 DEF OnlyNode
  <2>4. ASSUME NEW g \in Groups, n \in provisioned'[g] PROVE Usable(n, g) /\ Usable(n, g)'
    <3>1. acl'[n] = acl[n] \ call[t].targets /\ g \notin call[t].targets
      BY <1>e, <2>2, <2>4 DEF WantedAcl
    <3>2. QED
      BY <1>g, <2>2, <2>4, <3>1 DEF Usable
  <2>5. \A m \in Nodes, g \in Groups : m # n /\ Usable(m, g) => Usable(m, g)'
    BY <1>e, <2>2 DEF Usable
  <2>6. Harmless
    BY <2>4, <2>5 DEF Harmless
  <2>7. Installed(n)' \subseteq tracker'[n] /\ Installed(n)' \subseteq Referenced(keyMap'[n])
    BY <1>2, <1>b, <1>e, <1>f, <2>2 DEF NodeOK
  <2>8. StoreOK'
    BY <1>b, <2>2 DEF StoreOK
  <2>9. \A m \in Nodes, h \in Groups : m # n /\ m \in provisioned'[h] =>
           m \in provisioned[h] /\ keyStore'[h] = keyStore[h]
    BY <2>2
  <2>10. \A h \in Groups : n \in provisioned'[h] => Usable(n, h)'
    BY <2>4
  <2>11. QED
    BY <1>b, <1>c, <1>e, <2>2, <2>3, <2>6, <2>7, <2>8, <2>9, <2>10, EndStep
<1>3. CASE call[t].op = "reset"
  <2>1. ResetFinish(n, t)
    BY <1>3 DEF Finish
  <2>2. /\ tracker' = [tracker EXCEPT ![n] = {}]
        /\ provisioned' = [g \in Groups |-> provisioned[g] \ {n}]
        /\ \A g \in Groups : keyStore'[g] = IF provisioned[g] = {n} THEN NoKeyset
                                                                    ELSE keyStore[g]
    BY <2>1 DEF ResetFinish
  <2>3. OnlyNode(n)
    BY <1>d, <1>e, <2>2 DEF OnlyNode
  <2>4. \A m \in Nodes, g \in Groups : m \in provisioned'[g] =>
          m # n /\ m \in provisioned[g] /\ keyStore'[g] = keyStore[g]
    BY <2>2
  <2>5. \A m \in Nodes, g \in Groups :
          m # n /\ keyStore'[g] = keyStore[g] /\ Usable(m, g) => Usable(m, g)'
    BY <2>3 DEF Usable, OnlyNode
  <2>6. Harmless
    <3>1. ASSUME NEW m \in Nodes, NEW g \in Groups, m \in provisioned'[g], Usable(m, g)
          PROVE  Usable(m, g)'
      BY <2>4, <2>5, <3>1
    <3>2. QED
      BY <3>1 DEF Harmless
  <2>7. Installed(n)' = {}
    BY <1>3, <1>e, <1>f
  <2>8. StoreOK'
    BY <1>b, <2>2 DEF StoreOK
  <2>9. \A u \in Calls : u # t => call[u].op = "none"
    BY <1>3, Separate
  <2>10. QED
    BY <1>b, <1>c, <1>e, <2>3, <2>4, <2>6, <2>7, <2>8, <2>9, EndStep
<1>4. QED
  BY <1>1, <1>2, <1>3, <1>a

LEMMA AclSteps ==
  ASSUME TypeInv, TypeInv', Healthy, HealthyOK, UNCHANGED setting, NEW t \in Calls,
         AclRead(t) \/ AclWrite(t)
  PROVE  HealthyOK' /\ Harmless
<1>a. call[t].op \in {"add", "remove", "removeall", "reset"}
  BY OpOfPc DEF AclRead, AclWrite, At
<1> PICK n \in Nodes : n = node(t)
  BY <1>a, Running
<1>b. /\ call \in [Calls -> CallRecords] /\ call[t] \in CallRecords
      /\ ~Faults /\ CallOK(t) /\ NodeOK(n)
  BY <1>a, Running
<1>c. acl \in [Nodes -> SUBSET Groups]
  BY DEF TypeInv, TypeOK, DeviceTypes
<1>1. CASE AclRead(t) /\ ~Finish(t)
  <2>1. /\ call' = [call EXCEPT ![t].pc = "aclWrite", ![t].seenAcl = acl[n]]
        /\ UNCHANGED <<controllerVars, deviceVars>> /\ At(t, "aclRead")
    BY <1>1 DEF AclRead
  <2>2. /\ call' = [call EXCEPT ![t] = call'[t]]
        /\ call'[t] = [call[t] EXCEPT !.pc = "aclWrite", !.seenAcl = acl[n]]
    BY <2>1, <1>b
  <2>3. CallOK(t)'
    <3>1. /\ Unbound(t) = {} /\ Installed(n)' = Installed(n) /\ Unbound(t)' = {}
          /\ Referenced(keyMap[n])' = Referenced(keyMap[n]) /\ n = call[t].node
      BY <2>1, <2>2, <1>b DEF Unbound, At, Installed, Referenced, deviceVars, CallRecords, node
    <3>2. \A g \in Groups : AddOK(t, g) => AddOK(t, g)'
      BY <2>1, <2>2, <1>b DEF AddOK, At, controllerVars, deviceVars, CallRecords
    <3>3. call[t].op = "add" => \A g \in call[t].targets : g \in Groups /\ AddOK(t, g)
      BY <1>b DEF CallOK, CallRecords
    <3>4. QED
      BY <2>1, <2>2, <3>1, <3>2, <3>3, <1>a, <1>b DEF CallOK, CallRecords, deviceVars
  <2>4. QED
    BY <2>1, <2>2, <2>3, <1>a, <1>b, QuietStep DEF CallRecords
<1>2. CASE AclRead(t) /\ Finish(t)
  <2>1. /\ At(t, "aclRead") /\ UNCHANGED deviceVars
        /\ WantedAcl(t, acl[n]) = acl[n]
    <3>1. call'[t] = Idle
      BY <1>2, <1>b DEF Finish, Return
    <3>2. call' # [call EXCEPT ![t].pc = "aclWrite", ![t].seenAcl = acl[n]]
      BY <3>1, <1>b DEF Idle, CallRecords
    <3>3. QED
      BY <1>2, <1>b, <3>2 DEF AclRead
  <2>2. acl' = [acl EXCEPT ![n] = WantedAcl(t, acl[n])]
    BY <2>1, <1>c DEF deviceVars
  <2>3. QED
    BY <2>1, <2>2, <1>2, FinishStep DEF deviceVars
<1>3. CASE AclWrite(t)
  <2>1. /\ At(t, "aclWrite") /\ Finish(t) /\ UNCHANGED <<keyset, keyMap, member>>
        /\ acl' = [acl EXCEPT ![n] = WantedAcl(t, call[t].seenAcl)]
    BY <1>3, <1>b DEF AclWrite
  <2>2. call[t].seenAcl = acl[n]
    BY <2>1, <1>b DEF CallOK, At, node
  <2>3. QED
    BY <2>1, <2>2, FinishStep
<1>4. QED
  BY <1>1, <1>2, <1>3

\* A groupcast finds the keyset on every node it is for, and writes it as it is.
LEMMA SendSteps ==
  ASSUME TypeInv, TypeInv', Healthy, HealthyOK, UNCHANGED setting, NEW t \in Calls,
         SendRefresh(t)
  PROVE  HealthyOK' /\ Harmless
<1>1. call[t].op = "send" /\ CallOK(t) /\ ~Faults /\ Shape(t)
  BY OpOfPc DEF SendRefresh, At, HealthyOK, Healthy, TypeInv
<1>2. \A u \in Calls : u # t => call[u] = Idle
  BY <1>1, Separate DEF TypeInv, Shape
<1> PICK g \in Groups : /\ keyStore[g] = [kid |-> call[t].kid, key |-> call[t].key]
                        /\ call[t].todo \subseteq provisioned[g]
  BY <1>1 DEF CallOK
<1>3. /\ keyset \in [Nodes -> [Kids -> Keys \cup {NoKey}]] /\ tracker \in [Nodes -> SUBSET Kids]
      /\ provisioned \in [Groups -> SUBSET Nodes] /\ call \in [Calls -> CallRecords]
      /\ call[t].kid \in Kids /\ call[t].key \in Keys /\ NoKey \notin Keys
  BY <1>1 DEF TypeInv, TypeOK, DeviceTypes, ControllerTypes, Shape, Keys, NoKey
<1>4. PICK n \in call[t].todo :
        /\ \/ HasRoom(n, call[t].kid) /\ WriteKeyset(n, call[t].kid, call[t].key)
              /\ Note(n, call[t].kid)
           \/ ~HasRoom(n, call[t].kid) /\ UNCHANGED <<keyset, tracker>>
        /\ call' = [call EXCEPT ![t] = IF call[t].todo \ {n} = {} THEN Idle
                                  ELSE [call[t] EXCEPT !.todo = call[t].todo \ {n}]]
  BY <1>1 DEF SendRefresh
<1>5. n \in Nodes /\ NodeOK(n) /\ Usable(n, g)
  <2>1. n \in Nodes /\ NodeOK(n) /\ n \in provisioned[g]
    BY <1>3 DEF HealthyOK
  <2>2. \A u \in Calls : ~WorksOn(u, n)
    BY <1>1, <1>2 DEF WorksOn, Idle
  <2>3. QED
    BY <2>1, <2>2 DEF NodeOK
<1>6. keyset[n][call[t].kid] = call[t].key /\ call[t].kid \in tracker[n]
  BY <1>3, <1>5 DEF Usable, NodeOK, Installed
<1>7. UNCHANGED <<keyset, tracker>>
  <2>1. keyset = [keyset EXCEPT ![n][call[t].kid] = call[t].key]
    BY <1>3, <1>5, <1>6
  <2>2. tracker = [tracker EXCEPT ![n] = tracker[n] \cup {call[t].kid}]
    BY <1>3, <1>5, <1>6
  <2>3. QED
    BY <1>4, <2>1, <2>2 DEF WriteKeyset, Note
<1>8. UNCHANGED <<keyStore, provisioned, keyMap, member, acl>>
  BY DEF SendRefresh
<1>9. /\ \A u \in Calls : u # t => call'[u] = call[u]
      /\ call'[t] = Idle \/ call'[t] = [call[t] EXCEPT !.todo = call[t].todo \ {n}]
  BY <1>3, <1>4
<1>10. ASSUME NEW u \in Calls PROVE CallOK(u)'
  <2>1. CASE call'[u] = Idle
    BY <2>1 DEF CallOK, Idle
  <2>2. CASE call'[u] # Idle
    <3>1. u = t /\ call'[t] = [call[t] EXCEPT !.todo = call[t].todo \ {n}]
      BY <1>2, <1>9, <2>2
    <3>2. call'[t].op = "send" /\ call'[t].pc = call[t].pc /\ call'[t].kid = call[t].kid
          /\ call'[t].key = call[t].key /\ call'[t].todo \subseteq provisioned[g]
          /\ call[t].pc = "refresh"
      BY <1>1, <1>3, <3>1 DEF CallRecords, SendRefresh, At
    <3>3. keyStore'[g] = [kid |-> call'[t].kid, key |-> call'[t].key]
          /\ call'[t].todo \subseteq provisioned'[g]
      BY <1>8, <3>2
    <3>4. QED
      BY <3>1, <3>2, <3>3 DEF CallOK
  <2>3. QED
    BY <2>1, <2>2
<1>11. ASSUME NEW m \in Nodes PROVE NodeOK(m)'
  <2>1. \A u \in Calls : ~WorksOn(u, m) /\ ~WorksOn(u, m)'
    BY <1>1, <1>2, <1>3, <1>9 DEF WorksOn, Idle, CallRecords
  <2>2. \A h \in Groups : Usable(m, h) => Usable(m, h)'
    BY <1>7, <1>8 DEF Usable
  <2>3. QED
    BY <1>7, <1>8, <2>1, <2>2 DEF HealthyOK, NodeOK, Installed, Referenced
<1>12. QED
  BY <1>7, <1>8, <1>10, <1>11 DEF HealthyOK, StoreOK, Harmless, Usable

\* A call begins on a node nobody works on: what it starts from is as it leaves it.
LEMMA BeginOnNode ==
  ASSUME TypeInv, TypeInv', Healthy, HealthyOK, UNCHANGED setting,
         NEW t \in Calls, NEW n \in NodesOf(t), At(t, "idle"),
         call' = [call EXCEPT ![t] = call'[t]],
         call'[t].op \in {"remove", "removeall", "reset"}, call'[t].node = n,
         UNCHANGED <<controllerVars, deviceVars>>, CallOK(t)'
  PROVE  HealthyOK' /\ Harmless
<1>1. call[t].op = "none" /\ n \in Nodes /\ NodeOK(n)
  BY NobodyElse, ShapeFacts DEF At
<1>2. WorksOn(t, n)' /\ \A u \in Calls : u # t => call'[u] = call[u]
  BY DEF WorksOn, node, TypeInv, TypeOK
<1>3. /\ UNCHANGED <<keyStore, provisioned>>
      /\ \A m \in Nodes, g \in Groups : Usable(m, g) => Usable(m, g)'
      /\ \A m \in Nodes : m # n =>
           /\ keyset'[m] = keyset[m] /\ keyMap'[m] = keyMap[m] /\ member'[m] = member[m]
           /\ acl'[m] = acl[m] /\ tracker'[m] = tracker[m]
      /\ Installed(n)' \subseteq tracker'[n]
      /\ \A g \in Groups : keyMap'[n][g] \in {NoKid, KeysetId(g)}
  BY <1>1 DEF controllerVars, deviceVars, Usable, Installed, NodeOK
<1>4. HealthyOK'
  BY <1>1, <1>2, <1>3, LocalStep
<1>5. QED
  BY <1>3, <1>4 DEF Harmless

LEMMA RemovalBegins ==
  ASSUME TypeInv, TypeInv', Healthy, HealthyOK, UNCHANGED setting,
         NEW t \in Calls, NEW n \in NodesOf(t),
         (\E g \in Groups : RemoveBegin(t, n, g)) \/ RemoveAllBegin(t, n) \/ ResetBegin(t, n)
  PROVE  HealthyOK' /\ Harmless
<1>a. /\ At(t, "idle") /\ UNCHANGED <<controllerVars, deviceVars>> /\ ~Faults
      /\ call \in [Calls -> CallRecords]
  BY DEF RemoveBegin, RemoveAllBegin, ResetBegin, Healthy, TypeInv, TypeOK
<1>b. /\ call[t].op = "none" /\ n \in Nodes
      /\ Installed(n)' \subseteq tracker[n] \cap Referenced(keyMap[n])
      /\ Referenced(keyMap[n])' = Referenced(keyMap[n])
  BY <1>a, NobodyElse, ShapeFacts DEF At, Installed, Referenced, deviceVars
<1>1. ASSUME NEW g \in Groups, RemoveBegin(t, n, g) PROVE HealthyOK' /\ Harmless
  <2>1. /\ call' = [call EXCEPT ![t] = call'[t]] /\ call'[t].op = "remove"
        /\ call'[t].node = n /\ call'[t].pc = "drop"
    BY <1>1, <1>a DEF RemoveBegin, Idle
  <2>2. CallOK(t)'
    BY <2>1, <1>b DEF CallOK
  <2>3. QED
    BY <2>1, <2>2, <1>a, BeginOnNode
<1>2. CASE RemoveAllBegin(t, n)
  <2>1. /\ call' = [call EXCEPT ![t] = call'[t]] /\ call'[t].op = "removeall"
        /\ call'[t].node = n /\ call'[t].pc \in {"drop", "cleanRead"}
    <3>1. PICK listed :
            call' = [call EXCEPT ![t] = [Idle EXCEPT
              !.pc = IF listed = {} THEN "cleanRead" ELSE "drop",
              !.op = "removeall", !.node = n, !.targets = listed]]
      BY <1>2 DEF RemoveAllBegin
    <3>2. QED
      BY <3>1, <1>a DEF Idle
  <2>2. CallOK(t)'
    BY <2>1, <1>b DEF CallOK
  <2>3. QED
    BY <2>1, <2>2, <1>a, BeginOnNode
<1>3. CASE ResetBegin(t, n)
  <2> DEFINE todo == (tracker[n] \cup {keyStore[h].kid : h \in {h \in Groups : n \in provisioned[h]}}
                        \cup (BruteForceRange \cap Kids)) \ {NoKid}
  <2>1. /\ call' = [call EXCEPT ![t] = call'[t]] /\ call'[t].op = "reset"
        /\ call'[t].node = n /\ call'[t].pc = "sweep" /\ call'[t].todo = todo
    BY <1>3, <1>a DEF ResetBegin, Idle
  <2>2. NoKid \notin Kids
    BY KeysetIds DEF Kids
  <2>3. Installed(n)' \subseteq todo
    BY <2>2, <1>b DEF Installed
  <2>4. CallOK(t)'
    BY <2>1, <2>3 DEF CallOK, Unbound
  <2>5. QED
    BY <2>1, <2>4, <1>a, BeginOnNode
<1>4. QED
  BY <1>1, <1>2, <1>3

LEMMA AdditionBegins ==
  ASSUME TypeInv, TypeInv', Healthy, HealthyOK, UNCHANGED setting,
         NEW t \in Calls, NEW n \in NodesOf(t), NEW g \in Groups, AddBegin(t, n, g)
  PROVE  HealthyOK' /\ Harmless
<1>a. /\ call \in [Calls -> CallRecords] /\ keyStore \in [Groups -> Keysets]
  BY DEF TypeInv, TypeOK, ControllerTypes
<1>b. /\ call[t].op = "none" /\ n \in Nodes
      /\ Installed(n) \subseteq tracker[n] \cap Referenced(keyMap[n])
  BY NobodyElse, ShapeFacts DEF AddBegin, At
<1>c. UNCHANGED <<tracker, provisioned, keyset, keyMap, member, acl>>
  BY DEF AddBegin, deviceVars
<1>1. /\ \A h \in Groups : keyStore'[h] # keyStore[h] => h = g /\ keyStore[h] = NoKeyset
      /\ keyStore'[g].kid = KeysetId(g)
      /\ StoreOK'
  BY <1>a, KeysetIds DEF AddBegin, StoreOK, HealthyOK, NoKeyset
<1>2. /\ \A u \in Calls : u # t => call'[u] = call[u]
      /\ call'[t].op = "add" /\ call'[t].node = n /\ call'[t].targets = {g}
      /\ call'[t].pc = "capacity"
      /\ call'[t].kid = keyStore'[g].kid /\ call'[t].key = keyStore'[g].key
  BY <1>a DEF AddBegin, Idle
<1>3. \A m \in Nodes, h \in Groups : Usable(m, h) => keyStore'[h] = keyStore[h] /\ Usable(m, h)'
  BY <1>1, <1>c DEF Usable
<1>4. ASSUME NEW u \in Calls PROVE CallOK(u)'
  <2>1. CASE u = t
    <3>1. keyStore'[g] \in Keysets /\ keyStore'[g] # NoKeyset
      BY <1>1, KeysetIds DEF TypeInv, TypeOK, ControllerTypes, NoKeyset
    <3>2. keyStore'[g] = [kid |-> keyStore'[g].kid, key |-> keyStore'[g].key]
      BY <3>1 DEF Keysets
    <3>3. AddOK(t, g)'
      BY <1>1, <1>2, <3>2 DEF AddOK
    <3>4. Installed(n)' \subseteq Referenced(keyMap[n])'
      BY <1>b, <1>c DEF Installed, Referenced
    <3>5. QED
      BY <2>1, <1>2, <3>3, <3>4 DEF CallOK
  <2>2. CASE u # t
    <3>1. call'[u] = call[u] /\ CallOK(u) /\ call[u].op # "send"
      BY <1>2, <2>2, Separate DEF HealthyOK
    <3>2. ASSUME NEW h \in call[u].targets, call[u].op = "add" PROVE AddOK(u, h)'
      <4>1. AddOK(u, h) /\ h \in Groups
        BY <3>1, <3>2, <1>a DEF CallOK, CallRecords
      <4>2. keyStore[h] # NoKeyset
        BY <4>1, KeysetIds DEF AddOK, NoKeyset
      <4>3. keyStore'[h] = keyStore[h]
        BY <1>1, <4>1, <4>2
      <4>4. QED
        BY <3>1, <4>1, <4>3, <1>c DEF AddOK
    <3>3. QED
      BY <3>1, <3>2, <1>c DEF CallOK, Unbound, Installed, Referenced
  <2>3. QED
    BY <2>1, <2>2
<1>5. ASSUME NEW m \in Nodes PROVE NodeOK(m)'
  <2>1. NodeOK(m)
    BY DEF HealthyOK
  <2>2. \A u \in Calls : WorksOn(u, m) => WorksOn(u, m)' /\ call'[u] = call[u]
    BY <1>2, <1>b DEF WorksOn, node
  <2>3. QED
    BY <1>3, <1>c, <2>1, <2>2 DEF NodeOK, Installed, Referenced
<1>6. QED
  BY <1>1, <1>3, <1>4, <1>5 DEF HealthyOK, Harmless

LEMMA GroupcastBegins ==
  ASSUME TypeInv, TypeInv', Healthy, HealthyOK, UNCHANGED setting,
         NEW t \in Calls, NEW g \in Groups, SendBegin(t, g)
  PROVE  HealthyOK' /\ Harmless
<1>a. /\ call \in [Calls -> CallRecords] /\ keyStore[g] \in Keysets /\ call[t].op = "none"
      /\ UNCHANGED <<keyStore, tracker, provisioned, keyset, keyMap, member, acl>>
  BY ShapeFacts DEF TypeInv, TypeOK, ControllerTypes, SendBegin, At, controllerVars, deviceVars
<1>1. \A u \in Calls : u # t => call'[u] = call[u]
  BY <1>a DEF SendBegin
<1>2. /\ call'[t].op = "send" /\ call'[t].pc = "refresh" /\ call'[t].todo = provisioned[g]
      /\ keyStore[g] = [kid |-> call'[t].kid, key |-> call'[t].key]
  BY <1>a DEF SendBegin, Idle, Keysets
<1>3. ASSUME NEW u \in Calls PROVE CallOK(u)'
  <2>1. CASE u = t
    BY <2>1, <1>a, <1>2 DEF CallOK
  <2>2. CASE u # t
    BY <2>2, <1>a, <1>1 DEF HealthyOK, CallOK, AddOK, Unbound, Installed, Referenced
  <2>3. QED
    BY <2>1, <2>2
<1>4. ASSUME NEW m \in Nodes PROVE NodeOK(m)'
  <2>1. \A u \in Calls : (WorksOn(u, m) <=> WorksOn(u, m)')
                          /\ (WorksOn(u, m) => call'[u] = call[u])
    BY <1>a, <1>1, <1>2 DEF WorksOn, node
  <2>2. \A h \in Groups : Usable(m, h) => Usable(m, h)'
    BY <1>a DEF Usable
  <2>3. QED
    BY <1>a, <2>1, <2>2 DEF HealthyOK, NodeOK, Installed, Referenced
<1>5. QED
  BY <1>a, <1>3, <1>4 DEF HealthyOK, StoreOK, Harmless, Usable

LEMMA KeysetRemovalIsHealthy ==
  ASSUME TypeInv, TypeInv', Healthy, HealthyOK, UNCHANGED setting,
         NEW t \in Calls, NEW n \in NodesOf(t), NEW k \in Kids, KeysetRemove(t, n, k)
  PROVE  HealthyOK' /\ Harmless
<1>a. /\ keyset \in [Nodes -> [Kids -> Keys \cup {NoKey}]] /\ tracker \in [Nodes -> SUBSET Kids]
      /\ call \in [Calls -> CallRecords] /\ StoreOK /\ ~Faults
  BY DEF TypeInv, TypeOK, DeviceTypes, ControllerTypes, HealthyOK, Healthy
<1>b. /\ call[t].op = "none" /\ call[t] = Idle /\ n \in Nodes /\ NodeOK(n)
      /\ Installed(n) \subseteq tracker[n] \cap Referenced(keyMap[n])
      /\ \A g \in Groups : n \in provisioned[g] => Usable(n, g)
      /\ \A u \in Calls : u # t => call[u].op = "none"
  BY NobodyElse, ShapeFacts, Separate DEF KeysetRemove, At, TypeInv, Shape
<1>1. /\ keyset' = [keyset EXCEPT ![n][k] = NoKey] /\ tracker' = [tracker EXCEPT ![n] = @ \ {k}]
      /\ UNCHANGED <<call, keyMap, member, acl>>
      /\ \A g \in Groups : /\ provisioned'[g] = IF keyStore[g].kid = k THEN provisioned[g] \ {n}
                                                                     ELSE provisioned[g]
                           /\ keyStore'[g] = IF keyStore[g].kid = k /\ provisioned[g] \subseteq {n}
                                               THEN NoKeyset ELSE keyStore[g]
  BY <1>a DEF KeysetRemove, WriteKeyset, Forget
<1>2. OnlyNode(n) /\ Installed(n)' = Installed(n) \ {k}
      /\ \A j \in Kids : j # k => keyset'[n][j] = keyset[n][j]
  <2>1. /\ \A m \in Nodes : m # n => keyset'[m] = keyset[m] /\ tracker'[m] = tracker[m]
        /\ \A j \in Kids : j # k => keyset'[n][j] = keyset[n][j]
        /\ keyset'[n][k] = NoKey
    BY <1>a, <1>b, <1>1
  <2>2. QED
    BY <1>1, <2>1 DEF OnlyNode, Installed
<1>3. call' = [call EXCEPT ![t] = Idle]
  BY <1>a, <1>b, <1>1
<1>4. \A m \in Nodes, g \in Groups : m # n /\ m \in provisioned'[g] =>
        m \in provisioned[g] /\ keyStore'[g] = keyStore[g]
  BY <1>1
<1>5. ASSUME NEW g \in Groups, n \in provisioned'[g] PROVE Usable(n, g)'
  <2>1. Usable(n, g) /\ keyStore[g].kid # k /\ keyStore'[g] = keyStore[g]
        /\ keyStore[g].kid \in Kids
    BY <1>a, <1>b, <1>1, <1>5, KeysetIds DEF StoreOK, Usable
  <2>2. QED
    BY <1>1, <1>2, <2>1 DEF Usable
<1>6. Harmless
  <2>1. \A m \in Nodes, g \in Groups :
          m # n /\ keyStore'[g] = keyStore[g] /\ Usable(m, g) => Usable(m, g)'
    BY <1>1, <1>2 DEF OnlyNode, Usable
  <2>2. QED
    BY <1>4, <1>5, <2>1 DEF Harmless
<1>7. /\ StoreOK' /\ Installed(n)' \subseteq tracker'[n]
      /\ Installed(n)' \subseteq Referenced(keyMap'[n])
      /\ \A g \in Groups : keyMap'[n][g] \in {NoKid, KeysetId(g)}
  <2>1. tracker'[n] = tracker[n] \ {k} /\ keyMap' = keyMap
    BY <1>a, <1>b, <1>1
  <2>2. StoreOK'
    BY <1>a, <1>1 DEF StoreOK
  <2>3. QED
    BY <1>b, <1>2, <2>1, <2>2 DEF NodeOK
<1>8. QED
  BY <1>b, <1>2, <1>3, <1>4, <1>5, <1>6, <1>7, EndStep

-----------------------------------------------------------------------------
HealthyInv == TypeInv /\ (Healthy => HealthyOK)

LEMMA HealthyStart == Init => HealthyInv
<1> SUFFICES ASSUME Init PROVE HealthyInv
  OBVIOUS
<1>1. TypeInv
  BY TypeStart
<1>2. \A t \in Calls : call[t] = Idle /\ ~At(t, "x")
  BY DEF Init, At, Idle
<1>3. \A t \in Calls : CallOK(t)
  BY <1>2, IdleOK
<1>4. \A n \in Nodes : NodeOK(n) /\ StoreOK
  BY DEF Init, NodeOK, StoreOK, Installed, NoMap, NoKid
<1>5. StoreOK
  BY DEF Init, StoreOK
<1>6. QED
  BY <1>1, <1>3, <1>4, <1>5 DEF HealthyInv, HealthyOK

LEMMA HealthyStep ==
  ASSUME HealthyInv, [Next]_vars
  PROVE  HealthyInv' /\ (Healthy => Harmless)
<1>1. TypeInv'
  BY TypeStep DEF HealthyInv
<1>2. UNCHANGED setting
  BY DEF Next, vars
<1>3. Healthy' <=> Healthy
  BY <1>2 DEF Healthy, Faults, Operations, NodesOf, KeysetSlots, GroupSlots
<1>4. ASSUME Healthy PROVE HealthyOK' /\ Harmless
  <2>a. TypeInv /\ HealthyOK
    BY <1>4 DEF HealthyInv
  <2>1. CASE UNCHANGED vars
    BY <2>1, <2>a DEF vars, controllerVars, deviceVars, HealthyOK, StoreOK, CallOK, AddOK,
       Unbound, NodeOK, Usable, Installed, Referenced, WorksOn, node, Harmless
  <2>2. ASSUME NEW t \in Calls, Begin(t) PROVE HealthyOK' /\ Harmless
    <3>1. ASSUME NEW n \in NodesOf(t), NEW g \in Groups, AddBegin(t, n, g) \/ RemoveBegin(t, n, g)
          PROVE  HealthyOK' /\ Harmless
      BY <3>1, <2>a, <1>1, <1>2, <1>4, AdditionBegins, RemovalBegins
    <3>2. ASSUME NEW n \in NodesOf(t), RemoveAllBegin(t, n) \/ ResetBegin(t, n)
          PROVE  HealthyOK' /\ Harmless
      BY <3>2, <2>a, <1>1, <1>2, <1>4, RemovalBegins
    <3>3. ASSUME NEW n \in NodesOf(t), NEW k \in Kids, KeysetRemove(t, n, k)
          PROVE  HealthyOK' /\ Harmless
      BY <3>3, <2>a, <1>1, <1>2, <1>4, KeysetRemovalIsHealthy
    <3>4. ASSUME NEW g \in Groups, SendBegin(t, g) PROVE HealthyOK' /\ Harmless
      BY <3>4, <2>a, <1>1, <1>2, <1>4, GroupcastBegins
    <3>5. "keysetadd" \notin Operations /\ "bind" \notin Operations /\ "setacl" \notin Operations
      BY <1>4 DEF Healthy
    <3>6. QED
      BY <2>2, <3>1, <3>2, <3>3, <3>4, <3>5 DEF Begin, KeysetAdd, BindBegin, SetAcl
  <2>3. ASSUME NEW t \in Calls, Step(t) PROVE HealthyOK' /\ Harmless
    <3>1. ~BindWrite(t)
      <4>1. call[t].pc # "mapRead"
        BY <2>a, <1>4, OpOfPc DEF Healthy, TypeInv, Shape
      <4>2. QED
        BY <4>1 DEF BindWrite, At
    <3>2. QED
      BY <2>3, <2>a, <3>1, <1>1, <1>2, <1>4, AddSteps, CleanSteps, RemoveSteps, AclSteps,
         SendSteps DEF Step
  <2>4. ~Restart
    BY <1>4 DEF Healthy, Restart
  <2>5. QED
    BY <2>1, <2>2, <2>3, <2>4 DEF Next
<1>5. QED
  BY <1>1, <1>3, <1>4 DEF HealthyInv

LEMMA HealthyInvariance == Spec => []HealthyInv
BY HealthyStart, HealthyStep, PTL DEF Spec

\* In a healthy network every node recorded for a group can be reached by a
\* groupcast to it when no call is under way, whatever was added, removed and
\* reset before: what group_nodes and group_keys say is what the devices hold.
THEOREM GroupcastReaches == Spec => []ProvisionedIsUsable
<1>1. HealthyInv => ProvisionedIsUsable
  <2> SUFFICES ASSUME HealthyInv, Healthy, Quiet, NEW g \in Groups, NEW n \in provisioned[g]
               PROVE  Usable(n, g)
    BY DEF ProvisionedIsUsable
  <2>1. n \in Nodes /\ NodeOK(n)
    BY DEF HealthyInv, HealthyOK, TypeInv, TypeOK, ControllerTypes
  <2>2. \A t \in Calls : ~WorksOn(t, n)
    BY ShapeFacts DEF HealthyInv, Quiet, At, WorksOn
  <2>3. QED
    BY <2>1, <2>2 DEF NodeOK
<1>2. QED
  BY <1>1, HealthyInvariance, PTL

\* In a healthy network no keyset stays on a device without a binding or unknown
\* to the server's tracker once the calls have ended.
THEOREM NoOrphanedKeysets == Spec => []KeysetsAccounted
<1>1. HealthyInv => KeysetsAccounted
  <2> SUFFICES ASSUME HealthyInv, Healthy, Quiet, NEW n \in Nodes
               PROVE  Installed(n) \subseteq Referenced(keyMap[n]) \cap tracker[n]
    BY DEF KeysetsAccounted
  <2>1. NodeOK(n)
    BY DEF HealthyInv, HealthyOK
  <2>2. \A t \in Calls : ~WorksOn(t, n)
    BY ShapeFacts DEF HealthyInv, Quiet, At, WorksOn
  <2>3. QED
    BY <2>1, <2>2 DEF NodeOK
<1>2. QED
  BY <1>1, HealthyInvariance, PTL

\* In a healthy network a call takes a group away from a node only when it is for
\* that node and group, or takes the node off the group's record with it.
THEOREM OtherGroupsKeepWorking == Spec => OthersUndisturbed
<1>1. HealthyInv /\ [Next]_vars =>
        [Healthy => \A n \in Nodes, g \in Groups :
           Usable(n, g) /\ ~Usable(n, g)' =>
             \/ n \notin provisioned'[g]
             \/ \E t \in Calls : node(t) = n /\ g \in call[t].targets]_vars
  BY HealthyStep DEF Harmless
<1>2. QED
  BY <1>1, HealthyInvariance, PTL DEF Spec, OthersUndisturbed

=============================================================================
