------------------------ MODULE AttributeCacheProofs ------------------------
(***************************************************************************)
(* Proofs about AttributeCache, for any endpoints, number of reads,        *)
(* interviews and changes of the bridge: whatever is on its way when the   *)
(* bridge changes, the server and then the client catch up, but for the    *)
(* attributes a race has touched.  At the end, the poller of custom        *)
(* attributes (AttributePoller), for any nodes.                            *)
(***************************************************************************)
EXTENDS AttributeCache, AttributePoller, SequenceTheorems, FiniteSetTheorems, TLAPS

Tasks == Readers \cup Interviewers

-----------------------------------------------------------------------------
(***************************************************************************)
(* Values, node objects and what waits on the loop.                        *)
(***************************************************************************)
LEMMA Numbers ==
  /\ TheList \notin Endpoints /\ Missing \notin Values /\ Gone \notin Objects
  /\ 1 \in Objects /\ Objects \subseteq Nat
<1>1. Cardinality(Interviewers) \in Nat
  BY AttributeAssumption, FS_CardinalityType
<1>2. QED
  BY <1>1, AttributeAssumption DEF TheList, Missing, Values, Gone, Objects

\* One value of a node object changes, ...
LEMMA SetValue ==
  ASSUME objects \in [Objects -> Attributes], NEW o \in Objects, NEW e \in Endpoints,
         NEW v \in Values \cup {Missing}, objects' = [objects EXCEPT ![o].vals[e] = v]
  PROVE  /\ objects' \in [Objects -> Attributes]
         /\ \A q \in Objects : objects'[q].parts = objects[q].parts
         /\ \A q \in Objects \ {o} : objects'[q] = objects[q]
         /\ objects'[o].vals[e] = v
         /\ \A f \in Endpoints \ {e} : objects'[o].vals[f] = objects[o].vals[f]
<1>1. objects[o] \in Attributes
  OBVIOUS
<1>2. objects'[o] = [objects[o] EXCEPT !.vals = [objects[o].vals EXCEPT ![e] = v]]
  OBVIOUS
<1>3. [objects[o].vals EXCEPT ![e] = v] \in [Endpoints -> Values \cup {Missing}]
  BY <1>1 DEF Attributes
<1>4. /\ objects'[o] \in Attributes /\ objects'[o].parts = objects[o].parts
      /\ objects'[o].vals = [objects[o].vals EXCEPT ![e] = v]
  BY <1>1, <1>2, <1>3 DEF Attributes
<1>5. \A q \in Objects \ {o} : objects'[q] = objects[q]
  OBVIOUS
<1>6. objects' \in [Objects -> Attributes]
  BY <1>4, <1>5
<1>7. QED
  BY <1>1, <1>4, <1>5, <1>6 DEF Attributes

\* ... or those of some endpoints are dropped.
LEMMA DropValues ==
  ASSUME objects \in [Objects -> Attributes], NEW o \in Objects, NEW removed,
         objects' = [objects EXCEPT ![o].vals =
                       [e \in Endpoints |-> IF e \in removed THEN Missing ELSE @[e]]]
  PROVE  /\ objects' \in [Objects -> Attributes]
         /\ \A q \in Objects : objects'[q].parts = objects[q].parts
         /\ \A q \in Objects \ {o} : objects'[q] = objects[q]
         /\ \A f \in Endpoints :
              objects'[o].vals[f] = IF f \in removed THEN Missing ELSE objects[o].vals[f]
<1> DEFINE kept == [e \in Endpoints |-> IF e \in removed THEN Missing ELSE objects[o].vals[e]]
<1>1. objects[o] \in Attributes
  OBVIOUS
<1>2. objects'[o] = [objects[o] EXCEPT !.vals = kept]
  OBVIOUS
<1>3. kept \in [Endpoints -> Values \cup {Missing}]
  BY <1>1 DEF Attributes
<1>4. objects'[o] \in Attributes /\ objects'[o].parts = objects[o].parts /\ objects'[o].vals = kept
  <2> HIDE DEF kept
  <2> QED
    BY <1>1, <1>2, <1>3 DEF Attributes
<1>5. \A q \in Objects \ {o} : objects'[q] = objects[q]
  OBVIOUS
<1>6. objects' \in [Objects -> Attributes]
  <2> HIDE DEF kept
  <2> QED
    BY <1>4, <1>5
<1>7. \A f \in Endpoints : kept[f] = IF f \in removed THEN Missing ELSE objects[o].vals[f]
  OBVIOUS
<1>8. QED
  <2> HIDE DEF kept
  <2> QED
    BY <1>4, <1>5, <1>6, <1>7

\* The callbacks that wait, their order put aside.
Loop == {posted[k] : k \in DOMAIN posted}

LEMMA LoopMembers ==
  ASSUME TypeOK, NEW p \in Loop
  PROVE  /\ p \in Callbacks
         /\ p.endpoint \in Endpoints => p.new \in Values
         /\ p.endpoint = TheList => p.new \subseteq Endpoints /\ p.old \subseteq Endpoints
<1>1. \A k \in DOMAIN posted : posted[k] \in Callbacks
  BY ElementOfSeq, LenProperties DEF TypeOK
<1>2. p \in Callbacks
  BY <1>1 DEF Loop
<1>3. QED
  BY <1>2, Numbers DEF Callbacks

LEMMA LoopGrows ==
  ASSUME TypeOK, NEW p \in Callbacks, posted' = Append(posted, p)
  PROVE  posted' \in Seq(Callbacks) /\ Loop' = Loop \cup {p}
<1>1. posted \in Seq(Callbacks)
  BY DEF TypeOK
<1>2. /\ DOMAIN posted = 1..Len(posted) /\ DOMAIN posted' = 1..(Len(posted) + 1) /\ Len(posted) \in Nat
      /\ \A k \in 1..Len(posted) : posted'[k] = posted[k]
      /\ posted'[Len(posted) + 1] = p /\ posted' \in Seq(Callbacks)
  BY <1>1, AppendProperties, LenProperties
<1>3. \A k \in DOMAIN posted' : k \in DOMAIN posted \/ k = Len(posted) + 1
  BY <1>2
<1>4. \A k \in DOMAIN posted : k \in DOMAIN posted' /\ posted'[k] = posted[k]
  BY <1>2
<1>5. Len(posted) + 1 \in DOMAIN posted'
  BY <1>2
<1>6. QED
  BY <1>2, <1>3, <1>4, <1>5 DEF Loop

LEMMA LoopShrinks ==
  ASSUME TypeOK, posted # <<>>, posted' = Tail(posted)
  PROVE  posted' \in Seq(Callbacks) /\ Due \in Loop /\ Loop = {Due} \cup Loop'
<1>1. posted \in Seq(Callbacks)
  BY DEF TypeOK
<1>2. /\ DOMAIN posted = 1..Len(posted) /\ Len(posted) \in Nat \ {0}
      /\ Len(posted') = Len(posted) - 1 /\ posted' \in Seq(Callbacks) /\ Due = posted[1]
      /\ \A k \in 1..(Len(posted) - 1) : posted'[k] = posted[k + 1]
  BY <1>1, HeadTailProperties, LenProperties, EmptySeq DEF Due
<1>3. DOMAIN posted' = 1..(Len(posted) - 1)
  BY <1>2, LenProperties
<1>4. 1 \in DOMAIN posted
  BY <1>2
<1>5. \A k \in DOMAIN posted' : k + 1 \in DOMAIN posted /\ posted'[k] = posted[k + 1]
  BY <1>2, <1>3
<1>6. \A k \in DOMAIN posted : k # 1 => k - 1 \in DOMAIN posted' /\ posted[k] = posted'[k - 1]
  <2> SUFFICES ASSUME NEW k \in DOMAIN posted, k # 1
               PROVE  k - 1 \in DOMAIN posted' /\ posted[k] = posted'[k - 1]
    OBVIOUS
  <2>1. k - 1 \in 1..(Len(posted) - 1) /\ (k - 1) + 1 = k
    BY <1>2
  <2>2. QED
    BY <1>2, <1>3, <2>1
<1>7. Loop' \subseteq Loop /\ Due \in Loop
  BY <1>2, <1>4, <1>5 DEF Loop
<1>8. ASSUME NEW p \in Loop, p # Due
      PROVE  p \in Loop'
  <2>1. PICK k \in DOMAIN posted : p = posted[k]
    BY <1>8 DEF Loop
  <2>2. k # 1
    BY <1>2, <1>8, <2>1
  <2>3. k - 1 \in DOMAIN posted' /\ posted'[k - 1] = p
    BY <1>6, <2>1, <2>2
  <2>4. QED
    BY <2>3 DEF Loop
<1>9. QED
  BY <1>2, <1>7, <1>8

LEMMA LoopStays == ASSUME UNCHANGED posted PROVE Loop' = Loop
BY DEF Loop

-----------------------------------------------------------------------------
(***************************************************************************)
(* Types.                                                                  *)
(***************************************************************************)
Done == {i \in Interviewers : hold[i] # Gone}

\* An endpoint has a value as long as it is listed, also in what was sampled.
WellFormed(attrs) == \A e \in Endpoints : attrs.vals[e] # Missing <=> e \in attrs.parts

BridgeInv ==
  /\ WellFormed(bridge) /\ dirty \subseteq bridge.parts \cup {TheList}
  /\ \A t \in Tasks : pc[t] = "answered" => WellFormed(answer[t])

\* The objects are taken up one after the other, and those not yet taken are empty.
ObjectsInv ==
  /\ \A i \in Interviewers : pc[i] # "ended" => hold[i] = Gone
  /\ \A o \in Objects : o >= NewObject => objects[o].parts = {}
  /\ \A r \in Readers : pc[r] \in {"asked", "answered"} => hold[r] # Gone

TypeInv == TypeOK /\ BridgeInv /\ ObjectsInv

LEMMA BridgeTypes ==
  ASSUME TypeInv
  PROVE  /\ bridge \in Attributes /\ bridge.parts \subseteq Endpoints
         /\ \A e \in Endpoints : bridge.vals[e] \in Values \cup {Missing}
         /\ \A e \in bridge.parts : bridge.vals[e] \in Values
<1>1. bridge \in Attributes
  BY DEF TypeInv, TypeOK
<1>2. bridge.parts \subseteq Endpoints /\ bridge.vals \in [Endpoints -> Values \cup {Missing}]
  BY <1>1 DEF Attributes
<1>3. QED
  BY <1>1, <1>2 DEF TypeInv, BridgeInv, WellFormed

LEMMA LiveTypes ==
  ASSUME TypeInv, live # Gone
  PROVE  /\ live \in Objects /\ Attrs \in Attributes /\ Attrs.parts \subseteq Endpoints
         /\ \A e \in Endpoints : Attrs.vals[e] \in Values \cup {Missing}
<1>1. live \in Objects /\ Attrs \in Attributes
  BY DEF TypeInv, TypeOK, Attrs
<1>2. QED
  BY <1>1 DEF Attributes

\* There is an object left for the interview that ends.
LEMMA ObjectsSuffice ==
  ASSUME TypeInv, NEW i \in Interviewers, pc[i] # "ended"
  PROVE  /\ NewObject \in Objects /\ NewObject # Gone
         /\ Cardinality(Done \cup {i}) + 2 = NewObject + 1
<1>1. IsFiniteSet(Interviewers) /\ Cardinality(Interviewers) \in Nat
  BY AttributeAssumption, FS_CardinalityType
<1>2. i \notin Done /\ Done \in SUBSET (Interviewers \ {i})
  BY DEF Done, TypeInv, ObjectsInv
<1>3. /\ IsFiniteSet(Interviewers \ {i})
      /\ Cardinality(Interviewers \ {i}) = Cardinality(Interviewers) - 1
  BY <1>1, FS_RemoveElement
<1>4. IsFiniteSet(Done) /\ Cardinality(Done) <= Cardinality(Interviewers) - 1
  BY <1>2, <1>3, FS_Subset
<1>5. Cardinality(Done) \in Nat /\ Cardinality(Done \cup {i}) = Cardinality(Done) + 1
  BY <1>2, <1>4, FS_CardinalityType, FS_AddElement
<1>6. NewObject = Cardinality(Done) + 2
  BY DEF NewObject, Done
<1>7. QED
  BY <1>1, <1>4, <1>5, <1>6 DEF Objects, Gone

LEMMA ClientTypes ==
  ASSUME TypeOK, NEW e \in Endpoints, NEW v \in Values, ClientAttribute(e, v)
  PROVE  known' \in BOOLEAN /\ failed' \in BOOLEAN /\ mirror' \in [Endpoints -> Values \cup {Missing}]
<1>1. known \in BOOLEAN /\ failed \in BOOLEAN /\ mirror \in [Endpoints -> Values \cup {Missing}]
  BY DEF TypeOK
<1>2. QED
  BY <1>1 DEF ClientAttribute

LEMMA BridgeChanges ==
  ASSUME TypeInv, NEW e \in Endpoints, ChangeValue(e) \/ AddEndpoint(e) \/ DropEndpoint(e)
  PROVE  /\ bridge' \in Attributes /\ changes' \in 0..MaxChanges
         /\ WellFormed(bridge)' /\ dirty' \subseteq bridge'.parts \cup {TheList}
         /\ \A f \in Endpoints \ {e} : /\ bridge'.vals[f] = bridge.vals[f]
                                       /\ f \in bridge'.parts <=> f \in bridge.parts
<1>1. /\ bridge \in Attributes /\ bridge.parts \subseteq Endpoints
      /\ bridge.vals \in [Endpoints -> Values \cup {Missing}]
      /\ WellFormed(bridge) /\ dirty \subseteq bridge.parts \cup {TheList}
      /\ Missing \notin Values /\ 1 \in Values /\ e # TheList
  BY Numbers, BridgeTypes DEF TypeInv, BridgeInv, Attributes, Values, Missing
<1>2. changes' \in 0..MaxChanges
  <2>1. changes \in 0..MaxChanges /\ MaxChanges \in Nat
    BY AttributeAssumption DEF TypeInv, TypeOK
  <2>2. changes < MaxChanges /\ changes' = changes + 1
    BY DEF ChangeValue, AddEndpoint, DropEndpoint, MayChange
  <2>3. QED
    BY <2>1, <2>2
<1>3. CASE ChangeValue(e)
  <2>1. PICK v \in Values : bridge' = [bridge EXCEPT !.vals[e] = v]
    BY <1>3 DEF ChangeValue
  <2>2. bridge' = [bridge EXCEPT !.vals = [bridge.vals EXCEPT ![e] = v]]
    BY <2>1
  <2>3. [bridge.vals EXCEPT ![e] = v] \in [Endpoints -> Values \cup {Missing}]
    BY <1>1
  <2>4. /\ bridge' \in Attributes /\ bridge'.parts = bridge.parts
        /\ bridge'.vals = [bridge.vals EXCEPT ![e] = v]
    BY <1>1, <2>2, <2>3 DEF Attributes
  <2>5. dirty' = dirty \cup {e} /\ e \in bridge.parts
    BY <1>3 DEF ChangeValue
  <2>6. QED
    BY <1>1, <1>2, <2>4, <2>5 DEF WellFormed
<1>4. CASE AddEndpoint(e)
  <2>1. /\ bridge' = [parts |-> bridge.parts \cup {e}, vals |-> [bridge.vals EXCEPT ![e] = 1]]
        /\ dirty' = dirty \cup {TheList, e}
    BY <1>4 DEF AddEndpoint
  <2>2. [bridge.vals EXCEPT ![e] = 1] \in [Endpoints -> Values \cup {Missing}]
    BY <1>1
  <2>3. bridge' \in Attributes
    BY <1>1, <2>1, <2>2 DEF Attributes
  <2>4. QED
    BY <1>1, <1>2, <2>1, <2>3 DEF WellFormed
<1>5. CASE DropEndpoint(e)
  <2>1. /\ bridge' = [parts |-> bridge.parts \ {e}, vals |-> [bridge.vals EXCEPT ![e] = Missing]]
        /\ dirty' = (dirty \ {e}) \cup {TheList}
    BY <1>5 DEF DropEndpoint
  <2>2. [bridge.vals EXCEPT ![e] = Missing] \in [Endpoints -> Values \cup {Missing}]
    BY <1>1
  <2>3. bridge' \in Attributes
    BY <1>1, <2>1, <2>2 DEF Attributes
  <2>4. QED
    BY <1>1, <1>2, <2>1, <2>3 DEF WellFormed
<1>6. QED
  BY <1>3, <1>4, <1>5

\* What a step puts in the place of the types when it leaves them alone.
LEMMA OthersKeepTypes ==
  ASSUME TypeInv, TypeOK', UNCHANGED <<pc, hold, answer, bridge, dirty>>,
         \A o \in Objects : objects'[o].parts = objects[o].parts
  PROVE  TypeInv'
<1>1. BridgeInv'
  BY DEF TypeInv, BridgeInv, WellFormed
<1>2. NewObject' = NewObject
  BY DEF NewObject
<1>3. ObjectsInv'
  BY <1>2 DEF TypeInv, ObjectsInv
<1>4. QED
  BY <1>1, <1>3 DEF TypeInv

LEMMA TypeStart == Init => TypeInv
<1> SUFFICES ASSUME Init PROVE TypeInv
  OBVIOUS
<1>1. PICK p \in SUBSET Endpoints :
        bridge = [parts |-> p, vals |-> [e \in Endpoints |-> IF e \in p THEN 1 ELSE Missing]]
  BY DEF Init
<1>2. bridge \in Attributes /\ WellFormed(bridge) /\ Nothing \in Attributes
  BY <1>1 DEF Attributes, WellFormed, Values, Missing, Nothing
<1>3. Done = {} /\ NewObject = 2
  <2>1. Done = {}
    BY DEF Init, Done
  <2>2. QED
    BY <2>1, FS_EmptySet DEF NewObject, Done
<1>4. \A o \in Objects : o >= NewObject => objects[o].parts = {}
  BY <1>3, Numbers DEF Init, Nothing
<1>5. ObjectsInv /\ BridgeInv
  BY <1>2, <1>3, <1>4 DEF Init, ObjectsInv, BridgeInv, Tasks
<1>6. (CHOOSE e \in Endpoints : TRUE) \in Endpoints
  BY AttributeAssumption
<1>7. path \in [Readers -> Endpoints]
  BY <1>6 DEF Init
<1>8. /\ objects \in [Objects -> Attributes] /\ live \in Objects \cup {Gone}
      /\ mirror \in [Endpoints -> Values \cup {Missing}]
  BY <1>2, Numbers DEF Init, Attributes
<1>9. posted \in Seq(Callbacks) /\ changes \in 0..MaxChanges
  BY EmptySeq, AttributeAssumption DEF Init
<1>10. TypeOK
  BY <1>2, <1>7, <1>8, <1>9, Numbers DEF Init, TypeOK
<1>11. QED
  BY <1>5, <1>10 DEF TypeInv

LEMMA TypeStep ==
  ASSUME TypeInv, [Next]_vars
  PROVE  TypeInv'
<1>a. /\ TypeOK /\ BridgeInv /\ ObjectsInv
      /\ objects \in [Objects -> Attributes] /\ posted \in Seq(Callbacks)
      /\ pc \in [Tasks -> {"idle", "asked", "answered", "ended"}]
      /\ hold \in [Tasks -> Objects \cup {Gone}] /\ path \in [Readers -> Endpoints]
      /\ answer \in [Tasks -> Attributes] /\ mirror \in [Endpoints -> Values \cup {Missing}]
      /\ Readers \cap Interviewers = {}
  BY AttributeAssumption DEF TypeInv, TypeOK, Tasks
<1>1. ASSUME NEW e \in Endpoints, ChangeValue(e) \/ AddEndpoint(e) \/ DropEndpoint(e)
      PROVE  TypeInv'
  <2>1. UNCHANGED <<objects, live, posted, pc, hold, path, answer, known, mirror, failed>>
    BY <1>1 DEF ChangeValue, AddEndpoint, DropEndpoint, tasks, client
  <2>2. dirty' \subseteq Endpoints \cup {TheList} /\ raced' \subseteq Endpoints /\ parted' \subseteq Endpoints
    <3>1. dirty \subseteq Endpoints \cup {TheList} /\ raced \subseteq Endpoints /\ parted \subseteq Endpoints
      BY DEF TypeInv, TypeOK
    <3>2. QED
      BY <1>1, <3>1 DEF ChangeValue, AddEndpoint, DropEndpoint, Races
  <2>3. TypeOK'
    BY <1>a, <1>1, <2>1, <2>2, BridgeChanges DEF TypeOK
  <2>4. BridgeInv'
    BY <1>a, <1>1, <2>1, BridgeChanges DEF BridgeInv, WellFormed
  <2>5. NewObject' = NewObject
    BY <2>1 DEF NewObject
  <2>6. ObjectsInv'
    BY <1>a, <2>1, <2>5 DEF ObjectsInv
  <2>7. QED
    BY <2>3, <2>4, <2>6 DEF TypeInv
<1>2. ASSUME NEW e \in Endpoints, ReportValue(e)
      PROVE  TypeInv'
  <2>1. /\ e \in bridge.parts /\ live # Gone
        /\ UNCHANGED <<remote, objects, live, tasks, client, parted>>
        /\ dirty' = dirty \ {e}
    BY <1>a, <1>2, Numbers DEF ReportValue, BridgeInv
  <2>2. bridge.vals[e] \in Values /\ Attrs.vals[e] \in Values \cup {Missing}
    BY <2>1, BridgeTypes, LiveTypes
  <2>3. posted' \in Seq(Callbacks)
    <3>1. [endpoint |-> e, old |-> Attrs.vals[e], new |-> bridge.vals[e]] \in Callbacks
      BY <2>2 DEF Callbacks
    <3>2. QED
      BY <1>a, <1>2, <3>1, AppendProperties DEF ReportValue, Post
  <2>4. raced' \subseteq Endpoints
    BY <1>a, <1>2 DEF ReportValue, TypeOK
  <2>5. TypeOK'
    BY <1>a, <2>1, <2>3, <2>4 DEF TypeOK, remote, tasks, client
  <2>6. BridgeInv'
    BY <1>a, <2>1 DEF BridgeInv, WellFormed, remote, tasks
  <2>7. NewObject' = NewObject
    BY <2>1 DEF NewObject, tasks
  <2>8. QED
    BY <1>a, <2>1, <2>5, <2>6, <2>7 DEF TypeInv, ObjectsInv, tasks
<1>3. CASE ReportParts
  <2>1. /\ live # Gone /\ UNCHANGED <<remote, objects, live, tasks, client, history>>
        /\ dirty' = dirty \ {TheList}
    BY <1>3 DEF ReportParts
  <2>2. posted' \in Seq(Callbacks)
    <3>1. [endpoint |-> TheList, old |-> Attrs.parts, new |-> bridge.parts] \in Callbacks
      BY <2>1, BridgeTypes, LiveTypes DEF Callbacks
    <3>2. QED
      BY <1>a, <1>3, <3>1, AppendProperties DEF ReportParts, Post
  <2>3. TypeOK'
    BY <1>a, <2>1, <2>2 DEF TypeOK, remote, tasks, client, history
  <2>4. BridgeInv'
    BY <1>a, <2>1 DEF BridgeInv, WellFormed, remote, tasks
  <2>5. NewObject' = NewObject
    BY <2>1 DEF NewObject, tasks
  <2>6. QED
    BY <1>a, <2>1, <2>3, <2>4, <2>5 DEF TypeInv, ObjectsInv, tasks
<1>4. CASE RunLate \/ RemoveNode
  <2>1. posted' \in Seq(Callbacks)
    BY <1>a, <1>4, LoopShrinks DEF RunLate, RemoveNode
  <2>2. UNCHANGED <<bridge, changes, dirty, objects, pc, hold, path, answer>>
    BY <1>4 DEF RunLate, RemoveNode, remote, tasks
  <2>3. /\ {known', failed'} \subseteq BOOLEAN /\ live' \in Objects \cup {Gone}
        /\ mirror' \in [Endpoints -> Values \cup {Missing}]
        /\ raced' \subseteq Endpoints /\ parted' \subseteq Endpoints
    BY <1>a, <1>4 DEF RunLate, RemoveNode, Nothing, client, history, TypeOK
  <2>4. TypeOK'
    BY <1>a, <2>1, <2>2, <2>3 DEF TypeOK
  <2>5. QED
    BY <2>2, <2>4, OthersKeepTypes
<1>5. CASE RunValue
  <2>1. /\ posted # <<>> /\ live # Gone /\ Due.endpoint # TheList /\ posted' = Tail(posted)
        /\ objects' = [objects EXCEPT ![live].vals[Due.endpoint] = Due.new]
        /\ ClientAttribute(Due.endpoint, Due.new)
        /\ UNCHANGED <<bridge, changes, dirty, live, pc, hold, path, answer, raced, parted>>
    BY <1>5 DEF RunValue, remote, tasks, history
  <2>2. Due \in Loop /\ posted' \in Seq(Callbacks)
    BY <1>a, <2>1, LoopShrinks
  <2>3. Due.endpoint \in Endpoints /\ Due.new \in Values
    BY <1>a, <2>1, <2>2, LoopMembers DEF Callbacks
  <2>4. live \in Objects
    BY <2>1, LiveTypes
  <2>5. objects' \in [Objects -> Attributes] /\ \A o \in Objects : objects'[o].parts = objects[o].parts
    BY <1>a, <2>1, <2>3, <2>4, SetValue
  <2>6. TypeOK'
    BY <1>a, <2>1, <2>2, <2>3, <2>5, ClientTypes DEF TypeOK
  <2>7. QED
    BY <2>1, <2>5, <2>6, OthersKeepTypes
<1>6. CASE RunParts
  <2>1. /\ posted # <<>> /\ live # Gone /\ posted' = Tail(posted)
        /\ objects' = [objects EXCEPT ![live].vals =
             [e \in Endpoints |-> IF e \in (Due.old \ Due.new) THEN Missing ELSE @[e]]]
        /\ mirror' = [e \in Endpoints |-> IF e \in (Due.old \ Due.new) THEN Missing ELSE mirror[e]]
        /\ UNCHANGED <<bridge, changes, dirty, live, hold, path, answer, known, failed,
                       raced, parted>>
    BY <1>6 DEF RunParts, remote, history
  <2>2. pc' = pc \/ \E i \in Interviewers : pc[i] = "idle" /\ pc' = [pc EXCEPT ![i] = "asked"]
    BY <1>6 DEF RunParts
  <2>3. live \in Objects /\ posted' \in Seq(Callbacks)
    BY <1>a, <2>1, LiveTypes, LoopShrinks
  <2>4. objects' \in [Objects -> Attributes] /\ \A o \in Objects : objects'[o].parts = objects[o].parts
    BY <1>a, <2>1, <2>3, DropValues
  <2>5. /\ pc' \in [Tasks -> {"idle", "asked", "answered", "ended"}]
        /\ \A t \in Tasks : pc'[t] # pc[t] => t \in Interviewers /\ pc[t] = "idle" /\ pc'[t] = "asked"
    BY <1>a, <2>2 DEF Tasks
  <2>6. mirror' \in [Endpoints -> Values \cup {Missing}]
    BY <1>a, <2>1
  <2>7. TypeOK'
    BY <1>a, <2>1, <2>3, <2>4, <2>5, <2>6 DEF TypeOK, Tasks
  <2>8. BridgeInv'
    BY <1>a, <2>1, <2>5 DEF BridgeInv, WellFormed
  <2>9. NewObject' = NewObject
    BY <2>1 DEF NewObject
  <2>10. ObjectsInv'
    BY <1>a, <2>1, <2>4, <2>5, <2>9 DEF ObjectsInv, Tasks
  <2>11. QED
    BY <2>7, <2>8, <2>10 DEF TypeInv
<1>7. ASSUME NEW t \in Tasks, Interview(t) \/ Answer(t) \/ AnswerFails(t)
      PROVE  TypeInv'
  <2>1. UNCHANGED <<bridge, changes, dirty, objects, live, posted, hold, path, known, mirror, failed>>
    BY <1>7 DEF Interview, Answer, AnswerFails, remote, client, history
  <2>2. /\ pc' \in [Tasks -> {"idle", "asked", "answered", "ended"}]
        /\ \A u \in Tasks \ {t} : pc'[u] = pc[u]
        /\ pc[t] \in {"idle", "asked"}
        /\ pc'[t] \in {"asked", "answered"} => pc[t] = "asked" \/ t \in Interviewers
    BY <1>a, <1>7 DEF Interview, Answer, AnswerFails
  <2>3. /\ answer' \in [Tasks -> Attributes]
        /\ \A u \in Tasks : answer'[u] = answer[u] \/ answer'[u] = bridge
        /\ pc'[t] = "answered" => answer'[t] = bridge
        /\ \A u \in Tasks \ {t} : answer'[u] = answer[u]
    <3>1. bridge \in Attributes
      BY BridgeTypes
    <3>2. QED
      BY <1>a, <1>7, <3>1 DEF Interview, Answer, AnswerFails
  <2>4. raced' \subseteq Endpoints /\ parted' \subseteq Endpoints
    BY <1>a, <1>7 DEF Interview, Answer, AnswerFails, history, TypeOK
  <2>5. TypeOK'
    BY <1>a, <2>1, <2>2, <2>3, <2>4 DEF TypeOK, Tasks
  <2>6. BridgeInv'
    BY <1>a, <2>1, <2>2, <2>3 DEF BridgeInv, WellFormed
  <2>7. NewObject' = NewObject
    BY <2>1 DEF NewObject
  <2>8. \A i \in Interviewers : pc'[i] # "ended" => hold'[i] = Gone
    BY <1>a, <2>1, <2>2 DEF ObjectsInv, Tasks
  <2>9. \A r \in Readers : pc'[r] \in {"asked", "answered"} => hold'[r] # Gone
    BY <1>a, <2>1, <2>2 DEF ObjectsInv, Tasks
  <2>10. QED
    BY <1>a, <2>1, <2>5, <2>6, <2>7, <2>8, <2>9 DEF TypeInv, ObjectsInv
<1>8. ASSUME NEW r \in Readers, NEW e \in Endpoints, Read(r, e)
      PROVE  TypeInv'
  <2>1. /\ live # Gone /\ pc' = [pc EXCEPT ![r] = "asked"] /\ hold' = [hold EXCEPT ![r] = live]
        /\ path' = [path EXCEPT ![r] = e]
        /\ UNCHANGED <<bridge, changes, dirty, objects, live, posted, answer, known, mirror, failed,
                       raced, parted>>
    BY <1>8 DEF Read, remote, client, history
  <2>2. live \in Objects
    BY <2>1, LiveTypes
  <2>3. TypeOK'
    BY <1>a, <2>1, <2>2 DEF TypeOK, Tasks
  <2>4. BridgeInv'
    BY <1>a, <2>1 DEF BridgeInv, WellFormed, Tasks
  <2>5. \A i \in Interviewers : hold'[i] = hold[i] /\ pc'[i] = pc[i]
    BY <1>a, <2>1 DEF Tasks
  <2>6. NewObject' = NewObject
    BY <2>5 DEF NewObject
  <2>7. \A q \in Readers : pc'[q] \in {"asked", "answered"} => hold'[q] # Gone
    BY <1>a, <2>1, <2>2, Numbers DEF ObjectsInv, Tasks
  <2>8. QED
    BY <1>a, <2>1, <2>3, <2>4, <2>5, <2>6, <2>7 DEF TypeInv, ObjectsInv
<1>9. ASSUME NEW r \in Readers, ReadDone(r)
      PROVE  TypeInv'
  <2>1. /\ pc[r] = "answered" /\ pc' = [pc EXCEPT ![r] = "ended"]
        /\ IF answer[r].vals[path[r]] = Missing \/ answer[r].vals[path[r]] = objects[hold[r]].vals[path[r]]
             THEN UNCHANGED <<objects, client>>
             ELSE /\ objects' = [objects EXCEPT ![hold[r]].vals[path[r]] = answer[r].vals[path[r]]]
                  /\ ClientAttribute(path[r], answer[r].vals[path[r]])
        /\ parted' = (IF hold[r] = live THEN parted ELSE parted \cup {path[r]})
        /\ UNCHANGED <<bridge, changes, dirty, live, posted, hold, path, answer, raced>>
    BY <1>9 DEF ReadDone, remote
  <2>2. path[r] \in Endpoints /\ hold[r] \in Objects
    BY <1>a, <2>1 DEF ObjectsInv, Tasks
  <2>3. answer[r] \in Attributes
    BY <1>a DEF Tasks
  <2>4. answer[r].vals[path[r]] \in Values \cup {Missing}
    BY <2>2, <2>3 DEF Attributes
  <2>5. /\ objects' \in [Objects -> Attributes] /\ \A o \in Objects : objects'[o].parts = objects[o].parts
        /\ known' \in BOOLEAN /\ failed' \in BOOLEAN /\ mirror' \in [Endpoints -> Values \cup {Missing}]
    <3>1. CASE answer[r].vals[path[r]] = Missing \/ answer[r].vals[path[r]] = objects[hold[r]].vals[path[r]]
      BY <1>a, <2>1, <3>1 DEF client, TypeOK
    <3>2. CASE ~(answer[r].vals[path[r]] = Missing
                   \/ answer[r].vals[path[r]] = objects[hold[r]].vals[path[r]])
      <4>1. /\ objects' \in [Objects -> Attributes]
            /\ \A o \in Objects : objects'[o].parts = objects[o].parts
        <5>1. objects' = [objects EXCEPT ![hold[r]].vals[path[r]] = answer[r].vals[path[r]]]
          BY <2>1, <3>2
        <5>2. objects \in [Objects -> Attributes]
          BY <1>a
        <5>3. QED
          BY <2>2, <2>4, <5>1, <5>2, SetValue
      <4>2. known' \in BOOLEAN /\ failed' \in BOOLEAN /\ mirror' \in [Endpoints -> Values \cup {Missing}]
        BY <1>a, <2>1, <2>2, <2>4, <3>2, ClientTypes
      <4>3. QED
        BY <4>1, <4>2
    <3>3. QED
      BY <3>1, <3>2
  <2>6. /\ pc' \in [Tasks -> {"idle", "asked", "answered", "ended"}] /\ parted' \subseteq Endpoints
        /\ \A u \in Tasks \ {r} : pc'[u] = pc[u]
        /\ pc'[r] = "ended"
    BY <1>a, <2>1, <2>2 DEF TypeOK, Tasks
  <2>7. TypeOK'
    BY <1>a, <2>1, <2>5, <2>6 DEF TypeOK, Tasks
  <2>8. BridgeInv'
    BY <1>a, <2>1, <2>6 DEF BridgeInv, WellFormed
  <2>9. NewObject' = NewObject
    BY <2>1 DEF NewObject
  <2>10. QED
    BY <1>a, <2>1, <2>5, <2>6, <2>7, <2>8, <2>9 DEF TypeInv, ObjectsInv, Tasks
<1>10. ASSUME NEW i \in Interviewers, InterviewDone(i)
       PROVE  TypeInv'
  <2>1. /\ pc[i] = "answered" /\ pc' = [pc EXCEPT ![i] = "ended"]
        /\ hold' = [hold EXCEPT ![i] = NewObject] /\ live' = NewObject
        /\ objects' = [objects EXCEPT ![NewObject] = answer[i]]
        /\ ClientNode(answer[i]) /\ parted' = parted \cup Vanished(i)
        /\ UNCHANGED <<bridge, changes, dirty, posted, path, answer, raced>>
    BY <1>10 DEF InterviewDone, remote
  <2>2. /\ NewObject \in Objects /\ NewObject # Gone
        /\ Cardinality(Done \cup {i}) + 2 = NewObject + 1
    BY <2>1, ObjectsSuffice
  <2>3. answer[i] \in Attributes
    BY <1>a DEF Tasks
  <2>4. /\ mirror' \in [Endpoints -> Values \cup {Missing}] /\ known' /\ failed' = failed
    BY <1>a, <2>1, <2>3 DEF ClientNode, Attributes
  <2>5. /\ objects' \in [Objects -> Attributes] /\ parted' \subseteq Endpoints
        /\ hold' \in [Tasks -> Objects \cup {Gone}]
        /\ pc' \in [Tasks -> {"idle", "asked", "answered", "ended"}]
    BY <1>a, <2>1, <2>2, <2>3 DEF TypeOK, Tasks, Vanished
  <2>6. TypeOK'
    BY <1>a, <2>1, <2>2, <2>4, <2>5 DEF TypeOK, Tasks
  <2>7. BridgeInv'
    BY <1>a, <2>1 DEF BridgeInv, WellFormed
  <2>8. \A j \in Interviewers : hold'[j] # Gone <=> hold[j] # Gone \/ j = i
    BY <1>a, <2>1, <2>2 DEF Tasks
  <2>9. Done' = Done \cup {i}
    BY <2>8 DEF Done
  <2>10. NewObject' = NewObject + 1
    BY <2>2, <2>9 DEF NewObject, Done
  <2>11. \A o \in Objects : o >= NewObject' => objects'[o].parts = {}
    <3>1. \A o \in Objects : o >= NewObject + 1 => o >= NewObject /\ o # NewObject
      BY <2>2, Numbers
    <3>2. QED
      BY <1>a, <2>1, <2>10, <3>1 DEF ObjectsInv
  <2>12. \A j \in Interviewers : pc'[j] # "ended" => hold'[j] = Gone
    BY <1>a, <2>1 DEF ObjectsInv, Tasks
  <2>13. \A r \in Readers : pc'[r] = pc[r] /\ hold'[r] = hold[r]
    BY <1>a, <2>1 DEF Tasks
  <2>14. QED
    BY <1>a, <2>6, <2>7, <2>11, <2>12, <2>13 DEF TypeInv, ObjectsInv
<1>11. CASE UNCHANGED vars
  <2>1. UNCHANGED <<bridge, changes, dirty, objects, live, posted, pc, hold, path, answer, known, mirror,
                    failed, raced, parted>>
    BY <1>11 DEF vars, remote, tasks, client, history
  <2>2. TypeOK'
    BY <1>a, <2>1 DEF TypeOK
  <2>3. QED
    BY <2>1, <2>2, OthersKeepTypes
<1>12. QED
  BY <1>1, <1>2, <1>3, <1>4, <1>5, <1>6, <1>7, <1>8, <1>9, <1>10, <1>11
     DEF Next, Tasks, ReadDone, InterviewDone

-----------------------------------------------------------------------------
(***************************************************************************)
(* What waits, what is sampled and what both ends hold.                    *)
(***************************************************************************)
Gains(p, e) == p.endpoint = TheList /\ e \in p.new \ p.old
Loses(p, e) == p.endpoint = TheList /\ e \in p.old \ p.new

\* A list that waits was compared with one the server had.
ListsInv == \A p \in Loop : p.endpoint = TheList => \A e \in p.old : Returns(e)

Interviewing == \E i \in Interviewers : pc[i] \in {"asked", "answered"}

\* The client has the node as long as the server does.
NodeInv ==
  /\ known <=> live # Gone
  /\ live = Gone /\ Interviewing => parted = Endpoints

\* An endpoint came, or went, and the list that says so is on its way.
Added(e) ==
  \/ \E p \in Loop : Gains(p, e)
  \/ TheList \in dirty /\ e \in bridge.parts \ Attrs.parts
Removed(e) ==
  \/ \E p \in Loop : Loses(p, e)
  \/ TheList \in dirty /\ e \in Attrs.parts \ bridge.parts

\* An interview will find e.
Finds(i, e) == pc[i] = "asked" \/ (pc[i] = "answered" /\ e \in answer[i].parts)
Expected(e) == Added(e) \/ \E i \in Interviewers : Finds(i, e)

\* What waits is of endpoints that did not come or go since.
Settled(e) == /\ (\E p \in Loop : p.endpoint = e) => e \in bridge.parts
              /\ (\E p \in Loop : Loses(p, e)) => e \notin bridge.parts

\* What the client has of e, ...
ClientReads(e) == \A r \in Readers :
  pc[r] = "answered" /\ path[r] = e /\ answer[r].vals[e] # Missing => e \in bridge.parts
ClientHas(e) == live # Gone /\ e \in bridge.parts => mirror[e] # Missing \/ Expected(e)
ClientAgrees(e) == live # Gone => mirror[e] = Attrs.vals[e] \/ Added(e) \/ Interviewing

ClientInv(e) ==
  e \notin parted => Settled(e) /\ ClientReads(e) /\ ClientHas(e) /\ ClientAgrees(e)

\* ... and what the server has of it.
ServerReads(e) == \A t \in Tasks :
  pc[t] = "answered" /\ (t \in Readers => path[t] = e) => answer[t].vals[e] = bridge.vals[e]
ServerGets(e) == \A p \in Loop : p.endpoint = e => p.new = bridge.vals[e] \/ e \in dirty
ServerAgrees(e) ==
  live # Gone => \/ Attrs.vals[e] = bridge.vals[e] \/ e \in dirty \/ Interviewing
                 \/ Removed(e) \/ \E p \in Loop : p.endpoint = e

ServerInv(e) ==
  e \notin raced => Settled(e) /\ ServerReads(e) /\ ServerGets(e) /\ ServerAgrees(e)

CopiesInv == \A e \in Endpoints : ClientInv(e) /\ ServerInv(e)

CacheInv == TypeInv /\ ListsInv /\ NodeInv /\ CopiesInv

LEMMA CacheStart == Init => CacheInv
<1> SUFFICES ASSUME Init PROVE CacheInv
  OBVIOUS
<1>1. TypeInv
  BY TypeStart
<1>2. Loop = {} /\ dirty = {} /\ live = 1 /\ live # Gone
  BY DEF Init, Loop, Gone
<1>3. Attrs = bridge /\ mirror = bridge.vals
  BY <1>2, Numbers DEF Init, Attrs
<1>4. \A t \in Tasks : pc[t] = "idle"
  BY DEF Init, Tasks
<1>5. ListsInv
  BY <1>2 DEF ListsInv
<1>6. NodeInv
  BY <1>2 DEF Init, NodeInv
<1>7. ASSUME NEW e \in Endpoints
      PROVE  ClientInv(e) /\ ServerInv(e)
  <2>1. Settled(e)
    BY <1>2 DEF Settled
  <2>2. ClientReads(e) /\ ServerReads(e)
    BY <1>4 DEF ClientReads, ServerReads, Tasks
  <2>3. ServerGets(e) /\ ServerAgrees(e) /\ ClientAgrees(e)
    BY <1>2, <1>3 DEF ServerGets, ServerAgrees, ClientAgrees
  <2>4. ClientHas(e)
    BY <1>1, <1>3 DEF ClientHas, TypeInv, BridgeInv, WellFormed
  <2>5. QED
    BY <2>1, <2>2, <2>3, <2>4 DEF ClientInv, ServerInv
<1>8. QED
  BY <1>1, <1>5, <1>6, <1>7 DEF CacheInv, CopiesInv

-----------------------------------------------------------------------------
(***************************************************************************)
(* Changes of the bridge.                                                  *)
(***************************************************************************)
LEMMA BridgeSteps ==
  ASSUME CacheInv, NEW e \in Endpoints, ChangeValue(e) \/ AddEndpoint(e) \/ DropEndpoint(e)
  PROVE  ListsInv' /\ NodeInv' /\ CopiesInv'
<1>1. UNCHANGED <<objects, live, posted, pc, hold, path, answer, known, mirror, failed>>
  BY DEF ChangeValue, AddEndpoint, DropEndpoint, tasks, client
<1>2. /\ Loop' = Loop /\ Attrs' = Attrs /\ Reading' = Reading /\ Interviewing' = Interviewing
      /\ \A f : Returns(f)' = Returns(f)
  BY <1>1 DEF Loop, Attrs, Reading, Interviewing, Returns
<1>3. /\ raced \subseteq raced' /\ parted \subseteq parted'
      /\ TheList \in dirty => TheList \in dirty'
      /\ \A f \in dirty : f # e => f \in dirty'
  <2>1. e # TheList
    BY Numbers
  <2>2. QED
    BY <2>1 DEF ChangeValue, AddEndpoint, DropEndpoint, Races
<1>4. ListsInv'
  BY <1>2 DEF CacheInv, ListsInv
<1>5. NodeInv'
  <2>1. parted \in SUBSET Endpoints /\ parted' \in SUBSET Endpoints
    BY DEF CacheInv, TypeInv, TypeOK, ChangeValue, AddEndpoint, DropEndpoint
  <2>2. parted = Endpoints => parted' = Endpoints
    BY <1>3, <2>1
  <2>3. QED
    BY <1>1, <1>2, <2>2 DEF CacheInv, NodeInv
<1>6. /\ \A f \in Endpoints \ {e} : /\ bridge'.vals[f] = bridge.vals[f]
                                    /\ f \in bridge'.parts <=> f \in bridge.parts
      /\ TypeInv
  BY BridgeChanges DEF CacheInv
<1>7. ASSUME NEW f \in Endpoints, f # e
      PROVE  ClientInv(f)' /\ ServerInv(f)'
  <2>1. ClientInv(f) /\ ServerInv(f)
    BY DEF CacheInv, CopiesInv
  <2>2. Settled(f)' = Settled(f)
    BY <1>2, <1>6, <1>7 DEF Settled, Loses
  <2>3. (Added(f) => Added(f)') /\ (Removed(f) => Removed(f)')
    BY <1>2, <1>3, <1>6, <1>7 DEF Added, Removed, Gains, Loses
  <2>4. Expected(f) => Expected(f)'
    BY <1>1, <2>3 DEF Expected, Finds
  <2>5. (ClientReads(f) => ClientReads(f)') /\ (ServerReads(f) => ServerReads(f)')
    BY <1>1, <1>6, <1>7 DEF ClientReads, ServerReads
  <2>6. /\ ClientHas(f) => ClientHas(f)'
        /\ ClientAgrees(f) => ClientAgrees(f)'
    BY <1>1, <1>2, <1>6, <1>7, <2>3, <2>4 DEF ClientHas, ClientAgrees
  <2>7. /\ ServerGets(f) => ServerGets(f)'
        /\ ServerAgrees(f) => ServerAgrees(f)'
    BY <1>1, <1>2, <1>3, <1>6, <1>7, <2>3 DEF ServerGets, ServerAgrees
  <2>8. QED
    BY <1>3, <2>1, <2>2, <2>5, <2>6, <2>7 DEF ClientInv, ServerInv
<1>8. ~Sampled(e) => ServerReads(e)' /\ ClientReads(e)'
  <2> SUFFICES ASSUME ~Sampled(e) PROVE ServerReads(e)' /\ ClientReads(e)'
    OBVIOUS
  <2>1. \A t \in Tasks : ~(pc[t] = "answered" /\ (t \in Readers => path[t] = e))
    BY DEF Sampled, Tasks
  <2>2. QED
    BY <1>1, <2>1 DEF ServerReads, ClientReads, Tasks
<1>9. CASE ChangeValue(e)
  <2>1. /\ e \in dirty' /\ dirty \subseteq dirty' /\ bridge'.parts = bridge.parts /\ parted' = parted
        /\ e \notin raced' => ~Sampled(e) /\ e \notin raced
    <3>1. PICK v \in Values : bridge' = [bridge EXCEPT !.vals[e] = v]
      BY <1>9 DEF ChangeValue
    <3>2. bridge'.parts = bridge.parts
      BY <1>6, <3>1, BridgeTypes DEF Attributes
    <3>3. QED
      BY <1>9, <3>2 DEF ChangeValue, Races
  <2>2. Settled(e)' = Settled(e) /\ (Added(e) => Added(e)')
    BY <1>2, <1>3, <2>1 DEF Settled, Added, Loses, Gains
  <2>3. Expected(e) => Expected(e)'
    BY <1>1, <2>2 DEF Expected, Finds
  <2>4. ClientInv(e)'
    <3>1. ClientReads(e) => ClientReads(e)'
      BY <1>1, <2>1 DEF ClientReads
    <3>2. ClientHas(e) => ClientHas(e)'
      BY <1>1, <1>2, <2>1, <2>3 DEF ClientHas
    <3>3. ClientAgrees(e) => ClientAgrees(e)'
      BY <1>1, <1>2, <2>2 DEF ClientAgrees
    <3>4. QED
      BY <2>1, <2>2, <3>1, <3>2, <3>3 DEF CacheInv, CopiesInv, ClientInv
  <2>5. ServerInv(e)'
    <3>1. ServerGets(e)' /\ ServerAgrees(e)'
      BY <2>1 DEF ServerGets, ServerAgrees
    <3>2. QED
      BY <1>8, <2>1, <2>2, <3>1 DEF CacheInv, CopiesInv, ServerInv
  <2>6. QED
    BY <1>4, <1>5, <1>7, <2>4, <2>5 DEF CopiesInv
<1>10. CASE AddEndpoint(e)
  <2>1. /\ e \notin bridge.parts /\ e \in bridge'.parts /\ e \in dirty' /\ TheList \in dirty'
        /\ e \notin raced' => ~Sampled(e) /\ ~Returns(e)
        /\ e \notin parted' => ~Returns(e)
    BY <1>10 DEF AddEndpoint
  <2>2. ~Returns(e) => Settled(e)'
    <3>1. ~Returns(e) => \A p \in Loop : ~Loses(p, e)
      BY DEF CacheInv, ListsInv, Loses
    <3>2. QED
      BY <1>2, <2>1, <3>1 DEF Settled, Loses
  <2>3. ~Returns(e) /\ live # Gone => Added(e)'
    <3>1. ~Returns(e) /\ live # Gone => e \notin Attrs.parts
      BY <1>6, LiveTypes DEF Returns, Attrs
    <3>2. QED
      BY <1>1, <1>2, <2>1, <3>1 DEF Added
  <2>4. ClientInv(e)'
    <3>1. ClientReads(e)'
      BY <2>1 DEF ClientReads
    <3>2. ~Returns(e) => ClientHas(e)' /\ ClientAgrees(e)'
      BY <1>1, <2>3 DEF ClientHas, ClientAgrees, Expected
    <3>3. QED
      BY <2>1, <2>2, <3>1, <3>2 DEF ClientInv
  <2>5. ServerInv(e)'
    <3>1. ServerGets(e)' /\ ServerAgrees(e)'
      BY <2>1 DEF ServerGets, ServerAgrees
    <3>2. QED
      BY <1>8, <2>1, <2>2, <3>1 DEF ServerInv
  <2>6. QED
    BY <1>4, <1>5, <1>7, <2>4, <2>5 DEF CopiesInv
<1>11. CASE DropEndpoint(e)
  <2>1. /\ e \notin bridge'.parts /\ TheList \in dirty'
        /\ e \notin raced' => ~Abrupt(e)
        /\ e \notin parted' => ~Abrupt(e) /\ e \notin parted
    BY <1>11 DEF DropEndpoint
  <2>2. ASSUME ~Abrupt(e)
        PROVE  /\ ~Sampled(e) /\ live # Gone /\ e \in Attrs.parts
               /\ \A p \in Loop : p.endpoint # e
    BY <2>2 DEF Abrupt, Waiting, Loop
  <2>3. ~Abrupt(e) => Settled(e)'
    BY <1>2, <2>1, <2>2 DEF Settled
  <2>4. ClientInv(e)'
    <3>1. ClientHas(e)'
      BY <2>1 DEF ClientHas
    <3>2. ~Abrupt(e) /\ ClientAgrees(e) => ClientAgrees(e)'
      BY <1>1, <1>2, <2>2 DEF ClientAgrees, Added, Gains
    <3>3. QED
      BY <1>8, <2>1, <2>2, <2>3, <3>1, <3>2 DEF CacheInv, CopiesInv, ClientInv
  <2>5. ServerInv(e)'
    <3>1. ~Abrupt(e) => Removed(e)'
      BY <1>2, <2>1, <2>2 DEF Removed
    <3>2. ~Abrupt(e) => ServerGets(e)' /\ ServerAgrees(e)'
      BY <1>2, <2>2, <3>1 DEF ServerGets, ServerAgrees
    <3>3. QED
      BY <1>8, <2>1, <2>2, <2>3, <3>2 DEF ServerInv
  <2>6. QED
    BY <1>4, <1>5, <1>7, <2>4, <2>5 DEF CopiesInv
<1>12. QED
  BY <1>9, <1>10, <1>11

-----------------------------------------------------------------------------
(***************************************************************************)
(* Reports.                                                                *)
(***************************************************************************)
LEMMA ReportValueStep ==
  ASSUME CacheInv, NEW e \in Endpoints, ReportValue(e)
  PROVE  ListsInv' /\ NodeInv' /\ CopiesInv'
<1>1. /\ live # Gone /\ e \in dirty /\ TheList \notin dirty /\ dirty' = dirty \ {e}
      /\ posted' = Post(e, Attrs.vals[e], bridge.vals[e])
      /\ raced' = (IF Waiting(e) THEN raced \cup {e} ELSE raced)
      /\ UNCHANGED <<bridge, objects, live, pc, path, answer, known, mirror, failed, parted>>
  BY DEF ReportValue, remote, tasks, client
<1>2. /\ Attrs' = Attrs /\ Reading' = Reading /\ Interviewing' = Interviewing
      /\ \A f : Returns(f)' = Returns(f)
  BY <1>1 DEF Attrs, Reading, Interviewing, Returns
<1>3. e \in bridge.parts /\ e # TheList
  BY <1>1, Numbers DEF CacheInv, TypeInv, BridgeInv
<1>4. /\ Loop \subseteq Loop'
      /\ \A p \in Loop' \ Loop : p.endpoint = e /\ p.new = bridge.vals[e]
      /\ Attrs.vals[e] = bridge.vals[e] \/ \E p \in Loop' : p.endpoint = e
  <2>1. CASE Attrs.vals[e] = bridge.vals[e]
    BY <1>1, <2>1, LoopStays DEF Post
  <2>2. CASE Attrs.vals[e] # bridge.vals[e]
    <3> DEFINE report == [endpoint |-> e, old |-> Attrs.vals[e], new |-> bridge.vals[e]]
    <3>1. report \in Callbacks
      BY <1>1, <1>3, BridgeTypes, LiveTypes DEF CacheInv, Callbacks
    <3>2. posted' = Append(posted, report)
      BY <1>1, <2>2 DEF Post
    <3>3. Loop' = Loop \cup {report}
      <4> HIDE DEF report
      <4> QED
        BY <3>1, <3>2, LoopGrows DEF CacheInv, TypeInv
    <3>4. report.endpoint = e /\ report.new = bridge.vals[e]
      OBVIOUS
    <3> HIDE DEF report
    <3> QED
      BY <3>3, <3>4
  <2>3. QED
    BY <2>1, <2>2
<1>5. ListsInv'
  BY <1>2, <1>3, <1>4 DEF CacheInv, ListsInv
<1>6. NodeInv'
  BY <1>1, <1>2 DEF CacheInv, NodeInv
<1>7. ASSUME NEW f \in Endpoints
      PROVE  ClientInv(f)' /\ ServerInv(f)'
  <2>1. ClientInv(f) /\ ServerInv(f) /\ (f \notin raced' => f \notin raced)
    BY <1>1 DEF CacheInv, CopiesInv
  <2>2. Settled(f) => Settled(f)'
    BY <1>1, <1>3, <1>4 DEF Settled, Loses
  <2>3. (Added(f) => Added(f)') /\ (Removed(f) => Removed(f)')
    BY <1>1, <1>4 DEF Added, Removed, Gains, Loses
  <2>4. Expected(f) => Expected(f)'
    BY <1>1, <2>3 DEF Expected, Finds
  <2>5. ClientReads(f)' = ClientReads(f) /\ ServerReads(f)' = ServerReads(f)
    BY <1>1 DEF ClientReads, ServerReads
  <2>6. (ClientHas(f) => ClientHas(f)') /\ (ClientAgrees(f) => ClientAgrees(f)')
    BY <1>1, <1>2, <2>3, <2>4 DEF ClientHas, ClientAgrees
  <2>7. ClientInv(f)'
    BY <1>1, <2>1, <2>2, <2>5, <2>6 DEF ClientInv
  <2>8. f \notin raced' /\ ServerGets(f) => ServerGets(f)'
    <3>1. f = e /\ f \notin raced' => \A p \in Loop : p.endpoint # e
      BY <1>1 DEF Waiting, Loop
    <3>2. QED
      BY <1>1, <1>4, <3>1 DEF ServerGets
  <2>9. ServerAgrees(f) => ServerAgrees(f)'
    BY <1>1, <1>2, <1>4, <2>3 DEF ServerAgrees
  <2>10. QED
    BY <2>1, <2>2, <2>5, <2>7, <2>8, <2>9 DEF ServerInv
<1>8. QED
  BY <1>5, <1>6, <1>7 DEF CopiesInv

LEMMA ReportPartsStep ==
  ASSUME CacheInv, ReportParts
  PROVE  ListsInv' /\ NodeInv' /\ CopiesInv'
<1>1. /\ live # Gone /\ TheList \in dirty /\ dirty' = dirty \ {TheList}
      /\ posted' = Post(TheList, Attrs.parts, bridge.parts)
      /\ UNCHANGED <<bridge, objects, live, pc, path, answer, known, mirror, failed, raced, parted>>
  BY DEF ReportParts, remote, tasks, client, history
<1>2. /\ Attrs' = Attrs /\ Reading' = Reading /\ Interviewing' = Interviewing
      /\ \A f : Returns(f)' = Returns(f)
  BY <1>1 DEF Attrs, Reading, Interviewing, Returns
<1>3. /\ Loop \subseteq Loop'
      /\ \A p \in Loop' \ Loop : p.endpoint = TheList /\ p.old = Attrs.parts /\ p.new = bridge.parts
      /\ \/ Attrs.parts = bridge.parts
         \/ \E p \in Loop' : p.endpoint = TheList /\ p.old = Attrs.parts /\ p.new = bridge.parts
  <2>1. CASE Attrs.parts = bridge.parts
    BY <1>1, <2>1, LoopStays DEF Post
  <2>2. CASE Attrs.parts # bridge.parts
    <3> DEFINE report == [endpoint |-> TheList, old |-> Attrs.parts, new |-> bridge.parts]
    <3>1. report \in Callbacks
      BY <1>1, BridgeTypes, LiveTypes DEF CacheInv, Callbacks
    <3>2. posted' = Append(posted, report)
      BY <1>1, <2>2 DEF Post
    <3>3. Loop' = Loop \cup {report}
      <4> HIDE DEF report
      <4> QED
        BY <3>1, <3>2, LoopGrows DEF CacheInv, TypeInv
    <3>4. report.endpoint = TheList /\ report.old = Attrs.parts /\ report.new = bridge.parts
      OBVIOUS
    <3> HIDE DEF report
    <3> QED
      BY <3>3, <3>4
  <2>3. QED
    BY <2>1, <2>2
<1>4. ListsInv'
  <2>1. \A e \in Attrs.parts : Returns(e)
    BY <1>1, LiveTypes DEF CacheInv, Returns, Attrs
  <2>2. QED
    BY <1>2, <1>3, <2>1 DEF CacheInv, ListsInv
<1>5. NodeInv'
  BY <1>1, <1>2 DEF CacheInv, NodeInv
<1>6. ASSUME NEW f \in Endpoints
      PROVE  ClientInv(f)' /\ ServerInv(f)'
  <2>1. ClientInv(f) /\ ServerInv(f) /\ f # TheList /\ (f \in dirty' <=> f \in dirty)
    BY <1>1, Numbers DEF CacheInv, CopiesInv
  <2>2. Settled(f) => Settled(f)'
    BY <1>1, <1>3, <2>1 DEF Settled, Loses
  <2>3. (Added(f) => Added(f)') /\ (Removed(f) => Removed(f)')
    BY <1>1, <1>3 DEF Added, Removed, Gains, Loses
  <2>4. Expected(f) => Expected(f)'
    BY <1>1, <2>3 DEF Expected, Finds
  <2>5. ClientReads(f)' = ClientReads(f) /\ ServerReads(f)' = ServerReads(f)
    BY <1>1 DEF ClientReads, ServerReads
  <2>6. (ClientHas(f) => ClientHas(f)') /\ (ClientAgrees(f) => ClientAgrees(f)')
    BY <1>1, <1>2, <2>3, <2>4 DEF ClientHas, ClientAgrees
  <2>7. (ServerGets(f) => ServerGets(f)') /\ (ServerAgrees(f) => ServerAgrees(f)')
    BY <1>1, <1>2, <1>3, <2>1, <2>3 DEF ServerGets, ServerAgrees
  <2>8. QED
    BY <1>1, <2>1, <2>2, <2>5, <2>6, <2>7 DEF ClientInv, ServerInv
<1>7. QED
  BY <1>4, <1>5, <1>6 DEF CopiesInv

LEMMA RunLateStep ==
  ASSUME CacheInv, RunLate
  PROVE  ListsInv' /\ NodeInv' /\ CopiesInv'
<1>1. /\ live = Gone /\ posted # <<>> /\ posted' = Tail(posted)
      /\ UNCHANGED <<bridge, dirty, objects, live, pc, path, answer, known, mirror, failed,
                     raced, parted>>
  BY DEF RunLate, remote, tasks, client, history
<1>2. Loop' \subseteq Loop
  BY <1>1, LoopShrinks DEF CacheInv, TypeInv
<1>3. Reading' = Reading /\ Interviewing' = Interviewing /\ \A f : Returns(f)' = Returns(f)
  BY <1>1 DEF Reading, Interviewing, Returns
<1>4. ListsInv' /\ NodeInv'
  BY <1>1, <1>2, <1>3 DEF CacheInv, ListsInv, NodeInv
<1>5. ASSUME NEW f \in Endpoints
      PROVE  ClientInv(f)' /\ ServerInv(f)'
  <2>1. ClientInv(f) /\ ServerInv(f)
    BY DEF CacheInv, CopiesInv
  <2>2. (Settled(f) => Settled(f)') /\ (ServerGets(f) => ServerGets(f)')
    BY <1>1, <1>2 DEF Settled, Loses, ServerGets
  <2>3. ClientReads(f)' = ClientReads(f) /\ ServerReads(f)' = ServerReads(f)
    BY <1>1 DEF ClientReads, ServerReads
  <2>4. ClientHas(f)' /\ ClientAgrees(f)' /\ ServerAgrees(f)'
    BY <1>1 DEF ClientHas, ClientAgrees, ServerAgrees
  <2>5. QED
    BY <1>1, <2>1, <2>2, <2>3, <2>4 DEF ClientInv, ServerInv
<1>6. QED
  BY <1>4, <1>5 DEF CopiesInv

LEMMA RunValueStep ==
  ASSUME CacheInv, RunValue
  PROVE  ListsInv' /\ NodeInv' /\ CopiesInv'
<1>1. /\ posted # <<>> /\ live # Gone /\ Due.endpoint # TheList /\ posted' = Tail(posted)
      /\ objects' = [objects EXCEPT ![live].vals[Due.endpoint] = Due.new]
      /\ ClientAttribute(Due.endpoint, Due.new)
      /\ UNCHANGED <<bridge, dirty, live, pc, path, answer, raced, parted>>
  BY DEF RunValue, remote, tasks, history
<1>2. TypeOK /\ Due \in Loop /\ Loop = {Due} \cup Loop'
  BY <1>1, LoopShrinks DEF CacheInv, TypeInv
<1>3. Due.endpoint \in Endpoints /\ Due.new \in Values /\ live \in Objects
  BY <1>1, <1>2, LoopMembers, LiveTypes DEF Callbacks, CacheInv
<1>4. /\ \A o \in Objects : objects'[o].parts = objects[o].parts
      /\ \A f \in Endpoints :
           objects'[live].vals[f] = IF f = Due.endpoint THEN Due.new ELSE objects[live].vals[f]
  <2> DEFINE e == Due.endpoint
             v == Due.new
  <2>1. objects \in [Objects -> Attributes]
    BY <1>2 DEF TypeOK
  <2>2. /\ e \in Endpoints /\ v \in Values \cup {Missing} /\ live \in Objects
        /\ objects' = [objects EXCEPT ![live].vals[e] = v]
    BY <1>1, <1>3
  <2> HIDE DEF e, v
  <2>3. \A o \in Objects : objects'[o].parts = objects[o].parts
    BY <2>1, <2>2, SetValue
  <2>4. objects'[live].vals[e] = v
    <3>1. objects'[live] = [objects[live] EXCEPT !.vals = [objects[live].vals EXCEPT ![e] = v]]
      BY <2>1, <2>2
    <3>2. objects[live] \in Attributes
      BY <2>1, <2>2
    <3>3. objects'[live].vals = [objects[live].vals EXCEPT ![e] = v]
      BY <3>1, <3>2 DEF Attributes
    <3>4. QED
      BY <2>2, <3>2, <3>3 DEF Attributes
  <2>5. \A f \in Endpoints \ {e} : objects'[live].vals[f] = objects[live].vals[f]
    BY <2>1, <2>2, SetValue
  <2>6. QED
    BY <2>3, <2>4, <2>5 DEF e, v
<1>5. /\ Attrs'.parts = Attrs.parts
      /\ \A f \in Endpoints : Attrs'.vals[f] = IF f = Due.endpoint THEN Due.new ELSE Attrs.vals[f]
  BY <1>1, <1>3, <1>4 DEF Attrs
<1>6. /\ known /\ known' /\ failed' = failed
      /\ \A f \in Endpoints : mirror'[f] = IF f = Due.endpoint /\ mirror[f] # Missing
                                             THEN Due.new ELSE mirror[f]
  <2>1. known
    BY <1>1 DEF CacheInv, NodeInv
  <2>2. mirror \in [Endpoints -> Values \cup {Missing}]
    BY <1>2 DEF TypeOK
  <2>3. QED
    BY <1>1, <1>3, <2>1, <2>2 DEF ClientAttribute
<1>7. /\ Reading' = Reading /\ Interviewing' = Interviewing
      /\ \A f : Returns(f)' = Returns(f)
  BY <1>1, <1>4 DEF Reading, Interviewing, Returns
<1>8. ListsInv' /\ NodeInv'
  BY <1>1, <1>2, <1>6, <1>7 DEF CacheInv, ListsInv, NodeInv
<1>9. ASSUME NEW f \in Endpoints
      PROVE  ClientInv(f)' /\ ServerInv(f)'
  <2>1. ClientInv(f) /\ ServerInv(f) /\ Missing \notin Values
    BY Numbers DEF CacheInv, CopiesInv
  <2>2. (Settled(f) => Settled(f)') /\ (ServerGets(f) => ServerGets(f)')
    BY <1>1, <1>2 DEF Settled, Loses, ServerGets
  <2>3. ClientReads(f)' = ClientReads(f) /\ ServerReads(f)' = ServerReads(f)
    BY <1>1 DEF ClientReads, ServerReads
  <2>4. Added(f)' = Added(f) /\ Removed(f)' = Removed(f)
    BY <1>1, <1>2, <1>5 DEF Added, Removed, Gains, Loses
  <2>5. Expected(f)' = Expected(f)
    BY <1>1, <2>4 DEF Expected, Finds
  <2>6. ClientHas(f) => ClientHas(f)'
    BY <1>1, <1>3, <1>6, <2>1, <2>5 DEF ClientHas
  <2>7. Settled(f) /\ ClientHas(f) /\ ClientAgrees(f) => ClientAgrees(f)'
    <3>1. CASE f = Due.endpoint
      <4>1. mirror[f] # Missing => mirror'[f] = Attrs'.vals[f]
        BY <1>5, <1>6, <3>1
      <4>2. Settled(f) => f \in bridge.parts
        BY <1>2, <3>1 DEF Settled
      <4>3. Expected(f) => Added(f)' \/ Interviewing'
        BY <1>7, <2>4 DEF Expected, Finds, Interviewing
      <4>4. QED
        BY <1>1, <4>1, <4>2, <4>3 DEF ClientHas, ClientAgrees
    <3>2. CASE f # Due.endpoint
      BY <1>1, <1>5, <1>6, <1>7, <2>4, <3>2 DEF ClientAgrees
    <3>3. QED
      BY <3>1, <3>2
  <2>8. ServerGets(f) /\ ServerAgrees(f) => ServerAgrees(f)'
    <3>1. CASE f = Due.endpoint
      <4>1. ServerGets(f) => Attrs'.vals[f] = bridge.vals[f] \/ f \in dirty
        BY <1>2, <1>5, <3>1 DEF ServerGets
      <4>2. QED
        BY <1>1, <4>1 DEF ServerAgrees
    <3>2. CASE f # Due.endpoint
      BY <1>1, <1>2, <1>5, <1>7, <2>4, <3>2 DEF ServerAgrees
    <3>3. QED
      BY <3>1, <3>2
  <2>9. QED
    BY <1>1, <2>1, <2>2, <2>3, <2>6, <2>7, <2>8 DEF ClientInv, ServerInv
<1>10. QED
  BY <1>8, <1>9 DEF CopiesInv

LEMMA RunPartsStep ==
  ASSUME CacheInv, RunParts
  PROVE  ListsInv' /\ NodeInv' /\ CopiesInv'
<1>1. /\ posted # <<>> /\ live # Gone /\ Due.endpoint = TheList /\ posted' = Tail(posted)
      /\ objects' = [objects EXCEPT ![live].vals =
           [e \in Endpoints |-> IF e \in (Due.old \ Due.new) THEN Missing ELSE @[e]]]
      /\ mirror' = [e \in Endpoints |-> IF e \in (Due.old \ Due.new) THEN Missing ELSE mirror[e]]
      /\ IF Due.new \ Due.old = {} THEN UNCHANGED pc
         ELSE \E i \in Interviewers : pc[i] = "idle" /\ pc' = [pc EXCEPT ![i] = "asked"]
      /\ UNCHANGED <<bridge, dirty, live, path, answer, known, failed, raced, parted>>
  BY DEF RunParts, remote, history
<1>2. /\ TypeOK /\ Due \in Loop /\ Loop = {Due} \cup Loop' /\ live \in Objects
      /\ objects \in [Objects -> Attributes]
  BY <1>1, LoopShrinks, LiveTypes DEF CacheInv, TypeInv, TypeOK
<1>3. /\ \A o \in Objects : objects'[o].parts = objects[o].parts
      /\ \A f \in Endpoints :
           objects'[live].vals[f] = IF f \in (Due.old \ Due.new) THEN Missing ELSE objects[live].vals[f]
  BY <1>1, <1>2, DropValues
<1>4. /\ Attrs'.parts = Attrs.parts
      /\ \A f \in Endpoints : Attrs'.vals[f] = IF Loses(Due, f) THEN Missing ELSE Attrs.vals[f]
      /\ \A f \in Endpoints : mirror'[f] = IF Loses(Due, f) THEN Missing ELSE mirror[f]
  BY <1>1, <1>2, <1>3 DEF Attrs, Loses
<1>5. /\ \A t \in Tasks : pc[t] # "idle" => pc'[t] = pc[t]
      /\ \A t \in Tasks : pc'[t] # pc[t] => t \in Interviewers /\ pc'[t] = "asked"
      /\ \A f : Gains(Due, f) => \E i \in Interviewers : pc'[i] = "asked"
  <2>1. pc \in [Tasks -> {"idle", "asked", "answered", "ended"}]
    BY <1>2 DEF TypeOK, Tasks
  <2>2. QED
    BY <1>1, <2>1 DEF Gains, Tasks
<1>6. (Interviewing => Interviewing') /\ \A f : Returns(f)' = Returns(f)
  BY <1>3, <1>5 DEF Interviewing, Returns, Tasks
<1>7. ListsInv' /\ NodeInv'
  BY <1>1, <1>2, <1>6 DEF CacheInv, ListsInv, NodeInv
<1>8. ASSUME NEW f \in Endpoints
      PROVE  ClientInv(f)' /\ ServerInv(f)'
  <2>1. ClientInv(f) /\ ServerInv(f) /\ f # TheList
    BY Numbers DEF CacheInv, CopiesInv
  <2>2. (Settled(f) => Settled(f)') /\ (ServerGets(f) => ServerGets(f)')
    BY <1>1, <1>2 DEF Settled, Loses, ServerGets
  <2>3. Settled(f) /\ Loses(Due, f) => f \notin bridge.parts /\ bridge.vals[f] = Missing
    BY <1>2 DEF Settled, CacheInv, TypeInv, BridgeInv, WellFormed
  <2>4. (ClientReads(f) => ClientReads(f)') /\ (ServerReads(f) => ServerReads(f)')
    BY <1>1, <1>5 DEF ClientReads, ServerReads, Tasks
  <2>5. Added(f) => Added(f)' \/ \E i \in Interviewers : pc'[i] = "asked"
    BY <1>1, <1>2, <1>4, <1>5 DEF Added, Gains
  <2>6. Removed(f) => Removed(f)' \/ Loses(Due, f)
    BY <1>1, <1>2, <1>4 DEF Removed, Loses
  <2>7. Expected(f) => Expected(f)'
    <3>1. ASSUME NEW i \in Interviewers, Finds(i, f)
          PROVE  Finds(i, f)'
      BY <1>1, <1>5, <3>1 DEF Finds, Tasks
    <3>2. QED
      BY <2>5, <3>1 DEF Expected, Finds
  <2>8. Settled(f) /\ ClientHas(f) => ClientHas(f)'
    BY <1>1, <1>4, <2>3, <2>7 DEF ClientHas
  <2>9. ClientAgrees(f) => ClientAgrees(f)'
    BY <1>1, <1>4, <1>6, <2>5 DEF ClientAgrees, Interviewing
  <2>10. Settled(f) /\ ServerAgrees(f) => ServerAgrees(f)'
    BY <1>1, <1>2, <1>4, <1>6, <2>1, <2>3, <2>6 DEF ServerAgrees
  <2>11. QED
    BY <1>1, <2>1, <2>2, <2>4, <2>8, <2>9, <2>10 DEF ClientInv, ServerInv
<1>9. QED
  BY <1>7, <1>8 DEF CopiesInv

-----------------------------------------------------------------------------
(***************************************************************************)
(* Reads, interviews and the removal.                                      *)
(***************************************************************************)
LEMMA ReadStep ==
  ASSUME CacheInv, NEW r \in Readers, NEW e \in Endpoints, Read(r, e)
  PROVE  ListsInv' /\ NodeInv' /\ CopiesInv'
<1>1. /\ live # Gone /\ pc' = [pc EXCEPT ![r] = "asked"] /\ path' = [path EXCEPT ![r] = e]
      /\ UNCHANGED <<bridge, dirty, objects, live, posted, answer, known, mirror, failed,
                     raced, parted>>
  BY DEF Read, remote, client, history
<1>2. /\ pc \in [Tasks -> {"idle", "asked", "answered", "ended"}] /\ path \in [Readers -> Endpoints]
      /\ Readers \cap Interviewers = {}
  BY AttributeAssumption DEF CacheInv, TypeInv, TypeOK, Tasks
<1>3. /\ pc'[r] = "asked" /\ \A t \in Tasks \ {r} : pc'[t] = pc[t]
      /\ \A q \in Readers \ {r} : path'[q] = path[q]
      /\ \A i \in Interviewers : pc'[i] = pc[i]
  BY <1>1, <1>2 DEF Tasks
<1>4. /\ Loop' = Loop /\ Attrs' = Attrs /\ Interviewing' = Interviewing
      /\ \A f : Returns(f)' = Returns(f)
  BY <1>1, <1>3 DEF Loop, Attrs, Interviewing, Returns
<1>5. ListsInv' /\ NodeInv'
  BY <1>1, <1>4 DEF CacheInv, ListsInv, NodeInv
<1>6. ASSUME NEW f \in Endpoints
      PROVE  ClientInv(f)' /\ ServerInv(f)'
  <2>1. ClientInv(f) /\ ServerInv(f)
    BY DEF CacheInv, CopiesInv
  <2>2. /\ Settled(f)' = Settled(f) /\ ServerGets(f)' = ServerGets(f)
        /\ Added(f)' = Added(f) /\ Removed(f)' = Removed(f)
    BY <1>1, <1>4 DEF Settled, ServerGets, Added, Removed, Gains, Loses
  <2>3. (ClientReads(f) => ClientReads(f)') /\ (ServerReads(f) => ServerReads(f)')
    BY <1>1, <1>2, <1>3 DEF ClientReads, ServerReads, Tasks
  <2>4. Expected(f)' = Expected(f)
    BY <1>1, <1>3, <2>2 DEF Expected, Finds
  <2>5. /\ ClientHas(f)' = ClientHas(f) /\ ClientAgrees(f)' = ClientAgrees(f)
        /\ ServerAgrees(f)' = ServerAgrees(f)
    BY <1>1, <1>4, <2>2, <2>4 DEF ClientHas, ClientAgrees, ServerAgrees
  <2>6. QED
    BY <1>1, <2>1, <2>2, <2>3, <2>5 DEF ClientInv, ServerInv
<1>7. QED
  BY <1>5, <1>6 DEF CopiesInv

LEMMA AskStep ==
  ASSUME CacheInv, NEW t \in Tasks, Interview(t) \/ Answer(t)
  PROVE  ListsInv' /\ NodeInv' /\ CopiesInv'
<1>1. UNCHANGED <<bridge, dirty, objects, live, posted, hold, path, known, mirror, failed,
                  raced, parted>>
  BY DEF Interview, Answer, remote, client, history
<1>2. /\ pc \in [Tasks -> {"idle", "asked", "answered", "ended"}] /\ answer \in [Tasks -> Attributes]
      /\ Readers \cap Interviewers = {} /\ WellFormed(bridge)
  BY AttributeAssumption DEF CacheInv, TypeInv, TypeOK, BridgeInv, Tasks
<1>3. /\ \A u \in Tasks \ {t} : pc'[u] = pc[u] /\ answer'[u] = answer[u]
      /\ \/ t \in Interviewers /\ pc[t] = "idle" /\ pc'[t] = "asked" /\ live # Gone
         \/ pc[t] = "asked" /\ pc'[t] = "answered" /\ answer'[t] = bridge
  BY <1>1, <1>2 DEF Interview, Answer
<1>4. /\ Loop' = Loop /\ Attrs' = Attrs /\ (Interviewing => Interviewing')
      /\ \A f : Returns(f)' = Returns(f)
  BY <1>1, <1>3 DEF Loop, Attrs, Interviewing, Returns, Tasks
<1>5. live = Gone => /\ Reading' \cap Readers = Reading \cap Readers
                     /\ Interviewing' = Interviewing
  BY <1>2, <1>3 DEF Reading, Interviewing, Tasks
<1>6. ListsInv' /\ NodeInv'
  BY <1>1, <1>4, <1>5 DEF CacheInv, ListsInv, NodeInv
<1>7. ASSUME NEW f \in Endpoints
      PROVE  ClientInv(f)' /\ ServerInv(f)'
  <2>1. ClientInv(f) /\ ServerInv(f)
    BY DEF CacheInv, CopiesInv
  <2>2. /\ Settled(f)' = Settled(f) /\ ServerGets(f)' = ServerGets(f)
        /\ Added(f)' = Added(f) /\ Removed(f)' = Removed(f)
    BY <1>1, <1>4 DEF Settled, ServerGets, Added, Removed, Gains, Loses
  <2>3. ClientReads(f) => ClientReads(f)'
    BY <1>1, <1>2, <1>3 DEF ClientReads, WellFormed, Tasks
  <2>4. ServerReads(f) => ServerReads(f)'
    BY <1>1, <1>2, <1>3 DEF ServerReads, Tasks
  <2>5. f \in bridge.parts /\ Expected(f) => Expected(f)'
    <3>1. ASSUME NEW i \in Interviewers, Finds(i, f), f \in bridge.parts
          PROVE  Finds(i, f)'
      BY <1>1, <1>3, <3>1 DEF Finds, Tasks
    <3>2. QED
      BY <2>2, <3>1 DEF Expected
  <2>6. (ClientHas(f) => ClientHas(f)') /\ (ClientAgrees(f) => ClientAgrees(f)')
    BY <1>1, <1>4, <2>2, <2>5 DEF ClientHas, ClientAgrees
  <2>7. ServerAgrees(f) => ServerAgrees(f)'
    BY <1>1, <1>4, <2>2 DEF ServerAgrees
  <2>8. QED
    BY <1>1, <2>1, <2>2, <2>3, <2>4, <2>6, <2>7 DEF ClientInv, ServerInv
<1>8. QED
  BY <1>6, <1>7 DEF CopiesInv

LEMMA AnswerFailsStep ==
  ASSUME CacheInv, NEW t \in Tasks, AnswerFails(t)
  PROVE  ListsInv' /\ NodeInv' /\ CopiesInv'
<1>1. /\ pc[t] = "asked" /\ pc' = [pc EXCEPT ![t] = "ended"]
      /\ UNCHANGED <<bridge, dirty, objects, live, posted, hold, path, answer, known, mirror, failed>>
      /\ IF t \in Interviewers THEN raced' = Endpoints /\ parted' = Endpoints
                               ELSE UNCHANGED <<raced, parted>>
  BY DEF AnswerFails, remote, client
<1>2. pc \in [Tasks -> {"idle", "asked", "answered", "ended"}]
  BY DEF CacheInv, TypeInv, TypeOK, Tasks
<1>3. pc'[t] = "ended" /\ \A u \in Tasks \ {t} : pc'[u] = pc[u]
  BY <1>1, <1>2
<1>4. Loop' = Loop /\ Attrs' = Attrs /\ \A f : Returns(f)' = Returns(f)
  BY <1>1 DEF Loop, Attrs, Returns
<1>5. Reading' \subseteq Reading /\ (Interviewing' => Interviewing)
  BY <1>3 DEF Reading, Interviewing, Tasks
<1>6. ListsInv' /\ NodeInv'
  BY <1>1, <1>4, <1>5 DEF CacheInv, ListsInv, NodeInv
<1>7. CASE t \in Interviewers
  BY <1>1, <1>6, <1>7 DEF CopiesInv, ClientInv, ServerInv
<1>8. CASE t \notin Interviewers
  <2>1. UNCHANGED <<raced, parted>> /\ \A i \in Interviewers : pc'[i] = pc[i]
    BY <1>1, <1>3, <1>8 DEF Tasks
  <2>2. Interviewing' = Interviewing
    BY <2>1 DEF Interviewing
  <2>3. ASSUME NEW f \in Endpoints
        PROVE  ClientInv(f)' /\ ServerInv(f)'
    <3>1. ClientInv(f) /\ ServerInv(f)
      BY DEF CacheInv, CopiesInv
    <3>2. /\ Settled(f)' = Settled(f) /\ ServerGets(f)' = ServerGets(f)
          /\ Added(f)' = Added(f) /\ Removed(f)' = Removed(f)
      BY <1>1, <1>4 DEF Settled, ServerGets, Added, Removed, Gains, Loses
    <3>3. (ClientReads(f) => ClientReads(f)') /\ (ServerReads(f) => ServerReads(f)')
      BY <1>1, <1>3 DEF ClientReads, ServerReads, Tasks
    <3>4. Expected(f)' = Expected(f)
      BY <1>1, <2>1, <3>2 DEF Expected, Finds
    <3>5. /\ ClientHas(f)' = ClientHas(f) /\ ClientAgrees(f)' = ClientAgrees(f)
          /\ ServerAgrees(f)' = ServerAgrees(f)
      BY <1>1, <1>4, <2>2, <3>2, <3>4 DEF ClientHas, ClientAgrees, ServerAgrees
    <3>6. QED
      BY <2>1, <3>1, <3>2, <3>3, <3>5 DEF ClientInv, ServerInv
  <2>4. QED
    BY <1>6, <2>3 DEF CopiesInv
<1>9. QED
  BY <1>7, <1>8

LEMMA ReadDoneStep ==
  ASSUME CacheInv, NEW r \in Readers, ReadDone(r)
  PROVE  ListsInv' /\ NodeInv' /\ CopiesInv'
<1> DEFINE e == path[r]
           v == answer[r].vals[e]
           sent == ~(v = Missing \/ v = objects[hold[r]].vals[e])
<1>1. /\ pc[r] = "answered" /\ pc' = [pc EXCEPT ![r] = "ended"]
      /\ IF ~sent THEN UNCHANGED <<objects, client>>
                  ELSE objects' = [objects EXCEPT ![hold[r]].vals[e] = v] /\ ClientAttribute(e, v)
      /\ parted' = (IF hold[r] = live THEN parted ELSE parted \cup {e})
      /\ UNCHANGED <<bridge, dirty, live, posted, hold, path, answer, raced>>
  BY DEF ReadDone, remote
<1>2. /\ pc \in [Tasks -> {"idle", "asked", "answered", "ended"}] /\ answer \in [Tasks -> Attributes]
      /\ hold \in [Tasks -> Objects \cup {Gone}] /\ objects \in [Objects -> Attributes]
      /\ mirror \in [Endpoints -> Values \cup {Missing}] /\ path \in [Readers -> Endpoints]
      /\ parted \subseteq Endpoints /\ Readers \cap Interviewers = {} /\ r \in Tasks
  BY AttributeAssumption DEF CacheInv, TypeInv, TypeOK, Tasks
<1>3. e \in Endpoints /\ hold[r] \in Objects /\ hold[r] # Gone /\ v \in Values \cup {Missing}
  <2>1. e \in Endpoints /\ answer[r] \in Attributes
    BY <1>2
  <2>2. hold[r] # Gone
    BY <1>1 DEF CacheInv, TypeInv, ObjectsInv
  <2>3. QED
    BY <1>2, <2>1, <2>2 DEF Attributes
<1>4. pc'[r] = "ended" /\ \A t \in Tasks \ {r} : pc'[t] = pc[t]
  BY <1>1, <1>2
<1>5. /\ \A o \in Objects : objects'[o].parts = objects[o].parts
      /\ \A o \in Objects : \A f \in Endpoints :
           o # hold[r] \/ f # e => objects'[o].vals[f] = objects[o].vals[f]
      /\ v # Missing => objects'[hold[r]].vals[e] = v
      /\ ~sent => objects' = objects
  <2>1. CASE ~sent
    BY <1>1, <2>1
  <2>2. CASE sent
    <3>1. objects' = [objects EXCEPT ![hold[r]].vals[e] = v]
      BY <1>1, <2>2
    <3>2. objects'[hold[r]] = [objects[hold[r]] EXCEPT !.vals = [objects[hold[r]].vals EXCEPT ![e] = v]]
      BY <1>2, <1>3, <3>1
    <3>3. objects[hold[r]] \in Attributes
      BY <1>2, <1>3
    <3>4. /\ objects'[hold[r]].vals = [objects[hold[r]].vals EXCEPT ![e] = v]
          /\ objects'[hold[r]].parts = objects[hold[r]].parts
          /\ objects[hold[r]].vals \in [Endpoints -> Values \cup {Missing}]
      <4> HIDE DEF e, v, sent
      <4> QED
        BY <3>2, <3>3 DEF Attributes
    <3>5. \A o \in Objects \ {hold[r]} : objects'[o] = objects[o]
      BY <1>2, <1>3, <3>1
    <3> HIDE DEF e, v, sent
    <3>6. QED
      BY <1>3, <2>2, <3>4, <3>5
  <2>3. QED
    BY <2>1, <2>2
<1>6. /\ \A f \in Endpoints : f # e => mirror'[f] = mirror[f]
      /\ (mirror[e] = Missing => mirror'[e] = Missing) /\ known' = known
      /\ ~sent => mirror' = mirror
      /\ known /\ sent /\ mirror[e] # Missing => mirror'[e] = v
      /\ (known => failed' = failed)
  <2>1. CASE ~sent
    BY <1>1, <2>1 DEF client
  <2>2. CASE sent
    <3>1. ClientAttribute(e, v)
      BY <1>1, <2>2
    <3> HIDE DEF e, v, sent
    <3>2. QED
      BY <1>2, <1>3, <2>2, <3>1 DEF ClientAttribute
  <2>3. QED
    BY <2>1, <2>2
<1>7. /\ Loop' = Loop /\ Interviewing' = Interviewing
      /\ Reading' \subseteq Reading /\ r \in Reading \cap Readers
      /\ \A f : Returns(f)' = Returns(f)
      /\ parted \subseteq parted' /\ (parted = Endpoints => parted' = Endpoints)
      /\ live # Gone => Attrs'.parts = Attrs.parts /\ live \in Objects
  <2>1. Loop' = Loop /\ Interviewing' = Interviewing /\ Reading' \subseteq Reading /\ r \in Reading
    BY <1>1, <1>2, <1>4 DEF Loop, Interviewing, Reading, Tasks
  <2>2. (\A f : Returns(f)' = Returns(f)) /\ (live # Gone => Attrs'.parts = Attrs.parts /\ live \in Objects)
    BY <1>1, <1>5, LiveTypes DEF CacheInv, Returns, Attrs
  <2>3. parted \subseteq parted' /\ (parted = Endpoints => parted' = Endpoints)
    BY <1>1, <1>2, <1>3
  <2>4. QED
    BY <2>1, <2>2, <2>3
<1>8. ListsInv'
  BY <1>7 DEF CacheInv, ListsInv
<1>9. NodeInv'
  <2>1. known' <=> live' # Gone
    BY <1>1, <1>6 DEF CacheInv, NodeInv
  <2>2. QED
    BY <1>1, <1>7, <2>1 DEF CacheInv, NodeInv
<1>10. ASSUME NEW f \in Endpoints
       PROVE  ClientInv(f)' /\ ServerInv(f)'
  <2>1. ClientInv(f) /\ ServerInv(f)
    BY DEF CacheInv, CopiesInv
  <2>2. Settled(f)' = Settled(f) /\ ServerGets(f)' = ServerGets(f)
    BY <1>1, <1>7 DEF Settled, ServerGets, Loses
  <2>3. (ClientReads(f) => ClientReads(f)') /\ (ServerReads(f) => ServerReads(f)')
    BY <1>1, <1>4 DEF ClientReads, ServerReads, Tasks
  <2>4. live # Gone => Added(f)' = Added(f) /\ Removed(f)' = Removed(f)
    BY <1>1, <1>7 DEF Added, Removed, Gains, Loses
  <2>5. live # Gone => Expected(f)' = Expected(f)
    <3>1. \A i \in Interviewers : pc'[i] = pc[i]
      BY <1>2, <1>4 DEF Tasks
    <3>2. QED
      BY <1>1, <2>4, <3>1 DEF Expected, Finds
  <2>6. live # Gone => known
    BY DEF CacheInv, NodeInv
  <2>7. (f # e \/ hold[r] # live) /\ live # Gone => Attrs'.vals[f] = Attrs.vals[f]
    BY <1>1, <1>5, <1>7 DEF Attrs
  <2>8. ClientInv(f)'
    <3> SUFFICES ASSUME f \notin parted' PROVE ClientInv(f)'
      BY DEF ClientInv
    <3>1. /\ f \notin parted /\ (f = e => hold[r] = live)
          /\ Settled(f) /\ ClientReads(f) /\ ClientHas(f) /\ ClientAgrees(f)
      BY <1>1, <1>7, <2>1 DEF ClientInv
    <3>2. ClientHas(f)'
      <4>1. mirror[f] # Missing => mirror'[f] # Missing
        <5> HIDE DEF e, v
        <5>1. CASE f # e
          BY <1>6, <5>1
        <5>2. CASE f = e
          BY <1>3, <1>6, <2>6, <3>1, <5>2 DEF CacheInv, NodeInv
        <5>3. QED
          BY <5>1, <5>2
      <4>2. QED
        BY <1>1, <2>5, <3>1, <4>1 DEF ClientHas
    <3>3. ClientAgrees(f)'
      <4>1. CASE f # e
        BY <1>1, <1>6, <1>7, <2>4, <2>7, <3>1, <4>1 DEF ClientAgrees
      <4>2. CASE f = e /\ ~sent
        BY <1>1, <1>5, <1>6, <1>7, <2>4, <3>1, <4>2 DEF ClientAgrees, Attrs
      <4>3. CASE f = e /\ sent /\ mirror[f] # Missing
        <5>1. live # Gone => mirror'[f] = v /\ Attrs'.vals[f] = v
          BY <1>1, <1>5, <1>6, <2>6, <3>1, <4>3 DEF Attrs
        <5>2. QED
          BY <1>1, <5>1 DEF ClientAgrees
      <4>4. CASE f = e /\ sent /\ mirror[f] = Missing
        <5>1. f \in bridge.parts
          BY <1>1, <3>1, <4>4 DEF ClientReads
        <5>2. live # Gone => Expected(f)
          BY <3>1, <4>4, <5>1 DEF ClientHas
        <5>3. Expected(f) => Added(f) \/ Interviewing
          BY DEF Expected, Finds, Interviewing
        <5>4. QED
          BY <1>1, <1>7, <2>4, <5>2, <5>3 DEF ClientAgrees
      <4>5. QED
        BY <4>1, <4>2, <4>3, <4>4
    <3>4. QED
      BY <2>2, <2>3, <3>1, <3>2, <3>3 DEF ClientInv
  <2>9. ServerReads(f) /\ ServerAgrees(f) => ServerAgrees(f)'
    <3>1. CASE f # e \/ hold[r] # live
      BY <1>1, <1>7, <2>4, <2>7, <3>1 DEF ServerAgrees
    <3>2. CASE f = e /\ hold[r] = live /\ v # Missing
      <4>1. Attrs'.vals[f] = v
        BY <1>1, <1>5, <3>2 DEF Attrs
      <4>2. ServerReads(f) => v = bridge.vals[f]
        BY <1>1, <1>2, <3>2 DEF ServerReads
      <4>3. QED
        BY <1>1, <4>1, <4>2 DEF ServerAgrees
    <3>3. CASE v = Missing
      <4>1. Attrs' = Attrs
        BY <1>1, <1>5, <3>3 DEF Attrs
      <4>2. QED
        BY <1>1, <1>7, <2>4, <4>1 DEF ServerAgrees
    <3>4. QED
      BY <3>1, <3>2, <3>3
  <2>10. QED
    BY <1>1, <2>1, <2>2, <2>3, <2>8, <2>9 DEF ServerInv
<1>11. QED
  BY <1>8, <1>9, <1>10 DEF CopiesInv

LEMMA InterviewDoneStep ==
  ASSUME CacheInv, NEW i \in Interviewers, InterviewDone(i)
  PROVE  ListsInv' /\ NodeInv' /\ CopiesInv'
<1>1. /\ pc[i] = "answered" /\ pc' = [pc EXCEPT ![i] = "ended"] /\ live' = NewObject
      /\ objects' = [objects EXCEPT ![NewObject] = answer[i]]
      /\ ClientNode(answer[i]) /\ parted' = parted \cup Vanished(i)
      /\ UNCHANGED <<bridge, dirty, posted, path, answer, raced>>
  BY DEF InterviewDone, remote
<1>2. /\ pc \in [Tasks -> {"idle", "asked", "answered", "ended"}] /\ answer \in [Tasks -> Attributes]
      /\ objects \in [Objects -> Attributes] /\ Readers \cap Interviewers = {} /\ i \in Tasks
      /\ WellFormed(answer[i])
  BY <1>1, AttributeAssumption DEF CacheInv, TypeInv, TypeOK, BridgeInv, Tasks
<1>3. NewObject \in Objects /\ NewObject # Gone
  BY <1>1, ObjectsSuffice DEF CacheInv
<1>4. Attrs' = answer[i] /\ live' # Gone
  BY <1>1, <1>2, <1>3 DEF Attrs
<1>5. pc'[i] = "ended" /\ \A t \in Tasks \ {i} : pc'[t] = pc[t]
  BY <1>1, <1>2
<1>6. Loop' = Loop /\ \A f : Returns(f) => Returns(f)'
  <2>1. objects[NewObject].parts = {}
    <3>1. NewObject >= NewObject
      BY <1>3, Numbers
    <3>2. QED
      BY <1>3, <3>1 DEF CacheInv, TypeInv, ObjectsInv
  <2>2. \A o \in Objects : o # NewObject => objects'[o] = objects[o]
    BY <1>1, <1>2
  <2>3. QED
    BY <1>1, <2>1, <2>2 DEF Loop, Returns
<1>7. /\ known' /\ failed' = failed
      /\ \A f \in Endpoints : f \notin parted' => mirror'[f] = answer[i].vals[f]
  BY <1>1 DEF ClientNode, Vanished
<1>8. ListsInv'
  BY <1>6 DEF CacheInv, ListsInv
<1>9. NodeInv'
  BY <1>1, <1>4, <1>7 DEF CacheInv, NodeInv
<1>10. ASSUME NEW f \in Endpoints
       PROVE  ClientInv(f)' /\ ServerInv(f)'
  <2>1. ClientInv(f) /\ ServerInv(f) /\ (f \in parted => f \in parted')
    BY <1>1 DEF CacheInv, CopiesInv
  <2>2. Settled(f)' = Settled(f) /\ ServerGets(f)' = ServerGets(f)
    BY <1>1, <1>6 DEF Settled, ServerGets, Loses
  <2>3. (ClientReads(f) => ClientReads(f)') /\ (ServerReads(f) => ServerReads(f)')
    BY <1>1, <1>5 DEF ClientReads, ServerReads, Tasks
  <2>4. f \notin parted' => ClientAgrees(f)'
    BY <1>4, <1>7 DEF ClientAgrees
  <2>5. ServerReads(f) => ServerAgrees(f)'
    <3>1. ServerReads(f) => answer[i].vals[f] = bridge.vals[f]
      BY <1>1, <1>2 DEF ServerReads
    <3>2. QED
      BY <1>1, <1>4, <3>1 DEF ServerAgrees
  <2>6. f \notin parted' /\ ClientHas(f) => ClientHas(f)'
    <3> SUFFICES ASSUME f \notin parted', ClientHas(f), f \in bridge.parts, answer[i].vals[f] = Missing
                 PROVE  Expected(f)'
      BY <1>1, <1>7 DEF ClientHas
    <3>1. mirror[f] = Missing /\ f \notin answer[i].parts
      BY <1>1, <1>2 DEF Vanished, WellFormed
    <3>2. live # Gone
      BY <1>1, <2>1 DEF CacheInv, NodeInv, Interviewing
    <3>3. Expected(f)
      BY <3>1, <3>2 DEF ClientHas
    <3>4. Added(f) => Added(f)'
      BY <1>1, <1>4, <1>6, <3>1 DEF Added, Gains
    <3>5. ASSUME NEW j \in Interviewers, Finds(j, f)
          PROVE  Finds(j, f)'
      <4>1. j # i
        BY <1>1, <3>1, <3>5 DEF Finds
      <4>2. QED
        BY <1>1, <1>5, <3>5, <4>1 DEF Finds, Tasks
    <3>6. QED
      BY <3>3, <3>4, <3>5 DEF Expected
  <2>7. QED
    BY <1>1, <2>1, <2>2, <2>3, <2>4, <2>5, <2>6 DEF ClientInv, ServerInv
<1>11. QED
  BY <1>8, <1>9, <1>10 DEF CopiesInv

LEMMA RemoveStep ==
  ASSUME CacheInv, RemoveNode
  PROVE  ListsInv' /\ NodeInv' /\ CopiesInv'
<1>1. /\ live' = Gone /\ known' = FALSE /\ failed' = failed
      /\ IF posted = <<>> /\ Reading = {} THEN UNCHANGED <<raced, parted>>
                                          ELSE raced' = Endpoints /\ parted' = Endpoints
      /\ UNCHANGED <<bridge, dirty, objects, posted, pc, path, answer>>
  BY DEF RemoveNode, remote, tasks
<1>2. /\ Loop' = Loop /\ Reading' = Reading /\ Interviewing' = Interviewing
      /\ \A f : Returns(f)' = Returns(f)
  BY <1>1 DEF Loop, Reading, Interviewing, Returns
<1>3. ListsInv'
  BY <1>2 DEF CacheInv, ListsInv
<1>4. NodeInv'
  <2>1. Interviewing => Reading # {}
    BY DEF Interviewing, Reading
  <2>2. QED
    BY <1>1, <1>2, <2>1 DEF CacheInv, NodeInv
<1>5. ASSUME NEW f \in Endpoints
      PROVE  ClientInv(f)' /\ ServerInv(f)'
  <2>1. /\ ClientInv(f) /\ ServerInv(f)
        /\ (f \notin parted' => f \notin parted) /\ (f \notin raced' => f \notin raced)
    BY <1>1 DEF CacheInv, CopiesInv
  <2>2. Settled(f)' = Settled(f) /\ ServerGets(f)' = ServerGets(f)
    BY <1>1, <1>2 DEF Settled, ServerGets, Loses
  <2>3. ClientReads(f)' = ClientReads(f) /\ ServerReads(f)' = ServerReads(f)
    BY <1>1 DEF ClientReads, ServerReads
  <2>4. ClientHas(f)' /\ ClientAgrees(f)' /\ ServerAgrees(f)'
    BY <1>1 DEF ClientHas, ClientAgrees, ServerAgrees
  <2>5. QED
    BY <2>1, <2>2, <2>3, <2>4 DEF ClientInv, ServerInv
<1>6. QED
  BY <1>3, <1>4, <1>5 DEF CopiesInv

LEMMA StutterStep ==
  ASSUME CacheInv, UNCHANGED vars
  PROVE  ListsInv' /\ NodeInv' /\ CopiesInv'
<1>1. UNCHANGED <<bridge, dirty, objects, live, posted, pc, path, answer, known, mirror, failed,
                  raced, parted>>
  BY DEF vars, remote, tasks, client, history
<1>2. /\ Loop' = Loop /\ Attrs' = Attrs /\ Reading' = Reading /\ Interviewing' = Interviewing
      /\ \A f : Returns(f)' = Returns(f)
  BY <1>1 DEF Loop, Attrs, Reading, Interviewing, Returns
<1>3. ListsInv' /\ NodeInv'
  BY <1>1, <1>2 DEF CacheInv, ListsInv, NodeInv
<1>4. ASSUME NEW f \in Endpoints
      PROVE  ClientInv(f)' /\ ServerInv(f)'
  <2>1. ClientInv(f) /\ ServerInv(f)
    BY DEF CacheInv, CopiesInv
  <2>2. Settled(f)' = Settled(f) /\ Added(f)' = Added(f) /\ Removed(f)' = Removed(f)
    BY <1>1, <1>2 DEF Settled, Added, Removed, Gains, Loses
  <2>3. Expected(f)' = Expected(f)
    BY <1>1, <2>2 DEF Expected, Finds
  <2>4. ClientInv(f)' = ClientInv(f)
    BY <1>1, <1>2, <2>2, <2>3 DEF ClientInv, ClientReads, ClientHas, ClientAgrees
  <2>5. ServerInv(f)' = ServerInv(f)
    BY <1>1, <1>2, <2>2 DEF ServerInv, ServerReads, ServerGets, ServerAgrees
  <2>6. QED
    BY <2>1, <2>4, <2>5
<1>5. QED
  BY <1>3, <1>4 DEF CopiesInv

LEMMA CacheStep ==
  ASSUME CacheInv, [Next]_vars
  PROVE  CacheInv'
<1>1. TypeInv'
  BY TypeStep DEF CacheInv
<1>2. ListsInv' /\ NodeInv' /\ CopiesInv'
  <2>1. ASSUME NEW e \in Endpoints, ChangeValue(e) \/ AddEndpoint(e) \/ DropEndpoint(e)
        PROVE  ListsInv' /\ NodeInv' /\ CopiesInv'
    BY <2>1, BridgeSteps
  <2>2. ASSUME NEW e \in Endpoints, NEW r \in Readers, Read(r, e)
        PROVE  ListsInv' /\ NodeInv' /\ CopiesInv'
    BY <2>2, ReadStep
  <2>3. ASSUME NEW t \in Tasks, Interview(t) \/ Answer(t)
        PROVE  ListsInv' /\ NodeInv' /\ CopiesInv'
    BY <2>3, AskStep
  <2>4. ASSUME NEW t \in Tasks, ReadDone(t)
        PROVE  ListsInv' /\ NodeInv' /\ CopiesInv'
    <3>1. t \in Readers
      BY <2>4 DEF ReadDone
    <3>2. QED
      BY <2>4, <3>1, ReadDoneStep
  <2>5. ASSUME NEW t \in Tasks, InterviewDone(t)
        PROVE  ListsInv' /\ NodeInv' /\ CopiesInv'
    <3>1. t \in Interviewers
      BY <2>5 DEF InterviewDone
    <3>2. QED
      BY <2>5, <3>1, InterviewDoneStep
  <2>6. QED
    BY <2>1, <2>2, <2>3, <2>4, <2>5, ReportValueStep, ReportPartsStep, RunLateStep, RunValueStep,
       RunPartsStep, AnswerFailsStep, RemoveStep, StutterStep DEF Next, Tasks, Read
<1>3. QED
  BY <1>1, <1>2 DEF CacheInv

\* CacheInv is inductive: a list that waits holds what the server knew, a
\* waiting value is of an endpoint that is still there, and both ends lag
\* behind by what waits or is sampled.
THEOREM CacheIsConsistent == Spec => []CacheInv
<1>1. Init => CacheInv
  BY CacheStart
<1>2. CacheInv /\ [Next]_vars => CacheInv'
  BY CacheStep
<1>3. QED
  BY <1>1, <1>2, PTL DEF Spec

-----------------------------------------------------------------------------
(***************************************************************************)
(* What the invariant says.                                                *)
(***************************************************************************)
\* Every variable of the cache, the loop and the client keeps its type, also
\* in the node object a read took before an interview put another in its place.
THEOREM CacheTypes == Spec => []TypeOK
<1>1. CacheInv => TypeOK
  BY DEF CacheInv, TypeInv
<1>2. QED
  BY <1>1, CacheIsConsistent, PTL

\* attribute_updated_callback, _handle_endpoints_added and _removed, reads and
\* interviews leave the server with what the bridge has once nothing is on its
\* way, whatever their order, but for what changed while it was read.
THEOREM ServerCatchesUp == Spec => []CacheConverges
<1>1. CacheInv => CacheConverges
  <2> SUFFICES ASSUME CacheInv, Quiet, NEW e \in Endpoints \ raced
               PROVE  Attrs.vals[e] = bridge.vals[e]
    BY DEF CacheConverges
  <2>1. Loop = {} /\ dirty = {} /\ live # Gone /\ ~Interviewing
    BY DEF Quiet, Loop, Interviewing, Reading
  <2>2. ServerAgrees(e)
    BY DEF CacheInv, CopiesInv, ServerInv
  <2>3. QED
    BY <2>1, <2>2 DEF ServerAgrees, Removed
<1>2. QED
  BY <1>1, CacheIsConsistent, PTL

\* The client that applies NODE_UPDATED, ATTRIBUTE_UPDATED and ENDPOINT_REMOVED
\* as they come then has what the server has.
THEOREM ClientCatchesUp == Spec => []MirrorMatches
<1>1. CacheInv => MirrorMatches
  <2> SUFFICES ASSUME CacheInv, Quiet
               PROVE  known /\ \A e \in Endpoints \ parted : mirror[e] = Attrs.vals[e]
    BY DEF MirrorMatches
  <2>1. Loop = {} /\ dirty = {} /\ live # Gone /\ ~Interviewing
    BY DEF Quiet, Loop, Interviewing, Reading
  <2>2. known
    BY <2>1 DEF CacheInv, NodeInv
  <2>3. ASSUME NEW e \in Endpoints \ parted
        PROVE  mirror[e] = Attrs.vals[e]
    <3>1. ClientAgrees(e)
      BY <2>3 DEF CacheInv, CopiesInv, ClientInv
    <3>2. QED
      BY <2>1, <3>1 DEF ClientAgrees, Added
  <2>4. QED
    BY <2>2, <2>3
<1>2. QED
  BY <1>1, CacheIsConsistent, PTL

\* The client's handler raises only for the update of a read that ends while the
\* node is gone.
THEOREM ClientHandlesEvents == Spec => OnlyOrphanReadsFail
<1> DEFINE Orphaned == live = Gone /\ \E r \in Readers : pc[r] = "answered" /\ pc'[r] = "ended"
<1>1. CacheInv /\ [Next]_vars => [failed' # failed => Orphaned]_vars
  <2> SUFFICES ASSUME CacheInv, Next, failed' # failed PROVE Orphaned
    BY DEF vars, client
  <2>1. known <=> live # Gone
    BY DEF CacheInv, NodeInv
  <2>2. pc \in [Tasks -> {"idle", "asked", "answered", "ended"}]
    BY DEF CacheInv, TypeInv, TypeOK, Tasks
  <2>3. CASE RunValue
    BY <2>1, <2>3 DEF RunValue, ClientAttribute
  <2>4. ASSUME NEW r \in Tasks, ReadDone(r) PROVE Orphaned
    <3>1. r \in Readers /\ pc[r] = "answered" /\ pc'[r] = "ended"
      BY <2>2, <2>4 DEF ReadDone
    <3>2. ~known
      BY <2>4 DEF ReadDone, ClientAttribute, client
    <3>3. QED
      BY <2>1, <3>1, <3>2
  <2>5. ASSUME NEW t \in Tasks,
               Interview(t) \/ Answer(t) \/ AnswerFails(t) \/ InterviewDone(t)
        PROVE  FALSE
    BY <2>5 DEF Interview, Answer, AnswerFails, InterviewDone, ClientNode, client
  <2>6. ASSUME NEW e \in Endpoints,
               \/ ChangeValue(e) \/ AddEndpoint(e) \/ DropEndpoint(e) \/ ReportValue(e)
               \/ \E r \in Readers : Read(r, e)
        PROVE  FALSE
    BY <2>6 DEF ChangeValue, AddEndpoint, DropEndpoint, ReportValue, Read, client
  <2>7. CASE ReportParts \/ RunLate \/ RunParts \/ RemoveNode
    BY <2>7 DEF ReportParts, RunLate, RunParts, RemoveNode, client
  <2>8. QED
    BY <2>3, <2>4, <2>5, <2>6, <2>7 DEF Next, Tasks
<1>2. QED
  BY <1>1, CacheIsConsistent, PTL DEF Spec, OnlyOrphanReadsFail

-----------------------------------------------------------------------------
(***************************************************************************)
(* The poller of custom attributes (AttributePoller).                      *)
(***************************************************************************)
\* The node that is read, or has been, is the first of those still to come.
States == {r \in [at : {"start", "next", "read", "pause"}, todo : Seq(Nodes)] :
             r.at \in {"read", "pause"} => r.todo # <<>>}

\* remove_node takes the node's entry out, and nothing else.
LEMMA WithoutOne ==
  ASSUME polled \in Seq(Nodes), NEW n
  PROVE  /\ Without(n) \in Seq(Nodes)
         /\ ToSet(Without(n)) \subseteq ToSet(polled)
         /\ (\A i, j \in DOMAIN polled : polled[i] = polled[j] => i = j) =>
              /\ n \notin ToSet(Without(n))
              /\ \A i, j \in DOMAIN Without(n) : Without(n)[i] = Without(n)[j] => i = j
<1>0. DOMAIN polled = 1..Len(polled) /\ Len(polled) \in Nat
  OBVIOUS
<1>1. CASE n \notin ToSet(polled)
  BY <1>1 DEF Without
<1>2. CASE n \in ToSet(polled)
  <2> DEFINE k == CHOOSE i \in DOMAIN polled : polled[i] = n
             new == RemoveAt(polled, k)
  <2>1. k \in DOMAIN polled /\ polled[k] = n
    BY <1>2 DEF ToSet
  <2> HIDE DEF k
  <2>2. /\ new \in Seq(Nodes) /\ Len(new) = Len(polled) - 1
        /\ \A i \in 1..(k - 1) : new[i] = polled[i]
        /\ \A i \in k..Len(new) : new[i] = polled[i + 1]
    <3> DEFINE a == SubSeq(polled, 1, k - 1)
               b == SubSeq(polled, k + 1, Len(polled))
    <3>1. /\ a \in Seq(Nodes) /\ Len(a) = k - 1
          /\ \A i \in 1..(k - 1) : a[i] = polled[i]
      BY <1>0, <2>1
    <3>2. /\ b \in Seq(Nodes) /\ Len(b) = Len(polled) - k
          /\ \A i \in 1..(Len(polled) - k) : b[i] = polled[i + k]
      BY <1>0, <2>1
    <3>3. new = a \o b
      BY DEF RemoveAt
    <3> HIDE DEF a, b, new
    <3>4. new \in Seq(Nodes) /\ Len(new) = Len(a) + Len(b)
      BY <3>1, <3>2, <3>3
    <3>5. \A i \in 1..(k - 1) : new[i] = polled[i]
      BY <1>0, <2>1, <3>1, <3>2, <3>3
    <3>6. ASSUME NEW i \in k..Len(new) PROVE new[i] = polled[i + 1]
      <4>1. i - Len(a) \in 1..Len(b) /\ i \in Nat /\ i > Len(a) /\ i <= Len(a) + Len(b)
        BY <1>0, <2>1, <3>1, <3>2, <3>4
      <4>2. new[i] = b[i - Len(a)]
        BY <3>1, <3>2, <3>3, <4>1
      <4>3. /\ k \in 1..Len(polled) /\ Len(a) = k - 1 /\ Len(b) = Len(polled) - k
            /\ Len(polled) \in Nat
        BY <1>0, <2>1, <3>1, <3>2
      <4>4. i - Len(a) \in 1..(Len(polled) - k) /\ (i - Len(a)) + k = i + 1
        BY <4>1, <4>3
      <4>5. b[i - Len(a)] = polled[(i - Len(a)) + k]
        BY <3>2, <4>4
      <4>6. QED
        BY <4>2, <4>4, <4>5
    <3>7. Len(new) = Len(polled) - 1
      <4>1. /\ Len(new) = Len(a) + Len(b) /\ Len(a) = k - 1 /\ Len(b) = Len(polled) - k
            /\ k \in 1..Len(polled) /\ Len(polled) \in Nat
        BY <1>0, <2>1, <3>1, <3>2, <3>4
      <4>2. QED
        BY <4>1
    <3>8. QED
      BY <3>4, <3>5, <3>6, <3>7
  <2>3. Without(n) = new
    BY <1>2 DEF Without, k
  <2> HIDE DEF new
  <2>4. DOMAIN new = 1..(Len(polled) - 1)
    BY <2>2
  <2> DEFINE at(i) == IF i < k THEN i ELSE i + 1
  <2>5. ASSUME NEW i \in DOMAIN new
        PROVE  at(i) \in DOMAIN polled /\ at(i) # k /\ new[i] = polled[at(i)]
    BY <1>0, <2>1, <2>2, <2>4
  <2>6. ToSet(new) \subseteq ToSet(polled)
    BY <2>5 DEF ToSet
  <2>7. ASSUME \A i, j \in DOMAIN polled : polled[i] = polled[j] => i = j
        PROVE  /\ n \notin ToSet(new)
               /\ \A i, j \in DOMAIN new : new[i] = new[j] => i = j
    <3>1. n \notin ToSet(new)
      BY <2>1, <2>5, <2>7 DEF ToSet
    <3>2. ASSUME NEW i \in DOMAIN new, NEW j \in DOMAIN new, new[i] = new[j]
          PROVE  i = j
      <4>1. at(i) = at(j)
        BY <2>5, <2>7, <3>2
      <4>2. QED
        BY <1>0, <2>1, <2>4, <4>1
    <3>3. QED
      BY <3>1, <3>2
  <2>8. QED
    BY <2>2, <2>3, <2>6, <2>7
<1>3. QED
  BY <1>1, <1>2

\* The inductive invariant: a node is in the table once, so that remove_node
\* takes all of it out, and a setup at work is of a node that is there, or one
\* that has begun while the node was being removed.
PollerInv ==
  /\ PollerTypeOK
  /\ rounds \in Seq(States) /\ Len(rounds) <= 1
  /\ ToSet(polled) \subseteq present \cup revived
  /\ \A i, j \in DOMAIN polled : polled[i] = polled[j] => i = j
  /\ setup \subseteq present \cup revived
  /\ setup \cap removing \subseteq revived

\* A step of a round leaves one round at most.
RoundsOK(rs) == rs \in Seq(States) /\ Len(rs) <= 1

LEMMA RoundSteps ==
  ASSUME PollerInv, NEW i \in DOMAIN rounds,
         \/ RoundStarts(i) \/ RoundNext(i) \/ ReadEnds(i) \/ PauseEnds(i) \/ RoundEnds(i)
  PROVE  /\ RoundsOK(rounds') /\ UNCHANGED <<nodeVars, polled>>
         /\ timer' \in BOOLEAN /\ broken' \in BOOLEAN
<1>0. /\ rounds \in Seq(States) /\ Len(rounds) <= 1 /\ Len(rounds) \in Nat
      /\ DOMAIN rounds = 1..Len(rounds) /\ polled \in Seq(Nodes)
      /\ timer \in BOOLEAN /\ broken \in BOOLEAN
  BY DEF PollerInv, PollerTypeOK
<1>1. rounds[i] \in States
  BY <1>0
<1>2. RoundsOK(RemoveAt(rounds, i))
  <2> DEFINE a == SubSeq(rounds, 1, i - 1)
             b == SubSeq(rounds, i + 1, Len(rounds))
  <2>1. a \in Seq(States) /\ Len(a) = i - 1
    BY <1>0
  <2>2. b \in Seq(States) /\ Len(b) = Len(rounds) - i
    BY <1>0
  <2>3. RemoveAt(rounds, i) = a \o b
    BY DEF RemoveAt
  <2> HIDE DEF a, b
  <2>4. QED
    BY <1>0, <2>1, <2>2, <2>3 DEF RoundsOK
<1>3. ASSUME NEW r \in States PROVE RoundsOK([rounds EXCEPT ![i] = r])
  <2>1. [rounds EXCEPT ![i] = r] \in [1..Len(rounds) -> States]
    BY <1>0
  <2>2. QED
    BY <1>0, <2>1 DEF RoundsOK
<1>4. CASE RoundStarts(i)
  <2>1. [at |-> "next", todo |-> polled] \in States
    BY <1>0 DEF States
  <2>2. QED
    BY <1>0, <1>3, <1>4, <2>1 DEF RoundStarts
<1>5. CASE RoundNext(i)
  <2>1. rounds[i].todo \in Seq(Nodes) /\ rounds[i].todo # <<>>
    BY <1>1, <1>5 DEF States, RoundNext
  <2>2. Tail(rounds[i].todo) \in Seq(Nodes)
    BY <2>1
  <2>3. rounds[i].at = "next" => [rounds[i] EXCEPT !.todo = Tail(@)] \in States
    BY <1>1, <2>2 DEF States
  <2>4. [rounds[i] EXCEPT !.at = "read"] \in States
    BY <1>1, <2>1 DEF States
  <2>5. [rounds EXCEPT ![i].todo = Tail(@)] =
          [rounds EXCEPT ![i] = [rounds[i] EXCEPT !.todo = Tail(@)]]
    OBVIOUS
  <2>6. [rounds EXCEPT ![i].at = "read"] =
          [rounds EXCEPT ![i] = [rounds[i] EXCEPT !.at = "read"]]
    OBVIOUS
  <2>7. RoundsOK([rounds EXCEPT ![i].todo = Tail(@)]) /\ RoundsOK([rounds EXCEPT ![i].at = "read"])
    BY <1>3, <1>5, <2>3, <2>4, <2>5, <2>6 DEF RoundNext
  <2>8. QED
    BY <1>0, <1>2, <1>5, <2>7 DEF RoundNext
<1>6. CASE ReadEnds(i)
  <2>1. [rounds[i] EXCEPT !.at = "pause"] \in States
    BY <1>1, <1>6 DEF States, ReadEnds
  <2>2. [rounds EXCEPT ![i].at = "pause"] =
          [rounds EXCEPT ![i] = [rounds[i] EXCEPT !.at = "pause"]]
    OBVIOUS
  <2>3. QED
    BY <1>0, <1>3, <1>6, <2>1, <2>2 DEF ReadEnds
<1>7. CASE PauseEnds(i)
  <2>1. [rounds EXCEPT ![i] = [at |-> "next", todo |-> Tail(@.todo)]] =
          [rounds EXCEPT ![i] = [at |-> "next", todo |-> Tail(rounds[i].todo)]]
    OBVIOUS
  <2>2. rounds[i].todo \in Seq(Nodes) /\ rounds[i].todo # <<>>
    BY <1>1, <1>7 DEF States, PauseEnds
  <2>3. Tail(rounds[i].todo) \in Seq(Nodes)
    BY <2>2
  <2>4. [at |-> "next", todo |-> Tail(rounds[i].todo)] \in States
    BY <2>3 DEF States
  <2>5. QED
    BY <1>0, <1>3, <1>7, <2>1, <2>4 DEF PauseEnds
<1>8. CASE RoundEnds(i)
  BY <1>0, <1>2, <1>8 DEF RoundEnds, Schedule
<1>9. QED
  BY <1>4, <1>5, <1>6, <1>7, <1>8

-----------------------------------------------------------------------------
\* The server starts with nothing to poll.
LEMMA PollerStarts == PollerInit => PollerInv
<1> SUFFICES ASSUME PollerInit PROVE PollerInv
  OBVIOUS
<1>1. polled \in Seq(Nodes) /\ ToSet(polled) = {} /\ DOMAIN polled = {}
  BY DEF PollerInit, ToSet
<1>2. rounds \in Seq(States) /\ Len(rounds) <= 1 /\ rounds \in Seq([at : {"start", "next", "read", "pause"}, todo : Seq(Nodes)])
  BY DEF PollerInit
<1>3. PollerTypeOK
  <2>1. /\ present \subseteq Nodes /\ avail \subseteq present /\ setup \subseteq Nodes
        /\ removing \subseteq present /\ revived \subseteq Nodes
        /\ {timer, broken} \subseteq BOOLEAN
    BY DEF PollerInit
  <2>2. QED
    BY <1>1, <1>2, <2>1 DEF PollerTypeOK
<1>4. QED
  BY <1>1, <1>2, <1>3 DEF PollerInit, PollerInv

\* The rounds as PollerTypeOK has them.
LEMMA RoundsTyped ==
  ASSUME NEW rs, RoundsOK(rs)
  PROVE  rs \in Seq([at : {"start", "next", "read", "pause"}, todo : Seq(Nodes)]) /\ Len(rs) <= 1
<1>1. States \subseteq [at : {"start", "next", "read", "pause"}, todo : Seq(Nodes)]
  BY DEF States
<1> DEFINE R == [at : {"start", "next", "read", "pause"}, todo : Seq(Nodes)]
<1> HIDE DEF R
<1>2. rs \in Seq(States) /\ Len(rs) <= 1 /\ States \subseteq R
  BY <1>1 DEF RoundsOK, R
<1>3. rs \in Seq(R)
  BY <1>2
<1>4. QED
  BY <1>2, <1>3 DEF R

\* A setup enters the node once.
LEMMA WithOne ==
  ASSUME polled \in Seq(Nodes), NEW n \in Nodes, n \notin ToSet(polled),
         \A i, j \in DOMAIN polled : polled[i] = polled[j] => i = j
  PROVE  LET new == Append(polled, n)
         IN  /\ new \in Seq(Nodes)
             /\ ToSet(new) = ToSet(polled) \cup {n}
             /\ \A i, j \in DOMAIN new : new[i] = new[j] => i = j
<1> DEFINE new == Append(polled, n)
<1>1. /\ new \in Seq(Nodes) /\ DOMAIN polled = 1..Len(polled) /\ Len(polled) \in Nat
      /\ DOMAIN new = 1..(Len(polled) + 1)
      /\ \A i \in 1..Len(polled) : new[i] = polled[i]
      /\ new[Len(polled) + 1] = n
  OBVIOUS
<1> HIDE DEF new
<1>2. ToSet(new) = ToSet(polled) \cup {n}
  <2>1. ToSet(new) \subseteq ToSet(polled) \cup {n}
    BY <1>1 DEF ToSet
  <2>2. ToSet(polled) \cup {n} \subseteq ToSet(new)
    BY <1>1 DEF ToSet
  <2>3. QED
    BY <2>1, <2>2
<1>3. ASSUME NEW i \in DOMAIN new, NEW j \in DOMAIN new, new[i] = new[j]
      PROVE  i = j
  <2>1. \A k \in 1..Len(polled) : polled[k] # n
    BY <1>1 DEF ToSet
  <2>2. QED
    BY <1>1, <1>3, <2>1
<1>4. QED
  BY <1>1, <1>2, <1>3 DEF new

\* What the actions on nodes keep.
LEMMA NodeSteps ==
  ASSUME PollerInv, NEW n \in Nodes,
         \/ SetupBegins(n) \/ SetupEnds(n) \/ SetupFails(n)
         \/ RemoveBegins(n) \/ RemoveDrops(n) \/ AvailabilityChanges(n)
  PROVE  PollerInv'
<1>0. /\ present \subseteq Nodes /\ avail \subseteq present /\ setup \subseteq Nodes
      /\ removing \subseteq present /\ revived \subseteq Nodes
      /\ polled \in Seq(Nodes) /\ timer \in BOOLEAN /\ broken \in BOOLEAN
      /\ RoundsOK(rounds) /\ ToSet(polled) \subseteq present \cup revived
      /\ \A i, j \in DOMAIN polled : polled[i] = polled[j] => i = j
      /\ setup \subseteq present \cup revived /\ setup \cap removing \subseteq revived
  BY DEF PollerInv, PollerTypeOK, RoundsOK
<1>1. rounds' = rounds
  BY DEF SetupBegins, SetupEnds, SetupFails, RemoveBegins, RemoveDrops, AvailabilityChanges, pollVars
<1>2. RoundsOK(rounds')
  BY <1>0, <1>1
<1>3. rounds' \in Seq([at : {"start", "next", "read", "pause"}, todo : Seq(Nodes)])
  BY <1>2, RoundsTyped
<1>4. SUFFICES /\ present' \subseteq Nodes /\ avail' \subseteq present' /\ setup' \subseteq Nodes
               /\ removing' \subseteq present' /\ revived' \subseteq Nodes
               /\ polled' \in Seq(Nodes) /\ timer' \in BOOLEAN /\ broken' \in BOOLEAN
               /\ ToSet(polled') \subseteq present' \cup revived'
               /\ \A i, j \in DOMAIN polled' : polled'[i] = polled'[j] => i = j
               /\ setup' \subseteq present' \cup revived' /\ setup' \cap removing' \subseteq revived'
  BY <1>2, <1>3 DEF PollerInv, PollerTypeOK, RoundsOK, ToSet
<1>5. CASE SetupBegins(n)
  BY <1>0, <1>5 DEF SetupBegins, pollVars
<1>6. CASE SetupEnds(n)
  <2>1. /\ polled' \in Seq(Nodes)
        /\ ToSet(polled') = ToSet(polled) \cup {n}
        /\ \A i, j \in DOMAIN polled' : polled'[i] = polled'[j] => i = j
    BY <1>0, <1>6, WithOne DEF SetupEnds
  <2>2. UNCHANGED <<present, removing, revived>> /\ setup' = setup \ {n}
    BY <1>6 DEF SetupEnds
  <2>3. timer' \in BOOLEAN /\ broken' \in BOOLEAN
    BY <1>6 DEF SetupEnds, Schedule
  <2>4. n \in setup /\ avail' = avail \cup ({n} \cap present)
    BY <1>6 DEF SetupEnds
  <2>5. QED
    BY <1>0, <2>1, <2>2, <2>3, <2>4
<1>7. CASE SetupFails(n)
  BY <1>0, <1>7 DEF SetupFails, pollVars
<1>8. CASE RemoveBegins(n)
  BY <1>0, <1>8 DEF RemoveBegins, pollVars
<1>9. CASE RemoveDrops(n)
  <2>1. /\ polled' \in Seq(Nodes) /\ ToSet(polled') \subseteq ToSet(polled) /\ n \notin ToSet(polled')
        /\ \A i, j \in DOMAIN polled' : polled'[i] = polled'[j] => i = j
    BY <1>0, <1>9, WithoutOne DEF RemoveDrops
  <2>2. UNCHANGED <<setup, revived, timer, broken>> /\ removing' = removing \ {n}
    BY <1>9 DEF RemoveDrops, pollVars
  <2>3. n \in removing /\ present' = present \ {n} /\ avail' = avail \ {n}
    BY <1>9 DEF RemoveDrops
  <2>4. QED
    BY <1>0, <2>1, <2>2, <2>3
<1>10. CASE AvailabilityChanges(n)
  BY <1>0, <1>10 DEF AvailabilityChanges, pollVars
<1>11. QED
  BY <1>5, <1>6, <1>7, <1>8, <1>9, <1>10

\* A round that is still at work is cancelled by the next.
LEMMA TimerStep == PollerInv /\ TimerFires => RoundsOK(rounds')
<1> SUFFICES ASSUME PollerInv, TimerFires PROVE RoundsOK(rounds')
  OBVIOUS
<1> DEFINE r  == [at |-> "start", todo |-> <<>>]
           rs == IF rounds = <<>> THEN rounds ELSE Front(rounds)
<1>1. rounds \in Seq(States) /\ Len(rounds) <= 1 /\ Len(rounds) \in Nat
  BY DEF PollerInv
<1>2. rs = <<>>
  <2>1. CASE rounds = <<>>
    BY <2>1
  <2>2. CASE rounds # <<>>
    <3>1. Len(rounds) = 1
      <4>1. Len(rounds) # 0
        BY <1>1, <2>2, EmptySeq
      <4>2. Len(rounds) \in Nat /\ Len(rounds) <= 1
        BY <1>1
      <4>3. \A x \in Nat : x <= 1 /\ x # 0 => x = 1
        OBVIOUS
      <4>4. QED
        BY <4>1, <4>2, <4>3, Zenon
    <3>2. Front(rounds) = SubSeq(rounds, 1, 0)
      BY <3>1 DEF Front
    <3>3. QED
      BY <1>1, <2>2, <3>2
  <2>3. QED
    BY <2>1, <2>2
<1>3. r \in States
  BY DEF States
<1>4. rounds' = Append(<<>>, r)
  BY <1>2 DEF TimerFires
<1> HIDE DEF r
<1>5. QED
  BY <1>3, <1>4 DEF RoundsOK

\* Every step of the poller keeps the invariant.
LEMMA PollerSteps == PollerInv /\ [PollerNext]_pollerVars => PollerInv'
<1> SUFFICES ASSUME PollerInv, [PollerNext]_pollerVars PROVE PollerInv'
  OBVIOUS
<1>1. ASSUME UNCHANGED <<nodeVars, polled>>, RoundsOK(rounds'), {timer', broken'} \subseteq BOOLEAN
      PROVE  PollerInv'
  <2>1. rounds' \in Seq([at : {"start", "next", "read", "pause"}, todo : Seq(Nodes)])
    BY <1>1, RoundsTyped
  <2>2. /\ present \subseteq Nodes /\ avail \subseteq present /\ setup \subseteq Nodes
        /\ removing \subseteq present /\ revived \subseteq Nodes
        /\ polled \in Seq(Nodes)
        /\ ToSet(polled) \subseteq present \cup revived
        /\ \A i, j \in DOMAIN polled : polled[i] = polled[j] => i = j
        /\ setup \subseteq present \cup revived /\ setup \cap removing \subseteq revived
    BY DEF PollerInv, PollerTypeOK
  <2>3. QED
    BY <1>1, <2>1, <2>2 DEF PollerInv, PollerTypeOK, RoundsOK, nodeVars, ToSet
<1>2. CASE \E n \in Nodes : \/ SetupBegins(n) \/ SetupEnds(n) \/ SetupFails(n)
                            \/ RemoveBegins(n) \/ RemoveDrops(n) \/ AvailabilityChanges(n)
  BY <1>2, NodeSteps
<1>3. CASE TimerFires
  <2>1. UNCHANGED <<nodeVars, polled>> /\ {timer', broken'} \subseteq BOOLEAN
    BY <1>3 DEF TimerFires, PollerInv, PollerTypeOK
  <2>2. QED
    BY <1>1, <1>3, <2>1, TimerStep
<1>4. CASE RoundStep
  BY <1>1, <1>4, RoundSteps DEF RoundStep
<1>5. CASE UNCHANGED pollerVars
  <2>1. UNCHANGED <<nodeVars, polled>> /\ UNCHANGED <<timer, rounds, broken>>
    BY <1>5 DEF pollerVars, pollVars
  <2>2. RoundsOK(rounds') /\ {timer', broken'} \subseteq BOOLEAN
    BY <2>1 DEF PollerInv, PollerTypeOK, RoundsOK
  <2>3. QED
    BY <1>1, <2>1, <2>2
<1>6. QED
  BY <1>2, <1>3, <1>4, <1>5 DEF PollerNext

\* The poller's tables and rounds are well-formed; what a round reads is the
\* first of the nodes it has still to come to, and the table has a node once.
THEOREM PollerIsConsistent == PollerSpec => []PollerInv
<1>1. QED
  BY PollerStarts, PollerSteps, PTL DEF PollerSpec

\* _polled_attributes, the nodes and the rounds keep their types.
THEOREM PollerTypeCorrect == PollerSpec => []PollerTypeOK
<1>1. PollerInv => PollerTypeOK
  BY DEF PollerInv
<1>2. QED
  BY <1>1, PollerIsConsistent, PTL

\* run_custom_attributes_poller cancels the round at work, so that there is one
\* at a time; remove_node takes the node out of the table, so that what is polled
\* is a node of the server, unless a setup began while it was being removed.
THEOREM OneRoundAtATime == PollerSpec => []OneRoundOfKnownNodes
<1>1. PollerInv => OneRoundOfKnownNodes
  BY DEF PollerInv, OneRoundOfKnownNodes
<1>2. QED
  BY <1>1, PollerIsConsistent, PTL
=============================================================================
