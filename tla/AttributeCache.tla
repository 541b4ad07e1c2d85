--------------------------- MODULE AttributeCache ---------------------------
(***************************************************************************)
(* The cached attributes of one bridge and a client's copy of them:        *)
(* the subscription callbacks, read_attribute, _interview_node and the     *)
(* endpoint handlers in server/device_controller.py, the event handler in  *)
(* client/client.py and MatterNode in client/models/node.py.               *)
(*                                                                         *)
(* The bridge has a list of endpoints (the PartsList of its descriptor)    *)
(* and one attribute value on each.  The server keeps them in a node       *)
(* object; an interview puts a new object into _nodes, and whoever took    *)
(* the former one before an await still writes to it.  Events reach the    *)
(* client in order (ClientSession), so it applies them as they are sent.   *)
(* A read or an interview is sampled on the bridge, then its coroutine     *)
(* resumes; reports come in between.                                       *)
(***************************************************************************)
EXTENDS Naturals, Sequences, FiniteSets

CONSTANTS Endpoints,
          Readers,       \* read_attribute calls
          Interviewers,  \* interviews
          MaxChanges     \* bound on changes of the bridge

ASSUME AttributeAssumption ==
  /\ MaxChanges \in Nat /\ Readers \cap Interviewers = {} /\ IsFiniteSet(Interviewers)
  /\ Endpoints \subseteq Nat \ {0} /\ Endpoints # {}

Missing == 0              \* no such attribute; values count from 1
Values  == {1, 2}
Objects == 1..(Cardinality(Interviewers) + 1)
Gone    == 0              \* the node is not in _nodes
TheList == 0              \* the PartsList, on endpoint 0
Nothing == [parts |-> {}, vals |-> [e \in Endpoints |-> Missing]]

VARIABLES
  bridge,    \* the bridge: parts and vals
  changes,   \* how often it changed
  dirty,     \* endpoints, and the list, with a change not reported yet
  objects,   \* the node objects
  live,      \* the one in _nodes
  posted,    \* attribute_updated_callback calls on the loop
  pc,        \* readers and interviewers: idle, asked, answered, ended
  hold,      \* the object a reader took, an interviewer made
  path,      \* the endpoint it reads
  answer,    \* what was sampled
  known,     \* the client has the node
  mirror,    \* the endpoints and values of the client's node
  failed,    \* handling an event raised in the client
  raced,     \* history: attributes the server may have lost track of
  parted     \* history: attributes the client may have lost track of

remote  == <<bridge, changes>>
history == <<raced, parted>>
client  == <<known, mirror, failed>>
tasks   == <<pc, hold, path, answer>>
vars    == <<remote, dirty, objects, live, posted, tasks, client, history>>

Attrs == objects[live]
Reading == {t \in Readers \cup Interviewers : pc[t] \in {"asked", "answered"}}

-----------------------------------------------------------------------------
(***************************************************************************)
(* The bridge.                                                             *)
(***************************************************************************)
MayChange == changes < MaxChanges /\ changes' = changes + 1

\* A sample of e was taken and is not handled yet.
Sampled(e) == \E t \in Readers \cup Interviewers :
                pc[t] = "answered" /\ (t \in Readers => path[t] = e)

\* e was on the bridge before.
Returns(e) == \E o \in Objects : e \in objects[o].parts

\* A callback for e waits.
Waiting(e) == \E i \in DOMAIN posted : posted[i].endpoint = e

\* e goes while it is handled, or before the server has taken it up.
Abrupt(e) == Sampled(e) \/ Waiting(e) \/ live = Gone \/ e \notin Attrs.parts

Races(e) == raced' = (IF Sampled(e) THEN raced \cup {e} ELSE raced)

ChangeValue(e) ==
  /\ MayChange /\ e \in bridge.parts
  /\ \E v \in Values \ {bridge.vals[e]} : bridge' = [bridge EXCEPT !.vals[e] = v]
  /\ dirty' = dirty \cup {e}
  /\ Races(e)
  /\ UNCHANGED <<objects, live, posted, tasks, client, parted>>

AddEndpoint(e) ==
  /\ MayChange /\ e \notin bridge.parts
  /\ bridge' = [parts |-> bridge.parts \cup {e}, vals |-> [bridge.vals EXCEPT ![e] = 1]]
  /\ dirty' = dirty \cup {TheList, e}
  /\ raced' = (IF Sampled(e) \/ Returns(e) THEN raced \cup {e} ELSE raced)
  /\ parted' = (IF Returns(e) THEN parted \cup {e} ELSE parted)
  /\ UNCHANGED <<objects, live, posted, tasks, client>>

DropEndpoint(e) ==
  /\ MayChange /\ e \in bridge.parts
  /\ bridge' = [parts |-> bridge.parts \ {e}, vals |-> [bridge.vals EXCEPT ![e] = Missing]]
  /\ dirty' = (dirty \ {e}) \cup {TheList}
  /\ raced' = (IF Abrupt(e) THEN raced \cup {e} ELSE raced)
  /\ parted' = (IF Abrupt(e) THEN parted \cup {e} ELSE parted)
  /\ UNCHANGED <<objects, live, posted, tasks, client>>

-----------------------------------------------------------------------------
(***************************************************************************)
(* The client's handling of an event.                                      *)
(***************************************************************************)
\* ATTRIBUTE_UPDATED: an endpoint the node does not have is ignored, a node
\* the client does not have is a KeyError.
ClientAttribute(e, v) ==
  IF known
    THEN /\ mirror' = IF mirror[e] = Missing THEN mirror ELSE [mirror EXCEPT ![e] = v]
         /\ UNCHANGED <<known, failed>>
    ELSE failed' = TRUE /\ UNCHANGED <<known, mirror>>

\* NODE_ADDED, NODE_UPDATED: MatterNode.update merges what the data holds.
ClientNode(attrs) ==
  /\ mirror' = [e \in Endpoints |->
       IF attrs.vals[e] = Missing /\ known THEN mirror[e] ELSE attrs.vals[e]]
  /\ known' = TRUE /\ UNCHANGED failed

-----------------------------------------------------------------------------
(***************************************************************************)
(* Reports.                                                                *)
(***************************************************************************)
Post(e, old, new) == IF old = new THEN posted
                     ELSE Append(posted, [endpoint |-> e, old |-> old, new |-> new])

\* attribute_updated_callback_threadsafe, for a value (the list, on endpoint 0,
\* comes first in a report; a value that does not decode is ignored) ...
ReportValue(e) ==
  /\ live # Gone /\ e \in dirty /\ TheList \notin dirty
  /\ dirty' = dirty \ {e}
  /\ posted' = Post(e, Attrs.vals[e], bridge.vals[e])
  /\ raced' = (IF Waiting(e) THEN raced \cup {e} ELSE raced)
  /\ UNCHANGED <<remote, objects, live, tasks, client, parted>>

\* ... and for the PartsList.
ReportParts ==
  /\ live # Gone /\ TheList \in dirty
  /\ dirty' = dirty \ {TheList}
  /\ posted' = Post(TheList, Attrs.parts, bridge.parts)
  /\ UNCHANGED <<remote, objects, live, tasks, client, history>>

Due == Head(posted)

\* Mutant: the callback keeps to the node that was subscribed.
RunLateAnyway ==
  /\ posted # <<>> /\ live = Gone
  /\ posted' = Tail(posted)
  /\ IF Due.endpoint = TheList THEN UNCHANGED client ELSE ClientAttribute(Due.endpoint, Due.new)
  /\ UNCHANGED <<remote, dirty, objects, live, tasks, history>>

\* attribute_updated_callback; KeyError if the node is gone.
RunLate ==
  /\ posted # <<>> /\ live = Gone
  /\ posted' = Tail(posted)
  /\ UNCHANGED <<remote, dirty, objects, live, tasks, client, history>>

RunValue ==
  /\ posted # <<>> /\ live # Gone /\ Due.endpoint # TheList
  /\ posted' = Tail(posted)
  /\ objects' = [objects EXCEPT ![live].vals[Due.endpoint] = Due.new]
  /\ ClientAttribute(Due.endpoint, Due.new)
  /\ UNCHANGED <<remote, dirty, live, tasks, history>>

\* Removed endpoints lose their attributes and are announced; added ones are
\* interviewed, as far as there are Interviewers left.  The new PartsList
\* itself is not stored.
RunPartsKeepsRemoved ==
  /\ posted # <<>> /\ live # Gone /\ Due.endpoint = TheList
  /\ posted' = Tail(posted)
  /\ LET removed == Due.old \ Due.new
     IN mirror' = [e \in Endpoints |-> IF e \in removed THEN Missing ELSE mirror[e]]
  /\ UNCHANGED <<remote, dirty, objects, live, tasks, known, failed, history>>

RunParts ==
  /\ posted # <<>> /\ live # Gone /\ Due.endpoint = TheList
  /\ posted' = Tail(posted)
  /\ LET removed == Due.old \ Due.new
         added == Due.new \ Due.old
     IN /\ objects' = [objects EXCEPT ![live].vals =
             [e \in Endpoints |-> IF e \in removed THEN Missing ELSE @[e]]]
        /\ mirror' = [e \in Endpoints |-> IF e \in removed THEN Missing ELSE mirror[e]]
        /\ IF added = {} THEN UNCHANGED pc
           ELSE \E i \in Interviewers : pc[i] = "idle" /\ pc' = [pc EXCEPT ![i] = "asked"]
  /\ UNCHANGED <<remote, dirty, live, hold, path, answer, known, failed, history>>

-----------------------------------------------------------------------------
(***************************************************************************)
(* Reads and interviews.                                                   *)
(***************************************************************************)
\* read_attribute up to its await.
Read(r, e) ==
  /\ r \in Readers /\ pc[r] = "idle" /\ live # Gone
  /\ pc' = [pc EXCEPT ![r] = "asked"]
  /\ hold' = [hold EXCEPT ![r] = live] /\ path' = [path EXCEPT ![r] = e]
  /\ UNCHANGED <<remote, dirty, objects, live, posted, answer, client, history>>

\* The interview_node command; _handle_endpoints_added starts one too.
Interview(i) ==
  /\ i \in Interviewers /\ pc[i] = "idle" /\ live # Gone
  /\ pc' = [pc EXCEPT ![i] = "asked"]
  /\ UNCHANGED <<remote, dirty, objects, live, posted, hold, path, answer, client, history>>

\* The bridge answers.
Answer(t) ==
  /\ pc[t] = "asked"
  /\ pc' = [pc EXCEPT ![t] = "answered"] /\ answer' = [answer EXCEPT ![t] = bridge]
  /\ UNCHANGED <<remote, dirty, objects, live, posted, hold, path, client, history>>

\* A failed read ends the call.
AnswerFails(t) ==
  /\ pc[t] = "asked"
  /\ pc' = [pc EXCEPT ![t] = "ended"]
  /\ IF t \in Interviewers THEN raced' = Endpoints /\ parted' = Endpoints
                           ELSE UNCHANGED <<raced, parted>>
  /\ UNCHANGED <<remote, dirty, objects, live, posted, hold, path, answer, client>>

ReadDoneQuietly(r) ==
  /\ r \in Readers /\ pc[r] = "answered"
  /\ pc' = [pc EXCEPT ![r] = "ended"]
  /\ LET e == path[r]
         v == answer[r].vals[e]
     IN objects' = IF v = Missing THEN objects
                     ELSE [objects EXCEPT ![hold[r]].vals[e] = v]
  /\ UNCHANGED <<remote, dirty, live, posted, hold, path, answer, client, history>>

\* read_attribute after its await: the object taken before it is updated, and
\* the event is sent, whatever became of the node since.
ReadDone(r) ==
  /\ r \in Readers /\ pc[r] = "answered"
  /\ pc' = [pc EXCEPT ![r] = "ended"]
  /\ LET e == path[r]
         v == answer[r].vals[e]
     IN IF v = Missing \/ v = objects[hold[r]].vals[e]
          THEN UNCHANGED <<objects, client>>
          ELSE /\ objects' = [objects EXCEPT ![hold[r]].vals[e] = v]
               /\ ClientAttribute(e, v)
  /\ parted' = (IF hold[r] = live THEN parted ELSE parted \cup {path[r]})
  /\ UNCHANGED <<remote, dirty, live, posted, hold, path, answer, raced>>

\* _interview_node after its await: a new object takes the place of the one in
\* _nodes, if there is one.
NewObject == Cardinality({i \in Interviewers : hold[i] # Gone}) + 2

\* Endpoints the client has and the interview did not find.
Vanished(i) == {e \in Endpoints : mirror[e] # Missing /\ answer[i].vals[e] = Missing}

InterviewDone(i) ==
  /\ i \in Interviewers /\ pc[i] = "answered"
  /\ pc' = [pc EXCEPT ![i] = "ended"]
  /\ hold' = [hold EXCEPT ![i] = NewObject] /\ live' = NewObject
  /\ objects' = [objects EXCEPT ![NewObject] = answer[i]]
  /\ ClientNode(answer[i])
  /\ parted' = parted \cup Vanished(i)
  /\ UNCHANGED <<remote, dirty, posted, path, answer, raced>>

\* remove_node from the pop on; the subscription was shut down before.
RemoveNode ==
  /\ live # Gone
  /\ live' = Gone
  /\ known' = FALSE /\ mirror' = Nothing.vals /\ UNCHANGED failed
  /\ IF posted = <<>> /\ Reading = {} THEN UNCHANGED <<raced, parted>>
                                      ELSE raced' = Endpoints /\ parted' = Endpoints
  /\ UNCHANGED <<remote, dirty, objects, posted, tasks>>

-----------------------------------------------------------------------------
Init ==
  /\ \E p \in SUBSET Endpoints :
       bridge = [parts |-> p, vals |-> [e \in Endpoints |-> IF e \in p THEN 1 ELSE Missing]]
  /\ changes = 0 /\ dirty = {} /\ posted = <<>>
  /\ objects = [o \in Objects |-> IF o = 1 THEN bridge ELSE Nothing] /\ live = 1
  /\ pc = [t \in Readers \cup Interviewers |-> "idle"]
  /\ hold = [t \in Readers \cup Interviewers |-> Gone]
  /\ path = [r \in Readers |-> CHOOSE e \in Endpoints : TRUE]
  /\ answer = [t \in Readers \cup Interviewers |-> Nothing]
  /\ known = TRUE /\ mirror = bridge.vals /\ failed = FALSE
  /\ raced = {} /\ parted = {}

Next ==
  \/ \E e \in Endpoints : \/ ChangeValue(e) \/ AddEndpoint(e) \/ DropEndpoint(e)
                          \/ ReportValue(e)
                          \/ \E r \in Readers : Read(r, e)
  \/ ReportParts \/ RunLate \/ RunValue \/ RunParts \/ RemoveNode
  \/ \E t \in Readers \cup Interviewers : Interview(t) \/ Answer(t) \/ AnswerFails(t)
                                          \/ ReadDone(t) \/ InterviewDone(t)

Spec == Init /\ [][Next]_vars

-----------------------------------------------------------------------------
(***************************************************************************)
(* Properties.                                                             *)
(***************************************************************************)
Attributes == [parts : SUBSET Endpoints, vals : [Endpoints -> Values \cup {Missing}]]
Callbacks ==
  [endpoint : {TheList}, old : SUBSET Endpoints, new : SUBSET Endpoints]
  \cup [endpoint : Endpoints, old : Values \cup {Missing}, new : Values]

TypeOK ==
  /\ bridge \in Attributes /\ dirty \subseteq Endpoints \cup {TheList}
  /\ changes \in 0..MaxChanges
  /\ objects \in [Objects -> Attributes] /\ live \in Objects \cup {Gone}
  /\ posted \in Seq(Callbacks)
  /\ pc \in [Readers \cup Interviewers -> {"idle", "asked", "answered", "ended"}]
  /\ hold \in [Readers \cup Interviewers -> Objects \cup {Gone}]
  /\ path \in [Readers -> Endpoints]
  /\ answer \in [Readers \cup Interviewers -> Attributes]
  /\ {known, failed} \subseteq BOOLEAN
  /\ raced \subseteq Endpoints /\ parted \subseteq Endpoints
  /\ mirror \in [Endpoints -> Values \cup {Missing}]

\* Nothing is on its way.
Quiet == posted = <<>> /\ Reading = {} /\ dirty = {} /\ live # Gone

\* When nothing is on its way the server holds what the bridge holds.  (The
\* "cached info in node attributes".)
CacheConverges == Quiet => \A e \in Endpoints \ raced : Attrs.vals[e] = bridge.vals[e]

\* When nothing is on its way the client holds what the server holds.
MirrorMatches == Quiet /\ ~failed =>
  known /\ \A e \in Endpoints \ parted : mirror[e] = Attrs.vals[e]

\* An attribute update breaks the client's session (a KeyError in
\* _handle_event_message) only if it is that of a read that ends while the node is
\* gone: read_attribute signals what it read whatever became of the node.
\* Callbacks posted before the removal send nothing after it, and once an interview
\* has put the node back, the client has it before anything is said of it.
\* (attribute_updated_callback, _interview_node, remove_node.)
OnlyOrphanReadsFail ==
  [][failed' # failed =>
       live = Gone /\ \E r \in Readers : pc[r] = "answered" /\ pc'[r] = "ended"]_vars
=============================================================================
