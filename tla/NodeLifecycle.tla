--------------------------- MODULE NodeLifecycle ---------------------------
(***************************************************************************)
(* server/device_controller.py and server/sdk.py: how one commissioned     *)
(* node is set up, interviewed, subscribed to, lost, found again on mDNS   *)
(* and removed.  Everything runs on one event loop, so an action is what   *)
(* runs between two awaits; the awaits are where other actors get in:      *)
(*   - setup tasks (_setup_node), at most one registered per node;         *)
(*   - calls of _interview_node by clients or by a version change;         *)
(*   - calls of remove_node; tasks running _node_offline;                  *)
(*   - mDNS callbacks with their debounce timer, SDK subscription          *)
(*     callbacks, and the device itself.                                   *)
(*                                                                         *)
(* A MatterNodeData object is abstracted to the two facts the code tests,  *)
(* available and "needs no interview".  A task that captured the object    *)
(* before an await holds it as "current" or, once _nodes was given another *)
(* object or none, as "stale".  view is what a listening client was last   *)
(* told.  Waiting for the throttle semaphore, the attempts and pauses of   *)
(* find_or_establish_case_session, and the label command of an interview   *)
(* change no state and are merged into the await next to them.             *)
(***************************************************************************)
EXTENDS Naturals, FiniteSets

CONSTANTS SetupTasks,    \* identities for setup tasks
          Interviewers,  \* concurrent calls of _interview_node
          Removers,      \* concurrent calls of remove_node
          OfflineTasks,  \* tasks running _node_offline
          SubIds,        \* identities for SDK subscriptions
          NoTask, NoSub

ASSUME ActorsAssumption ==
  /\ SetupTasks \cap Interviewers = {} /\ SetupTasks \cap Removers = {}
  /\ SetupTasks \cap OfflineTasks = {} /\ Interviewers \cap Removers = {}
  /\ Interviewers \cap OfflineTasks = {} /\ Removers \cap OfflineTasks = {}
  /\ NoTask \notin SetupTasks /\ NoSub \notin SubIds

VARIABLES
  known,     \* node_id in _nodes
  stored,    \* node_id in storage under "nodes"
  avail,     \* available of the object in _nodes
  fresh,     \* that object has attributes and the current interview_version
  view,      \* what a listening client was told: "absent", "up", "down"
  pc,        \* where each setup task is
  need,      \* setup task: its node_data asks for an interview
  hold,      \* setup task: the node object _subscribe_node captured
  entry,     \* _setup_node_tasks.get(node_id)
  reading,   \* calls of _interview_node waiting for their read
  removing,  \* remove_node: "idle", "shutdown" or "unpair"
  leaving,   \* _node_offline: "idle", "created" or "shutdown"
  ahead,     \* per-node SDK lock: who must be served before this actor
  tracked,   \* _subscriptions.get(node_id)
  sub,       \* each SDK subscription
  waitSub,   \* the subscription whose Shutdown an actor awaits
  attempt,   \* _resubscription_attempt, which only tells 0, 1 and more
  mdns,      \* _mdns_event_timer: "none" or the pending state change
  seen,      \* _node_last_seen_on_mdns is less than 30 minutes ago
  online,    \* the device is powered and reachable
  onFabric   \* the device still holds this fabric

nodeVars   == <<known, stored, avail, fresh, view>>
setupVars  == <<pc, need, hold, entry>>
callVars   == <<reading, removing, leaving>>
subVars    == <<tracked, sub, waitSub>>
deviceVars == <<online, onFabric>>
vars == <<nodeVars, setupVars, callVars, ahead, subVars, attempt, mdns, seen,
          deviceVars>>

AttemptsUnavailable == 2   \* NODE_RESUBSCRIBE_ATTEMPTS_UNAVAILABLE

Queuers == SetupTasks \cup Interviewers
Closers == SetupTasks \cup Removers \cup OfflineTasks

SetupPCs == {"idle", "start", "case", "interview", "shutdown", "subscribe",
             "sleep", "done"}
Open == {"live", "lost", "retrying"}   \* a subscription the SDK keeps

\* The controller has started: the node was loaded from storage, perhaps
\* with data an older server wrote; no client has seen it available.
Init ==
  /\ known = TRUE /\ stored = TRUE /\ avail = FALSE
  /\ fresh \in BOOLEAN /\ view = "down"
  /\ pc = [t \in SetupTasks |-> "idle"]
  /\ need = [t \in SetupTasks |-> FALSE]
  /\ hold = [t \in SetupTasks |-> "none"]
  /\ entry = NoTask
  /\ reading = {}
  /\ removing = [r \in Removers |-> "idle"]
  /\ leaving = [o \in OfflineTasks |-> "idle"]
  /\ ahead = [a \in Queuers |-> {}]
  /\ tracked = NoSub
  /\ sub = [s \in SubIds |-> "free"]
  /\ waitSub = [c \in Closers |-> NoSub]
  /\ attempt = 0 /\ mdns = "none" /\ seen = FALSE
  /\ online \in BOOLEAN /\ onFabric = TRUE

-----------------------------------------------------------------------------
(* The SDK wrapper.                                                        *)

\* Who holds or waits for the lock of this node (asyncio.Lock is fair).
InLine == {t \in SetupTasks : pc[t] \in {"case", "interview", "subscribe"}}
            \cup reading

Queue(a) == ahead' = [ahead EXCEPT ![a] = InLine]
Leave(a) == ahead' = [b \in Queuers |-> IF b = a THEN {} ELSE ahead[b] \ {a}]
Requeue(a) ==
  ahead' = [b \in Queuers |-> IF b = a THEN InLine \ {a} ELSE ahead[b] \ {a}]

\* The lock is a's and the device can answer it.
Served(a) == ahead[a] = {}
Answers == online /\ onFabric

\* Mutant: the entry is read, not popped.
ShutdownNoPop(c) ==
  /\ tracked # NoSub
  /\ tracked' = tracked
  /\ sub' = [sub EXCEPT ![tracked] = "closing"]
  /\ waitSub' = [waitSub EXCEPT ![c] = tracked]

\* Mutant: the entry is popped, the subscription is not shut down.
ShutdownOnlyPop(c) ==
  /\ tracked # NoSub
  /\ tracked' = NoSub
  /\ UNCHANGED sub
  /\ waitSub' = [waitSub EXCEPT ![c] = tracked]

\* shutdown_subscription: the entry is popped before the SDK is awaited.
\* Only if there was an entry does the caller c wait.
Shutdown(c) ==
  /\ tracked # NoSub
  /\ tracked' = NoSub
  /\ sub' = [sub EXCEPT ![tracked] = "closing"]
  /\ waitSub' = [waitSub EXCEPT ![c] = tracked]

\* The SDK has shut the subscription down; the callers waiting resume later.
SubscriptionCloses(s) ==
  /\ sub[s] = "closing"
  /\ sub' = [sub EXCEPT ![s] = "free"]
  /\ UNCHANGED <<nodeVars, setupVars, callVars, ahead, tracked, waitSub,
                 attempt, mdns, seen, deviceVars>>

ShutdownReturns(c) ==
  /\ waitSub[c] # NoSub /\ sub[waitSub[c]] # "closing"
  /\ waitSub' = [waitSub EXCEPT ![c] = NoSub]
  /\ UNCHANGED <<tracked, sub>>

-----------------------------------------------------------------------------
(* What the handlers do to _nodes, storage and clients.                    *)

Announce(up) == view' = IF up THEN "up" ELSE "down"

\* The tail of _interview_node: a new object replaces the one in _nodes, is
\* saved, and NODE_ADDED or NODE_UPDATED is signalled.
InterviewWrites ==
  /\ known' = TRUE /\ stored' = TRUE /\ fresh' = TRUE
  /\ avail' = (known /\ avail)
  /\ Announce(avail')

Stale == [t \in SetupTasks |-> IF hold[t] = "current" THEN "stale" ELSE hold[t]]

\* _node_unavailable (raises KeyError, with no effect, for a removed node).
MarkUnavailable ==
  IF known /\ avail
  THEN avail' = FALSE /\ Announce(FALSE) /\ UNCHANGED <<known, stored, fresh>>
  ELSE UNCHANGED nodeVars

-----------------------------------------------------------------------------
(* Setup tasks.                                                            *)

\* Mutant: no check for a registered task.
CreateTaskAlways ==
  \E t \in SetupTasks :
    /\ pc[t] = "idle"
    /\ pc' = [pc EXCEPT ![t] = "start"]
    /\ entry' = t
    /\ UNCHANGED <<need, hold>>

\* _setup_node_create_task
CreateTask ==
  IF entry = NoTask
  THEN \E t \in SetupTasks :
         /\ pc[t] = "idle"
         /\ pc' = [pc EXCEPT ![t] = "start"]
         /\ entry' = t
         /\ UNCHANGED <<need, hold>>
  ELSE UNCHANGED setupVars

Finish(t) == /\ pc' = [pc EXCEPT ![t] = "done"]
             /\ hold' = [hold EXCEPT ![t] = "none"]
             /\ UNCHANGED <<need, entry>>

\* _setup_node_try_once, first lines; a removed node ends the task
\* (NodeNotExists at its start, KeyError after the pause of 60 seconds).
SetupTry(t) ==
  /\ pc[t] \in {"start", "sleep"}
  /\ IF known
     THEN /\ pc' = [pc EXCEPT ![t] = "case"]
          /\ need' = [need EXCEPT ![t] = ~fresh]
          /\ Queue(t)
          /\ UNCHANGED <<hold, entry>>
     ELSE Finish(t) /\ UNCHANGED ahead
  /\ UNCHANGED <<nodeVars, callVars, subVars, attempt, mdns, seen, deviceVars>>

\* A step of the setup failed with an error _setup_node catches: give up if
\* the node was not seen on mDNS for long, else pause and retry.
SetupFails(t) ==
  /\ pc[t] \in {"case", "interview", "subscribe"}
  /\ Served(t)
  /\ IF seen
     THEN /\ pc' = [pc EXCEPT ![t] = "sleep"]
          /\ hold' = [hold EXCEPT ![t] = "none"]
          /\ UNCHANGED <<need, entry>>
     ELSE Finish(t)
  /\ Leave(t)
  /\ UNCHANGED <<nodeVars, callVars, subVars, attempt, mdns, seen, deviceVars>>

\* _subscribe_node up to its first await that suspends; held is the function
\* hold as left by what ran before in the same step.  The caller has checked
\* that the node exists.
BeginSubscribe(t, held) ==
  IF tracked = NoSub
  THEN /\ pc' = [pc EXCEPT ![t] = "subscribe"]
       /\ hold' = [held EXCEPT ![t] = "current"]
       /\ attempt' = 0
       /\ Requeue(t)
       /\ UNCHANGED subVars
  ELSE /\ pc' = [pc EXCEPT ![t] = "shutdown"]
       /\ hold' = held
       /\ Shutdown(t)
       /\ Leave(t)
       /\ UNCHANGED attempt

\* The CASE session is there; go on with the interview if node_data needs it.
SetupCase(t) ==
  /\ pc[t] = "case" /\ Served(t) /\ Answers
  /\ \/ /\ need[t]
        /\ pc' = [pc EXCEPT ![t] = "interview"]
        /\ Requeue(t)
        /\ UNCHANGED <<hold, need, entry, subVars, attempt>>
     \/ /\ ~need[t] /\ known
        /\ BeginSubscribe(t, hold)
        /\ UNCHANGED <<need, entry>>
     \/ /\ ~need[t] /\ ~known        \* NodeNotExists
        /\ Finish(t) /\ Leave(t)
        /\ UNCHANGED <<subVars, attempt>>
  /\ UNCHANGED <<nodeVars, callVars, mdns, seen, deviceVars>>

SetupInterview(t) ==
  /\ pc[t] = "interview" /\ Served(t) /\ Answers
  /\ InterviewWrites
  /\ BeginSubscribe(t, Stale)
  /\ UNCHANGED <<need, entry, callVars, mdns, seen, deviceVars>>

\* Back from shutdown_subscription: _nodes[node_id] is read again.
SetupAfterShutdown(t) ==
  /\ pc[t] = "shutdown" /\ ShutdownReturns(t)
  /\ IF known
     THEN /\ pc' = [pc EXCEPT ![t] = "subscribe"]
          /\ hold' = [hold EXCEPT ![t] = "current"]
          /\ attempt' = 0
          /\ Queue(t)
          /\ UNCHANGED <<need, entry>>
     ELSE Finish(t) /\ UNCHANGED <<attempt, ahead>>
  /\ UNCHANGED <<nodeVars, callVars, mdns, seen, deviceVars>>

\* The subscription is established: it is tracked, and the object captured
\* before the read is marked available and signalled.
SetupSubscribed(t) ==
  /\ pc[t] = "subscribe" /\ Served(t) /\ Answers
  /\ \E s \in SubIds :
       /\ sub[s] = "free"
       /\ sub' = [sub EXCEPT ![s] = "live"]
       /\ tracked' = s
  /\ avail' = IF hold[t] = "current" THEN TRUE ELSE avail
  /\ Announce(TRUE)
  /\ Finish(t) /\ Leave(t)
  /\ UNCHANGED <<known, stored, fresh, callVars, waitSub, attempt, mdns, seen,
                 deviceVars>>

\* An aborted subscription setup returns None: AttributeError ends the task.
SetupAborted(t) ==
  /\ pc[t] = "subscribe" /\ Served(t)
  /\ Finish(t) /\ Leave(t)
  /\ UNCHANGED <<nodeVars, callVars, subVars, attempt, mdns, seen, deviceVars>>

\* Mutant: no done callback.
SetupReapedKept(t) ==
  /\ pc[t] = "done"
  /\ pc' = [pc EXCEPT ![t] = "idle"]
  /\ UNCHANGED <<entry, need, hold, nodeVars, callVars, ahead, subVars, attempt,
                 mdns, seen, deviceVars>>

\* The done callback pops whatever task is registered for the node.
SetupReaped(t) ==
  /\ pc[t] = "done"
  /\ pc' = [pc EXCEPT ![t] = "idle"]
  /\ entry' = NoTask
  /\ UNCHANGED <<need, hold, nodeVars, callVars, ahead, subVars, attempt, mdns,
                 seen, deviceVars>>

-----------------------------------------------------------------------------
(* Interviews outside a setup task: the interview_node command, a changed  *)
(* software version, endpoints added to a bridge.                          *)

InterviewCall(i) ==
  /\ i \notin reading
  /\ reading' = reading \cup {i}
  /\ Queue(i)
  /\ UNCHANGED <<nodeVars, setupVars, removing, leaving, subVars, attempt, mdns,
                 seen, deviceVars>>

InterviewDone(i) ==
  /\ i \in reading /\ Served(i) /\ Answers
  /\ InterviewWrites
  /\ hold' = Stale
  /\ reading' = reading \ {i}
  /\ Leave(i)
  /\ UNCHANGED <<pc, need, entry, removing, leaving, subVars, attempt, mdns,
                 seen, deviceVars>>

InterviewFails(i) ==
  /\ i \in reading /\ Served(i)
  /\ reading' = reading \ {i}
  /\ Leave(i)
  /\ UNCHANGED <<nodeVars, setupVars, removing, leaving, subVars, attempt, mdns,
                 seen, deviceVars>>

-----------------------------------------------------------------------------
(* remove_node.                                                            *)

\* _nodes.pop, storage.remove, NODE_REMOVED; next await: unpair_device.
PopNode(r) ==
  /\ known' = FALSE /\ stored' = FALSE /\ avail' = FALSE /\ fresh' = FALSE
  /\ view' = "absent"
  /\ removing' = [removing EXCEPT ![r] = "unpair"]

\* Up to the first await: the registered setup task is cancelled, the
\* subscription is shut down; without one there is nothing to await.
RemoveCall(r) ==
  /\ removing[r] = "idle" /\ known
  /\ entry' = NoTask
  /\ pc' = [t \in SetupTasks |-> IF t = entry THEN "done" ELSE pc[t]]
  /\ ahead' = [a \in Queuers |-> IF a = entry THEN {} ELSE ahead[a] \ {entry}]
  /\ IF tracked = NoSub
     THEN /\ PopNode(r)
          /\ hold' = [t \in SetupTasks |-> IF t = entry THEN "none" ELSE Stale[t]]
          /\ waitSub' = [c \in Closers |-> IF c = entry THEN NoSub ELSE waitSub[c]]
          /\ UNCHANGED <<tracked, sub>>
     ELSE /\ removing' = [removing EXCEPT ![r] = "shutdown"]
          /\ hold' = [t \in SetupTasks |-> IF t = entry THEN "none" ELSE hold[t]]
          /\ tracked' = NoSub
          /\ sub' = [sub EXCEPT ![tracked] = "closing"]
          /\ waitSub' = [c \in Closers |-> IF c = entry THEN NoSub
                                           ELSE IF c = r THEN tracked
                                           ELSE waitSub[c]]
          /\ UNCHANGED nodeVars
  /\ UNCHANGED <<need, reading, leaving, attempt, mdns, seen, deviceVars>>

\* After the await: _nodes.pop raises KeyError if another call was faster.
RemoveAfterShutdown(r) ==
  /\ removing[r] = "shutdown" /\ ShutdownReturns(r)
  /\ IF known
     THEN PopNode(r) /\ hold' = Stale
     ELSE /\ removing' = [removing EXCEPT ![r] = "idle"]
          /\ UNCHANGED <<nodeVars, hold>>
  /\ UNCHANGED <<pc, need, entry, reading, leaving, ahead, attempt, mdns, seen,
                 deviceVars>>

\* unpair_device: an error is only logged.  A device that left the fabric
\* drops its subscriptions.
RemoveUnpaired(r) ==
  /\ removing[r] = "unpair"
  /\ removing' = [removing EXCEPT ![r] = "idle"]
  /\ \/ /\ Answers
        /\ onFabric' = FALSE
        /\ sub' = [s \in SubIds |-> IF sub[s] = "live" THEN "lost" ELSE sub[s]]
     \/ UNCHANGED <<onFabric, sub>>
  /\ UNCHANGED <<nodeVars, setupVars, reading, leaving, ahead, tracked, waitSub,
                 attempt, mdns, seen, online>>

-----------------------------------------------------------------------------
(* Callbacks of a subscription, and _node_offline.                         *)

\* Mutant: the counter is compared with <=.
ResubscriptionAttemptedMore(s, late) ==
  /\ sub[s] \in {"lost", "retrying"}
  /\ late => attempt > 0
  /\ sub' = [sub EXCEPT ![s] = "retrying"]
  /\ attempt' = IF attempt <= AttemptsUnavailable THEN attempt + 1 ELSE attempt
  /\ UNCHANGED <<nodeVars, leaving, setupVars, reading, removing, ahead,
                 tracked, waitSub, mdns, seen, deviceVars>>

\* resubscription_attempted; late: the first attempt was over 30 minutes ago.
ResubscriptionAttempted(s, late) ==
  /\ sub[s] \in {"lost", "retrying"}
  /\ late => attempt > 0
  /\ sub' = [sub EXCEPT ![s] = "retrying"]
  /\ attempt' = IF attempt < AttemptsUnavailable THEN attempt + 1 ELSE attempt
  /\ IF attempt >= AttemptsUnavailable
     THEN MarkUnavailable
     ELSE UNCHANGED nodeVars
  /\ IF late /\ (attempt < AttemptsUnavailable \/ known)
     THEN \E o \in OfflineTasks :
            /\ leaving[o] = "idle"
            /\ leaving' = [leaving EXCEPT ![o] = "created"]
     ELSE UNCHANGED leaving
  /\ UNCHANGED <<setupVars, reading, removing, ahead, tracked, waitSub, mdns,
                 seen, deviceVars>>

\* Mutant: available again, but no NODE_UPDATED.
ResubscribedSilently(s) ==
  /\ sub[s] = "retrying" /\ Answers
  /\ sub' = [sub EXCEPT ![s] = "live"]
  /\ attempt' = 0
  /\ avail' = known
  /\ UNCHANGED <<known, stored, fresh, view, setupVars, callVars, ahead, tracked,
                 waitSub, mdns, seen, deviceVars>>

\* resubscription_succeeded (a removed node raises KeyError after the reset).
Resubscribed(s) ==
  /\ sub[s] = "retrying" /\ Answers
  /\ sub' = [sub EXCEPT ![s] = "live"]
  /\ attempt' = 0
  /\ IF known /\ ~avail
     THEN avail' = TRUE /\ Announce(TRUE) /\ UNCHANGED <<known, stored, fresh>>
     ELSE UNCHANGED nodeVars
  /\ UNCHANGED <<setupVars, callVars, ahead, tracked, waitSub, mdns, seen,
                 deviceVars>>

OfflineShutdown(o) ==
  /\ leaving[o] = "created"
  /\ \/ /\ tracked = NoSub
        /\ MarkUnavailable
        /\ leaving' = [leaving EXCEPT ![o] = "idle"]
        /\ UNCHANGED subVars
     \/ /\ Shutdown(o)
        /\ leaving' = [leaving EXCEPT ![o] = "shutdown"]
        /\ UNCHANGED nodeVars
  /\ UNCHANGED <<setupVars, reading, removing, ahead, attempt, mdns, seen,
                 deviceVars>>

\* Mutant: the node is not marked unavailable after the shutdown.
OfflineForgetsNode(o) ==
  /\ leaving[o] = "shutdown" /\ ShutdownReturns(o)
  /\ leaving' = [leaving EXCEPT ![o] = "idle"]
  /\ UNCHANGED <<nodeVars, setupVars, reading, removing, ahead, attempt, mdns,
                 seen, deviceVars>>

OfflineAfterShutdown(o) ==
  /\ leaving[o] = "shutdown" /\ ShutdownReturns(o)
  /\ MarkUnavailable
  /\ leaving' = [leaving EXCEPT ![o] = "idle"]
  /\ UNCHANGED <<setupVars, reading, removing, ahead, attempt, mdns, seen,
                 deviceVars>>

-----------------------------------------------------------------------------
(* mDNS.                                                                   *)

\* _on_mdns_service_state_change: the first event arms the debounce timer,
\* a removal cancels it.
MdnsEvent(change) ==
  /\ Answers
  /\ mdns = "none" /\ mdns' = change
  /\ UNCHANGED <<nodeVars, setupVars, callVars, ahead, subVars, attempt, seen,
                 deviceVars>>

MdnsRemoved ==
  /\ mdns # "none" /\ mdns' = "none"
  /\ UNCHANGED <<nodeVars, setupVars, callVars, ahead, subVars, attempt, seen,
                 deviceVars>>

\* _on_mdns_operational_node_state.  Triggering a scheduled resubscribe only
\* makes the SDK's next attempt come sooner.
MdnsFires ==
  /\ mdns # "none" /\ mdns' = "none"
  /\ seen' = (seen \/ known)
  /\ IF known /\ ~(avail /\ mdns = "Updated") /\ tracked = NoSub
     THEN CreateTask
     ELSE UNCHANGED setupVars
  /\ UNCHANGED <<nodeVars, callVars, ahead, subVars, attempt, deviceVars>>

\* 30 minutes pass without an mDNS event for the node.
MdnsForgotten ==
  /\ seen /\ seen' = FALSE
  /\ UNCHANGED <<nodeVars, setupVars, callVars, ahead, subVars, attempt, mdns,
                 deviceVars>>

-----------------------------------------------------------------------------
(* The device.                                                             *)

LoseSubs == sub' = [s \in SubIds |-> IF sub[s] = "live" THEN "lost" ELSE sub[s]]

\* It loses power; announced by a ShutDown event, event_callback marks the
\* node unavailable at once.
DeviceDown(announced) ==
  /\ online /\ online' = FALSE
  /\ LoseSubs
  /\ announced => \E s \in SubIds : sub[s] = "live"
  /\ IF announced THEN MarkUnavailable ELSE UNCHANGED nodeVars
  /\ UNCHANGED <<setupVars, callVars, ahead, tracked, waitSub, attempt, mdns,
                 seen, onFabric>>

DeviceUp ==
  /\ ~online /\ online' = TRUE
  /\ UNCHANGED <<nodeVars, setupVars, callVars, ahead, subVars, attempt, mdns,
                 seen, onFabric>>

-----------------------------------------------------------------------------
Next ==
  \/ \E t \in SetupTasks :
       \/ SetupTry(t) \/ SetupCase(t) \/ SetupInterview(t)
       \/ SetupAfterShutdown(t) \/ SetupSubscribed(t) \/ SetupAborted(t)
       \/ SetupFails(t) \/ SetupReaped(t)
  \/ \E i \in Interviewers :
       InterviewCall(i) \/ InterviewDone(i) \/ InterviewFails(i)
  \/ \E r \in Removers :
       RemoveCall(r) \/ RemoveAfterShutdown(r) \/ RemoveUnpaired(r)
  \/ \E o \in OfflineTasks : OfflineShutdown(o) \/ OfflineAfterShutdown(o)
  \/ \E s \in SubIds :
       \/ SubscriptionCloses(s) \/ Resubscribed(s)
       \/ \E late \in BOOLEAN : ResubscriptionAttempted(s, late)
  \/ \E change \in {"Added", "Updated"} : MdnsEvent(change)
  \/ MdnsRemoved \/ MdnsFires \/ MdnsForgotten
  \/ \E announced \in BOOLEAN : DeviceDown(announced)
  \/ DeviceUp

Spec == Init /\ [][Next]_vars

\* The loop runs every ready task, timer and callback; the SDK notices a lost
\* subscription, retries it and finishes a Shutdown; a device that is up keeps
\* announcing itself and answers some of an unending series of requests.
Fairness ==
  /\ \A t \in SetupTasks :
       /\ WF_vars(SetupTry(t)) /\ WF_vars(SetupAfterShutdown(t))
       /\ WF_vars(SetupReaped(t))
       /\ SF_vars(SetupCase(t)) /\ SF_vars(SetupInterview(t))
       /\ SF_vars(SetupSubscribed(t))
  /\ \A i \in Interviewers : WF_vars(InterviewDone(i) \/ InterviewFails(i))
  /\ \A r \in Removers :
       WF_vars(RemoveAfterShutdown(r)) /\ WF_vars(RemoveUnpaired(r))
  /\ \A o \in OfflineTasks :
       WF_vars(OfflineShutdown(o)) /\ WF_vars(OfflineAfterShutdown(o))
  /\ \A s \in SubIds :
       /\ WF_vars(SubscriptionCloses(s)) /\ SF_vars(Resubscribed(s))
       /\ WF_vars(\E late \in BOOLEAN : ResubscriptionAttempted(s, late))
  /\ WF_vars(\E change \in {"Added", "Updated"} : MdnsEvent(change))
  /\ SF_vars(MdnsFires)

FairSpec == Spec /\ Fairness

-----------------------------------------------------------------------------
(* Properties.                                                             *)

NodeTypes ==
  /\ known \in BOOLEAN /\ stored \in BOOLEAN /\ avail \in BOOLEAN
  /\ fresh \in BOOLEAN /\ view \in {"absent", "up", "down"}

SetupTypes ==
  /\ pc \in [SetupTasks -> SetupPCs]
  /\ need \in [SetupTasks -> BOOLEAN]
  /\ hold \in [SetupTasks -> {"none", "current", "stale"}]
  /\ entry \in SetupTasks \cup {NoTask}

CallTypes ==
  /\ reading \in SUBSET Interviewers
  /\ removing \in [Removers -> {"idle", "shutdown", "unpair"}]
  /\ leaving \in [OfflineTasks -> {"idle", "created", "shutdown"}]

SubTypes ==
  /\ tracked \in SubIds \cup {NoSub}
  /\ sub \in [SubIds -> Open \cup {"free", "closing"}]
  /\ waitSub \in [Closers -> SubIds \cup {NoSub}]
  /\ attempt \in 0 .. AttemptsUnavailable

OtherTypes ==
  /\ ahead \in [Queuers -> SUBSET Queuers]
  /\ mdns \in {"none", "Added", "Updated"}
  /\ seen \in BOOLEAN /\ online \in BOOLEAN /\ onFabric \in BOOLEAN

TypeOK == NodeTypes /\ SetupTypes /\ CallTypes /\ SubTypes /\ OtherTypes

\* A setup task that has not ended.
Active(t) == pc[t] \notin {"idle", "done"}

\* The subscription in _subscriptions is one the SDK still keeps: nobody can
\* be handed one whose Shutdown has begun, although setup, removal and offline
\* tasks all shut subscriptions down across an await.
TrackedIsOpen == tracked # NoSub => sub[tracked] \in Open

\* As long as nobody removes the node, at most one setup task works on it and
\* it is the registered one, so a burst of mDNS events cannot start a second.
OneSetupTask ==
  \A t \in SetupTasks : Active(t) => entry = t

\* As long as nobody removes the node, every subscription the SDK keeps is in
\* _subscriptions, so that it will be shut down: none is overwritten.
NoLeakedSubscription == \A s \in SubIds : sub[s] \in Open => s = tracked

\* As long as nobody removes the node, one that is shown as available has a
\* subscription, or the offline task that took it away will mark it.
AvailableIsSubscribed ==
  avail => \/ tracked # NoSub
           \/ \E o \in OfflineTasks : leaving[o] = "shutdown"

\* While the node is known and nobody interviews it, clients were last told just
\* what _nodes says about its availability.
ViewIsCurrent == known => view = IF avail THEN "up" ELSE "down"

\* "The mDNS browsing code will setup the subscription again": a device that
\* stays up ends up subscribed, whatever was lost, aborted or given up before.
SubscribedAgain == <>[]Answers => <>[](tracked # NoSub)

=============================================================================
