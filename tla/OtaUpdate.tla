----------------------------- MODULE OtaUpdate -----------------------------
(***************************************************************************)
(* Software updates of one node: update_node in                            *)
(* server/device_controller.py and ExternalOtaProvider in                  *)
(* server/ota/provider.py.                                                 *)
(*                                                                         *)
(* Each call downloads the image, runs a provider process of its own,      *)
(* announces it to the node and waits on a future (_ota_done) that         *)
(* callbacks resolve from the node's reported UpdateState.  Reports are    *)
(* taken in by the SDK's thread, which compares them with the stored value *)
(* and posts a callback to the event loop; the loop runs what is posted in *)
(* order.  A call's own steps are separated by its awaits.                 *)
(*                                                                         *)
(* The node is the environment: it queries once for every announcement,    *)
(* may be put off, refused, fail or roll back, and reports its state when  *)
(* it differs from the one it reported last.                               *)
(***************************************************************************)
EXTENDS Naturals, Sequences, SequencesExt, FiniteSets

CONSTANTS Calls,       \* update_node calls for the node
          Settings,    \* which calls are made and what may happen: one setting
                       \* per behaviour
          MaxPosted,   \* bound on what is posted to the loop when a report comes
          MaxOffline   \* bound on the times the node goes offline

NoCall == "nobody"

\* External steps that may fail, and interviews.
Events == {"check", "fetch", "launch", "commission", "announce", "query", "delay",
           "abandon", "apply", "interview"}

ASSUME OtaAssumption ==
  /\ MaxPosted \in Nat \ {0} /\ MaxOffline \in Nat
  /\ Settings \subseteq [calls : SUBSET Calls, events : SUBSET Events]
  /\ NoCall \notin Calls

\* UpdateStateEnum; kDelayedOnUserConsent is a kDelayedOnQuery here.
Delayed == {"delayedOnQuery", "delayedOnApply"}
UpdateStates == {"idle", "querying", "downloading", "applying", "rollingBack",
                 "unknown"} \cup Delayed
Pcs == {"idle", "check", "fetch", "admit", "launch", "commission", "announce",
        "wait", "stop", "reap", "leave", "ended"}
\* Between the entry in _attribute_update_callbacks and the finally clause.
Updating == {"launch", "commission", "announce", "wait", "stop", "reap", "leave"}

VARIABLES
  pc,         \* where each call is
  result,     \* how it ended: none, ok, or the error raised
  done,       \* _ota_done: pending, ok or failed
  proc,       \* its provider process: none, running or exited
  inOta,      \* the node is in _nodes_in_ota
  callbacks,  \* _attribute_update_callbacks of the node
  loop,       \* what is posted to the event loop
  stored,     \* the UpdateState in node.attributes
  sample,     \* what a running interview read, or "none"
  device,     \* the node's UpdateState
  reported,   \* the UpdateState it reported last
  announced,  \* calls whose announcement the node has not acted on
  server,     \* the call whose provider the node asks
  applied,    \* the call whose image the node applied last
  connected,  \* there is a subscription
  offlines,   \* how often the node went offline
  missed,     \* history: a "state" went aside the callbacks, or the node went
              \* idle without the update from a state that is not querying
              \* ("abandoned")
  unseen,     \* history: calls announced while there was no subscription
  may         \* the setting

calls  == <<pc, result, done, proc, inOta, callbacks>>
node   == <<device, announced, server, applied>>
data   == <<stored, sample>>
link   == <<reported, connected, offlines>>
aside  == <<missed, unseen, may>>
vars   == <<calls, loop, data, node, link, aside>>

Goto(u, l) == pc' = [pc EXCEPT ![u] = l]
\* An error reaches the caller from before the try block.
Raise(u, error) == Goto(u, "ended") /\ result' = [result EXCEPT ![u] = error]

-----------------------------------------------------------------------------
(***************************************************************************)
(* update_node up to its try block.                                        *)
(***************************************************************************)
Begin(u) ==
  /\ u \in may.calls
  /\ pc[u] = "idle" /\ Goto(u, "check")
  /\ UNCHANGED <<result, done, proc, inOta, callbacks, loop, data, node, link, aside>>

\* _check_node_update.
CheckUpdate(u) ==
  /\ pc[u] = "check"
  /\ \/ Goto(u, "fetch") /\ UNCHANGED result
     \/ "check" \in may.events /\ Raise(u, "no update")
  /\ UNCHANGED <<done, proc, inOta, callbacks, loop, data, node, link, aside>>

\* fetch_update: download, checksum.
FetchUpdate(u) ==
  /\ pc[u] = "fetch"
  /\ \/ Goto(u, "admit") /\ UNCHANGED result
     \/ "fetch" \in may.events /\ Raise(u, "not fetched")
  /\ UNCHANGED <<done, proc, inOta, callbacks, loop, data, node, link, aside>>

AdmitKeepsCallback(u) ==
  /\ pc[u] = "admit"
  /\ IF inOta
       THEN /\ Raise(u, "already updating") /\ inOta' = FALSE
            /\ callbacks' = Append(callbacks, u)
       ELSE /\ Goto(u, "launch") /\ inOta' = TRUE
            /\ callbacks' = Append(callbacks, u) /\ UNCHANGED result
  /\ UNCHANGED <<done, proc, loop, data, node, link, aside>>

\* The callback is registered, then the call is turned away if the node is in
\* _nodes_in_ota; the finally clause takes the callback out again, and the
\* node out of _nodes_in_ota too.
Admit(u) ==
  /\ pc[u] = "admit"
  /\ IF inOta
       THEN Raise(u, "already updating") /\ inOta' = FALSE /\ UNCHANGED callbacks
       ELSE /\ Goto(u, "launch") /\ inOta' = TRUE
            /\ callbacks' = Append(callbacks, u) /\ UNCHANGED result
  /\ UNCHANGED <<done, proc, loop, data, node, link, aside>>

-----------------------------------------------------------------------------
(***************************************************************************)
(* ExternalOtaProvider.start_update; every failure goes to its finally.    *)
(***************************************************************************)
Fail(u, error) == Goto(u, "stop") /\ result' = [result EXCEPT ![u] = error]

Launch(u) ==
  /\ pc[u] = "launch"
  /\ \/ /\ Goto(u, "commission") /\ proc' = [proc EXCEPT ![u] = "running"]
        /\ UNCHANGED result
     \/ "launch" \in may.events /\ Fail(u, "not started") /\ UNCHANGED proc
  /\ UNCHANGED <<done, inOta, callbacks, loop, data, node, link, aside>>

\* _commission_ota_provider.
Commission(u) ==
  /\ pc[u] = "commission"
  /\ \/ Goto(u, "announce") /\ UNCHANGED result
     \/ "commission" \in may.events /\ Fail(u, "not set up")
  /\ UNCHANGED <<done, proc, inOta, callbacks, loop, data, node, link, aside>>

AnnounceFailsOutright(u) ==
  /\ pc[u] = "announce"
  /\ \/ /\ Goto(u, "wait") /\ announced' = announced \cup {u}
        /\ unseen' = IF connected THEN unseen ELSE unseen \cup {u}
        /\ UNCHANGED result
     \/ /\ "announce" \in may.events
        /\ Goto(u, "leave") /\ result' = [result EXCEPT ![u] = "not announced"]
        /\ UNCHANGED <<announced, unseen>>
  /\ UNCHANGED <<done, proc, inOta, callbacks, loop, data, device, server,
                 applied, link, missed, may>>

\* The command needs no subscription: it may reach a node that counts as
\* offline, whose callbacks were told so before this call's was there.
Announce(u) ==
  /\ pc[u] = "announce"
  /\ \/ /\ Goto(u, "wait") /\ announced' = announced \cup {u}
        /\ unseen' = IF connected THEN unseen ELSE unseen \cup {u}
        /\ UNCHANGED result
     \/ /\ "announce" \in may.events
        /\ Fail(u, "not announced") /\ UNCHANGED <<announced, unseen>>
  /\ UNCHANGED <<done, proc, inOta, callbacks, loop, data, device, server,
                 applied, link, missed, may>>

\* await self._ota_done, without a timeout.
Awake(u) ==
  /\ pc[u] = "wait" /\ done[u] # "pending"
  /\ Goto(u, "stop") /\ result' = [result EXCEPT ![u] = done[u]]
  /\ UNCHANGED <<done, proc, inOta, callbacks, loop, data, node, link, aside>>

\* stop(): terminate the process, then wait for its communicate().
Stop(u) ==
  /\ pc[u] = "stop"
  /\ Goto(u, "reap")
  /\ proc' = [proc EXCEPT ![u] = IF @ = "running" THEN "exited" ELSE @]
  /\ UNCHANGED <<result, done, inOta, callbacks, loop, data, node, link, aside>>

Reap(u) ==
  /\ pc[u] = "reap"
  /\ Goto(u, "leave") /\ proc' = [proc EXCEPT ![u] = "none"]
  /\ UNCHANGED <<result, done, inOta, callbacks, loop, data, node, link, aside>>

\* update_node's finally: list.remove takes the first entry that is the call's
\* own; set.remove raises for a node that is not in the set.
Leave(u) ==
  /\ pc[u] = "leave" /\ Goto(u, "ended")
  /\ \E i \in DOMAIN callbacks :
       /\ callbacks[i] = u /\ \A j \in 1..(i - 1) : callbacks[j] # u
       /\ callbacks' = RemoveAt(callbacks, i)
  /\ inOta' = FALSE
  /\ result' = [result EXCEPT ![u] = IF inOta THEN @ ELSE "KeyError"]
  /\ UNCHANGED <<done, proc, loop, data, node, link, aside>>

-----------------------------------------------------------------------------
(***************************************************************************)
(* Reports and callbacks.                                                  *)
(***************************************************************************)
Posted(old, new) == [call |-> NoCall, old |-> old, new |-> new]
Callbacks(old, new) ==
  [i \in DOMAIN callbacks |-> [call |-> callbacks[i], old |-> old, new |-> new]]

\* attribute_updated_callback_threadsafe, in the SDK's thread: the old value
\* is the one stored now, and a value equal to it is dropped.
Report ==
  /\ connected /\ reported # device /\ Len(loop) < MaxPosted
  /\ reported' = device
  /\ loop' = IF stored = device THEN loop ELSE Append(loop, Posted(stored, device))
  /\ missed' = IF stored # reported THEN missed \cup {"state"} ELSE missed
  /\ UNCHANGED <<calls, data, node, connected, offlines, unseen, may>>

\* The next thing posted is attribute_updated_callback.
RunReport ==
  /\ loop # <<>> /\ Head(loop).call = NoCall
  /\ stored' = Head(loop).new
  /\ loop' = Tail(loop) \o Callbacks(Head(loop).old, Head(loop).new)
  /\ UNCHANGED <<calls, sample, node, link, aside>>

OutcomeIdleIsOk(old, new) ==
  IF new = "offline" THEN "failed"
  ELSE IF new # "idle" THEN "pending" ELSE "ok"

OutcomeIgnoresOffline(old, new) ==
  IF new = "idle" THEN IF old = "querying" THEN "failed" ELSE "ok"
  ELSE "pending"

Outcome(old, new) ==
  IF new = "offline" THEN "failed"
  ELSE IF new # "idle" THEN "pending"
  ELSE IF old = "querying" THEN "failed" ELSE "ok"

\* The next thing posted is check_update_state; resolving the future a second
\* time raises InvalidStateError in the callback's own task.
CheckUpdateState ==
  /\ loop # <<>> /\ Head(loop).call # NoCall
  /\ LET m == Head(loop)
     IN done' = [done EXCEPT ![m.call] =
                   IF @ = "pending" THEN Outcome(m.old, m.new) ELSE @]
  /\ loop' = Tail(loop)
  /\ UNCHANGED <<pc, result, proc, inOta, callbacks, data, node, link, aside>>

\* _node_offline: the subscription is shut down, the callbacks are told.
NodeOffline ==
  /\ connected /\ offlines < MaxOffline
  /\ connected' = FALSE /\ offlines' = offlines + 1
  /\ loop' = loop \o Callbacks("offline", "offline")
  /\ UNCHANGED <<calls, data, node, reported, aside>>

\* The node is set up again: what the new subscription reads goes straight
\* into node.attributes, no callback learns of it.
NodeOnline ==
  /\ ~connected /\ connected' = TRUE
  /\ stored' = device /\ reported' = device
  /\ UNCHANGED <<calls, sample, loop, node, offlines, aside>>

\* So does what an interview reads, by the time the interview writes it.
InterviewReads ==
  /\ "interview" \in may.events /\ sample = "none" /\ sample' = device
  /\ UNCHANGED <<calls, loop, stored, node, link, aside>>

InterviewWrites ==
  /\ sample # "none" /\ sample' = "none"
  /\ stored' = sample
  /\ missed' = IF stored # sample THEN missed \cup {"state"} ELSE missed
  /\ UNCHANGED <<calls, loop, node, link, unseen, may>>

-----------------------------------------------------------------------------
(***************************************************************************)
(* The node.                                                               *)
(***************************************************************************)
NodeQueries ==
  /\ device = "idle"
  /\ \E u \in announced : server' = u /\ announced' = announced \ {u}
  /\ device' = "querying" /\ UNCHANGED applied

\* A provider that is gone cannot answer the query.
NodeIsRefused ==
  /\ device = "querying"
  /\ proc[server] # "running" \/ "query" \in may.events
  /\ device' = "idle" /\ UNCHANGED <<server, announced, applied>>

NodeDownloads ==
  /\ device = "querying" /\ proc[server] = "running"
  /\ device' = "downloading" /\ UNCHANGED <<server, announced, applied>>

NodeApplies ==
  /\ device = "downloading" /\ proc[server] = "running"
  /\ device' = "applying" /\ UNCHANGED <<server, announced, applied>>

\* The provider is busy, or tells the node to wait before it applies the image.
NodeIsDelayed ==
  /\ device \in {"querying", "applying"}
  /\ proc[server] = "running" /\ "delay" \in may.events
  /\ device' = IF device = "querying" THEN "delayedOnQuery" ELSE "delayedOnApply"
  /\ UNCHANGED <<server, announced, applied>>

NodeResumes ==
  /\ device \in Delayed
  /\ device' = IF device = "delayedOnQuery" THEN "querying" ELSE "applying"
  /\ UNCHANGED <<server, announced, applied>>

\* The transfer fails, or the node or its provider calls the update off.
NodeGivesUp ==
  /\ device \in {"downloading", "applying"} \cup Delayed
  /\ proc[server] # "running" \/ "abandon" \in may.events
  /\ device' = "idle" /\ UNCHANGED <<server, announced, applied>>

NodeRollsBack ==
  /\ device = "applying" /\ "apply" \in may.events
  /\ device' = "rollingBack" /\ UNCHANGED <<server, announced, applied>>

NodeIsRolledBack ==
  /\ device = "rollingBack"
  /\ device' = "idle" /\ UNCHANGED <<server, announced, applied>>

\* It applied the image, and may not know its state right after the restart.
NodeIsDone ==
  /\ device = "applying"
  /\ device' \in {"idle", "unknown"}
  /\ applied' = server /\ UNCHANGED <<server, announced>>

NodeIsUp ==
  /\ device = "unknown"
  /\ device' = "idle" /\ UNCHANGED <<server, announced, applied>>

NodeStep ==
  /\ NodeQueries \/ NodeIsRefused \/ NodeDownloads \/ NodeApplies \/ NodeIsDelayed
       \/ NodeResumes \/ NodeGivesUp \/ NodeRollsBack \/ NodeIsRolledBack
       \/ NodeIsDone \/ NodeIsUp
  /\ missed' = missed \cup
       (IF connected /\ reported # device THEN {"state"} ELSE {}) \cup
       (IF device # "querying" /\ device' = "idle" /\ applied' # server
          THEN {"abandoned"} ELSE {})
  /\ UNCHANGED <<calls, loop, data, link, unseen, may>>

-----------------------------------------------------------------------------
Init ==
  /\ pc = [u \in Calls |-> "idle"] /\ result = [u \in Calls |-> "none"]
  /\ done = [u \in Calls |-> "pending"] /\ proc = [u \in Calls |-> "none"]
  /\ inOta = FALSE /\ callbacks = <<>> /\ loop = <<>>
  /\ stored = "idle" /\ sample = "none" /\ device = "idle" /\ reported = "idle"
  /\ announced = {} /\ server = NoCall /\ applied = NoCall
  /\ connected = TRUE /\ offlines = 0 /\ missed = {}
  /\ unseen = {} /\ may \in Settings

CallStep(u) ==
  \/ CheckUpdate(u) \/ FetchUpdate(u) \/ Admit(u)
  \/ Launch(u) \/ Commission(u) \/ Announce(u) \/ Awake(u)
  \/ Stop(u) \/ Reap(u) \/ Leave(u)

LoopStep == RunReport \/ CheckUpdateState

Next ==
  \/ \E u \in Calls : Begin(u) \/ CallStep(u)
  \/ Report \/ LoopStep \/ NodeOffline \/ NodeOnline
  \/ InterviewReads \/ InterviewWrites \/ NodeStep

Spec == Init /\ [][Next]_vars

\* The loop and the calls it runs make progress; so does a node that responds
\* to an announcement and reports what it does.
FairSpec ==
  /\ Spec
  /\ WF_vars(\E u \in Calls : CallStep(u)) /\ WF_vars(LoopStep)
  /\ WF_vars(Report) /\ WF_vars(NodeStep)

-----------------------------------------------------------------------------
(***************************************************************************)
(* Properties.                                                             *)
(***************************************************************************)
Results == {"none", "ok", "failed", "no update", "not fetched", "not started",
            "not set up", "not announced", "already updating", "KeyError"}

Posts == [call : Calls \cup {NoCall}, old : UpdateStates \cup {"offline"},
          new : UpdateStates \cup {"offline"}]

TypeOK ==
  /\ pc \in [Calls -> Pcs] /\ result \in [Calls -> Results]
  /\ done \in [Calls -> {"pending", "ok", "failed"}]
  /\ proc \in [Calls -> {"none", "running", "exited"}]
  /\ inOta \in BOOLEAN /\ callbacks \in Seq(Calls)
  /\ loop \in Seq(Posts)
  /\ stored \in UpdateStates /\ sample \in UpdateStates \cup {"none"}
  /\ device \in UpdateStates /\ reported \in UpdateStates
  /\ announced \subseteq Calls
  /\ server \in Calls \cup {NoCall} /\ applied \in Calls \cup {NoCall}
  /\ connected \in BOOLEAN /\ offlines \in 0..MaxOffline
  /\ missed \subseteq {"state", "abandoned"} /\ unseen \subseteq Calls
  /\ may \in Settings

\* Exactly the calls in their try block are called back, each once, however
\* calls are turned away or fail around them.  (update_node's append and
\* finally clause, which share the node's list between calls.)
CallbacksAreOfCalls ==
  /\ \A u \in Calls : (pc[u] \in Updating) <=> (\E i \in DOMAIN callbacks : callbacks[i] = u)
  /\ IsInjective(callbacks)

\* No call leaves its provider process behind, whichever step of it failed.
\* (The finally clause of start_update.)
NoProviderLeft == \A u \in Calls : pc[u] = "ended" => proc[u] = "none"

\* No other call has been or is being let through beside u.
Alone(u) == \A v \in Calls \ {u} :
  pc[v] \in {"idle", "check", "fetch", "admit"}
    \/ result[v] \in {"no update", "not fetched", "already updating"}

\* The outcome of an update that ran alone is right as long as the callbacks
\* saw every state of the node, with one exception: to check_update_state every
\* way to idle that does not come from querying is a success, a failed download,
\* an update called off while it was delayed, and a rollback included.  Without
\* those success means that the image was applied, and ...
OkMeansApplied ==
  \A u \in Calls : result[u] = "ok" /\ Alone(u) /\ missed = {} => applied = u

\* ... a node that applied the image and stayed connected was not reported as
\* one that "did not process the update file".  (check_update_state.)
FailedMeansNotApplied ==
  \A u \in Calls :
    result[u] = "failed" /\ Alone(u) /\ "state" \notin missed /\ offlines = 0
      => applied # u

\* What update_node answers is true of the node in both directions.
OutcomeIsTrue == OkMeansApplied /\ FailedMeansNotApplied

\* Every call ends, though it waits on _ota_done without a timeout, unless a
\* state of the node went aside the callbacks, the provider was announced while
\* there was no subscription (then a whole update may go unseen), or the node is
\* delayed again and again.
UpdateEnds ==
  \/ []<><<device' \in Delayed /\ device' # device>>_vars
  \/ []<>(\A u \in Calls :
             pc[u] \in {"idle", "ended"} \/ "state" \in missed \/ u \in unseen)
=============================================================================
