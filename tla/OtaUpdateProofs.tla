-------------------------- MODULE OtaUpdateProofs --------------------------
(***************************************************************************)
(* Proofs about OtaUpdate, for any number of overlapping update_node       *)
(* calls: no call that has ended leaves its provider process behind, those *)
(* in their try block are called back, and what a call that is alone       *)
(* answers is true of the node.                                            *)
(***************************************************************************)
EXTENDS OtaUpdate, UpdateCheck, SequenceTheorems, FiniteSetTheorems,
        WellFoundedInduction, TLAPS

\* A provider process exists from its launch until it is reaped.
ProviderInv ==
  /\ pc \in [Calls -> Pcs]
  /\ proc \in [Calls -> {"none", "running", "exited"}]
  /\ \A u \in Calls :
       proc[u] # "none" => pc[u] \in {"commission", "announce", "wait", "stop", "reap"}

LEMMA CallKeepsProviderInv ==
  ASSUME ProviderInv, NEW u \in Calls, Begin(u) \/ CallStep(u)
  PROVE  ProviderInv'
<1> USE DEF ProviderInv, Pcs, Goto
<1>1. CASE Begin(u) \/ CheckUpdate(u) \/ FetchUpdate(u) \/ Admit(u)
  BY <1>1 DEF Begin, CheckUpdate, FetchUpdate, Admit, Raise
<1>2. CASE Launch(u)
  BY <1>2 DEF Launch, Fail
<1>3. CASE Commission(u) \/ Announce(u) \/ Awake(u)
  BY <1>3 DEF Commission, Announce, Awake, Fail
<1>4. CASE Stop(u)
  BY <1>4 DEF Stop
<1>5. CASE Reap(u)
  BY <1>5 DEF Reap
<1>6. CASE Leave(u)
  BY <1>6 DEF Leave
<1>7. QED
  BY <1>1, <1>2, <1>3, <1>4, <1>5, <1>6 DEF CallStep

\* No call leaves its provider process behind, whichever of its steps failed and
\* whatever other calls do.
THEOREM ProvidersAreReaped == Spec => []NoProviderLeft
<1>1. Init => ProviderInv
  BY DEF Init, ProviderInv, Pcs
<1>2. ProviderInv /\ [Next]_vars => ProviderInv'
  <2> SUFFICES ASSUME ProviderInv, [Next]_vars PROVE ProviderInv'
    OBVIOUS
  <2>1. CASE \E u \in Calls : Begin(u) \/ CallStep(u)
    BY <2>1, CallKeepsProviderInv
  <2>2. CASE UNCHANGED vars \/ Report \/ LoopStep \/ NodeOffline \/ NodeOnline
               \/ InterviewReads \/ InterviewWrites \/ NodeStep
    <3>1. UNCHANGED <<pc, proc>>
      BY <2>2 DEF vars, calls, Report, LoopStep, RunReport, CheckUpdateState, NodeOffline,
                  NodeOnline,
         InterviewReads, InterviewWrites, NodeStep
    <3>2. QED
      BY <3>1 DEF ProviderInv
  <2>3. QED
    BY <2>1, <2>2 DEF Next
<1>3. ProviderInv => NoProviderLeft
  BY DEF ProviderInv, NoProviderLeft
<1>4. QED
  BY <1>1, <1>2, <1>3, PTL DEF Spec

-----------------------------------------------------------------------------
(* The event loop.  What is posted to it keeps its order; the head is run.  *)

TypeInv ==
  /\ TypeOK
  /\ \A i \in DOMAIN loop : loop[i].call = NoCall => loop[i].new \in UpdateStates

LEMMA CallbackPosts ==
  ASSUME callbacks \in Seq(Calls), NEW old \in UpdateStates \cup {"offline"},
         NEW new \in UpdateStates \cup {"offline"}
  PROVE  /\ Callbacks(old, new) \in Seq(Posts)
         /\ DOMAIN Callbacks(old, new) = DOMAIN callbacks
         /\ \A i \in DOMAIN callbacks :
              /\ callbacks[i] \in Calls
              /\ Callbacks(old, new)[i] = [call |-> callbacks[i], old |-> old, new |-> new]
         /\ \A k \in DOMAIN Callbacks(old, new) : Callbacks(old, new)[k].call \in Calls
<1>1. DOMAIN callbacks = 1..Len(callbacks) /\ Len(callbacks) \in Nat
  BY LenProperties
<1>2. \A i \in 1..Len(callbacks) : callbacks[i] \in Calls
  BY ElementOfSeq
<1>3. \A i \in 1..Len(callbacks) : [call |-> callbacks[i], old |-> old, new |-> new] \in Posts
  BY <1>2 DEF Posts
<1>4. Callbacks(old, new) =
        [i \in 1..Len(callbacks) |-> [call |-> callbacks[i], old |-> old, new |-> new]]
  BY <1>1 DEF Callbacks
<1>5. \A k \in DOMAIN Callbacks(old, new) : Callbacks(old, new)[k].call \in Calls
  BY <1>2, <1>4
<1>6. QED
  BY <1>1, <1>2, <1>3, <1>4, <1>5

\* More is posted behind what there is.
LEMMA LoopGrows ==
  ASSUME loop \in Seq(Posts), NEW posts \in Seq(Posts), loop' = loop \o posts
  PROVE  /\ loop' \in Seq(Posts)
         /\ \A i \in DOMAIN loop : i \in DOMAIN loop' /\ loop'[i] = loop[i]
         /\ \A i \in DOMAIN loop' : \/ i \in DOMAIN loop /\ loop'[i] = loop[i]
                                    \/ \E k \in DOMAIN posts : loop'[i] = posts[k]
         /\ \A k \in DOMAIN posts : \E i \in DOMAIN loop' : loop'[i] = posts[k]
<1>1. /\ loop' \in Seq(Posts) /\ Len(loop') = Len(loop) + Len(posts)
      /\ \A i \in 1..Len(loop) + Len(posts) :
           loop'[i] = IF i <= Len(loop) THEN loop[i] ELSE posts[i - Len(loop)]
  BY ConcatProperties
<1>2. /\ Len(loop) \in Nat /\ Len(posts) \in Nat
      /\ DOMAIN loop = 1..Len(loop) /\ DOMAIN posts = 1..Len(posts)
      /\ DOMAIN loop' = 1..Len(loop')
  BY <1>1, LenProperties
<1>3. ASSUME NEW k \in DOMAIN posts PROVE \E i \in DOMAIN loop' : loop'[i] = posts[k]
  <2>1. Len(loop) + k \in DOMAIN loop' /\ loop'[Len(loop) + k] = posts[k]
    BY <1>1, <1>2
  <2>2. QED
    BY <2>1
<1>4. QED
  BY <1>1, <1>2, <1>3

\* The head is run, and may post more.
LEMMA LoopRuns ==
  ASSUME loop \in Seq(Posts), loop # <<>>, NEW posts \in Seq(Posts),
         loop' = Tail(loop) \o posts
  PROVE  /\ loop' \in Seq(Posts) /\ 1 \in DOMAIN loop /\ Head(loop) = loop[1]
         /\ Head(loop) \in Posts
         /\ \A i \in DOMAIN loop : i # 1 => i - 1 \in DOMAIN loop' /\ loop'[i - 1] = loop[i]
         /\ \A i \in DOMAIN loop' : \/ i + 1 \in DOMAIN loop /\ loop'[i] = loop[i + 1]
                                    \/ i >= Len(loop) /\ \E k \in DOMAIN posts : loop'[i] = posts[k]
<1>1. /\ Tail(loop) \in Seq(Posts) /\ Len(Tail(loop)) = Len(loop) - 1 /\ Head(loop) \in Posts
      /\ \A i \in 1..Len(Tail(loop)) : Tail(loop)[i] = loop[i + 1]
  BY HeadTailProperties
<1>2. /\ loop' \in Seq(Posts) /\ Len(loop') = Len(Tail(loop)) + Len(posts)
      /\ \A i \in 1..Len(Tail(loop)) + Len(posts) :
           loop'[i] = IF i <= Len(Tail(loop)) THEN Tail(loop)[i]
                                              ELSE posts[i - Len(Tail(loop))]
  BY <1>1, ConcatProperties
<1>3. /\ Len(loop) \in Nat \ {0} /\ Len(posts) \in Nat
      /\ DOMAIN loop = 1..Len(loop) /\ DOMAIN posts = 1..Len(posts)
      /\ DOMAIN loop' = 1..Len(loop')
  BY <1>1, <1>2, LenProperties, EmptySeq
<1>4. Head(loop) = loop[1]
  OBVIOUS
<1>5. QED
  BY <1>1, <1>2, <1>3, <1>4

\* list.remove: the entries behind the one taken out move up.
LEMMA CallbackTaken ==
  ASSUME callbacks \in Seq(Calls), NEW i \in DOMAIN callbacks,
         callbacks' = RemoveAt(callbacks, i)
  PROVE  /\ callbacks' \in Seq(Calls) /\ Len(callbacks') = Len(callbacks) - 1
         /\ \A j \in 1..Len(callbacks') :
              callbacks'[j] = callbacks[IF j < i THEN j ELSE j + 1]
<1> DEFINE n == Len(callbacks)
           before == SubSeq(callbacks, 1, i - 1)
           behind == SubSeq(callbacks, i + 1, n)
<1>1. n \in Nat /\ i \in 1..n /\ \A j \in 1..n : callbacks[j] \in Calls
  BY LenProperties, ElementOfSeq
<1>2. /\ before \in Seq(Calls) /\ Len(before) = i - 1
      /\ \A j \in 1..(i - 1) : before[j] = callbacks[j]
  BY <1>1, SubSeqProperties
<1>3. /\ behind \in Seq(Calls) /\ Len(behind) = n - i
      /\ \A j \in 1..(n - i) : behind[j] = callbacks[i + j]
  BY <1>1, SubSeqProperties
<1>4. callbacks' = before \o behind
  BY DEF RemoveAt
<1> HIDE DEF before, behind
<1>5. /\ callbacks' \in Seq(Calls) /\ Len(callbacks') = n - 1
      /\ \A j \in 1..(n - 1) : callbacks'[j] = IF j <= i - 1 THEN before[j] ELSE behind[j - (i - 1)]
  <2>1. /\ callbacks' \in Seq(Calls) /\ Len(callbacks') = Len(before) + Len(behind)
        /\ \A j \in 1..Len(before) + Len(behind) :
             callbacks'[j] = IF j <= Len(before) THEN before[j] ELSE behind[j - Len(before)]
    <3>1. before \in Seq(Calls) /\ behind \in Seq(Calls)
      BY <1>2, <1>3
    <3>2. QED
      BY <3>1, <1>4, ConcatProperties
  <2>2. Len(before) + Len(behind) = n - 1
    BY <1>1, <1>2, <1>3
  <2>3. QED
    BY <1>2, <2>1, <2>2
<1> HIDE DEF n
<1>6. ASSUME NEW j \in 1..(n - 1) PROVE callbacks'[j] = callbacks[IF j < i THEN j ELSE j + 1]
  <2>1. CASE j < i
    BY <1>1, <1>2, <1>5, <2>1
  <2>2. CASE j >= i
    <3>1. j - (i - 1) \in 1..(n - i) /\ i + (j - (i - 1)) = j + 1
      BY <1>1, <2>2
    <3>2. callbacks'[j] = behind[j - (i - 1)]
      BY <1>1, <1>5, <2>2
    <3>3. QED
      BY <1>1, <1>3, <2>2, <3>1, <3>2
  <2>3. QED
    BY <1>1, <2>1, <2>2
<1>7. QED
  BY <1>5, <1>6 DEF n

\* What each step that touches the loop makes of it.
LEMMA ReportPosts ==
  ASSUME TypeInv, Report
  PROVE  \/ stored = device /\ loop' = loop
         \/ /\ stored # device /\ loop' \in Seq(Posts)
            /\ \A i \in DOMAIN loop : i \in DOMAIN loop' /\ loop'[i] = loop[i]
            /\ \A i \in DOMAIN loop' : \/ i \in DOMAIN loop /\ loop'[i] = loop[i]
                                       \/ loop'[i] = Posted(stored, device)
<1>1. /\ loop \in Seq(Posts) /\ stored \in UpdateStates /\ device \in UpdateStates
      /\ Posted(stored, device) \in Posts
  BY DEF TypeInv, TypeOK, Posted, Posts
<1>2. CASE stored = device
  BY <1>2 DEF Report
<1>3. CASE stored # device
  <2>1. loop' = loop \o <<Posted(stored, device)>> /\ <<Posted(stored, device)>> \in Seq(Posts)
    BY <1>1, <1>3, AppendIsConcat DEF Report
  <2>2. QED
    BY <1>1, <1>3, <2>1, LoopGrows
<1>4. QED
  BY <1>2, <1>3

LEMMA ReportRuns ==
  ASSUME TypeInv, RunReport
  PROVE  /\ loop' \in Seq(Posts) /\ 1 \in DOMAIN loop /\ Head(loop) = loop[1]
         /\ loop[1] \in Posts /\ loop[1].call = NoCall /\ loop[1].new \in UpdateStates
         /\ \A i \in DOMAIN loop : i # 1 => i - 1 \in DOMAIN loop' /\ loop'[i - 1] = loop[i]
         /\ \A i \in DOMAIN loop' :
              \/ i + 1 \in DOMAIN loop /\ loop'[i] = loop[i + 1]
              \/ /\ i >= Len(loop)
                 /\ \E k \in DOMAIN callbacks :
                      /\ callbacks[k] \in Calls
                      /\ loop'[i] = [call |-> callbacks[k], old |-> loop[1].old,
                                     new |-> loop[1].new]
<1> DEFINE posts == Callbacks(Head(loop).old, Head(loop).new)
<1>1. loop \in Seq(Posts) /\ callbacks \in Seq(Calls)
  BY DEF TypeInv, TypeOK
<1>2. /\ 1 \in DOMAIN loop /\ Head(loop) = loop[1] /\ loop[1] \in Posts
      /\ loop[1].call = NoCall /\ loop[1].new \in UpdateStates
  BY <1>1, HeadTailProperties, LenProperties, EmptySeq DEF RunReport, TypeInv
<1>3. loop[1].old \in UpdateStates \cup {"offline"}
  BY <1>2 DEF Posts
<1>4. /\ posts \in Seq(Posts) /\ DOMAIN posts = DOMAIN callbacks
      /\ \A k \in DOMAIN callbacks :
           /\ callbacks[k] \in Calls
           /\ posts[k] = [call |-> callbacks[k], old |-> loop[1].old, new |-> loop[1].new]
  <2>1. loop[1].new \in UpdateStates \cup {"offline"}
    BY <1>2
  <2>2. posts = Callbacks(loop[1].old, loop[1].new)
    BY <1>2
  <2> HIDE DEF posts
  <2>3. QED
    BY <1>1, <1>3, <2>1, <2>2, CallbackPosts
<1>5. loop # <<>> /\ loop' = Tail(loop) \o posts
  BY DEF RunReport
<1> HIDE DEF posts
<1>6. /\ loop' \in Seq(Posts)
      /\ \A i \in DOMAIN loop : i # 1 => i - 1 \in DOMAIN loop' /\ loop'[i - 1] = loop[i]
      /\ \A i \in DOMAIN loop' : \/ i + 1 \in DOMAIN loop /\ loop'[i] = loop[i + 1]
                                 \/ i >= Len(loop) /\ \E k \in DOMAIN posts : loop'[i] = posts[k]
  BY <1>1, <1>4, <1>5, LoopRuns
<1>7. QED
  BY <1>2, <1>4, <1>6

LEMMA CallbackRuns ==
  ASSUME TypeInv, CheckUpdateState
  PROVE  /\ loop' \in Seq(Posts) /\ 1 \in DOMAIN loop /\ Head(loop) = loop[1]
         /\ loop[1] \in Posts /\ loop[1].call \in Calls
         /\ \A i \in DOMAIN loop : i # 1 => i - 1 \in DOMAIN loop' /\ loop'[i - 1] = loop[i]
         /\ \A i \in DOMAIN loop' : i + 1 \in DOMAIN loop /\ loop'[i] = loop[i + 1]
<1>1. loop \in Seq(Posts)
  BY DEF TypeInv, TypeOK
<1>2. loop # <<>> /\ loop' = Tail(loop) \o <<>> /\ <<>> \in Seq(Posts) /\ Head(loop).call # NoCall
  BY <1>1, HeadTailProperties, ConcatEmptySeq, EmptySeq DEF CheckUpdateState
<1>3. /\ loop' \in Seq(Posts) /\ 1 \in DOMAIN loop /\ Head(loop) = loop[1]
      /\ loop[1] \in Posts
      /\ \A i \in DOMAIN loop : i # 1 => i - 1 \in DOMAIN loop' /\ loop'[i - 1] = loop[i]
      /\ \A i \in DOMAIN loop' : i + 1 \in DOMAIN loop /\ loop'[i] = loop[i + 1]
  BY <1>1, <1>2, LoopRuns, EmptySeq
<1>4. loop[1].call \in Calls
  BY <1>2, <1>3 DEF Posts
<1>5. QED
  BY <1>3, <1>4

LEMMA OfflinePosts ==
  ASSUME TypeInv, NodeOffline
  PROVE  /\ loop' \in Seq(Posts)
         /\ \A i \in DOMAIN loop : i \in DOMAIN loop' /\ loop'[i] = loop[i]
         /\ \A i \in DOMAIN loop' :
              \/ i \in DOMAIN loop /\ loop'[i] = loop[i]
              \/ \E k \in DOMAIN callbacks :
                   /\ callbacks[k] \in Calls
                   /\ loop'[i] = [call |-> callbacks[k], old |-> "offline", new |-> "offline"]
         /\ \A k \in DOMAIN callbacks : \E i \in DOMAIN loop' :
              loop'[i] = [call |-> callbacks[k], old |-> "offline", new |-> "offline"]
<1> DEFINE posts == Callbacks("offline", "offline")
<1>1. loop \in Seq(Posts) /\ callbacks \in Seq(Calls)
  BY DEF TypeInv, TypeOK
<1>2. /\ posts \in Seq(Posts) /\ DOMAIN posts = DOMAIN callbacks
      /\ \A k \in DOMAIN callbacks :
           /\ callbacks[k] \in Calls
           /\ posts[k] = [call |-> callbacks[k], old |-> "offline", new |-> "offline"]
  BY <1>1, CallbackPosts
<1>3. loop' = loop \o posts
  BY DEF NodeOffline
<1> HIDE DEF posts
<1>4. /\ loop' \in Seq(Posts)
      /\ \A i \in DOMAIN loop : i \in DOMAIN loop' /\ loop'[i] = loop[i]
      /\ \A i \in DOMAIN loop' : \/ i \in DOMAIN loop /\ loop'[i] = loop[i]
                                 \/ \E k \in DOMAIN posts : loop'[i] = posts[k]
      /\ \A k \in DOMAIN posts : \E i \in DOMAIN loop' : loop'[i] = posts[k]
  BY <1>1, <1>2, <1>3, LoopGrows
<1>5. QED
  BY <1>2, <1>4

LEMMA CallTypes ==
  ASSUME TypeInv, NEW u \in Calls, Begin(u) \/ CallStep(u)
  PROVE  TypeInv'
<1>a. ASSUME pc' \in [Calls -> Pcs], result' \in [Calls -> Results],
             proc' \in [Calls -> {"none", "running", "exited"}], inOta' \in BOOLEAN,
             callbacks' \in Seq(Calls), announced' \subseteq Calls,
             UNCHANGED <<done, loop, data, device, server, applied, link, missed, may>>,
             unseen' \subseteq Calls
      PROVE  TypeInv'
  BY <1>a DEF TypeInv, TypeOK, link, data
<1>b. /\ pc \in [Calls -> Pcs] /\ result \in [Calls -> Results]
      /\ done \in [Calls -> {"pending", "ok", "failed"}]
      /\ proc \in [Calls -> {"none", "running", "exited"}] /\ inOta \in BOOLEAN
      /\ callbacks \in Seq(Calls) /\ announced \subseteq Calls /\ unseen \subseteq Calls
  BY DEF TypeInv, TypeOK
<1>1. CASE Begin(u) \/ CheckUpdate(u) \/ FetchUpdate(u)
  BY <1>1, <1>a, <1>b DEF Begin, CheckUpdate, FetchUpdate, Goto, Raise, Pcs, Results, node, aside
<1>2. CASE Admit(u)
  <2>1. Append(callbacks, u) \in Seq(Calls)
    BY <1>b, AppendProperties
  <2>2. QED
    BY <1>2, <2>1, <1>a, <1>b DEF Admit, Goto, Raise, Pcs, Results, node, aside
<1>3. CASE Launch(u) \/ Commission(u)
  BY <1>3, <1>a, <1>b DEF Launch, Commission, Goto, Fail, Pcs, Results, node, aside
<1>4. CASE Announce(u)
  BY <1>4, <1>a, <1>b DEF Announce, Goto, Fail, Pcs, Results
<1>5. CASE Awake(u)
  BY <1>5, <1>a, <1>b DEF Awake, Goto, Pcs, Results, node, aside
<1>6. CASE Stop(u) \/ Reap(u)
  BY <1>6, <1>a, <1>b DEF Stop, Reap, Goto, Pcs, node, aside
<1>7. CASE Leave(u)
  <2>1. callbacks' \in Seq(Calls)
    BY <1>7, <1>b, CallbackTaken DEF Leave
  <2>2. QED
    BY <1>7, <2>1, <1>a, <1>b DEF Leave, Goto, Pcs, Results, node, aside
<1>8. QED
  BY <1>1, <1>2, <1>3, <1>4, <1>5, <1>6, <1>7 DEF CallStep

\* Reports, what the loop runs, and the node.
LEMMA OtherTypes ==
  ASSUME TypeInv, Report \/ LoopStep \/ NodeOffline \/ NodeOnline
           \/ InterviewReads \/ InterviewWrites \/ NodeStep
  PROVE  TypeInv'
<1>b. /\ loop \in Seq(Posts) /\ callbacks \in Seq(Calls)
      /\ stored \in UpdateStates /\ device \in UpdateStates /\ reported \in UpdateStates
      /\ \A i \in DOMAIN loop : loop[i].call = NoCall => loop[i].new \in UpdateStates
  BY DEF TypeInv, TypeOK
<1>1. CASE Report
  <2>1. /\ loop' \in Seq(Posts)
        /\ \A i \in DOMAIN loop' : loop'[i].call = NoCall => loop'[i].new \in UpdateStates
    BY <1>1, <1>b, ReportPosts DEF Posted
  <2>2. QED
    BY <1>1, <2>1 DEF Report, TypeInv, TypeOK, calls, node, data
<1>2. CASE RunReport
  <2>1. /\ loop' \in Seq(Posts) /\ Head(loop).new \in UpdateStates
        /\ \A i \in DOMAIN loop' : loop'[i].call = NoCall => loop'[i].new \in UpdateStates
    BY <1>2, <1>b, ReportRuns, OtaAssumption
  <2>2. QED
    BY <1>2, <2>1 DEF RunReport, TypeInv, TypeOK, calls, node, link, aside
<1>3. CASE CheckUpdateState
  <2>1. /\ loop' \in Seq(Posts)
        /\ \A i \in DOMAIN loop' : loop'[i].call = NoCall => loop'[i].new \in UpdateStates
    BY <1>3, <1>b, CallbackRuns
  <2>2. done' \in [Calls -> {"pending", "ok", "failed"}]
    BY <1>3 DEF CheckUpdateState, TypeInv, TypeOK, Outcome
  <2>3. QED
    BY <1>3, <2>1, <2>2 DEF CheckUpdateState, TypeInv, TypeOK, node, link, data, aside
<1>4. CASE NodeOffline
  <2>1. /\ loop' \in Seq(Posts)
        /\ \A i \in DOMAIN loop' : loop'[i].call = NoCall => loop'[i].new \in UpdateStates
    BY <1>4, <1>b, OfflinePosts, OtaAssumption
  <2>2. offlines' \in 0..MaxOffline
    BY <1>4, OtaAssumption DEF NodeOffline, TypeInv, TypeOK
  <2>3. QED
    BY <1>4, <2>1, <2>2 DEF NodeOffline, TypeInv, TypeOK, calls, node, data, aside
<1>5. CASE NodeOnline \/ InterviewReads \/ InterviewWrites
  <2>1. sample \in UpdateStates \cup {"none"} /\ missed \subseteq {"state", "abandoned"}
    BY DEF TypeInv, TypeOK
  <2>2. /\ stored' \in UpdateStates /\ sample' \in UpdateStates \cup {"none"}
        /\ reported' \in UpdateStates /\ connected' \in BOOLEAN
        /\ missed' \subseteq {"state", "abandoned"}
        /\ UNCHANGED <<calls, loop, node, offlines, unseen, may>>
    BY <1>5, <1>b, <2>1 DEF NodeOnline, InterviewReads, InterviewWrites, link, aside, TypeInv, TypeOK
  <2>3. QED
    BY <2>2 DEF TypeInv, TypeOK, calls, node
<1>6. CASE NodeStep
  <2>1. /\ device' \in UpdateStates /\ announced' \subseteq Calls
        /\ server' \in Calls \cup {NoCall} /\ applied' \in Calls \cup {NoCall}
    BY <1>6 DEF NodeStep, NodeQueries, NodeIsRefused, NodeDownloads, NodeApplies,
       NodeIsDelayed, NodeResumes, NodeGivesUp, NodeRollsBack, NodeIsRolledBack, NodeIsDone,
       NodeIsUp, TypeInv, TypeOK, UpdateStates, Delayed
  <2>2. missed' \subseteq {"state", "abandoned"}
    BY <1>6 DEF NodeStep, TypeInv, TypeOK
  <2>3. QED
    BY <1>6, <2>1, <2>2 DEF NodeStep, TypeInv, TypeOK, calls, link, data
<1>7. QED
  BY <1>1, <1>2, <1>3, <1>4, <1>5, <1>6 DEF LoopStep

LEMMA TypeStart == Init => TypeInv
<1> SUFFICES ASSUME Init PROVE TypeInv
  OBVIOUS
<1>1. callbacks \in Seq(Calls) /\ loop \in Seq(Posts) /\ DOMAIN loop = {}
  BY EmptySeq DEF Init
<1>2. /\ pc \in [Calls -> Pcs] /\ result \in [Calls -> Results]
      /\ done \in [Calls -> {"pending", "ok", "failed"}]
      /\ proc \in [Calls -> {"none", "running", "exited"}]
  BY DEF Init, Pcs, Results
<1>3. /\ stored \in UpdateStates /\ device \in UpdateStates /\ reported \in UpdateStates
      /\ announced \subseteq Calls /\ server = NoCall /\ applied = NoCall
      /\ connected \in BOOLEAN /\ inOta \in BOOLEAN /\ missed = {}
      /\ sample = "none" /\ unseen = {} /\ may \in Settings
  BY DEF Init, UpdateStates
<1>4. offlines \in 0..MaxOffline
  BY OtaAssumption DEF Init
<1>5. QED
  BY <1>1, <1>2, <1>3, <1>4 DEF TypeInv, TypeOK

LEMMA TypeStep == TypeInv /\ [Next]_vars => TypeInv'
<1> SUFFICES ASSUME TypeInv, [Next]_vars PROVE TypeInv'
  OBVIOUS
<1>1. CASE UNCHANGED vars
  BY <1>1 DEF vars, calls, node, link, data, aside, TypeInv, TypeOK
<1>2. QED
  BY <1>1, CallTypes, OtherTypes DEF Next

\* Every variable keeps its type, whatever fails and however many calls overlap.
THEOREM OtaTypes == Spec => []TypeOK
<1>1. TypeInv => TypeOK
  BY DEF TypeInv
<1>2. QED
  BY <1>1, TypeStart, TypeStep, PTL DEF Spec

-----------------------------------------------------------------------------
(* The callbacks of the node: one of every call in its try block.           *)

CallbacksInv ==
  /\ \A u \in Calls : (pc[u] \in Updating) <=> (\E i \in DOMAIN callbacks : callbacks[i] = u)
  /\ \A i, j \in DOMAIN callbacks : callbacks[i] = callbacks[j] => i = j

LEMMA CallKeepsCallbacks ==
  ASSUME TypeInv, CallbacksInv, NEW u \in Calls, Begin(u) \/ CallStep(u)
  PROVE  CallbacksInv'
<1>a. pc \in [Calls -> Pcs] /\ callbacks \in Seq(Calls)
  BY DEF TypeInv, TypeOK
<1>b. Len(callbacks) \in Nat /\ DOMAIN callbacks = 1..Len(callbacks)
  BY <1>a, LenProperties
<1>c. ASSUME NEW l, pc' = [pc EXCEPT ![u] = l], l \in Updating <=> pc[u] \in Updating,
             UNCHANGED callbacks
      PROVE  CallbacksInv'
  BY <1>a, <1>c DEF CallbacksInv
<1>1. CASE Begin(u) \/ CheckUpdate(u) \/ FetchUpdate(u)
  BY <1>1, <1>c DEF Begin, CheckUpdate, FetchUpdate, Goto, Raise, Updating
<1>2. CASE Admit(u) /\ inOta
  BY <1>2, <1>c DEF Admit, Raise, Goto, Updating
<1>3. CASE Admit(u) /\ ~inOta
  <2>1. /\ pc[u] \notin Updating /\ pc' = [pc EXCEPT ![u] = "launch"] /\ "launch" \in Updating
        /\ callbacks' = Append(callbacks, u)
    BY <1>3 DEF Admit, Goto, Updating
  <2>2. /\ callbacks' \in Seq(Calls) /\ Len(callbacks') = Len(callbacks) + 1
        /\ DOMAIN callbacks' = 1..Len(callbacks')
        /\ \A i \in DOMAIN callbacks : callbacks'[i] = callbacks[i]
        /\ callbacks'[Len(callbacks) + 1] = u
    BY <1>a, <1>b, <2>1, AppendProperties, LenProperties
  <2>3. DOMAIN callbacks' = DOMAIN callbacks \cup {Len(callbacks) + 1}
    BY <1>b, <2>2
  <2>4. \A i \in DOMAIN callbacks : callbacks[i] # u
    BY <2>1 DEF CallbacksInv
  <2>5. QED
    BY <1>a, <2>1, <2>2, <2>3, <2>4 DEF CallbacksInv
<1>4. CASE Launch(u) \/ Commission(u) \/ Announce(u) \/ Awake(u) \/ Stop(u) \/ Reap(u)
  BY <1>4, <1>c DEF Launch, Commission, Announce, Awake, Stop, Reap, Goto, Fail, Updating
<1>5. CASE Leave(u)
  <2>1. /\ pc[u] \in Updating /\ pc' = [pc EXCEPT ![u] = "ended"] /\ "ended" \notin Updating
    BY <1>5 DEF Leave, Goto, Updating
  <2>2. PICK i \in DOMAIN callbacks : callbacks[i] = u /\ callbacks' = RemoveAt(callbacks, i)
    BY <1>5 DEF Leave
  <2>3. /\ callbacks' \in Seq(Calls) /\ Len(callbacks') = Len(callbacks) - 1
        /\ DOMAIN callbacks' = 1..Len(callbacks')
        /\ \A j \in 1..Len(callbacks') :
             callbacks'[j] = callbacks[IF j < i THEN j ELSE j + 1]
    BY <1>a, <2>2, CallbackTaken, LenProperties
  <2>4. \A j \in DOMAIN callbacks' : \E k \in DOMAIN callbacks :
          k # i /\ callbacks'[j] = callbacks[k]
    <3> SUFFICES ASSUME NEW j \in DOMAIN callbacks'
                 PROVE  \E k \in DOMAIN callbacks : k # i /\ callbacks'[j] = callbacks[k]
      OBVIOUS
    <3> DEFINE k == IF j < i THEN j ELSE j + 1
    <3>1. k \in DOMAIN callbacks /\ k # i /\ callbacks'[j] = callbacks[k]
      BY <1>b, <2>3
    <3>2. QED
      BY <3>1
  <2>5. ASSUME NEW k \in DOMAIN callbacks, k # i
        PROVE  \E j \in DOMAIN callbacks' : callbacks'[j] = callbacks[k]
    <3> DEFINE j == IF k < i THEN k ELSE k - 1
    <3>1. j \in DOMAIN callbacks' /\ callbacks'[j] = callbacks[k]
      BY <1>b, <2>3, <2>5
    <3>2. QED
      BY <3>1
  <2>6. \A j, k \in DOMAIN callbacks' : callbacks'[j] = callbacks'[k] => j = k
    <3> SUFFICES ASSUME NEW j \in DOMAIN callbacks', NEW k \in DOMAIN callbacks',
                        callbacks'[j] = callbacks'[k]
                 PROVE  j = k
      OBVIOUS
    <3> DEFINE a == IF j < i THEN j ELSE j + 1
               b == IF k < i THEN k ELSE k + 1
    <3>1. a \in DOMAIN callbacks /\ b \in DOMAIN callbacks /\ callbacks[a] = callbacks[b]
      BY <1>b, <2>3
    <3>2. a = b
      BY <3>1 DEF CallbacksInv
    <3>3. QED
      BY <1>b, <2>3, <3>2
  <2>7. \A v \in Calls : (\E j \in DOMAIN callbacks' : callbacks'[j] = v)
                           <=> (v # u /\ \E k \in DOMAIN callbacks : callbacks[k] = v)
    BY <2>2, <2>4, <2>5 DEF CallbacksInv
  <2>8. QED
    BY <1>a, <2>1, <2>6, <2>7 DEF CallbacksInv
<1>6. QED
  BY <1>1, <1>2, <1>3, <1>4, <1>5 DEF CallStep

LEMMA CallbacksStep == TypeInv /\ CallbacksInv /\ [Next]_vars => CallbacksInv'
<1> SUFFICES ASSUME TypeInv, CallbacksInv, [Next]_vars PROVE CallbacksInv'
  OBVIOUS
<1>1. CASE UNCHANGED vars \/ Report \/ LoopStep \/ NodeOffline \/ NodeOnline
             \/ InterviewReads \/ InterviewWrites \/ NodeStep
  <2>1. UNCHANGED <<pc, callbacks>>
    BY <1>1 DEF vars, calls, Report, LoopStep, RunReport, CheckUpdateState, NodeOffline,
                NodeOnline,
         InterviewReads, InterviewWrites, NodeStep
  <2>2. QED
    BY <2>1 DEF CallbacksInv
<1>2. QED
  BY <1>1, CallKeepsCallbacks DEF Next

\* However calls are turned away or fail, exactly those in their try block are
\* called back when the node reports, each of them once.
THEOREM CallsAreCalledBack == Spec => []CallbacksAreOfCalls
<1>1. Init => CallbacksInv
  BY DEF Init, CallbacksInv, Updating
<1>2. CallbacksInv => CallbacksAreOfCalls
  BY DEF CallbacksInv, CallbacksAreOfCalls, IsInjective
<1>3. QED
  BY <1>1, <1>2, TypeStart, TypeStep, CallbacksStep, PTL DEF Spec

-----------------------------------------------------------------------------
(***************************************************************************)
(* The outcome.  Whoever the node, the loop and the callbacks name was let *)
(* through.  Of a call that was let through alone, all that is posted      *)
(* before it is told that the node went offline, and its future, tell the  *)
(* truth.                                                                  *)
(***************************************************************************)

Turned == {"no update", "not fetched", "already updating"}

\* u was let through by Admit.
Admitted(u) == pc[u] \in Updating \cup {"ended"} /\ result[u] \notin Turned

\* It announced its provider.
Started(u) == pc[u] \in {"wait", "stop", "reap", "leave", "ended"} /\ result[u] \notin Turned

\* What it answers so far fits where it is, and its future.
Answers(u) ==
  /\ pc[u] \in {"idle", "check", "fetch", "admit"} => result[u] = "none"
  /\ result[u] \in Turned => pc[u] = "ended"
  /\ result[u] \in {"ok", "failed"} => done[u] = result[u]

CallsInv ==
  /\ \A u \in Calls : Answers(u)
  /\ \A i \in DOMAIN loop : loop[i].call # NoCall => Admitted(loop[i].call)
  /\ \A i \in DOMAIN loop : loop[i].new = "offline" => offlines > 0

NodeInv ==
  /\ \A u \in Calls : u \in announced \/ u = server \/ u = applied => Started(u)
  /\ \A u \in Calls : u \in announced \/ u = server => pc[u] = "wait" \/ done[u] # "pending"
  /\ server \notin announced /\ applied \notin announced
  /\ device # "idle" => server # NoCall /\ (applied = server <=> device = "unknown")
  /\ server = NoCall =>
       /\ device = "idle" /\ reported = "idle"
       /\ \A i \in DOMAIN loop : loop[i].call # NoCall

\* A node that went from old to idle was right to tell u's callback so.
Confirms(u, old) ==
  /\ server = u /\ device = "idle"
  /\ old = "querying" => applied # u
  /\ old # "querying" => applied = u \/ "abandoned" \in missed

TellsOffline(i, u) == loop[i].call = u /\ loop[i].new = "offline"
Undecided(u) == done[u] = "pending" /\ \A i \in DOMAIN loop : ~TellsOffline(i, u)

\* Nothing the node did since it was last up to date has been reported.
Silent == reported = "idle" /\ \A i \in DOMAIN loop : loop[i].call # NoCall

\* As long as nothing has told u that the node is offline, its reports are true,
\* and there are none if there was no subscription when u announced its provider.
ReportsTrue(u) ==
  /\ u \in announced \/ server = u => connected \/ Silent
  /\ device = "idle" /\ reported # device => Confirms(u, reported)
  /\ \A i \in DOMAIN loop :
       loop[i].call = NoCall /\ loop[i].new = "idle" => Confirms(u, loop[i].old)

PostsTrue(u) ==
  done[u] = "pending" =>
    \A i \in DOMAIN loop :
      loop[i].call = u /\ loop[i].new = "idle" /\ (\A j \in 1..(i - 1) : ~TellsOffline(j, u))
        => Confirms(u, loop[i].old)

DoneTrue(u) == /\ done[u] = "ok" => Confirms(u, "applying")
               /\ done[u] = "failed" /\ offlines = 0 => Confirms(u, "querying")

TruthInv ==
  \A u \in Calls : Alone(u) /\ "state" \notin missed =>
    (Undecided(u) => ReportsTrue(u)) /\ PostsTrue(u) /\ DoneTrue(u)

OutcomeInv == TypeInv /\ CallbacksInv /\ CallsInv /\ NodeInv /\ TruthInv

\* A call that was let through, or has announced, stays so.
LEMMA StagesStay ==
  ASSUME TypeInv, CallsInv, [Next]_vars, NEW v \in Calls
  PROVE  (Admitted(v) => Admitted(v)') /\ (Started(v) => Started(v)')
<1>a. pc \in [Calls -> Pcs] /\ result \in [Calls -> Results]
  BY DEF TypeInv, TypeOK
<1> USE <1>a DEF Admitted, Started, Updating, Turned, Goto
<1>1. ASSUME NEW u \in Calls, Begin(u) \/ CheckUpdate(u) \/ FetchUpdate(u) \/ Admit(u)
      PROVE  (Admitted(v) => Admitted(v)') /\ (Started(v) => Started(v)')
  BY <1>1 DEF Begin, CheckUpdate, FetchUpdate, Admit, Raise
<1>2. ASSUME NEW u \in Calls, Launch(u) \/ Commission(u) \/ Announce(u)
      PROVE  (Admitted(v) => Admitted(v)') /\ (Started(v) => Started(v)')
  BY <1>2 DEF Launch, Commission, Announce, Fail
<1>3. ASSUME NEW u \in Calls, Awake(u) \/ Stop(u) \/ Reap(u) \/ Leave(u)
      PROVE  (Admitted(v) => Admitted(v)') /\ (Started(v) => Started(v)')
  BY <1>3 DEF Awake, Stop, Reap, Leave, TypeInv, TypeOK
<1>4. CASE UNCHANGED vars \/ Report \/ LoopStep \/ NodeOffline \/ NodeOnline
             \/ InterviewReads \/ InterviewWrites \/ NodeStep
  BY <1>4 DEF vars, calls, Report, LoopStep, RunReport, CheckUpdateState, NodeOffline,
              NodeOnline,
         InterviewReads, InterviewWrites, NodeStep
<1>5. QED
  BY <1>1, <1>2, <1>3, <1>4 DEF Next, CallStep

LEMMA OfflinesAreNat == TypeInv => offlines \in Nat
  BY OtaAssumption DEF TypeInv, TypeOK

LEMMA CallsStep ==
  ASSUME TypeInv, CallbacksInv, CallsInv, [Next]_vars, TypeInv'
  PROVE  CallsInv'
<1>a. /\ pc \in [Calls -> Pcs] /\ result \in [Calls -> Results]
      /\ done \in [Calls -> {"pending", "ok", "failed"}]
      /\ callbacks \in Seq(Calls) /\ loop \in Seq(Posts)
      /\ \A i \in DOMAIN loop : loop[i] \in Posts
  BY LenProperties, ElementOfSeq DEF TypeInv, TypeOK
<1>b. \A u \in Calls : Answers(u)
  BY DEF CallsInv
<1>c. /\ \A i \in DOMAIN loop : loop[i].call # NoCall => Admitted(loop[i].call)
      /\ \A i \in DOMAIN loop : loop[i].new = "offline" => offlines > 0
  BY DEF CallsInv
<1>d. \A k \in DOMAIN callbacks : callbacks[k] \in Calls /\ Admitted(callbacks[k])
  <2>1. \A k \in DOMAIN callbacks : callbacks[k] \in Calls /\ pc[callbacks[k]] \in Updating
    BY <1>a, LenProperties, ElementOfSeq DEF CallbacksInv
  <2>2. QED
    BY <1>b, <2>1 DEF Admitted, Updating, Answers
<1> DEFINE Stays(v) == pc'[v] \in Updating \cup {"ended"} /\ result'[v] \notin Turned
<1>e. ASSUME NEW v \in Calls, Admitted(v) PROVE Stays(v)
  BY <1>e, StagesStay DEF Admitted
<1> HIDE DEF Stays
<1>1. ASSUME NEW v \in Calls PROVE Answers(v)'
  <2> USE <1>a DEF Turned, Goto, Answers
  <2>a. Answers(v)
    BY <1>b
  <2>1. ASSUME NEW u \in Calls, Begin(u) \/ CheckUpdate(u) \/ FetchUpdate(u) \/ Admit(u)
        PROVE  Answers(v)'
    BY <2>1, <2>a DEF Begin, CheckUpdate, FetchUpdate, Admit, Raise
  <2>2. ASSUME NEW u \in Calls, Launch(u) \/ Commission(u) \/ Announce(u)
        PROVE  Answers(v)'
    BY <2>2, <2>a DEF Launch, Commission, Announce, Fail
  <2>3. ASSUME NEW u \in Calls, Awake(u)
        PROVE  Answers(v)'
    BY <2>3, <2>a DEF Awake
  <2>4. ASSUME NEW u \in Calls, Stop(u) \/ Reap(u) \/ Leave(u)
        PROVE  Answers(v)'
    BY <2>4, <2>a DEF Stop, Reap, Leave
  <2>5. CASE CheckUpdateState
    BY <2>5, <2>a DEF CheckUpdateState
  <2>6. CASE UNCHANGED vars \/ Report \/ RunReport \/ NodeOffline \/ NodeOnline
               \/ InterviewReads \/ InterviewWrites \/ NodeStep
    BY <2>6, <2>a DEF vars, calls, Report, RunReport, NodeOffline, NodeOnline,
         InterviewReads, InterviewWrites, NodeStep
  <2>7. QED
    BY <2>1, <2>2, <2>3, <2>4, <2>5, <2>6 DEF Next, CallStep, LoopStep
<1>2. ASSUME NEW i \in DOMAIN loop'
      PROVE  /\ loop'[i].call # NoCall => Stays(loop'[i].call)
             /\ loop'[i].new = "offline" => offlines' > 0
  <2> DEFINE Known == /\ loop'[i].call # NoCall => Stays(loop'[i].call)
                      /\ loop'[i].new = "offline" => offlines' > 0
  <2>a. ASSUME NEW j \in DOMAIN loop, loop'[i] = loop[j], offlines > 0 => offlines' > 0 PROVE Known
    <3>1. loop[j].call # NoCall => loop[j].call \in Calls
      BY <1>a DEF Posts
    <3>2. loop[j].call # NoCall => Stays(loop[j].call)
      BY <3>1, <1>c, <1>e
    <3>3. QED
      BY <2>a, <3>2, <1>a, <1>c
  <2>b. ASSUME NEW k \in DOMAIN callbacks, loop'[i].call = callbacks[k],
               loop'[i].new = "offline" => offlines' > 0
        PROVE  Known
    <3>1. Stays(callbacks[k])
      BY <1>d, <1>e
    <3>2. QED
      BY <2>b, <3>1
  <2> SUFFICES Known
    OBVIOUS
  <2> HIDE DEF Known
  <2>2. CASE Report
    <3>1. offlines' = offlines /\ Posted(stored, device).call = NoCall
          /\ Posted(stored, device).new # "offline"
      BY <2>2 DEF Report, Posted, TypeInv, TypeOK, UpdateStates, Delayed
    <3>2. CASE loop'[i] = Posted(stored, device)
      BY <3>1, <3>2 DEF Known
    <3>3. CASE i \in DOMAIN loop /\ loop'[i] = loop[i]
      BY <3>1, <3>3, <2>a
    <3>4. QED
      BY <3>2, <3>3, <2>2, ReportPosts
  <2>3. CASE RunReport
    <3>1. offlines' = offlines /\ loop[1].new # "offline"
      BY <2>3, ReportRuns DEF RunReport, link, UpdateStates, Delayed
    <3>2. CASE i + 1 \in DOMAIN loop /\ loop'[i] = loop[i + 1]
      BY <3>1, <3>2, <2>a
    <3>3. CASE \E k \in DOMAIN callbacks :
                 loop'[i] = [call |-> callbacks[k], old |-> loop[1].old, new |-> loop[1].new]
      BY <3>1, <3>3, <2>b
    <3>4. QED
      BY <3>2, <3>3, <2>3, ReportRuns
  <2>4. CASE CheckUpdateState
    <3>1. offlines' = offlines
      BY <2>4 DEF CheckUpdateState, link
    <3>2. QED
      BY <3>1, <2>4, <2>a, CallbackRuns
  <2>5. CASE NodeOffline
    <3>1. offlines' > 0
      BY <2>5, OfflinesAreNat DEF NodeOffline
    <3>2. CASE i \in DOMAIN loop /\ loop'[i] = loop[i]
      BY <3>1, <3>2, <2>a
    <3>3. CASE \E k \in DOMAIN callbacks :
                 loop'[i] = [call |-> callbacks[k], old |-> "offline", new |-> "offline"]
      BY <3>1, <3>3, <2>b
    <3>4. QED
      BY <3>2, <3>3, <2>5, OfflinePosts
  <2>6. CASE UNCHANGED <<loop, offlines>>
    <3>1. i \in DOMAIN loop /\ loop'[i] = loop[i] /\ offlines' = offlines
      BY <2>6
    <3>2. QED
      BY <3>1, <2>a
  <2>7. QED
    <3>1. ASSUME NEW u \in Calls, Begin(u) \/ CallStep(u) PROVE UNCHANGED <<loop, offlines>>
      BY <3>1 DEF Begin, CallStep, CheckUpdate, FetchUpdate, Admit, Launch, Commission,
         Announce, Awake, Stop, Reap, Leave, link
    <3>2. CASE UNCHANGED vars \/ NodeOnline \/ InterviewReads \/ InterviewWrites \/ NodeStep
      BY <3>2, <2>6 DEF vars, link, NodeOnline,
         InterviewReads, InterviewWrites, NodeStep
    <3>3. QED
      BY <3>1, <3>2, <2>2, <2>3, <2>4, <2>5, <2>6 DEF Next, LoopStep
<1>3. QED
  BY <1>1, <1>2 DEF CallsInv, Admitted, Stays

\* Only a call that waits for it is announced to the node or asked by it.
LEMMA NamesStep ==
  ASSUME TypeInv, CallsInv, NodeInv, [Next]_vars
  PROVE  NodeInv'
<1>a. /\ pc \in [Calls -> Pcs] /\ result \in [Calls -> Results]
      /\ done \in [Calls -> {"pending", "ok", "failed"}]
      /\ announced \subseteq Calls /\ NoCall \notin Calls
      /\ server \in Calls \cup {NoCall} /\ applied \in Calls \cup {NoCall}
  BY OtaAssumption DEF TypeInv, TypeOK
<1>b. ASSUME NEW v \in Calls, Started(v) PROVE Started(v)'
  BY <1>b, StagesStay
<1>c. ASSUME NEW v \in Calls, pc[v] = "wait" \/ done[v] # "pending"
      PROVE  pc'[v] = "wait" \/ done'[v] # "pending"
  <2> USE <1>a, <1>c DEF Goto
  <2>1. ASSUME NEW u \in Calls, Begin(u) \/ CheckUpdate(u) \/ FetchUpdate(u) \/ Admit(u)
        PROVE  pc'[v] = "wait" \/ done'[v] # "pending"
    BY <2>1 DEF Begin, CheckUpdate, FetchUpdate, Admit, Raise
  <2>2. ASSUME NEW u \in Calls, Launch(u) \/ Commission(u) \/ Announce(u)
        PROVE  pc'[v] = "wait" \/ done'[v] # "pending"
    BY <2>2 DEF Launch, Commission, Announce, Fail
  <2>3. ASSUME NEW u \in Calls, Awake(u) \/ Stop(u) \/ Reap(u) \/ Leave(u)
        PROVE  pc'[v] = "wait" \/ done'[v] # "pending"
    BY <2>3 DEF Awake, Stop, Reap, Leave
  <2>4. CASE CheckUpdateState
    BY <2>4 DEF CheckUpdateState
  <2>5. CASE UNCHANGED vars \/ Report \/ RunReport \/ NodeOffline \/ NodeOnline
               \/ InterviewReads \/ InterviewWrites \/ NodeStep
    BY <2>5 DEF vars, calls, Report, RunReport, NodeOffline, NodeOnline,
         InterviewReads, InterviewWrites, NodeStep
  <2>6. QED
    BY <2>1, <2>2, <2>3, <2>4, <2>5 DEF Next, CallStep, LoopStep
<1>d. ASSUME UNCHANGED node,
             server = NoCall => /\ reported' = "idle"
                                /\ \A i \in DOMAIN loop' : loop'[i].call # NoCall
      PROVE  NodeInv'
  BY <1>a, <1>b, <1>c, <1>d DEF NodeInv, node
<1>1. ASSUME NEW u \in Calls, Begin(u) \/ CallStep(u), ~Announce(u)
      PROVE  NodeInv'
  <2>1. UNCHANGED <<node, reported, loop>>
    BY <1>1 DEF Begin, CallStep, CheckUpdate, FetchUpdate, Admit, Launch, Commission,
                Awake, Stop, Reap, Leave, link
  <2>2. QED
    BY <2>1, <1>d DEF NodeInv
<1>2. ASSUME NEW u \in Calls, Announce(u)
      PROVE  NodeInv'
  <2>1. UNCHANGED <<device, server, applied, reported, loop>>
    BY <1>2 DEF Announce, link
  <2>2. CASE announced' = announced
    BY <2>1, <2>2, <1>d DEF NodeInv, node
  <2>3. CASE announced' # announced
    <3>1. pc[u] = "announce" /\ announced' = announced \cup {u} /\ pc' = [pc EXCEPT ![u] = "wait"]
          /\ result' = result
      BY <1>2, <2>3 DEF Announce, Goto
    <3>2. u # server /\ u # applied
      BY <3>1 DEF NodeInv, Started
    <3>3. pc'[u] = "wait" /\ Started(u)'
      BY <3>1, <1>a DEF Started, CallsInv, Answers
    <3>4. QED
      BY <1>a, <1>b, <1>c, <2>1, <3>1, <3>2, <3>3 DEF NodeInv
  <2>4. QED
    BY <2>2, <2>3
<1>3. CASE Report
  <2>1. server # NoCall
    BY <1>3 DEF Report, NodeInv
  <2>2. QED
    BY <1>3, <2>1, <1>d DEF Report
<1>4. CASE RunReport
  <2>1. server # NoCall
    BY <1>4, ReportRuns DEF NodeInv
  <2>2. QED
    BY <1>4, <2>1, <1>d DEF RunReport
<1>5. CASE CheckUpdateState
  <2>1. \A i \in DOMAIN loop' : i + 1 \in DOMAIN loop /\ loop'[i] = loop[i + 1]
    BY <1>5, CallbackRuns
  <2>2. UNCHANGED <<node, reported>>
    BY <1>5 DEF CheckUpdateState, link
  <2>3. QED
    BY <2>1, <2>2, <1>d DEF NodeInv
<1>6. CASE NodeOffline
  <2>1. \A i \in DOMAIN loop' :
          \/ i \in DOMAIN loop /\ loop'[i] = loop[i]
          \/ loop'[i].call \in Calls
    BY <1>6, OfflinePosts
  <2>2. UNCHANGED <<node, reported>>
    BY <1>6 DEF NodeOffline
  <2>3. QED
    BY <2>1, <2>2, <1>a, <1>d DEF NodeInv
<1>7. CASE NodeOnline \/ InterviewReads \/ InterviewWrites
  BY <1>7, <1>d DEF NodeOnline, InterviewReads, InterviewWrites, NodeInv, node, link
<1>8. CASE NodeStep
  <2>1. UNCHANGED <<reported, loop>>
    BY <1>8 DEF NodeStep, link
  <2>2. CASE NodeQueries
    <3>1. PICK u \in announced : server' = u /\ announced' = announced \ {u}
      BY <2>2 DEF NodeQueries
    <3>2. applied' = applied /\ device' = "querying"
      BY <2>2 DEF NodeQueries
    <3>3. QED
      BY <1>a, <1>b, <1>c, <3>1, <3>2 DEF NodeInv
  <2>3. CASE NodeIsRefused \/ NodeDownloads \/ NodeApplies \/ NodeIsDelayed \/ NodeResumes
               \/ NodeGivesUp \/ NodeRollsBack \/ NodeIsRolledBack
    <3>1. /\ UNCHANGED <<server, announced, applied>>
          /\ device \notin {"idle", "unknown"} /\ device' # "unknown"
      BY <2>3 DEF NodeIsRefused, NodeDownloads, NodeApplies, NodeIsDelayed, NodeResumes,
                  NodeGivesUp, NodeRollsBack, NodeIsRolledBack, Delayed
    <3>2. QED
      BY <1>a, <1>b, <1>c, <3>1 DEF NodeInv
  <2>4. CASE NodeIsDone \/ NodeIsUp
    <3>1. /\ UNCHANGED <<server, announced>> /\ device # "idle" /\ device' \in {"idle", "unknown"}
          /\ applied' = server
      BY <2>4 DEF NodeIsDone, NodeIsUp, NodeInv
    <3>2. QED
      BY <1>a, <1>b, <1>c, <3>1 DEF NodeInv
  <2>5. QED
    BY <1>8, <2>2, <2>3, <2>4 DEF NodeStep
<1>9. CASE UNCHANGED vars
  BY <1>9, <1>d DEF vars, node, link, NodeInv
<1>10. QED
  BY <1>1, <1>2, <1>3, <1>4, <1>5, <1>6, <1>7, <1>8, <1>9 DEF Next, LoopStep

\* Only what was let through can have kept u from being alone.
LEMMA AloneStays ==
  ASSUME TypeInv, CallsInv, [Next]_vars, NEW u \in Calls, Alone(u)', "state" \notin missed'
  PROVE  Alone(u) /\ "state" \notin missed
<1>1. pc \in [Calls -> Pcs] /\ pc' \in [Calls -> Pcs]
  BY TypeStep DEF TypeInv, TypeOK
<1>2. ASSUME NEW v \in Calls, v # u, Admitted(v) PROVE FALSE
  <2>1. Admitted(v)'
    BY <1>2, StagesStay
  <2>2. QED
    BY <1>1, <1>2, <2>1 DEF Alone, Admitted, Turned, Updating
<1>3. Alone(u)
  BY <1>1, <1>2 DEF Alone, Admitted, Turned, Updating, Pcs
<1>4. missed \subseteq missed'
  BY DEF Next, CallStep, Begin, CheckUpdate, FetchUpdate, Admit, Launch, Commission, Announce,
         Awake, Stop, Reap, Leave, vars, Report, LoopStep, RunReport, CheckUpdateState,
         NodeOffline, NodeOnline, InterviewReads, InterviewWrites, NodeStep, aside
<1>5. QED
  BY <1>3, <1>4

\* Then nobody else is named by the node, the loop or the callbacks.
LEMMA NobodyElse ==
  ASSUME TypeInv, CallbacksInv, CallsInv, NodeInv, NEW u \in Calls, Alone(u)
  PROVE  /\ announced \subseteq {u} /\ server \in {u, NoCall} /\ applied \in {u, NoCall}
         /\ \A i \in DOMAIN loop : loop[i].call \in {u, NoCall}
         /\ \A k \in DOMAIN callbacks : callbacks[k] = u
<1>1. ASSUME NEW v \in Calls, Admitted(v) PROVE v = u
  BY <1>1 DEF Alone, Admitted, Turned, Updating
<1>2. ASSUME NEW v \in Calls, Started(v) PROVE v = u
  BY <1>1, <1>2 DEF Started, Admitted, Updating
<1>3. /\ pc \in [Calls -> Pcs] /\ announced \subseteq Calls /\ loop \in Seq(Posts)
      /\ server \in Calls \cup {NoCall} /\ applied \in Calls \cup {NoCall}
      /\ callbacks \in Seq(Calls)
  BY DEF TypeInv, TypeOK
<1>4. \A i \in DOMAIN loop : loop[i].call \in {u, NoCall}
  <2>1. \A i \in DOMAIN loop : loop[i] \in Posts
    BY <1>3, LenProperties, ElementOfSeq
  <2>2. \A i \in DOMAIN loop : loop[i].call \in Calls \cup {NoCall}
    BY <2>1 DEF Posts
  <2>3. QED
    BY <1>1, <2>2 DEF CallsInv
<1>5. \A k \in DOMAIN callbacks : callbacks[k] = u
  <2>1. \A k \in DOMAIN callbacks : callbacks[k] \in Calls
    BY <1>3, LenProperties, ElementOfSeq
  <2>2. \A k \in DOMAIN callbacks : Admitted(callbacks[k])
    BY <2>1 DEF CallbacksInv, CallsInv, Answers, Admitted, Updating
  <2>3. QED
    BY <1>1, <2>1, <2>2
<1>6. QED
  BY <1>2, <1>3, <1>4, <1>5 DEF NodeInv

\* The three parts of what is true of a call that is alone.
Truth(u) == (Undecided(u) => ReportsTrue(u)) /\ PostsTrue(u) /\ DoneTrue(u)

LEMMA CallKeepsTruth ==
  ASSUME NodeInv, NEW u \in Calls, Truth(u), NEW v \in Calls, Begin(v) \/ CallStep(v),
         server \in {u, NoCall}
  PROVE  Truth(u)'
<1>1. UNCHANGED <<done, loop, device, server, applied, link, missed>>
  BY DEF Begin, CallStep, CheckUpdate, FetchUpdate, Admit, Launch, Commission, Announce, Awake,
         Stop, Reap, Leave, node, link, aside
<1>2. /\ Undecided(u)' <=> Undecided(u)
      /\ PostsTrue(u)' <=> PostsTrue(u)
      /\ DoneTrue(u)' <=> DoneTrue(u)
  BY <1>1 DEF Undecided, PostsTrue, DoneTrue, TellsOffline, Confirms, link
<1>3. u \in announced' => u \in announced \/ Silent
  <2>1. CASE Announce(u)
    <3>1. ~Started(u)
      BY <2>1 DEF Announce, Started
    <3>2. server = NoCall
      BY <3>1 DEF NodeInv
    <3>3. QED
      BY <3>2 DEF NodeInv, Silent
  <2>2. CASE Announce(v) /\ v # u
    BY <2>2 DEF Announce
  <2>3. CASE ~Announce(v)
    <3>1. announced' = announced
      BY <2>3 DEF Begin, CallStep, CheckUpdate, FetchUpdate, Admit, Launch, Commission, Awake,
                  Stop, Reap, Leave, node
    <3>2. QED
      BY <3>1
  <2>4. QED
    BY <2>1, <2>2, <2>3
<1>4. ReportsTrue(u) => ReportsTrue(u)'
  BY <1>1, <1>3 DEF ReportsTrue, Confirms, Silent, link
<1>5. QED
  BY <1>2, <1>4 DEF Truth

\* The node's own steps: none is taken once its outcome is settled.
LEMMA NodeKeepsTruth ==
  ASSUME TypeInv, NodeInv, NEW u \in Calls, Truth(u), NodeStep, "state" \notin missed',
         announced \subseteq {u}, server \in {u, NoCall}
  PROVE  Truth(u)'
<1>a. /\ UNCHANGED <<done, loop, reported, connected, offlines>>
      /\ ~(connected /\ reported # device)
  BY DEF NodeStep, calls, link
<1>b. u # NoCall
  BY OtaAssumption
<1>1. device = "idle" => u \in announced /\ server # u
  BY DEF NodeStep, NodeQueries, NodeIsRefused, NodeDownloads, NodeApplies, NodeIsDelayed,
         NodeResumes, NodeGivesUp, NodeRollsBack, NodeIsRolledBack, NodeIsDone, NodeIsUp,
         Delayed, NodeInv
<1>2. device # "idle" => server = u /\ (applied = u <=> device = "unknown")
  BY DEF NodeInv
<1>3. ASSUME NEW o PROVE ~Confirms(u, o)
  BY <1>1 DEF Confirms
<1>4. /\ done[u] # "ok" /\ (done[u] = "failed" => offlines # 0)
      /\ done[u] = "pending" =>
           \A i \in DOMAIN loop :
             loop[i].call = u /\ loop[i].new = "idle" =>
               \E j \in 1..(i - 1) : TellsOffline(j, u)
  BY <1>3 DEF Truth, DoneTrue, PostsTrue
<1>5. DoneTrue(u)' /\ PostsTrue(u)'
  BY <1>a, <1>4 DEF DoneTrue, PostsTrue, TellsOffline
<1>6. ASSUME Undecided(u) PROVE ReportsTrue(u)'
  <2>1. (connected /\ reported = device) \/ Silent
    BY <1>a, <1>1, <1>2, <1>6 DEF Truth, ReportsTrue
  <2>2. \A i \in DOMAIN loop : ~(loop[i].call = NoCall /\ loop[i].new = "idle")
    BY <1>3, <1>6 DEF Truth, ReportsTrue
  <2>3. device' = "idle" /\ reported' # device' => Confirms(u, reported)'
    <3> SUFFICES ASSUME device' = "idle", reported' # "idle" PROVE Confirms(u, reported)'
      OBVIOUS
    <3>1. reported = device /\ reported' = device /\ device # "idle" /\ server = u
      BY <1>a, <1>2, <2>1 DEF Silent
    <3>2. CASE NodeIsRefused
      BY <3>1, <3>2, <1>2 DEF NodeIsRefused, Confirms
    <3>3. CASE NodeGivesUp \/ NodeIsRolledBack
      <4>1. /\ device \notin {"querying", "unknown"} /\ server' = u /\ applied' = applied
        BY <3>1, <3>3 DEF NodeGivesUp, NodeIsRolledBack, Delayed
      <4>2. "abandoned" \in missed'
        BY <3>1, <1>2, <4>1 DEF NodeStep
      <4>3. QED
        BY <3>1, <4>1, <4>2 DEF Confirms
    <3>4. CASE NodeIsDone \/ NodeIsUp
      BY <3>1, <3>4, <1>2 DEF NodeIsDone, NodeIsUp, Confirms
    <3>5. QED
      BY <3>2, <3>3, <3>4 DEF NodeStep, NodeQueries, NodeDownloads, NodeApplies, NodeIsDelayed,
         NodeResumes, NodeRollsBack
  <2>4. connected' \/ Silent'
    BY <1>a, <2>1 DEF Silent
  <2>5. QED
    BY <1>a, <2>2, <2>3, <2>4 DEF ReportsTrue
<1>7. Undecided(u)' <=> Undecided(u)
  BY <1>a DEF Undecided, TellsOffline
<1>8. QED
  BY <1>5, <1>6, <1>7 DEF Truth

\* Reports and callbacks: the node stays where it is, what is posted moves up.
LEMMA LoopKeepsTruth ==
  ASSUME TypeInv, CallbacksInv, CallsInv, NodeInv, NEW u \in Calls, Truth(u), "state" \notin missed',
         Report \/ LoopStep \/ NodeOffline \/ NodeOnline \/ InterviewReads \/ InterviewWrites,
         \A i \in DOMAIN loop : loop[i].call \in {u, NoCall},
         \A k \in DOMAIN callbacks : callbacks[k] = u
  PROVE  Truth(u)'
<1>a. /\ UNCHANGED <<device, announced, server, applied>> /\ missed \subseteq missed'
      /\ u # NoCall /\ loop \in Seq(Posts)
      /\ DOMAIN loop = 1..Len(loop) /\ Len(loop) \in Nat
  BY OtaAssumption, LenProperties
     DEF Report, LoopStep, RunReport, CheckUpdateState, NodeOffline, NodeOnline,
         InterviewReads, InterviewWrites, node, aside, TypeInv, TypeOK
<1>b. ASSUME NEW o, Confirms(u, o) PROVE Confirms(u, o)'
  BY <1>a, <1>b DEF Confirms
<1>1. CASE Report
  <2>1. /\ stored = reported /\ reported' = device /\ reported # device
        /\ UNCHANGED <<done, connected, offlines>> /\ connected
    BY <1>1 DEF Report, calls
  <2>2. /\ \A i \in DOMAIN loop : i \in DOMAIN loop' /\ loop'[i] = loop[i]
        /\ \A i \in DOMAIN loop' :
             \/ i \in DOMAIN loop /\ loop'[i] = loop[i]
             \/ loop'[i].call = NoCall /\ loop'[i].old = reported /\ loop'[i].new = device
    BY <1>1, <2>1, ReportPosts DEF Posted
  <2>3. Undecided(u)' => Undecided(u)
    BY <2>1, <2>2 DEF Undecided, TellsOffline
  <2>4. Undecided(u) => ReportsTrue(u)'
    <3> SUFFICES ASSUME Undecided(u) PROVE ReportsTrue(u)'
      OBVIOUS
    <3>1. ReportsTrue(u)
      BY DEF Truth
    <3>2. ASSUME NEW i \in DOMAIN loop', loop'[i].call = NoCall, loop'[i].new = "idle"
          PROVE  Confirms(u, loop'[i].old)
      BY <2>1, <2>2, <3>1, <3>2 DEF ReportsTrue
    <3>3. QED
      BY <1>a, <1>b, <2>1, <3>1, <3>2 DEF ReportsTrue, Confirms
  <2>5. PostsTrue(u)'
    <3> SUFFICES ASSUME done[u] = "pending", NEW i \in DOMAIN loop', loop'[i].call = u,
                        loop'[i].new = "idle", \A j \in 1..(i - 1) : ~TellsOffline(j, u)'
                 PROVE  Confirms(u, loop[i].old)'
      BY <2>1 DEF PostsTrue
    <3>1. i \in DOMAIN loop /\ loop'[i] = loop[i]
      BY <1>a, <2>2
    <3>2. \A j \in 1..(i - 1) : ~TellsOffline(j, u)
      <4> SUFFICES ASSUME NEW j \in 1..(i - 1) PROVE ~TellsOffline(j, u)
        OBVIOUS
      <4>1. j \in DOMAIN loop
        BY <1>a, <3>1
      <4>2. QED
        BY <2>2, <4>1 DEF TellsOffline
    <3>3. Confirms(u, loop[i].old)
      BY <3>1, <3>2 DEF Truth, PostsTrue
    <3>4. QED
      BY <1>a, <3>1, <3>3 DEF Confirms
  <2>6. DoneTrue(u)'
    BY <1>b, <2>1 DEF Truth, DoneTrue
  <2>7. QED
    BY <2>3, <2>4, <2>5, <2>6 DEF Truth
<1>2. CASE RunReport
  <2>1. UNCHANGED <<done, reported, connected, offlines>>
    BY <1>2 DEF RunReport, calls, link
  <2>2. /\ 1 \in DOMAIN loop /\ loop[1].call = NoCall
        /\ \A i \in DOMAIN loop : i # 1 => i - 1 \in DOMAIN loop' /\ loop'[i - 1] = loop[i]
        /\ \A i \in DOMAIN loop' :
             \/ i + 1 \in DOMAIN loop /\ loop'[i] = loop[i + 1]
             \/ /\ i >= Len(loop) /\ loop'[i].call \in Calls
                /\ loop'[i].old = loop[1].old /\ loop'[i].new = loop[1].new
    BY <1>2, ReportRuns
  <2>3. ASSUME NEW n \in Nat, \A j \in 1..n : ~TellsOffline(j, u)'
        PROVE  \A j \in 1..(n + 1) : j \in DOMAIN loop => ~TellsOffline(j, u)
    <3> SUFFICES ASSUME NEW j \in 1..(n + 1), j \in DOMAIN loop, j # 1 PROVE ~TellsOffline(j, u)
      BY <1>a, <2>2 DEF TellsOffline
    <3>1. j - 1 \in 1..n /\ loop'[j - 1] = loop[j]
      BY <1>a, <2>2
    <3>2. QED
      BY <2>3, <3>1 DEF TellsOffline
  <2>4. Undecided(u)' => Undecided(u)
    BY <1>a, <2>1, <2>2 DEF Undecided, TellsOffline
  <2>5. Undecided(u) => ReportsTrue(u)'
    <3> SUFFICES ASSUME Undecided(u) PROVE ReportsTrue(u)'
      OBVIOUS
    <3>1. ReportsTrue(u)
      BY DEF Truth
    <3>2. ASSUME NEW i \in DOMAIN loop', loop'[i].call = NoCall, loop'[i].new = "idle"
          PROVE  Confirms(u, loop'[i].old)
      BY <1>a, <2>2, <3>1, <3>2, OtaAssumption DEF ReportsTrue
    <3>3. Silent => Silent'
      BY <1>a, <2>1, <2>2, OtaAssumption DEF Silent
    <3>4. QED
      BY <1>a, <1>b, <2>1, <3>1, <3>2, <3>3 DEF ReportsTrue, Confirms
  <2>6. PostsTrue(u)'
    <3> SUFFICES ASSUME done[u] = "pending", NEW i \in DOMAIN loop', loop'[i].call = u,
                        loop'[i].new = "idle", \A j \in 1..(i - 1) : ~TellsOffline(j, u)'
                 PROVE  Confirms(u, loop[i].old)'
      BY <2>1 DEF PostsTrue
    <3>1. i \in Nat \ {0}
      BY <1>2, ReportRuns, LenProperties
    <3>2. \A j \in 1..i : j \in DOMAIN loop => ~TellsOffline(j, u)
      BY <2>3, <3>1
    <3>3. Confirms(u, loop'[i].old)
      <4>1. CASE i + 1 \in DOMAIN loop /\ loop'[i] = loop[i + 1]
        <5>1. \A j \in 1..((i + 1) - 1) : ~TellsOffline(j, u)
          BY <1>a, <3>1, <3>2, <4>1
        <5>2. QED
          BY <4>1, <5>1 DEF Truth, PostsTrue
      <4>2. CASE /\ i >= Len(loop) /\ loop'[i].call \in Calls
                 /\ loop'[i].old = loop[1].old /\ loop'[i].new = loop[1].new
        <5>1. Undecided(u)
          BY <1>a, <3>1, <3>2, <4>2 DEF Undecided
        <5>2. QED
          BY <2>2, <4>2, <5>1 DEF Truth, ReportsTrue
      <4>3. QED
        BY <2>2, <4>1, <4>2
    <3>4. QED
      BY <1>a, <3>3 DEF Confirms
  <2>7. DoneTrue(u)'
    BY <1>b, <2>1 DEF Truth, DoneTrue
  <2>8. QED
    BY <2>4, <2>5, <2>6, <2>7 DEF Truth
<1>3. CASE CheckUpdateState
  <2>1. UNCHANGED <<reported, connected, offlines>> /\ done \in [Calls -> {"pending", "ok", "failed"}]
    BY <1>3 DEF CheckUpdateState, link, TypeInv, TypeOK
  <2>2. /\ 1 \in DOMAIN loop /\ loop[1].call = u /\ loop[1] \in Posts
        /\ \A i \in DOMAIN loop : i # 1 => i - 1 \in DOMAIN loop' /\ loop'[i - 1] = loop[i]
        /\ \A i \in DOMAIN loop' : i + 1 \in DOMAIN loop /\ loop'[i] = loop[i + 1]
    BY <1>3, CallbackRuns, OtaAssumption
  <2>3. done'[u] = IF done[u] = "pending" THEN Outcome(loop[1].old, loop[1].new) ELSE done[u]
    BY <1>3, <2>1, <2>2, CallbackRuns DEF CheckUpdateState
  <2>4. CASE done[u] # "pending"
    BY <1>b, <2>1, <2>3, <2>4 DEF Truth, Undecided, PostsTrue, DoneTrue
  <2>5. CASE done[u] = "pending" /\ loop[1].new = "offline"
    <3>1. done'[u] = "failed" /\ offlines' # 0
      BY <2>1, <2>2, <2>3, <2>5 DEF Outcome, CallsInv
    <3>2. QED
      BY <3>1 DEF Truth, Undecided, PostsTrue, DoneTrue
  <2>6. CASE done[u] = "pending" /\ loop[1].new = "idle"
    <3>1. Confirms(u, loop[1].old)
      <4>1. \A j \in 1..(1 - 1) : ~TellsOffline(j, u)
        OBVIOUS
      <4>2. QED
        BY <2>2, <2>6, <4>1 DEF Truth, PostsTrue
    <3>2. /\ done'[u] = "failed" => loop[1].old = "querying"
          /\ done'[u] = "ok" => loop[1].old # "querying"
          /\ done'[u] # "pending"
      BY <2>3, <2>6 DEF Outcome
    <3>3. DoneTrue(u)'
      BY <1>a, <3>1, <3>2 DEF DoneTrue, Confirms
    <3>4. QED
      BY <3>2, <3>3 DEF Truth, Undecided, PostsTrue
  <2>7. CASE done[u] = "pending" /\ loop[1].new \notin {"idle", "offline"}
    <3>1. done'[u] = "pending"
      BY <2>3, <2>7 DEF Outcome
    <3>2. Undecided(u)' => Undecided(u)
      BY <1>a, <2>2, <2>7, <3>1 DEF Undecided, TellsOffline
    <3>3. Undecided(u) => ReportsTrue(u)'
      <4> SUFFICES ASSUME Undecided(u) PROVE ReportsTrue(u)'
        OBVIOUS
      <4>1. ReportsTrue(u)
        BY DEF Truth
      <4>2. ASSUME NEW i \in DOMAIN loop', loop'[i].call = NoCall, loop'[i].new = "idle"
            PROVE  Confirms(u, loop'[i].old)
        BY <2>2, <4>1, <4>2 DEF ReportsTrue
      <4>3. Silent => Silent'
        BY <1>a, <2>1, <2>2, OtaAssumption DEF Silent
      <4>4. QED
        BY <1>a, <1>b, <2>1, <4>1, <4>2, <4>3 DEF ReportsTrue, Confirms
    <3>4. PostsTrue(u)'
      <4> SUFFICES ASSUME NEW i \in DOMAIN loop', loop'[i].call = u,
                          loop'[i].new = "idle", \A j \in 1..(i - 1) : ~TellsOffline(j, u)'
                   PROVE  Confirms(u, loop[i].old)'
        BY DEF PostsTrue
      <4>1. i \in Nat \ {0} /\ i + 1 \in DOMAIN loop /\ loop'[i] = loop[i + 1]
        BY <1>3, <2>2, CallbackRuns, LenProperties
      <4>2. \A j \in 1..((i + 1) - 1) : ~TellsOffline(j, u)
        <5> SUFFICES ASSUME NEW j \in 1..i PROVE ~TellsOffline(j, u)
          BY <1>a, <4>1
        <5>1. CASE j = 1
          BY <2>7, <5>1 DEF TellsOffline
        <5>2. CASE j # 1
          <6>1. j \in DOMAIN loop /\ j - 1 \in 1..(i - 1) /\ loop'[j - 1] = loop[j]
            BY <1>a, <2>2, <4>1, <5>2
          <6>2. QED
            BY <6>1 DEF TellsOffline
        <5>3. QED
          BY <5>1, <5>2
      <4>3. Confirms(u, loop[i + 1].old)
        BY <2>7, <4>1, <4>2 DEF Truth, PostsTrue
      <4>4. QED
        BY <1>a, <4>1, <4>3 DEF Confirms
    <3>5. QED
      BY <3>1, <3>2, <3>3, <3>4 DEF Truth, DoneTrue
  <2>8. QED
    BY <2>4, <2>5, <2>6, <2>7
<1>4. CASE NodeOffline
  <2>1. UNCHANGED <<done, reported, pc, callbacks>> /\ offlines' # 0
    <3>1. offlines \in Nat
      BY OfflinesAreNat
    <3>2. QED
      BY <1>4, <3>1 DEF NodeOffline, calls
  <2>2. /\ \A i \in DOMAIN loop : i \in DOMAIN loop' /\ loop'[i] = loop[i]
        /\ \A i \in DOMAIN loop' : \/ i \in DOMAIN loop /\ loop'[i] = loop[i]
                                   \/ loop'[i].call \in Calls /\ loop'[i].new = "offline"
        /\ \A k \in DOMAIN callbacks : \E i \in DOMAIN loop' : TellsOffline(i, u)'
    BY <1>4, OfflinePosts DEF TellsOffline
  <2>3. Undecided(u)' => Undecided(u)
    BY <2>1, <2>2 DEF Undecided, TellsOffline
  <2>4. Undecided(u)' => u \notin announced /\ server # u
    <3>1. SUFFICES ASSUME Undecided(u)' PROVE pc[u] # "wait" /\ done[u] = "pending"
      BY DEF NodeInv
    <3>2. ~\E k \in DOMAIN callbacks : callbacks[k] = u
      BY <2>2, <3>1 DEF Undecided
    <3>3. QED
      BY <2>1, <3>1, <3>2 DEF Undecided, CallbacksInv, Updating
  <2>5. Undecided(u)' => ReportsTrue(u)'
    <3> SUFFICES ASSUME Undecided(u)' PROVE ReportsTrue(u)'
      OBVIOUS
    <3>1. ReportsTrue(u)
      BY <2>3 DEF Truth
    <3>2. ASSUME NEW i \in DOMAIN loop', loop'[i].call = NoCall, loop'[i].new = "idle"
          PROVE  Confirms(u, loop'[i].old)
      BY <2>2, <3>1, <3>2 DEF ReportsTrue
    <3>3. QED
      BY <1>a, <1>b, <2>1, <2>4, <3>1, <3>2 DEF ReportsTrue, Confirms
  <2>6. PostsTrue(u)'
    <3> SUFFICES ASSUME done[u] = "pending", NEW i \in DOMAIN loop', loop'[i].call = u,
                        loop'[i].new = "idle", \A j \in 1..(i - 1) : ~TellsOffline(j, u)'
                 PROVE  Confirms(u, loop[i].old)'
      BY <2>1 DEF PostsTrue
    <3>1. i \in DOMAIN loop /\ loop'[i] = loop[i]
      BY <2>2
    <3>2. \A j \in 1..(i - 1) : ~TellsOffline(j, u)
      <4> SUFFICES ASSUME NEW j \in 1..(i - 1) PROVE ~TellsOffline(j, u)
        OBVIOUS
      <4>1. j \in DOMAIN loop
        BY <1>a, <3>1
      <4>2. QED
        BY <2>2, <4>1 DEF TellsOffline
    <3>3. Confirms(u, loop[i].old)
      BY <3>1, <3>2 DEF Truth, PostsTrue
    <3>4. QED
      BY <1>a, <3>1, <3>3 DEF Confirms
  <2>7. DoneTrue(u)'
    BY <1>b, <2>1 DEF Truth, DoneTrue
  <2>8. QED
    BY <2>5, <2>6, <2>7 DEF Truth
<1>5. CASE NodeOnline
  <2>1. UNCHANGED <<done, loop, offlines>> /\ reported' = device /\ connected'
    BY <1>5 DEF NodeOnline, calls
  <2>2. Undecided(u)' <=> Undecided(u)
    BY <2>1 DEF Undecided, TellsOffline
  <2>3. /\ ReportsTrue(u) => ReportsTrue(u)'
        /\ PostsTrue(u) => PostsTrue(u)'
        /\ DoneTrue(u) => DoneTrue(u)'
    BY <1>a, <1>b, <2>1 DEF ReportsTrue, PostsTrue, DoneTrue, TellsOffline, Confirms
  <2>4. QED
    BY <2>2, <2>3 DEF Truth
<1>6. CASE InterviewReads \/ InterviewWrites
  <2>1. UNCHANGED <<done, loop, link>>
    BY <1>6 DEF InterviewReads, InterviewWrites, calls
  <2>2. /\ Undecided(u)' <=> Undecided(u)
        /\ ReportsTrue(u) => ReportsTrue(u)'
        /\ PostsTrue(u) => PostsTrue(u)'
        /\ DoneTrue(u) => DoneTrue(u)'
    BY <1>a, <1>b, <2>1 DEF Undecided, ReportsTrue, PostsTrue, DoneTrue, TellsOffline, Silent,
       Confirms, link
  <2>3. QED
    BY <2>2 DEF Truth
<1>7. QED
  BY <1>1, <1>2, <1>3, <1>4, <1>5, <1>6 DEF LoopStep

LEMMA TruthStep ==
  ASSUME TypeInv, CallbacksInv, CallsInv, NodeInv, TruthInv, [Next]_vars
  PROVE  TruthInv'
<1> SUFFICES ASSUME NEW u \in Calls, Alone(u)', "state" \notin missed' PROVE Truth(u)'
  BY DEF TruthInv, Truth
<1>1. Alone(u) /\ "state" \notin missed
  BY AloneStays
<1>2. Truth(u)
  BY <1>1 DEF TruthInv, Truth
<1>3. CASE UNCHANGED vars
  BY <1>2, <1>3 DEF Truth, Undecided, ReportsTrue, PostsTrue, DoneTrue, TellsOffline, Confirms,
                    Silent, vars, calls, node, link, aside
<1>4. QED
  BY <1>1, <1>2, <1>3, NobodyElse, CallKeepsTruth, NodeKeepsTruth, LoopKeepsTruth DEF Next

\* What update_node answers for a call that no other is let through beside is true
\* of the node, as long as no state of the node went aside the callbacks and, for a
\* success, the node did not come to idle without the update from another state
\* than querying.
THEOREM OutcomesAreTrue == Spec => []OutcomeIsTrue
<1>1. Init => OutcomeInv
  <2> SUFFICES ASSUME Init PROVE OutcomeInv
    OBVIOUS
  <2>1. TypeInv /\ CallbacksInv
    BY TypeStart DEF Init, CallbacksInv, Updating
  <2>2. CallsInv /\ NodeInv
    BY OtaAssumption DEF Init, CallsInv, Answers, NodeInv, Turned
  <2>3. TruthInv
    BY OtaAssumption DEF Init, TruthInv, Undecided, ReportsTrue, PostsTrue, DoneTrue
  <2>4. QED
    BY <2>1, <2>2, <2>3 DEF OutcomeInv
<1>2. OutcomeInv /\ [Next]_vars => OutcomeInv'
  BY TypeStep, CallbacksStep, CallsStep, NamesStep, TruthStep DEF OutcomeInv
<1>3. OutcomeInv => OutcomeIsTrue
  <2> SUFFICES ASSUME OutcomeInv, NEW u \in Calls, Alone(u), "state" \notin missed
               PROVE  /\ result[u] = "ok" /\ missed = {} => applied = u
                      /\ result[u] = "failed" /\ offlines = 0 => applied # u
    BY DEF OutcomeIsTrue, OkMeansApplied, FailedMeansNotApplied
  <2>1. DoneTrue(u) /\ (result[u] \in {"ok", "failed"} => done[u] = result[u])
    BY DEF OutcomeInv, TruthInv, CallsInv, Answers
  <2>2. QED
    BY <2>1 DEF DoneTrue, Confirms
<1>4. QED
  BY <1>1, <1>2, <1>3, PTL DEF Spec
-----------------------------------------------------------------------------
(***************************************************************************)
(* UpdateCheck, for any versions, descriptions and local files.            *)
(***************************************************************************)
LEMMA LessThanRel ==
  \A x, y \in Nat : x < y => <<x, y>> \in OpToRel(<, Nat)
<1>1. OpToRel(<, Nat) = {z \in Nat \X Nat : z[1] < z[2]}
  BY Zenon DEF OpToRel
<1>2. QED
  BY <1>1

\* Every set of naturals that is not empty has a least element.
LEMMA LeastNatural ==
  ASSUME NEW S \in SUBSET Nat, S # {}
  PROVE  \E n \in S : \A k \in S : n <= k
<1>1. PICK x \in S : \A y \in S : ~ (<<y, x>> \in OpToRel(<, Nat))
  BY WFMin, NatLessThanWellFounded
<1>2. \A y \in S : ~ (y < x)
  BY <1>1, LessThanRel, Zenon
<1>3. QED
  BY <1>2

\* A finite one has a greatest: were there a number of elements that have none,
\* the least such number would exceed one that has by a single element.
LEMMA GreatestNatural ==
  ASSUME NEW S \in SUBSET Nat, IsFiniteSet(S), S # {}
  PROVE  Max(S) \in S /\ \A s \in S : s <= Max(S)
<1> DEFINE n == Cardinality(S)
<1>1. n \in Nat /\ n # 0
  BY FS_CardinalityType, FS_EmptySet
<1>2. PICK f : f \in Bijection(1..n, S)
  <2>1. ExistsBijection(1..n, S)
    BY FS_CardinalityType
  <2>2. QED
    BY <2>1 DEF ExistsBijection
<1>3. /\ f \in [1..n -> S]
      /\ \A s \in S : \E i \in 1..n : f[i] = s
  BY <1>2 DEF Bijection, Injection, Surjection
<1> HIDE DEF n
<1> DEFINE Greatest(i, k) == i \in 1..k /\ \A j \in 1..k : f[j] <= f[i]
           Bad == {k \in 1..n : ~ \E i \in 1..k : Greatest(i, k)}
<1>4. Bad = {}
  <2>1. SUFFICES ASSUME Bad # {} PROVE FALSE
    OBVIOUS
  <2>2. PICK k \in Bad : \A j \in Bad : k <= j
    <3>1. Bad \in SUBSET Nat
      BY <1>1
    <3>2. QED
      BY <2>1, <3>1, LeastNatural
  <2>3. k \in 1..n /\ ~ \E i \in 1..k : Greatest(i, k)
    BY <2>2
  <2>4. k # 1
    <3>1. SUFFICES ASSUME k = 1 PROVE FALSE
      OBVIOUS
    <3>2. f[1] \in Nat
      <4>1. 1 \in 1..n
        BY <1>1
      <4>2. QED
        BY <1>3, <4>1
    <3>3. Greatest(1, 1)
      BY <3>2
    <3>4. QED
      BY <2>3, <3>1, <3>3
  <2>5. k - 1 \in 1..n /\ k - 1 \notin Bad /\ \A j \in 1..k : j \in 1..(k - 1) \/ j = k
    <3>1. k - 1 \in 1..n /\ ~ (k <= k - 1)
      BY <1>1, <2>3, <2>4
    <3>2. k - 1 \notin Bad
      BY <2>2, <3>1
    <3>3. \A j \in 1..k : j \in 1..(k - 1) \/ j = k
      BY <1>1, <2>3
    <3>4. QED
      BY <3>1, <3>2, <3>3
  <2>6. PICK i \in 1..(k - 1) : Greatest(i, k - 1)
    BY <2>5
  <2>7. i \in 1..k /\ i \in 1..n /\ \A j \in 1..k : f[j] \in Nat
    <3>1. \A j \in 1..k : j \in 1..n
      BY <1>1, <2>3
    <3>2. \A j \in 1..n : f[j] \in Nat
      BY <1>3
    <3>3. i \in 1..k
      BY <1>1, <2>3, <2>6
    <3>4. QED
      BY <3>1, <3>2, <3>3
  <2>8. f[i] \in Nat /\ f[k] \in Nat
    BY <2>3, <2>7
  <2>9. CASE f[k] <= f[i]
    <3>1. Greatest(i, k)
      BY <2>5, <2>6, <2>7, <2>9
    <3>2. QED
      BY <2>3, <2>7, <3>1
  <2>10. CASE ~ (f[k] <= f[i])
    <3>1. \A j \in 1..(k - 1) : f[j] <= f[i]
      BY <2>6
    <3>2. \A j \in 1..(k - 1) : f[j] <= f[k]
      BY <2>5, <2>7, <2>8, <2>10, <3>1
    <3>3. k \in 1..k /\ f[k] <= f[k]
      BY <1>1, <2>3, <2>8
    <3>4. Greatest(k, k)
      BY <2>5, <3>2, <3>3
    <3>5. QED
      BY <2>3, <3>3, <3>4
  <2>11. QED
    BY <2>9, <2>10
<1>5. PICK i \in 1..n : Greatest(i, n)
  <2>1. n \in 1..n
    BY <1>1
  <2>2. QED
    BY <1>4, <2>1
<1>6. f[i] \in S /\ \A s \in S : s <= f[i]
  BY <1>3, <1>5
<1>7. \E x \in S : \A y \in S : x >= y
  BY <1>6
<1>8. Max(S) \in S /\ \A y \in S : Max(S) >= y
  BY <1>7, Zenon DEF Max
<1>9. QED
  BY <1>8

\* The greatest element is the only one.
LEMMA GreatestIs ==
  ASSUME NEW S \in SUBSET Nat, NEW x \in S, \A s \in S : s <= x
  PROVE  Max(S) = x
<1>1. \E y \in S : \A s \in S : y >= s
  OBVIOUS
<1>2. Max(S) \in S /\ \A s \in S : Max(S) >= s
  BY <1>1, Zenon DEF Max
<1>3. Max(S) \in Nat /\ x \in Nat /\ Max(S) >= x /\ Max(S) <= x
  BY <1>2
<1>4. QED
  BY <1>3

-----------------------------------------------------------------------------
LEMMA AnswerTyped ==
  ASSUME NEW v \in Versions, NEW source \in {"local", "dcl"}
  PROVE  [source |-> source, version |-> v] \in [source : {"local", "dcl"}, version : Versions]
OBVIOUS

LEMMA CandidateIsNewest ==
  ASSUME SearchTypeOK, todo # {}
  PROVE  Candidate(todo) \in todo /\ \A v \in todo : v <= Candidate(todo)
<1>1. IsFiniteSet(todo) /\ todo \in SUBSET Nat
  BY SearchAssumption, FS_Subset DEF SearchTypeOK
<1>2. QED
  BY <1>1, GreatestNatural DEF Candidate

\* A local file is found under the version or the name it was requested by.
LEMMA LocalFiles ==
  ASSUME SearchTypeOK
  PROVE  /\ DOMAIN local = 1..Len(local) /\ Len(local) \in Nat
         /\ \A i \in DOMAIN local : local[i] \in Files
         /\ local # <<>> => 1 \in DOMAIN local
<1>1. local \in Seq(Files)
  BY DEF SearchTypeOK
<1>2. QED
  BY <1>1

LEMMA LocalUpdateMatches ==
  ASSUME SearchTypeOK, NEW k \in LocalKeys
  PROVE  LocalUpdate(k) \in Files /\ k \in {LocalUpdate(k).version, LocalUpdate(k).desc.name}
<1> DEFINE I == {i \in DOMAIN local : k \in {local[i].version, local[i].desc.name}}
<1>1. /\ DOMAIN local = 1..Len(local) /\ Len(local) \in Nat
      /\ \A i \in DOMAIN local : local[i] \in Files
  BY LocalFiles
<1>2. I # {}
  BY DEF LocalKeys
<1>3. IsFiniteSet(I) /\ I \in SUBSET Nat
  <2>1. IsFiniteSet(1..Len(local))
    BY <1>1, FS_Interval
  <2>2. I \in SUBSET (1..Len(local))
    BY <1>1
  <2>3. QED
    BY <2>1, <2>2, FS_Subset
<1>4. Max(I) \in I
  BY <1>2, <1>3, GreatestNatural
<1>5. LocalUpdate(k) = local[Max(I)]
  BY DEF LocalUpdate
<1>6. QED
  BY <1>1, <1>4, <1>5

LEMMA LocalChoiceIsKey ==
  ASSUME SearchTypeOK, HasLocal
  PROVE  LocalChoice \in LocalKeys
<1>1. CASE request = Latest
  <2> DEFINE V == {local[i].version : i \in DOMAIN local}
  <2>1. local # <<>>
    BY DEF HasLocal
  <2>2. 1 \in DOMAIN local /\ \A i \in DOMAIN local : local[i] \in Files
    BY <2>1, LocalFiles
  <2>3. V # {} /\ V \in SUBSET Versions
    BY <2>2, SearchAssumption
  <2>4. IsFiniteSet(V) /\ V \in SUBSET Nat
    BY <2>3, SearchAssumption, FS_Subset
  <2>5. Max(V) \in V
    BY <2>3, <2>4, GreatestNatural
  <2>6. LocalChoice = Max(V)
    BY <1>1 DEF LocalChoice
  <2>7. QED
    BY <2>5, <2>6 DEF LocalKeys
<1>2. CASE request # Latest
  BY <1>2 DEF HasLocal, LocalChoice
<1>3. QED
  BY <1>1, <1>2

LEMMA FoundUpdate ==
  ASSUME NEW v \in Versions, NEW source \in {"local", "dcl"}, NEW desc,
         Found(source, v, desc)
  PROVE  /\ phase' \in {"found", "no url"}
         /\ phase' = "found" =>
              answer' = [source |-> source, version |-> v] /\ answer' # NoUpdate
         /\ phase' # "found" => answer' = answer
<1>1. [source |-> source, version |-> v] # NoUpdate
  BY DEF NoUpdate
<1>2. CASE desc.url
  BY <1>1, <1>2 DEF Found
<1>3. CASE ~ desc.url
  BY <1>3 DEF Found
<1>4. QED
  BY <1>2, <1>3

\* An applicable candidate is offered, one that is not applicable is not.
LEMMA ApplicableIsOffered ==
  ASSUME SearchTypeOK, NEW v \in Newer, request \in Names \cup {Latest}
  PROVE  v \in Offered(request) <=> Applicable(v, request)
<1>1. v \in Versions /\ dcl[v] # Unlisted /\ v > current
  BY DEF Newer
<1>2. dcl[v] \in Descriptions /\ current \in Nat
  BY <1>1, SearchAssumption DEF SearchTypeOK
<1>3. dcl[v].min \in Nat /\ dcl[v].max \in Nat
  BY <1>2, SearchAssumption
<1>4. current \in dcl[v].min..dcl[v].max <=> current >= dcl[v].min /\ current <= dcl[v].max
  BY <1>2, <1>3
<1>5. request = Latest \/ dcl[v].name = request <=> (request \in Names => dcl[v].name = request)
  BY SearchAssumption
<1>6. QED
  BY <1>1, <1>4, <1>5 DEF Offered, Applicable

\* No version that is offered has been passed over, and there is no answer yet
\* while versions are tried.
SearchInv ==
  /\ SearchTypeOK
  /\ answer # NoUpdate => phase = "found"
  /\ phase = "trying" =>
       /\ request \in Names \cup {Latest} /\ todo # {}
       /\ Offered(request) \subseteq todo /\ todo \subseteq Newer

LEMMA SearchStep ==
  ASSUME SearchInv, SearchIsRight, [SearchNext]_searchVars
  PROVE  SearchInv' /\ SearchIsRight'
<1> USE DEF SearchInv
<1>1. ASSUME NEW f \in Files, Load(f) PROVE SearchInv' /\ SearchIsRight'
  <2>1. SearchTypeOK'
    BY <1>1 DEF Load, SearchTypeOK
  <2>2. QED
    BY <1>1, <2>1 DEF Load, SearchIsRight, NoUpdate
<1>2. ASSUME NEW r \in Versions \cup Names \cup {Latest}, Ask(r)
      PROVE  SearchInv' /\ SearchIsRight'
  <2>1. SearchTypeOK'
    BY <1>2 DEF Ask, SearchTypeOK
  <2>2. QED
    BY <1>2, <2>1 DEF Ask, SearchIsRight, NoUpdate
<1>3. CASE FindLocal
  <2> DEFINE f == LocalUpdate(LocalChoice)
  <2>1. f \in Files /\ LocalChoice \in {f.version, f.desc.name}
    BY <1>3, LocalChoiceIsKey, LocalUpdateMatches DEF FindLocal
  <2>2. f.version \in Versions /\ f.desc.name \in Names
    BY <2>1, SearchAssumption
  <2>3. /\ phase = "asked" /\ Found("local", f.version, f.desc)
        /\ UNCHANGED <<dcl, current, local, request, todo>>
    BY <1>3 DEF FindLocal
  <2> HIDE DEF f
  <2>4. /\ phase' \in {"found", "no url"}
        /\ phase' = "found" =>
             answer' = [source |-> "local", version |-> f.version] /\ answer' # NoUpdate
        /\ phase' # "found" => answer' = answer
    BY <2>2, <2>3, FoundUpdate
  <2>5. SearchTypeOK'
    <3>1. answer' \in [source : {"local", "dcl"}, version : Versions] \cup {NoUpdate}
      BY <2>2, <2>4, AnswerTyped DEF SearchTypeOK
    <3>2. QED
      BY <2>3, <2>4, <3>1 DEF SearchTypeOK
  <2>6. request # Latest => LocalChoice = request
    BY DEF LocalChoice
  <2>7. request \in Versions => f.version = request
    BY <2>1, <2>2, <2>6, SearchAssumption
  <2>8. request \in Names => f.desc.name = request
    BY <2>1, <2>2, <2>6, SearchAssumption
  <2>9. SearchIsRight'
    <3>1. phase' # "found" => answer'.source = "none"
      <4>1. answer = NoUpdate /\ NoUpdate.source = "none"
        BY <2>3 DEF NoUpdate
      <4>2. QED
        BY <2>4, <4>1
    <3>2. phase' = "found" => answer'.source = "local" /\ answer'.version = f.version
      BY <2>4
    <3>3. answer'.source # "dcl" /\ phase' # "not found"
      BY <2>4, <3>1, <3>2
    <3>4. request' = request /\ dcl' = dcl
      BY <2>3
    <3>5. phase' = "found" /\ request \in Names =>
            \E g \in Files : g.version = answer'.version /\ g.desc.name = request
      BY <2>1, <2>8, <3>2
    <3>6. phase' = "found" /\ request \in Versions => answer'.version = request
      BY <2>7, <3>2
    <3>7. QED
      BY <3>3, <3>4, <3>5, <3>6 DEF SearchIsRight
  <2>10. QED
    BY <2>3, <2>4, <2>5, <2>9
<1>4. CASE FetchExact
  <2>1. /\ phase = "asked" /\ request \in Versions
        /\ UNCHANGED <<dcl, current, local, request, todo>>
        /\ Found("dcl", request, dcl[request]) \/ (phase' = "not found" /\ answer' = answer)
    BY <1>4 DEF FetchExact
  <2>2. /\ phase' \in {"found", "no url", "not found"}
        /\ phase' = "found" =>
             answer' = [source |-> "dcl", version |-> request] /\ answer' # NoUpdate
        /\ phase' # "found" => answer' = answer
    BY <2>1, FoundUpdate
  <2>3. SearchTypeOK'
    <3>1. answer' \in [source : {"local", "dcl"}, version : Versions] \cup {NoUpdate}
      BY <2>1, <2>2, AnswerTyped DEF SearchTypeOK
    <3>2. QED
      BY <2>1, <2>2, <3>1 DEF SearchTypeOK
  <2>4. request \notin Names \cup {Latest}
    BY <2>1, SearchAssumption
  <2>5. SearchIsRight'
    <3>1. request' = request /\ dcl' = dcl
      BY <2>1
    <3>2. phase' = "found" => answer'.version = request
      BY <2>2
    <3>3. QED
      BY <2>1, <2>4, <3>1, <3>2 DEF SearchIsRight
  <2>6. QED
    BY <2>1, <2>2, <2>3, <2>5
<1>5. CASE FetchList
  <2>1. /\ phase = "asked" /\ request \notin Versions /\ todo' = Newer
        /\ phase' = IF Newer = {} THEN "not found" ELSE "trying"
        /\ UNCHANGED <<dcl, current, local, request, answer>>
    BY <1>5 DEF FetchList
  <2>2. request \in Names \cup {Latest}
    BY <2>1 DEF SearchTypeOK
  <2>3. Offered(request)' = Offered(request) /\ Newer' = Newer
    BY <2>1 DEF Offered, Newer
  <2>4. Offered(request) \subseteq Newer
    BY DEF Offered, Newer
  <2>5. SearchTypeOK'
    BY <2>1 DEF SearchTypeOK, Newer
  <2>6. answer = NoUpdate
    BY <2>1
  <2>7. SearchIsRight'
    BY <2>1, <2>2, <2>3, <2>4, <2>6, SearchAssumption DEF SearchIsRight, NoUpdate
  <2>8. QED
    BY <2>1, <2>2, <2>3, <2>4, <2>5, <2>6, <2>7
<1>6. CASE Try
  <2> DEFINE v == Candidate(todo)
  <2>1. /\ phase = "trying" /\ todo' = todo \ {v}
        /\ UNCHANGED <<dcl, current, local, request>>
        /\ IF Applicable(v, request)
             THEN Found("dcl", v, dcl[v])
             ELSE /\ phase' = IF todo' = {} THEN "not found" ELSE "trying"
                  /\ answer' = answer
    BY <1>6 DEF Try
  <2>2. /\ request \in Names \cup {Latest} /\ todo # {}
        /\ Offered(request) \subseteq todo /\ todo \subseteq Newer
    BY <2>1
  <2>3. v \in todo /\ \A u \in todo : u <= v
    BY <2>2, CandidateIsNewest
  <2> HIDE DEF v
  <2>4. v \in Versions /\ v \in Newer /\ dcl[v] \in Descriptions
    BY <2>2, <2>3 DEF Newer, SearchTypeOK
  <2>5. Offered(request)' = Offered(request) /\ Newer' = Newer
    BY <2>1 DEF Offered, Newer
  <2>6. v \in Offered(request) <=> Applicable(v, request)
    BY <2>2, <2>4, ApplicableIsOffered
  <2>7. CASE Applicable(v, request)
    <3>1. Found("dcl", v, dcl[v])
      BY <2>1, <2>7
    <3>2. dcl[v].url
      BY <2>7 DEF Applicable
    <3>3. phase' = "found" /\ answer' = [source |-> "dcl", version |-> v]
      BY <3>1, <3>2 DEF Found
    <3>4. answer' # NoUpdate /\ answer'.source = "dcl" /\ answer'.version = v
      BY <3>3 DEF NoUpdate
    <3>5. Max(Offered(request)) = v
      <4>1. Offered(request) \in SUBSET Nat /\ v \in Offered(request)
        BY <2>6, <2>7, SearchAssumption DEF Offered
      <4>2. \A u \in Offered(request) : u <= v
        BY <2>2, <2>3
      <4>3. QED
        BY <4>1, <4>2, GreatestIs
    <3>6. SearchTypeOK'
      BY <2>1, <2>4, <3>3 DEF SearchTypeOK
    <3>7. request \in Names => dcl[v].name = request
      BY <2>7 DEF Applicable
    <3>8. request \notin Versions
      BY <2>2, SearchAssumption
    <3>9. SearchIsRight'
      BY <2>1, <2>5, <3>3, <3>4, <3>5, <3>7, <3>8 DEF SearchIsRight
    <3>10. QED
      BY <3>3, <3>6, <3>9
  <2>8. CASE ~ Applicable(v, request)
    <3>1. phase' = (IF todo' = {} THEN "not found" ELSE "trying") /\ answer' = answer
      BY <2>1, <2>8
    <3>2. Offered(request) \subseteq todo' /\ todo' \subseteq Newer
      BY <2>1, <2>2, <2>6, <2>8
    <3>3. SearchTypeOK'
      BY <2>1, <3>1 DEF SearchTypeOK
    <3>4. answer = NoUpdate
      BY <2>1
    <3>5. SearchIsRight'
      BY <2>1, <2>5, <3>1, <3>2, <3>4 DEF SearchIsRight, NoUpdate
    <3>6. QED
      BY <2>1, <2>2, <2>5, <3>1, <3>2, <3>3, <3>4, <3>5
  <2>9. QED
    BY <2>7, <2>8
<1>7. CASE FetchFails
  <2>1. /\ phase' = "error" /\ phase \in {"asked", "trying"}
        /\ UNCHANGED <<dcl, current, local, request, todo, answer>>
    BY <1>7 DEF FetchFails
  <2>2. SearchTypeOK'
    BY <2>1 DEF SearchTypeOK
  <2>3. answer' = NoUpdate /\ answer'.source # "dcl"
    BY <2>1 DEF NoUpdate
  <2>4. SearchIsRight'
    BY <2>1, <2>3 DEF SearchIsRight
  <2>5. QED
    BY <2>1, <2>2, <2>3, <2>4
<1>8. CASE UNCHANGED searchVars
  <2>1. UNCHANGED <<dcl, current, local, request, todo, phase, answer>>
    BY <1>8 DEF searchVars
  <2>2. SearchTypeOK'
    BY <2>1 DEF SearchTypeOK
  <2>3. \A name : Offered(name)' = Offered(name)
    BY <2>1 DEF Offered
  <2>4. Newer' = Newer
    BY <2>1 DEF Newer
  <2>5. SearchIsRight'
    BY <2>1, <2>3 DEF SearchIsRight
  <2>6. QED
    BY <2>1, <2>2, <2>3, <2>4, <2>5
<1>9. QED
  BY <1>1, <1>2, <1>3, <1>4, <1>5, <1>6, <1>7, <1>8 DEF SearchNext

LEMMA SearchInitInv == SearchInit => SearchInv /\ SearchIsRight
<1> SUFFICES ASSUME SearchInit PROVE SearchInv /\ SearchIsRight
  OBVIOUS
<1>1. SearchTypeOK
  BY DEF SearchInit, SearchTypeOK
<1>2. QED
  BY <1>1 DEF SearchInit, SearchInv, SearchIsRight, NoUpdate

LEMMA SearchInvariant == SearchSpec => [](SearchInv /\ SearchIsRight)
<1>1. (SearchInv /\ SearchIsRight) /\ [SearchNext]_searchVars
        => (SearchInv /\ SearchIsRight)'
  BY SearchStep
<1>2. QED
  BY <1>1, SearchInitInv, PTL DEF SearchSpec

\* What a check for an update keeps has its type, whatever the DCL lists.
THEOREM SearchTypes == SearchSpec => []SearchTypeOK
<1>1. SearchInv => SearchTypeOK
  BY DEF SearchInv
<1>2. QED
  BY <1>1, SearchInvariant, PTL

\* check_for_update finds the newest version the DCL offers the node, nothing
\* only if it offers none, and never anything but what was requested.
THEOREM NewestOfferedIsFound == SearchSpec => []SearchIsRight
BY SearchInvariant, PTL
=============================================================================
