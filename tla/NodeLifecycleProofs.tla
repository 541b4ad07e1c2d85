------------------------ MODULE NodeLifecycleProofs ------------------------
(***************************************************************************)
(* Proofs about NodeLifecycle, for every set of tasks, calls and           *)
(* subscriptions.  Types are proved part by part: what happens to the node *)
(* (NodeTypes) first, for it is the same few operators in every action.    *)
(***************************************************************************)
EXTENDS NodeLifecycle, TLAPS

-----------------------------------------------------------------------------
(* Type correctness.                                                       *)

\* What the handlers do to the node keeps its types.
LEMMA NodeTypesStep ==
  ASSUME NodeTypes,
         \/ InterviewWrites \/ MarkUnavailable \/ UNCHANGED nodeVars
  PROVE  NodeTypes'
<1>1. CASE InterviewWrites
  BY <1>1 DEF NodeTypes, InterviewWrites, Announce
<1>2. CASE MarkUnavailable
  BY <1>2 DEF NodeTypes, MarkUnavailable, Announce, nodeVars
<1>3. CASE UNCHANGED nodeVars
  BY <1>3 DEF NodeTypes, nodeVars
<1>4. QED
  BY <1>1, <1>2, <1>3

\* Whoever holds or waits for the lock is a setup task or an interview.
LEMMA InLineType == TypeOK => InLine \in SUBSET Queuers
  BY DEF TypeOK, CallTypes, InLine, Queuers

\* The three ways to stand in line for the lock keep the type of ahead.
LEMMA AheadType ==
  ASSUME TypeOK, NEW a \in Queuers, Queue(a) \/ Leave(a) \/ Requeue(a)
  PROVE  ahead' \in [Queuers -> SUBSET Queuers]
<1>1. ahead \in [Queuers -> SUBSET Queuers]
  BY DEF TypeOK, OtherTypes
<1>2. CASE Queue(a)
  BY <1>1, <1>2, InLineType DEF Queue
<1>3. CASE Leave(a)
  BY <1>1, <1>3 DEF Leave
<1>4. CASE Requeue(a)
  BY <1>1, <1>4, InLineType DEF Requeue
<1>5. QED
  BY <1>2, <1>3, <1>4

\* The initial state is well typed.
LEMMA InitTypeOK == Init => TypeOK
<1> SUFFICES ASSUME Init PROVE TypeOK
  OBVIOUS
<1>1. NodeTypes
  BY DEF Init, NodeTypes
<1>2. SetupTypes /\ CallTypes
  BY DEF Init, SetupTypes, CallTypes, SetupPCs
<1>3. SubTypes
  BY DEF Init, SubTypes, Open, AttemptsUnavailable
<1>4. OtherTypes
  BY DEF Init, OtherTypes
<1>5. QED
  BY <1>1, <1>2, <1>3, <1>4 DEF TypeOK

\* A setup task's steps preserve the types.
LEMMA SetupTypeOK ==
  ASSUME TypeOK, NEW t \in SetupTasks,
         \/ SetupTry(t) \/ SetupCase(t) \/ SetupInterview(t)
         \/ SetupAfterShutdown(t) \/ SetupSubscribed(t) \/ SetupAborted(t)
         \/ SetupFails(t) \/ SetupReaped(t)
  PROVE  TypeOK'
<1>t. t \in Queuers /\ t \in Closers
  BY DEF Queuers, Closers
<1>1. CASE SetupTry(t)
  <2>1. NodeTypes'
    BY <1>1, NodeTypesStep DEF SetupTry, TypeOK
  <2>2. SetupTypes'
    BY <1>1 DEF SetupTry, TypeOK, SetupTypes, SetupPCs, setupVars, Finish
  <2>3. CallTypes'
    BY <1>1 DEF SetupTry, TypeOK, CallTypes, callVars
  <2>4. SubTypes'
    BY <1>1, <1>t DEF SetupTry, TypeOK, SubTypes, subVars, Open,
       AttemptsUnavailable
  <2>5. OtherTypes'
    BY <1>1, <1>t, AheadType DEF SetupTry, TypeOK, OtherTypes, deviceVars
  <2>6. QED
    BY <2>1, <2>2, <2>3, <2>4, <2>5 DEF TypeOK
<1>2. CASE SetupCase(t)
  <2>1. NodeTypes'
    BY <1>2, NodeTypesStep DEF SetupCase, TypeOK
  <2>2. SetupTypes'
    BY <1>2 DEF SetupCase, TypeOK, SetupTypes, SetupPCs, setupVars,
       BeginSubscribe, Finish
  <2>3. CallTypes'
    BY <1>2 DEF SetupCase, TypeOK, CallTypes, callVars
  <2>4. SubTypes'
    BY <1>2, <1>t DEF SetupCase, TypeOK, SubTypes, subVars, Open,
       AttemptsUnavailable, BeginSubscribe, Shutdown
  <2>5. OtherTypes'
    BY <1>2, <1>t, AheadType DEF SetupCase, TypeOK, OtherTypes,
       deviceVars, BeginSubscribe
  <2>6. QED
    BY <2>1, <2>2, <2>3, <2>4, <2>5 DEF TypeOK
<1>3. CASE SetupInterview(t)
  <2>1. NodeTypes'
    BY <1>3, NodeTypesStep DEF SetupInterview, TypeOK
  <2>2. SetupTypes'
    BY <1>3 DEF SetupInterview, TypeOK, SetupTypes, SetupPCs, setupVars,
       Stale, BeginSubscribe
  <2>3. CallTypes'
    BY <1>3 DEF SetupInterview, TypeOK, CallTypes, callVars
  <2>4. SubTypes'
    BY <1>3, <1>t DEF SetupInterview, TypeOK, SubTypes, subVars, Open,
       AttemptsUnavailable, BeginSubscribe, Shutdown
  <2>5. OtherTypes'
    BY <1>3, <1>t, AheadType DEF SetupInterview, TypeOK, OtherTypes,
       deviceVars, BeginSubscribe
  <2>6. QED
    BY <2>1, <2>2, <2>3, <2>4, <2>5 DEF TypeOK
<1>4. CASE SetupAfterShutdown(t)
  <2>1. NodeTypes'
    BY <1>4, NodeTypesStep DEF SetupAfterShutdown, TypeOK
  <2>2. SetupTypes'
    BY <1>4 DEF SetupAfterShutdown, TypeOK, SetupTypes, SetupPCs,
       setupVars, Finish
  <2>3. CallTypes'
    BY <1>4 DEF SetupAfterShutdown, TypeOK, CallTypes, callVars
  <2>4. SubTypes'
    BY <1>4, <1>t DEF SetupAfterShutdown, TypeOK, SubTypes, subVars, Open,
       AttemptsUnavailable, ShutdownReturns
  <2>5. OtherTypes'
    BY <1>4, <1>t, AheadType DEF SetupAfterShutdown, TypeOK, OtherTypes,
       deviceVars
  <2>6. QED
    BY <2>1, <2>2, <2>3, <2>4, <2>5 DEF TypeOK
<1>5. CASE SetupSubscribed(t)
  <2>1. NodeTypes'
    BY <1>5 DEF SetupSubscribed, TypeOK, NodeTypes, Announce
  <2>2. SetupTypes'
    BY <1>5 DEF SetupSubscribed, TypeOK, SetupTypes, SetupPCs, setupVars, Finish
  <2>3. CallTypes'
    BY <1>5 DEF SetupSubscribed, TypeOK, CallTypes, callVars
  <2>4. SubTypes'
    BY <1>5, <1>t DEF SetupSubscribed, TypeOK, SubTypes, subVars, Open,
       AttemptsUnavailable
  <2>5. OtherTypes'
    BY <1>5, <1>t, AheadType DEF SetupSubscribed, TypeOK, OtherTypes, deviceVars
  <2>6. QED
    BY <2>1, <2>2, <2>3, <2>4, <2>5 DEF TypeOK
<1>6. CASE SetupAborted(t)
  <2>1. NodeTypes'
    BY <1>6, NodeTypesStep DEF SetupAborted, TypeOK
  <2>2. SetupTypes'
    BY <1>6 DEF SetupAborted, TypeOK, SetupTypes, SetupPCs, setupVars, Finish
  <2>3. CallTypes'
    BY <1>6 DEF SetupAborted, TypeOK, CallTypes, callVars
  <2>4. SubTypes'
    BY <1>6, <1>t DEF SetupAborted, TypeOK, SubTypes, subVars, Open,
       AttemptsUnavailable
  <2>5. OtherTypes'
    BY <1>6, <1>t, AheadType DEF SetupAborted, TypeOK, OtherTypes, deviceVars
  <2>6. QED
    BY <2>1, <2>2, <2>3, <2>4, <2>5 DEF TypeOK
<1>7. CASE SetupFails(t)
  <2>1. NodeTypes'
    BY <1>7, NodeTypesStep DEF SetupFails, TypeOK
  <2>2. SetupTypes'
    BY <1>7 DEF SetupFails, TypeOK, SetupTypes, SetupPCs, setupVars, Finish
  <2>3. CallTypes'
    BY <1>7 DEF SetupFails, TypeOK, CallTypes, callVars
  <2>4. SubTypes'
    BY <1>7, <1>t DEF SetupFails, TypeOK, SubTypes, subVars, Open,
       AttemptsUnavailable
  <2>5. OtherTypes'
    BY <1>7, <1>t, AheadType DEF SetupFails, TypeOK, OtherTypes, deviceVars
  <2>6. QED
    BY <2>1, <2>2, <2>3, <2>4, <2>5 DEF TypeOK
<1>8. CASE SetupReaped(t)
  <2>1. NodeTypes'
    BY <1>8, NodeTypesStep DEF SetupReaped, TypeOK
  <2>2. SetupTypes'
    BY <1>8 DEF SetupReaped, TypeOK, SetupTypes, SetupPCs, setupVars
  <2>3. CallTypes'
    BY <1>8 DEF SetupReaped, TypeOK, CallTypes, callVars
  <2>4. SubTypes'
    BY <1>8, <1>t DEF SetupReaped, TypeOK, SubTypes, subVars, Open,
       AttemptsUnavailable
  <2>5. OtherTypes'
    BY <1>8 DEF SetupReaped, TypeOK, OtherTypes, deviceVars
  <2>6. QED
    BY <2>1, <2>2, <2>3, <2>4, <2>5 DEF TypeOK
<1>9. QED
  BY <1>1, <1>2, <1>3, <1>4, <1>5, <1>6, <1>7, <1>8

\* Interviews, removals and offline tasks preserve the types.
LEMMA CallTypeOK ==
  ASSUME TypeOK,
         \/ \E i \in Interviewers :
              InterviewCall(i) \/ InterviewDone(i) \/ InterviewFails(i)
         \/ \E r \in Removers :
              RemoveCall(r) \/ RemoveAfterShutdown(r) \/ RemoveUnpaired(r)
         \/ \E o \in OfflineTasks : OfflineShutdown(o) \/ OfflineAfterShutdown(o)
  PROVE  TypeOK'
<1>1. ASSUME NEW i \in Interviewers, InterviewCall(i)
      PROVE  TypeOK'
  <2>1. NodeTypes'
    BY <1>1, NodeTypesStep DEF InterviewCall, TypeOK
  <2>2. SetupTypes'
    BY <1>1 DEF InterviewCall, TypeOK, SetupTypes, SetupPCs, setupVars
  <2>3. CallTypes'
    BY <1>1 DEF InterviewCall, TypeOK, CallTypes, callVars
  <2>4. SubTypes'
    BY <1>1 DEF InterviewCall, TypeOK, SubTypes, subVars, Open,
       AttemptsUnavailable, Closers
  <2>5. OtherTypes'
    BY <1>1, AheadType DEF InterviewCall, TypeOK, OtherTypes, deviceVars,
       Queuers
  <2>6. QED
    BY <2>1, <2>2, <2>3, <2>4, <2>5 DEF TypeOK
<1>2. ASSUME NEW i \in Interviewers, InterviewDone(i)
      PROVE  TypeOK'
  <2>1. NodeTypes'
    BY <1>2, NodeTypesStep DEF InterviewDone, TypeOK
  <2>2. SetupTypes'
    BY <1>2 DEF InterviewDone, TypeOK, SetupTypes, SetupPCs, setupVars,
       Stale
  <2>3. CallTypes'
    BY <1>2 DEF InterviewDone, TypeOK, CallTypes, callVars
  <2>4. SubTypes'
    BY <1>2 DEF InterviewDone, TypeOK, SubTypes, subVars, Open,
       AttemptsUnavailable, Closers
  <2>5. OtherTypes'
    BY <1>2, AheadType DEF InterviewDone, TypeOK, OtherTypes, deviceVars,
       Queuers
  <2>6. QED
    BY <2>1, <2>2, <2>3, <2>4, <2>5 DEF TypeOK
<1>3. ASSUME NEW i \in Interviewers, InterviewFails(i)
      PROVE  TypeOK'
  <2>1. NodeTypes'
    BY <1>3, NodeTypesStep DEF InterviewFails, TypeOK
  <2>2. SetupTypes'
    BY <1>3 DEF InterviewFails, TypeOK, SetupTypes, SetupPCs, setupVars
  <2>3. CallTypes'
    BY <1>3 DEF InterviewFails, TypeOK, CallTypes, callVars
  <2>4. SubTypes'
    BY <1>3 DEF InterviewFails, TypeOK, SubTypes, subVars, Open,
       AttemptsUnavailable, Closers
  <2>5. OtherTypes'
    BY <1>3, AheadType DEF InterviewFails, TypeOK, OtherTypes,
       deviceVars, Queuers
  <2>6. QED
    BY <2>1, <2>2, <2>3, <2>4, <2>5 DEF TypeOK
<1>4. ASSUME NEW r \in Removers, RemoveCall(r)
      PROVE  TypeOK'
  <2>1. NodeTypes'
    BY <1>4 DEF RemoveCall, TypeOK, PopNode, nodeVars, NodeTypes
  <2>2. SetupTypes'
    BY <1>4 DEF RemoveCall, TypeOK, SetupTypes, SetupPCs, setupVars,
       Stale
  <2>3. CallTypes'
    BY <1>4 DEF RemoveCall, TypeOK, CallTypes, callVars, PopNode
  <2>4. SubTypes'
    BY <1>4 DEF RemoveCall, TypeOK, SubTypes, subVars, Open,
       AttemptsUnavailable, Closers
  <2>5. OtherTypes'
    BY <1>4 DEF RemoveCall, TypeOK, OtherTypes, deviceVars
  <2>6. QED
    BY <2>1, <2>2, <2>3, <2>4, <2>5 DEF TypeOK
<1>5. ASSUME NEW r \in Removers, RemoveAfterShutdown(r)
      PROVE  TypeOK'
  <2>1. NodeTypes'
    BY <1>5 DEF RemoveAfterShutdown, TypeOK, PopNode, nodeVars, NodeTypes
  <2>2. SetupTypes'
    BY <1>5 DEF RemoveAfterShutdown, TypeOK, SetupTypes, SetupPCs,
       setupVars, Stale
  <2>3. CallTypes'
    BY <1>5 DEF RemoveAfterShutdown, TypeOK, CallTypes, callVars, PopNode
  <2>4. SubTypes'
    BY <1>5 DEF RemoveAfterShutdown, TypeOK, SubTypes, subVars, Open,
       AttemptsUnavailable, Closers, ShutdownReturns
  <2>5. OtherTypes'
    BY <1>5 DEF RemoveAfterShutdown, TypeOK, OtherTypes, deviceVars
  <2>6. QED
    BY <2>1, <2>2, <2>3, <2>4, <2>5 DEF TypeOK
<1>6. ASSUME NEW r \in Removers, RemoveUnpaired(r)
      PROVE  TypeOK'
  <2>1. NodeTypes'
    BY <1>6, NodeTypesStep DEF RemoveUnpaired, TypeOK
  <2>2. SetupTypes'
    BY <1>6 DEF RemoveUnpaired, TypeOK, SetupTypes, SetupPCs, setupVars
  <2>3. CallTypes'
    BY <1>6 DEF RemoveUnpaired, TypeOK, CallTypes, callVars
  <2>4. SubTypes'
    BY <1>6 DEF RemoveUnpaired, TypeOK, SubTypes, subVars, Open,
       AttemptsUnavailable, Closers
  <2>5. OtherTypes'
    BY <1>6 DEF RemoveUnpaired, TypeOK, OtherTypes, deviceVars
  <2>6. QED
    BY <2>1, <2>2, <2>3, <2>4, <2>5 DEF TypeOK
<1>7. ASSUME NEW o \in OfflineTasks, OfflineShutdown(o)
      PROVE  TypeOK'
  <2>1. NodeTypes'
    BY <1>7, NodeTypesStep DEF OfflineShutdown, TypeOK
  <2>2. SetupTypes'
    BY <1>7 DEF OfflineShutdown, TypeOK, SetupTypes, SetupPCs, setupVars
  <2>3. CallTypes'
    BY <1>7 DEF OfflineShutdown, TypeOK, CallTypes, callVars
  <2>4. SubTypes'
    BY <1>7 DEF OfflineShutdown, TypeOK, SubTypes, subVars, Open,
       AttemptsUnavailable, Closers, Shutdown
  <2>5. OtherTypes'
    BY <1>7 DEF OfflineShutdown, TypeOK, OtherTypes, deviceVars
  <2>6. QED
    BY <2>1, <2>2, <2>3, <2>4, <2>5 DEF TypeOK
<1>8. ASSUME NEW o \in OfflineTasks, OfflineAfterShutdown(o)
      PROVE  TypeOK'
  <2>1. NodeTypes'
    BY <1>8, NodeTypesStep DEF OfflineAfterShutdown, TypeOK
  <2>2. SetupTypes'
    BY <1>8 DEF OfflineAfterShutdown, TypeOK, SetupTypes, SetupPCs,
       setupVars
  <2>3. CallTypes'
    BY <1>8 DEF OfflineAfterShutdown, TypeOK, CallTypes, callVars
  <2>4. SubTypes'
    BY <1>8 DEF OfflineAfterShutdown, TypeOK, SubTypes, subVars, Open,
       AttemptsUnavailable, Closers, ShutdownReturns
  <2>5. OtherTypes'
    BY <1>8 DEF OfflineAfterShutdown, TypeOK, OtherTypes, deviceVars
  <2>6. QED
    BY <2>1, <2>2, <2>3, <2>4, <2>5 DEF TypeOK
<1>9. QED
  BY <1>1, <1>2, <1>3, <1>4, <1>5, <1>6, <1>7, <1>8

\* Subscription callbacks, mDNS and the device preserve the types.
LEMMA CallbackTypeOK ==
  ASSUME TypeOK,
         \/ \E s \in SubIds :
              \/ SubscriptionCloses(s) \/ Resubscribed(s)
              \/ \E late \in BOOLEAN : ResubscriptionAttempted(s, late)
         \/ \E change \in {"Added", "Updated"} : MdnsEvent(change)
         \/ MdnsRemoved \/ MdnsFires \/ MdnsForgotten
         \/ \E announced \in BOOLEAN : DeviceDown(announced)
         \/ DeviceUp
  PROVE  TypeOK'
<1>1. ASSUME NEW s \in SubIds, SubscriptionCloses(s)
      PROVE  TypeOK'
  <2>1. NodeTypes'
    BY <1>1, NodeTypesStep DEF SubscriptionCloses, TypeOK
  <2>2. SetupTypes'
    BY <1>1 DEF SubscriptionCloses, TypeOK, SetupTypes, SetupPCs,
       setupVars
  <2>3. CallTypes'
    BY <1>1 DEF SubscriptionCloses, TypeOK, CallTypes, callVars
  <2>4. SubTypes'
    BY <1>1 DEF SubscriptionCloses, TypeOK, SubTypes, subVars, Open,
       AttemptsUnavailable, Closers
  <2>5. OtherTypes'
    BY <1>1 DEF SubscriptionCloses, TypeOK, OtherTypes, deviceVars
  <2>6. QED
    BY <2>1, <2>2, <2>3, <2>4, <2>5 DEF TypeOK
<1>2. ASSUME NEW s \in SubIds, Resubscribed(s)
      PROVE  TypeOK'
  <2>1. NodeTypes'
    BY <1>2 DEF Resubscribed, TypeOK, Announce, nodeVars, NodeTypes
  <2>2. SetupTypes'
    BY <1>2 DEF Resubscribed, TypeOK, SetupTypes, SetupPCs, setupVars
  <2>3. CallTypes'
    BY <1>2 DEF Resubscribed, TypeOK, CallTypes, callVars
  <2>4. SubTypes'
    BY <1>2 DEF Resubscribed, TypeOK, SubTypes, subVars, Open,
       AttemptsUnavailable, Closers
  <2>5. OtherTypes'
    BY <1>2 DEF Resubscribed, TypeOK, OtherTypes, deviceVars
  <2>6. QED
    BY <2>1, <2>2, <2>3, <2>4, <2>5 DEF TypeOK
<1>3. ASSUME NEW s \in SubIds, NEW late \in BOOLEAN, ResubscriptionAttempted(s, late)
      PROVE  TypeOK'
  <2>1. NodeTypes'
    BY <1>3, NodeTypesStep DEF ResubscriptionAttempted, TypeOK
  <2>2. SetupTypes'
    BY <1>3 DEF ResubscriptionAttempted, TypeOK, SetupTypes, SetupPCs,
       setupVars
  <2>3. CallTypes'
    BY <1>3 DEF ResubscriptionAttempted, TypeOK, CallTypes, callVars
  <2>4. SubTypes'
    BY <1>3 DEF ResubscriptionAttempted, TypeOK, SubTypes, subVars, Open,
       AttemptsUnavailable, Closers
  <2>5. OtherTypes'
    BY <1>3 DEF ResubscriptionAttempted, TypeOK, OtherTypes, deviceVars
  <2>6. QED
    BY <2>1, <2>2, <2>3, <2>4, <2>5 DEF TypeOK
<1>4. ASSUME NEW change \in {"Added", "Updated"}, MdnsEvent(change)
      PROVE  TypeOK'
  <2>1. NodeTypes'
    BY <1>4, NodeTypesStep DEF MdnsEvent, TypeOK
  <2>2. SetupTypes'
    BY <1>4 DEF MdnsEvent, TypeOK, SetupTypes, SetupPCs, setupVars
  <2>3. CallTypes'
    BY <1>4 DEF MdnsEvent, TypeOK, CallTypes, callVars
  <2>4. SubTypes'
    BY <1>4 DEF MdnsEvent, TypeOK, SubTypes, subVars, Open,
       AttemptsUnavailable, Closers
  <2>5. OtherTypes'
    BY <1>4 DEF MdnsEvent, TypeOK, OtherTypes, deviceVars
  <2>6. QED
    BY <2>1, <2>2, <2>3, <2>4, <2>5 DEF TypeOK
<1>5. ASSUME MdnsRemoved
      PROVE  TypeOK'
  <2>1. NodeTypes'
    BY <1>5, NodeTypesStep DEF MdnsRemoved, TypeOK
  <2>2. SetupTypes'
    BY <1>5 DEF MdnsRemoved, TypeOK, SetupTypes, SetupPCs, setupVars
  <2>3. CallTypes'
    BY <1>5 DEF MdnsRemoved, TypeOK, CallTypes, callVars
  <2>4. SubTypes'
    BY <1>5 DEF MdnsRemoved, TypeOK, SubTypes, subVars, Open,
       AttemptsUnavailable, Closers
  <2>5. OtherTypes'
    BY <1>5 DEF MdnsRemoved, TypeOK, OtherTypes, deviceVars
  <2>6. QED
    BY <2>1, <2>2, <2>3, <2>4, <2>5 DEF TypeOK
<1>6. ASSUME MdnsFires
      PROVE  TypeOK'
  <2>1. NodeTypes'
    BY <1>6, NodeTypesStep DEF MdnsFires, TypeOK
  <2>2. SetupTypes'
    BY <1>6 DEF MdnsFires, TypeOK, SetupTypes, SetupPCs, setupVars,
       CreateTask
  <2>3. CallTypes'
    BY <1>6 DEF MdnsFires, TypeOK, CallTypes, callVars
  <2>4. SubTypes'
    BY <1>6 DEF MdnsFires, TypeOK, SubTypes, subVars, Open,
       AttemptsUnavailable, Closers
  <2>5. OtherTypes'
    BY <1>6 DEF MdnsFires, TypeOK, OtherTypes, deviceVars
  <2>6. QED
    BY <2>1, <2>2, <2>3, <2>4, <2>5 DEF TypeOK
<1>7. ASSUME MdnsForgotten
      PROVE  TypeOK'
  <2>1. NodeTypes'
    BY <1>7, NodeTypesStep DEF MdnsForgotten, TypeOK
  <2>2. SetupTypes'
    BY <1>7 DEF MdnsForgotten, TypeOK, SetupTypes, SetupPCs, setupVars
  <2>3. CallTypes'
    BY <1>7 DEF MdnsForgotten, TypeOK, CallTypes, callVars
  <2>4. SubTypes'
    BY <1>7 DEF MdnsForgotten, TypeOK, SubTypes, subVars, Open,
       AttemptsUnavailable, Closers
  <2>5. OtherTypes'
    BY <1>7 DEF MdnsForgotten, TypeOK, OtherTypes, deviceVars
  <2>6. QED
    BY <2>1, <2>2, <2>3, <2>4, <2>5 DEF TypeOK
<1>8. ASSUME NEW announced \in BOOLEAN, DeviceDown(announced)
      PROVE  TypeOK'
  <2>1. NodeTypes'
    BY <1>8, NodeTypesStep DEF DeviceDown, TypeOK
  <2>2. SetupTypes'
    BY <1>8 DEF DeviceDown, TypeOK, SetupTypes, SetupPCs, setupVars
  <2>3. CallTypes'
    BY <1>8 DEF DeviceDown, TypeOK, CallTypes, callVars
  <2>4. SubTypes'
    BY <1>8 DEF DeviceDown, TypeOK, SubTypes, subVars, Open,
       AttemptsUnavailable, Closers, LoseSubs
  <2>5. OtherTypes'
    BY <1>8 DEF DeviceDown, TypeOK, OtherTypes, deviceVars
  <2>6. QED
    BY <2>1, <2>2, <2>3, <2>4, <2>5 DEF TypeOK
<1>9. ASSUME DeviceUp
      PROVE  TypeOK'
  <2>1. NodeTypes'
    BY <1>9, NodeTypesStep DEF DeviceUp, TypeOK
  <2>2. SetupTypes'
    BY <1>9 DEF DeviceUp, TypeOK, SetupTypes, SetupPCs, setupVars
  <2>3. CallTypes'
    BY <1>9 DEF DeviceUp, TypeOK, CallTypes, callVars
  <2>4. SubTypes'
    BY <1>9 DEF DeviceUp, TypeOK, SubTypes, subVars, Open,
       AttemptsUnavailable, Closers
  <2>5. OtherTypes'
    BY <1>9 DEF DeviceUp, TypeOK, OtherTypes, deviceVars
  <2>6. QED
    BY <2>1, <2>2, <2>3, <2>4, <2>5 DEF TypeOK
<1>10. QED
  BY <1>1, <1>2, <1>3, <1>4, <1>5, <1>6, <1>7, <1>8, <1>9

\* Every step preserves the types.
LEMMA NextTypeOK == TypeOK /\ [Next]_vars => TypeOK'
<1> SUFFICES ASSUME TypeOK, [Next]_vars PROVE TypeOK'
  OBVIOUS
<1>1. CASE Next
  BY <1>1, SetupTypeOK, CallTypeOK, CallbackTypeOK DEF Next
<1>2. CASE UNCHANGED vars
  BY <1>2 DEF vars, nodeVars, setupVars, callVars, subVars, deviceVars, TypeOK,
              NodeTypes, SetupTypes, CallTypes, SubTypes, OtherTypes
<1>3. QED
  BY <1>1, <1>2

\* Type correctness of every reachable state.
THEOREM TypeCorrect == Spec => []TypeOK
  BY InitTypeOK, NextTypeOK, PTL DEF Spec

-----------------------------------------------------------------------------
(* TrackedIsOpen: nobody is handed a subscription whose Shutdown has begun. *)
(* Given the types it is inductive: an entry is popped in the step that    *)
(* makes it "closing", and only a "closing" one becomes "free".            *)

\* No step closes the subscription that stays in _subscriptions.
LEMMA NextTrackedIsOpen ==
  TypeOK /\ TrackedIsOpen /\ [Next]_vars => TrackedIsOpen'
<1> SUFFICES ASSUME TypeOK, TrackedIsOpen, [Next]_vars
             PROVE  TrackedIsOpen'
  OBVIOUS
<1>a. SubTypes /\ NoSub \notin SubIds
  BY ActorsAssumption DEF TypeOK
<1> USE <1>a DEF TrackedIsOpen, SubTypes, Open, subVars
<1>1. ASSUME UNCHANGED <<tracked, sub>> PROVE TrackedIsOpen'
  BY <1>1
<1>2. ASSUME NEW c \in Closers, Shutdown(c) PROVE TrackedIsOpen'
  BY <1>2 DEF Shutdown
<1>3. ASSUME NEW t \in SetupTasks,
             \/ SetupTry(t) \/ SetupCase(t) \/ SetupInterview(t)
             \/ SetupAfterShutdown(t) \/ SetupAborted(t)
             \/ SetupFails(t) \/ SetupReaped(t)
      PROVE  TrackedIsOpen'
  <2>1. UNCHANGED <<tracked, sub>> \/ Shutdown(t)
    BY <1>3 DEF SetupTry, SetupCase, SetupInterview, SetupAfterShutdown,
                SetupAborted, SetupFails, SetupReaped, BeginSubscribe,
                ShutdownReturns
  <2>2. QED
    BY <1>1, <1>2, <2>1 DEF Closers
<1>4. ASSUME NEW t \in SetupTasks, SetupSubscribed(t) PROVE TrackedIsOpen'
  BY <1>4 DEF SetupSubscribed
<1>5. ASSUME NEW i \in Interviewers,
             InterviewCall(i) \/ InterviewDone(i) \/ InterviewFails(i)
      PROVE  TrackedIsOpen'
  BY <1>1, <1>5 DEF InterviewCall, InterviewDone, InterviewFails
<1>6. ASSUME NEW r \in Removers, RemoveCall(r) PROVE TrackedIsOpen'
  BY <1>6 DEF RemoveCall
<1>7. ASSUME NEW r \in Removers, RemoveAfterShutdown(r) PROVE TrackedIsOpen'
  BY <1>1, <1>7 DEF RemoveAfterShutdown, ShutdownReturns
<1>8. ASSUME NEW r \in Removers, RemoveUnpaired(r) PROVE TrackedIsOpen'
  BY <1>8 DEF RemoveUnpaired
<1>9. ASSUME NEW o \in OfflineTasks,
             OfflineShutdown(o) \/ OfflineAfterShutdown(o)
      PROVE  TrackedIsOpen'
  <2>1. UNCHANGED <<tracked, sub>> \/ Shutdown(o)
    BY <1>9 DEF OfflineShutdown, OfflineAfterShutdown, ShutdownReturns
  <2>2. QED
    BY <1>1, <1>2, <2>1 DEF Closers
<1>10. ASSUME NEW s \in SubIds,
              \/ SubscriptionCloses(s) \/ Resubscribed(s)
              \/ \E late \in BOOLEAN : ResubscriptionAttempted(s, late)
       PROVE  TrackedIsOpen'
  BY <1>10 DEF SubscriptionCloses, Resubscribed, ResubscriptionAttempted
<1>11. ASSUME \/ \E change \in {"Added", "Updated"} : MdnsEvent(change)
              \/ MdnsRemoved \/ MdnsFires \/ MdnsForgotten \/ DeviceUp
       PROVE  TrackedIsOpen'
  BY <1>1, <1>11 DEF MdnsEvent, MdnsRemoved, MdnsFires, MdnsForgotten, DeviceUp
<1>12. ASSUME NEW announced \in BOOLEAN, DeviceDown(announced)
       PROVE  TrackedIsOpen'
  BY <1>12 DEF DeviceDown, LoseSubs
<1>13. CASE UNCHANGED vars
  BY <1>1, <1>13 DEF vars
<1>14. QED
  BY <1>3, <1>4, <1>5, <1>6, <1>7, <1>8, <1>9, <1>10, <1>11, <1>12, <1>13
     DEF Next

\* For any number of concurrent setups, removals and offline tasks.
THEOREM TrackedSubscriptionIsOpen == Spec => []TrackedIsOpen
<1>1. Init => TrackedIsOpen
  BY DEF Init, TrackedIsOpen
<1>2. QED
  BY <1>1, InitTypeOK, NextTypeOK, NextTrackedIsOpen, PTL DEF Spec

-----------------------------------------------------------------------------
(* While nobody removes the node.  The three properties need each other    *)
(* and two facts more: the registered task is the only one that is not     *)
(* idle (its done callback included), and a task that has not ended works  *)
(* for a node without a subscription.                                      *)

OnlyRegistered == \A t \in SetupTasks : pc[t] # "idle" => entry = t
WorksUnsubscribed == \A t \in SetupTasks : Active(t) => tracked = NoSub

KeptInv == /\ TypeOK /\ known
           /\ OnlyRegistered /\ WorksUnsubscribed
           /\ NoLeakedSubscription /\ AvailableIsSubscribed

\* Setup tasks preserve the invariant.
LEMMA SetupKeptInv ==
  ASSUME KeptInv, NEW t \in SetupTasks,
         \/ SetupTry(t) \/ SetupCase(t) \/ SetupInterview(t)
         \/ SetupAfterShutdown(t) \/ SetupSubscribed(t) \/ SetupAborted(t)
         \/ SetupFails(t) \/ SetupReaped(t)
  PROVE  KeptInv'
<1> USE DEF OnlyRegistered, WorksUnsubscribed, NoLeakedSubscription,
            AvailableIsSubscribed, Active
<1>a. TypeOK'
  BY SetupTypeOK DEF KeptInv
<1>b. /\ known /\ OnlyRegistered /\ WorksUnsubscribed
      /\ NoLeakedSubscription /\ AvailableIsSubscribed
      /\ NodeTypes /\ SetupTypes /\ SubTypes /\ NoSub \notin SubIds
  BY ActorsAssumption DEF KeptInv, TypeOK
<1>1. CASE SetupTry(t)
  <2>1. known'
    BY <1>1, <1>b DEF SetupTry, nodeVars
  <2>2. OnlyRegistered' /\ WorksUnsubscribed'
    BY <1>1, <1>b DEF SetupTry, Finish, SetupTypes, SetupPCs, subVars,
       setupVars
  <2>3. NoLeakedSubscription'
    BY <1>1, <1>b DEF SetupTry, Finish, SubTypes, subVars
  <2>4. AvailableIsSubscribed'
    BY <1>1, <1>b DEF SetupTry, Finish, NodeTypes, nodeVars, subVars,
       callVars
  <2>5. QED
    BY <1>a, <2>1, <2>2, <2>3, <2>4 DEF KeptInv
<1>2. CASE SetupCase(t)
  <2>1. known'
    BY <1>2, <1>b DEF SetupCase, nodeVars
  <2>2. OnlyRegistered' /\ WorksUnsubscribed'
    BY <1>2, <1>b DEF SetupCase, BeginSubscribe, Finish, Shutdown,
       SetupTypes, SetupPCs, subVars, setupVars
  <2>3. NoLeakedSubscription'
    BY <1>2, <1>b DEF SetupCase, BeginSubscribe, Finish, Shutdown,
       SubTypes, subVars
  <2>4. AvailableIsSubscribed'
    BY <1>2, <1>b DEF SetupCase, BeginSubscribe, Finish, Shutdown,
       NodeTypes, nodeVars, subVars, callVars
  <2>5. QED
    BY <1>a, <2>1, <2>2, <2>3, <2>4 DEF KeptInv
<1>3. CASE SetupInterview(t)
  <2>1. known'
    BY <1>3, <1>b DEF SetupInterview, nodeVars, InterviewWrites
  <2>2. OnlyRegistered' /\ WorksUnsubscribed'
    BY <1>3, <1>b DEF SetupInterview, InterviewWrites, BeginSubscribe,
       Shutdown, SetupTypes, SetupPCs, subVars, setupVars
  <2>3. NoLeakedSubscription'
    BY <1>3, <1>b DEF SetupInterview, InterviewWrites, BeginSubscribe,
       Shutdown, SubTypes, subVars
  <2>4. AvailableIsSubscribed'
    BY <1>3, <1>b DEF SetupInterview, InterviewWrites, BeginSubscribe,
       Shutdown, NodeTypes, nodeVars, subVars, callVars
  <2>5. QED
    BY <1>a, <2>1, <2>2, <2>3, <2>4 DEF KeptInv
<1>4. CASE SetupAfterShutdown(t)
  <2>1. known'
    BY <1>4, <1>b DEF SetupAfterShutdown, nodeVars
  <2>2. OnlyRegistered' /\ WorksUnsubscribed'
    BY <1>4, <1>b DEF SetupAfterShutdown, Finish, ShutdownReturns,
       SetupTypes, SetupPCs, subVars, setupVars
  <2>3. NoLeakedSubscription'
    BY <1>4, <1>b DEF SetupAfterShutdown, Finish, ShutdownReturns,
       SubTypes, subVars
  <2>4. AvailableIsSubscribed'
    BY <1>4, <1>b DEF SetupAfterShutdown, Finish, ShutdownReturns,
       NodeTypes, nodeVars, subVars, callVars
  <2>5. QED
    BY <1>a, <2>1, <2>2, <2>3, <2>4 DEF KeptInv
<1>5. CASE SetupSubscribed(t)
  <2>1. known'
    BY <1>5, <1>b DEF SetupSubscribed, nodeVars
  <2>2. OnlyRegistered' /\ WorksUnsubscribed'
    BY <1>5, <1>b DEF SetupSubscribed, Finish, Open, SetupTypes,
       SetupPCs, subVars, setupVars
  <2>3. NoLeakedSubscription'
    BY <1>5, <1>b DEF SetupSubscribed, Finish, Open, SubTypes, subVars
  <2>4. AvailableIsSubscribed'
    BY <1>5, <1>b DEF SetupSubscribed, Finish, Open, NodeTypes, nodeVars,
       subVars, callVars
  <2>5. QED
    BY <1>a, <2>1, <2>2, <2>3, <2>4 DEF KeptInv
<1>6. CASE SetupAborted(t)
  <2>1. known'
    BY <1>6, <1>b DEF SetupAborted, nodeVars
  <2>2. OnlyRegistered' /\ WorksUnsubscribed'
    BY <1>6, <1>b DEF SetupAborted, Finish, SetupTypes, SetupPCs,
       subVars, setupVars
  <2>3. NoLeakedSubscription'
    BY <1>6, <1>b DEF SetupAborted, Finish, SubTypes, subVars
  <2>4. AvailableIsSubscribed'
    BY <1>6, <1>b DEF SetupAborted, Finish, NodeTypes, nodeVars, subVars,
       callVars
  <2>5. QED
    BY <1>a, <2>1, <2>2, <2>3, <2>4 DEF KeptInv
<1>7. CASE SetupFails(t)
  <2>1. known'
    BY <1>7, <1>b DEF SetupFails, nodeVars
  <2>2. OnlyRegistered' /\ WorksUnsubscribed'
    BY <1>7, <1>b DEF SetupFails, Finish, SetupTypes, SetupPCs, subVars,
       setupVars
  <2>3. NoLeakedSubscription'
    BY <1>7, <1>b DEF SetupFails, Finish, SubTypes, subVars
  <2>4. AvailableIsSubscribed'
    BY <1>7, <1>b DEF SetupFails, Finish, NodeTypes, nodeVars, subVars,
       callVars
  <2>5. QED
    BY <1>a, <2>1, <2>2, <2>3, <2>4 DEF KeptInv
<1>8. CASE SetupReaped(t)
  <2>1. known'
    BY <1>8, <1>b DEF SetupReaped, nodeVars
  <2>2. OnlyRegistered' /\ WorksUnsubscribed'
    BY <1>8, <1>b DEF SetupReaped, SetupTypes, SetupPCs, subVars,
       setupVars
  <2>3. NoLeakedSubscription'
    BY <1>8, <1>b DEF SetupReaped, SubTypes, subVars
  <2>4. AvailableIsSubscribed'
    BY <1>8, <1>b DEF SetupReaped, NodeTypes, nodeVars, subVars, callVars
  <2>5. QED
    BY <1>a, <2>1, <2>2, <2>3, <2>4 DEF KeptInv
<1>9. QED
  BY <1>1, <1>2, <1>3, <1>4, <1>5, <1>6, <1>7, <1>8

\* So does everything else but a removal.
LEMMA OtherKeptInv ==
  ASSUME KeptInv,
         \/ \E i \in Interviewers :
              InterviewCall(i) \/ InterviewDone(i) \/ InterviewFails(i)
         \/ \E o \in OfflineTasks : OfflineShutdown(o) \/ OfflineAfterShutdown(o)
         \/ \E s \in SubIds :
              \/ SubscriptionCloses(s) \/ Resubscribed(s)
              \/ \E late \in BOOLEAN : ResubscriptionAttempted(s, late)
         \/ \E change \in {"Added", "Updated"} : MdnsEvent(change)
         \/ MdnsRemoved \/ MdnsFires \/ MdnsForgotten
         \/ \E announced \in BOOLEAN : DeviceDown(announced)
         \/ DeviceUp
  PROVE  KeptInv'
<1> USE DEF OnlyRegistered, WorksUnsubscribed, NoLeakedSubscription,
            AvailableIsSubscribed, Active
<1>a. TypeOK'
  BY CallTypeOK, CallbackTypeOK DEF KeptInv
<1>b. /\ known /\ OnlyRegistered /\ WorksUnsubscribed
      /\ NoLeakedSubscription /\ AvailableIsSubscribed
      /\ NodeTypes /\ SetupTypes /\ SubTypes /\ CallTypes
      /\ NoSub \notin SubIds /\ NoTask \notin SetupTasks
  BY ActorsAssumption DEF KeptInv, TypeOK
<1>1. ASSUME NEW i \in Interviewers, InterviewCall(i)
      PROVE  KeptInv'
  <2>1. known'
    BY <1>1, <1>b DEF InterviewCall, nodeVars
  <2>2. OnlyRegistered' /\ WorksUnsubscribed'
    BY <1>1, <1>b DEF InterviewCall, SetupTypes, SetupPCs, subVars,
       setupVars
  <2>3. NoLeakedSubscription'
    BY <1>1, <1>b DEF InterviewCall, SubTypes, subVars, Open
  <2>4. AvailableIsSubscribed'
    BY <1>1, <1>b DEF InterviewCall, NodeTypes, CallTypes, nodeVars,
       subVars, callVars, Open
  <2>5. QED
    BY <1>a, <2>1, <2>2, <2>3, <2>4 DEF KeptInv
<1>2. ASSUME NEW i \in Interviewers, InterviewDone(i)
      PROVE  KeptInv'
  <2>1. known'
    BY <1>2, <1>b DEF InterviewDone, nodeVars, InterviewWrites
  <2>2. OnlyRegistered' /\ WorksUnsubscribed'
    BY <1>2, <1>b DEF InterviewDone, InterviewWrites, SetupTypes,
       SetupPCs, subVars, setupVars
  <2>3. NoLeakedSubscription'
    BY <1>2, <1>b DEF InterviewDone, SubTypes, subVars, Open
  <2>4. AvailableIsSubscribed'
    BY <1>2, <1>b DEF InterviewDone, InterviewWrites, NodeTypes,
       CallTypes, nodeVars, subVars, callVars, Open
  <2>5. QED
    BY <1>a, <2>1, <2>2, <2>3, <2>4 DEF KeptInv
<1>3. ASSUME NEW i \in Interviewers, InterviewFails(i)
      PROVE  KeptInv'
  <2>1. known'
    BY <1>3, <1>b DEF InterviewFails, nodeVars
  <2>2. OnlyRegistered' /\ WorksUnsubscribed'
    BY <1>3, <1>b DEF InterviewFails, SetupTypes, SetupPCs, subVars,
       setupVars
  <2>3. NoLeakedSubscription'
    BY <1>3, <1>b DEF InterviewFails, SubTypes, subVars, Open
  <2>4. AvailableIsSubscribed'
    BY <1>3, <1>b DEF InterviewFails, NodeTypes, CallTypes, nodeVars,
       subVars, callVars, Open
  <2>5. QED
    BY <1>a, <2>1, <2>2, <2>3, <2>4 DEF KeptInv
<1>4. ASSUME NEW o \in OfflineTasks, OfflineShutdown(o)
      PROVE  KeptInv'
  <2>1. known'
    BY <1>4, <1>b DEF OfflineShutdown, nodeVars, MarkUnavailable
  <2>2. OnlyRegistered' /\ WorksUnsubscribed'
    BY <1>4, <1>b DEF OfflineShutdown, Shutdown, SetupTypes, SetupPCs,
       subVars, setupVars
  <2>3. NoLeakedSubscription'
    BY <1>4, <1>b DEF OfflineShutdown, Shutdown, SubTypes, subVars, Open
  <2>4. AvailableIsSubscribed'
    BY <1>4, <1>b DEF OfflineShutdown, Shutdown, MarkUnavailable,
       NodeTypes, CallTypes, nodeVars, subVars, callVars, Open
  <2>5. QED
    BY <1>a, <2>1, <2>2, <2>3, <2>4 DEF KeptInv
<1>5. ASSUME NEW o \in OfflineTasks, OfflineAfterShutdown(o)
      PROVE  KeptInv'
  <2>1. known'
    BY <1>5, <1>b DEF OfflineAfterShutdown, nodeVars, MarkUnavailable
  <2>2. OnlyRegistered' /\ WorksUnsubscribed'
    BY <1>5, <1>b DEF OfflineAfterShutdown, ShutdownReturns, SetupTypes,
       SetupPCs, subVars, setupVars
  <2>3. NoLeakedSubscription'
    BY <1>5, <1>b DEF OfflineAfterShutdown, ShutdownReturns, SubTypes,
       subVars, Open
  <2>4. AvailableIsSubscribed'
    BY <1>5, <1>b DEF OfflineAfterShutdown, ShutdownReturns,
       MarkUnavailable, NodeTypes, CallTypes, nodeVars, subVars,
       callVars, Open
  <2>5. QED
    BY <1>a, <2>1, <2>2, <2>3, <2>4 DEF KeptInv
<1>6. ASSUME NEW s \in SubIds, SubscriptionCloses(s)
      PROVE  KeptInv'
  <2>1. known'
    BY <1>6, <1>b DEF SubscriptionCloses, nodeVars
  <2>2. OnlyRegistered' /\ WorksUnsubscribed'
    BY <1>6, <1>b DEF SubscriptionCloses, SetupTypes, SetupPCs, subVars,
       setupVars
  <2>3. NoLeakedSubscription'
    BY <1>6, <1>b DEF SubscriptionCloses, SubTypes, subVars, Open
  <2>4. AvailableIsSubscribed'
    BY <1>6, <1>b DEF SubscriptionCloses, NodeTypes, CallTypes, nodeVars,
       subVars, callVars, Open
  <2>5. QED
    BY <1>a, <2>1, <2>2, <2>3, <2>4 DEF KeptInv
<1>7. ASSUME NEW s \in SubIds, Resubscribed(s)
      PROVE  KeptInv'
  <2>1. known'
    BY <1>7, <1>b DEF Resubscribed, nodeVars
  <2>2. OnlyRegistered' /\ WorksUnsubscribed'
    BY <1>7, <1>b DEF Resubscribed, SetupTypes, SetupPCs, subVars,
       setupVars
  <2>3. NoLeakedSubscription'
    BY <1>7, <1>b DEF Resubscribed, SubTypes, subVars, Open
  <2>4. AvailableIsSubscribed'
    BY <1>7, <1>b DEF Resubscribed, NodeTypes, CallTypes, nodeVars,
       subVars, callVars, Open
  <2>5. QED
    BY <1>a, <2>1, <2>2, <2>3, <2>4 DEF KeptInv
<1>8. ASSUME NEW s \in SubIds, NEW late \in BOOLEAN, ResubscriptionAttempted(s, late)
      PROVE  KeptInv'
  <2>1. known'
    BY <1>8, <1>b DEF ResubscriptionAttempted, nodeVars, MarkUnavailable
  <2>2. OnlyRegistered' /\ WorksUnsubscribed'
    BY <1>8, <1>b DEF ResubscriptionAttempted, SetupTypes, SetupPCs,
       subVars, setupVars
  <2>3. NoLeakedSubscription'
    BY <1>8, <1>b DEF ResubscriptionAttempted, SubTypes, subVars, Open
  <2>4. AvailableIsSubscribed'
    BY <1>8, <1>b DEF ResubscriptionAttempted, MarkUnavailable,
       NodeTypes, CallTypes, nodeVars, subVars, callVars, Open
  <2>5. QED
    BY <1>a, <2>1, <2>2, <2>3, <2>4 DEF KeptInv
<1>9. ASSUME NEW change \in {"Added", "Updated"}, MdnsEvent(change)
      PROVE  KeptInv'
  <2>1. known'
    BY <1>9, <1>b DEF MdnsEvent, nodeVars
  <2>2. OnlyRegistered' /\ WorksUnsubscribed'
    BY <1>9, <1>b DEF MdnsEvent, SetupTypes, SetupPCs, subVars, setupVars
  <2>3. NoLeakedSubscription'
    BY <1>9, <1>b DEF MdnsEvent, SubTypes, subVars, Open
  <2>4. AvailableIsSubscribed'
    BY <1>9, <1>b DEF MdnsEvent, NodeTypes, CallTypes, nodeVars, subVars,
       callVars, Open
  <2>5. QED
    BY <1>a, <2>1, <2>2, <2>3, <2>4 DEF KeptInv
<1>10. ASSUME MdnsRemoved
      PROVE  KeptInv'
  <2>1. known'
    BY <1>10, <1>b DEF MdnsRemoved, nodeVars
  <2>2. OnlyRegistered' /\ WorksUnsubscribed'
    BY <1>10, <1>b DEF MdnsRemoved, SetupTypes, SetupPCs, subVars,
       setupVars
  <2>3. NoLeakedSubscription'
    BY <1>10, <1>b DEF MdnsRemoved, SubTypes, subVars, Open
  <2>4. AvailableIsSubscribed'
    BY <1>10, <1>b DEF MdnsRemoved, NodeTypes, CallTypes, nodeVars,
       subVars, callVars, Open
  <2>5. QED
    BY <1>a, <2>1, <2>2, <2>3, <2>4 DEF KeptInv
<1>11. ASSUME MdnsFires
      PROVE  KeptInv'
  <2>1. known'
    BY <1>11, <1>b DEF MdnsFires, nodeVars
  <2>2. OnlyRegistered' /\ WorksUnsubscribed'
    BY <1>11, <1>b DEF MdnsFires, CreateTask, SetupTypes, SetupPCs,
       subVars, setupVars
  <2>3. NoLeakedSubscription'
    BY <1>11, <1>b DEF MdnsFires, SubTypes, subVars, Open
  <2>4. AvailableIsSubscribed'
    BY <1>11, <1>b DEF MdnsFires, NodeTypes, CallTypes, nodeVars,
       subVars, callVars, Open
  <2>5. QED
    BY <1>a, <2>1, <2>2, <2>3, <2>4 DEF KeptInv
<1>12. ASSUME MdnsForgotten
      PROVE  KeptInv'
  <2>1. known'
    BY <1>12, <1>b DEF MdnsForgotten, nodeVars
  <2>2. OnlyRegistered' /\ WorksUnsubscribed'
    BY <1>12, <1>b DEF MdnsForgotten, SetupTypes, SetupPCs, subVars,
       setupVars
  <2>3. NoLeakedSubscription'
    BY <1>12, <1>b DEF MdnsForgotten, SubTypes, subVars, Open
  <2>4. AvailableIsSubscribed'
    BY <1>12, <1>b DEF MdnsForgotten, NodeTypes, CallTypes, nodeVars,
       subVars, callVars, Open
  <2>5. QED
    BY <1>a, <2>1, <2>2, <2>3, <2>4 DEF KeptInv
<1>13. ASSUME NEW announced \in BOOLEAN, DeviceDown(announced)
      PROVE  KeptInv'
  <2>1. known'
    BY <1>13, <1>b DEF DeviceDown, nodeVars, MarkUnavailable
  <2>2. OnlyRegistered' /\ WorksUnsubscribed'
    BY <1>13, <1>b DEF DeviceDown, LoseSubs, SetupTypes, SetupPCs,
       subVars, setupVars
  <2>3. NoLeakedSubscription'
    BY <1>13, <1>b DEF DeviceDown, LoseSubs, SubTypes, subVars, Open
  <2>4. AvailableIsSubscribed'
    BY <1>13, <1>b DEF DeviceDown, MarkUnavailable, NodeTypes, CallTypes,
       nodeVars, subVars, callVars, Open
  <2>5. QED
    BY <1>a, <2>1, <2>2, <2>3, <2>4 DEF KeptInv
<1>14. ASSUME DeviceUp
      PROVE  KeptInv'
  <2>1. known'
    BY <1>14, <1>b DEF DeviceUp, nodeVars
  <2>2. OnlyRegistered' /\ WorksUnsubscribed'
    BY <1>14, <1>b DEF DeviceUp, SetupTypes, SetupPCs, subVars, setupVars
  <2>3. NoLeakedSubscription'
    BY <1>14, <1>b DEF DeviceUp, SubTypes, subVars, Open
  <2>4. AvailableIsSubscribed'
    BY <1>14, <1>b DEF DeviceUp, NodeTypes, CallTypes, nodeVars, subVars,
       callVars, Open
  <2>5. QED
    BY <1>a, <2>1, <2>2, <2>3, <2>4 DEF KeptInv
<1>15. QED
  BY <1>1, <1>2, <1>3, <1>4, <1>5, <1>6, <1>7, <1>8, <1>9, <1>10, <1>11,
     <1>12, <1>13, <1>14

\* With no caller of remove_node, the invariant holds in every state.
LEMMA KeptInvariance == ASSUME Removers = {} PROVE Spec => []KeptInv
<1>1. Init => KeptInv
  <2> SUFFICES ASSUME Init PROVE KeptInv
    OBVIOUS
  <2>1. OnlyRegistered /\ WorksUnsubscribed
    BY DEF Init, OnlyRegistered, WorksUnsubscribed, Active
  <2>2. NoLeakedSubscription /\ AvailableIsSubscribed
    BY DEF Init, NoLeakedSubscription, AvailableIsSubscribed, Open
  <2>3. known
    BY DEF Init
  <2>4. QED
    BY <2>1, <2>2, <2>3, InitTypeOK DEF KeptInv
<1>2. KeptInv /\ [Next]_vars => KeptInv'
  <2> SUFFICES ASSUME KeptInv, [Next]_vars PROVE KeptInv'
    OBVIOUS
  <2>1. CASE Next
    BY <2>1, SetupKeptInv, OtherKeptInv DEF Next
  <2>2. CASE UNCHANGED vars
    <3>1. TypeOK'
      BY <2>2, NextTypeOK DEF KeptInv
    <3>2. UNCHANGED <<nodeVars, setupVars, callVars, subVars>>
      BY <2>2 DEF vars
    <3>3. /\ OnlyRegistered' /\ WorksUnsubscribed'
          /\ NoLeakedSubscription' /\ AvailableIsSubscribed' /\ known'
      BY <3>2 DEF KeptInv, nodeVars, setupVars, callVars, subVars,
                  OnlyRegistered, WorksUnsubscribed, NoLeakedSubscription,
                  AvailableIsSubscribed, Active
    <3>4. QED
      BY <3>1, <3>3 DEF KeptInv
  <2>3. QED
    BY <2>1, <2>2
<1>3. QED
  BY <1>1, <1>2, PTL DEF Spec

\* At most one setup task works on a node that nobody removes, however many
\* mDNS events, offline shutdowns and interviews interleave with it.
THEOREM SetupIsExclusive == ASSUME Removers = {} PROVE Spec => []OneSetupTask
<1>1. KeptInv => OneSetupTask
  BY DEF KeptInv, OnlyRegistered, OneSetupTask, Active
<1>2. QED
  BY <1>1, KeptInvariance, PTL

\* No subscription of such a node is ever overwritten and leaked.
THEOREM SubscriptionsAreTracked ==
  ASSUME Removers = {} PROVE Spec => []NoLeakedSubscription
<1>1. KeptInv => NoLeakedSubscription
  BY DEF KeptInv
<1>2. QED
  BY <1>1, KeptInvariance, PTL

\* Such a node is shown as available only while something backs it.
THEOREM AvailableNodesAreSubscribed ==
  ASSUME Removers = {} PROVE Spec => []AvailableIsSubscribed
<1>1. KeptInv => AvailableIsSubscribed
  BY DEF KeptInv
<1>2. QED
  BY <1>1, KeptInvariance, PTL

-----------------------------------------------------------------------------
(* While removals go on but nobody interviews the node from outside.  A    *)
(* client is told of a node the setup task captured before an await, so    *)
(* the proof has to show that this is the node in _nodes: only a node that *)
(* was never subscribed still needs its interview, such a node has just    *)
(* the registered setup task, and so no second interview replaces the      *)
(* object a subscribing task holds.                                        *)

NeedsInterview == known /\ ~fresh

NeverSubscribed ==
  NeedsInterview =>
    /\ tracked = NoSub
    /\ \A r \in Removers : removing[r] # "shutdown"
    /\ OnlyRegistered
    /\ \A t \in SetupTasks : /\ pc[t] \notin {"shutdown", "subscribe"}
                             /\ pc[t] = "case" => need[t]

InterviewsOnce ==
  \A t \in SetupTasks :
    pc[t] = "interview" \/ (pc[t] = "case" /\ need[t]) => NeedsInterview

HoldsCurrent ==
  \A t \in SetupTasks :
    /\ pc[t] # "subscribe" => hold[t] = "none"
    /\ known /\ pc[t] = "subscribe" => hold[t] = "current"

MirrorInv == /\ TypeOK /\ ViewIsCurrent
             /\ NeverSubscribed /\ InterviewsOnce /\ HoldsCurrent

\* The part about setup tasks survives a step that changes none of them and
\* neither brings the node back nor subscribes to it.
LEMMA QuietStep ==
  ASSUME NeverSubscribed, InterviewsOnce, HoldsCurrent,
         UNCHANGED <<known, fresh, setupVars>>,
         tracked' = tracked \/ tracked' = NoSub,
         \A r \in Removers : removing'[r] = "shutdown" => removing[r] = "shutdown"
  PROVE  NeverSubscribed' /\ InterviewsOnce' /\ HoldsCurrent'
<1>1. NeverSubscribed'
  BY DEF NeverSubscribed, NeedsInterview, OnlyRegistered, setupVars
<1>2. InterviewsOnce' /\ HoldsCurrent'
  BY DEF InterviewsOnce, HoldsCurrent, NeedsInterview, setupVars
<1>3. QED
  BY <1>1, <1>2

\* _node_unavailable keeps clients up to date.
LEMMA MarkIsSeen ==
  ASSUME ViewIsCurrent, MarkUnavailable \/ UNCHANGED nodeVars
  PROVE  ViewIsCurrent' /\ UNCHANGED <<known, fresh>>
BY DEF ViewIsCurrent, MarkUnavailable, Announce, nodeVars

\* Setup tasks preserve the invariant.
LEMMA SetupMirrorInv ==
  ASSUME MirrorInv, NEW t \in SetupTasks,
         \/ SetupTry(t) \/ SetupCase(t) \/ SetupInterview(t)
         \/ SetupAfterShutdown(t) \/ SetupSubscribed(t) \/ SetupAborted(t)
         \/ SetupFails(t) \/ SetupReaped(t)
  PROVE  MirrorInv'
<1> USE DEF NeverSubscribed, InterviewsOnce, HoldsCurrent, NeedsInterview,
            OnlyRegistered
<1>a. TypeOK'
  BY SetupTypeOK DEF MirrorInv
<1>b. /\ ViewIsCurrent /\ NeverSubscribed /\ InterviewsOnce /\ HoldsCurrent
      /\ NodeTypes /\ SetupTypes
  BY DEF MirrorInv, TypeOK
<1>1. CASE SetupTry(t)
  <2>1. NeverSubscribed'
    BY <1>1, <1>b DEF SetupTry, Finish, SetupTypes, SetupPCs, setupVars,
       nodeVars, subVars, callVars
  <2>2. InterviewsOnce'
    BY <1>1, <1>b DEF SetupTry, Finish, SetupTypes, SetupPCs, setupVars,
       nodeVars
  <2>3. HoldsCurrent'
    BY <1>1, <1>b DEF SetupTry, Finish, SetupTypes, SetupPCs, setupVars,
       nodeVars
  <2>4. ViewIsCurrent'
    BY <1>1, <1>b DEF SetupTry, ViewIsCurrent, NodeTypes, nodeVars
  <2>5. QED
    BY <1>a, <2>1, <2>2, <2>3, <2>4 DEF MirrorInv
<1>2. CASE SetupCase(t)
  <2>1. NeverSubscribed'
    BY <1>2, <1>b DEF SetupCase, BeginSubscribe, Finish, Shutdown,
       SetupTypes, SetupPCs, setupVars, nodeVars, subVars, callVars
  <2>2. InterviewsOnce'
    BY <1>2, <1>b DEF SetupCase, BeginSubscribe, Finish, Shutdown,
       SetupTypes, SetupPCs, setupVars, nodeVars
  <2>3. HoldsCurrent'
    BY <1>2, <1>b DEF SetupCase, BeginSubscribe, Finish, Shutdown,
       SetupTypes, SetupPCs, setupVars, nodeVars
  <2>4. ViewIsCurrent'
    BY <1>2, <1>b DEF SetupCase, ViewIsCurrent, NodeTypes, nodeVars
  <2>5. QED
    BY <1>a, <2>1, <2>2, <2>3, <2>4 DEF MirrorInv
<1>3. CASE SetupInterview(t)
  <2>1. NeverSubscribed'
    BY <1>3, <1>b DEF SetupInterview, InterviewWrites, BeginSubscribe,
       Shutdown, Stale, SetupTypes, SetupPCs, setupVars, nodeVars, subVars,
       callVars
  <2>2. InterviewsOnce'
    BY <1>3, <1>b DEF SetupInterview, InterviewWrites, BeginSubscribe,
       Shutdown, Stale, SetupTypes, SetupPCs, setupVars, nodeVars
  <2>3. HoldsCurrent'
    BY <1>3, <1>b DEF SetupInterview, InterviewWrites, BeginSubscribe,
       Shutdown, Stale, SetupTypes, SetupPCs, setupVars, nodeVars
  <2>4. ViewIsCurrent'
    BY <1>3, <1>b DEF SetupInterview, InterviewWrites, Announce,
       ViewIsCurrent, NodeTypes, nodeVars
  <2>5. QED
    BY <1>a, <2>1, <2>2, <2>3, <2>4 DEF MirrorInv
<1>4. CASE SetupAfterShutdown(t)
  <2>1. NeverSubscribed'
    BY <1>4, <1>b DEF SetupAfterShutdown, Finish, ShutdownReturns,
       SetupTypes, SetupPCs, setupVars, nodeVars, subVars, callVars
  <2>2. InterviewsOnce'
    BY <1>4, <1>b DEF SetupAfterShutdown, Finish, ShutdownReturns,
       SetupTypes, SetupPCs, setupVars, nodeVars
  <2>3. HoldsCurrent'
    BY <1>4, <1>b DEF SetupAfterShutdown, Finish, ShutdownReturns,
       SetupTypes, SetupPCs, setupVars, nodeVars
  <2>4. ViewIsCurrent'
    BY <1>4, <1>b DEF SetupAfterShutdown, ViewIsCurrent, NodeTypes, nodeVars
  <2>5. QED
    BY <1>a, <2>1, <2>2, <2>3, <2>4 DEF MirrorInv
<1>5. CASE SetupSubscribed(t)
  <2>1. NeverSubscribed'
    BY <1>5, <1>b DEF SetupSubscribed, Finish, Announce, SetupTypes,
       SetupPCs, setupVars, nodeVars, subVars, callVars
  <2>2. InterviewsOnce'
    BY <1>5, <1>b DEF SetupSubscribed, Finish, Announce, SetupTypes,
       SetupPCs, setupVars, nodeVars
  <2>3. HoldsCurrent'
    BY <1>5, <1>b DEF SetupSubscribed, Finish, Announce, SetupTypes,
       SetupPCs, setupVars, nodeVars
  <2>4. ViewIsCurrent'
    BY <1>5, <1>b DEF SetupSubscribed, Announce, ViewIsCurrent, NodeTypes,
       nodeVars
  <2>5. QED
    BY <1>a, <2>1, <2>2, <2>3, <2>4 DEF MirrorInv
<1>6. CASE SetupAborted(t)
  <2>1. NeverSubscribed'
    BY <1>6, <1>b DEF SetupAborted, Finish, SetupTypes, SetupPCs, setupVars,
       nodeVars, subVars, callVars
  <2>2. InterviewsOnce'
    BY <1>6, <1>b DEF SetupAborted, Finish, SetupTypes, SetupPCs, setupVars,
       nodeVars
  <2>3. HoldsCurrent'
    BY <1>6, <1>b DEF SetupAborted, Finish, SetupTypes, SetupPCs, setupVars,
       nodeVars
  <2>4. ViewIsCurrent'
    BY <1>6, <1>b DEF SetupAborted, ViewIsCurrent, NodeTypes, nodeVars
  <2>5. QED
    BY <1>a, <2>1, <2>2, <2>3, <2>4 DEF MirrorInv
<1>7. CASE SetupFails(t)
  <2>1. NeverSubscribed'
    BY <1>7, <1>b DEF SetupFails, Finish, SetupTypes, SetupPCs, setupVars,
       nodeVars, subVars, callVars
  <2>2. InterviewsOnce'
    BY <1>7, <1>b DEF SetupFails, Finish, SetupTypes, SetupPCs, setupVars,
       nodeVars
  <2>3. HoldsCurrent'
    BY <1>7, <1>b DEF SetupFails, Finish, SetupTypes, SetupPCs, setupVars,
       nodeVars
  <2>4. ViewIsCurrent'
    BY <1>7, <1>b DEF SetupFails, ViewIsCurrent, NodeTypes, nodeVars
  <2>5. QED
    BY <1>a, <2>1, <2>2, <2>3, <2>4 DEF MirrorInv
<1>8. CASE SetupReaped(t)
  <2>1. NeverSubscribed'
    BY <1>8, <1>b DEF SetupReaped, SetupTypes, SetupPCs, setupVars,
       nodeVars, subVars, callVars
  <2>2. InterviewsOnce'
    BY <1>8, <1>b DEF SetupReaped, SetupTypes, SetupPCs, setupVars, nodeVars
  <2>3. HoldsCurrent'
    BY <1>8, <1>b DEF SetupReaped, SetupTypes, SetupPCs, setupVars, nodeVars
  <2>4. ViewIsCurrent'
    BY <1>8, <1>b DEF SetupReaped, ViewIsCurrent, NodeTypes, nodeVars
  <2>5. QED
    BY <1>a, <2>1, <2>2, <2>3, <2>4 DEF MirrorInv
<1>9. QED
  BY <1>1, <1>2, <1>3, <1>4, <1>5, <1>6, <1>7, <1>8

\* So do removals: the cancelled task was the only one that could interview.
LEMMA RemoveMirrorInv ==
  ASSUME MirrorInv, NEW r \in Removers,
         RemoveCall(r) \/ RemoveAfterShutdown(r) \/ RemoveUnpaired(r)
  PROVE  MirrorInv'
<1>a. TypeOK'
  BY CallTypeOK DEF MirrorInv
<1>b. /\ ViewIsCurrent /\ NeverSubscribed /\ InterviewsOnce /\ HoldsCurrent
      /\ NodeTypes /\ SetupTypes /\ CallTypes /\ NoTask \notin SetupTasks
  BY ActorsAssumption DEF MirrorInv, TypeOK
<1>1. CASE RemoveCall(r)
  <2>1. NeverSubscribed'
    BY <1>1, <1>b DEF RemoveCall, PopNode, NeverSubscribed, NeedsInterview,
       nodeVars
  <2>2. InterviewsOnce'
    <3> SUFFICES ASSUME NEW t \in SetupTasks,
                        pc'[t] = "interview" \/ (pc'[t] = "case" /\ need'[t])
                 PROVE  NeedsInterview'
      BY DEF InterviewsOnce
    <3>1. t # entry /\ pc[t] = pc'[t] /\ need[t] = need'[t]
      BY <1>1, <1>b DEF RemoveCall, SetupTypes
    <3>2. NeedsInterview
      BY <3>1, <1>b DEF InterviewsOnce
    <3>3. QED
      BY <3>1, <3>2, <1>b DEF NeverSubscribed, OnlyRegistered
  <2>3. HoldsCurrent'
    <3> SUFFICES ASSUME NEW t \in SetupTasks
                 PROVE  /\ pc'[t] # "subscribe" => hold'[t] = "none"
                        /\ known' /\ pc'[t] = "subscribe" => hold'[t] = "current"
      BY DEF HoldsCurrent
    <3>1. CASE t = entry
      BY <1>1, <1>b, <3>1 DEF RemoveCall, SetupTypes
    <3>2. CASE t # entry /\ tracked = NoSub
      BY <1>1, <1>b, <3>2 DEF RemoveCall, PopNode, HoldsCurrent, Stale,
         SetupTypes
    <3>3. CASE t # entry /\ tracked # NoSub
      BY <1>1, <1>b, <3>3 DEF RemoveCall, HoldsCurrent, SetupTypes, nodeVars
    <3>4. QED
      BY <3>1, <3>2, <3>3
  <2>4. ViewIsCurrent'
    BY <1>1, <1>b DEF RemoveCall, PopNode, ViewIsCurrent, nodeVars
  <2>5. QED
    BY <1>a, <2>1, <2>2, <2>3, <2>4 DEF MirrorInv
<1>2. CASE RemoveAfterShutdown(r)
  <2>1. NeverSubscribed' /\ InterviewsOnce'
    <3>1. ~NeedsInterview
      BY <1>2, <1>b DEF RemoveAfterShutdown, NeverSubscribed
    <3>2. ~NeedsInterview'
      BY <1>2, <3>1 DEF RemoveAfterShutdown, PopNode, NeedsInterview, nodeVars
    <3>3. QED
      BY <1>2, <1>b, <3>1, <3>2 DEF RemoveAfterShutdown, NeverSubscribed,
         InterviewsOnce
  <2>2. HoldsCurrent'
    BY <1>2, <1>b DEF RemoveAfterShutdown, PopNode, HoldsCurrent, Stale,
       SetupTypes, nodeVars
  <2>3. ViewIsCurrent'
    BY <1>2, <1>b DEF RemoveAfterShutdown, PopNode, ViewIsCurrent, nodeVars
  <2>4. QED
    BY <1>a, <2>1, <2>2, <2>3 DEF MirrorInv
<1>3. CASE RemoveUnpaired(r)
  <2>1. NeverSubscribed' /\ InterviewsOnce' /\ HoldsCurrent'
    BY <1>3, <1>b, QuietStep DEF RemoveUnpaired, CallTypes, nodeVars
  <2>2. ViewIsCurrent'
    BY <1>3, <1>b DEF RemoveUnpaired, ViewIsCurrent, nodeVars
  <2>3. QED
    BY <1>a, <2>1, <2>2 DEF MirrorInv
<1>4. QED
  BY <1>1, <1>2, <1>3

\* So do offline tasks, callbacks, mDNS and the device.
LEMMA OtherMirrorInv ==
  ASSUME MirrorInv,
         \/ \E o \in OfflineTasks : OfflineShutdown(o) \/ OfflineAfterShutdown(o)
         \/ \E s \in SubIds :
              \/ SubscriptionCloses(s) \/ Resubscribed(s)
              \/ \E late \in BOOLEAN : ResubscriptionAttempted(s, late)
         \/ \E change \in {"Added", "Updated"} : MdnsEvent(change)
         \/ MdnsRemoved \/ MdnsFires \/ MdnsForgotten
         \/ \E announced \in BOOLEAN : DeviceDown(announced)
         \/ DeviceUp
  PROVE  MirrorInv'
<1>a. TypeOK'
  BY CallTypeOK, CallbackTypeOK DEF MirrorInv
<1>b. /\ ViewIsCurrent /\ NeverSubscribed /\ InterviewsOnce /\ HoldsCurrent
      /\ SetupTypes /\ NoTask \notin SetupTasks
  BY ActorsAssumption DEF MirrorInv, TypeOK
<1>1. ASSUME NEW o \in OfflineTasks, OfflineShutdown(o) \/ OfflineAfterShutdown(o)
      PROVE  MirrorInv'
  <2>1. MarkUnavailable \/ UNCHANGED nodeVars
    BY <1>1 DEF OfflineShutdown, OfflineAfterShutdown
  <2>2. ViewIsCurrent' /\ UNCHANGED <<known, fresh>>
    BY <2>1, <1>b, MarkIsSeen
  <2>3. UNCHANGED <<setupVars, removing>> /\ tracked' \in {tracked, NoSub}
    BY <1>1 DEF OfflineShutdown, OfflineAfterShutdown, Shutdown,
       ShutdownReturns, subVars
  <2>4. NeverSubscribed' /\ InterviewsOnce' /\ HoldsCurrent'
    BY <2>2, <2>3, <1>b, QuietStep
  <2>5. QED
    BY <1>a, <2>2, <2>4 DEF MirrorInv
<1>2. ASSUME NEW s \in SubIds, Resubscribed(s)
      PROVE  MirrorInv'
  <2>1. ViewIsCurrent' /\ UNCHANGED <<known, fresh>>
    BY <1>2, <1>b DEF Resubscribed, ViewIsCurrent, Announce, nodeVars
  <2>2. NeverSubscribed' /\ InterviewsOnce' /\ HoldsCurrent'
    BY <1>2, <2>1, <1>b, QuietStep DEF Resubscribed, callVars
  <2>3. QED
    BY <1>a, <2>1, <2>2 DEF MirrorInv
<1>3. ASSUME \/ \E s \in SubIds :
                  \/ SubscriptionCloses(s)
                  \/ \E late \in BOOLEAN : ResubscriptionAttempted(s, late)
             \/ \E change \in {"Added", "Updated"} : MdnsEvent(change)
             \/ MdnsRemoved \/ MdnsForgotten
             \/ \E announced \in BOOLEAN : DeviceDown(announced)
             \/ DeviceUp
      PROVE  MirrorInv'
  <2>1. MarkUnavailable \/ UNCHANGED nodeVars
    BY <1>3 DEF SubscriptionCloses, ResubscriptionAttempted, MdnsEvent,
       MdnsRemoved, MdnsForgotten, DeviceDown, DeviceUp
  <2>2. ViewIsCurrent' /\ UNCHANGED <<known, fresh>>
    BY <2>1, <1>b, MarkIsSeen
  <2>3. UNCHANGED <<setupVars, removing, tracked>>
    BY <1>3 DEF SubscriptionCloses, ResubscriptionAttempted, MdnsEvent,
       MdnsRemoved, MdnsForgotten, DeviceDown, DeviceUp, subVars, callVars
  <2>4. NeverSubscribed' /\ InterviewsOnce' /\ HoldsCurrent'
    BY <2>2, <2>3, <1>b, QuietStep
  <2>5. QED
    BY <1>a, <2>2, <2>4 DEF MirrorInv
<1>4. CASE MdnsFires
  <2>1. NeverSubscribed'
    BY <1>4, <1>b DEF MdnsFires, CreateTask, NeverSubscribed, NeedsInterview,
       OnlyRegistered, SetupTypes, setupVars, nodeVars, callVars, subVars
  <2>2. InterviewsOnce' /\ HoldsCurrent'
    BY <1>4, <1>b DEF MdnsFires, CreateTask, InterviewsOnce, NeedsInterview,
       HoldsCurrent, SetupTypes, setupVars, nodeVars
  <2>3. ViewIsCurrent'
    BY <1>4, <1>b DEF MdnsFires, ViewIsCurrent, nodeVars
  <2>4. QED
    BY <1>a, <2>1, <2>2, <2>3 DEF MirrorInv
<1>5. QED
  BY <1>1, <1>2, <1>3, <1>4

\* However many setups, removals, offline tasks, lost subscriptions and mDNS
\* events interleave, a client was last told what _nodes says of the node.
THEOREM ClientsSeeTheNode == ASSUME Interviewers = {} PROVE Spec => []ViewIsCurrent
<1>1. Init => MirrorInv
  <2> SUFFICES ASSUME Init PROVE MirrorInv
    OBVIOUS
  <2>1. ViewIsCurrent /\ NeverSubscribed
    BY DEF Init, ViewIsCurrent, NeverSubscribed, OnlyRegistered
  <2>2. InterviewsOnce /\ HoldsCurrent
    BY DEF Init, InterviewsOnce, HoldsCurrent
  <2>3. QED
    BY <2>1, <2>2, InitTypeOK DEF MirrorInv
<1>2. MirrorInv /\ [Next]_vars => MirrorInv'
  <2> SUFFICES ASSUME MirrorInv, [Next]_vars PROVE MirrorInv'
    OBVIOUS
  <2>1. CASE Next
    BY <2>1, SetupMirrorInv, RemoveMirrorInv, OtherMirrorInv DEF Next
  <2>2. CASE UNCHANGED vars
    <3>1. TypeOK'
      BY <2>2, NextTypeOK DEF MirrorInv
    <3>2. NeverSubscribed' /\ InterviewsOnce' /\ HoldsCurrent'
      BY <2>2, QuietStep DEF MirrorInv, vars, nodeVars, callVars, subVars
    <3>3. ViewIsCurrent'
      BY <2>2, MarkIsSeen DEF MirrorInv, vars
    <3>4. QED
      BY <3>1, <3>2, <3>3 DEF MirrorInv
  <2>3. QED
    BY <2>1, <2>2
<1>3. MirrorInv => ViewIsCurrent
  BY DEF MirrorInv
<1>4. QED
  BY <1>1, <1>2, <1>3, PTL DEF Spec

=============================================================================
