------------------------ MODULE MatterServerProofs ------------------------
(***************************************************************************)
(* Proofs about MatterServer and the Storage it runs, for every bound of   *)
(* Storage and every set of devices, certificates and sources.             *)
(***************************************************************************)
EXTENDS MatterServer, TLAPS

-----------------------------------------------------------------------------
(***************************************************************************)
(* The storage alone.  The inductive invariant says where each copy of the *)
(* data stands: memory is never behind the file, a dump waiting to be      *)
(* renamed lies between the two, the file itself is never torn, and a      *)
(* backup exists only beside a file.                                       *)
(***************************************************************************)
\* The files: the main file is whole whenever it exists.
FilesInv ==
  /\ main # Torn
  /\ main = Absent => backup = Absent
  /\ phase \in {"copy", "copying"} => main >= 0

\* The order of the versions of file, dump, memory and history.
OrderInv ==
  /\ mem <= newest /\ Loaded <= newest
  /\ life # "down" => Loaded <= mem
  /\ phase = "rename" => Loaded <= tmp /\ tmp <= mem
  /\ requested <= mem

\* The life of the process and the save of stop().
LifeInv ==
  /\ life = "down" => phase = "idle" /\ requested = 0 /\ stopDue = 0 /\ mem = 0
  /\ life \in {"down", "running"} => stopDue = 0 /\ stopAhead = 0
  /\ life # "down" => stopDue <= mem
  /\ life = "stopping" /\ phase = "rename" /\ stopAhead = 1 => tmp >= stopDue

IInv == /\ TypeOK /\ FilesInv /\ OrderInv /\ LifeInv
        /\ RequestedSaveScheduled /\ StopWritesPending

\* Once the file is known not to be torn, _load() returns it or nothing.
LEMMA LoadedValue ==
  ASSUME TypeOK, FilesInv
  PROVE  /\ Loaded \in Nat
         /\ main >= 0 => Loaded = main
         /\ main < 0 => Loaded = 0
  BY DEF TypeOK, FilesInv, Loaded, Absent, Torn

\* The initial state satisfies the inductive invariant.
LEMMA InitIInv == Init => IInv
  BY DEF Init, IInv, TypeOK, FilesInv, OrderInv, LifeInv, Loaded, Phases,
         RequestedSaveScheduled, StopWritesPending, Alive, WillWrite,
         Absent, Torn

\* Every step of the specification preserves the inductive invariant.
LEMMA NextIInv == IInv /\ [Next]_vars => IInv'
<1> SUFFICES ASSUME IInv, [Next]_vars PROVE IInv'
  OBVIOUS
<1> USE DEF IInv, TypeOK, FilesInv, OrderInv, LifeInv, Loaded, Phases,
            RequestedSaveScheduled, StopWritesPending, Alive, WillWrite,
            Absent, Torn, procVars, saveVars, fileVars, lifeVars
<1>1. CASE \E changed, force \in BOOLEAN : Set(changed, force)
  BY <1>1 DEF Set, NewVersion, Uncounted, Save
<1>2. CASE Remove
  BY <1>2 DEF Remove, NewVersion, Save
<1>3. CASE StoreNode
  BY <1>3 DEF StoreNode, NewVersion, Save
<1>4. CASE UpdateNode
  BY <1>4 DEF UpdateNode, NewVersion, Save
<1>5. CASE TimerExpires \/ TimerFires
  BY <1>5 DEF TimerExpires, TimerFires
<1>6. CASE Acquire
  BY <1>6 DEF Acquire
<1>7. CASE UnlinkBackup
  BY <1>7 DEF UnlinkBackup
<1>8. CASE CopyBegins
  BY <1>8 DEF CopyBegins
<1>9. CASE CopyEnds
  BY <1>9 DEF CopyEnds
<1>10. CASE Dump
  BY <1>10 DEF Dump
<1>11. CASE Rename
  BY <1>11 DEF Rename, SaveCompleted
<1>12. CASE Stop
  BY <1>12 DEF Stop
<1>13. CASE Exit
  BY <1>13 DEF Exit, ProcessGone
<1>14. CASE Crash
  BY <1>14 DEF Crash, ProcessGone
<1>15. CASE Start
  BY <1>15 DEF Start
<1>16. CASE UNCHANGED vars
  BY <1>16 DEF vars
<1>17. QED
  BY <1>1, <1>2, <1>3, <1>4, <1>5, <1>6, <1>7, <1>8, <1>9, <1>10, <1>11,
     <1>12, <1>13, <1>14, <1>15, <1>16 DEF Next

\* Type correctness of every reachable state.
THEOREM TypeCorrect == Spec => []TypeOK
<1>1. IInv => TypeOK
  BY DEF IInv
<1>2. QED
  BY <1>1, InitIInv, NextIInv, PTL DEF Spec

\* A requested save is never dropped (RequestedSaveScheduled, checked by TLC
\* on a small instance), for every number of changes and of queued saves.
THEOREM RequestsAreScheduled == Spec => []RequestedSaveScheduled
<1>1. IInv => RequestedSaveScheduled
  BY DEF IInv
<1>2. QED
  BY <1>1, InitIInv, NextIInv, PTL DEF Spec

\* What stop() undertook to save is on disk when it returns.
THEOREM StopIsDurable == Spec => []StopWritesPending
<1>1. IInv => StopWritesPending
  BY DEF IInv
<1>2. QED
  BY <1>1, InitIInv, NextIInv, PTL DEF Spec

-----------------------------------------------------------------------------
(* The refinement: initial states map to initial states, and every step to *)
(* a step of DurableStore or to a stutter.                                 *)

\* A change of the data maps to Change, a completed save to Persist, the end
\* of the process to Restart, and everything else to a stutter.
LEMMA StepRefines ==
  ASSUME IInv, [Next]_vars
  PROVE  [Durable!Next]_(Durable!dsVars)
<1> USE DEF IInv, TypeOK, FilesInv, OrderInv, LifeInv, Loaded, Phases,
            Absent, Torn, procVars, saveVars, fileVars, lifeVars,
            Durable!Next, Durable!dsVars
<1>1. CASE \E changed, force \in BOOLEAN : Set(changed, force)
  BY <1>1 DEF Set, NewVersion, Uncounted, Alive, Durable!Change
<1>2. CASE Remove
  BY <1>2 DEF Remove, NewVersion, Alive, Durable!Change
<1>3. CASE StoreNode
  BY <1>3 DEF StoreNode, NewVersion, Alive, Durable!Change
<1>4. CASE UpdateNode
  BY <1>4 DEF UpdateNode, NewVersion, Alive, Durable!Change
<1>5. CASE TimerExpires \/ TimerFires
  BY <1>5 DEF TimerExpires, TimerFires
<1>6. CASE Acquire
  BY <1>6 DEF Acquire
<1>7. CASE UnlinkBackup
  BY <1>7 DEF UnlinkBackup
<1>8. CASE CopyBegins
  BY <1>8 DEF CopyBegins
<1>9. CASE CopyEnds
  BY <1>9 DEF CopyEnds
<1>10. CASE Dump
  BY <1>10 DEF Dump
<1>11. CASE Rename
  BY <1>11 DEF Rename, SaveCompleted, Durable!Persist
<1>12. CASE Stop
  BY <1>12 DEF Stop
<1>13. CASE Exit
  BY <1>13 DEF Exit, ProcessGone, Durable!Restart
<1>14. CASE Crash
  BY <1>14 DEF Crash, ProcessGone, Durable!Restart
<1>15. CASE Start
  BY <1>15 DEF Start
<1>16. CASE UNCHANGED vars
  BY <1>16 DEF vars
<1>17. QED
  BY <1>1, <1>2, <1>3, <1>4, <1>5, <1>6, <1>7, <1>8, <1>9, <1>10, <1>11,
     <1>12, <1>13, <1>14, <1>15, <1>16 DEF Next

\* StorageController implements DurableStore: a restart always begins from
\* the last completed save, whatever step of do_save a crash interrupted.
THEOREM StorageRefinesDurableStore == Spec => ImplementsDurableStore
<1>1. Init => Durable!Init
  BY DEF Init, Durable!Init, Loaded, Absent
<1>2. IInv /\ [Next]_vars => [Durable!Next]_(Durable!dsVars)
  BY StepRefines
<1>3. QED
  BY <1>1, <1>2, InitIInv, NextIInv, PTL
     DEF Spec, ImplementsDurableStore, Durable!Spec

-----------------------------------------------------------------------------
(***************************************************************************)
(* The server.  Its actions conjoin those of its storage, so what was       *)
(* proved of the storage holds of the server; the two invariants of the    *)
(* server itself follow from that and from where in start() and stop() the *)
(* process is.                                                             *)
(***************************************************************************)
\* A step of the server is a step of the storage or leaves it alone.
LEMMA ServerStepIsStorageStep ==
  ASSUME [ServerNext]_allVars PROVE [Next]_vars
<1>1. CASE Launch
  BY <1>1 DEF Launch
<1>2. CASE CheckCertificates \/ FetchCertificate \/ SourceFails \/ MarkCertificates
  BY <1>2 DEF CheckCertificates, FetchCertificate, SourceFails, MarkCertificates
<1>3. CASE LoadStorage
  BY <1>3 DEF LoadStorage, Next
<1>4. CASE FetchVendors
  BY <1>4 DEF FetchVendors, Next
<1>5. CASE LoadNodes
  BY <1>5 DEF LoadNodes, Next
<1>6. CASE Serve \/ StartFails \/ StopUnstarted \/ StopServing \/ CloseWeb
  BY <1>6 DEF Serve, StartFails, StopUnstarted, StopServing, CloseWeb
<1>7. CASE NextSubscription \/ ShutDownStack \/ SubscriptionsChange
  BY <1>7 DEF NextSubscription, ShutDownStack, SubscriptionsChange
<1>8. CASE StopStorage
  BY <1>8 DEF StopStorage, Next
<1>9. CASE Terminate \/ PowerCut
  BY <1>9 DEF Terminate, PowerCut, LeaveNothing, Next, Crash
<1>10. CASE Change
  BY <1>10 DEF Change, Next
<1>11. CASE SaveRuns
  BY <1>11 DEF SaveRuns, SaveStep, TimerRuns, Next
<1>12. CASE UNCHANGED allVars
  BY <1>12 DEF allVars
<1>13. QED
  BY <1>1, <1>2, <1>3, <1>4, <1>5, <1>6, <1>7, <1>8, <1>9, <1>10, <1>11, <1>12
     DEF ServerNext

\* So a behaviour of the server is one of its storage.
LEMMA ServerUsesStorage == ServerSpec => Spec
<1>1. ServerInit => Init
  BY DEF ServerInit
<1>2. [ServerNext]_allVars => [Next]_vars
  BY ServerStepIsStorageStep
<1>3. QED
  BY <1>1, <1>2, PTL DEF ServerSpec, Spec

\* So the storage's inductive invariant holds of the server.
LEMMA ServerIInv == ServerSpec => []IInv
<1>1. Spec => []IInv
  BY InitIInv, NextIInv, PTL DEF Spec
<1>2. QED
  BY <1>1, ServerUsesStorage, PTL

-----------------------------------------------------------------------------
(* The certificates.  While a fetch has not missed anything, what is there *)
(* and what is still wanted make up the whole list.                        *)

CertInv ==
  /\ MarkedIsComplete
  /\ stage = "fetch" /\ ~missed => certs \cup wanted = Certificates
  /\ certs \subseteq Certificates /\ wanted \subseteq Certificates

\* A certificate directory that a marker declares up to date is complete
\* unless a download failed, whenever the server was stopped or crashed.
THEOREM CertificatesComplete == ServerSpec => []MarkedIsComplete
<1>1. ServerInit => CertInv
  BY DEF ServerInit, CertInv, MarkedIsComplete
<1>2. ASSUME CertInv, [ServerNext]_allVars PROVE CertInv'
  <2> USE <1>2 DEF CertInv, MarkedIsComplete, certVars, serverVars, Goto
  <2>1. CASE Launch
    BY <2>1 DEF Launch
  <2>2. CASE CheckCertificates
    BY <2>2 DEF CheckCertificates
  <2>3. CASE FetchCertificate
    BY <2>3 DEF FetchCertificate
  <2>4. CASE SourceFails
    BY <2>4 DEF SourceFails
  <2>5. CASE MarkCertificates
    BY <2>5 DEF MarkCertificates
  <2>6. CASE LoadStorage
    BY <2>6 DEF LoadStorage
  <2>6b. CASE FetchVendors
    BY <2>6b DEF FetchVendors
  <2>6c. CASE LoadNodes
    BY <2>6c DEF LoadNodes, vars
  <2>6a. CASE Serve \/ StartFails
    BY <2>6a DEF Serve, StartFails, Starting
  <2>7. CASE StopUnstarted \/ StopServing \/ CloseWeb \/ NextSubscription
    BY <2>7 DEF StopUnstarted, StopServing, CloseWeb, NextSubscription
  <2>8. CASE StopStorage \/ ShutDownStack \/ Change \/ SaveRuns
    BY <2>8 DEF StopStorage, ShutDownStack, Change, SaveRuns
  <2>9. CASE Terminate \/ PowerCut
    BY <2>9 DEF Terminate, PowerCut, LeaveNothing
  <2>10. CASE SubscriptionsChange
    BY <2>10 DEF SubscriptionsChange
  <2>11. CASE UNCHANGED allVars
    BY <2>11 DEF allVars
  <2>12. QED
    BY <2>1, <2>2, <2>3, <2>4, <2>5, <2>6, <2>6a, <2>6b, <2>6c, <2>7, <2>8, <2>9, <2>10, <2>11
       DEF ServerNext
<1>3. CertInv => MarkedIsComplete
  BY DEF CertInv
<1>4. QED
  BY <1>1, <1>2, <1>3, PTL DEF ServerSpec

-----------------------------------------------------------------------------
(* The end of stop().  due is requested while the storage runs, so it is   *)
(* covered by what storage.stop() undertakes to save, or by a save that    *)
(* was asked for at once.                                                  *)

Running == {"vendors", "nodes", "mount", "headless", "serving", "closing",
            "unsubscribing", "saving"}

DueInv ==
  /\ due \in Nat
  /\ stage \in Running => life = "running"
  /\ stage \in {"saving", "stopping", "ended"} => due <= mem
  /\ stage \notin {"saving", "stopping", "ended"} => due = 0
  /\ stage = "saving" => due <= requested
  /\ stage = "stopping" => life \in {"stopping", "stopped"}
  /\ stage = "ended" => life = "stopped"
  /\ stage \in {"stopping", "ended"} =>
       \/ stopDue # 0 /\ due <= stopDue
       \/ due = 0
       \/ life = "stopped" /\ stopDue = 0 /\ (Loaded >= due \/ WillWrite(due))

\* The steps of the storage alone: saves go on, and what they will write or
\* have written stays written.
LEMMA SavesKeepDue ==
  ASSUME IInv, IInv', DueInv, SaveRuns PROVE DueInv'
<1> USE DEF IInv, TypeOK, FilesInv, OrderInv, LifeInv, StopWritesPending, Loaded,
            Phases, Absent, Torn, DueInv, Running, WillWrite, Alive, procVars,
            saveVars, fileVars, lifeVars, serverVars, walkVars, certVars
<1>1. CASE TimerRuns
  BY <1>1 DEF SaveRuns, TimerRuns, TimerExpires, TimerFires
<1>2. CASE Acquire
  BY <1>2 DEF SaveRuns, Acquire
<1>3. CASE UnlinkBackup
  BY <1>3 DEF SaveRuns, UnlinkBackup
<1>4. CASE CopyBegins
  BY <1>4 DEF SaveRuns, CopyBegins
<1>5. CASE CopyEnds
  BY <1>5 DEF SaveRuns, CopyEnds
<1>6. CASE Dump
  BY <1>6 DEF SaveRuns, Dump
<1>7. CASE Rename
  BY <1>7 DEF SaveRuns, Rename, SaveCompleted
<1>8. QED
  BY <1>1, <1>2, <1>3, <1>4, <1>5, <1>6, <1>7 DEF SaveRuns, SaveStep

\* Changes of the data only raise what is requested and what memory holds.
LEMMA ChangesKeepDue ==
  ASSUME IInv, IInv', DueInv, Change PROVE DueInv'
<1> USE DEF IInv, TypeOK, OrderInv, LifeInv, Loaded, Absent, Torn, DueInv, Running,
            WillWrite, Alive, NewVersion, Uncounted, Save, procVars, saveVars, fileVars,
            lifeVars, serverVars, walkVars, certVars
<1>1. CASE \E changed, force \in BOOLEAN : Set(changed, force)
  BY <1>1 DEF Change, Set
<1>2. CASE Remove
  BY <1>2 DEF Change, Remove
<1>3. CASE StoreNode
  BY <1>3 DEF Change, StoreNode
<1>4. CASE UpdateNode
  BY <1>4 DEF Change, UpdateNode
<1>5. QED
  BY <1>1, <1>2, <1>3, <1>4 DEF Change

\* When stop() has come to its end, everything that was to be saved when the
\* SDK went down is on disk, but for forced saves that stop() does not wait for
\* because no delayed save was due.
THEOREM StopKeepsWhatWasRequested == ServerSpec => []StopKeepsRequests
<1>1. ServerInit => DueInv
  BY DEF ServerInit, Init, DueInv, Running
<1>2. ASSUME IInv, IInv', DueInv, [ServerNext]_allVars PROVE DueInv'
  <2> USE <1>2 DEF DueInv, Running, Goto
  <2>1. CASE Launch \/ CheckCertificates \/ FetchCertificate \/ SourceFails
    BY <2>1 DEF Launch, CheckCertificates, FetchCertificate, SourceFails
  <2>2. CASE MarkCertificates \/ Serve
    BY <2>2 DEF MarkCertificates, Serve, vars, procVars, lifeVars
  <2>2a. CASE StartFails \/ StopUnstarted
    BY <2>2a DEF StartFails, StopUnstarted, Starting, vars, procVars, lifeVars
  <2>3. CASE LoadStorage
    BY <2>3 DEF LoadStorage, Start
  <2>4. CASE FetchVendors
    BY <2>4 DEF FetchVendors, Set, lifeVars
  <2>5. CASE LoadNodes
    BY <2>5 DEF LoadNodes, Remove, lifeVars, vars
  <2>6. CASE StopServing \/ CloseWeb
    BY <2>6 DEF StopServing, CloseWeb, vars, lifeVars
  <2>7. CASE NextSubscription
    BY <2>7 DEF NextSubscription, IInv, TypeOK, OrderInv, vars, procVars, lifeVars
  <2>8. CASE StopStorage
    <3>1. IInv /\ stage = "saving" /\ stage' = "stopping" /\ due' = due /\ Stop
      BY <2>8 DEF StopStorage
    <3>2. CASE timer = "none"
      <4>1. Loaded >= requested \/ WillWrite(requested)
        BY <3>1, <3>2, LoadedValue
           DEF IInv, RequestedSaveScheduled, Alive, TypeOK
      <4>2. Loaded >= due \/ WillWrite(due)
        BY <3>1, <4>1, LoadedValue DEF WillWrite, IInv, TypeOK
      <4>3. QED
        BY <3>1, <3>2, <4>2
           DEF Stop, IInv, LifeInv, Loaded, WillWrite, procVars, fileVars
    <3>3. CASE timer # "none"
      BY <3>1, <3>3 DEF Stop, IInv, TypeOK, procVars, fileVars
    <3>4. QED
      BY <3>2, <3>3
  <2>9. CASE ShutDownStack
    BY <2>9 DEF ShutDownStack, vars, procVars, saveVars, fileVars, lifeVars,
                Loaded, WillWrite
  <2>10. CASE Terminate \/ PowerCut
    BY <2>10 DEF Terminate, PowerCut, LeaveNothing
  <2>11. CASE Change
    BY <2>11, ChangesKeepDue
  <2>12. CASE SaveRuns
    BY <2>12, SavesKeepDue
  <2>13. CASE SubscriptionsChange \/ UNCHANGED allVars
    BY <2>13 DEF SubscriptionsChange, allVars, serverVars, vars, procVars, saveVars,
                 fileVars, lifeVars, Loaded, WillWrite
  <2>14. QED
    BY <2>1, <2>2, <2>2a, <2>3, <2>4, <2>5, <2>6, <2>7, <2>8, <2>9, <2>10,
       <2>11, <2>12, <2>13 DEF ServerNext
<1>3. IInv /\ DueInv => StopKeepsRequests
  BY LoadedValue
     DEF IInv, TypeOK, DueInv, StopKeepsRequests, StopWritesPending
<1>4. QED
  BY <1>1, <1>2, <1>3, ServerIInv, PTL DEF ServerSpec

=============================================================================
