------------------------------ MODULE Storage ------------------------------
(***************************************************************************)
(* server/storage.py: StorageController, the JSON file the server keeps    *)
(* its nodes, ids, credentials and group keys in.                          *)
(*                                                                         *)
(* The dictionary _data is abstracted to the version of its last change.   *)
(* What is kept: the delayed save (call_later), forced saves (a task per   *)
(* save), the lock that serialises them, the steps of do_save in the       *)
(* executor thread (unlink backup, copy file to backup, dump, rename),     *)
(* stop(), a crash at any point, and the load at the next start.           *)
(*                                                                         *)
(* The value stored for a node is the live MatterNodeData object (see      *)
(* _write_node_state), so that object changes inside _data without set().  *)
(* nodeEntry says what _data holds for one node: nothing, the dict that    *)
(* was loaded from disk, or the live object.  That node is not removed     *)
(* here (NodeLifecycle removes nodes); remove() acts on other keys.        *)
(***************************************************************************)
EXTENDS Integers, FiniteSets

CONSTANTS MaxVersion,  \* bound: changes of _data in one behaviour
          MaxQueued    \* bound: async_save calls not yet holding the lock

ASSUME BoundsAssumption == MaxVersion \in Nat /\ MaxQueued \in Nat

VARIABLES
  mem,        \* version of _data
  newest,     \* newest version produced so far, over all restarts
  nodeEntry,  \* what _data["nodes"][id] is: "none", "dict" or "object"
  nodeSince,  \* version that first held the node (0: none)
  requested,  \* newest version a save was requested for in this process
  timer,      \* _timer_handle: "none", "armed" (the delay runs), "due" (it has
              \* passed, the callback has not run) or "fired" (never reset)
  queued,     \* async_save calls waiting for _save_lock
  phase,      \* where do_save is in the executor thread; "idle": lock free
  tmp,        \* version in atomic_write's temporary file (0: none)
  main,       \* content of <fabric>.json
  backup,     \* content of <fabric>.json.backup
  life,       \* "down", "running", "stopping" (in stop()), "stopped"
  stopAhead,  \* saves to complete before the one of stop() has completed
  stopDue     \* history: version stop() undertook to save (0: nothing)

procVars == <<mem, newest, nodeEntry, nodeSince, requested>>
saveVars == <<timer, queued, phase, tmp>>
fileVars == <<main, backup>>
lifeVars == <<life, stopAhead, stopDue>>
vars == <<procVars, saveVars, fileVars, lifeVars>>

Absent == -1   \* no such file
Torn   == -2   \* a file that is not valid JSON

Phases == {"idle", "unlink", "copy", "copying", "dump", "rename"}

Init ==
  /\ mem = 0 /\ newest = 0 /\ nodeEntry = "none" /\ nodeSince = 0
  /\ requested = 0
  /\ timer = "none" /\ queued = 0 /\ phase = "idle" /\ tmp = 0
  /\ main = Absent /\ backup = Absent
  /\ life = "down" /\ stopAhead = 0 /\ stopDue = 0

-----------------------------------------------------------------------------
(* save(immediate): cancel a pending delayed save, then create a task for  *)
(* async_save or arm the delayed save.                                     *)

\* Mutant: a forced save is not queued while another one is writing.
SaveCoalesced(immediate) ==
  IF immediate
  THEN /\ queued < MaxQueued
       /\ timer' = "none"
       /\ queued' = IF phase = "idle" THEN queued + 1 ELSE queued
       /\ UNCHANGED <<phase, tmp>>
  ELSE timer' = "armed" /\ UNCHANGED <<queued, phase, tmp>>

Save(immediate) ==
  IF immediate
  THEN /\ queued < MaxQueued
       /\ timer' = "none" /\ queued' = queued + 1
       /\ UNCHANGED <<phase, tmp>>
  ELSE timer' = "armed" /\ UNCHANGED <<queued, phase, tmp>>

Alive == life \in {"running", "stopping"}

\* A change of _data, by set() or by a mutation of an object inside it.
NewVersion == /\ newest < MaxVersion
              /\ newest' = newest + 1
              /\ mem' = newest'

\* At the bound a change that need not be saved at once goes uncounted, so that
\* delayed saves can be asked for without end.
Uncounted == mem = newest /\ newest = MaxVersion /\ UNCHANGED <<mem, newest>>

\* set(): a value equal to the stored one is ignored unless forced.
Set(changed, force) ==
  /\ Alive
  /\ changed \/ force
  /\ IF changed THEN NewVersion \/ (~force /\ Uncounted)
                ELSE UNCHANGED <<mem, newest>>
  /\ requested' = mem'
  /\ Save(force)
  /\ UNCHANGED <<nodeEntry, nodeSince, fileVars, lifeVars>>

\* remove() always saves at once.
Remove ==
  /\ Alive
  /\ NewVersion
  /\ requested' = mem'
  /\ Save(TRUE)
  /\ UNCHANGED <<nodeEntry, nodeSince, fileVars, lifeVars>>

\* _write_node_state(force=True) at the end of an interview: a new object.
StoreNode ==
  /\ Alive
  /\ NewVersion
  /\ nodeEntry' = "object"
  /\ nodeSince' = IF nodeSince = 0 THEN newest' ELSE nodeSince
  /\ requested' = mem'
  /\ Save(TRUE)
  /\ UNCHANGED <<fileVars, lifeVars>>

\* An attribute of the live node changes and _write_node_state() calls set().
\* If _data already holds that object, set() compares it with itself.
UpdateNode ==
  /\ Alive
  /\ nodeEntry # "none"
  /\ NewVersion
  /\ IF nodeEntry = "object"
     THEN UNCHANGED <<requested, saveVars>>
     ELSE requested' = mem' /\ Save(FALSE)
  /\ nodeEntry' = "object"
  /\ UNCHANGED <<nodeSince, fileVars, lifeVars>>

\* DEFAULT_SAVE_DELAY has passed since the last save() that was not forced.
TimerExpires ==
  /\ Alive
  /\ timer = "armed"
  /\ timer' = "due"
  /\ UNCHANGED <<queued, phase, tmp, procVars, fileVars, lifeVars>>

\* The callback of the delayed save; the handle stays in _timer_handle.
TimerFires ==
  /\ Alive
  /\ timer = "due"
  /\ queued < MaxQueued
  /\ timer' = "fired" /\ queued' = queued + 1
  /\ UNCHANGED <<phase, tmp, procVars, fileVars, lifeVars>>

-----------------------------------------------------------------------------
(* async_save / do_save.                                                   *)

Acquire ==
  /\ Alive
  /\ phase = "idle" /\ queued > 0
  /\ queued' = queued - 1 /\ phase' = "unlink"
  /\ UNCHANGED <<timer, tmp, procVars, fileVars, lifeVars>>

\* Mutant: unlink() without missing_ok raises when there is no backup yet.
UnlinkBackupStrict ==
  /\ phase = "unlink"
  /\ backup' = Absent
  /\ phase' = IF backup = Absent THEN "idle" ELSE "copy"
  /\ UNCHANGED <<timer, queued, tmp, main, procVars, lifeVars>>

UnlinkBackup ==
  /\ phase = "unlink"
  /\ backup' = Absent
  /\ phase' = IF main = Absent THEN "dump" ELSE "copy"
  /\ UNCHANGED <<timer, queued, tmp, main, procVars, lifeVars>>

\* shutil.copy truncates and fills the backup: not atomic.
CopyBegins ==
  /\ phase = "copy"
  /\ backup' = Torn /\ phase' = "copying"
  /\ UNCHANGED <<timer, queued, tmp, main, procVars, lifeVars>>

CopyEnds ==
  /\ phase = "copying"
  /\ backup' = main /\ phase' = "dump"
  /\ UNCHANGED <<timer, queued, tmp, main, procVars, lifeVars>>

\* Mutant: open(filename, "w") in place of atomic_write.
DumpInPlace ==
  /\ phase = "dump"
  /\ tmp' = mem /\ phase' = "rename" /\ main' = Torn
  /\ UNCHANGED <<timer, queued, procVars, backup, lifeVars>>

\* json_dumps(self._data) into the temporary file of atomic_write.
Dump ==
  /\ phase = "dump"
  /\ tmp' = mem /\ phase' = "rename"
  /\ UNCHANGED <<timer, queued, procVars, fileVars, lifeVars>>

\* Mutant: stop() returns as soon as any save has completed.
SaveCompletedAny ==
  /\ stopAhead' = IF stopAhead > 0 THEN stopAhead - 1 ELSE 0
  /\ life' = IF life = "stopping" THEN "stopped" ELSE life
  /\ UNCHANGED stopDue

\* One save has completed; stop() returns when its own has.
SaveCompleted ==
  /\ stopAhead' = IF stopAhead > 0 THEN stopAhead - 1 ELSE 0
  /\ life' = IF life = "stopping" /\ stopAhead = 1 THEN "stopped" ELSE life
  /\ UNCHANGED stopDue

\* atomic_write replaces the file when the with-block ends; lock released.
Rename ==
  /\ phase = "rename"
  /\ main' = tmp /\ tmp' = 0 /\ phase' = "idle"
  /\ SaveCompleted
  /\ UNCHANGED <<timer, queued, backup, procVars>>

-----------------------------------------------------------------------------
(* stop(), the end of the process, a crash and the next start.             *)

\* stop(): returns at once when no handle is set, else awaits a save of its
\* own; the save tasks already queued on the lock come before it.
Stop ==
  /\ life = "running"
  /\ IF timer = "none"
     THEN life' = "stopped" /\ UNCHANGED <<stopAhead, stopDue, queued>>
     ELSE /\ queued < MaxQueued
          /\ life' = "stopping"
          /\ \E ahead \in 0 .. queued :
                stopAhead' = 1 + ahead + (IF phase = "idle" THEN 0 ELSE 1)
          /\ queued' = queued + 1
          /\ stopDue' = requested
  /\ UNCHANGED <<timer, phase, tmp, procVars, fileVars>>

\* What a dead process leaves: the files, and nothing else.
ProcessGone ==
  /\ life' = "down"
  /\ mem' = 0 /\ nodeEntry' = "none" /\ requested' = 0
  /\ timer' = "none" /\ queued' = 0 /\ phase' = "idle" /\ tmp' = 0
  /\ stopAhead' = 0 /\ stopDue' = 0
  /\ UNCHANGED <<newest, nodeSince, fileVars>>

\* The loop is closed after stop(): tasks still waiting are cancelled, a
\* do_save already in the executor is waited for.
Exit == life = "stopped" /\ phase = "idle" /\ ProcessGone

Crash == life # "down" /\ ProcessGone

\* _load(): the file, else the backup, else nothing.
Loaded == IF main >= 0 THEN main ELSE IF backup >= 0 THEN backup ELSE 0

Start ==
  /\ life = "down"
  /\ life' = "running"
  /\ mem' = Loaded
  /\ LET there == nodeSince # 0 /\ Loaded >= nodeSince
     IN /\ nodeEntry' = IF there THEN "dict" ELSE "none"
        /\ nodeSince' = IF there THEN nodeSince ELSE 0
  /\ UNCHANGED <<newest, requested, saveVars, fileVars, stopAhead, stopDue>>

SaveStep == \/ Acquire \/ UnlinkBackup \/ CopyBegins \/ CopyEnds
            \/ Dump \/ Rename

TimerRuns == TimerExpires \/ TimerFires

Next ==
  \/ \E changed, force \in BOOLEAN : Set(changed, force)
  \/ Remove \/ StoreNode \/ UpdateNode
  \/ TimerExpires \/ TimerFires
  \/ Acquire \/ UnlinkBackup \/ CopyBegins \/ CopyEnds \/ Dump \/ Rename
  \/ Stop \/ Exit \/ Crash \/ Start

Spec == Init /\ [][Next]_vars

\* The event loop runs due timers and ready tasks; the executor thread runs.
FairSpec == Spec /\ WF_vars(TimerRuns) /\ WF_vars(SaveStep)

-----------------------------------------------------------------------------
(* Properties.                                                             *)

TypeOK ==
  /\ mem \in Nat /\ newest \in Nat /\ nodeSince \in Nat /\ requested \in Nat
  /\ nodeEntry \in {"none", "dict", "object"}
  /\ timer \in {"none", "armed", "due", "fired"}
  /\ queued \in Nat /\ phase \in Phases /\ tmp \in Nat
  /\ main \in Nat \cup {Absent, Torn} /\ backup \in Nat \cup {Absent, Torn}
  /\ life \in {"down", "running", "stopping", "stopped"}
  /\ stopAhead \in Nat /\ stopDue \in Nat

\* A do_save under way that will still write version v.
WillWrite(v) == \/ queued > 0
                \/ phase \in {"unlink", "copy", "copying", "dump"}
                \/ phase = "rename" /\ tmp >= v

\* While the server runs, a change that set() or remove() asked to save is on
\* disk, or a save that will write it is armed, queued or under way: cancelling
\* and re-arming the delayed save (save()) and serialising saves by the lock
\* never drop the last request.
RequestedSaveScheduled ==
  Alive /\ requested > Loaded => timer \in {"armed", "due"} \/ WillWrite(requested)

\* When stop() found a handle set, everything requested before the call is on
\* disk by the time it returns, whatever saves were queued or half done then.
StopWritesPending == life = "stopped" => Loaded >= stopDue

\* The refinement mapping: what _load() would return now is what survives.
Durable == INSTANCE DurableStore WITH
             mem <- IF life = "down" THEN Loaded ELSE mem,
             durable <- Loaded

\* A restart, after a crash at any step of do_save or after a normal end,
\* loads the last version whose save completed: neither the backup being
\* rewritten nor a half written file is ever what _load() returns.
ImplementsDurableStore == Durable!Spec

\* A delayed save is put off: save() restarts the delay that has passed.
Postponed == timer = "due" /\ timer' = "armed"

\* Whatever set() or remove() asked to save reaches the disk unless the process
\* ends first, or changes keep coming within DEFAULT_SAVE_DELAY of each other:
\* save() restarts the delay each time, and nothing limits how often.
RequestReachesDisk ==
  \/ []<><<Postponed>>_vars
  \/ \A v \in 1 .. MaxVersion :
       (life = "running" /\ requested >= v) ~> (Loaded >= v \/ life # "running")

=============================================================================
