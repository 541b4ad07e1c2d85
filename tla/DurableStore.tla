---------------------------- MODULE DurableStore ----------------------------
(***************************************************************************)
(* What StorageController promises, without timers, locks, tasks or files: *)
(* there is data in memory and data that survives.  Memory may run ahead   *)
(* of what survives; what survives only ever moves forward, to data that   *)
(* memory held; and a restart begins from exactly what survives.  Data is  *)
(* abstracted to the number of the change that produced it.                *)
(***************************************************************************)
EXTENDS Integers

VARIABLES mem,      \* version of the data in memory
          newest,   \* newest version ever produced
          durable   \* version a restart would load

dsVars == <<mem, newest, durable>>

Init == mem = 0 /\ newest = 0 /\ durable = 0

\* The program changes its data.
Change == /\ newest' = newest + 1
          /\ mem' = newest'
          /\ UNCHANGED durable

\* What survives catches up, never past memory and never backwards.
Persist == /\ durable' >= durable
           /\ durable' <= mem
           /\ UNCHANGED <<mem, newest>>

\* The program starts (again) from what survived.
Restart == /\ mem' = durable
           /\ UNCHANGED <<newest, durable>>

Next == Change \/ Persist \/ Restart

Spec == Init /\ [][Next]_dsVars
=============================================================================
