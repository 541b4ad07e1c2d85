---------------------------- MODULE EventStream ----------------------------
(***************************************************************************)
(* What a websocket session promises a client that listens, without        *)
(* queues, tasks, sockets or messages: it begins with everything up to     *)
(* some event that has happened, is told the next events one after the     *)
(* other, never one that has not happened, and when it has ended it is     *)
(* told nothing any more.  Events are abstracted to their numbers.         *)
(***************************************************************************)
EXTENDS Naturals

VARIABLES happened, \* events that have happened
          has,      \* the last event the client knows of
          stage     \* before, listening, over

esVars == <<happened, has, stage>>

Init == happened = 0 /\ has = 0 /\ stage = "before"

Happen == /\ happened' = happened + 1
          /\ UNCHANGED <<has, stage>>

\* The client is given everything up to some event.
Begin == /\ stage = "before" /\ stage' = "listening"
         /\ has' \in 0..happened
         /\ UNCHANGED happened

\* It is told the next event.
Tell == /\ stage = "listening" /\ has < happened
        /\ has' = has + 1
        /\ UNCHANGED <<happened, stage>>

\* The session ends, at any time, also before it has begun.
End == /\ stage # "over" /\ stage' = "over"
       /\ UNCHANGED <<happened, has>>

Next == Happen \/ Begin \/ Tell \/ End

Spec == Init /\ [][Next]_esVars
=============================================================================
