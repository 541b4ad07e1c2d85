--------------------------- MODULE DeviceCommands ---------------------------
(***************************************************************************)
(* Commands of device_controller.py that ask a device for something, wait  *)
(* for the answer and act on it: open_commissioning_window with the        *)
(* parameters and timers it keeps, and binding_add, binding_remove and     *)
(* set_node_binding, which read a list, change it and write it back.       *)
(*                                                                         *)
(* One device and, of it, one endpoint with a binding list.  An exchange   *)
(* with the device is one step; the coroutine goes on in a later step      *)
(* where it looks at state that others change.  The lock of the node       *)
(* covers an exchange and not a command, so two commands overlap freely.   *)
(* Parameters are the number of the window they belong to.  A command that *)
(* finds the node unknown or unavailable raises without a trace and is     *)
(* left out.  The two kinds of commands share nothing but the device, so a *)
(* behaviour has commands of one kind, chosen at the start.                *)
(***************************************************************************)
EXTENDS Integers, FiniteSets

CONSTANTS Calls,        \* commands that may be under way
          Targets,      \* binding targets
          NodeOf(_),    \* the node a target names
          MaxWindows,   \* bound: windows opened on the device
          MaxBindings   \* room in the device's binding list

VARIABLES
  kind,       \* the kind of commands of this behaviour
  window,     \* device: the open commissioning window, None if there is none
  opened,     \* number of windows opened so far
  known,      \* _known_commissioning_params of the node
  timer,      \* _known_commissioning_params_timers of the node
  armed,      \* the timers that are still to fire
  bindings,   \* device: the binding list
  call,       \* what each command is at
  foreign,    \* history: windows another administrator opened
  stored,     \* history: windows whose parameters were kept, since the start
  overlapped, \* history: two window commands have overlapped, since the start
  asked,      \* history: what the binding commands one by one come to
  tangled     \* history: a list was written that had changed since it was read

windowVars  == <<window, opened, known, timer, armed, foreign, stored, overlapped>>
bindingVars == <<bindings, asked, tangled>>
vars        == <<kind, windowVars, bindingVars, call>>

None == 0
Windows == 1 .. MaxWindows
Idle == [at |-> "idle"]
Goto(c, step) == call' = [call EXCEPT ![c] = step]
Return(c) == Goto(c, Idle)

Init ==
  /\ kind \in {"window", "binding"}
  /\ window = None /\ opened = 0 /\ known = None /\ timer = None /\ armed = {}
  /\ foreign = {} /\ stored = {} /\ overlapped = FALSE
  /\ bindings = {} /\ asked = {} /\ tangled = FALSE
  /\ call = [c \in Calls |-> Idle]

-----------------------------------------------------------------------------
(***************************************************************************)
(* open_commissioning_window                                               *)
(***************************************************************************)
InWindow(c) == call[c].at \in {"status", "answered", "revoke", "open", "opened"}

WindowBegin(c) ==
  /\ kind = "window"
  /\ call[c].at = "idle"
  /\ Goto(c, [at |-> "status"])
  /\ overlapped' = (overlapped \/ \E d \in Calls : InWindow(d))
  /\ UNCHANGED <<kind, window, opened, known, timer, armed, foreign, stored,
                 bindingVars>>

WindowStatus(c) ==
  /\ call[c].at = "status"
  /\ Goto(c, [at |-> "answered", open |-> window # None])
  /\ UNCHANGED <<kind, windowVars, bindingVars>>

\* Mutant: the timer of the previous window stays armed.
WindowDecideKeepsTimer(c) ==
  /\ call[c].at = "answered"
  /\ \/ /\ ~call[c].open
        /\ known' = None
        /\ Goto(c, [at |-> "open"])
     \/ /\ call[c].open
        /\ IF known # None THEN Return(c) ELSE Goto(c, [at |-> "revoke"])
        /\ UNCHANGED known
  /\ UNCHANGED <<kind, window, opened, timer, armed, foreign, stored, overlapped,
                 bindingVars>>

\* No window: what was kept of the previous one is dropped.  A window whose
\* parameters are known: those are returned.  Another one is closed first.
WindowDecide(c) ==
  /\ call[c].at = "answered"
  /\ \/ /\ ~call[c].open
        /\ armed' = armed \ {timer}
        /\ known' = None
        /\ Goto(c, [at |-> "open"])
     \/ /\ call[c].open
        /\ IF known # None THEN Return(c) ELSE Goto(c, [at |-> "revoke"])
        /\ UNCHANGED <<known, armed>>
  /\ UNCHANGED <<kind, window, opened, timer, foreign, stored, overlapped, bindingVars>>

\* RevokeCommissioning; the device refuses it without a window.
Revoke(c) ==
  /\ call[c].at = "revoke"
  /\ IF window # None THEN Goto(c, [at |-> "open"]) ELSE Return(c)
  /\ window' = None
  /\ UNCHANGED <<kind, opened, known, timer, armed, foreign, stored, overlapped,
                 bindingVars>>

\* The device opens one window at a time.
OpenWindow(c) ==
  /\ call[c].at = "open"
  /\ IF window = None
     THEN /\ opened < MaxWindows
          /\ opened' = opened + 1 /\ window' = opened + 1
          /\ Goto(c, [at |-> "opened", window |-> opened + 1])
     ELSE Return(c) /\ UNCHANGED <<window, opened>>
  /\ UNCHANGED <<kind, known, timer, armed, foreign, stored, overlapped, bindingVars>>

\* call_later takes the place of the previous handle, which is not cancelled.
WindowStore(c) ==
  /\ call[c].at = "opened"
  /\ LET w == call[c].window
     IN  /\ known' = w /\ timer' = w
         /\ armed' = armed \cup {w} /\ stored' = stored \cup {w}
  /\ Return(c)
  /\ UNCHANGED <<kind, window, opened, foreign, overlapped, bindingVars>>

\* The device began to count before the server did, so its window has closed
\* when the timer fires.  Any timer drops what is known, whatever it was set for.
WindowTimer ==
  /\ \E w \in armed \ {window} : armed' = armed \ {w}
  /\ known' = None
  /\ UNCHANGED <<kind, window, opened, timer, foreign, stored, overlapped, bindingVars, call>>

\* The device was paired, or its time is over.
WindowCloses ==
  /\ window # None
  /\ window' = None
  /\ UNCHANGED <<kind, opened, known, timer, armed, foreign, stored, overlapped,
                 bindingVars, call>>

ForeignOpens ==
  /\ kind = "window"
  /\ window = None /\ opened < MaxWindows
  /\ opened' = opened + 1 /\ window' = opened + 1
  /\ foreign' = foreign \cup {opened + 1}
  /\ UNCHANGED <<kind, known, timer, armed, stored, overlapped, bindingVars, call>>

-----------------------------------------------------------------------------
(***************************************************************************)
(* set_node_binding, binding_add, binding_remove                           *)
(***************************************************************************)
SetBinding(c) ==
  /\ kind = "binding"
  /\ call[c].at = "idle"
  /\ \E list \in SUBSET Targets :
       Goto(c, [at |-> "write", read |-> bindings, list |-> list, whole |-> TRUE])
  /\ UNCHANGED <<kind, windowVars, bindingVars>>

BindingBegin(c) ==
  /\ kind = "binding"
  /\ call[c].at = "idle"
  /\ \E t \in Targets, op \in {"add", "remove"} :
       Goto(c, [at |-> "read", target |-> t, op |-> op])
  /\ UNCHANGED <<kind, windowVars, bindingVars>>

\* Mutant: a removal compares the node of a binding alone.
ChangedOfNode(list, op, t) ==
  IF op = "add" THEN list \cup {t} ELSE {b \in list : NodeOf(b) # NodeOf(t)}

Changed(list, op, t) == IF op = "add" THEN list \cup {t} ELSE list \ {t}

\* The list is read; nothing is written when there is nothing to change.
BindingRead(c) ==
  /\ call[c].at = "read"
  /\ LET list == Changed(bindings, call[c].op, call[c].target)
     IN  IF list = bindings THEN Return(c)
         ELSE Goto(c, [at |-> "write", read |-> bindings, list |-> list,
                       whole |-> FALSE, target |-> call[c].target, op |-> call[c].op])
  /\ UNCHANGED <<kind, windowVars, bindingVars>>

\* A list that does not fit is refused with a status in the result.
BindingWrite(c) ==
  /\ call[c].at = "write"
  /\ LET w == call[c]
     IN  IF Cardinality(w.list) <= MaxBindings
         THEN /\ bindings' = w.list
              /\ asked' = IF w.whole THEN w.list
                          ELSE IF w.op = "add" THEN asked \cup {w.target}
                               ELSE asked \ {w.target}
              /\ tangled' = IF w.whole THEN FALSE ELSE tangled \/ w.read # bindings
         ELSE UNCHANGED bindingVars
  /\ Return(c)
  /\ UNCHANGED <<kind, windowVars>>

-----------------------------------------------------------------------------
\* An exchange that fails raises; its effect on the device, if it had one, is
\* that of the same exchange followed by this step.
CallFails(c) ==
  /\ call[c].at # "idle"
  /\ Return(c)
  /\ UNCHANGED <<kind, windowVars, bindingVars>>

\* Nothing of this is stored; the device goes on.
Restart ==
  /\ known' = None /\ timer' = None /\ armed' = {}
  /\ stored' = {} /\ overlapped' = FALSE
  /\ call' = [c \in Calls |-> Idle]
  /\ UNCHANGED <<kind, window, opened, foreign, bindingVars>>

Next ==
  \/ \E c \in Calls :
       \/ WindowBegin(c) \/ WindowStatus(c) \/ WindowDecide(c) \/ Revoke(c)
       \/ OpenWindow(c) \/ WindowStore(c)
       \/ SetBinding(c) \/ BindingBegin(c) \/ BindingRead(c) \/ BindingWrite(c)
       \/ CallFails(c)
  \/ WindowTimer \/ WindowCloses \/ ForeignOpens \/ Restart

Spec == Init /\ [][Next]_vars

-----------------------------------------------------------------------------
(***************************************************************************)
(* Properties.                                                             *)
(***************************************************************************)
TypeOK ==
  /\ {window, known, timer, opened} \subseteq Windows \cup {None}
  /\ armed \subseteq Windows /\ foreign \subseteq Windows /\ stored \subseteq Windows
  /\ bindings \subseteq Targets /\ asked \subseteq Targets
  /\ {overlapped, tangled} \subseteq BOOLEAN

\* The parameters open_commissioning_window would hand out again are those of
\* the window that is open, and they are kept as long as it is, however often
\* windows were opened, closed early or timed out before.  Two commands that
\* overlap, and a window opened by another administrator while parameters of an
\* earlier one are still kept, are what breaks this.
ParamsOfOpenWindow ==
  window # None /\ window \notin foreign /\ ~overlapped =>
    known = IF window \in stored THEN window ELSE None

\* The binding list is what the commands, one after the other, come to: none
\* changes another's binding, unless it wrote a list that had changed since it
\* read it (and then until the whole list is set).
BindingsAsAsked == ~tangled => bindings = asked

=============================================================================
