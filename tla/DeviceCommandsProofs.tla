------------------------ MODULE DeviceCommandsProofs ------------------------
(***************************************************************************)
(* Proofs about DeviceCommands, for any number of commands, windows and    *)
(* binding targets: the parameters kept are those of the open window, and  *)
(* the binding list is what the commands one by one come to.  Then proofs  *)
(* about ControllerKvs: the SDK finds the keys the server injects.         *)
(***************************************************************************)
EXTENDS DeviceCommands, ControllerKvs, FiniteSetTheorems,
        WellFoundedInduction, TLAPS

CallIsFunction == call = [c \in Calls |-> call[c]]

\* A step of one command leaves the others where they are.
LEMMA GotoMovesOne ==
  ASSUME CallIsFunction, NEW c \in Calls, NEW step, Goto(c, step)
  PROVE  /\ CallIsFunction'
         /\ call'[c] = step
         /\ \A d \in Calls \ {c} : call'[d] = call[d]
BY DEF CallIsFunction, Goto

-----------------------------------------------------------------------------
(* Bindings.  What a command is about to write is its change of what it    *)
(* read.                                                                   *)

WritesItsChange(c) ==
  call[c].at = "write" /\ ~call[c].whole =>
    call[c].list = Changed(call[c].read, call[c].op, call[c].target)

BindingInv ==
  /\ CallIsFunction
  /\ BindingsAsAsked
  /\ \A c \in Calls : WritesItsChange(c)

LEMMA BindingStep ==
  ASSUME BindingInv, [Next]_vars PROVE BindingInv'
<1> USE DEF BindingInv
<1>1. ASSUME NEW c \in Calls, NEW step, Goto(c, step), step.at # "write",
             UNCHANGED bindingVars
      PROVE  BindingInv'
  <2>1. CallIsFunction' /\ call'[c] = step /\ \A d \in Calls \ {c} : call'[d] = call[d]
    BY <1>1, GotoMovesOne
  <2>2. BindingsAsAsked'
    BY <1>1 DEF BindingsAsAsked, bindingVars
  <2>3. QED
    BY <1>1, <2>1, <2>2 DEF WritesItsChange
<1>2. ASSUME UNCHANGED bindingVars, UNCHANGED call PROVE BindingInv'
  BY <1>2 DEF BindingsAsAsked, WritesItsChange, bindingVars, CallIsFunction
<1>3. ASSUME NEW c \in Calls,
             WindowBegin(c) \/ WindowStatus(c) \/ WindowDecide(c) \/ Revoke(c)
               \/ OpenWindow(c) \/ WindowStore(c) \/ CallFails(c)
      PROVE  BindingInv'
  <2>1. PICK step : Goto(c, step) /\ step.at # "write"
    BY <1>3 DEF WindowBegin, WindowStatus, WindowDecide, Revoke, OpenWindow,
                WindowStore, CallFails, Return, Idle
  <2>2. UNCHANGED bindingVars
    BY <1>3 DEF WindowBegin, WindowStatus, WindowDecide, Revoke, OpenWindow,
                WindowStore, CallFails
  <2>3. QED
    BY <1>1, <2>1, <2>2
<1>4. ASSUME NEW c \in Calls, SetBinding(c) PROVE BindingInv'
  <2>1. PICK list : Goto(c, [at |-> "write", read |-> bindings, list |-> list,
                             whole |-> TRUE])
    BY <1>4 DEF SetBinding
  <2>2. CallIsFunction' /\ call'[c].whole /\ \A d \in Calls \ {c} : call'[d] = call[d]
    BY <2>1, GotoMovesOne
  <2>3. UNCHANGED bindingVars
    BY <1>4 DEF SetBinding
  <2>4. QED
    BY <2>2, <2>3 DEF BindingsAsAsked, WritesItsChange, bindingVars
<1>5. ASSUME NEW c \in Calls, BindingBegin(c) PROVE BindingInv'
  BY <1>1, <1>5 DEF BindingBegin
<1>6. ASSUME NEW c \in Calls, BindingRead(c) PROVE BindingInv'
  <2> DEFINE list == Changed(bindings, call[c].op, call[c].target)
             step == [at |-> "write", read |-> bindings, list |-> list,
                      whole |-> FALSE, target |-> call[c].target, op |-> call[c].op]
  <2>1. UNCHANGED bindingVars
    BY <1>6 DEF BindingRead
  <2>2. CASE Return(c)
    BY <1>1, <2>1, <2>2 DEF Return, Idle
  <2>3. CASE Goto(c, step)
    <3>1. CallIsFunction' /\ call'[c] = step /\ \A d \in Calls \ {c} : call'[d] = call[d]
      BY <2>3, GotoMovesOne
    <3>2. QED
      BY <2>1, <3>1 DEF BindingsAsAsked, WritesItsChange, bindingVars
  <2>4. QED
    BY <1>6, <2>2, <2>3 DEF BindingRead
<1>7. ASSUME NEW c \in Calls, BindingWrite(c) PROVE BindingInv'
  <2>1. CallIsFunction' /\ call'[c] = Idle /\ \A d \in Calls \ {c} : call'[d] = call[d]
    BY <1>7, GotoMovesOne DEF BindingWrite, Return
  <2>2. \A d \in Calls : WritesItsChange(d)'
    BY <2>1 DEF WritesItsChange, Idle
  <2>3. BindingsAsAsked'
    <3> SUFFICES ASSUME ~tangled' PROVE bindings' = asked'
      BY DEF BindingsAsAsked
    <3>1. CASE Cardinality(call[c].list) <= MaxBindings /\ call[c].whole
      BY <1>7, <3>1 DEF BindingWrite
    <3>2. CASE Cardinality(call[c].list) <= MaxBindings /\ ~call[c].whole
      <4>1. bindings' = call[c].list
        BY <1>7, <3>2 DEF BindingWrite
      <4>2. ~tangled /\ call[c].read = bindings
        BY <1>7, <3>2 DEF BindingWrite
      <4>3. call[c].list = Changed(asked, call[c].op, call[c].target)
        BY <1>7, <3>2, <4>2 DEF BindingWrite, BindingsAsAsked, WritesItsChange
      <4>4. asked' = Changed(asked, call[c].op, call[c].target)
        BY <1>7, <3>2 DEF BindingWrite, Changed
      <4>5. QED
        BY <4>1, <4>3, <4>4
    <3>3. CASE ~(Cardinality(call[c].list) <= MaxBindings)
      BY <1>7, <3>3 DEF BindingWrite, BindingsAsAsked, bindingVars
    <3>4. QED
      BY <3>1, <3>2, <3>3
  <2>4. QED
    BY <2>1, <2>2, <2>3
<1>8. ASSUME Restart PROVE BindingInv'
  BY <1>8 DEF Restart, BindingsAsAsked, WritesItsChange, bindingVars, CallIsFunction, Idle
<1>9. ASSUME WindowTimer \/ WindowCloses \/ ForeignOpens \/ UNCHANGED vars
      PROVE  BindingInv'
  BY <1>2, <1>9 DEF WindowTimer, WindowCloses, ForeignOpens, vars
<1>10. QED
  BY <1>3, <1>4, <1>5, <1>6, <1>7, <1>8, <1>9 DEF Next

\* No binding command undoes another's change unless it wrote a list that had
\* changed since it read it.
THEOREM BindingsComeOutAsAsked == Spec => []BindingsAsAsked
<1>1. Init => BindingInv
  BY DEF Init, BindingInv, BindingsAsAsked, WritesItsChange, CallIsFunction, Idle
<1>2. BindingInv => BindingsAsAsked
  BY DEF BindingInv
<1>3. QED
  BY <1>1, <1>2, BindingStep, PTL DEF Spec

-----------------------------------------------------------------------------
(* Commissioning windows.  The parameters that are kept have one timer, the  *)
(* one that is armed; and a command that was told that no window is open, or *)
(* has closed it, leads to a window of its own unless another administrator  *)
(* was faster.  All of it as long as window commands do not overlap.         *)

Counted ==
  /\ opened \in Nat
  /\ window \in 0 .. opened
  /\ stored \subseteq 1 .. opened /\ foreign \subseteq 1 .. opened
  /\ stored \cap foreign = {}

OneAtATime == \A c, d \in Calls : InWindow(c) /\ InWindow(d) => c = d

TimerOfKnown ==
  /\ armed = IF known = None THEN {} ELSE {known}
  /\ known # None => timer = known /\ known \in stored

Ours == window # None /\ window \notin foreign

KnownOfOurs == Ours => known = IF window \in stored THEN window ELSE None

HoldsItsOwn(c) ==
  call[c].at = "opened" => call[c].window \in (1 .. opened) \ foreign

LeadsToWindow(c) ==
  /\ call[c].at = "answered" /\ ~call[c].open => ~Ours
  /\ call[c].at = "revoke" => known = None
  /\ call[c].at = "open" => ~Ours /\ known = None
  /\ call[c].at = "opened" =>
       /\ known = None
       /\ call[c].window \notin stored
       /\ Ours => window = call[c].window

Undisturbed ==
  /\ OneAtATime
  /\ TimerOfKnown
  /\ KnownOfOurs
  /\ \A c \in Calls : LeadsToWindow(c)

WindowInv ==
  /\ CallIsFunction
  /\ Counted
  /\ \A c \in Calls : HoldsItsOwn(c)
  /\ ~overlapped => Undisturbed

\* A command of the other kind, or one that ends, disturbs no window.
LEMMA OtherCommandStep ==
  ASSUME WindowInv, UNCHANGED windowVars,
         NEW c \in Calls, NEW step, Goto(c, step), ~InWindow(c)',
         step.at \notin {"answered", "revoke", "open", "opened"}
  PROVE  WindowInv'
<1>1. CallIsFunction' /\ call'[c] = step /\ \A d \in Calls \ {c} : call'[d] = call[d]
  BY GotoMovesOne DEF WindowInv
<1>2. Counted'
  BY DEF WindowInv, Counted, windowVars
<1>3. ASSUME ~overlapped' PROVE Undisturbed'
  <2>1. Undisturbed
    BY <1>3 DEF WindowInv, windowVars
  <2>2. OneAtATime'
    BY <1>1, <2>1 DEF Undisturbed, OneAtATime, InWindow
  <2>3. TimerOfKnown' /\ KnownOfOurs'
    BY <2>1 DEF Undisturbed, TimerOfKnown, KnownOfOurs, Ours, windowVars
  <2>4. \A d \in Calls : LeadsToWindow(d)'
    BY <1>1, <2>1 DEF Undisturbed, LeadsToWindow, Ours, windowVars
  <2>5. QED
    BY <2>2, <2>3, <2>4 DEF Undisturbed
<1>4. \A d \in Calls : HoldsItsOwn(d)'
  BY <1>1 DEF WindowInv, HoldsItsOwn, windowVars
<1>5. QED
  BY <1>1, <1>2, <1>3, <1>4 DEF WindowInv

\* A command at work on a window goes on, and the others are not.
LEMMA WindowCommandStep ==
  ASSUME WindowInv, NEW c \in Calls, NEW step, InWindow(c), Goto(c, step),
         overlapped' = overlapped,
         Counted', HoldsItsOwn(c)',
         opened' \in {opened, opened + 1}, foreign' = foreign,
         ~overlapped => TimerOfKnown' /\ KnownOfOurs' /\ LeadsToWindow(c)'
  PROVE  WindowInv'
<1>1. CallIsFunction' /\ call'[c] = step /\ \A d \in Calls \ {c} : call'[d] = call[d]
  BY GotoMovesOne DEF WindowInv
<1>2. ASSUME ~overlapped PROVE Undisturbed'
  <2>1. \A d \in Calls \ {c} : ~InWindow(d)
    BY <1>2 DEF WindowInv, Undisturbed, OneAtATime
  <2>2. \A d \in Calls \ {c} : ~InWindow(d)'
    BY <1>1, <2>1 DEF InWindow
  <2>3. OneAtATime'
    BY <2>2 DEF OneAtATime
  <2>4. \A d \in Calls \ {c} : LeadsToWindow(d)'
    BY <2>2 DEF LeadsToWindow, InWindow
  <2>5. QED
    BY <1>2, <2>3, <2>4 DEF Undisturbed
<1>3. \A d \in Calls \ {c} : HoldsItsOwn(d)'
  BY <1>1 DEF WindowInv, HoldsItsOwn, Counted
<1>4. QED
  BY <1>1, <1>2, <1>3 DEF WindowInv

LEMMA WindowCommands ==
  ASSUME WindowInv, NEW c \in Calls,
         WindowStatus(c) \/ WindowDecide(c) \/ Revoke(c) \/ OpenWindow(c) \/ WindowStore(c)
  PROVE  WindowInv'
<1> DEFINE Now == ~overlapped => TimerOfKnown /\ KnownOfOurs /\ LeadsToWindow(c)
           Moved(step) == call'[c] = step
<1>1. Now
  BY DEF WindowInv, Undisturbed
<1>2. Counted /\ CallIsFunction /\ HoldsItsOwn(c)
  BY DEF WindowInv
<1>3. CASE WindowStatus(c)
  <2> DEFINE step == [at |-> "answered", open |-> window # None]
  <2>1. InWindow(c) /\ Goto(c, step) /\ UNCHANGED windowVars
    BY <1>3 DEF WindowStatus, InWindow
  <2>2. Moved(step)
    BY <1>2, <2>1, GotoMovesOne
  <2>3. Counted' /\ HoldsItsOwn(c)'
    BY <1>2, <2>1, <2>2 DEF Counted, HoldsItsOwn, windowVars
  <2>4. ASSUME ~overlapped PROVE TimerOfKnown' /\ KnownOfOurs' /\ LeadsToWindow(c)'
    <3>1. TimerOfKnown' /\ KnownOfOurs'
      BY <1>1, <2>1, <2>4 DEF TimerOfKnown, KnownOfOurs, Ours, windowVars
    <3>2. CASE window = None
      <4>1. call'[c] = [at |-> "answered", open |-> FALSE] /\ window' = None
        BY <2>1, <2>2, <3>2 DEF windowVars
      <4>2. QED
        BY <3>1, <4>1 DEF LeadsToWindow, Ours
    <3>3. CASE window # None
      <4>1. call'[c] = [at |-> "answered", open |-> TRUE]
        BY <2>2, <3>3
      <4>2. QED
        BY <3>1, <4>1 DEF LeadsToWindow
    <3>4. QED
      BY <3>2, <3>3
  <2>5. UNCHANGED <<overlapped, opened, foreign>>
    BY <2>1 DEF windowVars
  <2>6. QED
    BY <2>1, <2>3, <2>4, <2>5, WindowCommandStep
<1>4. ASSUME WindowDecide(c), ~call[c].open PROVE WindowInv'
  <2> DEFINE step == [at |-> "open"]
  <2>1. /\ InWindow(c) /\ Goto(c, step)
        /\ armed' = armed \ {timer} /\ known' = None
        /\ UNCHANGED <<window, opened, timer, foreign, stored, overlapped>>
    BY <1>4 DEF WindowDecide, InWindow
  <2>2. Moved(step)
    BY <1>2, <2>1, GotoMovesOne
  <2>3. Counted' /\ HoldsItsOwn(c)'
    BY <1>2, <2>1, <2>2 DEF Counted, HoldsItsOwn, Idle
  <2>4. ASSUME ~overlapped PROVE TimerOfKnown' /\ KnownOfOurs' /\ LeadsToWindow(c)'
    <3>1. ~Ours /\ ~Ours'
      BY <1>1, <1>4, <2>1, <2>4 DEF WindowDecide, LeadsToWindow, Ours
    <3>2. armed' = {}
      BY <1>1, <2>1, <2>4 DEF TimerOfKnown
    <3>3. QED
      BY <2>1, <2>2, <3>1, <3>2 DEF TimerOfKnown, KnownOfOurs, LeadsToWindow
  <2>5. QED
    BY <2>1, <2>3, <2>4, WindowCommandStep
<1>5. ASSUME WindowDecide(c), call[c].open PROVE WindowInv'
  <2> DEFINE step == IF known # None THEN Idle ELSE [at |-> "revoke"]
  <2>1. /\ InWindow(c) /\ Goto(c, step)
        /\ UNCHANGED <<window, opened, known, timer, armed, foreign, stored, overlapped>>
    BY <1>5 DEF WindowDecide, InWindow, Return
  <2>2. Moved(step)
    BY <1>2, <2>1, GotoMovesOne
  <2>3. Counted' /\ HoldsItsOwn(c)'
    BY <1>2, <2>1, <2>2 DEF Counted, HoldsItsOwn, Idle
  <2>4. ~overlapped => TimerOfKnown' /\ KnownOfOurs' /\ LeadsToWindow(c)'
    BY <1>1, <2>1, <2>2 DEF TimerOfKnown, KnownOfOurs, LeadsToWindow, Ours, Idle
  <2>5. QED
    BY <2>1, <2>3, <2>4, WindowCommandStep
<1>6. CASE Revoke(c)
  <2> DEFINE step == IF window # None THEN [at |-> "open"] ELSE Idle
  <2>1. /\ InWindow(c) /\ Goto(c, step)
        /\ window' = None
        /\ UNCHANGED <<opened, known, timer, armed, foreign, stored, overlapped>>
    BY <1>6 DEF Revoke, InWindow, Return
  <2>2. Moved(step)
    BY <1>2, <2>1, GotoMovesOne
  <2>3. Counted' /\ HoldsItsOwn(c)'
    BY <1>2, <2>1, <2>2 DEF Counted, HoldsItsOwn, None, Idle
  <2>4. ~overlapped => TimerOfKnown' /\ KnownOfOurs' /\ LeadsToWindow(c)'
    BY <1>1, <1>6, <2>1, <2>2
       DEF Revoke, TimerOfKnown, KnownOfOurs, LeadsToWindow, Ours, Idle
  <2>5. QED
    BY <2>1, <2>3, <2>4, WindowCommandStep
<1>7. ASSUME OpenWindow(c), window = None PROVE WindowInv'
  <2> DEFINE step == [at |-> "opened", window |-> opened + 1]
  <2>1. /\ InWindow(c) /\ Goto(c, step)
        /\ opened' = opened + 1 /\ window' = opened + 1
        /\ UNCHANGED <<known, timer, armed, foreign, stored, overlapped>>
    BY <1>7 DEF OpenWindow, InWindow
  <2>2. Moved(step)
    BY <1>2, <2>1, GotoMovesOne
  <2>3. Counted' /\ HoldsItsOwn(c)'
    BY <1>2, <2>1, <2>2 DEF Counted, HoldsItsOwn, Idle
  <2>4. opened + 1 \notin stored \cup foreign /\ opened' \in Nat
    BY <1>2, <2>1 DEF Counted
  <2>5. ~overlapped => TimerOfKnown' /\ KnownOfOurs' /\ LeadsToWindow(c)'
    BY <1>1, <1>7, <2>1, <2>2, <2>4
       DEF OpenWindow, TimerOfKnown, KnownOfOurs, LeadsToWindow, Ours
  <2>6. QED
    BY <2>1, <2>3, <2>5, WindowCommandStep
<1>8. ASSUME OpenWindow(c), window # None PROVE WindowInv'
  <2>1. /\ Goto(c, Idle) /\ UNCHANGED windowVars
    BY <1>8 DEF OpenWindow, Return, windowVars
  <2>2. ~InWindow(c)'
    BY <1>2, <2>1, GotoMovesOne DEF InWindow, Idle
  <2>3. QED
    BY <2>1, <2>2, OtherCommandStep DEF Idle
<1>9. CASE WindowStore(c)
  <2> DEFINE w == call[c].window
  <2>1. /\ InWindow(c) /\ Goto(c, Idle)
        /\ known' = w /\ timer' = w
        /\ armed' = armed \cup {w} /\ stored' = stored \cup {w}
        /\ UNCHANGED <<window, opened, foreign, overlapped>>
    BY <1>9 DEF WindowStore, InWindow, Return
  <2>2. Moved(Idle)
    BY <1>2, <2>1, GotoMovesOne
  <2>3. w \in (1 .. opened) \ foreign
    BY <1>2, <1>9 DEF WindowStore, HoldsItsOwn
  <2>4. Counted'
    BY <1>2, <2>1, <2>3 DEF Counted
  <2>5. HoldsItsOwn(c)' /\ w # None
    BY <1>2, <2>2, <2>3 DEF Counted, HoldsItsOwn, Idle, None
  <2>6. ASSUME ~overlapped PROVE TimerOfKnown' /\ KnownOfOurs' /\ LeadsToWindow(c)'
    <3>1. known = None /\ armed = {} /\ (Ours => window = w)
      BY <1>1, <1>9, <2>6 DEF WindowStore, LeadsToWindow, TimerOfKnown
    <3>2. QED
      BY <2>1, <2>2, <2>5, <3>1 DEF TimerOfKnown, KnownOfOurs, LeadsToWindow, Ours, Idle
  <2>7. QED
    BY <2>1, <2>4, <2>5, <2>6, WindowCommandStep
<1>10. QED
  BY <1>3, <1>4, <1>5, <1>6, <1>7, <1>8, <1>9

LEMMA WindowStep ==
  ASSUME WindowInv, [Next]_vars PROVE WindowInv'
<1>1. ASSUME NEW c \in Calls, WindowBegin(c) PROVE WindowInv'
  <2> DEFINE step == [at |-> "status"]
  <2>1. /\ Goto(c, step) /\ call[c].at = "idle"
        /\ UNCHANGED <<window, opened, known, timer, armed, foreign, stored>>
        /\ ~overlapped' => ~overlapped /\ \A d \in Calls : ~InWindow(d)
    BY <1>1 DEF WindowBegin
  <2>2. CallIsFunction' /\ call'[c] = step /\ \A d \in Calls \ {c} : call'[d] = call[d]
    BY <2>1, GotoMovesOne DEF WindowInv
  <2>3. Counted' /\ \A d \in Calls : HoldsItsOwn(d)'
    BY <2>1, <2>2 DEF WindowInv, Counted, HoldsItsOwn
  <2>4. ASSUME ~overlapped' PROVE Undisturbed'
    <3>1. Undisturbed /\ \A d \in Calls : ~InWindow(d)
      BY <2>1, <2>4 DEF WindowInv
    <3>2. \A d \in Calls \ {c} : ~InWindow(d)'
      BY <2>2, <3>1 DEF InWindow
    <3>3. OneAtATime' /\ \A d \in Calls : LeadsToWindow(d)'
      BY <2>2, <3>2 DEF OneAtATime, LeadsToWindow, InWindow
    <3>4. TimerOfKnown' /\ KnownOfOurs'
      BY <2>1, <3>1 DEF Undisturbed, TimerOfKnown, KnownOfOurs, Ours
    <3>5. QED
      BY <3>3, <3>4 DEF Undisturbed
  <2>5. QED
    BY <2>2, <2>3, <2>4 DEF WindowInv
<1>2. ASSUME NEW c \in Calls,
             WindowStatus(c) \/ WindowDecide(c) \/ Revoke(c) \/ OpenWindow(c)
               \/ WindowStore(c)
      PROVE  WindowInv'
  BY <1>2, WindowCommands
<1>3. ASSUME NEW c \in Calls,
             SetBinding(c) \/ BindingBegin(c) \/ BindingRead(c) \/ BindingWrite(c)
               \/ CallFails(c)
      PROVE  WindowInv'
  <2> DEFINE Elsewhere(step) ==
               step.at \notin {"status", "answered", "revoke", "open", "opened"}
  <2>1. PICK step : Goto(c, step) /\ Elsewhere(step)
    <3>1. CASE SetBinding(c)
      <4>1. PICK list : Goto(c, [at |-> "write", read |-> bindings, list |-> list,
                                 whole |-> TRUE])
        BY <3>1 DEF SetBinding
      <4>2. QED
        BY <4>1
    <3>2. CASE BindingBegin(c)
      <4>1. PICK t, op : Goto(c, [at |-> "read", target |-> t, op |-> op])
        BY <3>2 DEF BindingBegin
      <4>2. QED
        BY <4>1
    <3>3. CASE BindingRead(c)
      <4> DEFINE list  == Changed(bindings, call[c].op, call[c].target)
                 write == [at |-> "write", read |-> bindings, list |-> list,
                           whole |-> FALSE, target |-> call[c].target,
                           op |-> call[c].op]
      <4>1. Goto(c, Idle) \/ Goto(c, write)
        BY <3>3 DEF BindingRead, Return
      <4>2. Elsewhere(Idle) /\ Elsewhere(write)
        BY DEF Idle
      <4>3. QED
        BY <4>1, <4>2
    <3>4. CASE BindingWrite(c) \/ CallFails(c)
      <4>1. Goto(c, Idle)
        BY <3>4 DEF BindingWrite, CallFails, Return
      <4>2. Elsewhere(Idle)
        BY DEF Idle
      <4>3. QED
        BY <4>1, <4>2
    <3>5. QED
      BY <1>3, <3>1, <3>2, <3>3, <3>4
  <2>2. UNCHANGED windowVars
    BY <1>3 DEF SetBinding, BindingBegin, BindingRead, BindingWrite, CallFails
  <2>3. ~InWindow(c)'
    BY <2>1, GotoMovesOne DEF WindowInv, InWindow
  <2>4. QED
    BY <2>1, <2>2, <2>3, OtherCommandStep
<1>4. CASE WindowTimer
  <2>1. PICK w \in armed \ {window} : armed' = armed \ {w}
    BY <1>4 DEF WindowTimer
  <2>2. known' = None /\ UNCHANGED <<window, opened, timer, foreign, stored, overlapped, call>>
    BY <1>4 DEF WindowTimer
  <2>3. CallIsFunction' /\ Counted' /\ \A d \in Calls : HoldsItsOwn(d)'
    BY <2>2 DEF WindowInv, CallIsFunction, Counted, HoldsItsOwn
  <2>4. ASSUME ~overlapped PROVE Undisturbed'
    <3>1. Undisturbed /\ known = w /\ armed' = {}
      BY <2>1, <2>4 DEF WindowInv, Undisturbed, TimerOfKnown
    <3>2. OneAtATime' /\ \A d \in Calls : LeadsToWindow(d)'
      BY <2>2, <3>1 DEF Undisturbed, OneAtATime, InWindow, LeadsToWindow, Ours
    <3>3. TimerOfKnown' /\ KnownOfOurs'
      BY <2>1, <2>2, <3>1 DEF Undisturbed, TimerOfKnown, KnownOfOurs, Ours
    <3>4. QED
      BY <3>2, <3>3 DEF Undisturbed
  <2>5. QED
    BY <2>2, <2>3, <2>4 DEF WindowInv
<1>5. CASE WindowCloses
  <2>1. window' = None
        /\ UNCHANGED <<opened, known, timer, armed, foreign, stored, overlapped, call>>
    BY <1>5 DEF WindowCloses
  <2>2. CallIsFunction' /\ Counted' /\ \A d \in Calls : HoldsItsOwn(d)'
    BY <2>1 DEF WindowInv, CallIsFunction, Counted, HoldsItsOwn, None
  <2>3. Undisturbed => Undisturbed'
    BY <2>1 DEF Undisturbed, OneAtATime, InWindow, TimerOfKnown, KnownOfOurs,
                LeadsToWindow, Ours
  <2>4. QED
    BY <2>1, <2>2, <2>3 DEF WindowInv
<1>6. CASE ForeignOpens
  <2>1. /\ opened' = opened + 1 /\ window' = opened + 1
        /\ foreign' = foreign \cup {opened + 1}
        /\ UNCHANGED <<known, timer, armed, stored, overlapped, call>>
    BY <1>6 DEF ForeignOpens
  <2>2. CallIsFunction' /\ Counted'
    BY <2>1 DEF WindowInv, CallIsFunction, Counted
  <2>3. \A d \in Calls : HoldsItsOwn(d)'
    BY <2>1 DEF WindowInv, Counted, HoldsItsOwn
  <2>4. Undisturbed => Undisturbed'
    BY <2>1 DEF Undisturbed, OneAtATime, InWindow, TimerOfKnown, KnownOfOurs,
                LeadsToWindow, Ours
  <2>5. QED
    BY <2>1, <2>2, <2>3, <2>4 DEF WindowInv
<1>7. CASE Restart
  <2>1. /\ known' = None /\ armed' = {} /\ stored' = {}
        /\ call' = [c \in Calls |-> Idle]
        /\ UNCHANGED <<window, opened, foreign>>
    BY <1>7 DEF Restart
  <2>2. Counted'
    BY <2>1 DEF WindowInv, Counted
  <2>3. CallIsFunction' /\ \A d \in Calls : HoldsItsOwn(d)' /\ ~InWindow(d)'
    BY <2>1 DEF CallIsFunction, HoldsItsOwn, InWindow, Idle
  <2>4. OneAtATime' /\ \A d \in Calls : LeadsToWindow(d)'
    BY <2>3 DEF OneAtATime, LeadsToWindow, InWindow
  <2>5. TimerOfKnown' /\ KnownOfOurs'
    BY <2>1 DEF TimerOfKnown, KnownOfOurs
  <2>6. QED
    BY <2>2, <2>3, <2>4, <2>5 DEF WindowInv, Undisturbed
<1>8. CASE UNCHANGED vars
  BY <1>8 DEF vars, windowVars, WindowInv, CallIsFunction, Counted, HoldsItsOwn, Undisturbed,
              OneAtATime, InWindow, TimerOfKnown, KnownOfOurs, LeadsToWindow, Ours
<1>9. QED
  BY <1>1, <1>2, <1>3, <1>4, <1>5, <1>6, <1>7, <1>8 DEF Next

\* The parameters that would be handed out again are those of the open window,
\* and are kept while it is open, unless window commands overlapped or another
\* administrator opened it.
THEOREM KeptParametersAreOfOpenWindow == Spec => []ParamsOfOpenWindow
<1>1. Init => WindowInv
  BY DEF Init, WindowInv, CallIsFunction, Counted, HoldsItsOwn, Undisturbed, OneAtATime,
         InWindow, TimerOfKnown, KnownOfOurs, LeadsToWindow, Ours, Idle, None
<1>2. WindowInv => ParamsOfOpenWindow
  BY DEF WindowInv, Undisturbed, KnownOfOurs, Ours, ParamsOfOpenWindow
<1>3. QED
  BY <1>1, <1>2, WindowStep, PTL DEF Spec
-----------------------------------------------------------------------------
(***************************************************************************)
(* ControllerKvs, for any number of groups, keysets and key map entries.   *)
(* What the SDK finds is where walks through two linked lists lead.        *)
(***************************************************************************)
\* The walk from "first" visits n entries, each once, and ends.
IsList(first, next, end, n) ==
  /\ Walk(first, next, end, n) = end
  /\ \A i \in 0..(n - 1) :
       /\ Walk(first, next, end, i) \in DOMAIN next
       /\ next[Walk(first, next, end, i)] = Walk(first, next, end, i + 1)
  /\ \A i, j \in 0..(n - 1) : Walk(first, next, end, i) = Walk(first, next, end, j) => i = j

NextKeyset == [k \in DOMAIN keysets |-> keysets[k].next]
NextMap == [m \in DOMAIN maps |-> maps[m].next]

\* The keysets are listed, each once and the IPK among them.
KeysetsListed ==
  ~relisted =>
    /\ IsList(fabric.firstKeyset, NextKeyset, EndOfKeysets, fabric.keysetCount)
    /\ \A i \in 0..(fabric.keysetCount - 1) : keysets[KeysetAt(i)].present
    /\ \E i \in 0..(fabric.keysetCount - 1) : KeysetAt(i) = Ipk

\* The key map entries in use are listed, each once.
MapsListed ==
  /\ IsList(fabric.firstMap, NextMap, EndOfMaps, fabric.mapCount)
  /\ \A i \in 0..(fabric.mapCount - 1) : maps[MapAt(i)] # NoEntry

\* The first entry of a group names the keyset the server stores for it, which
\* holds the stored key unless it was given another one.
FirstEntryCurrent ==
  \A g \in Groups, i \in 0..(fabric.mapCount - 1) :
    keyStore[g] # NoKeyset /\ i \in EntriesFor(g) /\ (\A j \in EntriesFor(g) : i <= j) =>
      /\ maps[MapAt(i)].kid = keyStore[g].kid
      /\ keyStore[g].kid \notin replaced => keysets[keyStore[g].kid].key = keyStore[g].key

\* Every set of naturals that is not empty has a least element.
LEMMA LessThanRel ==
  \A x, y \in Nat : x < y => <<x, y>> \in OpToRel(<, Nat)
<1>1. OpToRel(<, Nat) = {z \in Nat \X Nat : z[1] < z[2]}
  BY Zenon DEF OpToRel
<1>2. QED
  BY <1>1

LEMMA LeastNatural ==
  ASSUME NEW S \in SUBSET Nat, S # {}
  PROVE  \E n \in S : \A k \in S : n <= k
<1>1. PICK x \in S : \A y \in S : ~ (<<y, x>> \in OpToRel(<, Nat))
  BY WFMin, NatLessThanWellFounded
<1>2. \A y \in S : ~ (y < x)
  BY <1>1, LessThanRel, Zenon
<1>3. QED
  BY <1>2

\* w[0], ..., w[n] follow one another in the table.
Follow(w, n, next) ==
  \A k \in 0..(n - 1) : w[k] \in DOMAIN next /\ next[w[k]] = w[k + 1]

\* A walk goes where its equation says: the least step at which it would not is
\* one behind a step at which it does.
LEMMA WalkOfList ==
  ASSUME NEW n \in Nat, NEW i \in 0..n, NEW w, NEW next, NEW end, Follow(w, n, next)
  PROVE  Walk(w[0], next, end, i) = w[i]
<1> DEFINE Steps(f) == [k \in 0..i |->
             IF k = 0 THEN w[0]
             ELSE IF f[k - 1] \in DOMAIN next THEN next[f[k - 1]] ELSE end]
           v  == [k \in 0..i |-> w[k]]
           at == CHOOSE f : f = Steps(f)
<1>1. Walk(w[0], next, end, i) = at[i]
  BY Zenon DEF Walk
<1>2. v = Steps(v)
  <2>1. ASSUME NEW k \in 0..i, k # 0
        PROVE  w[k] = IF v[k - 1] \in DOMAIN next THEN next[v[k - 1]] ELSE end
    <3>1. k - 1 \in 0..i /\ k - 1 \in 0..(n - 1) /\ (k - 1) + 1 = k
      BY <2>1
    <3>2. v[k - 1] = w[k - 1]
      BY <3>1
    <3>3. w[k - 1] \in DOMAIN next /\ next[w[k - 1]] = w[k]
      BY <3>1 DEF Follow
    <3>4. QED
      BY <3>2, <3>3
  <2>2. \A k \in 0..i : v[k] = Steps(v)[k]
    BY <2>1
  <2>3. QED
    BY <2>2, Zenon
<1>3. at = Steps(at)
  BY <1>2, Zenon
<1> HIDE DEF at
<1>4. /\ at[0] = w[0]
      /\ \A k \in 0..i : k # 0 =>
           at[k] = IF at[k - 1] \in DOMAIN next THEN next[at[k - 1]] ELSE end
  <2> HIDE DEF Steps
  <2>1. \A k \in 0..i : at[k] = Steps(at)[k]
    BY <1>3
  <2> USE DEF Steps
  <2>2. QED
    BY <2>1
<1> DEFINE S == {k \in 0..i : at[k] # w[k]}
<1>5. SUFFICES ASSUME S # {} PROVE FALSE
  BY <1>1
<1>6. PICK k \in S : \A j \in S : k <= j
  <2>1. S \in SUBSET Nat
    OBVIOUS
  <2>2. QED
    BY <1>5, <2>1, LeastNatural
<1>7. k \in 0..i /\ k # 0 /\ at[k] # w[k]
  BY <1>4, <1>6
<1>8. k - 1 \in 0..i /\ k - 1 \in 0..(n - 1) /\ (k - 1) + 1 = k /\ k - 1 \notin S
  BY <1>6, <1>7
<1>9. at[k - 1] = w[k - 1]
  BY <1>8
<1>10. w[k - 1] \in DOMAIN next /\ next[w[k - 1]] = w[k]
  BY <1>8 DEF Follow
<1>11. QED
  BY <1>4, <1>7, <1>9, <1>10

LEMMA WalkAtStart ==
  ASSUME NEW first, NEW next, NEW end
  PROVE  Walk(first, next, end, 0) = first
<1> DEFINE w == [k \in {0} |-> first]
<1>1. Follow(w, 0, next)
  BY DEF Follow
<1>2. w[0] = first
  OBVIOUS
<1> HIDE DEF w
<1>3. Walk(w[0], next, end, 0) = w[0]
  <2>1. 0 \in Nat /\ 0 \in 0..0
    OBVIOUS
  <2>2. QED
    BY <1>1, <2>1, WalkOfList
<1>4. QED
  BY <1>2, <1>3

LEMMA EmptyList ==
  ASSUME NEW next, NEW end
  PROVE  IsList(end, next, end, 0)
BY WalkAtStart DEF IsList

\* An entry that is not in the list, put in front of it.
LEMMA ListPrepended ==
  ASSUME NEW n \in Nat, NEW first, NEW next, NEW end, NEW x, NEW next2,
         IsList(first, next, end, n),
         \A i \in 0..(n - 1) : Walk(first, next, end, i) # x,
         x \in DOMAIN next2, next2[x] = first, DOMAIN next \subseteq DOMAIN next2,
         \A y \in DOMAIN next : y # x => next2[y] = next[y]
  PROVE  /\ IsList(x, next2, end, n + 1)
         /\ \A i \in 0..n : Walk(x, next2, end, i + 1) = Walk(first, next, end, i)
<1> DEFINE old(i) == Walk(first, next, end, i)
           w == [i \in 0..(n + 1) |-> IF i = 0 THEN x ELSE old(i - 1)]
<1>0. /\ old(n) = end /\ old(0) = first
      /\ \A i \in 0..(n - 1) : old(i) \in DOMAIN next /\ next[old(i)] = old(i + 1)
      /\ \A i, j \in 0..(n - 1) : old(i) = old(j) => i = j
      /\ \A i \in 0..(n - 1) : old(i) # x
  BY WalkAtStart DEF IsList
<1> HIDE DEF old
<1>1. /\ w[0] = x
      /\ \A i \in 0..n : w[i + 1] = old(i)
      /\ \A i \in 0..(n + 1) : i # 0 => w[i] = old(i - 1)
  <2>1. \A i \in 0..n : (i + 1) - 1 = i /\ i + 1 # 0 /\ i + 1 \in 0..(n + 1)
    OBVIOUS
  <2>2. QED
    BY <2>1
<1> HIDE DEF w
<1>2. ASSUME NEW k \in 0..((n + 1) - 1)
      PROVE  w[k] \in DOMAIN next2 /\ next2[w[k]] = w[k + 1]
  <2>1. CASE k = 0
    BY <1>0, <1>1, <2>1
  <2>2. CASE k # 0
    <3>1. k - 1 \in 0..(n - 1) /\ k \in 0..n /\ k \in 0..(n + 1) /\ (k - 1) + 1 = k
      BY <2>2
    <3>2. w[k] = old(k - 1) /\ w[k + 1] = old(k)
      BY <1>1, <2>2, <3>1
    <3>3. old(k - 1) \in DOMAIN next /\ next[old(k - 1)] = old(k) /\ old(k - 1) # x
      BY <1>0, <3>1
    <3>4. QED
      BY <3>2, <3>3
  <2>3. QED
    BY <2>1, <2>2
<1>3. Follow(w, n + 1, next2)
  BY <1>2 DEF Follow
<1>4. \A i \in 0..(n + 1) : Walk(w[0], next2, end, i) = w[i]
  <2>1. n + 1 \in Nat
    OBVIOUS
  <2>2. QED
    BY <1>3, <2>1, WalkOfList
<1>5. \A i \in 0..(n + 1) : Walk(x, next2, end, i) = w[i]
  BY <1>1, <1>4
<1>6. \A i \in 0..n : Walk(x, next2, end, i + 1) = old(i)
  BY <1>1, <1>5
<1>7. IsList(x, next2, end, n + 1)
  <2>1. Walk(x, next2, end, n + 1) = end
    BY <1>0, <1>6
  <2>2. ASSUME NEW k \in 0..((n + 1) - 1)
        PROVE  /\ Walk(x, next2, end, k) \in DOMAIN next2
               /\ next2[Walk(x, next2, end, k)] = Walk(x, next2, end, k + 1)
    <3>1. k \in 0..(n + 1) /\ k + 1 \in 0..(n + 1)
      OBVIOUS
    <3>2. QED
      BY <1>2, <1>5, <3>1
  <2>3. ASSUME NEW k \in 0..((n + 1) - 1), NEW j \in 0..((n + 1) - 1),
               Walk(x, next2, end, k) = Walk(x, next2, end, j)
        PROVE  k = j
    <3>1. k \in 0..(n + 1) /\ j \in 0..(n + 1)
      OBVIOUS
    <3>2. w[k] = w[j]
      BY <1>5, <2>3, <3>1
    <3>3. k # 0 => k - 1 \in 0..(n - 1) /\ w[k] = old(k - 1) /\ w[k] # x
      BY <1>0, <1>1, <3>1
    <3>4. j # 0 => j - 1 \in 0..(n - 1) /\ w[j] = old(j - 1) /\ w[j] # x
      BY <1>0, <1>1, <3>1
    <3>5. CASE k = 0 \/ j = 0
      BY <1>1, <3>2, <3>3, <3>4, <3>5
    <3>6. CASE k # 0 /\ j # 0
      <4>1. k - 1 = j - 1
        BY <1>0, <3>2, <3>3, <3>4, <3>6
      <4>2. QED
        BY <4>1
    <3>7. QED
      BY <3>5, <3>6
  <2>4. QED
    BY <2>1, <2>2, <2>3 DEF IsList
<1>8. QED
  BY <1>6, <1>7 DEF old

\* A list holds as many entries as its length says.
LEMMA ListLength ==
  ASSUME NEW n \in Nat, NEW first, NEW next, NEW end, IsList(first, next, end, n)
  PROVE  Cardinality({Walk(first, next, end, i) : i \in 0..(n - 1)}) = n
<1> DEFINE old(i) == Walk(first, next, end, i)
           T == {old(i) : i \in 0..(n - 1)}
           f == [i \in 0..(n - 1) |-> old(i)]
<1>1. \A i, j \in 0..(n - 1) : old(i) = old(j) => i = j
  BY DEF IsList
<1> HIDE DEF old
<1>2. f \in Bijection(0..(n - 1), T)
  <2>1. f \in [0..(n - 1) -> T]
    OBVIOUS
  <2>2. \A i, j \in 0..(n - 1) : f[i] = f[j] => i = j
    BY <1>1
  <2>3. \A t \in T : \E i \in 0..(n - 1) : f[i] = t
    OBVIOUS
  <2> HIDE DEF f, T
  <2>4. QED
    BY <2>1, <2>2, <2>3 DEF Bijection, Injection, Surjection, IsInjective
<1>3. ExistsBijection(0..(n - 1), T)
  BY <1>2 DEF ExistsBijection
<1>4. IsFiniteSet(0..(n - 1)) /\ Cardinality(0..(n - 1)) = n
  <2>1. 0 \in Int /\ n - 1 \in Int
    OBVIOUS
  <2>2. Cardinality(0..(n - 1)) = IF 0 > n - 1 THEN 0 ELSE (n - 1) - 0 + 1
    BY <2>1, FS_Interval
  <2>3. QED
    BY <2>1, <2>2, FS_Interval
<1>5. QED
  BY <1>3, <1>4, FS_Bijection DEF old

\* What an injection under the free id writes, apart from the history.
Written(g, kid, key, id) ==
  /\ maps[id] = NoEntry
  /\ DOMAIN keysets' = DOMAIN keysets /\ kid \in DOMAIN keysets
  /\ keysets'[kid] = [present |-> TRUE, key |-> key, next |-> fabric.firstKeyset]
  /\ \A k \in DOMAIN keysets : k # kid => keysets'[k] = keysets[k]
  /\ DOMAIN maps' = MapIds /\ DOMAIN maps = MapIds
  /\ maps'[id] = [group |-> g, kid |-> kid, next |-> fabric.firstMap]
  /\ \A i \in MapIds : i # id => maps'[i] = maps[i]
  /\ fabric'.firstMap = id /\ fabric'.mapCount = fabric.mapCount + 1
  /\ fabric'.firstKeyset = kid /\ fabric'.keysetCount = fabric.keysetCount + 1

LEMMA InjectWrites ==
  ASSUME KvsTypeOK, NEW g \in Groups, NEW kid \in Kids, NEW key \in 1..MaxKey,
         Inject(g, kid, key)
  PROVE  \E id \in MapIds : Written(g, kid, key, id)
<1>1. PICK id \in FreshIds :
    /\ keysets' = [keysets EXCEPT ![kid] =
         [present |-> TRUE, key |-> key, next |-> fabric.firstKeyset]]
    /\ maps' = [maps EXCEPT ![id] =
         [group |-> g, kid |-> kid, next |-> fabric.firstMap]]
    /\ fabric' = [firstMap |-> id, mapCount |-> fabric.mapCount + 1,
                  firstKeyset |-> kid, keysetCount |-> fabric.keysetCount + 1]
  BY DEF Inject
<1>2. id \in MapIds /\ maps[id] = NoEntry
  BY DEF FreshIds
<1>3. DOMAIN keysets = Kids \cup {Ipk} /\ DOMAIN maps = MapIds
  BY DEF KvsTypeOK
<1>4. QED
  BY <1>1, <1>2, <1>3 DEF Written

\* A keyset that is not listed yet is put in front of the list.
LEMMA InjectKeepsKeysets ==
  ASSUME KvsTypeOK, KeysetsListed, NEW g \in Groups, NEW kid \in Kids,
         NEW key \in 1..MaxKey, Inject(g, kid, key)
  PROVE  KeysetsListed'
<1> DEFINE n == fabric.keysetCount
           first == fabric.firstKeyset
<1>0. n \in Nat
  BY DEF KvsTypeOK
<1>1. SUFFICES ASSUME ~relisted'
               PROVE  (/\ IsList(first, NextKeyset, EndOfKeysets, n)
                       /\ \A i \in 0..(n - 1) : keysets[KeysetAt(i)].present
                       /\ \E i \in 0..(n - 1) : KeysetAt(i) = Ipk)'
  BY DEF KeysetsListed
<1>2. ~relisted /\ kid \notin ListedKeysets
  BY <1>1 DEF Inject
<1>3. /\ IsList(first, NextKeyset, EndOfKeysets, n)
      /\ \A i \in 0..(n - 1) : keysets[KeysetAt(i)].present
      /\ \E i \in 0..(n - 1) : KeysetAt(i) = Ipk
  BY <1>2 DEF KeysetsListed
<1>4. \A i \in 0..(n - 1) : KeysetAt(i) \in DOMAIN keysets /\ KeysetAt(i) # kid
  BY <1>2, <1>3 DEF IsList, NextKeyset, KeysetAt, ListedKeysets
<1>5. /\ DOMAIN keysets' = DOMAIN keysets /\ kid \in DOMAIN keysets
      /\ keysets'[kid].next = first /\ keysets'[kid].present
      /\ \A k \in DOMAIN keysets : k # kid => keysets'[k] = keysets[k]
      /\ first' = kid /\ n' = n + 1
  <2>1. PICK id \in MapIds : Written(g, kid, key, id)
    BY InjectWrites
  <2>2. QED
    BY <2>1 DEF Written
<1>6. /\ IsList(kid, NextKeyset', EndOfKeysets, n + 1)
      /\ \A i \in 0..n : Walk(kid, NextKeyset', EndOfKeysets, i + 1) =
                         Walk(first, NextKeyset, EndOfKeysets, i)
  <2>1. /\ DOMAIN NextKeyset = DOMAIN keysets /\ DOMAIN NextKeyset' = DOMAIN keysets
        /\ NextKeyset'[kid] = first
        /\ \A k \in DOMAIN keysets : k # kid => NextKeyset'[k] = NextKeyset[k]
    BY <1>5 DEF NextKeyset
  <2>2. \A i \in 0..(n - 1) : Walk(first, NextKeyset, EndOfKeysets, i) # kid
    BY <1>4 DEF KeysetAt, NextKeyset
  <2> HIDE DEF n, first
  <2>3. QED
    BY <1>0, <1>3, <1>5, <2>1, <2>2, ListPrepended
<1>7. KeysetAt(0)' = kid /\ \A i \in 0..n : KeysetAt(i + 1)' = KeysetAt(i)
  BY <1>5, <1>6, WalkAtStart DEF KeysetAt, NextKeyset
<1>8. IsList(first, NextKeyset, EndOfKeysets, n)'
  BY <1>5, <1>6
<1>9. ASSUME NEW i \in 0..(n' - 1) PROVE keysets'[KeysetAt(i)'].present
  <2>1. CASE i = 0
    BY <1>5, <1>7, <2>1
  <2>2. CASE i # 0
    <3>1. i - 1 \in 0..(n - 1) /\ i - 1 \in 0..n /\ (i - 1) + 1 = i
      BY <1>0, <1>5, <2>2
    <3>2. KeysetAt(i)' = KeysetAt(i - 1)
      BY <1>7, <3>1
    <3>3. QED
      BY <1>3, <1>4, <1>5, <3>1, <3>2
  <2>3. QED
    BY <2>1, <2>2
<1>10. \E i \in 0..(n' - 1) : KeysetAt(i)' = Ipk
  <2>1. PICK i \in 0..(n - 1) : KeysetAt(i) = Ipk
    BY <1>3
  <2>2. i \in 0..n /\ i + 1 \in 0..(n' - 1)
    BY <1>0, <1>5
  <2>3. QED
    BY <1>7, <2>1, <2>2
<1>11. QED
  BY <1>8, <1>9, <1>10

\* Where the key map entries are after an injection.
LEMMA InjectMaps ==
  ASSUME KvsTypeOK, MapsListed, NEW g \in Groups, NEW kid \in Kids,
         NEW key \in 1..MaxKey, Inject(g, kid, key)
  PROVE  /\ MapsListed'
         /\ MapAt(0)' \in MapIds
         /\ maps'[MapAt(0)'].group = g /\ maps'[MapAt(0)'].kid = kid
         /\ \A i \in 0..(fabric.mapCount - 1) :
              /\ MapAt(i) \in MapIds /\ MapAt(i + 1)' = MapAt(i)
              /\ maps'[MapAt(i)] = maps[MapAt(i)]
<1> DEFINE n == fabric.mapCount
           first == fabric.firstMap
<1>0. n \in Nat
  BY DEF KvsTypeOK
<1>1. PICK id \in MapIds : 
           /\ maps[id] = NoEntry
           /\ DOMAIN maps' = MapIds /\ DOMAIN maps = MapIds
           /\ maps'[id] = [group |-> g, kid |-> kid, next |-> first]
           /\ \A i \in MapIds : i # id => maps'[i] = maps[i]
           /\ first' = id /\ n' = n + 1
  <2>1. PICK id \in MapIds : Written(g, kid, key, id)
    BY InjectWrites
  <2>2. QED
    BY <2>1 DEF Written
<1>2. /\ IsList(first, NextMap, EndOfMaps, n)
      /\ \A i \in 0..(n - 1) : maps[MapAt(i)] # NoEntry
  BY DEF MapsListed
<1>3. \A i \in 0..(n - 1) : MapAt(i) \in MapIds /\ MapAt(i) # id
  BY <1>1, <1>2 DEF IsList, NextMap, MapAt
<1>4. /\ IsList(id, NextMap', EndOfMaps, n + 1)
      /\ \A i \in 0..n : Walk(id, NextMap', EndOfMaps, i + 1) =
                         Walk(first, NextMap, EndOfMaps, i)
  <2>1. /\ DOMAIN NextMap = MapIds /\ DOMAIN NextMap' = MapIds
        /\ NextMap'[id] = first
        /\ \A k \in MapIds : k # id => NextMap'[k] = NextMap[k]
    BY <1>1 DEF NextMap
  <2>2. \A i \in 0..(n - 1) : Walk(first, NextMap, EndOfMaps, i) # id
    BY <1>3 DEF MapAt, NextMap
  <2> HIDE DEF n, first
  <2>3. QED
    BY <1>0, <1>2, <2>1, <2>2, ListPrepended
<1>5. MapAt(0)' = id /\ \A i \in 0..n : MapAt(i + 1)' = MapAt(i)
  BY <1>1, <1>4, WalkAtStart DEF MapAt, NextMap
<1>6. \A i \in 0..(n - 1) : MapAt(i + 1)' = MapAt(i) /\ maps'[MapAt(i)] = maps[MapAt(i)]
  BY <1>0, <1>1, <1>3, <1>5
<1>7. IsList(first, NextMap, EndOfMaps, n)'
  BY <1>1, <1>4
<1>8. ASSUME NEW i \in 0..(n' - 1) PROVE maps'[MapAt(i)'] # NoEntry
  <2>1. CASE i = 0
    <3>1. g # 0
      BY KvsAssumption
    <3>2. QED
      BY <1>1, <1>5, <2>1, <3>1 DEF NoEntry
  <2>2. CASE i # 0
    <3>1. i - 1 \in 0..(n - 1) /\ (i - 1) + 1 = i
      BY <1>0, <1>1, <2>2
    <3>2. MapAt(i)' = MapAt(i - 1) /\ maps'[MapAt(i - 1)] = maps[MapAt(i - 1)]
      BY <1>6, <3>1
    <3>3. QED
      BY <1>2, <3>1, <3>2
  <2>3. QED
    BY <2>1, <2>2
<1>9. MapsListed'
  BY <1>7, <1>8 DEF MapsListed
<1>10. QED
  BY <1>1, <1>3, <1>5, <1>6, <1>9

\* A groupcast finds its key by the first entry of its group.
FirstEntryFound ==
  \A g \in Groups : EntriesFor(g) # {} =>
    \E i \in EntriesFor(g) :
      /\ \A j \in EntriesFor(g) : i <= j
      /\ LookUp(g) = IF maps[MapAt(i)].kid \in ListedKeysets
                       THEN keysets[maps[MapAt(i)].kid].key ELSE 0

LEMMA FirstEntryOf == KvsTypeOK => FirstEntryFound
<1> SUFFICES ASSUME KvsTypeOK, NEW g \in Groups, EntriesFor(g) # {}
             PROVE  \E i \in EntriesFor(g) :
                      /\ \A j \in EntriesFor(g) : i <= j
                      /\ LookUp(g) = IF maps[MapAt(i)].kid \in ListedKeysets
                                       THEN keysets[maps[MapAt(i)].kid].key ELSE 0
  BY DEF FirstEntryFound
<1> DEFINE E == EntriesFor(g)
           first == CHOOSE i \in E : \A j \in E : i <= j
<1>1. E \in SUBSET Nat
  BY DEF EntriesFor, KvsTypeOK
<1>2. \E i \in E : \A j \in E : i <= j
  BY <1>1, LeastNatural
<1>3. first \in E /\ \A j \in E : first <= j
  BY <1>2, Zenon
<1>4. LookUp(g) = IF maps[MapAt(first)].kid \in ListedKeysets
                    THEN keysets[maps[MapAt(first)].kid].key ELSE 0
  BY Zenon DEF LookUp
<1>5. QED
  BY <1>3, <1>4, Zenon

\* An injection for a group makes its entry the first; those of the other groups
\* stay in order, and one that shared the keyset under another key is replaced.
LEMMA InjectKeepsFirst ==
  ASSUME KvsTypeOK, MapsListed, FirstEntryCurrent, NEW g \in Groups, NEW kid \in Kids,
         NEW key \in 1..MaxKey, Inject(g, kid, key),
         keyStore'[g] = [kid |-> kid, key |-> key],
         \A h \in Groups \ {g} : keyStore'[h] = keyStore[h]
  PROVE  FirstEntryCurrent'
<1> DEFINE n == fabric.mapCount
<1> PICK id \in MapIds : Written(g, kid, key, id)
  BY InjectWrites
<1>0. n \in Nat /\ n' = n + 1
  BY DEF KvsTypeOK, Written
<1>1. /\ DOMAIN keysets' = DOMAIN keysets /\ kid \in DOMAIN keysets
      /\ keysets'[kid] = [present |-> TRUE, key |-> key, next |-> fabric.firstKeyset]
      /\ \A k \in DOMAIN keysets : k # kid => keysets'[k] = keysets[k]
      /\ DOMAIN maps' = MapIds /\ DOMAIN maps = MapIds
  BY DEF Written
<1>2. /\ MapAt(0)' \in MapIds
      /\ maps'[MapAt(0)'].group = g /\ maps'[MapAt(0)'].kid = kid
      /\ \A i \in 0..(n - 1) : /\ MapAt(i) \in MapIds /\ MapAt(i + 1)' = MapAt(i)
                               /\ maps'[MapAt(i)] = maps[MapAt(i)]
  BY InjectMaps
<1>3. replaced' = replaced \cup Replacing(g, kid, key)
  BY DEF Inject
<1> SUFFICES ASSUME NEW gg \in Groups, NEW i \in 0..(n' - 1),
                    keyStore'[gg] # NoKeyset, i \in EntriesFor(gg)',
                    \A j \in EntriesFor(gg)' : i <= j
             PROVE  /\ maps'[MapAt(i)'].kid = keyStore'[gg].kid
                    /\ keyStore'[gg].kid \notin replaced' =>
                         keysets'[keyStore'[gg].kid].key = keyStore'[gg].key
  BY DEF FirstEntryCurrent
<1>4. CASE i = 0
  <2>1. gg = g
    BY <1>2, <1>4 DEF EntriesFor
  <2>2. QED
    BY <1>1, <1>2, <1>4, <2>1
<1>5. CASE i # 0
  <2>1. gg # g
    <3>1. SUFFICES ASSUME gg = g PROVE FALSE
      OBVIOUS
    <3>2. 0 \in 0..(n' - 1)
      BY <1>0
    <3>3. 0 \in EntriesFor(gg)'
      BY <1>2, <3>1, <3>2 DEF EntriesFor
    <3>4. i <= 0
      BY <3>3
    <3>5. QED
      BY <1>5, <3>4
  <2>2. keyStore'[gg] = keyStore[gg]
    BY <2>1
  <2>3. i - 1 \in 0..(n - 1) /\ (i - 1) + 1 = i
    BY <1>0, <1>5
  <2>4. MapAt(i)' = MapAt(i - 1) /\ maps'[MapAt(i)'] = maps[MapAt(i - 1)]
    BY <1>2, <2>3
  <2>5. i - 1 \in EntriesFor(gg)
    BY <1>2, <2>3, <2>4 DEF EntriesFor
  <2>6. ASSUME NEW j \in EntriesFor(gg) PROVE i - 1 <= j
    <3>1. j \in 0..(n - 1) /\ MapAt(j) \in MapIds /\ maps[MapAt(j)].group = gg
      BY DEF EntriesFor
    <3>2. j + 1 \in 0..(n' - 1)
      BY <1>0, <3>1
    <3>3. MapAt(j + 1)' = MapAt(j) /\ maps'[MapAt(j)] = maps[MapAt(j)]
      BY <1>2, <3>1
    <3>4. j + 1 \in EntriesFor(gg)'
      BY <3>1, <3>2, <3>3 DEF EntriesFor
    <3>5. i <= j + 1
      BY <3>4
    <3>6. QED
      BY <3>1, <3>5
  <2>7. /\ maps[MapAt(i - 1)].kid = keyStore[gg].kid
        /\ keyStore[gg].kid \notin replaced =>
             keysets[keyStore[gg].kid].key = keyStore[gg].key
    BY <2>2, <2>3, <2>5, <2>6 DEF FirstEntryCurrent
  <2>8. keyStore[gg].kid \in DOMAIN keysets
    BY <2>2 DEF KvsTypeOK
  <2>9. ASSUME keyStore[gg].kid \notin replaced'
        PROVE  keysets'[keyStore[gg].kid].key = keyStore[gg].key
    <3>1. keysets[keyStore[gg].kid].key = keyStore[gg].key
      BY <1>3, <2>7, <2>9
    <3>2. CASE keyStore[gg].kid # kid
      BY <1>1, <2>8, <3>1, <3>2
    <3>3. CASE keyStore[gg].kid = kid
      <4>1. kid \notin Replacing(g, kid, key)
        BY <1>3, <2>9, <3>3
      <4>2. keyStore[gg].key = key
        BY <2>1, <3>1, <3>3, <4>1 DEF Replacing
      <4>3. QED
        BY <1>1, <3>3, <4>2
    <3>4. QED
      BY <3>2, <3>3
  <2>10. QED
    BY <2>2, <2>4, <2>7, <2>9
<1>6. QED
  BY <1>4, <1>5

\* The keys just injected for a group are the ones a groupcast to it finds.
LEMMA InjectedIsFound ==
  ASSUME KvsTypeOK, MapsListed, NEW g \in Groups, NEW kid \in Kids,
         NEW key \in 1..MaxKey, Inject(g, kid, key), KvsTypeOK'
  PROVE  LookUp(g)' = key
<1> DEFINE n == fabric.mapCount
<1>1. /\ kid \in DOMAIN keysets'
      /\ keysets'[kid] = [present |-> TRUE, key |-> key, next |-> fabric.firstKeyset]
      /\ fabric'.mapCount = n + 1 /\ fabric'.firstKeyset = kid
      /\ fabric'.keysetCount = fabric.keysetCount + 1
  <2>1. PICK id \in MapIds : Written(g, kid, key, id)
    BY InjectWrites
  <2>2. QED
    BY <2>1 DEF Written
<1>2. /\ MapsListed'
      /\ MapAt(0)' \in MapIds
      /\ maps'[MapAt(0)'].group = g /\ maps'[MapAt(0)'].kid = kid
  BY InjectMaps
<1>3. n \in Nat /\ fabric.keysetCount \in Nat
  BY DEF KvsTypeOK
<1>4. 0 \in EntriesFor(g)'
  <2>1. 0 \in 0..(fabric'.mapCount - 1)
    BY <1>1, <1>3
  <2>2. QED
    BY <1>2, <2>1 DEF EntriesFor
<1>5. FirstEntryFound'
  BY FirstEntryOf, PTL
<1>6. PICK i \in EntriesFor(g)' :
        /\ \A j \in EntriesFor(g)' : i <= j
        /\ LookUp(g)' = IF maps'[MapAt(i)'].kid \in ListedKeysets'
                          THEN keysets'[maps'[MapAt(i)'].kid].key ELSE 0
  BY <1>4, <1>5 DEF FirstEntryFound
<1>7. i = 0
  <2>1. i <= 0 /\ i \in Nat
    BY <1>4, <1>6 DEF EntriesFor, KvsTypeOK
  <2>2. QED
    BY <2>1
<1>8. LookUp(g)' = IF maps'[MapAt(0)'].kid \in ListedKeysets'
                     THEN keysets'[maps'[MapAt(0)'].kid].key ELSE 0
  BY <1>6, <1>7
<1>9. kid \in ListedKeysets'
  <2>1. KeysetAt(0)' = kid
    BY <1>1, WalkAtStart DEF KeysetAt
  <2>2. 0 \in 0..(fabric'.keysetCount - 1)
    BY <1>1, <1>3
  <2>3. QED
    BY <1>1, <2>1, <2>2 DEF ListedKeysets
<1>10. QED
  BY <1>1, <1>2, <1>8, <1>9

-----------------------------------------------------------------------------
(* Types, and the store after a start.                                     *)

LEMMA InjectKeepsType ==
  ASSUME KvsTypeOK, NEW g \in Groups, NEW kid \in Kids, NEW key \in 1..MaxKey,
         Inject(g, kid, key)
  PROVE  /\ fabric'.firstMap \in MapIds \cup {EndOfMaps}
         /\ fabric'.firstKeyset \in Kids \cup {Ipk, EndOfKeysets}
         /\ fabric'.mapCount \in Nat /\ fabric'.keysetCount \in Nat
         /\ keysets' \in [Kids \cup {Ipk} -> [present : BOOLEAN, key : 0..MaxKey,
                                              next : Kids \cup {Ipk, EndOfKeysets}]]
         /\ maps' \in [MapIds -> {NoEntry} \cup
              [group : Groups, kid : Kids, next : MapIds \cup {EndOfMaps}]]
         /\ relisted' \in BOOLEAN /\ replaced' \subseteq Kids
<1>1. PICK id \in MapIds :
    /\ keysets' = [keysets EXCEPT ![kid] =
         [present |-> TRUE, key |-> key, next |-> fabric.firstKeyset]]
    /\ maps' = [maps EXCEPT ![id] =
         [group |-> g, kid |-> kid, next |-> fabric.firstMap]]
    /\ fabric' = [firstMap |-> id, mapCount |-> fabric.mapCount + 1,
                  firstKeyset |-> kid, keysetCount |-> fabric.keysetCount + 1]
    /\ relisted' = (relisted \/ kid \in ListedKeysets)
    /\ replaced' = replaced \cup Replacing(g, kid, key)
  BY DEF Inject, FreshIds
<1>2. key \in 0..MaxKey
  BY KvsAssumption
<1>3. keysets' \in [Kids \cup {Ipk} -> [present : BOOLEAN, key : 0..MaxKey,
                                        next : Kids \cup {Ipk, EndOfKeysets}]]
  BY <1>1, <1>2 DEF KvsTypeOK
<1>4. maps' \in [MapIds -> {NoEntry} \cup
              [group : Groups, kid : Kids, next : MapIds \cup {EndOfMaps}]]
  BY <1>1 DEF KvsTypeOK
<1>5. relisted' \in BOOLEAN
  BY <1>1 DEF KvsTypeOK
<1>6. QED
  BY <1>1, <1>3, <1>4, <1>5 DEF KvsTypeOK, Replacing

LEMMA FreshTyped ==
  /\ FreshFabric.firstMap \in MapIds \cup {EndOfMaps}
  /\ FreshFabric.firstKeyset \in Kids \cup {Ipk, EndOfKeysets}
  /\ FreshFabric.mapCount \in Nat /\ FreshFabric.keysetCount \in Nat
  /\ FreshKeysets \in [Kids \cup {Ipk} -> [present : BOOLEAN, key : 0..MaxKey,
                                           next : Kids \cup {Ipk, EndOfKeysets}]]
<1>1. 0 \in 0..MaxKey
  BY KvsAssumption
<1>2. QED
  BY <1>1 DEF FreshFabric, FreshKeysets, Absent

LEMMA StoredType ==
  ASSUME KvsTypeOK, NEW g \in Groups, keyStore[g] # NoKeyset
  PROVE  /\ keyStore[g].kid \in Kids /\ keyStore[g].key \in 1..MaxKey
         /\ keyStore[g] = [kid |-> keyStore[g].kid, key |-> keyStore[g].key]
BY DEF KvsTypeOK

LEMMA NewKeyset ==
  ASSUME KvsTypeOK, NEW g \in Groups, lastKey < MaxKey
  PROVE  KeysetId(g) \in Kids /\ lastKey + 1 \in 1..MaxKey
<1>1. lastKey \in Nat /\ MaxKey \in Nat
  BY KvsAssumption DEF KvsTypeOK
<1>2. QED
  BY <1>1 DEF Kids

LEMMA KvsTypeStep ==
  ASSUME KvsTypeOK, [KvsNext]_kvsVars PROVE KvsTypeOK'
<1>1. ASSUME NEW g \in Groups, AddGroup(g) PROVE KvsTypeOK'
  <2>1. KeysetId(g) \in Kids /\ lastKey + 1 \in 1..MaxKey
    BY <1>1, NewKeyset DEF AddGroup
  <2>2. /\ Inject(g, KeysetId(g), lastKey + 1) /\ sent' = 0 /\ lastKey' = lastKey + 1
        /\ keyStore' = [keyStore EXCEPT ![g] = [kid |-> KeysetId(g), key |-> lastKey + 1]]
    BY <1>1 DEF AddGroup
  <2>3. keyStore' \in [Groups -> [kid : Kids, key : 1..MaxKey] \cup {NoKeyset}]
    BY <2>1, <2>2 DEF KvsTypeOK
  <2>4. lastKey' \in 0..MaxKey
    BY <2>1, <2>2
  <2>5. QED
    BY <2>1, <2>2, <2>3, <2>4, InjectKeepsType DEF KvsTypeOK
<1>2. ASSUME NEW g \in Groups, NEW h \in Groups, Reuse(g, h) PROVE KvsTypeOK'
  <2>1. keyStore[h].kid \in Kids /\ keyStore[h].key \in 1..MaxKey
    BY <1>2, StoredType DEF Reuse
  <2>2. /\ Inject(g, keyStore[h].kid, keyStore[h].key) /\ sent' = 0 /\ lastKey' = lastKey
        /\ keyStore' = [keyStore EXCEPT ![g] = keyStore[h]]
    BY <1>2 DEF Reuse
  <2>3. keyStore' \in [Groups -> [kid : Kids, key : 1..MaxKey] \cup {NoKeyset}]
    BY <2>1, <2>2 DEF KvsTypeOK
  <2>4. QED
    BY <2>1, <2>2, <2>3, InjectKeepsType DEF KvsTypeOK
<1>3. ASSUME NEW g \in Groups, Purge(g) PROVE KvsTypeOK'
  BY <1>3 DEF Purge, KvsTypeOK, kvs
<1>4. ASSUME NEW g \in Groups, Send(g) PROVE KvsTypeOK'
  <2>1. CASE UNCHANGED kvs
    BY <1>4, <2>1 DEF Send, KvsTypeOK, kvs
  <2>2. CASE keyStore[g] # NoKeyset /\ Inject(g, keyStore[g].kid, keyStore[g].key)
    <3>1. keyStore[g].kid \in Kids /\ keyStore[g].key \in 1..MaxKey
      BY <2>2, StoredType
    <3>2. sent' = g /\ UNCHANGED <<keyStore, lastKey>>
      BY <1>4 DEF Send
    <3>3. QED
      BY <2>2, <3>1, <3>2, InjectKeepsType DEF KvsTypeOK
  <2>3. QED
    BY <1>4, <2>1, <2>2 DEF Send
<1>5. CASE KvsRestart
  BY <1>5, FreshTyped DEF KvsRestart, KvsTypeOK
<1>6. CASE UNCHANGED kvsVars
  BY <1>6 DEF KvsTypeOK, kvsVars, kvs
<1>7. QED
  BY <1>1, <1>2, <1>3, <1>4, <1>5, <1>6 DEF KvsNext

\* The lists after a start: the IPK, and no key map entry.
LEMMA FreshLists ==
  /\ IsList(Ipk, [k \in DOMAIN FreshKeysets |-> FreshKeysets[k].next], EndOfKeysets, 1)
  /\ \A next : IsList(EndOfMaps, next, EndOfMaps, 0)
<1> DEFINE next == [k \in DOMAIN FreshKeysets |-> FreshKeysets[k].next]
           none == [k \in {} |-> 0]
<1>1. Ipk \in DOMAIN next /\ next[Ipk] = EndOfKeysets
  BY DEF FreshKeysets
<1>2. IsList(EndOfKeysets, none, EndOfKeysets, 0)
  BY EmptyList
<1>3. IsList(Ipk, next, EndOfKeysets, 0 + 1)
  <2>1. DOMAIN none = {} /\ DOMAIN none \subseteq DOMAIN next
    OBVIOUS
  <2>2. \A i \in 0..(0 - 1) : Walk(EndOfKeysets, none, EndOfKeysets, i) # Ipk
    OBVIOUS
  <2> HIDE DEF next, none
  <2>3. \A y \in DOMAIN none : y # Ipk => next[y] = none[y]
    BY <2>1
  <2>4. 0 \in Nat
    OBVIOUS
  <2>5. QED
    BY <1>1, <1>2, <2>1, <2>2, <2>3, <2>4, ListPrepended
<1>4. QED
  BY <1>3, EmptyList

\* The key-value store after a start.
FreshStore ==
  /\ fabric = FreshFabric /\ keysets = FreshKeysets /\ relisted = FALSE
  /\ maps = [i \in MapIds |-> NoEntry]

LEMMA FreshStoreListed == FreshStore => KeysetsListed /\ MapsListed /\ FirstEntryCurrent
<1> SUFFICES ASSUME FreshStore PROVE KeysetsListed /\ MapsListed /\ FirstEntryCurrent
  OBVIOUS
<1>1. /\ fabric.firstKeyset = Ipk /\ fabric.keysetCount = 1
      /\ fabric.firstMap = EndOfMaps /\ fabric.mapCount = 0
  BY DEF FreshFabric, FreshStore
<1>2. KeysetAt(0) = Ipk /\ keysets[Ipk].present
  BY <1>1, WalkAtStart DEF KeysetAt, FreshKeysets, FreshStore
<1>3. IsList(Ipk, NextKeyset, EndOfKeysets, 1) /\ IsList(EndOfMaps, NextMap, EndOfMaps, 0)
  BY FreshLists DEF NextKeyset, FreshStore
<1>4. KeysetsListed
  BY <1>1, <1>2, <1>3 DEF KeysetsListed
<1>5. MapsListed
  BY <1>1, <1>3 DEF MapsListed
<1>6. FirstEntryCurrent
  BY <1>1 DEF FirstEntryCurrent
<1>7. QED
  BY <1>4, <1>5, <1>6

-----------------------------------------------------------------------------
KvsInv == KvsTypeOK /\ KeysetsListed /\ MapsListed /\ FirstEntryCurrent

LEMMA KvsInitInv == KvsInit => KvsInv /\ SentUnderStoredKey
<1> SUFFICES ASSUME KvsInit PROVE KvsInv /\ SentUnderStoredKey
  OBVIOUS
<1>1. KvsTypeOK
  <2>1. 0 \in 0..MaxKey
    BY KvsAssumption
  <2>2. QED
    BY <2>1, FreshTyped DEF KvsInit, KvsTypeOK
<1>2. FreshStore
  BY DEF KvsInit, FreshStore
<1>3. SentUnderStoredKey
  BY DEF KvsInit, SentUnderStoredKey
<1>4. QED
  BY <1>1, <1>2, <1>3, FreshStoreListed DEF KvsInv

\* Steps that leave the key-value store alone.
LEMMA SameStore ==
  ASSUME UNCHANGED kvs
  PROVE  /\ KeysetsListed => KeysetsListed'
         /\ MapsListed => MapsListed'
         /\ \A i : MapAt(i)' = MapAt(i)
         /\ \A g \in Groups : LookUp(g)' = LookUp(g) /\ EntriesFor(g)' = EntriesFor(g)
<1>1. /\ fabric' = fabric /\ keysets' = keysets /\ maps' = maps
      /\ relisted' = relisted /\ replaced' = replaced
  BY DEF kvs
<1>2. \A i : KeysetAt(i)' = KeysetAt(i)
  BY <1>1 DEF KeysetAt
<1>3. \A i : MapAt(i)' = MapAt(i)
  BY <1>1 DEF MapAt
<1>4. ListedKeysets' = ListedKeysets
  BY <1>1, <1>2 DEF ListedKeysets
<1>5. KeysetsListed => KeysetsListed'
  BY <1>1, <1>2 DEF KeysetsListed, NextKeyset
<1>6. MapsListed => MapsListed'
  BY <1>1, <1>3 DEF MapsListed, NextMap
<1>7. \A g \in Groups : EntriesFor(g)' = EntriesFor(g)
  BY <1>1, <1>3 DEF EntriesFor
<1>8. ASSUME NEW g \in Groups PROVE LookUp(g)' = LookUp(g)
  <2>1. EntriesFor(g)' = EntriesFor(g)
    BY <1>7
  <2>2. QED
    BY <1>1, <1>3, <1>4, <2>1 DEF LookUp
<1>9. QED
  BY <1>3, <1>5, <1>6, <1>7, <1>8

LEMMA SameStoreFirst ==
  ASSUME UNCHANGED kvs, FirstEntryCurrent,
         \A g \in Groups : keyStore'[g] = keyStore[g] \/ keyStore'[g] = NoKeyset
  PROVE  FirstEntryCurrent'
<1>1. fabric' = fabric /\ keysets' = keysets /\ maps' = maps /\ replaced' = replaced
  BY DEF kvs
<1>2. \A i : MapAt(i)' = MapAt(i)
  BY SameStore
<1>3. \A g \in Groups : EntriesFor(g)' = EntriesFor(g)
  BY SameStore
<1> SUFFICES ASSUME NEW g \in Groups, NEW i \in 0..(fabric'.mapCount - 1),
                    keyStore'[g] # NoKeyset, i \in EntriesFor(g)',
                    \A j \in EntriesFor(g)' : i <= j
             PROVE  /\ maps'[MapAt(i)'].kid = keyStore'[g].kid
                    /\ keyStore'[g].kid \notin replaced' =>
                         keysets'[keyStore'[g].kid].key = keyStore'[g].key
  BY DEF FirstEntryCurrent
<1>4. keyStore'[g] = keyStore[g]
  OBVIOUS
<1>5. /\ maps[MapAt(i)].kid = keyStore[g].kid
      /\ keyStore[g].kid \notin replaced =>
           keysets[keyStore[g].kid].key = keyStore[g].key
  BY <1>1, <1>3, <1>4 DEF FirstEntryCurrent
<1>6. QED
  BY <1>1, <1>2, <1>4, <1>5

\* What a groupcast finds, when it finds a key, is the stored one.
LEMMA FoundIsStored ==
  ASSUME KvsInv, NEW g \in Groups, LookUp(g) # 0, keyStore[g] # NoKeyset,
         keyStore[g].kid \notin replaced
  PROVE  LookUp(g) = keyStore[g].key
<1>1. EntriesFor(g) # {}
  BY DEF LookUp
<1>2. FirstEntryFound
  BY FirstEntryOf DEF KvsInv
<1>3. PICK i \in EntriesFor(g) :
        /\ \A j \in EntriesFor(g) : i <= j
        /\ LookUp(g) = IF maps[MapAt(i)].kid \in ListedKeysets
                         THEN keysets[maps[MapAt(i)].kid].key ELSE 0
  BY <1>1, <1>2 DEF FirstEntryFound
<1>4. i \in 0..(fabric.mapCount - 1)
  BY DEF EntriesFor
<1>5. /\ maps[MapAt(i)].kid = keyStore[g].kid
      /\ keysets[keyStore[g].kid].key = keyStore[g].key
  BY <1>3, <1>4 DEF KvsInv, FirstEntryCurrent
<1>6. QED
  BY <1>3, <1>5

LEMMA KvsStep ==
  ASSUME KvsInv, SentUnderStoredKey, [KvsNext]_kvsVars
  PROVE  KvsInv' /\ SentUnderStoredKey'
<1> USE DEF KvsInv
<1>0. KvsTypeOK'
  BY KvsTypeStep
<1>1. ASSUME NEW g \in Groups, AddGroup(g) PROVE KvsInv' /\ SentUnderStoredKey'
  <2>1. KeysetId(g) \in Kids /\ lastKey + 1 \in 1..MaxKey
    BY <1>1, NewKeyset DEF AddGroup
  <2>2. /\ Inject(g, KeysetId(g), lastKey + 1) /\ sent' = 0
        /\ keyStore' = [keyStore EXCEPT ![g] = [kid |-> KeysetId(g), key |-> lastKey + 1]]
    BY <1>1 DEF AddGroup
  <2>3. /\ keyStore'[g] = [kid |-> KeysetId(g), key |-> lastKey + 1]
        /\ \A h \in Groups \ {g} : keyStore'[h] = keyStore[h]
    BY <2>2 DEF KvsTypeOK
  <2>4. KeysetsListed' /\ MapsListed' /\ FirstEntryCurrent'
    BY <2>1, <2>2, <2>3, InjectKeepsKeysets, InjectMaps, InjectKeepsFirst
  <2>5. QED
    BY <1>0, <2>2, <2>4 DEF SentUnderStoredKey
<1>2. ASSUME NEW g \in Groups, NEW h \in Groups, Reuse(g, h)
      PROVE  KvsInv' /\ SentUnderStoredKey'
  <2>1. /\ keyStore[h].kid \in Kids /\ keyStore[h].key \in 1..MaxKey
        /\ keyStore[h] = [kid |-> keyStore[h].kid, key |-> keyStore[h].key]
    BY <1>2, StoredType DEF Reuse
  <2>2. /\ Inject(g, keyStore[h].kid, keyStore[h].key) /\ sent' = 0
        /\ keyStore' = [keyStore EXCEPT ![g] = keyStore[h]]
    BY <1>2 DEF Reuse
  <2>3. /\ keyStore'[g] = [kid |-> keyStore[h].kid, key |-> keyStore[h].key]
        /\ \A k \in Groups \ {g} : keyStore'[k] = keyStore[k]
    <3>1. keyStore'[g] = keyStore[h]
      BY <2>2 DEF KvsTypeOK
    <3>2. QED
      BY <2>1, <2>2, <3>1 DEF KvsTypeOK
  <2>4. KeysetsListed' /\ MapsListed' /\ FirstEntryCurrent'
    BY <2>1, <2>2, <2>3, InjectKeepsKeysets, InjectMaps, InjectKeepsFirst
  <2>5. QED
    BY <1>0, <2>2, <2>4 DEF SentUnderStoredKey
<1>3. ASSUME NEW g \in Groups, Purge(g) PROVE KvsInv' /\ SentUnderStoredKey'
  <2>1. /\ UNCHANGED kvs /\ sent' = 0
        /\ \A h \in Groups : keyStore'[h] = keyStore[h] \/ keyStore'[h] = NoKeyset
    BY <1>3 DEF Purge, KvsTypeOK
  <2>2. KeysetsListed' /\ MapsListed' /\ FirstEntryCurrent'
    BY <2>1, SameStore, SameStoreFirst
  <2>3. QED
    BY <1>0, <2>1, <2>2 DEF SentUnderStoredKey
<1>4. ASSUME NEW g \in Groups, Send(g) PROVE KvsInv' /\ SentUnderStoredKey'
  <2>0. sent' = g /\ UNCHANGED <<keyStore, lastKey>>
    BY <1>4 DEF Send
  <2>1. CASE LookUp(g) # 0 /\ UNCHANGED kvs
    <3>1. \A h \in Groups : keyStore'[h] = keyStore[h] \/ keyStore'[h] = NoKeyset
      BY <2>0
    <3>2. KeysetsListed' /\ MapsListed' /\ FirstEntryCurrent'
      BY <2>1, <3>1, SameStore, SameStoreFirst
    <3>3. LookUp(g)' = LookUp(g) /\ replaced' = replaced
      BY <2>1, SameStore DEF kvs
    <3>4. SentUnderStoredKey'
      BY <2>0, <2>1, <3>3, FoundIsStored DEF SentUnderStoredKey
    <3>5. QED
      BY <1>0, <3>2, <3>4
  <2>2. CASE keyStore[g] # NoKeyset /\ Inject(g, keyStore[g].kid, keyStore[g].key)
    <3>1. /\ keyStore[g].kid \in Kids /\ keyStore[g].key \in 1..MaxKey
          /\ keyStore[g] = [kid |-> keyStore[g].kid, key |-> keyStore[g].key]
      BY <2>2, StoredType
    <3>2. /\ keyStore'[g] = [kid |-> keyStore[g].kid, key |-> keyStore[g].key]
          /\ \A h \in Groups \ {g} : keyStore'[h] = keyStore[h]
      BY <2>0, <3>1
    <3>3. KeysetsListed' /\ MapsListed' /\ FirstEntryCurrent'
      BY <2>2, <3>1, <3>2, InjectKeepsKeysets, InjectMaps, InjectKeepsFirst
    <3>4. LookUp(g)' = keyStore[g].key
      BY <1>0, <2>2, <3>1, InjectedIsFound
    <3>5. QED
      BY <1>0, <2>0, <3>3, <3>4 DEF SentUnderStoredKey
  <2>3. QED
    BY <1>4, <2>1, <2>2 DEF Send
<1>5. CASE KvsRestart
  <2>1. FreshStore'
    BY <1>5 DEF KvsRestart, FreshStore
  <2>2. (FreshStore => KeysetsListed /\ MapsListed /\ FirstEntryCurrent)'
    BY FreshStoreListed, PTL
  <2>3. sent' = 0
    BY <1>5 DEF KvsRestart
  <2>4. QED
    BY <1>0, <2>1, <2>2, <2>3 DEF SentUnderStoredKey
<1>6. CASE UNCHANGED kvsVars
  <2>1. UNCHANGED kvs /\ sent' = sent /\ keyStore' = keyStore
    BY <1>6 DEF kvsVars
  <2>2. \A h \in Groups : keyStore'[h] = keyStore[h] \/ keyStore'[h] = NoKeyset
    BY <2>1
  <2>3. KeysetsListed' /\ MapsListed' /\ FirstEntryCurrent'
    BY <2>1, <2>2, SameStore, SameStoreFirst
  <2>4. sent # 0 => sent \in Groups /\ LookUp(sent)' = LookUp(sent)
    BY <2>1, SameStore DEF KvsTypeOK
  <2>5. replaced' = replaced
    BY <2>1 DEF kvs
  <2>6. SentUnderStoredKey'
    BY <2>1, <2>4, <2>5 DEF SentUnderStoredKey
  <2>7. QED
    BY <1>0, <2>3, <2>6
<1>7. QED
  BY <1>1, <1>2, <1>3, <1>4, <1>5, <1>6 DEF KvsNext

\* What server and SDK keep of the group keys has the type the SDK's tables have.
THEOREM KvsTypeCorrect == KvsSpec => []KvsTypeOK
<1>1. KvsInit => KvsTypeOK
  BY KvsInitInv DEF KvsInv
<1>2. KvsTypeOK /\ [KvsNext]_kvsVars => KvsTypeOK'
  BY KvsTypeStep
<1>3. QED
  BY <1>1, <1>2, PTL DEF KvsSpec

\* The inductive invariant of the two lists.
LEMMA KvsInvariant == KvsSpec => [](KvsInv /\ SentUnderStoredKey)
<1>1. KvsInit => KvsInv /\ SentUnderStoredKey
  BY KvsInitInv
<1>2. (KvsInv /\ SentUnderStoredKey) /\ [KvsNext]_kvsVars
        => (KvsInv /\ SentUnderStoredKey)'
  BY KvsStep
<1>3. QED
  BY <1>1, <1>2, PTL DEF KvsSpec

\* The keyset list _inject_controller_group_keys leaves to the SDK is a list that
\* leads to the identity protection key, until a keyset is listed twice.
THEOREM KeysetListCorrect == KvsSpec => []KeysetListSound
<1>1. KvsInv => KeysetListSound
  <2> SUFFICES ASSUME KvsInv, ~relisted
               PROVE  /\ Ipk \in ListedKeysets
                      /\ Cardinality(ListedKeysets) = fabric.keysetCount
                      /\ KeysetAt(fabric.keysetCount) = EndOfKeysets
    BY DEF KeysetListSound
  <2>1. /\ IsList(fabric.firstKeyset, NextKeyset, EndOfKeysets, fabric.keysetCount)
        /\ \A i \in 0..(fabric.keysetCount - 1) : keysets[KeysetAt(i)].present
        /\ \E i \in 0..(fabric.keysetCount - 1) : KeysetAt(i) = Ipk
    BY DEF KvsInv, KeysetsListed
  <2>2. \A i \in 0..(fabric.keysetCount - 1) : KeysetAt(i) \in DOMAIN keysets
    BY <2>1 DEF IsList, NextKeyset, KeysetAt
  <2>3. ListedKeysets = {KeysetAt(i) : i \in 0..(fabric.keysetCount - 1)}
    BY <2>1, <2>2 DEF ListedKeysets
  <2>4. fabric.keysetCount \in Nat
    BY DEF KvsInv, KvsTypeOK
  <2>5. Cardinality(ListedKeysets) = fabric.keysetCount
    <3>1. ListedKeysets = {Walk(fabric.firstKeyset, NextKeyset, EndOfKeysets, i) :
                             i \in 0..(fabric.keysetCount - 1)}
      BY <2>3 DEF KeysetAt, NextKeyset
    <3>2. QED
      BY <2>1, <2>4, <3>1, ListLength
  <2>6. KeysetAt(fabric.keysetCount) = EndOfKeysets
    BY <2>1 DEF IsList, KeysetAt, NextKeyset
  <2>7. QED
    BY <2>1, <2>3, <2>5, <2>6
<1>2. QED
  BY <1>1, KvsInvariant, PTL

\* A groupcast that leaves is encrypted with the key the server stores for the
\* group, unless the keyset was given another key.
THEOREM GroupcastKey == KvsSpec => []SentUnderStoredKey
BY KvsInvariant, PTL
=============================================================================
