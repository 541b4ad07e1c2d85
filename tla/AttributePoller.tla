--------------------------- MODULE AttributePoller ---------------------------
(***************************************************************************)
(* device_controller.py: the poller of custom attributes, which reads the  *)
(* attributes of vendor clusters that are not reported by a subscription   *)
(* (common/custom_clusters.py, check_polled_attributes), together with     *)
(* what adds nodes to it (the end of a setup) and takes them out           *)
(* (remove_node).                                                          *)
(*                                                                         *)
(* All Nodes have such attributes.  A round is one task; a timer starts    *)
(* it, its end arms the timer again, and so does every setup.  A task that *)
(* is cancelled is taken to be gone: it takes no step of its own again.    *)
(***************************************************************************)
EXTENDS Naturals, SequencesExt

CONSTANTS Nodes  \* nodes with custom attributes to poll

VARIABLES
  present,  \* nodes in _nodes
  avail,    \* of those, the available ones
  setup,    \* nodes with a setup task at work
  removing, \* nodes remove_node is shutting the subscription down of
  polled,   \* keys of _polled_attributes, in order
  timer,    \* _custom_attribute_poller_timer is set
  rounds,   \* tasks at work; the last is _custom_attribute_poller_task
  broken,   \* history: the last round ended in an exception, nothing is armed
  revived   \* history: nodes whose setup began while they were being removed

nodeVars   == <<present, avail, setup, removing, revived>>
pollVars   == <<timer, rounds, broken>>
pollerVars == <<nodeVars, polled, pollVars>>

PollerInit ==
  /\ present = Nodes /\ avail = {} /\ setup = {} /\ removing = {}
  /\ polled = <<>> /\ timer = FALSE /\ rounds = <<>>
  /\ broken = FALSE /\ revived = {}

-----------------------------------------------------------------------------
(***************************************************************************)
(* Setup and removal of nodes, and what the subscription reports.          *)
(***************************************************************************)
SetupBegins(n) ==
  /\ n \in present \ setup
  /\ setup' = setup \cup {n}
  /\ revived' = IF n \in removing THEN revived \cup {n} ELSE revived
  /\ UNCHANGED <<present, avail, removing, polled, pollVars>>

\* _schedule_custom_attributes_poller: an armed timer is cancelled, and another
\* one set if there is something to poll.
Schedule(list) ==
  /\ timer' = (list # <<>>)
  /\ broken' = FALSE

\* The node is subscribed: its attributes are polled from now on.
SetupEnds(n) ==
  /\ n \in setup
  /\ setup' = setup \ {n}
  /\ avail' = avail \cup ({n} \cap present)
  /\ polled' = IF n \in ToSet(polled) THEN polled ELSE Append(polled, n)
  /\ Schedule(polled')
  /\ UNCHANGED <<present, removing, revived, rounds>>

SetupFails(n) ==
  /\ n \in setup
  /\ setup' = setup \ {n}
  /\ UNCHANGED <<present, avail, removing, revived, polled, pollVars>>

\* The setup task is cancelled, then the shutdown is awaited.
RemoveBegins(n) ==
  /\ n \in present \ removing
  /\ setup' = setup \ {n}
  /\ removing' = removing \cup {n}
  /\ UNCHANGED <<present, avail, revived, polled, pollVars>>

\* Mutant: the attributes of a removed node stay in the table.
RemoveKeepsPolled(n) ==
  /\ n \in removing
  /\ removing' = removing \ {n}
  /\ present' = present \ {n} /\ avail' = avail \ {n}
  /\ UNCHANGED <<setup, revived, polled, pollVars>>

\* _polled_attributes.pop(node_id, None)
Without(n) ==
  IF n \notin ToSet(polled) THEN polled
  ELSE RemoveAt(polled, CHOOSE i \in DOMAIN polled : polled[i] = n)

RemoveDrops(n) ==
  /\ n \in removing
  /\ removing' = removing \ {n}
  /\ polled' = Without(n)
  /\ present' = present \ {n} /\ avail' = avail \ {n}
  /\ UNCHANGED <<setup, revived, pollVars>>

\* Offline, or subscribed again.
AvailabilityChanges(n) ==
  /\ n \in present /\ n \in ToSet(polled)
  /\ avail' = IF n \in avail THEN avail \ {n} ELSE avail \cup {n}
  /\ UNCHANGED <<present, setup, removing, revived, polled, pollVars>>

-----------------------------------------------------------------------------
(***************************************************************************)
(* The poller.                                                             *)
(***************************************************************************)
\* Mutant: a round that is still at work is left alone.
TimerFiresKeepsTask ==
  /\ timer
  /\ timer' = FALSE
  /\ rounds' = Append(rounds, [at |-> "start", todo |-> <<>>])
  /\ UNCHANGED <<nodeVars, polled, broken>>

\* run_custom_attributes_poller: the last task is cancelled if it is at work.
TimerFires ==
  /\ timer
  /\ timer' = FALSE
  /\ rounds' = Append(IF rounds = <<>> THEN rounds ELSE Front(rounds),
                      [at |-> "start", todo |-> <<>>])
  /\ UNCHANGED <<nodeVars, polled, broken>>

RoundStarts(i) ==
  /\ rounds[i].at = "start"
  /\ rounds' = [rounds EXCEPT ![i] = [at |-> "next", todo |-> polled]]
  /\ UNCHANGED <<nodeVars, polled, timer, broken>>

\* The loop takes the next node: an unknown one raises KeyError and ends the
\* round, an unavailable one is passed over, another one is read.
RoundNext(i) ==
  LET n == Head(rounds[i].todo)
  IN  /\ rounds[i].at = "next" /\ rounds[i].todo # <<>>
      /\ \/ /\ n \notin present \/ (n \in avail /\ n \notin ToSet(polled))
            /\ rounds' = RemoveAt(rounds, i)
            /\ broken' = ~timer
         \/ /\ n \in present \ avail
            /\ rounds' = [rounds EXCEPT ![i].todo = Tail(@)]
            /\ UNCHANGED broken
         \/ /\ n \in present \cap avail \cap ToSet(polled)
            /\ rounds' = [rounds EXCEPT ![i].at = "read"]
            /\ UNCHANGED broken
      /\ UNCHANGED <<nodeVars, polled, timer>>

\* The read is answered, or fails and the failure is logged; then two seconds.
ReadEnds(i) ==
  /\ rounds[i].at = "read"
  /\ rounds' = [rounds EXCEPT ![i].at = "pause"]
  /\ UNCHANGED <<nodeVars, polled, timer, broken>>

PauseEnds(i) ==
  /\ rounds[i].at = "pause"
  /\ rounds' = [rounds EXCEPT ![i] = [at |-> "next", todo |-> Tail(@.todo)]]
  /\ UNCHANGED <<nodeVars, polled, timer, broken>>

\* Mutant: the next round is only scheduled when the table has changed.
RoundEndsUnscheduled(i) ==
  /\ rounds[i].at = "next" /\ rounds[i].todo = <<>>
  /\ rounds' = RemoveAt(rounds, i)
  /\ UNCHANGED <<nodeVars, polled, timer, broken>>

RoundEnds(i) ==
  /\ rounds[i].at = "next" /\ rounds[i].todo = <<>>
  /\ rounds' = RemoveAt(rounds, i)
  /\ Schedule(polled)
  /\ UNCHANGED <<nodeVars, polled>>

RoundStep == \E i \in DOMAIN rounds :
  \/ RoundStarts(i) \/ RoundNext(i) \/ ReadEnds(i) \/ PauseEnds(i) \/ RoundEnds(i)

PollerNext ==
  \/ \E n \in Nodes : \/ SetupBegins(n) \/ SetupEnds(n) \/ SetupFails(n)
                      \/ RemoveBegins(n) \/ RemoveDrops(n)
                      \/ AvailabilityChanges(n)
  \/ TimerFires \/ RoundStep

\* A timer that nobody arms again comes due, ready tasks run, and every read is answered
\* or times out.
PollerSpec ==
  /\ PollerInit /\ [][PollerNext]_pollerVars
  /\ WF_pollerVars(TimerFires) /\ WF_pollerVars(RoundStep)

-----------------------------------------------------------------------------
(***************************************************************************)
(* Properties.                                                             *)
(***************************************************************************)
PollerTypeOK ==
  /\ present \subseteq Nodes /\ avail \subseteq present /\ setup \subseteq Nodes
  /\ removing \subseteq present /\ revived \subseteq Nodes
  /\ polled \in Seq(Nodes)
  /\ rounds \in Seq([at : {"start", "next", "read", "pause"}, todo : Seq(Nodes)])
  /\ {timer, broken} \subseteq BOOLEAN

\* One round works at a time, although setups arm the timer in the middle of a
\* round that may last longer than the interval; and what is polled is a known
\* node, unless mDNS set it up while it was being removed.
OneRoundOfKnownNodes ==
  /\ Len(rounds) <= 1
  /\ ToSet(polled) \subseteq present \cup revived

Reads(n) == \E i \in DOMAIN rounds : rounds[i].at = "read" /\ Head(rounds[i].todo) = n

\* A node that stays available is polled again and again, unless setups keep
\* coming: each of them restarts the interval, and the timer it arms cancels the
\* round that is at work, before the later nodes of the table had their turn.
\* And a round that came upon a node that is gone stops the poller, until the
\* next setup.  (_schedule_custom_attributes_poller.)
PolledAgain ==
  \/ []<><<\E n \in Nodes : SetupEnds(n)>>_pollerVars
  \/ \A n \in Nodes : <>[](n \in avail /\ n \in ToSet(polled) /\ ~broken) => []<>Reads(n)

=============================================================================
