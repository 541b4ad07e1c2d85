---------------------------- MODULE MatterServer ----------------------------
(***************************************************************************)
(* server/server.py: start() and stop() of the server process, composed    *)
(* with its storage (module Storage, whose actions are taken here at the   *)
(* points where the server calls them or its tasks run).                   *)
(*                                                                         *)
(* start(): the PAA certificates (helpers/paa_certificates.py), the device *)
(* controller, storage, vendor information, the stored nodes, the web      *)
(* server.  stop(): the web server, the SDK's subscriptions (sdk.py        *)
(* shutdown), storage, the SDK stack.  Any await of start() may raise, and *)
(* the process may be told to stop, or die, at any time.                   *)
(*                                                                         *)
(* The subscriptions matter here only while shutdown() walks over them, so *)
(* subs is given a value when the walk begins.  Whether the certificate    *)
(* marker is older than a day is decided when it is read.                  *)
(***************************************************************************)
EXTENDS Storage

CONSTANTS Devices,       \* nodes that may have a subscription
          Certificates,  \* the PAA certificates the sources list
          Source(_)      \* where a certificate is fetched from

VARIABLES
  stage,   \* how far start() or stop() is
  subs,    \* _subscriptions of the SDK wrapper, while shutdown() runs
  visited, \* subscriptions shut down so far, and their number at the start
  certs,   \* certificates in paa_root_cert_dir
  marker,  \* paa_root_cert_dir/.version exists
  wanted,  \* certificates this start has yet to fetch
  gap,     \* history: a download failed in the fetch that wrote the marker
  missed,  \* history: a download failed in this start
  due      \* history: what was requested to be saved when the SDK was down

certVars   == <<certs, marker, wanted, gap, missed>>
walkVars   == <<subs, visited>>
serverVars == <<stage, walkVars, certVars, due>>
allVars    == <<vars, serverVars>>

Starting == {"check", "fetch", "load", "vendors", "nodes", "mount"}

\* The nodes are loaded and mDNS, subscriptions and commands run.
NodesUp == stage \in {"mount", "headless", "serving", "closing", "unsubscribing",
                      "saving", "stopping"}

NoWalk == [size |-> 0, done |-> {}]

ServerInit ==
  /\ Init
  /\ stage = "off" /\ subs = {} /\ visited = NoWalk
  /\ certs = {} /\ marker = FALSE /\ wanted = {}
  /\ gap = FALSE /\ missed = FALSE
  /\ due = 0

Goto(s) == stage' = s

-----------------------------------------------------------------------------
(***************************************************************************)
(* start()                                                                 *)
(***************************************************************************)
Launch ==
  /\ stage = "off"
  /\ Goto("check")
  /\ missed' = FALSE
  /\ UNCHANGED <<vars, walkVars, certs, marker, wanted, gap, due>>

\* Mutant: the marker is written when the directory is prepared.
CheckCertificatesMarked ==
  /\ stage = "check"
  /\ certs' = IF marker THEN certs ELSE {}
  /\ marker' = TRUE
  /\ \/ marker /\ Goto("load") /\ UNCHANGED <<wanted, gap>>
     \/ Goto("fetch") /\ wanted' = Certificates /\ gap' = FALSE
  /\ UNCHANGED <<vars, walkVars, missed, due>>

\* _check_paa_root_dir and the test of the marker's age: a directory without
\* marker is emptied; a marker younger than a day means nothing to fetch.
CheckCertificates ==
  /\ stage = "check"
  /\ certs' = IF marker THEN certs ELSE {}
  /\ \/ marker /\ Goto("load") /\ UNCHANGED wanted
     \/ Goto("fetch") /\ wanted' = Certificates
  /\ UNCHANGED <<vars, walkVars, marker, gap, missed, due>>

FetchCertificate ==
  /\ stage = "fetch"
  /\ \E c \in wanted : /\ certs' = certs \cup {c}
                       /\ wanted' = wanted \ {c}
  /\ UNCHANGED <<vars, stage, walkVars, marker, gap, missed, due>>

\* A ClientError or TimeoutError ends the fetch from that source.
SourceFails ==
  /\ stage = "fetch"
  /\ \E c \in wanted : wanted' = {d \in wanted : Source(d) # Source(c)}
  /\ missed' = TRUE
  /\ UNCHANGED <<vars, stage, walkVars, certs, marker, gap, due>>

\* The marker comes last, whether the sources answered or not.  Then the
\* controller is created and initialize() called.
MarkCertificates ==
  /\ stage = "fetch" /\ wanted = {}
  /\ marker' = TRUE /\ gap' = missed
  /\ Goto("load")
  /\ UNCHANGED <<vars, walkVars, certs, wanted, missed, due>>

LoadStorage ==
  /\ stage = "load"
  /\ Start
  /\ Goto("vendors")
  /\ UNCHANGED <<walkVars, certVars, due>>

\* vendor_info.start(): the vendors known so far, with int and, from storage,
\* str keys, never equal what is stored: always a delayed save.
FetchVendors ==
  /\ stage = "vendors"
  /\ Set(TRUE, FALSE)
  /\ Goto("nodes")
  /\ UNCHANGED <<walkVars, certVars, due>>

\* device_controller.start(): left-over nodes are removed from storage.
LoadNodes ==
  /\ stage = "nodes"
  /\ \/ Remove /\ UNCHANGED stage
     \/ Goto("mount") /\ UNCHANGED vars
  /\ UNCHANGED <<walkVars, certVars, due>>

Serve ==
  /\ stage = "mount"
  /\ Goto("serving")
  /\ UNCHANGED <<vars, walkVars, certVars, due>>

\* An exception in start() is logged and the loop keeps running.
StartFails ==
  /\ stage \in Starting
  /\ Goto(IF stage = "mount" THEN "headless" ELSE "stillborn")
  /\ UNCHANGED <<vars, walkVars, certVars, due>>

-----------------------------------------------------------------------------
(***************************************************************************)
(* stop()                                                                  *)
(***************************************************************************)
\* "Server not started.": raised before anything is stopped.
StopUnstarted ==
  /\ stage \in Starting \cup {"headless", "stillborn"}
  /\ Goto("failed")
  /\ UNCHANGED <<vars, walkVars, certVars, due>>

StopServing ==
  /\ stage = "serving"
  /\ Goto("closing")
  /\ UNCHANGED <<vars, walkVars, certVars, due>>

\* The web server is down, mDNS closed and the setup tasks cancelled; the loop
\* of ChipDeviceControllerWrapper.shutdown() begins.
CloseWeb ==
  /\ stage = "closing"
  /\ Goto("unsubscribing")
  /\ \E open \in SUBSET Devices :
       /\ subs' = open
       /\ visited' = [size |-> Cardinality(open), done |-> {}]
  /\ UNCHANGED <<vars, certVars, due>>

\* One turn of the loop: a dictionary that changed its size since the loop
\* began raises, and stop() with it; else the next subscription is shut down,
\* or all are and the SDK controller is shut down.
NextSubscription ==
  /\ stage = "unsubscribing"
  /\ IF Cardinality(subs) # visited.size
     THEN Goto("failed") /\ UNCHANGED <<walkVars, due>>
     ELSE \/ /\ subs \subseteq visited.done
             /\ subs' = {} /\ visited' = NoWalk
             /\ due' = requested
             /\ Goto("saving")
          \/ /\ \E d \in subs \ visited.done :
                  visited' = [visited EXCEPT !.done = @ \cup {d}]
             /\ UNCHANGED <<stage, subs, due>>
  /\ UNCHANGED <<vars, certVars>>

StopStorage ==
  /\ stage = "saving"
  /\ Stop
  /\ Goto("stopping")
  /\ UNCHANGED <<walkVars, certVars, due>>

\* Mutant: storage.stop() is not awaited.
ShutDownStackAtOnce ==
  /\ stage = "stopping"
  /\ Goto("ended")
  /\ UNCHANGED <<vars, walkVars, certVars, due>>

\* storage.stop() returned and stack.shutdown() ends the process.
ShutDownStack ==
  /\ stage = "stopping" /\ life = "stopped"
  /\ Goto("ended")
  /\ UNCHANGED <<vars, walkVars, certVars, due>>

\* The files stay; the process goes once no executor thread writes.
LeaveNothing ==
  /\ stage' = "off" /\ subs' = {} /\ visited' = NoWalk
  /\ wanted' = {} /\ missed' = FALSE /\ due' = 0
  /\ UNCHANGED <<certs, marker, gap>>
  /\ IF life = "down" THEN UNCHANGED vars ELSE ProcessGone

Terminate == stage \in {"ended", "failed"} /\ phase = "idle" /\ LeaveNothing

PowerCut == stage # "off" /\ LeaveNothing

-----------------------------------------------------------------------------
(***************************************************************************)
(* What else runs: tasks and commands that change the data, the saves, and *)
(* the setup and offline tasks that come and go with the subscriptions.    *)
(***************************************************************************)
Change ==
  /\ NodesUp
  /\ \/ \E changed, force \in BOOLEAN : Set(changed, force)
     \/ Remove \/ StoreNode \/ UpdateNode
  /\ UNCHANGED serverVars

SaveRuns ==
  /\ stage # "off"
  /\ TimerRuns \/ SaveStep
  /\ UNCHANGED serverVars

SubscriptionsChange ==
  /\ stage = "unsubscribing"
  /\ \E d \in Devices :
       IF d \in subs THEN subs' = subs \ {d} /\ UNCHANGED visited
                     ELSE /\ subs' = subs \cup {d}
                          /\ visited' = [visited EXCEPT !.done = @ \ {d}]
  /\ UNCHANGED <<vars, stage, certVars, due>>

ServerNext ==
  \/ Launch \/ CheckCertificates \/ FetchCertificate \/ SourceFails
  \/ MarkCertificates \/ LoadStorage \/ FetchVendors \/ LoadNodes \/ Serve
  \/ StartFails \/ StopUnstarted \/ StopServing \/ CloseWeb
  \/ NextSubscription \/ StopStorage \/ ShutDownStack \/ Terminate
  \/ PowerCut \/ Change \/ SaveRuns \/ SubscriptionsChange

ServerSpec == ServerInit /\ [][ServerNext]_allVars

\* The loop runs due timers and ready tasks; the executor thread runs.
FairServerSpec ==
  /\ ServerSpec
  /\ WF_allVars(TimerRuns /\ UNCHANGED serverVars)
  /\ WF_allVars(SaveStep /\ UNCHANGED serverVars)

-----------------------------------------------------------------------------
(***************************************************************************)
(* Properties.                                                             *)
(***************************************************************************)
ServerTypeOK ==
  /\ TypeOK
  /\ stage \in Starting \cup {"off", "serving", "headless", "stillborn", "closing",
                              "unsubscribing", "saving", "stopping", "ended",
                              "failed"}
  /\ subs \subseteq Devices
  /\ visited.size \in Nat /\ visited.done \subseteq Devices
  /\ certs \subseteq Certificates /\ wanted \subseteq Certificates
  /\ {marker, gap, missed} \subseteq BOOLEAN
  /\ due \in Nat

\* When stop() ends without an exception, whatever was to be saved when the
\* last subscription was shut down is on disk.  (Storage is stopped last, and it
\* is the handle of a delayed save, that of the vendor information or of a
\* node, that makes it write: with no handle set, forced saves that are still
\* queued are given up, and only they.)
StopKeepsRequests ==
  stage = "ended" => Loaded >= due \/ (stopDue = 0 /\ WillWrite(due))

\* A certificate directory with a marker, which is not looked at again for a
\* day, has every certificate, unless a download failed: not even a crash in the
\* middle of fetching leaves a partial directory that looks complete.
MarkedIsComplete == marker /\ ~gap => certs = Certificates

=============================================================================
