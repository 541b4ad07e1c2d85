---------------------------- MODULE UpdateCheck ----------------------------
(***************************************************************************)
(* Which software update a node is offered: _check_node_update in          *)
(* server/device_controller.py, check_for_update in server/ota/__init__.py *)
(* (local update files) and in server/ota/dcl.py (the DCL).                *)
(*                                                                         *)
(* Versions are integers; a version string is a name.  A description is    *)
(* what the guards read of it: its name, whether it is marked valid,       *)
(* whether it has a URL, and the versions it applies to.  The DCL is asked *)
(* for one version at a time; any of these requests may fail.              *)
(***************************************************************************)
EXTENDS Naturals, Sequences, FiniteSetsExt

CONSTANTS Versions,     \* software versions
          Names,        \* software version strings
          Descriptions, \* [name, valid, url, min, max]
          Files,        \* local update files: [version, desc]
          Unlisted,     \* the DCL does not know the version
          Latest        \* no particular version was requested

ASSUME SearchAssumption ==
  /\ Versions \subseteq Nat /\ IsFiniteSet(Versions)
  /\ Latest \notin Versions \cup Names /\ Versions \cap Names = {}
  /\ \A d \in Descriptions : d.name \in Names /\ d.min \in Nat /\ d.max \in Nat
  /\ \A f \in Files : f.version \in Versions /\ f.desc \in Descriptions

NoUpdate == [source |-> "none", version |-> 0]

VARIABLES
  dcl,       \* the DCL: a description for each version, or Unlisted
  current,   \* the node's version
  local,     \* _local_updates of the product: the files loaded, in order
  request,   \* the version or string asked for, or Latest
  todo,      \* the newer versions not tried yet
  phase,     \* load, asked, trying, or how the check ended
  answer     \* the update found

searchVars == <<dcl, current, local, request, todo, phase, answer>>

\* update_dict: under its version and under its string, the last file loaded.
LocalKeys == UNION {{local[i].version, local[i].desc.name} : i \in DOMAIN local}
LocalUpdate(k) ==
  local[Max({i \in DOMAIN local : k \in {local[i].version, local[i].desc.name}})]

-----------------------------------------------------------------------------
Load(f) ==
  /\ phase = "load" /\ \A i \in DOMAIN local : local[i] # f
  /\ local' = Append(local, f)
  /\ UNCHANGED <<dcl, current, request, todo, phase, answer>>

Ask(r) ==
  /\ phase = "load"
  /\ request' = r /\ phase' = "asked"
  /\ UNCHANGED <<dcl, current, local, todo, answer>>

\* _check_node_update refuses an update without a URL.
Found(source, v, desc) ==
  IF desc.url THEN phase' = "found" /\ answer' = [source |-> source, version |-> v]
              ELSE phase' = "no url" /\ UNCHANGED answer

LocalChoice ==
  IF request = Latest THEN Max({local[i].version : i \in DOMAIN local}) ELSE request

\* Local files come first: the newest of them, or the one requested.
HasLocal == local # <<>> /\ (request = Latest \/ request \in LocalKeys)
FindLocal ==
  /\ phase = "asked" /\ HasLocal
  /\ LET f == LocalUpdate(LocalChoice) IN Found("local", f.version, f.desc)
  /\ UNCHANGED <<dcl, current, local, request, todo>>

\* _check_update_version.
Applicable(v, name) ==
  /\ dcl[v] # Unlisted
  /\ name \in Names => dcl[v].name = name
  /\ dcl[v].valid /\ dcl[v].url
  /\ current >= dcl[v].min /\ current <= dcl[v].max

\* A particular version is fetched whatever the list says.
FetchExact ==
  /\ phase = "asked" /\ ~HasLocal /\ request \in Versions
  /\ dcl[request] # Unlisted
  /\ IF Applicable(request, Latest)
       THEN Found("dcl", request, dcl[request])
       ELSE phase' = "not found" /\ UNCHANGED answer
  /\ UNCHANGED <<dcl, current, local, request, todo>>

Newer == {v \in Versions : dcl[v] # Unlisted /\ v > current}

FetchList ==
  /\ phase = "asked" /\ ~HasLocal /\ request \notin Versions
  /\ todo' = Newer
  /\ phase' = IF Newer = {} THEN "not found" ELSE "trying"
  /\ UNCHANGED <<dcl, current, local, request, answer>>

\* Mutant: sorted without reverse.
OldestOf(S) == Min(S)

\* sorted(newer_software_versions, reverse=True): the newest that is left.
Candidate(S) == Max(S)

Try ==
  /\ phase = "trying"
  /\ LET v == Candidate(todo)
     IN  /\ todo' = todo \ {v}
         /\ IF Applicable(v, request)
              THEN Found("dcl", v, dcl[v])
              ELSE /\ phase' = IF todo' = {} THEN "not found" ELSE "trying"
                   /\ UNCHANGED answer
  /\ UNCHANGED <<dcl, current, local, request>>

\* A request to the DCL fails, or an exact one is answered with 404.
FetchFails ==
  /\ \/ phase = "trying"
     \/ phase = "asked" /\ ~HasLocal
  /\ phase' = "error"
  /\ UNCHANGED <<dcl, current, local, request, todo, answer>>

-----------------------------------------------------------------------------
SearchInit ==
  /\ dcl \in [Versions -> Descriptions \cup {Unlisted}]
  /\ current \in Versions
  /\ local = <<>> /\ request = Latest /\ todo = {}
  /\ phase = "load" /\ answer = NoUpdate

SearchNext ==
  \/ \E f \in Files : Load(f)
  \/ \E r \in Versions \cup Names \cup {Latest} : Ask(r)
  \/ FindLocal \/ FetchExact \/ FetchList \/ Try \/ FetchFails

SearchSpec == SearchInit /\ [][SearchNext]_searchVars

-----------------------------------------------------------------------------
(***************************************************************************)
(* Properties.                                                             *)
(***************************************************************************)
SearchTypeOK ==
  /\ dcl \in [Versions -> Descriptions \cup {Unlisted}] /\ current \in Versions
  /\ local \in Seq(Files) /\ request \in Versions \cup Names \cup {Latest}
  /\ todo \subseteq Versions
  /\ phase \in {"load", "asked", "trying", "found", "not found", "no url", "error"}
  /\ answer \in [source : {"local", "dcl"}, version : Versions] \cup {NoUpdate}

\* What the DCL offers a node that asks for no particular version: every
\* version newer than its own that is published for it.
Offered(name) ==
  {v \in Versions : /\ v > current /\ dcl[v] # Unlisted
                    /\ dcl[v].valid /\ dcl[v].url
                    /\ current \in dcl[v].min..dcl[v].max
                    /\ name = Latest \/ dcl[v].name = name}

\* The DCL's answer is the newest version it offers, there is an answer whenever
\* it offers one (the backtracking in check_for_update), and what was found is
\* what was requested, wherever it comes from.
SearchIsRight ==
  /\ request \in Names \cup {Latest} =>
       /\ answer.source = "dcl" => answer.version = Max(Offered(request))
       /\ phase = "not found" => Offered(request) = {}
  /\ phase = "found" =>
       /\ request \in Versions => answer.version = request
       /\ request \in Names =>
            IF answer.source = "dcl" THEN dcl[answer.version].name = request
            ELSE \E f \in Files : f.version = answer.version /\ f.desc.name = request

=============================================================================
