----------------------------- MODULE GroupKeys -----------------------------
(***************************************************************************)
(* The group key management of server/device_controller.py: group_add,     *)
(* group_remove, group_remove_all, group_reset_node, group_key_set_remove, *)
(* the keyset refresh of send_group_command and the commands that write a  *)
(* device's tables directly (group_add_key_set, group_bind_key_set,        *)
(* set_acl_entry), against the group tables of the devices.                *)
(*                                                                         *)
(* A call is a sequence of exchanges with one device, each followed by the *)
(* code up to the next await: one action stands for an exchange and that   *)
(* code.  Between two actions of a call any other call may run.  What a    *)
(* call read and still holds is in its record.                             *)
(*                                                                         *)
(* One group-capable endpoint per node; only the Group entries of the ACL; *)
(* epoch keys are numbers drawn in order.  group_keys and node_keysets are *)
(* written to storage in the step that changes the memory copy, so only    *)
(* group_nodes, which is not always written, has a stored copy of its own. *)
(***************************************************************************)
EXTENDS Naturals, FiniteSets

CONSTANTS Nodes,     \* node ids
          Groups,    \* group ids
          Calls,     \* identities of concurrent API calls
          Settings,  \* the networks, devices and clients considered
          MaxKey     \* bound on generated epoch keys

KeysetId(g) == (g % 65534) + 1

Kids   == {KeysetId(g) : g \in Groups}
Keys   == 1..MaxKey
NoKey  == 0
NoKid  == 0
NoKeyset == [kid |-> NoKid, key |-> NoKey]
BruteForceRange == 1..63

(***************************************************************************)
(* A setting: an exchange may fail, before or after its effect (faults);   *)
(* the server may restart (restarts); the sizes of a device's keyset table *)
(* and group table; the devices expose GroupKeyTable; how many epoch keys  *)
(* are drawn; the API commands clients use, and the nodes each call is for.*)
(***************************************************************************)
SettingTypes ==
  [faults : BOOLEAN, restarts : BOOLEAN, keysetSlots : Nat,
   groupSlots : Nat \ {0}, exposed : BOOLEAN, keys : 0..MaxKey,
   operations : SUBSET {"add", "remove", "removeall", "reset", "keysetremove",
                        "send", "keysetadd", "bind", "setacl"},
   nodesOf : [Calls -> SUBSET Nodes]]

LastGroupId == 65527   \* docs/websockets_api.md: group_id is 1-65527

ASSUME GroupsAssumption ==
  /\ Groups \subseteq 1..LastGroupId /\ IsFiniteSet(Nodes)
  /\ MaxKey \in Nat
  /\ Settings \subseteq SettingTypes

VARIABLES
  setting,     \* the setting, fixed for one behaviour
  keyStore,    \* _group_key_store
  tracker,     \* _known_keysets_per_node
  provisioned, \* _group_provisioned_nodes
  savedNodes,  \* group_nodes in storage
  lastKey,     \* the epoch keys generated so far
  call,        \* what each API call is doing and holds
  keyset,      \* device: keyset table, the key under each keyset id
  keyMap,      \* device: GroupKeyMap
  member,      \* device: group table of the endpoint
  acl          \* device: groups with a Group-auth entry in the ACL

controllerVars == <<keyStore, tracker, provisioned, savedNodes, lastKey>>
deviceVars     == <<keyset, keyMap, member, acl>>
vars == <<setting, controllerVars, call, deviceVars>>

Faults       == setting.faults
KeysetSlots  == setting.keysetSlots
GroupSlots   == setting.groupSlots
TableExposed == setting.exposed
Operations   == setting.operations
NodesOf(t)   == setting.nodesOf[t]

NoMap == [g \in Groups |-> NoKid]

Idle == [pc |-> "idle", op |-> "none", node |-> 0, targets |-> {}, kid |-> NoKid,
         key |-> NoKey, todo |-> {}, seenMap |-> NoMap, seenAcl |-> {},
         cleaned |-> FALSE]

Installed(n) == {k \in Kids : keyset[n][k] # NoKey}
Referenced(m) == {m[g] : g \in Groups} \ {NoKid}
StoreIds == {keyStore[g].kid : g \in Groups} \ {NoKid}

(***************************************************************************)
(* Exchanges.  With Faults an exchange may raise, its effect on the device *)
(* done or not.                                                            *)
(***************************************************************************)
At(t, pc)      == call[t].pc = pc
Goto(t, pc)    == call' = [call EXCEPT ![t].pc = pc]
Return(t)      == call' = [call EXCEPT ![t] = Idle]
node(t)        == call[t].node
TheGroup(t)    == CHOOSE g \in call[t].targets : TRUE

HasRoom(n, k) == keyset[n][k] # NoKey \/ Cardinality(Installed(n)) < KeysetSlots
WriteKeyset(n, k, v) == keyset' = [keyset EXCEPT ![n][k] = v]
Forget(n, k) == tracker' = [tracker EXCEPT ![n] = @ \ {k}]
Note(n, k)   == tracker' = [tracker EXCEPT ![n] = @ \cup {k}]

-----------------------------------------------------------------------------
(***************************************************************************)
(* group_add up to the keyset: the key of the group is generated and       *)
(* stored if it has none, then the group table is checked.                 *)
(***************************************************************************)
AddBegin(t, n, g) ==
  /\ "add" \in Operations /\ At(t, "idle")
  /\ LET new == keyStore[g] = NoKeyset
         ks  == IF new THEN [kid |-> KeysetId(g), key |-> lastKey + 1]
                       ELSE keyStore[g]
     IN /\ new => lastKey < setting.keys
        /\ lastKey' = IF new THEN lastKey + 1 ELSE lastKey
        /\ keyStore' = [keyStore EXCEPT ![g] = ks]
        /\ call' = [call EXCEPT ![t] =
             [Idle EXCEPT !.pc = "capacity", !.op = "add", !.node = n,
                          !.targets = {g}, !.kid = ks.kid, !.key = ks.key]]
  /\ UNCHANGED <<tracker, provisioned, savedNodes, deviceVars>>

\* Devices need not report a capacity; then the call goes on as if there were
\* room.  It ends here on an error, or when the table is reported full and no
\* group is listed.
AddCapacity(t) ==
  /\ At(t, "capacity")
  /\ LET listed == member[node(t)]
         full == call[t].targets \cap listed = {} /\ Cardinality(listed) >= GroupSlots
     IN \/ Goto(t, "write")
        \/ /\ full
           /\ \E oldest \in listed :
                call' = [call EXCEPT ![t].pc = "evict", ![t].todo = {oldest}]
        \/ Faults /\ Return(t)
  /\ UNCHANGED <<controllerVars, deviceVars>>

\* The device lists its groups in an order of its own: the first is any of them.
AddEvict(t) ==
  /\ At(t, "evict")
  /\ \/ member' = [member EXCEPT ![node(t)] = @ \ call[t].todo]
     \/ Faults /\ UNCHANGED member
  /\ Goto(t, "write") \/ (Faults /\ Return(t))
  /\ UNCHANGED <<controllerVars, keyset, keyMap, acl>>

(***************************************************************************)
(* _provision_group_keys_on_node: KeySetWrite, on ResourceExhausted the    *)
(* cleanup and a retry, then the reuse of a keyset, then GroupKeyMap.  An  *)
(* error other than ResourceExhausted leads group_add on to AddGroup.      *)
(***************************************************************************)
AddKeyWrite(t) ==
  /\ At(t, "write") \/ At(t, "rewrite")
  /\ LET n == node(t)  k == call[t].kid IN
       \/ /\ HasRoom(n, k)
          /\ WriteKeyset(n, k, call[t].key)
          /\ Note(n, k)
          /\ Goto(t, "bindRead")
       \/ /\ ~HasRoom(n, k)
          /\ Goto(t, IF At(t, "write") THEN "cleanRead" ELSE "fallback")
          /\ UNCHANGED <<tracker, keyset>>
       \/ /\ Faults
          /\ (HasRoom(n, k) /\ WriteKeyset(n, k, call[t].key)) \/ UNCHANGED keyset
          /\ Goto(t, "addGroup")
          /\ UNCHANGED tracker
  /\ UNCHANGED <<keyStore, provisioned, savedNodes, lastKey, keyMap, member, acl>>

\* A keyset the store knows the key of and the device's GroupKeyMap refers to
\* takes the place of the group's own; with none, InvalidArguments.
AddReuse(t) ==
  /\ At(t, "fallback")
  /\ \E m \in {keyMap[node(t)]} \cup (IF Faults THEN {NoMap} ELSE {}) :
       LET g == TheGroup(t)
           reusable == StoreIds \cap Referenced(m)
           Lowest(k) == k \in reusable /\ \A j \in reusable : k <= j
       IN IF reusable = {}
            THEN Return(t) /\ UNCHANGED <<keyStore, tracker>>
            ELSE \E h \in {h \in Groups : Lowest(keyStore[h].kid)} :
                   /\ keyStore' = [keyStore EXCEPT ![g] = keyStore[h]]
                   /\ Note(node(t), keyStore[h].kid)
                   /\ call' = [call EXCEPT ![t].pc = "bindRead",
                                           ![t].kid = keyStore[h].kid,
                                           ![t].key = keyStore[h].key]
  /\ UNCHANGED <<provisioned, savedNodes, lastKey, deviceVars>>

\* _get_node_group_key_map: an error reads as an empty map.
ReadMap(t, next) ==
  /\ \E m \in {keyMap[node(t)]} \cup (IF Faults THEN {NoMap} ELSE {}) :
       call' = [call EXCEPT ![t].seenMap = m, ![t].pc = next]
  /\ UNCHANGED <<controllerVars, deviceVars>>

AddBindRead(t) == At(t, "bindRead") /\ ReadMap(t, "bindWrite")

AddBindWrite(t) ==
  /\ At(t, "bindWrite")
  /\ \/ keyMap' = [keyMap EXCEPT ![node(t)] =
          [call[t].seenMap EXCEPT ![TheGroup(t)] = call[t].kid]]
     \/ Faults /\ UNCHANGED keyMap
  /\ Goto(t, "addGroup")
  /\ UNCHANGED <<controllerVars, keyset, member, acl>>

\* A full table answers with a status the code does not look at.
AddGroup(t) ==
  /\ At(t, "addGroup")
  /\ \/ member' = [member EXCEPT ![node(t)] =
          IF Cardinality(@ \cup call[t].targets) > GroupSlots
            THEN @ ELSE @ \cup call[t].targets]
     \/ Faults /\ UNCHANGED member
  /\ Goto(t, "aclRead") \/ (Faults /\ Return(t))
  /\ UNCHANGED <<controllerVars, keyset, keyMap, acl>>

(***************************************************************************)
(* _cleanup_unused_keysets_on_node, for group_add and for the removals.    *)
(***************************************************************************)
CleanRead(t) == At(t, "cleanRead") /\ ReadMap(t, "cleanList")

\* Mutant: a cleanup that removed nothing is tried again.
AfterCleanupAgain(t, cleaned) ==
  CASE call[t].op # "add" -> "aclRead"
    [] call[t].op = "add" /\ cleaned -> "rewrite"
    [] OTHER -> "cleanRead"

AfterCleanup(t, cleaned) ==
  CASE call[t].op # "add" -> "aclRead"
    [] call[t].op = "add" /\ cleaned -> "rewrite"
    [] OTHER -> "fallback"

CleanListAll(t) ==
  /\ At(t, "cleanList")
  /\ call' = [call EXCEPT ![t].todo = tracker[node(t)], ![t].cleaned = FALSE,
       ![t].pc = IF tracker[node(t)] = {} THEN AfterCleanup(t, FALSE)
                                          ELSE "cleanRemove"]
  /\ UNCHANGED <<controllerVars, deviceVars>>

\* Tier 1 the device's table, tier 2 the tracker, tier 3 brute force.
Listed(n, exposed) ==
  LET table == IF exposed THEN Installed(n) ELSE {}
  IN CASE table # {} -> table
       [] table = {} /\ tracker[n] # {} -> tracker[n]
       [] OTHER -> (BruteForceRange \cap Kids) \cup StoreIds

CleanList(t) ==
  /\ At(t, "cleanList")
  /\ \E exposed \in {TableExposed} \cup (IF Faults THEN {FALSE} ELSE {}) :
       LET orphaned == Listed(node(t), exposed) \ Referenced(call[t].seenMap)
       IN call' = [call EXCEPT ![t].todo = orphaned, ![t].cleaned = FALSE,
            ![t].pc = IF orphaned = {} THEN AfterCleanup(t, FALSE)
                                       ELSE "cleanRemove"]
  /\ UNCHANGED <<controllerVars, deviceVars>>

CleanRemove(t) ==
  /\ At(t, "cleanRemove")
  /\ \E k \in call[t].todo :
       LET n == node(t)
           rest == call[t].todo \ {k}
           Done(cleaned) ==
             call' = [call EXCEPT ![t].todo = rest, ![t].cleaned = cleaned,
               ![t].pc = IF rest = {} THEN AfterCleanup(t, cleaned) ELSE @]
       IN \/ /\ k \in Installed(n)
             /\ WriteKeyset(n, k, NoKey)
             /\ Forget(n, k)
             /\ Done(TRUE)
          \/ /\ k \notin Installed(n) \/ Faults
             /\ WriteKeyset(n, k, NoKey) \/ UNCHANGED keyset
             /\ UNCHANGED tracker
             /\ Done(call[t].cleaned)
  /\ UNCHANGED <<keyStore, provisioned, savedNodes, lastKey, keyMap, member, acl>>

-----------------------------------------------------------------------------
(***************************************************************************)
(* group_remove and group_remove_all: RemoveGroup on the endpoints, the    *)
(* bindings stripped from GroupKeyMap, the cleanup, the ACL, the tracker.  *)
(***************************************************************************)
RemoveBegin(t, n, g) ==
  /\ "remove" \in Operations /\ At(t, "idle")
  /\ call' = [call EXCEPT ![t] = [Idle EXCEPT
       !.pc = "drop", !.op = "remove", !.node = n, !.targets = {g}]]
  /\ UNCHANGED <<controllerVars, deviceVars>>

RemoveAllBegin(t, n) ==
  /\ "removeall" \in Operations /\ At(t, "idle")
  /\ \E listed \in {member[n]} \cup (IF Faults THEN {{}} ELSE {}) :
       call' = [call EXCEPT ![t] = [Idle EXCEPT
         !.pc = IF listed = {} THEN "cleanRead" ELSE "drop",
         !.op = "removeall", !.node = n, !.targets = listed]]
  /\ UNCHANGED <<controllerVars, deviceVars>>

\* The RemoveGroup commands, one after the other in the code, are one action:
\* nothing is read between them.  Errors are suppressed.
RemoveDrop(t) ==
  /\ At(t, "drop")
  /\ \E gone \in IF Faults THEN SUBSET call[t].targets ELSE {call[t].targets} :
       member' = [member EXCEPT ![node(t)] = @ \ gone]
  /\ Goto(t, "stripRead")
  /\ UNCHANGED <<controllerVars, keyset, keyMap, acl>>

RemoveStripRead(t) == At(t, "stripRead") /\ ReadMap(t, "stripWrite")

RemoveStripOnly(t) ==
  /\ At(t, "stripWrite")
  /\ keyMap' = [keyMap EXCEPT ![node(t)] =
       [g \in Groups |-> IF g \in call[t].targets THEN NoKid ELSE call[t].seenMap[g]]]
  /\ Goto(t, "aclRead")
  /\ UNCHANGED <<controllerVars, keyset, member, acl>>

RemoveStripWrite(t) ==
  /\ At(t, "stripWrite")
  /\ \/ /\ keyMap' = [keyMap EXCEPT ![node(t)] =
             [g \in Groups |-> IF g \in call[t].targets THEN NoKid
                                                        ELSE call[t].seenMap[g]]]
        /\ Goto(t, "cleanRead") \/ (Faults /\ Return(t))
     \/ Faults /\ UNCHANGED keyMap /\ Return(t)
  /\ UNCHANGED <<controllerVars, keyset, member, acl>>

(***************************************************************************)
(* group_reset_node: every keyset the server can name is removed, then the *)
(* map and the ACL entries; last, the server forgets the node.             *)
(***************************************************************************)
ResetBegin(t, n) ==
  /\ "reset" \in Operations /\ At(t, "idle")
  /\ LET targeted == tracker[n] \cup
           {keyStore[g].kid : g \in {h \in Groups : n \in provisioned[h]}}
     IN call' = [call EXCEPT ![t] = [Idle EXCEPT
          !.pc = "sweep", !.op = "reset", !.node = n, !.targets = Groups,
          !.todo = (targeted \cup (BruteForceRange \cap Kids)) \ {NoKid}]]
  /\ UNCHANGED <<controllerVars, deviceVars>>

ResetSweep(t) ==
  /\ At(t, "sweep")
  /\ IF call[t].todo = {}
       THEN Goto(t, "mapClear") /\ UNCHANGED keyset
       ELSE \E k \in call[t].todo :
              /\ WriteKeyset(node(t), k, NoKey) \/ (Faults /\ UNCHANGED keyset)
              /\ call' = [call EXCEPT ![t].todo = @ \ {k}]
  /\ UNCHANGED <<controllerVars, keyMap, member, acl>>

ResetMapClear(t) ==
  /\ At(t, "mapClear")
  /\ keyMap' = [keyMap EXCEPT ![node(t)] = NoMap] \/ (Faults /\ UNCHANGED keyMap)
  /\ Goto(t, "aclRead")
  /\ UNCHANGED <<controllerVars, keyset, member, acl>>

-----------------------------------------------------------------------------
(***************************************************************************)
(* The end of a call: the server's own records.                            *)
(***************************************************************************)
AddFinishUnsaved(n, t) ==
  /\ provisioned' = [provisioned EXCEPT ![TheGroup(t)] = @ \cup {n}]
  /\ UNCHANGED <<keyStore, tracker, savedNodes>>

\* group_add records the node, whatever failed before.
AddFinish(n, t) ==
  LET g == TheGroup(t) IN
  /\ provisioned' = [provisioned EXCEPT ![g] = @ \cup {n}]
  /\ savedNodes' = [savedNodes EXCEPT ![g] = provisioned[g] \cup {n}]
  /\ UNCHANGED <<keyStore, tracker>>

RemoveFinish(n, t) ==
  LET changed == {g \in Groups : /\ n \in provisioned[g]
                                 /\ call[t].op = "remove" => g \in call[t].targets}
      less(g) == provisioned[g] \ {n}
  IN /\ provisioned' = [g \in Groups |->
                          IF g \in changed THEN less(g) ELSE provisioned[g]]
     /\ savedNodes' = [g \in Groups |->
                         IF g \in changed THEN less(g) ELSE savedNodes[g]]
     /\ UNCHANGED <<keyStore, tracker>>

\* Groups whose last provisioned node goes lose their key.
ResetFinishStale(n, t) ==
  /\ tracker' = [tracker EXCEPT ![n] = {}]
  /\ keyStore' = [g \in Groups |-> IF provisioned[g] = {n} THEN NoKeyset
                                                           ELSE keyStore[g]]
  /\ UNCHANGED <<provisioned, savedNodes>>

ResetFinish(n, t) ==
  LET affected == {g \in Groups : n \in provisioned[g]}
      purged   == {g \in affected : provisioned[g] = {n}}
  IN /\ tracker' = [tracker EXCEPT ![n] = {}]
     /\ provisioned' = [g \in Groups |-> provisioned[g] \ {n}]
     /\ keyStore' = [g \in Groups |-> IF g \in purged THEN NoKeyset
                                                      ELSE keyStore[g]]
     /\ savedNodes' = [g \in Groups |-> IF g \in affected \ purged
                         THEN provisioned[g] \ {n} ELSE savedNodes[g]]

Finish(t) ==
  /\ Return(t)
  /\ CASE call[t].op = "add" -> AddFinish(node(t), t)
       [] call[t].op = "reset" -> ResetFinish(node(t), t)
       [] OTHER -> RemoveFinish(node(t), t)
  /\ UNCHANGED lastKey

(***************************************************************************)
(* _ensure_group_acl_on_node, _remove_group_acl_on_node and                *)
(* _remove_all_group_acl_entries_on_node: read, then write unless the list *)
(* is already as wanted; any error ends them and the call goes on.         *)
(***************************************************************************)
WantedAcl(t, seen) ==
  CASE call[t].op = "add" -> seen \cup call[t].targets
    [] call[t].op = "remove" -> seen \ call[t].targets
    [] OTHER -> {}

AclRead(t) ==
  /\ At(t, "aclRead")
  /\ \/ /\ WantedAcl(t, acl[node(t)]) # acl[node(t)]
        /\ call' = [call EXCEPT ![t].pc = "aclWrite",
                                ![t].seenAcl = acl[node(t)]]
        /\ UNCHANGED controllerVars
     \/ /\ Faults \/ WantedAcl(t, acl[node(t)]) = acl[node(t)]
        /\ Finish(t)
  /\ UNCHANGED deviceVars

AclWrite(t) ==
  /\ At(t, "aclWrite")
  /\ \/ acl' = [acl EXCEPT ![node(t)] = WantedAcl(t, call[t].seenAcl)]
     \/ Faults /\ UNCHANGED acl
  /\ Finish(t)
  /\ UNCHANGED <<keyset, keyMap, member>>

(***************************************************************************)
(* group_key_set_remove: one command; NOT_FOUND and other errors reach the *)
(* client before the server's records change.                              *)
(***************************************************************************)
KeysetRemoveKeepsNodes(t, n, k) ==
  /\ "keysetremove" \in Operations /\ At(t, "idle")
  /\ k \in Installed(n)
  /\ WriteKeyset(n, k, NoKey)
  /\ Forget(n, k)
  /\ UNCHANGED <<keyStore, provisioned, savedNodes, lastKey, call, keyMap, member, acl>>

KeysetRemove(t, n, k) ==
  /\ "keysetremove" \in Operations /\ At(t, "idle")
  /\ k \in Installed(n)
  /\ WriteKeyset(n, k, NoKey)
  /\ \/ LET using  == {g \in Groups : keyStore[g].kid = k}
            purged == {g \in using : provisioned[g] \subseteq {n}}
        IN /\ Forget(n, k)
           /\ provisioned' = [g \in Groups |->
                IF g \in using THEN provisioned[g] \ {n} ELSE provisioned[g]]
           /\ keyStore' = [g \in Groups |->
                IF g \in purged THEN NoKeyset ELSE keyStore[g]]
           /\ savedNodes' = [g \in Groups |-> IF g \in using \ purged
                THEN provisioned[g] \ {n} ELSE savedNodes[g]]
     \/ Faults /\ UNCHANGED <<keyStore, tracker, provisioned, savedNodes>>
  /\ UNCHANGED <<lastKey, call, keyMap, member, acl>>

(***************************************************************************)
(* send_group_command: the keyset is written again to every node that is   *)
(* recorded as provisioned; errors are logged.  The groupcast itself       *)
(* changes nothing here.                                                   *)
(***************************************************************************)
SendBegin(t, g) ==
  /\ "send" \in Operations /\ At(t, "idle") /\ NodesOf(t) # {}
  /\ keyStore[g] # NoKeyset /\ provisioned[g] # {}
  /\ call' = [call EXCEPT ![t] = [Idle EXCEPT
       !.pc = "refresh", !.op = "send", !.kid = keyStore[g].kid,
       !.key = keyStore[g].key, !.todo = provisioned[g]]]
  /\ UNCHANGED <<controllerVars, deviceVars>>

SendRefresh(t) ==
  /\ At(t, "refresh")
  /\ \E n \in call[t].todo :
       LET k == call[t].kid
           rest == call[t].todo \ {n}
       IN /\ \/ HasRoom(n, k) /\ WriteKeyset(n, k, call[t].key) /\ Note(n, k)
             \/ ~HasRoom(n, k) /\ UNCHANGED <<keyset, tracker>>
             \/ /\ Faults
                /\ (HasRoom(n, k) /\ WriteKeyset(n, k, call[t].key)) \/ UNCHANGED keyset
                /\ UNCHANGED tracker
          /\ call' = [call EXCEPT ![t] = IF rest = {} THEN Idle
                                           ELSE [call[t] EXCEPT !.todo = rest]]
  /\ UNCHANGED <<keyStore, provisioned, savedNodes, lastKey, keyMap, member, acl>>

(***************************************************************************)
(* group_add_key_set, group_bind_key_set and set_acl_entry write what the  *)
(* client asks for; an error of the device reaches the client.             *)
(***************************************************************************)
KeysetAdd(t, n, k) ==
  /\ "keysetadd" \in Operations /\ At(t, "idle")
  /\ HasRoom(n, k)
  /\ \E key \in 1..lastKey : WriteKeyset(n, k, key)
  /\ Note(n, k) \/ (Faults /\ UNCHANGED tracker)
  /\ UNCHANGED <<keyStore, provisioned, savedNodes, lastKey, call, keyMap, member, acl>>

BindBegin(t, n, g, k) ==
  /\ "bind" \in Operations /\ At(t, "idle")
  /\ call' = [call EXCEPT ![t] =
       [Idle EXCEPT !.pc = "mapRead", !.op = "bind", !.node = n, !.targets = {g},
                    !.kid = k, !.seenMap = keyMap[n]]]
  /\ UNCHANGED <<controllerVars, deviceVars>>

BindWrite(t) ==
  /\ At(t, "mapRead")
  /\ \/ keyMap' = [keyMap EXCEPT ![node(t)] =
          [call[t].seenMap EXCEPT ![TheGroup(t)] = call[t].kid]]
     \/ Faults /\ UNCHANGED keyMap
  /\ Return(t)
  /\ UNCHANGED <<controllerVars, keyset, member, acl>>

SetAcl(t, n) ==
  /\ "setacl" \in Operations /\ At(t, "idle")
  /\ \E entries \in SUBSET Groups : acl' = [acl EXCEPT ![n] = entries]
  /\ UNCHANGED <<controllerVars, call, keyset, keyMap, member>>

\* The server stops and starts: start() loads the stored records; the running
\* calls are gone.
Restart ==
  /\ setting.restarts
  /\ provisioned' = savedNodes
  /\ call' = [t \in Calls |-> Idle]
  /\ UNCHANGED <<keyStore, tracker, savedNodes, lastKey, deviceVars>>

-----------------------------------------------------------------------------
Init ==
  /\ setting \in Settings
  /\ keyStore = [g \in Groups |-> NoKeyset]
  /\ tracker = [n \in Nodes |-> {}]
  /\ provisioned = [g \in Groups |-> {}]
  /\ savedNodes = [g \in Groups |-> {}]
  /\ lastKey = 0
  /\ call = [t \in Calls |-> Idle]
  /\ keyset = [n \in Nodes |-> [k \in Kids |-> NoKey]]
  /\ keyMap = [n \in Nodes |-> NoMap]
  /\ member = [n \in Nodes |-> {}]
  /\ acl = [n \in Nodes |-> {}]

Begin(t) ==
  \/ \E n \in NodesOf(t), g \in Groups : AddBegin(t, n, g) \/ RemoveBegin(t, n, g)
  \/ \E n \in NodesOf(t) : RemoveAllBegin(t, n) \/ ResetBegin(t, n)
  \/ \E n \in NodesOf(t), k \in Kids : KeysetRemove(t, n, k)
  \/ \E g \in Groups : SendBegin(t, g)
  \/ \E n \in NodesOf(t), k \in Kids :
       KeysetAdd(t, n, k) \/ \E g \in Groups : BindBegin(t, n, g, k)
  \/ \E n \in NodesOf(t) : SetAcl(t, n)

Step(t) ==
  \/ AddCapacity(t) \/ AddEvict(t) \/ AddKeyWrite(t) \/ AddReuse(t)
  \/ AddBindRead(t) \/ AddBindWrite(t) \/ AddGroup(t)
  \/ CleanRead(t) \/ CleanList(t) \/ CleanRemove(t)
  \/ RemoveDrop(t) \/ RemoveStripRead(t) \/ RemoveStripWrite(t)
  \/ ResetSweep(t) \/ ResetMapClear(t)
  \/ AclRead(t) \/ AclWrite(t) \/ SendRefresh(t) \/ BindWrite(t)

Next == /\ (\E t \in Calls : Begin(t) \/ Step(t)) \/ Restart
        /\ UNCHANGED setting

Spec == Init /\ [][Next]_vars

-----------------------------------------------------------------------------
(***************************************************************************)
(* Properties.                                                             *)
(***************************************************************************)
Keysets == [kid : Kids, key : Keys] \cup {NoKeyset}
Maps    == [Groups -> Kids \cup {NoKid}]

Pcs == {"idle", "capacity", "evict", "write", "rewrite", "fallback", "bindRead",
        "bindWrite", "addGroup", "cleanRead", "cleanList", "cleanRemove", "drop",
        "stripRead", "stripWrite", "sweep", "mapClear", "aclRead", "aclWrite",
        "refresh", "mapRead"}

CallRecords ==
  [pc : Pcs,
   op : {"none", "add", "remove", "removeall", "reset", "send", "bind"},
   node : Nodes \cup {0}, targets : SUBSET Groups,
   kid : Kids \cup {NoKid}, key : Keys \cup {NoKey},
   todo : SUBSET (Kids \cup Groups \cup Nodes),
   seenMap : Maps, seenAcl : SUBSET Groups, cleaned : BOOLEAN]

ControllerTypes ==
  /\ keyStore \in [Groups -> Keysets]
  /\ tracker \in [Nodes -> SUBSET Kids]
  /\ provisioned \in [Groups -> SUBSET Nodes]
  /\ savedNodes \in [Groups -> SUBSET Nodes]
  /\ lastKey \in 0..MaxKey

DeviceTypes ==
  /\ keyset \in [Nodes -> [Kids -> Keys \cup {NoKey}]]
  /\ keyMap \in [Nodes -> Maps]
  /\ member \in [Nodes -> SUBSET Groups]
  /\ acl \in [Nodes -> SUBSET Groups]

\* Every variable keeps to what the code stores in it.
TypeOK == ControllerTypes /\ DeviceTypes /\ call \in [Calls -> CallRecords]

Quiet == \A t \in Calls : At(t, "idle")

\* No exchange fails, no restart, every group fits into a device's tables,
\* clients do not write these tables themselves, calls at a time are for nodes of
\* their own, and what is about all nodes of a group (a reset or a keyset removal
\* may drop its key, a groupcast uses it) comes when nothing else is under way.
Healthy == /\ ~Faults /\ ~setting.restarts
           /\ Operations \cap {"keysetadd", "bind", "setacl"} = {}
           /\ \A t, u \in Calls : t # u => NodesOf(t) \cap NodesOf(u) = {}
           /\ Operations \cap {"reset", "keysetremove", "send"} # {} =>
                \E t \in Calls : \A u \in Calls \ {t} : NodesOf(u) = {}
           /\ KeysetSlots >= Cardinality(Kids) /\ GroupSlots >= Cardinality(Groups)

\* A groupcast to g under the key the server holds is accepted by node n.
Usable(n, g) ==
  /\ g \in member[n] /\ g \in acl[n]
  /\ keyStore[g] # NoKeyset
  /\ keyMap[n][g] = keyStore[g].kid
  /\ keyset[n][keyStore[g].kid] = keyStore[g].key

\* Between calls, every node recorded for a group can be reached by a groupcast
\* to it, across additions, removals, shared keysets and resets.
\* (group_nodes tells send_group_command whom the groupcast is for.)
ProvisionedIsUsable ==
  Healthy /\ Quiet => \A g \in Groups : \A n \in provisioned[g] : Usable(n, g)

\* No call makes a group useless on a node unless the call is about that group
\* and node, or the server takes the node off the group's record with it.
OthersUndisturbed ==
  [][Healthy => \A n \in Nodes, g \in Groups :
       Usable(n, g) /\ ~Usable(n, g)' =>
         \/ n \notin provisioned'[g]
         \/ \E t \in Calls : node(t) = n /\ g \in call[t].targets]_vars

\* A call that drops the key of a group leaves no node recorded for it, and no
\* call but a group_add of that group, which was under way meanwhile, records one.
\* (A restart can: it brings back the nodes that the stored record still names.)
HasKey(g) == provisioned[g] # {} => keyStore[g] # NoKeyset
Adding(g) == \E t \in Calls : call[t].op = "add" /\ g \in call[t].targets
ProvisionedHasKey ==
  [][\A g \in Groups :
       HasKey(g) /\ ~Restart => HasKey(g)' \/ (Adding(g) /\ keyStore[g] = NoKeyset)]_vars

\* Between calls of a healthy network, a device holds no keyset that none of its
\* bindings uses (the keyset table does not fill up with orphans) and the tracker
\* names every keyset on it (cleanup and reset find it without GroupKeyTable).
KeysetsAccounted ==
  Healthy /\ Quiet =>
    \A n \in Nodes : Installed(n) \subseteq Referenced(keyMap[n]) \cap tracker[n]

\* The parts of the calls, in the order in which any call can come to them.
Stages ==
  <<"idle", "refresh", "mapRead", "aclWrite", "aclRead", "mapClear", "sweep", "addGroup",
    "bindWrite", "bindRead", "fallback", "rewrite", "cleanRemove", "cleanList",
    "cleanRead", "stripWrite", "stripRead", "drop", "write", "evict", "capacity">>

StageOf == [pc \in {Stages[i] : i \in DOMAIN Stages} |->
              CHOOSE i \in DOMAIN Stages : Stages[i] = pc]

\* What is left to do: the stage, then the keysets or nodes still on the list.
Left(c) == <<StageOf[c.pc], Cardinality(c.todo)>>
Less(x, y) == x[1] < y[1] \/ (x[1] = y[1] /\ x[2] < y[2])

\* No call goes round in circles, whatever fails: each exchange brings a call
\* nearer to its end (the cleanup and its retry happen once, each loop over
\* keysets and nodes gets shorter), so calls of devices that answer end.
CallsAdvance ==
  [][\A t \in Calls : call'[t] # call[t] /\ ~At(t, "idle")
                         => Less(Left(call'[t]), Left(call[t]))]_vars

\* A node recorded for a group is recorded for it after a restart, whatever
\* failed on the way.  (The converse does not hold: a reset or a removed keyset
\* that takes the last node off a group does not write group_nodes.)
NoNodeForgotten == \A g \in Groups : provisioned[g] \subseteq savedNodes[g]

=============================================================================
