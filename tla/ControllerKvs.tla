--------------------------- MODULE ControllerKvs ---------------------------
(***************************************************************************)
(* The controller's own group keys in the SDK's key-value store, which     *)
(* server/device_controller.py writes behind the SDK's back                *)
(* (_inject_controller_group_keys) and server/server.py clears at every    *)
(* start (_cleanup_corrupted_group_storage).                               *)
(*                                                                         *)
(* FabricData heads two linked lists, of key maps (group -> keyset) and of *)
(* keysets, each with a count.  The SDK finds a group's key by walking     *)
(* the first list and then the second for at most count entries, and its   *)
(* own identity protection key (IPK, keyset 0) by walking the second.      *)
(*                                                                         *)
(* An injection runs without an await, so it is one action with the call   *)
(* it is made from; failures inside it are logged by the code and not      *)
(* modelled.  Derived keys are the epoch keys they come from.              *)
(***************************************************************************)
EXTENDS Naturals, FiniteSets

CONSTANTS Groups,     \* group ids
          MapIds,     \* ids drawn for key map entries, 10000..59999 in the code
          Operations, \* the operations that happen
          MaxKey      \* bound on generated epoch keys

Ipk == 0
EndOfKeysets == 65535   \* kInvalidKeysetId
EndOfMaps == 0

KeysetId(g) == (g % 65534) + 1
Kids == {KeysetId(g) : g \in Groups}

ASSUME KvsAssumption ==
  /\ \A g \in Groups : g \in Nat /\ 1 <= g /\ g <= 65527
  /\ \A i \in MapIds : i \in Nat /\ 10000 <= i /\ i <= 59999
  /\ MaxKey \in Nat
  /\ Operations \subseteq {"add", "send", "restart", "reset", "reuse"}

NoKeyset == [kid |-> Ipk, key |-> 0]
Absent == [present |-> FALSE, key |-> 0, next |-> EndOfKeysets]
NoEntry == [group |-> 0, kid |-> Ipk, next |-> EndOfMaps]

VARIABLES
  keyStore,  \* _group_key_store
  lastKey,   \* epoch keys generated so far
  fabric,    \* FabricData: firstMap, mapCount, firstKeyset, keysetCount
  keysets,   \* the keyset entries, IPK included
  maps,      \* the key map entries
  relisted,  \* since the start a keyset was prepended that was listed already
  replaced,  \* keysets whose key was replaced while another group stores it
  sent       \* the group of the last groupcast that left, 0 for none

kvs  == <<fabric, keysets, maps, relisted, replaced>>
kvsVars == <<keyStore, lastKey, kvs, sent>>

-----------------------------------------------------------------------------
(***************************************************************************)
(* The SDK's walks.                                                        *)
(***************************************************************************)
\* Where a walk from "first" is after i steps: from an entry of the table "next"
\* to the one it names, from anything else to the end.
Walk(first, next, end, i) ==
  LET at[n \in 0..i] == IF n = 0 THEN first
                        ELSE IF at[n - 1] \in DOMAIN next THEN next[at[n - 1]] ELSE end
  IN at[i]

KeysetAt(i) == Walk(fabric.firstKeyset, [k \in DOMAIN keysets |-> keysets[k].next],
                    EndOfKeysets, i)
ListedKeysets ==
  {k \in {KeysetAt(i) : i \in 0..(fabric.keysetCount - 1)} :
     k \in DOMAIN keysets /\ keysets[k].present}

MapAt(i) == Walk(fabric.firstMap, [m \in DOMAIN maps |-> maps[m].next], EndOfMaps, i)
EntriesFor(g) == {i \in 0..(fabric.mapCount - 1) :
                    MapAt(i) \in MapIds /\ maps[MapAt(i)].group = g}

\* The key the SDK would encrypt a groupcast to g with; 0 is error 0xAC.
LookUp(g) ==
  IF EntriesFor(g) = {} THEN 0
  ELSE LET first == CHOOSE i \in EntriesFor(g) : \A j \in EntriesFor(g) : i <= j
           kid == maps[MapAt(first)].kid
       IN IF kid \in ListedKeysets THEN keysets[kid].key ELSE 0

-----------------------------------------------------------------------------
(***************************************************************************)
(* _inject_controller_group_keys: both entries are written in front of     *)
(* the lists, whether or not the keyset is already in its list.            *)
(***************************************************************************)
\* randbelow(50000): an id in use is drawn so rarely that it is left out, and
\* which of the free ones is drawn makes no difference.
FreshIds == LET free == {i \in MapIds : maps[i] = NoEntry}
            IN {i \in free : \A j \in free : i <= j}

Replacing(g, kid, key) ==
  IF \E h \in Groups \ {g} : /\ keyStore[h].kid = kid /\ keyStore[h].key # key
                             /\ keysets[kid].key = keyStore[h].key
    THEN {kid} ELSE {}

InjectAtEnd(g, kid, key) ==
  \E id \in FreshIds :
    /\ keysets' = [keysets EXCEPT ![kid] =
         [present |-> TRUE, key |-> key, next |-> EndOfKeysets]]
    /\ maps' = [maps EXCEPT ![id] =
         [group |-> g, kid |-> kid, next |-> fabric.firstMap]]
    /\ fabric' = [firstMap |-> id, mapCount |-> fabric.mapCount + 1,
                  firstKeyset |-> kid, keysetCount |-> fabric.keysetCount + 1]
    /\ relisted' = (relisted \/ kid \in ListedKeysets)
    /\ replaced' = replaced \cup Replacing(g, kid, key)

Inject(g, kid, key) ==
  \E id \in FreshIds :
    /\ keysets' = [keysets EXCEPT ![kid] =
         [present |-> TRUE, key |-> key, next |-> fabric.firstKeyset]]
    /\ maps' = [maps EXCEPT ![id] =
         [group |-> g, kid |-> kid, next |-> fabric.firstMap]]
    /\ fabric' = [firstMap |-> id, mapCount |-> fabric.mapCount + 1,
                  firstKeyset |-> kid, keysetCount |-> fabric.keysetCount + 1]
    /\ relisted' = (relisted \/ kid \in ListedKeysets)
    /\ replaced' = replaced \cup Replacing(g, kid, key)

\* group_add for a group the store has no key of.
AddGroup(g) ==
  /\ "add" \in Operations
  /\ keyStore[g] = NoKeyset /\ lastKey < MaxKey
  /\ lastKey' = lastKey + 1
  /\ keyStore' = [keyStore EXCEPT ![g] = [kid |-> KeysetId(g), key |-> lastKey + 1]]
  /\ Inject(g, KeysetId(g), lastKey + 1)
  /\ sent' = 0

\* _provision_group_keys_on_node: the group takes over the keyset of another.
Reuse(g, h) ==
  /\ "reuse" \in Operations
  /\ keyStore[g] # NoKeyset /\ keyStore[h] # NoKeyset /\ keyStore[g] # keyStore[h]
  /\ keyStore' = [keyStore EXCEPT ![g] = keyStore[h]]
  /\ Inject(g, keyStore[h].kid, keyStore[h].key)
  /\ sent' = 0 /\ UNCHANGED lastKey

\* group_reset_node (or group_key_set_remove) took the group's last node: the
\* key leaves the store, the entries in the KVS stay.
Purge(g) ==
  /\ "reset" \in Operations
  /\ keyStore[g] # NoKeyset
  /\ keyStore' = [keyStore EXCEPT ![g] = NoKeyset]
  /\ sent' = 0 /\ UNCHANGED <<lastKey, kvs>>

\* send_group_command: on 0xAC the keys are injected, if the server stores any,
\* and the command is sent once more.  A group that was purged is sent to as
\* long as the SDK still finds a key for it.
SendNoRetry(g) ==
  /\ "send" \in Operations
  /\ keyStore[g] # NoKeyset
  /\ sent' = g /\ UNCHANGED <<keyStore, lastKey, kvs>>

Send(g) ==
  /\ "send" \in Operations
  /\ \/ LookUp(g) # 0 /\ UNCHANGED kvs
     \/ /\ LookUp(g) = 0 /\ keyStore[g] # NoKeyset
        /\ Inject(g, keyStore[g].kid, keyStore[g].key)
  /\ sent' = g /\ UNCHANGED <<keyStore, lastKey>>

\* A restart: every group entry but the IPK is deleted, then the SDK creates
\* the controller and lists the IPK again; start() injects nothing.
FreshFabric == [firstMap |-> EndOfMaps, mapCount |-> 0,
                firstKeyset |-> Ipk, keysetCount |-> 1]
FreshKeysets == [k \in Kids \cup {Ipk} |->
                   IF k = Ipk THEN [present |-> TRUE, key |-> 0,
                                    next |-> EndOfKeysets] ELSE Absent]

KvsRestart ==
  /\ "restart" \in Operations
  /\ fabric' = FreshFabric /\ keysets' = FreshKeysets
  /\ maps' = [i \in MapIds |-> NoEntry] /\ relisted' = FALSE /\ replaced' = {}
  /\ sent' = 0 /\ UNCHANGED <<keyStore, lastKey>>

-----------------------------------------------------------------------------
KvsInit ==
  /\ keyStore = [g \in Groups |-> NoKeyset] /\ lastKey = 0 /\ sent = 0
  /\ relisted = FALSE /\ replaced = {}
  /\ fabric = FreshFabric /\ keysets = FreshKeysets
  /\ maps = [i \in MapIds |-> NoEntry]

KvsNext ==
  \/ \E g \in Groups : AddGroup(g) \/ Purge(g) \/ Send(g)
  \/ \E g, h \in Groups : Reuse(g, h)
  \/ KvsRestart

KvsSpec == KvsInit /\ [][KvsNext]_kvsVars

-----------------------------------------------------------------------------
(***************************************************************************)
(* Properties.                                                             *)
(***************************************************************************)
KvsTypeOK ==
  /\ keyStore \in [Groups -> [kid : Kids, key : 1..MaxKey] \cup {NoKeyset}]
  /\ lastKey \in 0..MaxKey
  /\ fabric.firstMap \in MapIds \cup {EndOfMaps}
  /\ fabric.firstKeyset \in Kids \cup {Ipk, EndOfKeysets}
  /\ fabric.mapCount \in Nat /\ fabric.keysetCount \in Nat
  /\ keysets \in [Kids \cup {Ipk} -> [present : BOOLEAN, key : 0..MaxKey,
                                      next : Kids \cup {Ipk, EndOfKeysets}]]
  /\ maps \in [MapIds -> {NoEntry} \cup
       [group : Groups, kid : Kids, next : MapIds \cup {EndOfMaps}]]
  /\ relisted \in BOOLEAN /\ replaced \subseteq Kids
  /\ sent \in Groups \cup {0}

\* Until a keyset is prepended that is in the list already, the keyset list is
\* a list: it reaches the IPK, without which no node can be reached, through
\* every group injected in front of it, and its count is the number of keysets
\* in it, so the SDK's walk by the count ends just where the list does.  (A
\* purged group added again, a reused keyset and a retry after 0xAC can prepend
\* a keyset twice; it may then be its own successor.)
KeysetListSound ==
  ~relisted => /\ Ipk \in ListedKeysets
               /\ Cardinality(ListedKeysets) = fabric.keysetCount
               /\ KeysetAt(fabric.keysetCount) = EndOfKeysets

\* A groupcast that leaves is encrypted with the key the server stores for the
\* group, whatever restarts, purges, retries and shared keysets came between,
\* unless the keyset was given a new key while the group still used the old one.
SentUnderStoredKey ==
  sent # 0 /\ keyStore[sent] # NoKeyset /\ keyStore[sent].kid \notin replaced
    => LookUp(sent) = keyStore[sent].key
=============================================================================
