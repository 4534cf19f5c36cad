------------------------------ MODULE WarmBoot ------------------------------
(* Start-up, shutdown and warm restart of a switch (ctc_sai_switch.c, *)
(* ctc_sai_warmboot.c, ctc_sai_warmboot_func.c) and the object database they *)
(* save and restore (ctc_sai_db.c). A warm remove_switch writes the objects *)
(* of each type to the Redis store, a warm create_switch reads them back and *)
(* reserves their ids, and the process may die between any two steps. Four *)
(* types stand for the kinds the modules register: data and a reload callback *)
(* that reserves the id, data alone, no data, and data whose ids nothing *)
(* reserves (a TWAMP session also holds an interface id, for its loopback). *)
EXTENDS Naturals, FiniteSets, FiniteSetsExt, Sequences

CONSTANTS WbL3ifs, WbTwamps, WbBridges  \* ids of each pool

ASSUME WbAssumption == WbL3ifs \cup WbTwamps \cup WbBridges \subseteq Nat \ {0}

(* The types in the order of their numbers, in which they are saved. *)
WbOrder == <<"RIF", "SWITCH", "BRIDGE", "TWAMP">>
WbTypes == {WbOrder[i] : i \in DOMAIN WbOrder}

(* The types registered with the length of their data: BRIDGE has none. *)
WbHasData == WbTypes \ {"BRIDGE"}

VARIABLES
  wbRun,    \* "down", "up", "sync" (in remove_switch), "load" (in create_switch)
  wbStatus, \* g_wb_status of the process
  wbAt,     \* the type the save or the reload is at
  wbHash,   \* the objects of each type: [id, l3if, own], own: the data is its own
  wbFreed,  \* types whose table a save has freed
  wbIds,    \* ids taken from each pool
  wbWarm,   \* WARMBOOT_EN of the switch record
  wbStore,  \* the objects of each type in the store
  wbVers,   \* the types with a version entry in the store
  wbSaved,  \* the store against the run before: "clean", "torn" (died in the save) or "stale"
  wbWhole,  \* the save began with every table
  wbBefore, \* the objects when their type was saved, or at the crash
  wbBorn,   \* the save the switch was started from, "other" from the first call on
  wbUnsure  \* interface ids of reloaded TWAMP sessions

wbVars == <<wbRun, wbStatus, wbAt, wbHash, wbFreed, wbIds, wbWarm, wbStore, wbVers,
            wbSaved, wbWhole, wbBefore, wbBorn, wbUnsure>>

wbDb == <<wbHash, wbFreed, wbIds, wbUnsure>>
wbDisk == <<wbStore, wbVers, wbSaved, wbWhole>>
wbMode == <<wbRun, wbStatus, wbAt>>

WbNone == [t \in WbTypes |-> {}]
WbPools == [L3IF |-> WbL3ifs, TWAMP |-> WbTwamps, VLAN |-> WbBridges]
NoIds == [p \in DOMAIN WbPools |-> {}]
WbFree(p) == WbPools[p] \ wbIds[p]
WbHeld(t) == {r.id : r \in wbHash[t]}
WbRec(id, l3if) == [id |-> id, l3if |-> l3if, own |-> TRUE]

(* A lookup in a freed table is a null dereference, which Crash stands for. *)
WbAlive(t) == wbRun \in {"up", "sync"} /\ t \notin wbFreed

(* From now on the objects are no longer those that were saved. *)
WbUsed ==
  /\ wbBorn' = "other"
  /\ wbBefore' = IF wbRun = "sync" THEN wbBefore ELSE WbNone

(* A create, which refuses an object that exists. *)
WbAdd(t, p, l3ifs) ==
  /\ WbAlive(t) /\ WbFree(p) # {} /\ Min(WbFree(p)) \notin WbHeld(t)
  /\ wbHash' = [wbHash EXCEPT ![t] = @ \cup {WbRec(Min(WbFree(p)), l3ifs)}]
  /\ WbUsed
  /\ UNCHANGED <<wbMode, wbDisk, wbFreed, wbWarm, wbUnsure>>

WbCreateRif ==
  /\ WbAdd("RIF", "L3IF", Min(WbFree("L3IF")))
  /\ wbIds' = [wbIds EXCEPT !.L3IF = @ \cup {Min(WbFree("L3IF"))}]

WbCreateBridge ==
  /\ WbAdd("BRIDGE", "VLAN", 0)
  /\ wbIds' = [wbIds EXCEPT !.VLAN = @ \cup {Min(WbFree("VLAN"))}]

(* create_twamp_session: an id of a reloaded session is handed out again; the *)
(* call then fails and frees an id of another pool, this one stays taken. *)
WbCreateTwamp ==
  /\ WbFree("TWAMP") # {} /\ WbFree("L3IF") # {}
  /\ WbAdd("TWAMP", "TWAMP", Min(WbFree("L3IF")))
  /\ wbIds' = [wbIds EXCEPT !.TWAMP = @ \cup {Min(WbFree("TWAMP"))},
                            !.L3IF = @ \cup {Min(WbFree("L3IF"))}]

WbTwampExists ==
  /\ WbAlive("TWAMP") /\ WbFree("TWAMP") # {}
  /\ Min(WbFree("TWAMP")) \in WbHeld("TWAMP")
  /\ wbIds' = [wbIds EXCEPT !.TWAMP = @ \cup {Min(WbFree("TWAMP"))}]
  /\ WbUsed
  /\ UNCHANGED <<wbMode, wbDisk, wbHash, wbFreed, wbWarm, wbUnsure>>

WbRemove(t, r) ==
  /\ WbAlive(t) /\ t # "SWITCH" /\ r \in wbHash[t]
  /\ wbHash' = [wbHash EXCEPT ![t] = @ \ {r}]
  /\ wbIds' = [wbIds EXCEPT !.L3IF = @ \ {r.l3if},
                            !.TWAMP = IF t = "TWAMP" THEN @ \ {r.id} ELSE @,
                            !.VLAN = IF t = "BRIDGE" THEN @ \ {r.id} ELSE @]
  /\ WbUsed
  /\ UNCHANGED <<wbMode, wbDisk, wbFreed, wbWarm, wbUnsure>>

SetRestartWarm(b) ==
  /\ wbRun = "up" /\ "SWITCH" \notin wbFreed
  /\ wbWarm' = b
  /\ UNCHANGED <<wbMode, wbDisk, wbDb, wbBefore, wbBorn>>

(* ---- remove_switch ---- *)
WbGone ==
  /\ wbRun' = "down" /\ wbAt' = 0
  /\ wbHash' = WbNone /\ wbIds' = NoIds /\ wbFreed' = {} /\ wbUnsure' = {}
  /\ wbBorn' = "other" /\ wbWarm' = FALSE

(* Without RESTART_WARM; the store keeps what an earlier save left in it. *)
ColdRemove ==
  /\ wbRun = "up" /\ ~wbWarm /\ wbFreed = {}
  /\ WbGone
  /\ UNCHANGED <<wbStatus, wbDisk, wbBefore>>

(* warmboot_sync, without the database lock: it empties the store ... *)
StartSync ==
  /\ wbRun = "up" /\ wbWarm /\ "SWITCH" \notin wbFreed
  /\ wbRun' = "sync" /\ wbStatus' = "SYNC" /\ wbAt' = 1
  /\ wbStore' = WbNone /\ wbVers' = {} /\ wbSaved' = "stale"
  /\ wbWhole' = (wbFreed = {}) /\ wbBefore' = WbNone /\ wbBorn' = "other"
  /\ UNCHANGED <<wbDb, wbWarm>>

(* ... writes each type's version, its objects, and frees its table ... *)
SyncType ==
  /\ wbRun = "sync" /\ wbAt \in DOMAIN WbOrder
  /\ LET t == WbOrder[wbAt]
     IN /\ wbVers' = wbVers \cup {t}
        /\ wbStore' = [wbStore EXCEPT ![t] = wbHash[t]]
        /\ wbBefore' = [wbBefore EXCEPT ![t] = wbHash[t]]
        /\ wbHash' = [wbHash EXCEPT ![t] = {}]
        /\ wbFreed' = wbFreed \cup {t}
  /\ wbAt' = wbAt + 1
  /\ UNCHANGED <<wbRun, wbStatus, wbIds, wbWarm, wbSaved, wbWhole, wbBorn, wbUnsure>>

(* What a save that ends within a type may have written of it. *)
PartOf(t, part, version) ==
  /\ part \subseteq wbHash[t] /\ (part # {} => version)
  /\ wbVers' = IF version THEN wbVers \cup {t} ELSE wbVers
  /\ wbStore' = [wbStore EXCEPT ![t] = part]

(* A write fails: remove_switch returns, with the tables saved so far freed. *)
SyncBreaks(part, version) ==
  /\ wbRun = "sync" /\ wbAt \in DOMAIN WbOrder /\ WbOrder[wbAt] \notin wbFreed
  /\ PartOf(WbOrder[wbAt], part, version)
  /\ wbRun' = "up" /\ wbStatus' = "DONE" /\ wbAt' = 0
  /\ wbWhole' = TRUE /\ wbBefore' = WbNone
  /\ UNCHANGED <<wbDb, wbWarm, wbSaved, wbBorn>>

(* ... and saves; destroy_db follows. *)
SyncDone ==
  /\ wbRun = "sync" /\ wbAt \notin DOMAIN WbOrder
  /\ wbStatus' = "DONE"
  /\ wbSaved' = IF wbWhole THEN "clean" ELSE "stale"
  /\ WbGone /\ wbWhole' = TRUE
  /\ UNCHANGED <<wbStore, wbVers, wbBefore>>

(* The process dies in a save; Redis keeps what it was sent. *)
CrashInSync(part, version) ==
  /\ wbRun = "sync" /\ wbAt \in DOMAIN WbOrder /\ WbOrder[wbAt] \notin wbFreed
  /\ PartOf(WbOrder[wbAt], part, version)
  /\ wbBefore' = [t \in WbTypes |-> IF t \in wbFreed THEN wbBefore[t] ELSE wbHash[t]]
  /\ wbSaved' = IF wbWhole THEN "torn" ELSE "stale"
  /\ wbStatus' = "DONE"
  /\ WbGone /\ wbWhole' = TRUE

Crash ==
  /\ wbRun \in {"up", "load"} \/ wbStatus # "DONE"
  /\ wbRun # "sync"
  /\ wbStatus' = "DONE"
  /\ WbGone
  /\ UNCHANGED <<wbDisk, wbBefore>>

(* ---- create_switch ---- *)
WbSwitch == WbRec(1, 0)

(* A cold start: the modules write their defaults, unless the status that a *)
(* failed reload left in this process stops them. *)
ColdCreate ==
  /\ wbRun = "down" /\ wbStatus = "DONE"
  /\ wbRun' = "up" /\ wbWarm' = FALSE
  /\ wbHash' = [WbNone EXCEPT !["SWITCH"] = {WbSwitch}]
  /\ wbSaved' = "stale" /\ WbUsed
  /\ UNCHANGED <<wbStatus, wbAt, wbFreed, wbIds, wbUnsure, wbStore, wbVers, wbWhole>>

WarmCreate ==
  /\ wbRun = "down"
  /\ wbRun' = "load" /\ wbStatus' = "RELOADING" /\ wbAt' = 1
  /\ UNCHANGED <<wbDb, wbWarm, wbDisk, wbBefore, wbBorn>>

(* Is there a version entry with the key of the type? *)
WbQueryByKey(t) == t \in wbVers

(* What the reload finds: a type without a version entry is passed over. *)
WbQuery(t) == IF WbQueryByKey(t) THEN wbStore[t] ELSE {}

(* The data pointer is set by the types that have data only, so an object of *)
(* BRIDGE gets the last one. *)
WbReloaded(t, r) ==
  [r EXCEPT !.own = t \in WbHasData
                    \/ \A i \in DOMAIN WbOrder : i < wbAt => wbHash[WbOrder[i]] = {}]

(* The callbacks of the types that have one: the ids they reserve. *)
RifReloadCb(t, found) == IF t = "RIF" THEN {r.id : r \in found} ELSE {}
BridgeReloadCb(t, found) == IF t = "BRIDGE" THEN {r.id : r \in found} ELSE {}

\* mutant: the reload of a router interface does not reserve its id
ReloadTypeForgets ==
  /\ wbRun = "load" /\ wbAt \in DOMAIN WbOrder
  /\ LET t == WbOrder[wbAt]
         found == WbQuery(t)
     IN /\ wbHash' = [wbHash EXCEPT ![t] = {WbReloaded(t, r) : r \in found}]
        /\ wbIds' = [wbIds EXCEPT !.VLAN = @ \cup BridgeReloadCb(t, found)]
        /\ wbUnsure' = IF t = "TWAMP" THEN {r.l3if : r \in found} ELSE wbUnsure
  /\ wbAt' = wbAt + 1
  /\ UNCHANGED <<wbRun, wbStatus, wbFreed, wbWarm, wbDisk, wbBefore, wbBorn>>

(* The callbacks of RIF and BRIDGE reserve the ids; TWAMP has no callback. *)
ReloadType ==
  /\ wbRun = "load" /\ wbAt \in DOMAIN WbOrder
  /\ LET t == WbOrder[wbAt]
         found == WbQuery(t)
     IN /\ wbHash' = [wbHash EXCEPT ![t] = {WbReloaded(t, r) : r \in found}]
        /\ wbIds' = [wbIds EXCEPT !.L3IF = @ \cup RifReloadCb(t, found),
                                  !.VLAN = @ \cup BridgeReloadCb(t, found)]
        /\ wbUnsure' = IF t = "TWAMP" THEN {r.l3if : r \in found} ELSE wbUnsure
  /\ wbAt' = wbAt + 1
  /\ UNCHANGED <<wbRun, wbStatus, wbFreed, wbWarm, wbDisk, wbBefore, wbBorn>>

(* No memory: the status stays RELOADING. *)
ReloadFails ==
  /\ wbRun = "load"
  /\ WbGone
  /\ UNCHANGED <<wbStatus, wbDisk, wbBefore>>

\* mutant: the switch record may be missing
WarmCreatedAnyhow ==
  /\ wbRun = "load" /\ wbAt \notin DOMAIN WbOrder
  /\ wbRun' = "up" /\ wbStatus' = "DONE" /\ wbAt' = 0
  /\ wbBorn' = (IF wbSaved = "stale" THEN "other" ELSE wbSaved)
  /\ wbSaved' = "stale" /\ wbWarm' = TRUE
  /\ UNCHANGED <<wbDb, wbStore, wbVers, wbWhole, wbBefore>>

(* The record of the switch comes from the store, RESTART_WARM with it (it *)
(* was set, or nothing had been saved), and the start fails without it. *)
WarmCreated ==
  /\ wbRun = "load" /\ wbAt \notin DOMAIN WbOrder /\ wbHash["SWITCH"] # {}
  /\ wbRun' = "up" /\ wbStatus' = "DONE" /\ wbAt' = 0
  /\ wbBorn' = (IF wbSaved = "stale" THEN "other" ELSE wbSaved)
  /\ wbSaved' = "stale" /\ wbWarm' = TRUE
  /\ UNCHANGED <<wbDb, wbStore, wbVers, wbWhole, wbBefore>>

NothingToCreate ==
  /\ wbRun = "load" /\ wbAt \notin DOMAIN WbOrder /\ wbHash["SWITCH"] = {}
  /\ wbStatus' = "DONE"
  /\ WbGone
  /\ UNCHANGED <<wbDisk, wbBefore>>

WbInit ==
  /\ wbRun = "down" /\ wbStatus = "DONE" /\ wbAt = 0
  /\ wbHash = WbNone /\ wbFreed = {} /\ wbIds = NoIds /\ wbWarm = FALSE
  /\ wbStore = WbNone /\ wbVers = {} /\ wbSaved = "stale" /\ wbWhole = TRUE
  /\ wbBefore = WbNone /\ wbBorn = "other" /\ wbUnsure = {}

WbNext ==
  \/ WbCreateRif \/ WbCreateBridge \/ WbCreateTwamp \/ WbTwampExists
  \/ \E t \in WbTypes : \E r \in wbHash[t] : WbRemove(t, r)
  \/ \E b \in BOOLEAN : SetRestartWarm(b)
  \/ ColdRemove \/ StartSync \/ SyncType \/ SyncDone
  \/ /\ wbRun = "sync" /\ wbAt \in DOMAIN WbOrder
     /\ \E part \in SUBSET wbHash[WbOrder[wbAt]], v \in BOOLEAN :
          SyncBreaks(part, v) \/ CrashInSync(part, v)
  \/ Crash \/ ColdCreate \/ WarmCreate \/ ReloadType \/ ReloadFails
  \/ WarmCreated \/ NothingToCreate

WbKeys(objs) == {<<r.id, r.l3if>> : r \in objs}
L3ifHolders(i) ==
  {o \in {"RIF", "TWAMP"} \X (WbL3ifs \cup WbTwamps) :
     \E r \in wbHash[o[1]] : r.id = o[2] /\ r.l3if = i}

(* A switch started from a completed save has the objects that were saved, *)
(* all of them, each with its own data except the bridges; started from a *)
(* save the process died in, it has every object of the types before the *)
(* switch's own and no object that was not there, or it does not start. Two *)
(* objects share an interface id, or hold one that is free, only over a *)
(* reloaded TWAMP session, however saves, failures and crashes follow each *)
(* other; and the status is the one of the call that is running. *)
WarmExact ==
  /\ wbRun = "up" => wbStatus = "DONE"
  /\ wbRun = "sync" <=> wbStatus = "SYNC"
  /\ wbRun = "load" => wbStatus = "RELOADING"
  /\ wbRun = "up" /\ wbBorn = "clean" /\ wbFreed = {} =>
       \A t \in WbTypes : /\ WbKeys(wbHash[t]) = WbKeys(wbBefore[t])
                          /\ t \in WbHasData => \A r \in wbHash[t] : r.own
  /\ wbRun = "up" /\ wbBorn = "torn" /\ wbFreed = {} =>
       /\ WbKeys(wbHash["RIF"]) = WbKeys(wbBefore["RIF"])
       /\ \A t \in WbTypes : WbKeys(wbHash[t]) \subseteq WbKeys(wbBefore[t])
  /\ wbRun = "up" =>
       \A i \in WbL3ifs \ wbUnsure :
         /\ Cardinality(L3ifHolders(i)) <= 1
         /\ L3ifHolders(i) # {} => i \in wbIds.L3IF
=============================================================================
