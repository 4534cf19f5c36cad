------------------------------- MODULE Y1731 -------------------------------
(* Y.1731 (ctc_sai_y1731.c): maintenance groups (MEG), sessions (the local *)
(* MEP) and remote MEPs, each with a record and a mirror in the OAM engine. *)
(* A session keeps the list of its remote MEPs. A session attribute is *)
(* written to the engine first and then to the record. *)
(* *)
(* Creations check the parent before they take the database lock, so that a *)
(* removal can come between (yPending). *)
EXTENDS Naturals, FiniteSets

CONSTANTS
  Megs, YSessions, Rmeps,   \* the ids of the three pools
  MepKeys,                  \* keys of a local MEP: port, VLAN, level or label
  YAttrs, YValues           \* a session's attributes and their values

(* TTL, CoS and the rest are set as dm is. *)
ASSUME YAssumption ==
  0 \in YValues /\ YAttrs \subseteq {"mepid", "period", "lm", "rdi", "dm"}

VARIABLES
  megs,        \* live MEGs
  ySession,    \* session records: a function from live ids
  rmep,        \* remote MEP records: a function from live ids to sessions
  maids,       \* the MEGs' names in the engine
  yLmep,       \* local MEPs in the engine: a function from keys
  yRmep,       \* remote MEPs in the engine: pairs of key and id
  yPending,    \* creations of remote MEPs past their check
  yAsked,      \* what the client last asked for, per session and attribute
  yBent,       \* attributes a switch without break or a wrong field disturbed
  yCrashed     \* a creation used the record of a session removed meanwhile

y1731Vars == <<megs, ySession, rmep, maids, yLmep, yRmep, yPending, yAsked, yBent,
               yCrashed>>

Without(f, x) == [y \in DOMAIN f \ {x} |-> f[y]]
With(f, x, v) == [y \in DOMAIN f \cup {x} |-> IF y = x THEN v ELSE f[y]]

(* ctc_sai_y1731_create_y1731_meg: the name goes to the engine as the MAID. *)
CreateMeg(g) ==
  /\ g \notin megs
  /\ megs' = megs \cup {g} /\ maids' = maids \cup {g}
  /\ UNCHANGED <<ySession, rmep, yLmep, yRmep, yPending, yAsked, yBent, yCrashed>>

(* ctc_sai_y1731_remove_y1731_meg: ctcs_oam_remove_maid refuses a MAID that *)
(* a local MEP uses, and then nothing changes. *)
RemoveMeg(g) ==
  /\ g \in megs
  /\ \A k \in DOMAIN yLmep : yLmep[k].meg # g
  /\ megs' = megs \ {g} /\ maids' = maids \ {g}
  /\ UNCHANGED <<ySession, rmep, yLmep, yRmep, yPending, yAsked, yBent, yCrashed>>

(* ctc_sai_y1731_create_y1731_session: the MEG is looked up again under the *)
(* lock; ctcs_oam_add_lmep refuses a key that is in use. *)
CreateSession(s, g, k) ==
  LET attrs == [a \in YAttrs |-> 0] IN
  /\ s \notin DOMAIN ySession /\ g \in megs /\ k \notin DOMAIN yLmep
  /\ ySession' = With(ySession, s, [meg |-> g, key |-> k, attrs |-> attrs,
                                    list |-> {}])
  /\ yLmep' = With(yLmep, k, [meg |-> g, attrs |-> attrs])
  /\ yAsked' = With(yAsked, s, attrs)
  /\ UNCHANGED <<megs, rmep, maids, yRmep, yPending, yBent, yCrashed>>

\* mutant: a session is removed whatever its list holds
RemovableAny(s) == s \in DOMAIN ySession

(* The guard of remove_y1731_session: no remote MEPs in the list *)
Removable(s) == s \in DOMAIN ySession /\ ySession[s].list = {}

(* ctc_sai_y1731_remove_y1731_session *)
RemoveSession(s) ==
  /\ Removable(s)
  /\ yLmep' = Without(yLmep, ySession[s].key)
  /\ ySession' = Without(ySession, s)
  /\ yAsked' = Without(yAsked, s)
  /\ yBent' = {x \in yBent : x[1] # s}
  /\ UNCHANGED <<megs, rmep, maids, yRmep, yPending, yCrashed>>

(* What ctc_sai_y1731_session_set_info writes to the record for attribute a: *)
(* the case of the MEP id runs into that of the CCM period, and that of the *)
(* RDI assigns lm_en. *)
RecordWrites(a) ==
  CASE a = "mepid" -> {"mepid", "period"}
    [] a = "rdi" -> {"lm"}
    [] OTHER -> {a}

(* ... and to the engine *)
EngineWrites(a) == IF a = "mepid" THEN {"mepid", "period"} ELSE {a}

(* ctc_sai_y1731_session_set_info *)
SetSession(s, a, v) ==
  LET k == ySession[s].key IN
  /\ ySession' = [ySession EXCEPT ![s].attrs =
                    [x \in YAttrs |-> IF x \in RecordWrites(a) THEN v ELSE @[x]]]
  /\ yLmep' = [yLmep EXCEPT ![k].attrs =
                 [x \in YAttrs |-> IF x \in EngineWrites(a) THEN v ELSE @[x]]]
  /\ yAsked' = [yAsked EXCEPT ![s][a] = v]
  /\ yBent' = (yBent \ {<<s, a>>}) \cup
       {<<s, x>> : x \in (RecordWrites(a) \cup EngineWrites(a)) \ {a}} \cup
       (IF a = "rdi" THEN {<<s, "rdi">>} ELSE {})
  /\ UNCHANGED <<megs, rmep, maids, yRmep, yPending, yCrashed>>

(* ctc_sai_y1731_create_y1731_remote_mep up to the lock: the session exists. *)
RequestRmep(r, s) ==
  /\ r \notin DOMAIN rmep /\ yPending = {}
  /\ yPending' = {<<r, s>>}
  /\ UNCHANGED <<megs, ySession, rmep, maids, yLmep, yRmep, yAsked, yBent, yCrashed>>

(* The rest, under the lock: the session's record is fetched again and used *)
(* without a look whether it is still there. *)
CreateRmep(r, s) ==
  /\ <<r, s>> \in yPending
  /\ yPending' = {}
  /\ IF s \notin DOMAIN ySession
     THEN /\ yCrashed' = TRUE
          /\ UNCHANGED <<ySession, rmep, yRmep>>
     ELSE /\ rmep' = With(rmep, r, s)
          /\ yRmep' = yRmep \cup {<<ySession[s].key, r>>}
          /\ ySession' = [ySession EXCEPT ![s].list = @ \cup {r}]
          /\ UNCHANGED yCrashed
  /\ UNCHANGED <<megs, maids, yLmep, yAsked, yBent>>

(* ctc_sai_y1731_remove_y1731_remote_mep *)
RemoveRmep(r) ==
  /\ r \in DOMAIN rmep
  /\ rmep[r] \in DOMAIN ySession
  /\ yRmep' = yRmep \ {<<ySession[rmep[r]].key, r>>}
  /\ ySession' = [ySession EXCEPT ![rmep[r]].list = @ \ {r}]
  /\ rmep' = Without(rmep, r)
  /\ UNCHANGED <<megs, maids, yLmep, yPending, yAsked, yBent, yCrashed>>

\* mutant: the reload leaves the lists it just created empty
ReloadedEmpty(s, saved) == {}

(* A session's list after a warm restart: wb_sync_cb writes a pair for each *)
(* node, wb_reload_cb starts an empty list and wb_reload_cb1 adds the pairs. *)
Reloaded(s, saved) == {p[2] : p \in {q \in saved : q[1] = s}}

YWarmRestart ==
  /\ yPending = {}
  /\ LET saved == UNION {{s} \X ySession[s].list : s \in DOMAIN ySession} IN
       ySession' = [s \in DOMAIN ySession |->
                      [ySession[s] EXCEPT !.list = Reloaded(s, saved)]]
  /\ UNCHANGED <<megs, rmep, maids, yLmep, yRmep, yPending, yAsked, yBent, yCrashed>>

Y1731Init ==
  /\ megs = {} /\ maids = {} /\ yRmep = {} /\ yPending = {} /\ yBent = {}
  /\ ySession = << >> /\ rmep = << >> /\ yLmep = << >> /\ yAsked = << >>
  /\ yCrashed = FALSE

Y1731Next ==
  \/ \E g \in Megs : ~yCrashed /\ (CreateMeg(g) \/ RemoveMeg(g))
  \/ \E s \in YSessions, g \in Megs, k \in MepKeys : ~yCrashed /\ CreateSession(s, g, k)
  \/ \E s \in DOMAIN ySession : ~yCrashed /\ RemoveSession(s)
  \/ \E s \in DOMAIN ySession, a \in YAttrs, v \in YValues :
       ~yCrashed /\ SetSession(s, a, v)
  \/ \E r \in Rmeps, s \in DOMAIN ySession : ~yCrashed /\ RequestRmep(r, s)
  \/ \E p \in yPending : ~yCrashed /\ CreateRmep(p[1], p[2])
  \/ \E r \in DOMAIN rmep : ~yCrashed /\ RemoveRmep(r)
  \/ ~yCrashed /\ YWarmRestart
  \/ yCrashed /\ UNCHANGED y1731Vars

(* Sessions and remote MEPs hang together as remove_y1731_session and *)
(* remove_y1731_meg assume: a session's list is the remote MEPs that name it, *)
(* the engine holds exactly these and one local MEP per session, and a live *)
(* session's MEG is live. *)
MepsExact ==
  /\ \A r \in DOMAIN rmep : rmep[r] \in DOMAIN ySession
  /\ \A s \in DOMAIN ySession : /\ ySession[s].list = {r \in DOMAIN rmep : rmep[r] = s}
                                /\ ySession[s].meg \in megs
  /\ yRmep = {<<ySession[rmep[r]].key, r>> : r \in DOMAIN rmep}
  /\ DOMAIN yLmep = {ySession[s].key : s \in DOMAIN ySession}
  /\ Cardinality(DOMAIN yLmep) = Cardinality(DOMAIN ySession)
  /\ maids = megs

(* Record, engine and what the client asked of set_info agree on every *)
(* attribute, save those another attribute's case has disturbed. *)
AttrsExact ==
  \A s \in DOMAIN ySession : \A a \in YAttrs :
    <<s, a>> \notin yBent =>
      /\ ySession[s].attrs[a] = yAsked[s][a]
      /\ yLmep[ySession[s].key].attrs[a] = yAsked[s][a]

(* Y.1731 sessions of create_y1731_session are what their records say. *)
Y1731Exact == ~yCrashed => MepsExact /\ AttrsExact
=============================================================================
