------------------------------- MODULE Twamp -------------------------------
(* TWAMP sessions (ctc_sai_twamp.c). A session takes an id of a pool of *)
(* eight, a local MEP shared by the sessions of its port, an ACL entry that *)
(* hands its packets to that MEP, for a hardware lookup a loop (next hop, L3 *)
(* interface and internal port), and a generator of the NPM engine. None of *)
(* these calls takes the database lock. *)
(* *)
(* The NPM sessions of ctc_sai_npm.c have the same structure and no ids: *)
(* _ctc_sai_db_init_id gives their pool no range, so that none is created. *)
EXTENDS Naturals, FiniteSets, FiniteSetsExt

CONSTANTS
  TwIds,         \* the pool of session ids
  TwPorts,
  TwNhs,         \* the pool of next hop ids
  OtherNhs       \* the ones of them that other objects hold

ASSUME TwampAssumption ==
  TwIds \subseteq Nat \ {0} /\ TwNhs \subseteq Nat \ {0} /\ OtherNhs \subseteq TwNhs

VARIABLES
  tSess,     \* session records: a function from live ids
  tFree,     \* free session ids
  tEntry,    \* ACL entries: a function from sessions to the port of their MEP
  tMeps,     \* ports with a local MEP
  tLast,     \* the MEP whose index twamp_mep_index keeps
  tMac,      \* the bridge MAC of the OAM engine, shared by all, is set
  tSends,    \* sessions whose generator runs
  tNhs,      \* next hop ids in use
  tGone,     \* sessions the client has asked to remove
  tLost,     \* ids of creations that failed
  tRobbed    \* next hops given back while somebody else held them

twVars == <<tSess, tFree, tEntry, tMeps, tLast, tMac, tSends, tNhs,
               tGone, tLost, tRobbed>>

(* What a client asks for: its own next hop counts only for a reflector. *)
TwRequests ==
  {r \in [port : TwPorts, sender : BOOLEAN, v4 : BOOLEAN, hw : BOOLEAN,
          tx : BOOLEAN, nh : {0} \cup OtherNhs] :
     r.sender => r.nh = 0}

\* mutant: the next hop id is not taken from the free ones
LoopNhUsed == Min(TwNhs \ OtherNhs)

(* create_iloop_nexthop_for_hw_lookup: the id of the loop's next hop *)
LoopNh == Min(TwNhs \ tNhs)

(* mapping_npm_session runs for the senders of IPv4 only: a reflector has no *)
(* loop even where it asks for the lookup. *)
TakesLoop(r) == r.sender /\ r.v4 /\ r.hw

(* create_oam_mep_index: where the port's MEP exists, the index of the MEP *)
(* that was added last *)
MepIndex(p) == IF p \in tMeps THEN tLast ELSE p

(* ctc_sai_twamp_create_twamp_session *)
CreateTwamp(r) ==
  /\ tFree # {} /\ (TakesLoop(r) => TwNhs \ tNhs # {})
  /\ LET s == Min(tFree)
         nh == IF TakesLoop(r) THEN LoopNh ELSE r.nh
     IN /\ tFree' = tFree \ {s}
        /\ tSess' = [x \in DOMAIN tSess \cup {s} |->
                       IF x = s THEN [port |-> r.port, v4 |-> r.v4, hw |-> r.hw, tx |-> r.tx,
                                      set |-> FALSE, nh |-> nh, loop |-> TakesLoop(r)]
                       ELSE tSess[x]]
        /\ tEntry' = IF r.v4
                     THEN [x \in DOMAIN tEntry \cup {s} |->
                             IF x = s THEN MepIndex(r.port) ELSE tEntry[x]]
                     ELSE tEntry
        /\ tNhs' = IF TakesLoop(r) THEN tNhs \cup {nh} ELSE tNhs
  /\ tMeps' = tMeps \cup {r.port} /\ tLast' = MepIndex(r.port)
  /\ tMac' = TRUE
  /\ UNCHANGED <<tSends, tGone, tLost, tRobbed>>

(* The label error2 frees the id in the pool of number SAI_OBJECT_TYPE_TWAMP, *)
(* another one, and undoes nothing else. Without SESSION_ENABLE_TRANSMIT the *)
(* parser fails first; where the engine refuses, MEP and loop are there. *)
FailCreate(r, parsed) ==
  /\ tFree # {} /\ tLost = {} /\ (TakesLoop(r) => TwNhs \ tNhs # {})
  /\ parsed => r.v4
  /\ tFree' = tFree \ {Min(tFree)} /\ tLost' = {Min(tFree)}
  /\ IF parsed
     THEN /\ tMeps' = tMeps \cup {r.port} /\ tLast' = MepIndex(r.port)
          /\ tMac' = TRUE
          /\ tNhs' = IF TakesLoop(r) THEN tNhs \cup {LoopNh} ELSE tNhs
     ELSE UNCHANGED <<tMeps, tLast, tMac, tNhs>>
  /\ UNCHANGED <<tSess, tEntry, tSends, tGone, tRobbed>>

(* remove_iloop_nexthop_for_hw_lookup frees the next hop of the record, its *)
(* own, the client's, or one it has freed before. *)
Holders(nh) == {s \in DOMAIN tSess \ tGone : tSess[s].loop /\ tSess[s].nh = nh}
RemoveLoop(s) ==
  LET nh == tSess[s].nh IN
  /\ tNhs' = tNhs \ {nh}
  /\ tRobbed' = IF nh \in tNhs /\ (nh \in OtherNhs \/ Holders(nh) \ {s} # {})
                THEN tRobbed \cup {nh} ELSE tRobbed

(* ctc_sai_twamp_remove_twamp_session: the MAID has users, and the key of the *)
(* MEP lacks the VLAN of its creation, so that the engine refuses both and *)
(* the record and the id stay. *)
RemoveTwamp(s) ==
  /\ s \in DOMAIN tSess
  /\ IF tSess[s].hw THEN RemoveLoop(s) ELSE UNCHANGED <<tNhs, tRobbed>>
  /\ tEntry' = [x \in DOMAIN tEntry \ {s} |-> tEntry[x]]
  /\ tSends' = tSends \ {s}
  /\ tMac' = FALSE
  /\ tGone' = tGone \cup {s}
  /\ UNCHANGED <<tSess, tFree, tMeps, tLast, tLost>>

\* mutant: the generator runs on when it is set off
SetTransmit_on(s) ==
  /\ s \in DOMAIN tSess
  /\ tSess' = [tSess EXCEPT ![s].tx = ~@, ![s].set = TRUE]
  /\ tSends' = tSends \cup {s}
  /\ UNCHANGED <<tFree, tEntry, tMeps, tLast, tMac, tNhs, tGone, tLost, tRobbed>>

(* ctc_sai_twamp_set_twamp_session_attr: only the transmission can be set. It *)
(* passes the session's number where the ACL functions want its object id; *)
(* they work on the entry of session 0, that does not exist. *)
SetTransmit(s) ==
  /\ s \in DOMAIN tSess
  /\ tSess' = [tSess EXCEPT ![s].tx = ~@, ![s].set = TRUE]
  /\ tSends' = IF tSess[s].tx THEN tSends \ {s} ELSE tSends \cup {s}
  /\ UNCHANGED <<tFree, tEntry, tMeps, tLast, tMac, tNhs, tGone, tLost, tRobbed>>

TwInit ==
  /\ tSess = <<>> /\ tFree = TwIds /\ tEntry = <<>>
  /\ tMeps = {} /\ tLast = "none" /\ tMac = FALSE /\ tSends = {}
  /\ tNhs = OtherNhs /\ tGone = {} /\ tLost = {} /\ tRobbed = {}

TwNext ==
  \/ \E r \in TwRequests : CreateTwamp(r) \/ \E parsed \in BOOLEAN : FailCreate(r, parsed)
  \/ \E s \in TwIds : RemoveTwamp(s) \/ SetTransmit(s)

(* A session that nobody asked to remove has its ACL entry and, alone, its *)
(* loop's next hop; its entry reports to the MEP of its port, unless MEPs of *)
(* several ports exist; its generator runs as it was last set; the settings *)
(* it shares with others hold until one of them is removed. An id is free, in *)
(* use or lost by a failed creation. The next hops that a removal took from *)
(* others are excepted (tRobbed). *)
TwampExact ==
  /\ TwIds = tFree \cup DOMAIN tSess \cup tLost
  /\ tFree \cap (DOMAIN tSess \cup tLost) = {} /\ DOMAIN tSess \cap tLost = {}
  /\ DOMAIN tEntry \subseteq DOMAIN tSess \ tGone
  /\ tNhs \subseteq TwNhs /\ OtherNhs \subseteq tNhs \cup tRobbed
  /\ \A s \in DOMAIN tSess \ tGone :
       LET rec == tSess[s] IN
       /\ rec.v4 => s \in DOMAIN tEntry /\ tEntry[s] \in tMeps
       /\ rec.v4 /\ tMeps = {rec.port} => tEntry[s] = rec.port
       /\ rec.loop /\ rec.nh \notin tRobbed => rec.nh \in tNhs /\ Holders(rec.nh) = {s}
       /\ rec.set => (s \in tSends) = rec.tx
       /\ tGone = {} => tMac
=============================================================================
