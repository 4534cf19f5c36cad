-------------------------------- MODULE Bfd --------------------------------
(* BFD sessions (ctc_sai_bfd.c): a session takes an id, a route that sends *)
(* its source address to the CPU, a next hop for its packets (its own, the *)
(* reroute loop all sessions share, or the client's) and a pair of MEPs in *)
(* the OAM engine (whose events are in OamEvents). *)
(* *)
(* The loop's interface and internal port are taken and given back with its *)
(* next hop, so the next hop stands for the three. Timers, addresses of the *)
(* peer and header fields do not decide any step and are left out. *)
EXTENDS Naturals, FiniteSetsExt

CONSTANTS
  BfdSessions,   \* the ids of the BFD pool
  BfdAddrs,      \* source addresses
  BfdNhs,        \* the ids of the next hop pool that BFD gets to see
  BfdFaults      \* steps of a creation that may fail

ASSUME BfdAssumption == BfdSessions \cup BfdNhs \subseteq Nat \ {0}

(* The next hop a session gets: "ipuc" on a port and "tunnel" (IPv6) are its *)
(* own, "iloop" reroutes IPv4, "client" was created by the client; a session *)
(* in MPLS uses no route of its own. *)
BfdKinds == {"ipuc", "tunnel", "iloop", "client", "mpls"}

VARIABLES
  bfd,        \* the session records: a function from live ids
  bfdNhPool,  \* next hop ids taken
  bfdRoute,   \* the host route of an address: none, plain or self
  bfdGlobal,  \* use_global_res_info: the chip shares one reroute loop
  bfdHost,    \* addresses the client has a route for
  bfdDark,    \* addresses whose route another session's removal took
  bfdLeaked,  \* what failed creations left: next hops and addresses
  bfdRobbed   \* next hop ids given back under their owner

bfdVars == <<bfd, bfdNhPool, bfdRoute, bfdGlobal, bfdHost, bfdDark, bfdLeaked,
             bfdRobbed>>

IpSessions == {s \in DOMAIN bfd : bfd[s].kind # "mpls"}

(* _ctc_sai_bfd_add_local_ipuc: a route that is already there is not added, *)
(* and gets the self-address flag as far as ctcs_ipuc_get left it in place. *)
AddLocalIpuc(a, keep) ==
  bfdRoute' = [bfdRoute EXCEPT ![a] =
                 IF @ = "none" \/ (@ = "plain" /\ ~keep) THEN "self" ELSE @]

\* mutant: a route is removed whoever added it
RemoveAnyIpuc(s) ==
  IF bfd[s].kind = "mpls" THEN bfdRoute
  ELSE [bfdRoute EXCEPT ![bfd[s].addr] = "none"]

(* _ctc_sai_bfd_remove_local_ipuc: the session that added the route removes *)
(* it, any other clears its flag. *)
RemoveLocalIpuc(s) ==
  LET a == bfd[s].addr IN
    IF bfd[s].kind = "mpls" \/ bfdRoute[a] = "none" THEN bfdRoute
    ELSE [bfdRoute EXCEPT ![a] = IF bfd[s].added THEN "none" ELSE "plain"]

(* ctc_sai_db_alloc_id: the lowest free id, so that ids are reused early *)
FreeNh == IF BfdNhs \subseteq bfdNhPool THEN {} ELSE {Min(BfdNhs \ bfdNhPool)}

(* _ctc_sai_bfd_build_ipbfd_nh: the next hop the record names and the pool *)
(* afterwards. A private reroute loop falls through the error labels: all it *)
(* took is given back while the record keeps the ids. *)
BuiltNhs(kind) ==
  CASE kind \in {"ipuc", "tunnel"} ->
         {<<n, bfdNhPool \cup {n}>> : n \in FreeNh}
    [] kind = "iloop" /\ ~bfdGlobal ->
         {<<n, bfdNhPool>> : n \in FreeNh}
    [] OTHER -> {<<0, bfdNhPool>>}

\* mutant: an IPv6 session's tunnel keeps its id
RemoveNoTunnel(s) ==
  IF bfd[s].kind = "tunnel" THEN bfdNhPool ELSE bfdNhPool \ {bfd[s].nh}

(* _ctc_sai_bfd_remove_ipbfd_nh, for a next hop of the session's own *)
RemoveIpbfdNh(s) == bfdNhPool \ {bfd[s].nh}

(* The hardware part of ctc_sai_bfd_create_bfd_session in order: the route, *)
(* the next hop, the two MEPs (whose key, the discriminator, must be new). *)
(* Its error labels undo the MEP, the record and the id, and nothing of what *)
(* came before. *)
CreateBfd(s, kind, a, fault, keep) ==
  LET route == IF kind = "mpls" THEN {} ELSE {a}
      \* a refused IPv4 next hop keeps the id taken for it, a tunnel does not
      lost == IF fault = "nh" /\ kind = "ipuc" THEN FreeNh ELSE {} IN
  /\ s \notin DOMAIN bfd
  /\ fault # "none" => bfdLeaked.addrs = {} /\ bfdLeaked.nhs = {}   \* one fault
  /\ IF kind = "mpls" THEN UNCHANGED bfdRoute ELSE AddLocalIpuc(a, keep)
  /\ bfdDark' = {x \in bfdDark : x \notin route \/ bfdRoute'[x] # "self"}
  /\ IF fault = "nh" \/ BuiltNhs(kind) = {}
     THEN /\ UNCHANGED bfd /\ bfdNhPool' = bfdNhPool \cup lost
          /\ bfdLeaked' = [nhs |-> bfdLeaked.nhs \cup lost, addrs |-> bfdLeaked.addrs \cup route]
     ELSE \E b \in BuiltNhs(kind) :
       /\ bfdNhPool' = b[2]
       /\ IF fault = "mep"
          THEN /\ UNCHANGED bfd
               /\ bfdLeaked' = [nhs |-> bfdLeaked.nhs \cup (b[2] \ bfdNhPool),
                                addrs |-> bfdLeaked.addrs \cup route]
          ELSE /\ bfd' = [t \in DOMAIN bfd \cup {s} |->
                            IF t = s THEN [kind |-> kind, nh |-> b[1],
                                           addr |-> a,
                                           added |-> bfdRoute[a] = "none"]
                            ELSE bfd[t]]
               /\ UNCHANGED bfdLeaked
  /\ UNCHANGED <<bfdGlobal, bfdHost, bfdRobbed>>

(* ctc_sai_bfd_remove_bfd_session: the MEPs (looked up through the engine by *)
(* the remote index), the next hop, the route, the id and the record. *)
RemoveBfd(s) ==
  /\ s \in DOMAIN bfd
  /\ bfdNhPool' = RemoveIpbfdNh(s)
  /\ bfdRoute' = RemoveLocalIpuc(s)
  /\ bfd' = [t \in DOMAIN bfd \ {s} |-> bfd[t]]
  /\ bfdDark' =
       IF s \notin IpSessions THEN bfdDark
       ELSE IF \E t \in IpSessions \ {s} : bfd[t].addr = bfd[s].addr
       THEN bfdDark \cup {bfd[s].addr} ELSE bfdDark \ {bfd[s].addr}
  /\ bfdRobbed' = bfdRobbed \cup
       {n \in {bfd[s].nh} : \/ \E t \in DOMAIN bfd \ {s} : bfd[t].nh = n
                            \/ n \in bfdLeaked.nhs}
  /\ UNCHANGED <<bfdGlobal, bfdHost, bfdLeaked>>

BfdInit ==
  /\ bfd = << >> /\ bfdNhPool = {}
  /\ bfdHost \in SUBSET BfdAddrs
  /\ bfdRoute = [a \in BfdAddrs |-> IF a \in bfdHost THEN "plain" ELSE "none"]
  /\ bfdGlobal \in BOOLEAN
  /\ bfdDark = {} /\ bfdLeaked = [nhs |-> {}, addrs |-> {}] /\ bfdRobbed = {}

BfdNext ==
  \/ \E s \in BfdSessions, kind \in BfdKinds, a \in BfdAddrs,
        fault \in {"none"} \cup BfdFaults, keep \in BOOLEAN :
       CreateBfd(s, kind, a, fault, keep)
  \/ \E s \in DOMAIN bfd : RemoveBfd(s)

(* A live session on IP gets its packets: the route create_bfd_session set *)
(* up for its address stays until the session or a neighbour with the same *)
(* address goes, the client's own route survives them all *)
(* (remove_local_ipuc), and no session's route outlives it. *)
RoutesExact ==
  /\ \A s \in IpSessions :
       \/ bfd[s].addr \in bfdHost \cup bfdLeaked.addrs \cup bfdDark
       \/ bfdRoute[bfd[s].addr] = "self"
  /\ \A a \in bfdHost : bfdRoute[a] # "none"
  /\ \A a \in BfdAddrs \ (bfdHost \cup bfdLeaked.addrs) :
       bfdRoute[a] = "none" \/ \E s \in IpSessions : bfd[s].addr = a

(* The next hop pool holds the next hops of the live sessions and what failed *)
(* creations left, save those remove_ipbfd_nh of a session with a private *)
(* reroute loop gave back under their owners. *)
NextHopsExact ==
  \A n \in BfdNhs \ bfdRobbed :
    n \in bfdNhPool <=>
      \/ n \in bfdLeaked.nhs
      \/ \E s \in DOMAIN bfd : bfd[s].nh = n /\ bfd[s].kind # "iloop"

(* The sessions of create_bfd_session and remove_bfd_session keep the routes *)
(* and the next hops they need, and only those. *)
BfdExact == RoutesExact /\ NextHopsExact
=============================================================================
