--------------------------- MODULE ServicesProofs ---------------------------
(***************************************************************************)
(* Safety theorems about the parts of Services that deliver frames, those *)
(* that watch the paths and those that keep labels and settings, for every *)
(* set of groups, entries, sessions, labels, interfaces and ports that *)
(* satisfies the parts' assumptions: reverse path checks (Rpf), address *)
(* translation (Nat), isolation groups (Isolation) and multicast (Mcast); *)
(* BFD (Bfd), Y.1731 (Y1731), TWAMP (Twamp) and their events (OamEvents); *)
(* labels (Mpls), clocks (TimeSync) and ports (PortConfig). One section *)
(* per part: its inductive invariant, the lemma that it holds at first, *)
(* one lemma per call that keeps it, and what it gives. The theorems *)
(* follow at the end, since a step of Services is a step of one part. *)
(***************************************************************************)
EXTENDS Services, FiniteSetTheorems, FunctionTheorems, SequenceTheorems,
        WellFoundedInduction, TLAPS

-----------------------------------------------------------------------------
(* Numbers and counts *)
(* The least of a set of numbers. *)
LEMMA MinFact ==
  ASSUME NEW S \in SUBSET Nat, S # {}
  PROVE  Min(S) \in S /\ \A y \in S : Min(S) <= y
PROOF
<1> DEFINE less == {ss \in Nat \X Nat : ss[1] < ss[2]}
<1>1. IsWellFoundedOn(less, Nat)
  BY NatLessThanWellFounded DEF OpToRel
<1>2. PICK x \in S : \A y \in S : <<y, x>> \notin less
  BY <1>1, WFMin
<1>3. ASSUME NEW y \in S PROVE x <= y
  <2>1. x \in Nat /\ y \in Nat /\ <<y, x>> \notin less
    BY <1>2
  <2> QED BY <2>1
<1> QED BY <1>3 DEF Min

(* A finite set that a function tells apart is as large as its image. *)
LEMMA SameSize ==
  ASSUME NEW S, IsFiniteSet(S), NEW f, \A x \in S : \A y \in S : f[x] = f[y] => x = y
  PROVE  IsFiniteSet({f[x] : x \in S}) /\ Cardinality({f[x] : x \in S}) = Cardinality(S)
PROOF
<1> DEFINE T == {f[x] : x \in S}
           b == [x \in S |-> f[x]]
<1>1. b \in Bijection(S, T)
  BY DEF Bijection, Injection, Surjection, IsInjective
<1>2. ExistsBijection(S, T)
  BY <1>1 DEF ExistsBijection
<1> HIDE DEF T
<1>3. IsFiniteSet(T) /\ Cardinality(T) = Cardinality(S)
  BY <1>2, FS_Bijection
<1> QED BY <1>3 DEF T

-----------------------------------------------------------------------------
(* RPF groups *)
RpfTyped ==
  /\ DOMAIN rpfTold = DOMAIN rpfSlot /\ DOMAIN rpfSlot \subseteq RpfGroups
  /\ \A g \in DOMAIN rpfSlot : rpfSlot[g] \in [RpfSlots -> RpfIfs \cup {0}]
  /\ \A e \in DOMAIN rpfEntry : rpfEntry[e] \in [grp : RpfGroups, hw : SUBSET RpfIfs]
(* No interface is in two slots of a group. *)
Apart(slots) == \A n \in RpfSlots : \A m \in RpfSlots : slots[n] = slots[m] /\ slots[n] # 0 => n = m
Given(g) == {i \in rpfTold[g] : <<g, i>> \notin rpfLost}
RpfInv ==
  /\ RpfTyped
  /\ \A g \in DOMAIN rpfSlot : Apart(rpfSlot[g]) /\ RpfMembers(g) = Given(g)
  /\ \A e \in DOMAIN rpfEntry :
       e \notin rpfAged => rpfEntry[e].grp \in DOMAIN rpfSlot /\ rpfEntry[e].hw = RpfMembers(rpfEntry[e].grp)

(* What the invariant says of a reverse path check. *)
LEMMA RpfGives == RpfInv => RpfExact
PROOF
<1> SUFFICES ASSUME RpfInv PROVE RpfExact
  OBVIOUS
<1>1. ASSUME NEW g \in DOMAIN rpfSlot
      PROVE  Cardinality({n \in RpfSlots : rpfSlot[g][n] # 0}) = Cardinality(RpfMembers(g))
  <2> DEFINE full == {n \in RpfSlots : rpfSlot[g][n] # 0}
             f == rpfSlot[g]
  <2>1. IsFiniteSet(full)
    BY RpfAssumption, FS_Subset
  <2>2. \A x \in full : \A y \in full : f[x] = f[y] => x = y
    BY DEF RpfInv, Apart
  <2>3. RpfMembers(g) = {f[x] : x \in full}
    BY DEF RpfMembers
  <2> HIDE DEF full, f
  <2>4. Cardinality({f[x] : x \in full}) = Cardinality(full)
    BY <2>1, <2>2, SameSize
  <2>5. Cardinality(RpfMembers(g)) = Cardinality(full)
    BY <2>3, <2>4
  <2> QED BY <2>5 DEF full
<1>2. \A g \in DOMAIN rpfSlot : RpfMembers(g) = {i \in rpfTold[g] : <<g, i>> \notin rpfLost}
  BY DEF RpfInv, Given
<1> QED BY <1>1, <1>2 DEF RpfExact, RpfInv

(* It holds before the first call. *)
LEMMA RpfInitially == RpfInit => RpfInv
BY DEF RpfInit, RpfInv, RpfTyped, CopiesOf

(* A call that changes one group and ages the entries that copied it keeps *)
(* the invariant if it holds of that group. *)
LEMMA GroupKeeps ==
  ASSUME RpfInv, RpfTyped', NEW g,
         rpfEntry' = rpfEntry, rpfAged' = rpfAged \cup CopiesOf(g),
         \A h \in DOMAIN rpfSlot' : h # g => h \in DOMAIN rpfSlot /\ rpfSlot'[h] = rpfSlot[h]
                                               /\ Given(h)' = Given(h),
         \A h \in DOMAIN rpfSlot : h # g => h \in DOMAIN rpfSlot',
         g \in DOMAIN rpfSlot' => Apart(rpfSlot'[g]) /\ RpfMembers(g)' = Given(g)'
  PROVE  RpfInv'
PROOF
<1>1. ASSUME NEW h \in DOMAIN rpfSlot', h # g
      PROVE  Apart(rpfSlot'[h]) /\ RpfMembers(h)' = Given(h)'
  <2>1. h \in DOMAIN rpfSlot /\ rpfSlot'[h] = rpfSlot[h] /\ Given(h)' = Given(h)
    BY <1>1
  <2>2. RpfMembers(h)' = RpfMembers(h)
    BY <2>1 DEF RpfMembers
  <2> QED BY <2>1, <2>2 DEF RpfInv
<1>2. ASSUME NEW e \in DOMAIN rpfEntry', e \notin rpfAged'
      PROVE  rpfEntry'[e].grp \in DOMAIN rpfSlot' /\ rpfEntry'[e].hw = RpfMembers(rpfEntry[e].grp)'
  <2>1. e \in DOMAIN rpfEntry /\ rpfEntry'[e] = rpfEntry[e] /\ e \notin rpfAged /\ rpfEntry[e].grp # g
    BY <1>2 DEF CopiesOf
  <2>2. rpfEntry[e].grp \in DOMAIN rpfSlot /\ rpfEntry[e].hw = RpfMembers(rpfEntry[e].grp)
    BY <2>1 DEF RpfInv
  <2>3. rpfEntry[e].grp \in DOMAIN rpfSlot' /\ rpfSlot'[rpfEntry[e].grp] = rpfSlot[rpfEntry[e].grp]
    BY <2>1, <2>2
  <2>4. RpfMembers(rpfEntry[e].grp)' = RpfMembers(rpfEntry[e].grp)
    BY <2>3, <2>1 DEF RpfMembers
  <2> QED BY <2>1, <2>2, <2>3, <2>4
<1>3. \A h \in DOMAIN rpfSlot' : Apart(rpfSlot'[h])
  BY <1>1
<1>4. \A h \in DOMAIN rpfSlot' : RpfMembers(h)' = Given(h)'
  BY <1>1
<1> QED BY <1>2, <1>3, <1>4 DEF RpfInv, Apart

(* create_rpf_group and remove_rpf_group. *)
LEMMA RpfGroupKeeps ==
  ASSUME RpfInv, NEW g \in RpfGroups, CreateRpfGroup(g) \/ RemoveRpfGroup(g)
  PROVE  RpfInv'
PROOF
<1>1. CASE CreateRpfGroup(g)
  <2> DEFINE none == [n \in RpfSlots |-> 0]
  <2>1. /\ g \notin DOMAIN rpfSlot /\ DOMAIN rpfSlot' = DOMAIN rpfSlot \cup {g} /\ rpfSlot'[g] = none
        /\ \A h \in DOMAIN rpfSlot : h # g => rpfSlot'[h] = rpfSlot[h]
        /\ UNCHANGED <<rpfEntry, rpfLost, rpfAged>>
    BY <1>1 DEF CreateRpfGroup, RpfPut
  <2>2. /\ DOMAIN rpfTold' = DOMAIN rpfTold \cup {g} /\ rpfTold'[g] = {}
        /\ \A h \in DOMAIN rpfTold : h # g => rpfTold'[h] = rpfTold[h]
    BY <1>1 DEF CreateRpfGroup, RpfPut
  <2>3. none \in [RpfSlots -> RpfIfs \cup {0}] /\ Apart(none)
    BY DEF Apart
  <2> HIDE DEF none
  <2>4. RpfTyped'
    BY <2>1, <2>2, <2>3 DEF RpfInv, RpfTyped
  <2>5. \A h \in DOMAIN rpfSlot : Given(h)' = Given(h)
    BY <2>1, <2>2 DEF Given, RpfInv, RpfTyped
  <2>6. Given(g)' = {}
    BY <2>2 DEF Given
  <2>7. RpfMembers(g)' = {}
    BY <2>1 DEF RpfMembers, none
  <2>8. \A h \in DOMAIN rpfSlot : RpfMembers(h)' = RpfMembers(h) /\ h # g
    BY <2>1 DEF RpfMembers
  <2>9. \A h \in DOMAIN rpfSlot' : Apart(rpfSlot'[h]) /\ RpfMembers(h)' = Given(h)'
    BY <2>1, <2>3, <2>5, <2>6, <2>7, <2>8 DEF RpfInv
  <2>10. \A h \in DOMAIN rpfSlot' : Apart(rpfSlot'[h])
    BY <2>9
  <2>11. \A h \in DOMAIN rpfSlot' : RpfMembers(h)' = Given(h)'
    BY <2>9
  <2>12. \A e \in DOMAIN rpfEntry :
           e \notin rpfAged => rpfEntry[e].grp \in DOMAIN rpfSlot' /\ rpfEntry[e].hw = RpfMembers(rpfEntry[e].grp)'
    BY <2>1, <2>8 DEF RpfInv
  <2> QED BY <2>1, <2>4, <2>10, <2>11, <2>12 DEF RpfInv, Apart
<1>2. CASE RemoveRpfGroup(g)
  <2>1. /\ g \in DOMAIN rpfSlot /\ DOMAIN rpfSlot' = DOMAIN rpfSlot \ {g}
        /\ \A h \in DOMAIN rpfSlot \ {g} : rpfSlot'[h] = rpfSlot[h]
        /\ rpfLost' = {m \in rpfLost : m[1] # g} /\ rpfEntry' = rpfEntry
        /\ rpfAged' = rpfAged \cup CopiesOf(g)
    BY <1>2 DEF RemoveRpfGroup, RpfDrop
  <2>2. /\ DOMAIN rpfTold' = DOMAIN rpfTold \ {g}
        /\ \A h \in DOMAIN rpfTold \ {g} : rpfTold'[h] = rpfTold[h]
    BY <1>2 DEF RemoveRpfGroup, RpfDrop
  <2>3. RpfTyped'
    BY <2>1, <2>2 DEF RpfInv, RpfTyped
  <2>4. \A h \in DOMAIN rpfSlot \ {g} : Given(h)' = Given(h)
    BY <2>1, <2>2 DEF Given, RpfInv, RpfTyped
  <2> QED BY <2>1, <2>3, <2>4, GroupKeeps
<1> QED BY <1>1, <1>2

(* create_rpf_group_member. *)
LEMMA CreateRpfMemberKeeps ==
  ASSUME RpfInv, NEW g \in RpfGroups, NEW i \in RpfIfs, CreateRpfMember(g, i)
  PROVE  RpfInv'
PROOF
<1> DEFINE clear == {n \in RpfSlots : rpfSlot[g][n] = 0}
<1>1. /\ g \in DOMAIN rpfSlot /\ i \notin RpfMembers(g) /\ rpfEntry' = rpfEntry
      /\ rpfTold' = [rpfTold EXCEPT ![g] = rpfTold[g] \cup {i}]
  BY DEF CreateRpfMember
<1>2. i # 0 /\ rpfSlot[g] \in [RpfSlots -> RpfIfs \cup {0}] /\ DOMAIN rpfTold = DOMAIN rpfSlot
  BY <1>1, RpfAssumption DEF RpfInv, RpfTyped
<1>3. Apart(rpfSlot[g]) /\ RpfMembers(g) = Given(g)
  BY <1>1 DEF RpfInv
<1>4. /\ DOMAIN rpfTold' = DOMAIN rpfTold /\ rpfTold'[g] = rpfTold[g] \cup {i}
      /\ \A h \in DOMAIN rpfTold : h # g => rpfTold'[h] = rpfTold[h]
  BY <1>1, <1>2
<1>5. CASE clear = {}
  <2>1. rpfLost' = rpfLost \cup {<<g, i>>} /\ UNCHANGED <<rpfSlot, rpfAged>>
    BY <1>5 DEF CreateRpfMember
  <2>2. RpfTyped'
    BY <1>1, <2>1, <1>4 DEF RpfInv, RpfTyped
  <2>3. Given(g)' = Given(g)
    BY <2>1, <1>1, <1>3, <1>4 DEF Given
  <2>4. \A h \in DOMAIN rpfSlot : h # g => Given(h)' = Given(h)
    BY <2>1, <1>2, <1>4 DEF Given
  <2>5. \A h : RpfMembers(h)' = RpfMembers(h)
    BY <2>1 DEF RpfMembers
  <2>6. \A h \in DOMAIN rpfSlot' : RpfMembers(h)' = Given(h)'
    BY <2>1, <2>3, <2>4, <2>5 DEF RpfInv
  <2>7. \A h \in DOMAIN rpfSlot' : Apart(rpfSlot'[h])
    BY <2>1 DEF RpfInv
  <2>8. \A e \in DOMAIN rpfEntry :
          e \notin rpfAged => rpfEntry[e].grp \in DOMAIN rpfSlot /\ rpfEntry[e].hw = RpfMembers(rpfEntry[e].grp)
    BY DEF RpfInv
  <2> QED BY <1>1, <2>1, <2>2, <2>5, <2>6, <2>7, <2>8 DEF RpfInv, Apart
<1>6. CASE clear # {}
  <2> DEFINE m == Min(clear)
  <2>1. clear \in SUBSET Nat
    BY RpfAssumption
  <2>2. m \in clear
    BY <2>1, <1>6, MinFact
  <2>3. /\ rpfSlot' = [rpfSlot EXCEPT ![g][m] = i] /\ rpfLost' = rpfLost \ {<<g, i>>}
        /\ rpfAged' = rpfAged \cup CopiesOf(g)
    BY <1>6 DEF CreateRpfMember
  <2>4. m \in RpfSlots /\ rpfSlot[g][m] = 0
    BY <2>2
  <2> HIDE DEF m, clear
  <2>5. /\ DOMAIN rpfSlot' = DOMAIN rpfSlot /\ rpfSlot'[g] = [rpfSlot[g] EXCEPT ![m] = i]
        /\ \A h \in DOMAIN rpfSlot : h # g => rpfSlot'[h] = rpfSlot[h]
    BY <2>3, <1>1
  <2>6. rpfSlot'[g] \in [RpfSlots -> RpfIfs \cup {0}] /\ rpfSlot'[g][m] = i
        /\ \A n \in RpfSlots : n # m => rpfSlot'[g][n] = rpfSlot[g][n]
    BY <1>2, <2>4, <2>5
  <2>7. RpfTyped'
    BY <1>1, <1>4, <2>5, <2>6 DEF RpfInv, RpfTyped
  <2>8. \A h \in DOMAIN rpfSlot : h # g => Given(h)' = Given(h)
    BY <1>2, <1>4, <2>3 DEF Given
  <2>9. Given(g)' = Given(g) \cup {i}
    BY <1>4, <2>3 DEF Given
  <2>10. RpfMembers(g)' = RpfMembers(g) \cup {i}
    BY <1>2, <2>4, <2>6 DEF RpfMembers
  <2>11. \A n \in RpfSlots : rpfSlot[g][n] # i
    BY <1>1, <1>2 DEF RpfMembers
  <2>12. Apart(rpfSlot'[g])
    BY <1>2, <1>3, <2>4, <2>6, <2>11 DEF Apart
  <2> QED BY <1>1, <1>3, <2>3, <2>5, <2>7, <2>8, <2>9, <2>10, <2>12, GroupKeeps
<1> QED BY <1>5, <1>6

(* remove_rpf_group_member. *)
LEMMA RemoveRpfMemberKeeps ==
  ASSUME RpfInv, NEW g \in RpfGroups, NEW i \in RpfIfs, RemoveRpfMember(g, i)
  PROVE  RpfInv'
PROOF
<1>1. /\ g \in DOMAIN rpfSlot /\ i \in RpfMembers(g) /\ rpfEntry' = rpfEntry /\ rpfLost' = rpfLost
      /\ rpfTold' = [rpfTold EXCEPT ![g] = rpfTold[g] \ {i}] /\ rpfAged' = rpfAged \cup CopiesOf(g)
      /\ rpfSlot' = [rpfSlot EXCEPT ![g] = [n \in RpfSlots |-> IF rpfSlot[g][n] = i THEN 0 ELSE rpfSlot[g][n]]]
  BY DEF RemoveRpfMember
<1>2. i # 0 /\ rpfSlot[g] \in [RpfSlots -> RpfIfs \cup {0}] /\ DOMAIN rpfTold = DOMAIN rpfSlot
  BY <1>1, RpfAssumption DEF RpfInv, RpfTyped
<1>3. Apart(rpfSlot[g]) /\ RpfMembers(g) = Given(g)
  BY <1>1 DEF RpfInv
<1>4. /\ DOMAIN rpfTold' = DOMAIN rpfTold /\ rpfTold'[g] = rpfTold[g] \ {i}
      /\ \A h \in DOMAIN rpfTold : h # g => rpfTold'[h] = rpfTold[h]
  BY <1>1, <1>2
<1>5. /\ DOMAIN rpfSlot' = DOMAIN rpfSlot
      /\ rpfSlot'[g] = [n \in RpfSlots |-> IF rpfSlot[g][n] = i THEN 0 ELSE rpfSlot[g][n]]
      /\ \A h \in DOMAIN rpfSlot : h # g => rpfSlot'[h] = rpfSlot[h]
  BY <1>1
<1>6. /\ rpfSlot'[g] \in [RpfSlots -> RpfIfs \cup {0}]
      /\ \A n \in RpfSlots : rpfSlot'[g][n] = IF rpfSlot[g][n] = i THEN 0 ELSE rpfSlot[g][n]
  BY <1>2, <1>5
<1>7. RpfTyped'
  BY <1>1, <1>4, <1>5, <1>6 DEF RpfInv, RpfTyped
<1>8. \A h \in DOMAIN rpfSlot : h # g => Given(h)' = Given(h)
  BY <1>1, <1>2, <1>4 DEF Given
<1>9. Given(g)' = Given(g) \ {i}
  BY <1>1, <1>4 DEF Given
<1>10. RpfMembers(g)' = RpfMembers(g) \ {i}
  BY <1>2, <1>6 DEF RpfMembers
<1>11. Apart(rpfSlot'[g])
  BY <1>3, <1>6 DEF Apart
<1> QED BY <1>1, <1>3, <1>5, <1>7, <1>8, <1>9, <1>10, <1>11, GroupKeeps

(* The IPMC entries: create_ipmc_entry, set_ipmc_rpf_group_id and *)
(* set_ipmc_packet_action. *)
LEMMA RpfEntryKeeps ==
  ASSUME RpfInv, NEW e, NEW g,
         CreateRpfEntry(e, g) \/ SetEntryRpf(e, g) \/ SetEntryAction(e)
  PROVE  RpfInv'
PROOF
<1>1. UNCHANGED <<rpfSlot, rpfTold, rpfLost>>
  BY DEF CreateRpfEntry, SetEntryRpf, SetEntryAction
<1>0. /\ \A x \in DOMAIN rpfEntry : rpfEntry[x] \in [grp : RpfGroups, hw : SUBSET RpfIfs]
      /\ \A h \in DOMAIN rpfSlot : RpfMembers(h) \subseteq RpfIfs /\ h \in RpfGroups
  BY DEF RpfInv, RpfTyped, RpfMembers
<1>2. /\ DOMAIN rpfEntry \subseteq DOMAIN rpfEntry' /\ DOMAIN rpfEntry' = DOMAIN rpfEntry \cup {e}
      /\ rpfEntry'[e].grp \in DOMAIN rpfSlot /\ rpfEntry'[e].hw = RpfMembers(rpfEntry'[e].grp)
      /\ rpfEntry'[e] \in [grp : RpfGroups, hw : SUBSET RpfIfs]
      /\ \A x \in DOMAIN rpfEntry : x # e => rpfEntry'[x] = rpfEntry[x]
      /\ rpfAged \subseteq rpfAged' \cup {e}
  <2>1. CASE CreateRpfEntry(e, g)
    BY <1>0, <2>1 DEF CreateRpfEntry, RpfPut
  <2>2. CASE SetEntryRpf(e, g)
    BY <1>0, <2>2 DEF SetEntryRpf
  <2>3. CASE SetEntryAction(e)
    BY <1>0, <2>3 DEF SetEntryAction
  <2> QED BY <2>1, <2>2, <2>3
<1>3. \A h : RpfMembers(h)' = RpfMembers(h) /\ Given(h)' = Given(h)
  BY <1>1 DEF RpfMembers, Given
<1>4. RpfTyped'
  BY <1>1, <1>2 DEF RpfInv, RpfTyped
<1>5. \A h \in DOMAIN rpfSlot' : Apart(rpfSlot'[h]) /\ RpfMembers(h)' = Given(h)'
  BY <1>1, <1>3 DEF RpfInv
<1>6. \A h \in DOMAIN rpfSlot' : Apart(rpfSlot'[h])
  BY <1>5
<1>7. \A x \in DOMAIN rpfEntry' :
        x \notin rpfAged' => rpfEntry'[x].grp \in DOMAIN rpfSlot' /\ rpfEntry'[x].hw = RpfMembers(rpfEntry[x].grp)'
  BY <1>2, <1>1, <1>3 DEF RpfInv
<1> QED BY <1>4, <1>5, <1>6, <1>7 DEF RpfInv, Apart

(* Every call keeps it. *)
LEMMA RpfCallsKeep == RpfInv /\ [RpfNext]_rpfVars => RpfInv'
PROOF
<1> SUFFICES ASSUME RpfInv, [RpfNext]_rpfVars PROVE RpfInv'
  OBVIOUS
<1>1. CASE UNCHANGED rpfVars
  BY <1>1 DEF rpfVars, RpfInv, RpfTyped, Apart, Given, RpfMembers
<1>2. CASE RpfNext
  BY <1>2, RpfGroupKeeps, CreateRpfMemberKeeps, RemoveRpfMemberKeeps, RpfEntryKeeps DEF RpfNext
<1> QED BY <1>1, <1>2

-----------------------------------------------------------------------------
(* NAT entries *)
NatRecs == [type : NatTypes, nh : NatNhs \cup {0}, reroute : BOOLEAN]
NatTyped ==
  /\ DOMAIN natRec \subseteq NatKeys /\ IsFiniteSet(DOMAIN natRec)
  /\ \A k \in DOMAIN natRec : natRec[k] \in NatRecs
  /\ natUsed \subseteq NatNhs /\ natLeft \subseteq natUsed /\ DOMAIN natNh \subseteq natUsed
  /\ natCnt \in [NatTypes -> Int] /\ natBulk \in Nat
NatSources ==
  /\ natSa = {k[1] : k \in NatOf("SNAT")}
  /\ \A j \in NatOf("SNAT") : \A k \in NatOf("SNAT") : j[1] = k[1] => j = k
NatDestinations ==
  /\ DOMAIN natDa = {k[2] : k \in NatOf("DNAT")}
  /\ \A j \in NatOf("DNAT") : \A k \in NatOf("DNAT") : j[2] = k[2] => j = k
NatHolds(k) == natDa[k[2]] = natRec[k].nh /\ natRec[k].nh \in natUsed \ natLeft
(* The next hop of an entry that was not left half removed is written, with *)
(* the neighbour's MAC or with none, and a MAC is never the none. *)
NatWritten(k) ==
  /\ natRec[k].nh \in DOMAIN natNh
  /\ natRec[k].reroute => natNh[natRec[k].nh] = 0
  /\ ~natRec[k].reroute => /\ natNh[natRec[k].nh] # 0
                           /\ natRec[k].nh \in natAged \/ natNh[natRec[k].nh] = natNbr
NatCounts == natBulk = 0 => \A t \in NatTypes : natCnt[t] = Cardinality(NatOf(t))
NatInv ==
  /\ NatTyped /\ NatSources /\ NatDestinations /\ NatCounts
  /\ \A k \in NatOf("DNAT") : NatHolds(k)
  /\ \A j \in NatOf("DNAT") : \A k \in NatOf("DNAT") : natRec[j].nh = natRec[k].nh => j = k
  /\ \A k \in NatOf("DNAT") \ natStuck : NatWritten(k)

(* What the invariant says of translation. *)
LEMMA NatGives == NatInv => NatExact
PROOF
<1> SUFFICES ASSUME NatInv PROVE NatExact
  OBVIOUS
<1>1. Cardinality(natSa) = Cardinality(NatOf("SNAT"))
  <2> DEFINE S == NatOf("SNAT")
             f == [k \in S |-> k[1]]
  <2>1. IsFiniteSet(S)
    BY FS_Subset DEF NatOf, NatInv, NatTyped
  <2>2. \A x \in S : \A y \in S : f[x] = f[y] => x = y
    BY DEF NatInv, NatSources
  <2>3. natSa = {f[x] : x \in S}
    BY DEF NatInv, NatSources
  <2> HIDE DEF S, f
  <2>4. Cardinality({f[x] : x \in S}) = Cardinality(S)
    BY <2>1, <2>2, SameSize
  <2> QED BY <2>3, <2>4 DEF S
<1>2. \A k \in NatOf("DNAT") \ natStuck :
        /\ natDa[k[2]] = natRec[k].nh /\ natRec[k].nh \in natUsed \ natLeft
        /\ natRec[k].nh \in DOMAIN natNh
        /\ natRec[k].nh \in natAged
             \/ natNh[natRec[k].nh] = IF natRec[k].reroute THEN 0 ELSE natNbr
  BY DEF NatInv, NatHolds, NatWritten
<1>3. \A j, k \in NatOf("DNAT") : j # k => natRec[j].nh # natRec[k].nh
  BY DEF NatInv
<1> QED BY <1>1, <1>2, <1>3 DEF NatExact, NatInv, NatSources, NatDestinations, NatTyped, NatCounts

(* It holds before the first call. *)
LEMMA NatInitially == NatInit => NatInv
PROOF
<1> SUFFICES ASSUME NatInit PROVE NatInv
  OBVIOUS
<1>1. \A t : NatOf(t) = {}
  BY DEF NatInit, NatOf
<1>2. NatTyped
  BY FS_EmptySet DEF NatInit, NatTyped
<1>3. NatCounts
  BY <1>1, FS_EmptySet DEF NatInit, NatCounts
<1> QED BY <1>1, <1>2, <1>3 DEF NatInit, NatInv, NatSources, NatDestinations

(* The entries of a type after one came or went, and the count of them. *)
LEMMA NatCame ==
  ASSUME NatInv, NEW k \in NatKeys, NEW r \in NatRecs, NEW bulk \in BOOLEAN,
         k \notin DOMAIN natRec, natRec' = NatPut(natRec, k, r), Counted(r.type, bulk, 1)
  PROVE  /\ DOMAIN natRec' = DOMAIN natRec \cup {k} /\ natRec'[k] = r
         /\ \A x \in DOMAIN natRec : natRec'[x] = natRec[x]
         /\ \A t : NatOf(t)' = IF t = r.type THEN NatOf(t) \cup {k} ELSE NatOf(t)
         /\ DOMAIN natRec' \subseteq NatKeys /\ IsFiniteSet(DOMAIN natRec')
         /\ \A x \in DOMAIN natRec' : natRec'[x] \in NatRecs
         /\ natCnt' \in [NatTypes -> Int] /\ natBulk' \in Nat /\ NatCounts'
PROOF
<1>1. /\ DOMAIN natRec' = DOMAIN natRec \cup {k} /\ natRec'[k] = r
      /\ \A x \in DOMAIN natRec : natRec'[x] = natRec[x]
  BY DEF NatPut
<1>2. \A t : NatOf(t)' = IF t = r.type THEN NatOf(t) \cup {k} ELSE NatOf(t)
  BY <1>1 DEF NatOf
<1>3. IsFiniteSet(DOMAIN natRec')
  BY <1>1, FS_AddElement DEF NatInv, NatTyped
<1>4. DOMAIN natRec' \subseteq NatKeys /\ \A x \in DOMAIN natRec' : natRec'[x] \in NatRecs
  BY <1>1 DEF NatInv, NatTyped
<1>5. r.type \in NatTypes /\ natCnt \in [NatTypes -> Int] /\ natBulk \in Nat
  BY DEF NatRecs, NatInv, NatTyped
<1>6. natCnt' \in [NatTypes -> Int] /\ natBulk' \in Nat
  BY <1>5 DEF Counted
<1>7. NatCounts'
  <2> SUFFICES ASSUME natBulk' = 0, NEW t \in NatTypes PROVE natCnt'[t] = Cardinality(NatOf(t)')
    BY DEF NatCounts
  <2>1. natBulk = 0 /\ natCnt' = [natCnt EXCEPT ![r.type] = natCnt[r.type] + 1]
    BY <1>5 DEF Counted
  <2>2. natCnt[t] = Cardinality(NatOf(t))
    BY <2>1 DEF NatInv, NatCounts
  <2>3. IsFiniteSet(NatOf(t)) /\ k \notin NatOf(t)
    BY FS_Subset DEF NatOf, NatInv, NatTyped
  <2>4. Cardinality(NatOf(t) \cup {k}) = Cardinality(NatOf(t)) + 1
    BY <2>3, FS_AddElement
  <2> QED BY <1>2, <1>5, <2>1, <2>2, <2>4
<1> QED BY <1>1, <1>2, <1>3, <1>4, <1>6, <1>7

(* ... and after one went. *)
LEMMA NatWent ==
  ASSUME NatInv, NEW k \in DOMAIN natRec, NEW bulk \in BOOLEAN,
         natRec' = NatDrop(natRec, k), Counted(natRec[k].type, bulk, -1)
  PROVE  /\ DOMAIN natRec' = DOMAIN natRec \ {k}
         /\ \A x \in DOMAIN natRec \ {k} : natRec'[x] = natRec[x]
         /\ \A t : NatOf(t)' = NatOf(t) \ {k}
         /\ DOMAIN natRec' \subseteq NatKeys /\ IsFiniteSet(DOMAIN natRec')
         /\ \A x \in DOMAIN natRec' : natRec'[x] \in NatRecs
         /\ natCnt' \in [NatTypes -> Int] /\ natBulk' \in Nat /\ NatCounts'
PROOF
<1>1. /\ DOMAIN natRec' = DOMAIN natRec \ {k}
      /\ \A x \in DOMAIN natRec \ {k} : natRec'[x] = natRec[x]
  BY DEF NatDrop
<1>2. \A t : NatOf(t)' = NatOf(t) \ {k}
  BY <1>1 DEF NatOf
<1>3. IsFiniteSet(DOMAIN natRec')
  BY <1>1, FS_RemoveElement DEF NatInv, NatTyped
<1>4. DOMAIN natRec' \subseteq NatKeys /\ \A x \in DOMAIN natRec' : natRec'[x] \in NatRecs
  BY <1>1 DEF NatInv, NatTyped
<1>5. natRec[k].type \in NatTypes /\ natCnt \in [NatTypes -> Int] /\ natBulk \in Nat
  BY DEF NatRecs, NatInv, NatTyped
<1>6. natCnt' \in [NatTypes -> Int] /\ natBulk' \in Nat
  BY <1>5 DEF Counted
<1>7. NatCounts'
  <2> SUFFICES ASSUME natBulk' = 0, NEW t \in NatTypes PROVE natCnt'[t] = Cardinality(NatOf(t)')
    BY DEF NatCounts
  <2>1. natBulk = 0 /\ natCnt' = [natCnt EXCEPT ![natRec[k].type] = natCnt[natRec[k].type] + (-1)]
    BY <1>5 DEF Counted
  <2>2. natCnt[t] = Cardinality(NatOf(t))
    BY <2>1 DEF NatInv, NatCounts
  <2>3. IsFiniteSet(NatOf(t)) /\ (k \in NatOf(t) <=> t = natRec[k].type)
    BY FS_Subset DEF NatOf, NatInv, NatTyped
  <2>4. Cardinality(NatOf(t) \ {k}) = IF k \in NatOf(t) THEN Cardinality(NatOf(t)) - 1 ELSE Cardinality(NatOf(t))
    BY <2>3, FS_RemoveElement
  <2>5. natCnt'[t] = IF t = natRec[k].type THEN natCnt[t] - 1 ELSE natCnt[t]
    BY <1>5, <2>1
  <2> QED BY <1>2, <2>2, <2>3, <2>4, <2>5
<1> QED BY <1>1, <1>2, <1>3, <1>4, <1>6, <1>7

(* A source translation that comes or goes. *)
LEMMA SnatKeeps ==
  ASSUME NatInv, NEW k \in NatKeys, NEW bulk \in BOOLEAN, CreateSnat(k, bulk) \/ RemoveSnat(k, bulk)
  PROVE  NatInv'
PROOF
<1> DEFINE r == [type |-> "SNAT", nh |-> 0, reroute |-> FALSE]
<1>1. UNCHANGED <<natDa, natNh, natUsed, natLeft, natNbr, natAged, natStuck>>
  BY DEF CreateSnat, RemoveSnat
<1>2. /\ \A x \in NatOf("DNAT") : x \in DOMAIN natRec' /\ natRec'[x] = natRec[x]
      /\ NatOf("DNAT")' = NatOf("DNAT")
      /\ NatTyped' /\ NatCounts' /\ NatSources'
  <2>1. CASE CreateSnat(k, bulk)
    <3>1. r \in NatRecs /\ r.type = "SNAT"
      BY DEF NatRecs, NatTypes
    <3>2. k \notin DOMAIN natRec /\ natRec' = NatPut(natRec, k, r) /\ Counted(r.type, bulk, 1)
          /\ k[1] \notin natSa /\ natSa' = natSa \cup {k[1]}
      BY <2>1 DEF CreateSnat
    <3> HIDE DEF r
    <3>3. /\ DOMAIN natRec' = DOMAIN natRec \cup {k} /\ natRec'[k] = r
          /\ \A x \in DOMAIN natRec : natRec'[x] = natRec[x]
          /\ \A t : NatOf(t)' = IF t = r.type THEN NatOf(t) \cup {k} ELSE NatOf(t)
          /\ DOMAIN natRec' \subseteq NatKeys /\ IsFiniteSet(DOMAIN natRec')
          /\ \A x \in DOMAIN natRec' : natRec'[x] \in NatRecs
          /\ natCnt' \in [NatTypes -> Int] /\ natBulk' \in Nat /\ NatCounts'
      BY <3>1, <3>2, NatCame
    <3>4. NatTyped'
      BY <1>1, <3>3 DEF NatInv, NatTyped
    <3>5. NatOf("SNAT")' = NatOf("SNAT") \cup {k} /\ NatOf("DNAT")' = NatOf("DNAT")
      BY <3>1, <3>3
    <3>6. NatSources'
      BY <3>2, <3>5 DEF NatInv, NatSources
    <3>7. \A x \in NatOf("DNAT") : x \in DOMAIN natRec
      BY DEF NatOf
    <3> QED BY <3>3, <3>4, <3>5, <3>6, <3>7
  <2>2. CASE RemoveSnat(k, bulk)
    <3>1. k \in NatOf("SNAT") /\ k \in DOMAIN natRec /\ natRec[k].type = "SNAT"
      BY <2>2 DEF RemoveSnat, NatOf
    <3>2. natRec' = NatDrop(natRec, k) /\ Counted(natRec[k].type, bulk, -1) /\ natSa' = natSa \ {k[1]}
      BY <2>2, <3>1 DEF RemoveSnat
    <3>3. /\ DOMAIN natRec' = DOMAIN natRec \ {k}
          /\ \A x \in DOMAIN natRec \ {k} : natRec'[x] = natRec[x]
          /\ \A t : NatOf(t)' = NatOf(t) \ {k}
          /\ DOMAIN natRec' \subseteq NatKeys /\ IsFiniteSet(DOMAIN natRec')
          /\ \A x \in DOMAIN natRec' : natRec'[x] \in NatRecs
          /\ natCnt' \in [NatTypes -> Int] /\ natBulk' \in Nat /\ NatCounts'
      BY <3>1, <3>2, NatWent
    <3>4. NatTyped'
      BY <1>1, <3>3 DEF NatInv, NatTyped
    <3>5. k \notin NatOf("DNAT")
      BY <3>1 DEF NatOf
    <3>6. \A j \in NatOf("SNAT") : \A i \in NatOf("SNAT") : j[1] = i[1] => j = i
      BY DEF NatInv, NatSources
    <3>7. natSa' = {j[1] : j \in NatOf("SNAT") \ {k}}
      BY <3>1, <3>2, <3>6 DEF NatInv, NatSources
    <3>8. NatSources'
      BY <3>3, <3>6, <3>7 DEF NatSources
    <3>9. \A x \in NatOf("DNAT") : x \in DOMAIN natRec
      BY DEF NatOf
    <3> QED BY <3>3, <3>4, <3>5, <3>8, <3>9
  <2> QED BY <2>1, <2>2
<1>3. NatDestinations'
  BY <1>1, <1>2 DEF NatInv, NatDestinations
<1>4. \A x \in NatOf("DNAT") : NatHolds(x)'
  BY <1>1, <1>2 DEF NatInv, NatHolds
<1>5. \A x \in NatOf("DNAT") \ natStuck : NatWritten(x)'
  BY <1>1, <1>2 DEF NatInv, NatWritten
<1>6. \A i \in NatOf("DNAT")' : \A j \in NatOf("DNAT")' : natRec'[i].nh = natRec'[j].nh => i = j
  BY <1>2 DEF NatInv
<1>7. \A x \in NatOf("DNAT")' : NatHolds(x)'
  BY <1>2, <1>4
<1>8. \A x \in NatOf("DNAT")' \ natStuck' : NatWritten(x)'
  BY <1>1, <1>2, <1>5
<1> QED BY <1>2, <1>3, <1>6, <1>7, <1>8 DEF NatInv

(* A destination translation that comes. *)
LEMMA CreateDnatKeeps ==
  ASSUME NatInv, NEW k \in NatKeys, NEW reroute \in BOOLEAN, NEW bulk \in BOOLEAN,
         CreateDnat(k, reroute, bulk)
  PROVE  NatInv'
PROOF
<1> DEFINE free == NatNhs \ natUsed
           nh == Min(free)
           mac == IF reroute THEN 0 ELSE natNbr
           r == [type |-> "DNAT", nh |-> nh, reroute |-> reroute]
<1>1. nh \in NatNhs /\ nh \notin natUsed
  <2>1. free \in SUBSET Nat /\ free # {}
    BY NatAssumption DEF CreateDnat, NatInv, NatTyped
  <2>2. Min(free) \in free
    BY <2>1, MinFact
  <2> QED BY <2>2
<1>2. /\ k \notin DOMAIN natRec /\ k[2] \notin DOMAIN natDa /\ Resolved(reroute)
      /\ natUsed' = natUsed \cup {nh} /\ natNh' = NatPut(natNh, nh, mac) /\ natDa' = NatPut(natDa, k[2], nh)
      /\ natRec' = NatPut(natRec, k, r) /\ Counted("DNAT", bulk, 1)
      /\ UNCHANGED <<natSa, natLeft, natNbr, natAged, natStuck>>
  BY DEF CreateDnat
<1>3. r \in NatRecs /\ r.type = "DNAT" /\ r.nh = nh /\ r.reroute = reroute
  BY <1>1 DEF NatRecs, NatTypes
<1>4. (reroute => mac = 0) /\ (~reroute => mac # 0 /\ mac = natNbr)
  BY <1>2 DEF Resolved
<1> HIDE DEF r, nh, mac, free
<1>5. /\ DOMAIN natNh' = DOMAIN natNh \cup {nh} /\ natNh'[nh] = mac
      /\ \A x \in DOMAIN natNh : x # nh => natNh'[x] = natNh[x]
      /\ DOMAIN natDa' = DOMAIN natDa \cup {k[2]} /\ natDa'[k[2]] = nh
      /\ \A x \in DOMAIN natDa : x # k[2] => natDa'[x] = natDa[x]
  BY <1>2 DEF NatPut
<1>6. /\ DOMAIN natRec' = DOMAIN natRec \cup {k} /\ natRec'[k] = r
      /\ \A x \in DOMAIN natRec : natRec'[x] = natRec[x]
      /\ \A t : NatOf(t)' = IF t = r.type THEN NatOf(t) \cup {k} ELSE NatOf(t)
      /\ DOMAIN natRec' \subseteq NatKeys /\ IsFiniteSet(DOMAIN natRec')
      /\ \A x \in DOMAIN natRec' : natRec'[x] \in NatRecs
      /\ natCnt' \in [NatTypes -> Int] /\ natBulk' \in Nat /\ NatCounts'
  BY <1>2, <1>3, NatCame
<1>7. NatTyped'
  BY <1>1, <1>2, <1>5, <1>6 DEF NatInv, NatTyped
<1>8. NatOf("SNAT")' = NatOf("SNAT") /\ NatOf("DNAT")' = NatOf("DNAT") \cup {k}
  BY <1>3, <1>6
<1>9. \A x \in NatOf("DNAT") : /\ x \in DOMAIN natRec /\ natRec'[x] = natRec[x] /\ NatHolds(x)
                               /\ x[2] \in DOMAIN natDa /\ x[2] # k[2] /\ natRec[x].nh # nh
  <2>1. \A x \in NatOf("DNAT") : x \in DOMAIN natRec /\ NatHolds(x) /\ x[2] \in DOMAIN natDa
    BY DEF NatOf, NatInv, NatDestinations
  <2> QED BY <1>1, <1>2, <1>6, <2>1 DEF NatHolds
<1>10. NatSources'
  BY <1>2, <1>8 DEF NatInv, NatSources
<1>11. NatDestinations'
  BY <1>5, <1>8, <1>9 DEF NatInv, NatDestinations
<1>12. \A x \in NatOf("DNAT")' : NatHolds(x)'
  <2>1. \A x \in NatOf("DNAT") : NatHolds(x)'
    BY <1>2, <1>5, <1>9 DEF NatHolds
  <2>2. NatHolds(k)'
    BY <1>1, <1>2, <1>3, <1>5, <1>6 DEF NatHolds, NatInv, NatTyped
  <2> QED BY <1>8, <2>1, <2>2
<1>13. \A x \in NatOf("DNAT")' \ natStuck' : NatWritten(x)'
  <2>1. \A x \in NatOf("DNAT") \ natStuck : NatWritten(x)'
    <3> SUFFICES ASSUME NEW x \in NatOf("DNAT") \ natStuck PROVE NatWritten(x)'
      OBVIOUS
    <3>1. NatWritten(x) /\ natRec'[x] = natRec[x] /\ natRec[x].nh # nh
      BY <1>9 DEF NatInv
    <3> QED BY <1>2, <1>5, <3>1 DEF NatWritten
  <2>2. NatWritten(k)'
    BY <1>2, <1>3, <1>4, <1>5, <1>6 DEF NatWritten
  <2> QED BY <1>2, <1>8, <2>1, <2>2
<1>14. \A i \in NatOf("DNAT")' : \A j \in NatOf("DNAT")' : natRec'[i].nh = natRec'[j].nh => i = j
  BY <1>3, <1>6, <1>8, <1>9 DEF NatInv
<1> QED BY <1>6, <1>7, <1>10, <1>11, <1>12, <1>13, <1>14 DEF NatInv

(* One that fails, and a neighbour that changes, leave the entries alone. *)
LEMMA FailDnatKeeps ==
  ASSUME NatInv, NEW k \in NatKeys, NEW reroute \in BOOLEAN, NEW given \in BOOLEAN,
         FailDnat(k, reroute, given)
  PROVE  NatInv'
PROOF
<1> DEFINE free == NatNhs \ natUsed
           nh == Min(free)
<1>1. nh \in NatNhs /\ nh \notin natUsed
  <2>1. free \in SUBSET Nat /\ free # {}
    BY NatAssumption DEF FailDnat, NatInv, NatTyped
  <2>2. Min(free) \in free
    BY <2>1, MinFact
  <2> QED BY <2>2
<1>2. /\ natUsed' = natUsed \cup {nh} /\ natLeft' = natLeft \cup {nh}
      /\ UNCHANGED <<natRec, natSa, natDa, natCnt, natBulk, natNbr, natAged, natStuck>>
  BY DEF FailDnat
<1>3. /\ DOMAIN natNh \subseteq DOMAIN natNh' /\ DOMAIN natNh' \subseteq DOMAIN natNh \cup {nh}
      /\ \A x \in DOMAIN natNh : x # nh => natNh'[x] = natNh[x]
  BY DEF FailDnat, NatPut
<1> HIDE DEF nh, free
<1>4. \A t : NatOf(t)' = NatOf(t)
  BY <1>2 DEF NatOf
<1>5. NatTyped'
  BY <1>1, <1>2, <1>3 DEF NatInv, NatTyped
<1>6. NatSources' /\ NatDestinations' /\ NatCounts'
  BY <1>2, <1>4 DEF NatInv, NatSources, NatDestinations, NatCounts
<1>7. \A x \in NatOf("DNAT") : NatHolds(x) /\ natRec[x].nh # nh
  BY <1>1 DEF NatInv, NatHolds
<1>8. \A x \in NatOf("DNAT")' : NatHolds(x)'
  BY <1>2, <1>4, <1>7 DEF NatHolds
<1>9. \A x \in NatOf("DNAT")' \ natStuck' : NatWritten(x)'
  BY <1>2, <1>3, <1>4, <1>7 DEF NatWritten, NatInv
<1> QED BY <1>2, <1>4, <1>5, <1>6, <1>8, <1>9 DEF NatInv

(* ... the neighbour's. *)
LEMMA NatNeighbourKeeps ==
  ASSUME NatInv, NEW mac, NatNeighbour(mac)
  PROVE  NatInv'
PROOF
<1>1. /\ mac # natNbr /\ natNbr' = mac
      /\ natAged' = natAged \cup {n \in DOMAIN natNh : natNh[n] \notin {0, mac}}
      /\ UNCHANGED <<natRec, natSa, natDa, natNh, natUsed, natLeft, natCnt, natBulk, natStuck>>
  BY DEF NatNeighbour
<1>2. \A t : NatOf(t)' = NatOf(t)
  BY <1>1 DEF NatOf
<1>3. NatTyped'
  BY <1>1 DEF NatInv, NatTyped
<1>4. NatSources' /\ NatDestinations' /\ NatCounts'
  BY <1>1, <1>2 DEF NatInv, NatSources, NatDestinations, NatCounts
<1>5. \A x \in NatOf("DNAT")' : NatHolds(x)'
  BY <1>1, <1>2 DEF NatHolds, NatInv
<1>6. \A x \in NatOf("DNAT")' \ natStuck' : NatWritten(x)'
  BY <1>1, <1>2 DEF NatWritten, NatInv
<1> QED BY <1>1, <1>2, <1>3, <1>4, <1>5, <1>6 DEF NatInv

(* A destination translation that goes, or is stuck half way. *)
LEMMA RemoveDnatKeeps ==
  ASSUME NatInv, NEW k \in NatKeys, NEW bulk \in BOOLEAN, NEW fails \in BOOLEAN,
         RemoveDnat(k, bulk, fails)
  PROVE  NatInv'
PROOF
<1> DEFINE nh == natRec[k].nh
<1>1. /\ k \in NatOf("DNAT") /\ natNh' = NatDrop(natNh, nh)
      /\ UNCHANGED <<natSa, natUsed, natNbr, natAged>>
  BY DEF RemoveDnat
<1>2. k \in DOMAIN natRec /\ natRec[k].type = "DNAT" /\ k \notin NatOf("SNAT")
  BY <1>1 DEF NatOf
<1>3. /\ \A x \in NatOf("DNAT") \ {k} : natRec[x].nh # nh /\ x[2] # k[2] /\ x \in DOMAIN natRec
                                        /\ x[2] \in DOMAIN natDa
      /\ nh \in natUsed
  BY <1>1 DEF NatInv, NatDestinations, NatOf, NatHolds
<1> HIDE DEF nh
<1>4. DOMAIN natNh' = DOMAIN natNh \ {nh} /\ \A x \in DOMAIN natNh \ {nh} : natNh'[x] = natNh[x]
  BY <1>1 DEF NatDrop
<1>5. CASE fails
  <2>1. natStuck' = natStuck \cup {k} /\ UNCHANGED <<natDa, natRec, natLeft, natCnt, natBulk>>
    BY <1>5 DEF RemoveDnat
  <2>2. \A t : NatOf(t)' = NatOf(t)
    BY <2>1 DEF NatOf
  <2>3. NatTyped'
    BY <1>1, <1>4, <2>1 DEF NatInv, NatTyped
  <2>4. NatSources' /\ NatDestinations' /\ NatCounts'
    BY <1>1, <2>1, <2>2 DEF NatInv, NatSources, NatDestinations, NatCounts
  <2>5. \A x \in NatOf("DNAT")' : NatHolds(x)'
    BY <1>1, <2>1, <2>2 DEF NatHolds, NatInv
  <2>6. \A x \in NatOf("DNAT")' \ natStuck' : NatWritten(x)'
    BY <1>1, <1>3, <1>4, <2>1, <2>2 DEF NatWritten, NatInv
  <2> QED BY <2>1, <2>2, <2>3, <2>4, <2>5, <2>6 DEF NatInv
<1>6. CASE ~fails
  <2>1. /\ natDa' = NatDrop(natDa, k[2]) /\ natRec' = NatDrop(natRec, k) /\ natLeft' = natLeft \cup {nh}
        /\ Counted(natRec[k].type, bulk, -1) /\ natStuck' = natStuck
    BY <1>2, <1>6 DEF RemoveDnat, nh
  <2>2. DOMAIN natDa' = DOMAIN natDa \ {k[2]} /\ \A x \in DOMAIN natDa \ {k[2]} : natDa'[x] = natDa[x]
    BY <2>1 DEF NatDrop
  <2>3. /\ DOMAIN natRec' = DOMAIN natRec \ {k}
        /\ \A x \in DOMAIN natRec \ {k} : natRec'[x] = natRec[x]
        /\ \A t : NatOf(t)' = NatOf(t) \ {k}
        /\ DOMAIN natRec' \subseteq NatKeys /\ IsFiniteSet(DOMAIN natRec')
        /\ \A x \in DOMAIN natRec' : natRec'[x] \in NatRecs
        /\ natCnt' \in [NatTypes -> Int] /\ natBulk' \in Nat /\ NatCounts'
    BY <1>2, <2>1, NatWent
  <2>4. NatTyped'
    BY <1>1, <1>3, <1>4, <2>1, <2>3 DEF NatInv, NatTyped
  <2>5. NatSources'
    BY <1>1, <1>2, <2>3 DEF NatInv, NatSources
  <2>6. NatDestinations'
    BY <1>1, <1>3, <2>2, <2>3 DEF NatInv, NatDestinations
  <2>7. \A x \in NatOf("DNAT")' : NatHolds(x)'
    BY <1>1, <1>3, <2>1, <2>2, <2>3 DEF NatHolds, NatInv
  <2>8. \A x \in NatOf("DNAT")' \ natStuck' : NatWritten(x)'
    BY <1>1, <1>3, <1>4, <2>1, <2>3 DEF NatWritten, NatInv
  <2>9. \A i \in NatOf("DNAT")' : \A j \in NatOf("DNAT")' : natRec'[i].nh = natRec'[j].nh => i = j
    BY <1>3, <2>3 DEF NatInv
  <2> QED BY <2>3, <2>4, <2>5, <2>6, <2>7, <2>8, <2>9 DEF NatInv
<1> QED BY <1>5, <1>6

(* Every call keeps it. *)
LEMMA NatCallsKeep == NatInv /\ [NatNext]_natVars => NatInv'
PROOF
<1> SUFFICES ASSUME NatInv, [NatNext]_natVars PROVE NatInv'
  OBVIOUS
<1>1. CASE UNCHANGED natVars
  BY <1>1 DEF natVars, NatInv, NatTyped, NatSources, NatDestinations, NatHolds, NatWritten, NatCounts, NatOf
<1>2. CASE NatNext
  BY <1>2, SnatKeeps, CreateDnatKeeps, FailDnatKeeps, RemoveDnatKeeps, NatNeighbourKeeps DEF NatNext
<1> QED BY <1>1, <1>2

-----------------------------------------------------------------------------
(* Isolation groups *)
IsoGroupRecs == [type : IsoKinds, list : SUBSET IsoPorts]
IsoTyped ==
  /\ DOMAIN isoGroup \subseteq IsoIds /\ \A g \in DOMAIN isoGroup : isoGroup[g] \in IsoGroupRecs
  /\ DOMAIN isoGoing \subseteq IsoIds /\ \A g \in DOMAIN isoGoing : isoGoing[g] \subseteq IsoPorts
  /\ DOMAIN isoMember \subseteq IsoPorts /\ \A p \in DOMAIN isoMember : isoMember[p] \in IsoIds
  /\ isoRestrict \in [IsoPorts -> IsoIds \cup {0}] /\ isoOrphans \subseteq DOMAIN isoMember
(* A group that is there, or going, lists the members that name it and were *)
(* not freed with an earlier group; each of them names such a group. *)
IsoListed(g) == {p \in DOMAIN isoMember \ isoOrphans : isoMember[p] = g}
IsoInv ==
  /\ IsoTyped
  /\ isoHw = isoUsed /\ isoUsed = DOMAIN isoGroup \cup DOMAIN isoGoing
  /\ DOMAIN isoGroup \cap DOMAIN isoGoing = {}
  /\ \A g \in DOMAIN isoGroup : isoGroup[g].list = IsoListed(g)
  /\ \A g \in DOMAIN isoGoing : isoGoing[g] = IsoListed(g)
  /\ \A p \in DOMAIN isoMember \ isoOrphans : isoMember[p] \in DOMAIN isoGroup \cup DOMAIN isoGoing
  /\ \A p \in IsoPorts : isoRestrict[p] = IF p \in DOMAIN isoMember THEN isoMember[p] ELSE 0


(* What the invariant says of isolation. *)
LEMMA IsoGives == IsoInv => IsolationExact
PROOF
<1> SUFFICES ASSUME IsoInv PROVE IsolationExact
  OBVIOUS
<1>1. 0 \notin IsoIds
  BY IsoAssumption
<1>2. \A p \in IsoPorts : isoRestrict[p] # 0 <=> p \in DOMAIN isoMember
  BY <1>1 DEF IsoInv, IsoTyped
<1>3. \A g \in DOMAIN isoGroup : IsoMembers(g) = {p \in IsoPorts \ isoOrphans : isoRestrict[p] = g}
  <2> SUFFICES ASSUME NEW g \in DOMAIN isoGroup
               PROVE  IsoMembers(g) = {p \in IsoPorts \ isoOrphans : isoRestrict[p] = g}
    OBVIOUS
  <2>1. g # 0 /\ isoGroup[g].list = IsoListed(g)
    BY <1>1 DEF IsoInv, IsoTyped
  <2>2. \A p \in IsoPorts : isoRestrict[p] = g <=> p \in DOMAIN isoMember /\ isoMember[p] = g
    BY <2>1 DEF IsoInv
  <2>3. DOMAIN isoMember \subseteq IsoPorts
    BY DEF IsoInv, IsoTyped
  <2> QED BY <2>1, <2>2, <2>3 DEF IsoMembers, IsoListed
<1> QED BY <1>2, <1>3 DEF IsolationExact, IsoInv

(* It holds before the first call. *)
LEMMA IsoInitially == IsoInit => IsoInv
BY DEF IsoInit, IsoInv, IsoTyped, IsoListed

(* create_group. *)
LEMMA CreateIsoGroupKeeps ==
  ASSUME IsoInv, NEW type \in IsoKinds, CreateIsoGroup(type)
  PROVE  IsoInv'
PROOF
<1> DEFINE free == IsoIds \ isoUsed
           i == Min(free)
           r == [type |-> type, list |-> {}]
<1>1. i \in IsoIds /\ i \notin isoUsed
  <2>1. free \in SUBSET Nat /\ free # {}
    BY IsoAssumption DEF CreateIsoGroup
  <2>2. Min(free) \in free
    BY <2>1, MinFact
  <2> QED BY <2>2
<1>2. /\ isoUsed' = isoUsed \cup {i} /\ isoHw' = isoHw \cup {i} /\ isoGroup' = IsoPut(isoGroup, i, r)
      /\ UNCHANGED <<isoMember, isoRestrict, isoGoing, isoOrphans>>
  BY DEF CreateIsoGroup
<1>3. r \in IsoGroupRecs
  BY DEF IsoGroupRecs
<1> HIDE DEF i, r
<1>4. /\ DOMAIN isoGroup' = DOMAIN isoGroup \cup {i} /\ isoGroup'[i] = r
      /\ \A x \in DOMAIN isoGroup : x # i => isoGroup'[x] = isoGroup[x]
  BY <1>2 DEF IsoPut
<1>5. i \notin DOMAIN isoGroup /\ i \notin DOMAIN isoGoing
  BY <1>1 DEF IsoInv
<1>6. IsoListed(i) = {}
  BY <1>5 DEF IsoListed, IsoInv
<1>7. \A g : IsoListed(g)' = IsoListed(g)
  BY <1>2 DEF IsoListed
<1>8. r.list = {}
  BY DEF r
<1>9. IsoTyped'
  BY <1>1, <1>2, <1>3, <1>4 DEF IsoInv, IsoTyped
<1> QED BY <1>2, <1>4, <1>5, <1>6, <1>7, <1>8, <1>9 DEF IsoInv

(* remove_group, in its two steps. *)
LEMMA RemoveIsoGroupKeeps ==
  ASSUME IsoInv, NEW g \in IsoIds, RemoveIsoGroup(g) \/ FinishIsoRemove(g)
  PROVE  IsoInv'
PROOF
<1>1. CASE RemoveIsoGroup(g)
  <2>1. /\ g \in DOMAIN isoGroup
        /\ DOMAIN isoGroup' = DOMAIN isoGroup \ {g}
        /\ \A x \in DOMAIN isoGroup \ {g} : isoGroup'[x] = isoGroup[x]
        /\ DOMAIN isoGoing' = DOMAIN isoGoing \cup {g} /\ isoGoing'[g] = isoGroup[g].list
        /\ \A x \in DOMAIN isoGoing : x # g => isoGoing'[x] = isoGoing[x]
        /\ UNCHANGED <<isoUsed, isoHw, isoMember, isoRestrict, isoOrphans>>
    BY <1>1 DEF RemoveIsoGroup, IsoPut, IsoDrop
  <2>2. \A x : IsoListed(x)' = IsoListed(x)
    BY <2>1 DEF IsoListed
  <2>3. isoGroup[g].list = IsoListed(g) /\ isoGroup[g].list \subseteq IsoPorts
    BY <2>1 DEF IsoInv, IsoTyped, IsoGroupRecs
  <2>4. IsoTyped'
    BY <2>1, <2>3 DEF IsoInv, IsoTyped
  <2> QED BY <2>1, <2>2, <2>3, <2>4 DEF IsoInv
<1>2. CASE FinishIsoRemove(g)
  <2>1. /\ g \in DOMAIN isoGoing
        /\ DOMAIN isoGoing' = DOMAIN isoGoing \ {g}
        /\ \A x \in DOMAIN isoGoing \ {g} : isoGoing'[x] = isoGoing[x]
        /\ isoHw' = isoHw \ {g} /\ isoUsed' = isoUsed \ {g} /\ isoOrphans' = isoOrphans \cup isoGoing[g]
        /\ UNCHANGED <<isoGroup, isoMember, isoRestrict>>
    BY <1>2 DEF FinishIsoRemove, IsoDrop
  <2>2. isoGoing[g] = IsoListed(g) /\ g \notin DOMAIN isoGroup
    BY <2>1 DEF IsoInv
  <2>3. \A x : x # g => IsoListed(x)' = IsoListed(x)
    BY <2>1, <2>2 DEF IsoListed
  <2>4. \A p \in DOMAIN isoMember \ isoOrphans' : p \notin isoOrphans /\ isoMember[p] # g
    BY <2>1, <2>2 DEF IsoListed
  <2>5. IsoTyped'
    BY <2>1, <2>2 DEF IsoInv, IsoTyped, IsoListed
  <2> QED BY <2>1, <2>2, <2>3, <2>4, <2>5 DEF IsoInv
<1> QED BY <1>1, <1>2

(* create_member. *)
LEMMA CreateIsoMemberKeeps ==
  ASSUME IsoInv, NEW g \in IsoIds, NEW p \in IsoPorts, NEW kind \in IsoKinds, CreateIsoMember(g, p, kind)
  PROVE  IsoInv'
PROOF
<1>1. /\ p \notin DOMAIN isoMember /\ g \in DOMAIN isoGroup
      /\ DOMAIN isoMember' = DOMAIN isoMember \cup {p} /\ isoMember'[p] = g
      /\ \A x \in DOMAIN isoMember : isoMember'[x] = isoMember[x]
      /\ isoGroup' = [isoGroup EXCEPT ![g].list = isoGroup[g].list \cup {p}]
      /\ isoRestrict' = [isoRestrict EXCEPT ![p] = g]
  BY DEF CreateIsoMember, IsoPut
<1>2. UNCHANGED <<isoUsed, isoHw, isoGoing, isoOrphans>>
  BY DEF CreateIsoMember
<1>3. /\ DOMAIN isoGroup' = DOMAIN isoGroup /\ isoGroup'[g] \in IsoGroupRecs
      /\ isoGroup'[g].list = isoGroup[g].list \cup {p}
      /\ \A x \in DOMAIN isoGroup : x # g => isoGroup'[x] = isoGroup[x]
  <2>1. isoGroup[g] \in IsoGroupRecs
    BY <1>1 DEF IsoInv, IsoTyped
  <2> QED BY <1>1, <2>1 DEF IsoGroupRecs
<1>4. isoOrphans \subseteq DOMAIN isoMember
  BY DEF IsoInv, IsoTyped
<1>5. \A x : IsoListed(x)' = IF x = g THEN IsoListed(x) \cup {p} ELSE IsoListed(x)
  BY <1>1, <1>2, <1>4 DEF IsoListed
<1>6. IsoTyped'
  BY <1>1, <1>2, <1>3 DEF IsoInv, IsoTyped
<1>7. \A q \in IsoPorts : isoRestrict'[q] = IF q \in DOMAIN isoMember' THEN isoMember'[q] ELSE 0
  BY <1>1 DEF IsoInv, IsoTyped
<1>8. g \notin DOMAIN isoGoing
  BY <1>1 DEF IsoInv
<1>9. \A x \in DOMAIN isoGroup' : isoGroup'[x].list = IsoListed(x)'
  BY <1>3, <1>5 DEF IsoInv
<1>10. \A x \in DOMAIN isoGoing' : isoGoing'[x] = IsoListed(x)'
  BY <1>2, <1>5, <1>8 DEF IsoInv
<1>11. \A q \in DOMAIN isoMember' \ isoOrphans' : isoMember'[q] \in DOMAIN isoGroup' \cup DOMAIN isoGoing'
  BY <1>1, <1>2, <1>3 DEF IsoInv
<1> QED BY <1>2, <1>3, <1>6, <1>7, <1>9, <1>10, <1>11 DEF IsoInv

(* remove_member. *)
LEMMA RemoveIsoMemberKeeps2 ==
  ASSUME IsoInv, NEW p \in IsoPorts, RemoveIsoMember(p)
  PROVE  IsoInv'
PROOF
<1> DEFINE g == isoMember[p]
<1>1. /\ p \in DOMAIN isoMember \ isoOrphans /\ g \in DOMAIN isoGroup
      /\ DOMAIN isoMember' = DOMAIN isoMember \ {p}
      /\ \A x \in DOMAIN isoMember \ {p} : isoMember'[x] = isoMember[x]
      /\ isoGroup' = [isoGroup EXCEPT ![g].list = isoGroup[g].list \ {p}]
      /\ isoRestrict' = [isoRestrict EXCEPT ![p] = 0]
  BY DEF RemoveIsoMember, IsoDrop
<1>2. UNCHANGED <<isoUsed, isoHw, isoGoing, isoOrphans>>
  BY DEF RemoveIsoMember
<1>3. /\ DOMAIN isoGroup' = DOMAIN isoGroup /\ isoGroup'[g] \in IsoGroupRecs
      /\ isoGroup'[g].list = isoGroup[g].list \ {p}
      /\ \A x \in DOMAIN isoGroup : x # g => isoGroup'[x] = isoGroup[x]
  <2>1. isoGroup[g] \in IsoGroupRecs
    BY <1>1 DEF IsoInv, IsoTyped
  <2> QED BY <1>1, <2>1 DEF IsoGroupRecs
<1>5. \A x : IsoListed(x)' = IF x = g THEN IsoListed(x) \ {p} ELSE IsoListed(x)
  BY <1>1, <1>2 DEF IsoListed
<1>6. IsoTyped'
  BY <1>1, <1>2, <1>3 DEF IsoInv, IsoTyped
<1>7. \A q \in IsoPorts : isoRestrict'[q] = IF q \in DOMAIN isoMember' THEN isoMember'[q] ELSE 0
  BY <1>1 DEF IsoInv, IsoTyped
<1>8. g \notin DOMAIN isoGoing
  BY <1>1 DEF IsoInv
<1> HIDE DEF g
<1>9. \A x \in DOMAIN isoGroup' : isoGroup'[x].list = IsoListed(x)'
  BY <1>3, <1>5 DEF IsoInv
<1>10. \A x \in DOMAIN isoGoing' : isoGoing'[x] = IsoListed(x)'
  BY <1>2, <1>5, <1>8 DEF IsoInv
<1>11. \A q \in DOMAIN isoMember' \ isoOrphans' : isoMember'[q] \in DOMAIN isoGroup' \cup DOMAIN isoGoing'
  BY <1>1, <1>2, <1>3 DEF IsoInv
<1> QED BY <1>2, <1>3, <1>6, <1>7, <1>9, <1>10, <1>11 DEF IsoInv

(* Every call keeps the invariant. *)
LEMMA IsoCallsKeep == IsoInv /\ [IsoNext]_isoVars => IsoInv'
PROOF
<1>1. ASSUME IsoInv, UNCHANGED isoVars PROVE IsoInv'
  BY <1>1 DEF isoVars, IsoInv, IsoTyped, IsoListed
<1>2. ASSUME IsoInv, IsoNext PROVE IsoInv'
  BY <1>2, CreateIsoGroupKeeps, RemoveIsoGroupKeeps, CreateIsoMemberKeeps, RemoveIsoMemberKeeps2 DEF IsoNext
<1> QED BY <1>1, <1>2

-----------------------------------------------------------------------------
(* Multicast: the list of bindings *)
(* A sequence that has every binding of a set, one per VLAN. *)
BindsAre(binds, T) ==
  /\ binds \in Seq(T) /\ T = {binds[n] : n \in DOMAIN binds}
  /\ \A n \in DOMAIN binds : \A m \in DOMAIN binds : binds[n].v = binds[m].v => n = m

(* Unbind leaves the bindings of the other VLANs. *)
LEMMA UnbindLists ==
  ASSUME NEW binds, NEW T, BindsAre(binds, T), NEW vs
  PROVE  BindsAre(Unbind(binds, vs), {b \in T : b.v \notin vs})
PROOF
<1> DEFINE kept == {n \in DOMAIN binds : binds[n].v \notin vs}
           upto(n) == {m \in kept : m <= n}
           c == Cardinality(kept)
           R == [n \in kept |-> Cardinality(upto(n))]
           nth(i) == CHOOSE n \in kept : Cardinality(upto(n)) = i
           f == [i \in 1..c |-> binds[nth(i)]]
           T2 == {b \in T : b.v \notin vs}
<1>1. DOMAIN binds = 1..Len(binds) /\ Len(binds) \in Nat
  BY DEF BindsAre
<1>2. kept \subseteq Nat /\ IsFiniteSet(kept) /\ c \in Nat
  <2>1. IsFiniteSet(1..Len(binds))
    BY <1>1, FS_Interval
  <2>2. kept \in SUBSET (1..Len(binds))
    BY <1>1
  <2>3. IsFiniteSet(kept)
    BY <2>1, <2>2, FS_Subset
  <2> QED BY <1>1, <2>2, <2>3, FS_CardinalityType
<1> HIDE DEF kept
<1>3. ASSUME NEW n \in kept
      PROVE  IsFiniteSet(upto(n)) /\ Cardinality(upto(n)) \in 1..c
  <2>1. upto(n) \in SUBSET kept /\ n \in upto(n)
    BY <1>2
  <2>2. IsFiniteSet(upto(n)) /\ Cardinality(upto(n)) <= c
    BY <2>1, <1>2, FS_Subset
  <2>3. Cardinality(upto(n)) \in Nat
    BY <2>2, FS_CardinalityType
  <2>4. Cardinality(upto(n)) # 0
    BY <2>1, <2>2, FS_EmptySet
  <2> QED BY <1>2, <2>2, <2>3, <2>4
<1>4. ASSUME NEW n \in kept, NEW m \in kept, n < m
      PROVE  Cardinality(upto(n)) < Cardinality(upto(m))
  <2>0. n \in Nat /\ m \in Nat
    BY <1>2
  <2>a. \A x \in upto(n) : x \in kept /\ x \in Nat /\ x <= n
    BY <1>2
  <2>b. \A x \in upto(n) : x \in upto(m) \ {m}
    BY <1>4, <2>0, <2>a
  <2>d. m \in upto(m)
    BY <2>0
  <2>c. Cardinality(upto(n)) \in Nat /\ Cardinality(upto(m)) \in Nat
    BY <1>3
  <2> HIDE DEF upto
  <2>1. upto(n) \in SUBSET (upto(m) \ {m}) /\ m \in upto(m)
    BY <2>b, <2>d
  <2>2. IsFiniteSet(upto(m) \ {m}) /\ Cardinality(upto(m) \ {m}) = Cardinality(upto(m)) - 1
    BY <1>3, <2>1, FS_RemoveElement
  <2>3. Cardinality(upto(n)) <= Cardinality(upto(m) \ {m})
    BY <2>1, <2>2, FS_Subset
  <2> QED BY <2>c, <2>2, <2>3
<1>5. \A n \in kept : \A m \in kept : Cardinality(upto(n)) = Cardinality(upto(m)) => n = m
  <2> SUFFICES ASSUME NEW n \in kept, NEW m \in kept, Cardinality(upto(n)) = Cardinality(upto(m)), n # m
               PROVE  FALSE
    OBVIOUS
  <2>1. n < m \/ m < n
    BY <1>2
  <2>2. Cardinality(upto(n)) \in Nat /\ Cardinality(upto(m)) \in Nat
    BY <1>3
  <2> QED BY <1>4, <2>1, <2>2
<1>6. \A i \in 1..c : \E n \in kept : Cardinality(upto(n)) = i
  <2>1. R \in Injection(kept, 1..c)
    BY <1>3, <1>5 DEF Injection, IsInjective
  <2>2. IsFiniteSet(1..c) /\ Cardinality(1..c) = c
    <3>1. IsFiniteSet(1..c) /\ Cardinality(1..c) = IF 1 > c THEN 0 ELSE c - 1 + 1
      BY <1>2, FS_Interval
    <3> QED BY <1>2, <3>1
  <2> HIDE DEF R
  <2>3. R \in Surjection(kept, 1..c)
    BY <2>1, <2>2, FS_Injection
  <2>4. \A i \in 1..c : \E n \in kept : R[n] = i
    BY <2>3 DEF Surjection
  <2> QED BY <2>4 DEF R
<1>7. \A i \in 1..c : nth(i) \in kept /\ Cardinality(upto(nth(i))) = i
  BY <1>6
<1> HIDE DEF nth, upto
<1>8. \A n \in kept : n \in DOMAIN binds /\ binds[n] \in T /\ binds[n].v \notin vs
  BY DEF kept, BindsAre
<1>9. f \in Seq(T2) /\ DOMAIN f = 1..c
  <2>1. f \in [1..c -> T2]
    BY <1>7, <1>8
  <2> QED BY <1>2, <2>1, SeqDef
<1>10. \A i \in 1..c : f[i] = binds[nth(i)]
  OBVIOUS
<1> HIDE DEF f
<1>11. \A i \in 1..c : \A j \in 1..c : f[i].v = f[j].v => i = j
  <2> SUFFICES ASSUME NEW i \in 1..c, NEW j \in 1..c, f[i].v = f[j].v PROVE i = j
    OBVIOUS
  <2>1. nth(i) = nth(j)
    BY <1>7, <1>8, <1>10 DEF BindsAre
  <2> QED BY <1>7, <2>1
<1>12. \A b \in T2 : \E i \in 1..c : f[i] = b
  <2> SUFFICES ASSUME NEW b \in T2 PROVE \E i \in 1..c : f[i] = b
    OBVIOUS
  <2>1. PICK n \in DOMAIN binds : b = binds[n]
    BY DEF BindsAre
  <2>2. n \in kept
    BY <2>1 DEF kept
  <2>3. Cardinality(upto(n)) \in 1..c
    BY <1>3, <2>2 DEF upto
  <2>4. nth(Cardinality(upto(n))) = n
    BY <1>5, <1>7, <2>2, <2>3 DEF upto
  <2> QED BY <1>10, <2>1, <2>3, <2>4
<1>13. T2 = {f[i] : i \in DOMAIN f}
  <2>1. \A i \in 1..c : f[i] \in T2
    BY <1>7, <1>8, <1>10
  <2> QED BY <1>9, <1>12, <2>1
<1>14. Unbind(binds, vs) = f
  BY DEF Unbind, f, kept, nth, upto
<1> HIDE DEF T2
<1>15. BindsAre(f, T2)
  BY <1>9, <1>11, <1>13 DEF BindsAre
<1> QED BY <1>14, <1>15 DEF T2

(* Bindings of different VLANs, one list after the other. *)
LEMMA BothList ==
  ASSUME NEW b1, NEW b2, NEW T1, NEW T2, BindsAre(b1, T1), BindsAre(b2, T2),
         \A x \in T1 : \A y \in T2 : x.v # y.v
  PROVE  BindsAre(b1 \o b2, T1 \cup T2)
PROOF
<1> DEFINE T == T1 \cup T2
           b == b1 \o b2
           k == Len(b1)
           l == Len(b2)
<1>1. b1 \in Seq(T) /\ b2 \in Seq(T)
  <2>1. b1 \in Seq(T1) /\ b2 \in Seq(T2) /\ T1 \subseteq T /\ T2 \subseteq T
    BY DEF BindsAre
  <2> HIDE DEF T
  <2> QED BY <2>1, SeqMonotonic
<1>2. k \in Nat /\ l \in Nat /\ DOMAIN b1 = 1..k /\ DOMAIN b2 = 1..l
  BY <1>1, LenProperties
<1>3. b \in Seq(T) /\ Len(b) = k + l
      /\ \A i \in 1 .. k + l : b[i] = IF i <= k THEN b1[i] ELSE b2[i - k]
  BY <1>1, ConcatProperties
<1> HIDE DEF b, k, l
<1>4. DOMAIN b = 1..(k + l)
  BY <1>2, <1>3, LenProperties
<1>5. \A i \in 1..k : b[i] = b1[i] /\ i \in DOMAIN b
  BY <1>2, <1>3, <1>4
<1>6. \A i \in 1..l : b[i + k] = b2[i] /\ i + k \in DOMAIN b
  BY <1>2, <1>3, <1>4
<1>7. \A i \in DOMAIN b : (i \in 1..k) \/ (i - k \in 1..l /\ i = (i - k) + k)
  BY <1>2, <1>4
<1>8. T = {b[n] : n \in DOMAIN b}
  <2>1. \A n \in DOMAIN b : b[n] \in T
    BY <1>3, <1>4, ElementOfSeq
  <2>2. \A x \in T1 : \E n \in DOMAIN b : b[n] = x
    BY <1>2, <1>5 DEF BindsAre
  <2>3. \A x \in T2 : \E n \in DOMAIN b : b[n] = x
    <3> SUFFICES ASSUME NEW x \in T2 PROVE \E n \in DOMAIN b : b[n] = x
      OBVIOUS
    <3>1. PICK i \in 1..l : b2[i] = x
      BY <1>2 DEF BindsAre
    <3> QED BY <1>6, <3>1
  <2> QED BY <2>1, <2>2, <2>3
<1>9. ASSUME NEW i \in DOMAIN b, NEW j \in DOMAIN b, b[i].v = b[j].v
      PROVE  i = j
  <2>1. CASE i \in 1..k /\ j \in 1..k
    BY <1>2, <1>5, <1>9, <2>1 DEF BindsAre
  <2>2. CASE i - k \in 1..l /\ j - k \in 1..l
    <3>1. b[i] = b2[i - k] /\ b[j] = b2[j - k]
      BY <1>6, <1>2, <1>4, <2>2
    <3>2. i - k = j - k
      BY <1>2, <1>9, <2>2, <3>1 DEF BindsAre
    <3> QED BY <1>2, <1>4, <3>2
  <2>3. CASE i \in 1..k /\ j - k \in 1..l
    <3>1. b[i] = b1[i] /\ b[j] = b2[j - k]
      BY <1>5, <1>6, <1>2, <1>4, <2>3
    <3>2. b1[i] \in T1 /\ b2[j - k] \in T2
      BY <1>2, <2>3 DEF BindsAre
    <3> QED BY <1>9, <3>1, <3>2
  <2>4. CASE j \in 1..k /\ i - k \in 1..l
    <3>1. b[j] = b1[j] /\ b[i] = b2[i - k]
      BY <1>5, <1>6, <1>2, <1>4, <2>4
    <3>2. b1[j] \in T1 /\ b2[i - k] \in T2
      BY <1>2, <2>4 DEF BindsAre
    <3> QED BY <1>9, <3>1, <3>2
  <2> QED BY <1>7, <2>1, <2>2, <2>3, <2>4
<1>10. BindsAre(b, T)
  BY <1>3, <1>8, <1>9 DEF BindsAre
<1> QED BY <1>10 DEF b

(* SetToSeq lists the elements of a finite set. *)
LEMMA SetToSeqFact ==
  ASSUME NEW S, IsFiniteSet(S)
  PROVE  /\ Cardinality(S) \in Nat /\ SetToSeq(S) \in [1..Cardinality(S) -> S]
         /\ \A n \in 1..Cardinality(S) : \A m \in 1..Cardinality(S) : SetToSeq(S)[n] = SetToSeq(S)[m] => n = m
         /\ \A x \in S : \E n \in 1..Cardinality(S) : SetToSeq(S)[n] = x
PROOF
<1> DEFINE c == Cardinality(S)
<1>1. c \in Nat /\ ExistsBijection(1..c, S)
  BY FS_CardinalityType
<1>2. \E f \in [1..c -> S] : IsInjective(f)
  BY <1>1 DEF ExistsBijection, Bijection, Injection
<1>3. SetToSeq(S) \in [1..c -> S] /\ IsInjective(SetToSeq(S))
  BY <1>2 DEF SetToSeq
<1> DEFINE f == SetToSeq(S)
<1>4. f \in [1..c -> S] /\ IsInjective(f)
  BY <1>3
<1> HIDE DEF f
<1>5. \A n \in 1..c : \A m \in 1..c : f[n] = f[m] => n = m
  BY <1>4 DEF IsInjective
<1>6. f \in Injection(1..c, S)
  BY <1>4 DEF Injection
<1>7. IsFiniteSet(1..c) /\ Cardinality(1..c) = c
  <2>1. IsFiniteSet(1..c) /\ Cardinality(1..c) = IF 1 > c THEN 0 ELSE c - 1 + 1
    BY <1>1, FS_Interval
  <2> QED BY <1>1, <2>1
<1>8. f \in Surjection(1..c, S)
  BY <1>6, <1>7, FS_Injection
<1>9. \A x \in S : \E n \in 1..c : f[n] = x
  BY <1>8 DEF Surjection
<1> QED BY <1>1, <1>4, <1>5, <1>9 DEF f

(* The bindings that update_ipmc_group_member makes. *)
Bind(e, g, v) == [v |-> v, type |-> Lookup(e, g, v).type]
(* The bindings made for new VLAN interfaces, in whatever order. *)
LEMMA NewLists ==
  ASSUME NEW e, NEW g, NEW S, IsFiniteSet(S), NEW order, order = SetToSeq(S)
  PROVE  BindsAre([n \in DOMAIN order |-> Bind(e, g, order[n])], {Bind(e, g, v) : v \in S})
PROOF
<1> DEFINE c == Cardinality(S)
           b == [n \in DOMAIN order |-> Bind(e, g, order[n])]
           T == {Bind(e, g, v) : v \in S}
<1>1. /\ c \in Nat /\ order \in [1..c -> S]
      /\ \A n \in 1..c : \A m \in 1..c : order[n] = order[m] => n = m
      /\ \A x \in S : \E n \in 1..c : order[n] = x
  BY SetToSeqFact
<1>2. \A v : Bind(e, g, v).v = v
  BY DEF Bind
<1>3. DOMAIN b = 1..c /\ \A n \in 1..c : b[n] = Bind(e, g, order[n]) /\ b[n] \in T
  BY <1>1
<1>4. b \in [1..c -> T]
  BY <1>1
<1>5. b \in Seq(T)
  BY <1>1, <1>4, SeqDef
<1> HIDE DEF b
<1>6. \A n \in 1..c : \A m \in 1..c : b[n].v = b[m].v => n = m
  BY <1>1, <1>2, <1>3
<1>7. \A x \in T : \E n \in 1..c : b[n] = x
  BY <1>1, <1>3
<1>8. BindsAre(b, T)
  BY <1>3, <1>5, <1>6, <1>7 DEF BindsAre
<1> QED BY <1>8 DEF b

(* The search of sync_output_id finds the VLAN's binding when it has one. *)
LEMMA InHand ==
  ASSUME NEW s, NEW T, BindsAre(s.binds, T), NEW b \in T
  PROVE  TypeInHand(s, b.v) = b.type
PROOF
<1> DEFINE own == {n \in DOMAIN s.binds : s.binds[n].v = b.v}
<1>1. PICK n \in DOMAIN s.binds : s.binds[n] = b
  BY DEF BindsAre
<1>2. DOMAIN s.binds = 1..Len(s.binds) /\ Len(s.binds) \in Nat
  BY DEF BindsAre
<1>3. own = {n}
  BY <1>1 DEF BindsAre
<1>4. own \in SUBSET Nat /\ own # {}
  BY <1>2, <1>3
<1>5. Min(own) \in own
  BY <1>4, MinFact
<1>6. Min(own) = n
  BY <1>3, <1>5
<1>7. s.binds # << >>
  BY <1>1, <1>2
<1> HIDE DEF own
<1>8. TypeInHand(s, b.v) = s.binds[Min(own)].type
  BY <1>4, <1>7 DEF TypeInHand, own
<1> QED BY <1>1, <1>6, <1>8

-----------------------------------------------------------------------------
(* Multicast: what replication and bindings of an IPMC entry must be *)
(* What a lookup finds. *)
LEMMA LookupFinds ==
  ASSUME NEW e, NEW g, NEW v
  PROVE  /\ <<v, "sg">> \in DOMAIN e =>
              Lookup(e, g, v) = [type |-> "L2MC", ports |-> g[e[<<v, "sg">>]].ports]
         /\ <<v, "sg">> \notin DOMAIN e /\ <<v, "xg">> \in DOMAIN e =>
              Lookup(e, g, v) = [type |-> "L2MC", ports |-> g[e[<<v, "xg">>]].ports]
         /\ <<v, "sg">> \notin DOMAIN e /\ <<v, "xg">> \notin DOMAIN e /\ <<v, "fdb">> \in DOMAIN e =>
              Lookup(e, g, v) = [type |-> "FDB", ports |-> g[e[<<v, "fdb">>]].ports]
         /\ <<v, "sg">> \notin DOMAIN e /\ <<v, "xg">> \notin DOMAIN e /\ <<v, "fdb">> \notin DOMAIN e =>
              Lookup(e, g, v) = [type |-> "NONE", ports |-> {}]
PROOF
<1> DEFINE order == <<"sg", "xg", "fdb">>
           found == {n \in 1..3 : <<v, order[n]>> \in DOMAIN e}
           m == Min(found)
<1>1. found \in SUBSET Nat /\ found \subseteq 1..3
  OBVIOUS
<1>2. found # {} => m \in found /\ \A n \in found : m <= n
  BY <1>1, MinFact
<1>3. /\ 1 \in found <=> <<v, "sg">> \in DOMAIN e
      /\ 2 \in found <=> <<v, "xg">> \in DOMAIN e
      /\ 3 \in found <=> <<v, "fdb">> \in DOMAIN e
  OBVIOUS
<1>4. order[1] = "sg" /\ order[2] = "xg" /\ order[3] = "fdb"
  OBVIOUS
<1>5. Lookup(e, g, v) = IF found = {} THEN [type |-> "NONE", ports |-> {}]
                        ELSE [type |-> KindType(order[m]), ports |-> g[e[<<v, order[m]>>]].ports]
  BY DEF Lookup
<1>6. KindType("sg") = "L2MC" /\ KindType("xg") = "L2MC" /\ KindType("fdb") = "FDB"
  BY DEF KindType
<1> HIDE DEF found, m, order
<1>7. CASE 1 \in found
  <2>a. found # {}
    BY <1>7
  <2>b. m \in found /\ m <= 1
    BY <1>2, <2>a, <1>7
  <2>c. m = 1 \/ m = 2 \/ m = 3
    BY <1>1, <2>b
  <2>1. m = 1
    BY <2>b, <2>c, <1>7
  <2> QED BY <1>3, <1>4, <1>5, <1>6, <1>7, <2>1
<1>8. CASE 1 \notin found /\ 2 \in found
  <2>a. found # {}
    BY <1>8
  <2>b. m \in found /\ m <= 2
    BY <1>2, <2>a, <1>8
  <2>c. m = 1 \/ m = 2 \/ m = 3
    BY <1>1, <2>b
  <2>1. m = 2
    BY <2>b, <2>c, <1>8
  <2> QED BY <1>3, <1>4, <1>5, <1>6, <1>8, <2>1
<1>9. CASE 1 \notin found /\ 2 \notin found /\ 3 \in found
  <2>a. found # {}
    BY <1>9
  <2>b. m \in found /\ m <= 3
    BY <1>2, <2>a, <1>9
  <2>c. m = 1 \/ m = 2 \/ m = 3
    BY <1>1, <2>b
  <2>1. m = 3
    BY <2>b, <2>c, <1>9
  <2> QED BY <1>3, <1>4, <1>5, <1>6, <1>9, <2>1
<1>10. CASE 1 \notin found /\ 2 \notin found /\ 3 \notin found
  <2>1. found = {}
    BY <1>1, <1>10
  <2> QED BY <1>3, <1>5, <1>10, <2>1
<1> QED BY <1>7, <1>8, <1>9, <1>10

(* No VLAN has both an (S,G) and an (any,G) entry. *)
Unmixed(e) == \A v : ~(<<v, "sg">> \in DOMAIN e /\ <<v, "xg">> \in DOMAIN e)
McKinds == {"sg", "xg", "fdb"}

(* The bindings are the lookups of the VLAN interfaces of the group, and *)
(* the replication is to the ports they find and to the other interfaces. *)
Bindings(e, g, vs) == {Bind(e, g, v) : v \in vs}
Replicates(e, g, out, rp) ==
  /\ \A x \in rp : x = <<x[1], x[2]>>
  /\ \A a, b : <<a, b>> \in rp <=> \/ a = 0 /\ b \in out \cap McRifs
                                   \/ a \in out \cap McVlans /\ b \in Lookup(e, g, a).ports
InStep(e, g, out, binds, rp) ==
  BindsAre(binds, Bindings(e, g, out \cap McVlans)) /\ Replicates(e, g, out, rp)

(* They do not depend on the lookups of other VLANs. *)
LEMMA OtherStep ==
  ASSUME NEW e, NEW g, NEW e2, NEW g2, NEW out, NEW binds, NEW rp, InStep(e, g, out, binds, rp),
         \A v \in out \cap McVlans : Lookup(e2, g2, v) = Lookup(e, g, v)
  PROVE  InStep(e2, g2, out, binds, rp)
PROOF
<1>1. Bindings(e2, g2, out \cap McVlans) = Bindings(e, g, out \cap McVlans)
  BY DEF Bindings, Bind
<1>2. Replicates(e2, g2, out, rp)
  BY DEF InStep, Replicates
<1> QED BY <1>1, <1>2 DEF InStep

(* What the VLAN of a listed binding is. *)
LEMMA BoundAre ==
  ASSUME NEW e, NEW g, NEW vs, NEW binds, BindsAre(binds, Bindings(e, g, vs))
  PROVE  {binds[n].v : n \in DOMAIN binds} = vs
PROOF
<1>1. \A v : Bind(e, g, v).v = v
  BY DEF Bind
<1>2. \A n \in DOMAIN binds : \E v \in vs : binds[n] = Bind(e, g, v)
  BY DEF BindsAre, Bindings
<1>3. \A v \in vs : \E n \in DOMAIN binds : binds[n] = Bind(e, g, v)
  BY DEF BindsAre, Bindings
<1> QED BY <1>1, <1>2, <1>3

(* AddInterfaces extends both to interfaces that were not in the group. *)
LEMMA AddStep ==
  ASSUME NEW e, NEW g, NEW o, NEW out, NEW binds, NEW rp, NEW s, NEW is,
         s = [e |-> e, g |-> g, out |-> o, binds |-> binds, hw |-> rp],
         InStep(e, g, out, binds, rp), is \subseteq McVlans \cup McRifs, IsFiniteSet(is), is \cap out = {}
  PROVE  InStep(e, g, out \cup is, AddInterfaces(s, is).binds, AddInterfaces(s, is).hw)
PROOF
<1> DEFINE vs == is \cap McVlans
           order == SetToSeq(vs)
           nb == [n \in DOMAIN order |-> Bind(e, g, order[n])]
           more == ({0} \X (is \cap McRifs)) \cup UNION {{v} \X Lookup(e, g, v).ports : v \in vs}
           r == AddInterfaces(s, is)
<1>1. BoundVlans(s) = out \cap McVlans
  <2>1. {binds[n].v : n \in DOMAIN binds} = out \cap McVlans
    BY BoundAre DEF InStep
  <2> QED BY <2>1 DEF BoundVlans
<1>2. (is \cap McVlans) \ BoundVlans(s) = vs
  BY <1>1
<1>3. r.binds = binds \o nb /\ r.hw = rp \cup more
  BY <1>2, ZenonT(40) DEF AddInterfaces, Bind
<1>4. IsFiniteSet(vs)
  BY FS_Subset
<1> HIDE DEF vs, r
<1>5. BindsAre(nb, Bindings(e, g, vs))
  BY <1>4, NewLists DEF Bindings
<1> HIDE DEF nb
<1>6. BindsAre(binds, Bindings(e, g, out \cap McVlans))
  BY DEF InStep
<1>7. \A x \in Bindings(e, g, out \cap McVlans) : \A y \in Bindings(e, g, vs) : x.v # y.v
  BY DEF Bindings, Bind, vs
<1>8. BindsAre(binds \o nb, Bindings(e, g, out \cap McVlans) \cup Bindings(e, g, vs))
  BY <1>5, <1>6, <1>7, BothList
<1>9. Bindings(e, g, out \cap McVlans) \cup Bindings(e, g, vs) = Bindings(e, g, (out \cup is) \cap McVlans)
  BY DEF Bindings, vs
<1>10. Replicates(e, g, out \cup is, rp \cup more)
  <2>1. \A x \in more : x = <<x[1], x[2]>>
    OBVIOUS
  <2>2. \A a, b : <<a, b>> \in more <=> \/ a = 0 /\ b \in is \cap McRifs
                                        \/ a \in vs /\ b \in Lookup(e, g, a).ports
    OBVIOUS
  <2> HIDE DEF more
  <2> QED BY <2>1, <2>2 DEF InStep, Replicates, vs
<1>11. InStep(e, g, out \cup is, r.binds, r.hw)
  BY <1>3, <1>8, <1>9, <1>10 DEF InStep
<1> QED BY <1>11 DEF r

(* Taking back a VLAN's binding and its replication. *)
LEMMA RemStep ==
  ASSUME NEW e, NEW g, NEW out, NEW binds, NEW rp, InStep(e, g, out, binds, rp), NEW v \in McVlans
  PROVE  InStep(e, g, out \ {v}, Unbind(binds, {v}), rp \ ({v} \X Lookup(e, g, v).ports))
PROOF
<1> DEFINE T == Bindings(e, g, out \cap McVlans)
<1>1. BindsAre(Unbind(binds, {v}), {b \in T : b.v \notin {v}})
  <2>1. BindsAre(binds, T)
    BY DEF InStep
  <2> HIDE DEF T
  <2> QED BY <2>1, UnbindLists
<1>2. {b \in T : b.v \notin {v}} = Bindings(e, g, (out \ {v}) \cap McVlans)
  BY DEF Bindings, Bind
<1>3. v # 0
  BY McastAssumption
<1>4. Replicates(e, g, out \ {v}, rp \ ({v} \X Lookup(e, g, v).ports))
  BY <1>3, McastAssumption DEF InStep, Replicates
<1> QED BY <1>1, <1>2, <1>4 DEF InStep

(* A binding that is given another type. *)
LEMMA RetypeLists ==
  ASSUME NEW e, NEW g, NEW e2, NEW g2, NEW vs, NEW binds, BindsAre(binds, Bindings(e, g, vs)),
         NEW k, \A v \in vs : v # k => Lookup(e2, g2, v).type = Lookup(e, g, v).type
  PROVE  BindsAre([i \in DOMAIN binds |-> IF binds[i].v = k
                                       THEN [binds[i] EXCEPT !.type = Lookup(e2, g2, k).type]
                                       ELSE binds[i]],
               Bindings(e2, g2, vs))
PROOF
<1> DEFINE T2 == Bindings(e2, g2, vs)
           b2 == [i \in DOMAIN binds |-> IF binds[i].v = k
                                         THEN [binds[i] EXCEPT !.type = Lookup(e2, g2, k).type]
                                         ELSE binds[i]]
<1>1. DOMAIN binds = 1..Len(binds) /\ Len(binds) \in Nat
  BY DEF BindsAre
<1>2. \A i \in DOMAIN binds : binds[i].v \in vs /\ binds[i] = Bind(e, g, binds[i].v)
  BY DEF BindsAre, Bindings, Bind
<1>3. \A i \in DOMAIN binds : b2[i] = Bind(e2, g2, binds[i].v)
  BY <1>2 DEF Bind
<1>4. DOMAIN b2 = DOMAIN binds
  OBVIOUS
<1>5. b2 \in [1..Len(binds) -> T2]
  BY <1>1, <1>2, <1>3 DEF Bindings
<1>6. b2 \in Seq(T2)
  BY <1>1, <1>5, SeqDef
<1> HIDE DEF b2
<1>7. \A i \in DOMAIN b2 : b2[i].v = binds[i].v
  BY <1>3, <1>4 DEF Bind
<1>8. \A i \in DOMAIN b2 : \A j \in DOMAIN b2 : b2[i].v = b2[j].v => i = j
  BY <1>4, <1>7 DEF BindsAre
<1>9. \A v \in vs : \E i \in DOMAIN b2 : b2[i] = Bind(e2, g2, v)
  <2>1. {binds[n].v : n \in DOMAIN binds} = vs
    BY BoundAre
  <2> QED BY <1>3, <1>4, <2>1
<1>10. \A i \in DOMAIN b2 : b2[i] \in T2
  BY <1>1, <1>4, <1>5
<1>11. BindsAre(b2, T2)
  BY <1>6, <1>8, <1>9, <1>10 DEF BindsAre, Bindings
<1> QED BY <1>11 DEF b2

(* The binding in hand of a VLAN interface of the group is its own. *)
LEMMA OwnInHand ==
  ASSUME NEW e, NEW g, NEW out, NEW s, BindsAre(s.binds, Bindings(e, g, out \cap McVlans)),
         NEW v \in out \cap McVlans
  PROVE  TypeInHand(s, v) = Lookup(e, g, v).type
PROOF
<1>1. Bind(e, g, v) \in Bindings(e, g, out \cap McVlans)
  BY DEF Bindings
<1>2. Bind(e, g, v).v = v /\ Bind(e, g, v).type = Lookup(e, g, v).type
  BY DEF Bind
<1>3. TypeInHand(s, Bind(e, g, v).v) = Bind(e, g, v).type
  BY <1>1, InHand
<1> QED BY <1>2, <1>3

(* There are as many bindings as VLAN interfaces. *)
LEMMA BindingsCount ==
  ASSUME NEW e, NEW g, NEW vs, IsFiniteSet(vs), NEW binds, BindsAre(binds, Bindings(e, g, vs))
  PROVE  Len(binds) = Cardinality(vs)
PROOF
<1> DEFINE D == DOMAIN binds
           f == [n \in D |-> binds[n].v]
<1>1. D = 1..Len(binds) /\ Len(binds) \in Nat
  BY DEF BindsAre
<1>2. IsFiniteSet(D) /\ Cardinality(D) = Len(binds)
  <2>1. IsFiniteSet(1..Len(binds)) /\ Cardinality(1..Len(binds)) = IF 1 > Len(binds) THEN 0 ELSE Len(binds) - 1 + 1
    BY <1>1, FS_Interval
  <2> QED BY <1>1, <2>1
<1>3. {f[n] : n \in D} = vs
  <2>1. {binds[n].v : n \in DOMAIN binds} = vs
    BY BoundAre
  <2> QED BY <2>1
<1>4. \A n \in D : \A m \in D : f[n] = f[m] => n = m
  BY DEF BindsAre
<1> HIDE DEF D, f
<1>5. Cardinality({f[n] : n \in D}) = Cardinality(D)
  BY <1>2, <1>4, SameSize
<1> QED BY <1>2, <1>3, <1>5

-----------------------------------------------------------------------------
(* Multicast: what the synchronisation does *)
LEMMA KeyFacts ==
  ASSUME NEW k \in McKeys
  PROVE  k = <<k[1], k[2]>> /\ k[1] \in McVlans /\ k[2] \in McKinds /\ k[1] # 0
PROOF
<1>1. ASSUME NEW v \in McVlans, NEW kind \in McKinds, k = <<v, kind>>
      PROVE  k = <<k[1], k[2]>> /\ k[1] \in McVlans /\ k[2] \in McKinds /\ k[1] # 0
  <2>1. v # 0
    BY McastAssumption
  <2> QED BY <1>1, <2>1
<1>2. k \in SgVlans \X {"sg"} \/ k \in McVlans \X {"xg", "fdb"}
  BY DEF McKeys
<1>3. \E v \in McVlans : \E kind \in McKinds : k = <<v, kind>>
  <2>1. CASE k \in SgVlans \X {"sg"}
    <3>1. k = <<k[1], k[2]>> /\ k[1] \in SgVlans /\ k[2] = "sg"
      BY <2>1
    <3>2. k[1] \in McVlans
      BY <3>1, McastAssumption
    <3> QED BY <3>1, <3>2 DEF McKinds
  <2>2. CASE k \in McVlans \X {"xg", "fdb"}
    <3>1. k = <<k[1], k[2]>> /\ k[1] \in McVlans /\ k[2] \in {"xg", "fdb"}
      BY <2>2
    <3> QED BY <3>1 DEF McKinds
  <2> QED BY <1>2, <2>1, <2>2
<1> QED BY <1>1, <1>3

(* A lookup depends on the entries of its VLAN and on the ports of their *)
(* groups only. *)
LEMMA LookupSame ==
  ASSUME NEW e, NEW g, NEW e2, NEW g2, NEW v,
         \A kind \in McKinds : /\ <<v, kind>> \in DOMAIN e2 <=> <<v, kind>> \in DOMAIN e
                               /\ <<v, kind>> \in DOMAIN e => g2[e2[<<v, kind>>]].ports = g[e[<<v, kind>>]].ports
  PROVE  Lookup(e2, g2, v) = Lookup(e, g, v)
PROOF
<1>1. \A kind \in {"sg", "xg", "fdb"} :
        /\ <<v, kind>> \in DOMAIN e2 <=> <<v, kind>> \in DOMAIN e
        /\ <<v, kind>> \in DOMAIN e => g2[e2[<<v, kind>>]].ports = g[e[<<v, kind>>]].ports
  BY DEF McKinds
<1>2. CASE <<v, "sg">> \in DOMAIN e
  <2>1. Lookup(e, g, v) = [type |-> "L2MC", ports |-> g[e[<<v, "sg">>]].ports]
    BY <1>2, LookupFinds
  <2>2. Lookup(e2, g2, v) = [type |-> "L2MC", ports |-> g2[e2[<<v, "sg">>]].ports]
    BY <1>1, <1>2, LookupFinds
  <2> QED BY <1>1, <1>2, <2>1, <2>2
<1>3. CASE <<v, "sg">> \notin DOMAIN e /\ <<v, "xg">> \in DOMAIN e
  <2>1. Lookup(e, g, v) = [type |-> "L2MC", ports |-> g[e[<<v, "xg">>]].ports]
    BY <1>3, LookupFinds
  <2>2. Lookup(e2, g2, v) = [type |-> "L2MC", ports |-> g2[e2[<<v, "xg">>]].ports]
    BY <1>1, <1>3, LookupFinds
  <2> QED BY <1>1, <1>3, <2>1, <2>2
<1>4. CASE <<v, "sg">> \notin DOMAIN e /\ <<v, "xg">> \notin DOMAIN e /\ <<v, "fdb">> \in DOMAIN e
  <2>1. Lookup(e, g, v) = [type |-> "FDB", ports |-> g[e[<<v, "fdb">>]].ports]
    BY <1>4, LookupFinds
  <2>2. Lookup(e2, g2, v) = [type |-> "FDB", ports |-> g2[e2[<<v, "fdb">>]].ports]
    BY <1>1, <1>4, LookupFinds
  <2> QED BY <1>1, <1>4, <2>1, <2>2
<1>5. CASE <<v, "sg">> \notin DOMAIN e /\ <<v, "xg">> \notin DOMAIN e /\ <<v, "fdb">> \notin DOMAIN e
  <2>1. Lookup(e, g, v) = [type |-> "NONE", ports |-> {}]
    BY <1>5, LookupFinds
  <2>2. Lookup(e2, g2, v) = [type |-> "NONE", ports |-> {}]
    BY <1>1, <1>5, LookupFinds
  <2> QED BY <2>1, <2>2
<1> QED BY <1>2, <1>3, <1>4, <1>5

(* The entry a lookup finds is the only one of its type in the VLAN. *)
Finds(e, v, kind) ==
  /\ kind \in McKinds /\ <<v, kind>> \in DOMAIN e
  /\ \A g : Lookup(e, g, v) = [type |-> KindType(kind), ports |-> g[e[<<v, kind>>]].ports]
  /\ \A other \in McKinds : <<v, other>> \in DOMAIN e /\ KindType(other) = KindType(kind) => other = kind

(* A lookup finds nothing, or one entry. *)
LEMMA FoundKind ==
  ASSUME NEW e, Unmixed(e), NEW v
  PROVE  \/ /\ \A kind \in McKinds : <<v, kind>> \notin DOMAIN e
            /\ \A g : Lookup(e, g, v) = [type |-> "NONE", ports |-> {}]
         \/ \E kind \in McKinds : Finds(e, v, kind)
PROOF
<1>0. KindType("sg") = "L2MC" /\ KindType("xg") = "L2MC" /\ KindType("fdb") = "FDB"
  BY DEF KindType
<1>1. CASE <<v, "sg">> \in DOMAIN e
  <2>1. \A g : Lookup(e, g, v) = [type |-> "L2MC", ports |-> g[e[<<v, "sg">>]].ports]
    BY <1>1, LookupFinds
  <2>2. "sg" \in McKinds /\ \A other \in McKinds : other = "sg" \/ other = "xg" \/ other = "fdb"
    BY DEF McKinds
  <2>3. Finds(e, v, "sg")
    BY <1>0, <1>1, <2>1, <2>2 DEF Finds, Unmixed
  <2> QED BY <2>2, <2>3
<1>2. CASE <<v, "sg">> \notin DOMAIN e /\ <<v, "xg">> \in DOMAIN e
  <2>1. \A g : Lookup(e, g, v) = [type |-> "L2MC", ports |-> g[e[<<v, "xg">>]].ports]
    BY <1>2, LookupFinds
  <2>2. "xg" \in McKinds /\ \A other \in McKinds : other = "sg" \/ other = "xg" \/ other = "fdb"
    BY DEF McKinds
  <2>3. Finds(e, v, "xg")
    BY <1>0, <1>2, <2>1, <2>2 DEF Finds, Unmixed
  <2> QED BY <2>2, <2>3
<1>3. CASE <<v, "sg">> \notin DOMAIN e /\ <<v, "xg">> \notin DOMAIN e /\ <<v, "fdb">> \in DOMAIN e
  <2>1. \A g : Lookup(e, g, v) = [type |-> "FDB", ports |-> g[e[<<v, "fdb">>]].ports]
    BY <1>3, LookupFinds
  <2>2. "fdb" \in McKinds /\ \A other \in McKinds : other = "sg" \/ other = "xg" \/ other = "fdb"
    BY DEF McKinds
  <2>3. Finds(e, v, "fdb")
    BY <1>0, <1>3, <2>1, <2>2 DEF Finds, Unmixed
  <2> QED BY <2>2, <2>3
<1>4. CASE <<v, "sg">> \notin DOMAIN e /\ <<v, "xg">> \notin DOMAIN e /\ <<v, "fdb">> \notin DOMAIN e
  <2>1. \A g : Lookup(e, g, v) = [type |-> "NONE", ports |-> {}]
    BY <1>4, LookupFinds
  <2>2. \A kind \in McKinds : <<v, kind>> \notin DOMAIN e
    BY <1>4 DEF McKinds
  <2> QED BY <2>1, <2>2
<1> QED BY <1>1, <1>2, <1>3, <1>4

(* The pairs that a change of a member reaches. *)
LEMMA ReachedPairs == \A s, ks, p : \A x \in Reached(s, ks, p) : x = <<x[1], x[2]>>
BY DEF Reached
IsReached(e, g, out, ks, p, R) ==
  /\ \A x \in R : x = <<x[1], x[2]>>
  /\ \A a, b : <<a, b>> \in R <=>
       /\ b = p /\ a \in out \cap McVlans
       /\ \E kind \in McKinds : <<a, kind>> \in ks /\ Lookup(e, g, a).type = KindType(kind)

(* Reached is that set. *)
LEMMA ReachedIs ==
  ASSUME NEW e, NEW g, NEW s, NEW ks, NEW p, ks \in SUBSET McKeys,
         BindsAre(s.binds, Bindings(e, g, s.out \cap McVlans))
  PROVE  IsReached(e, g, s.out, ks, p, Reached(s, ks, p))
PROOF
<1> DEFINE out == s.out
<1>1. s.out = out /\ BindsAre(s.binds, Bindings(e, g, out \cap McVlans))
  OBVIOUS
<1> HIDE DEF out
<1> SUFFICES ASSUME NEW a, NEW b
             PROVE  <<a, b>> \in Reached(s, ks, p) <=>
                      /\ b = p /\ a \in out \cap McVlans
                      /\ \E kind \in McKinds : <<a, kind>> \in ks /\ Lookup(e, g, a).type = KindType(kind)
  BY <1>1, ReachedPairs DEF IsReached
<1>2. \A v \in out \cap McVlans : TypeInHand(s, v) = Lookup(e, g, v).type
  BY <1>1, OwnInHand
<1>3. \A k \in ks : k = <<k[1], k[2]>> /\ k[1] \in McVlans /\ k[2] \in McKinds
  BY KeyFacts
<1>4. ASSUME <<a, b>> \in Reached(s, ks, p)
      PROVE  /\ b = p /\ a \in out \cap McVlans
             /\ \E kind \in McKinds : <<a, kind>> \in ks /\ Lookup(e, g, a).type = KindType(kind)
  <2>1. PICK k \in ks : <<a, b>> = <<k[1], p>> /\ k[1] \in out /\ TypeInHand(s, k[1]) = KindType(k[2])
    BY <1>1, <1>4 DEF Reached
  <2>2. a = k[1] /\ b = p /\ k = <<a, k[2]>> /\ k[2] \in McKinds /\ a \in out \cap McVlans
    BY <1>3, <2>1
  <2>3. TypeInHand(s, a) = Lookup(e, g, a).type
    BY <1>2, <2>2
  <2> QED BY <2>1, <2>2, <2>3
<1>5. ASSUME b = p, a \in out \cap McVlans,
             \E kind \in McKinds : <<a, kind>> \in ks /\ Lookup(e, g, a).type = KindType(kind)
      PROVE  <<a, b>> \in Reached(s, ks, p)
  <2>1. PICK kind \in McKinds : <<a, kind>> \in ks /\ Lookup(e, g, a).type = KindType(kind)
    BY <1>5
  <2> DEFINE k == <<a, kind>>
  <2>2. k \in ks /\ k[1] = a /\ k[2] = kind /\ k[1] \in s.out /\ TypeInHand(s, k[1]) = KindType(k[2])
    BY <1>1, <1>2, <1>5, <2>1
  <2>3. <<a, b>> = <<k[1], p>>
    BY <1>5
  <2> HIDE DEF k
  <2> QED BY <2>2, <2>3 DEF Reached
<1> QED BY <1>4, <1>5

(* What sync_output_id reads and writes, from its parts. *)
IsState(s, e, g, out, binds, rp) == s = [e |-> e, g |-> g, out |-> out, binds |-> binds, hw |-> rp]


(* The entries of a group, and the ports of the groups once a member has *)
(* come into it, or has left. *)
AreEntries(ks, e, gr) == \A k : k \in ks <=> k \in DOMAIN e /\ e[k] = gr
PortsAre(e, g, g2, gr, p, add) ==
  \A k \in DOMAIN e : g2[e[k]].ports = IF e[k] # gr THEN g[e[k]].ports
                                       ELSE IF add THEN g[gr].ports \cup {p} ELSE g[gr].ports \ {p}

(* A member that comes into a group, or leaves it. *)
LEMMA MemberStep ==
  ASSUME NEW e, NEW g, NEW g2, NEW out, NEW binds, NEW rp, NEW s, NEW gr, NEW p, NEW ks, NEW add \in BOOLEAN,
         IsState(s, e, g, out, binds, rp),
         InStep(e, g, out, binds, rp), Unmixed(e), DOMAIN e \subseteq McKeys,
         AreEntries(ks, e, gr), PortsAre(e, g, g2, gr, p, add)
  PROVE  InStep(e, g2, out, SyncMember(s, ks, p, add).binds, SyncMember(s, ks, p, add).hw)
PROOF
<1> DEFINE R == Reached(s, ks, p)
           hw2 == IF add THEN rp \cup R ELSE rp \ R
<1>0. /\ \A k : k \in ks <=> k \in DOMAIN e /\ e[k] = gr
      /\ \A k \in DOMAIN e : g2[e[k]].ports = IF e[k] # gr THEN g[e[k]].ports
                                              ELSE IF add THEN g[gr].ports \cup {p} ELSE g[gr].ports \ {p}
  BY DEF AreEntries, PortsAre
<1>1. BindsAre(binds, Bindings(e, g, out \cap McVlans)) /\ Replicates(e, g, out, rp)
  BY DEF InStep
<1>2. /\ \A x \in R : x = <<x[1], x[2]>>
      /\ \A a, b : <<a, b>> \in R <=>
           /\ b = p /\ a \in out \cap McVlans
           /\ \E kind \in McKinds : <<a, kind>> \in ks /\ Lookup(e, g, a).type = KindType(kind)
  <2>1. s.out = out /\ s.binds = binds
    BY DEF IsState
  <2>2. BindsAre(s.binds, Bindings(e, g, s.out \cap McVlans))
    BY <1>1, <2>1
  <2>3. ks \in SUBSET McKeys
    BY <1>0
  <2>4. IsReached(e, g, s.out, ks, p, Reached(s, ks, p))
    BY <2>2, <2>3, ReachedIs
  <2>5. IsReached(e, g, out, ks, p, R)
    BY <2>1, <2>4
  <2> HIDE DEF R
  <2> QED BY <2>5 DEF IsReached
<1>3. SyncMember(s, ks, p, add).binds = binds /\ SyncMember(s, ks, p, add).hw = hw2
  BY DEF SyncMember, IsState
<1> HIDE DEF R
<1>4. ASSUME NEW v \in out \cap McVlans
      PROVE  /\ Lookup(e, g2, v).type = Lookup(e, g, v).type
             /\ <<v, p>> \in R => Lookup(e, g2, v).ports = IF add THEN Lookup(e, g, v).ports \cup {p}
                                                                 ELSE Lookup(e, g, v).ports \ {p}
             /\ <<v, p>> \notin R => Lookup(e, g2, v).ports = Lookup(e, g, v).ports
  <2>1. CASE /\ \A kind \in McKinds : <<v, kind>> \notin DOMAIN e
             /\ \A h : Lookup(e, h, v) = [type |-> "NONE", ports |-> {}]
    <3>1. <<v, p>> \notin R
      BY <1>0, <1>2, <2>1
    <3>2. Lookup(e, g, v) = [type |-> "NONE", ports |-> {}] /\ Lookup(e, g2, v) = [type |-> "NONE", ports |-> {}]
      BY <2>1
    <3> QED BY <3>1, <3>2
  <2>2. CASE \E kind \in McKinds : Finds(e, v, kind)
    <3>1. PICK kind \in McKinds : Finds(e, v, kind)
      BY <2>2
    <3> DEFINE k == <<v, kind>>
    <3>2. /\ k \in DOMAIN e
          /\ Lookup(e, g, v).type = KindType(kind) /\ Lookup(e, g, v).ports = g[e[k]].ports
          /\ Lookup(e, g2, v).type = KindType(kind) /\ Lookup(e, g2, v).ports = g2[e[k]].ports
      <4>1. k \in DOMAIN e
        BY <3>1 DEF Finds
      <4>2. Lookup(e, g, v) = [type |-> KindType(kind), ports |-> g[e[k]].ports]
        BY <3>1 DEF Finds
      <4>3. Lookup(e, g2, v) = [type |-> KindType(kind), ports |-> g2[e[k]].ports]
        BY <3>1 DEF Finds
      <4> QED BY <4>1, <4>2, <4>3
    <3>3. <<v, p>> \in R <=> k \in ks
      <4>1. k \in ks => <<v, p>> \in R
        BY <1>2, <3>2
      <4>2. ASSUME <<v, p>> \in R PROVE k \in ks
        <5>0. \E other \in McKinds : <<v, other>> \in ks /\ Lookup(e, g, v).type = KindType(other)
          BY <1>2, <4>2
        <5>1. PICK other \in McKinds : <<v, other>> \in ks /\ KindType(other) = KindType(kind)
          BY <5>0, <3>2
        <5>2. other = kind
          BY <1>0, <3>1, <5>1 DEF Finds
        <5> QED BY <5>1, <5>2
      <4> QED BY <4>1, <4>2
    <3> HIDE DEF k
    <3>4. k \in ks <=> e[k] = gr
      BY <1>0, <3>2
    <3> QED BY <1>0, <3>2, <3>3, <3>4
  <2> QED BY <2>1, <2>2, FoundKind
<1>5. Bindings(e, g2, out \cap McVlans) = Bindings(e, g, out \cap McVlans)
  BY <1>4 DEF Bindings, Bind
<1>6. Replicates(e, g2, out, hw2)
  <2>1. \A x \in hw2 : x = <<x[1], x[2]>>
    BY <1>1, <1>2 DEF Replicates
  <2>2. \A a : a \in McVlans => a # 0
    BY McastAssumption
  <2>3. ASSUME NEW a, NEW b
        PROVE  <<a, b>> \in hw2 <=> \/ a = 0 /\ b \in out \cap McRifs
                                    \/ a \in out \cap McVlans /\ b \in Lookup(e, g2, a).ports
    <3>1. <<a, b>> \in rp <=> \/ a = 0 /\ b \in out \cap McRifs
                              \/ a \in out \cap McVlans /\ b \in Lookup(e, g, a).ports
      BY <1>1 DEF Replicates
    <3>2. <<a, b>> \in hw2 <=> IF add THEN <<a, b>> \in rp \/ <<a, b>> \in R
                               ELSE <<a, b>> \in rp /\ <<a, b>> \notin R
      OBVIOUS
    <3>3. CASE a \in out \cap McVlans
      <4>1. <<a, b>> \in R <=> b = p /\ <<a, p>> \in R
        BY <1>2
      <4>2. b \in Lookup(e, g2, a).ports <=>
              IF <<a, b>> \in R THEN add ELSE b \in Lookup(e, g, a).ports
        BY <1>4, <3>3, <4>1
      <4> QED BY <2>2, <3>1, <3>2, <3>3, <4>2
    <3>4. CASE a \notin out \cap McVlans
      <4>1. <<a, b>> \notin R
        BY <1>2, <3>4
      <4> QED BY <3>1, <3>2, <3>4, <4>1
    <3> QED BY <3>3, <3>4
  <2> QED BY <2>1, <2>3 DEF Replicates
<1>7. BindsAre(binds, Bindings(e, g2, out \cap McVlans))
  BY <1>1, <1>5
<1> QED BY <1>3, <1>6, <1>7 DEF InStep

-----------------------------------------------------------------------------
(* Multicast: an entry that comes, goes, or is given another group *)

(* The lookups of the other VLANs do not see the entry. *)
LEMMA OtherLookup ==
  ASSUME NEW e, NEW g, NEW k \in McKeys, NEW gr, NEW a, a # k[1]
  PROVE  /\ Lookup(McPut(e, k, gr), g, a) = Lookup(e, g, a)
         /\ Lookup(McDrop(e, k), g, a) = Lookup(e, g, a)
PROOF
<1>1. k = <<k[1], k[2]>>
  BY KeyFacts
<1>2. \A kind : <<a, kind>> # k
  BY <1>1
<1> DEFINE e2 == McPut(e, k, gr)
           e3 == McDrop(e, k)
<1>3. \A kind \in McKinds : /\ <<a, kind>> \in DOMAIN e2 <=> <<a, kind>> \in DOMAIN e
                            /\ <<a, kind>> \in DOMAIN e => e2[<<a, kind>>] = e[<<a, kind>>]
                            /\ <<a, kind>> \in DOMAIN e3 <=> <<a, kind>> \in DOMAIN e
                            /\ <<a, kind>> \in DOMAIN e => e3[<<a, kind>>] = e[<<a, kind>>]
  <2>1. /\ \A x : x \in DOMAIN e2 <=> x \in DOMAIN e \/ x = k
        /\ \A x : x \in DOMAIN e3 <=> x \in DOMAIN e /\ x # k
        /\ \A x \in DOMAIN e : x # k => e2[x] = e[x] /\ e3[x] = e[x]
    BY DEF McPut, McDrop
  <2> HIDE DEF e2, e3
  <2> QED BY <1>2, <2>1
<1> HIDE DEF e2, e3
<1>4. Lookup(e2, g, a) = Lookup(e, g, a)
  BY <1>3, LookupSame
<1>5. Lookup(e3, g, a) = Lookup(e, g, a)
  BY <1>3, LookupSame
<1> QED BY <1>4, <1>5 DEF e2, e3

(* What a new entry changes for its own VLAN. *)
LEMMA NewLookup ==
  ASSUME NEW e, NEW g, NEW k \in McKeys, NEW gr, k \notin DOMAIN e, Unmixed(McPut(e, k, gr))
  PROVE  /\ Lookup(e, g, k[1]).type \in {"NONE", "FDB", "L2MC"}
         /\ Lookup(e, g, k[1]).type = "L2MC" => Lookup(McPut(e, k, gr), g, k[1]) = Lookup(e, g, k[1])
         /\ Lookup(e, g, k[1]).type # "L2MC" =>
              Lookup(McPut(e, k, gr), g, k[1]) = [type |-> KindType(k[2]), ports |-> g[gr].ports]
         /\ Lookup(e, g, k[1]).type = "NONE" => Lookup(e, g, k[1]).ports = {}
         /\ Lookup(e, g, k[1]).type = "FDB" => KindType(k[2]) = "L2MC" /\ k[2] # "fdb"
PROOF
<1> DEFINE v == k[1]
           e2 == McPut(e, k, gr)
<1>0. KindType("sg") = "L2MC" /\ KindType("xg") = "L2MC" /\ KindType("fdb") = "FDB"
  BY DEF KindType
<1>1. k = <<v, k[2]>> /\ (k[2] = "sg" \/ k[2] = "xg" \/ k[2] = "fdb")
  BY KeyFacts DEF McKinds
<1>2. /\ \A x : x \in DOMAIN e2 <=> x \in DOMAIN e \/ x = k
      /\ \A x \in DOMAIN e : e2[x] = e[x]
      /\ e2[k] = gr
  BY DEF McPut
<1>3. \A kind : <<v, kind>> = k <=> kind = k[2]
  BY <1>1
<1>4. ~(<<v, "sg">> \in DOMAIN e2 /\ <<v, "xg">> \in DOMAIN e2)
  BY DEF Unmixed
<1> HIDE DEF v, e2
<1>5. CASE <<v, "sg">> \in DOMAIN e
  <2>1. Lookup(e, g, v) = [type |-> "L2MC", ports |-> g[e[<<v, "sg">>]].ports]
    BY <1>5, LookupFinds
  <2>2. <<v, "sg">> \in DOMAIN e2 /\ e2[<<v, "sg">>] = e[<<v, "sg">>]
    BY <1>2, <1>5
  <2>3. Lookup(e2, g, v) = [type |-> "L2MC", ports |-> g[e[<<v, "sg">>]].ports]
    <3>1. Lookup(e2, g, v) = [type |-> "L2MC", ports |-> g[e2[<<v, "sg">>]].ports]
      BY <2>2, LookupFinds
    <3> QED BY <2>2, <3>1
  <2> QED BY <2>1, <2>3 DEF v, e2
<1>6. CASE <<v, "sg">> \notin DOMAIN e /\ <<v, "xg">> \in DOMAIN e
  <2>1. Lookup(e, g, v) = [type |-> "L2MC", ports |-> g[e[<<v, "xg">>]].ports]
    BY <1>6, LookupFinds
  <2>2. <<v, "xg">> \in DOMAIN e2 /\ e2[<<v, "xg">>] = e[<<v, "xg">>]
    BY <1>2, <1>6
  <2>3. Lookup(e2, g, v) = [type |-> "L2MC", ports |-> g[e[<<v, "xg">>]].ports]
    <3>1. Lookup(e2, g, v) = [type |-> "L2MC", ports |-> g[e2[<<v, "xg">>]].ports]
      BY <1>4, <2>2, LookupFinds
    <3> QED BY <2>2, <3>1
  <2> QED BY <2>1, <2>3 DEF v, e2
<1>7. CASE <<v, "sg">> \notin DOMAIN e /\ <<v, "xg">> \notin DOMAIN e
  <2>1. Lookup(e, g, v) = IF <<v, "fdb">> \in DOMAIN e
                          THEN [type |-> "FDB", ports |-> g[e[<<v, "fdb">>]].ports]
                          ELSE [type |-> "NONE", ports |-> {}]
    BY <1>7, LookupFinds
  <2>2. <<v, "fdb">> \in DOMAIN e => k[2] # "fdb"
    BY <1>1
  <2>3. Lookup(e2, g, v) = [type |-> KindType(k[2]), ports |-> g[gr].ports]
    <3>1. CASE k[2] = "sg"
      <4>1. <<v, "sg">> \in DOMAIN e2 /\ e2[<<v, "sg">>] = gr
        BY <1>2, <1>3, <3>1
      <4> QED BY <1>0, <3>1, <4>1, LookupFinds
    <3>2. CASE k[2] = "xg"
      <4>1. <<v, "sg">> \notin DOMAIN e2 /\ <<v, "xg">> \in DOMAIN e2 /\ e2[<<v, "xg">>] = gr
        BY <1>2, <1>3, <1>4, <3>2
      <4> QED BY <1>0, <3>2, <4>1, LookupFinds
    <3>3. CASE k[2] = "fdb"
      <4>1. /\ <<v, "sg">> \notin DOMAIN e2 /\ <<v, "xg">> \notin DOMAIN e2
            /\ <<v, "fdb">> \in DOMAIN e2 /\ e2[<<v, "fdb">>] = gr
        BY <1>2, <1>3, <1>7, <3>3
      <4> QED BY <1>0, <3>3, <4>1, LookupFinds
    <3> QED BY <1>1, <3>1, <3>2, <3>3
  <2>4. Lookup(e, g, v).type # "L2MC"
    BY <2>1
  <2>5. Lookup(e, g, v).type = "FDB" => KindType(k[2]) = "L2MC" /\ k[2] # "fdb"
    BY <1>0, <1>1, <2>1, <2>2
  <2>6. /\ Lookup(e, g, v).type \in {"NONE", "FDB", "L2MC"}
        /\ Lookup(e, g, v).type = "NONE" => Lookup(e, g, v).ports = {}
    BY <2>1
  <2> QED BY <2>3, <2>4, <2>5, <2>6 DEF v, e2
<1> QED BY <1>5, <1>6, <1>7

(* A new entry: what it binds, or takes over from the FDB. *)
LEMMA SyncAddStep ==
  ASSUME NEW e, NEW g, NEW out, NEW binds, NEW rp, NEW s, NEW k \in McKeys, NEW gr,
         k \notin DOMAIN e, Unmixed(McPut(e, k, gr)),
         IsState(s, McPut(e, k, gr), g, out, binds, rp), InStep(e, g, out, binds, rp),
         out \subseteq McVlans \cup McRifs, IsFiniteSet(out)
  PROVE  InStep(McPut(e, k, gr), g, out, SyncAdd(s, k).binds, SyncAdd(s, k).hw)
PROOF
<1> DEFINE v == k[1]
           e2 == McPut(e, k, gr)
           old == Lookup(e, g, v)
           new == Lookup(e2, g, v)
           type == TypeInHand(s, v)
           retyped == [i \in DOMAIN binds |->
                         IF binds[i].v = v THEN [binds[i] EXCEPT !.type = KindType(k[2])] ELSE binds[i]]
           others == out \ {v}
<1>1. /\ s.e = e2 /\ s.g = g /\ s.out = out /\ s.binds = binds /\ s.hw = rp
      /\ s = [e |-> e2, g |-> g, out |-> out, binds |-> binds, hw |-> rp]
  BY DEF IsState
<1>2. \A a : a # v => Lookup(e2, g, a) = Lookup(e, g, a)
  BY OtherLookup
<1>3. /\ old.type \in {"NONE", "FDB", "L2MC"}
      /\ old.type = "L2MC" => new = old
      /\ old.type # "L2MC" => new = [type |-> KindType(k[2]), ports |-> g[gr].ports]
      /\ old.type = "NONE" => old.ports = {}
      /\ old.type = "FDB" => KindType(k[2]) = "L2MC" /\ k[2] # "fdb"
  BY NewLookup
<1>4. v \in McVlans /\ e2[k] = gr
  BY KeyFacts DEF McPut
<1>5. BindsAre(binds, Bindings(e, g, out \cap McVlans)) /\ Replicates(e, g, out, rp)
  BY DEF InStep
<1> SUFFICES InStep(e2, g, out, SyncAdd(s, k).binds, SyncAdd(s, k).hw)
  OBVIOUS
<1> HIDE DEF v, old, new, type, e2
<1>6. CASE v \notin out
  <2>1. SyncAdd(s, k) = s
    BY <1>1, <1>6 DEF SyncAdd, v
  <2>2. \A a \in out \cap McVlans : Lookup(e2, g, a) = Lookup(e, g, a)
    BY <1>2, <1>6
  <2>3. InStep(e2, g, out, binds, rp)
    BY <2>2, OtherStep
  <2> QED BY <1>1, <2>1, <2>3
<1>7. CASE v \in out
  <2>1. type = old.type
    <3>1. BindsAre(s.binds, Bindings(e, g, out \cap McVlans)) /\ v \in out \cap McVlans
      BY <1>1, <1>4, <1>5, <1>7
    <3>2. TypeInHand(s, v) = Lookup(e, g, v).type
      BY <3>1, OwnInHand
    <3> QED BY <3>2 DEF type, old
  <2>2. CASE old.type = "L2MC"
    <3>1. SyncAdd(s, k) = s
      BY <2>1, <2>2 DEF SyncAdd, type, v
    <3>2. \A a \in out \cap McVlans : Lookup(e2, g, a) = Lookup(e, g, a)
      BY <1>2, <1>3, <2>2 DEF old, new
    <3>3. InStep(e2, g, out, binds, rp)
      BY <3>2, OtherStep
    <3> QED BY <1>1, <3>1, <3>3
  <2>3. BindsAre(retyped, Bindings(e2, g, out \cap McVlans))
        \/ old.type = "L2MC"
    <3>1. SUFFICES ASSUME old.type # "L2MC"
                   PROVE  BindsAre(retyped, Bindings(e2, g, out \cap McVlans))
      OBVIOUS
    <3>2. Lookup(e2, g, v).type = KindType(k[2])
      BY <1>3, <3>1 DEF new
    <3>3. \A a \in out \cap McVlans : a # v => Lookup(e2, g, a).type = Lookup(e, g, a).type
      BY <1>2
    <3> DEFINE t2 == Lookup(e2, g, v).type
               b2 == [i \in DOMAIN binds |->
                        IF binds[i].v = v THEN [binds[i] EXCEPT !.type = Lookup(e2, g, v).type] ELSE binds[i]]
    <3>4. BindsAre(b2, Bindings(e2, g, out \cap McVlans))
      BY <1>5, <3>3, RetypeLists
    <3>5. b2 = retyped
      BY <3>2
    <3> QED BY <3>4, <3>5
  <2>4. CASE old.type = "NONE"
    <3>1. SyncAdd(s, k).binds = retyped /\ SyncAdd(s, k).hw = rp \cup ({v} \X g[gr].ports)
      BY <1>1, <1>4, <1>7, <2>1, <2>4 DEF SyncAdd, type, v
    <3>2. Replicates(e2, g, out, rp \cup ({v} \X g[gr].ports))
      <4>1. v # 0
        BY <1>4, McastAssumption
      <4>2. new.ports = g[gr].ports
        BY <1>3, <2>4
      <4>3. old.ports = {}
        BY <1>3, <2>4
      <4> DEFINE more == {v} \X g[gr].ports
      <4>4. /\ \A x \in more : x = <<x[1], x[2]>>
            /\ \A a, b : <<a, b>> \in more <=> a = v /\ b \in g[gr].ports
        OBVIOUS
      <4> HIDE DEF more
      <4>5. ASSUME NEW a, NEW b
            PROVE  <<a, b>> \in rp \cup more <=>
                     \/ a = 0 /\ b \in out \cap McRifs
                     \/ a \in out \cap McVlans /\ b \in Lookup(e2, g, a).ports
        <5>1. <<a, b>> \in rp <=> \/ a = 0 /\ b \in out \cap McRifs
                                  \/ a \in out \cap McVlans /\ b \in Lookup(e, g, a).ports
          BY <1>5 DEF Replicates
        <5>2. CASE a = v
          BY <5>1, <5>2, <4>1, <4>2, <4>3, <4>4, <1>4, <1>7 DEF new, old
        <5>3. CASE a # v
          BY <5>1, <5>3, <4>4, <1>2
        <5> QED BY <5>2, <5>3
      <4>6. \A x \in rp \cup more : x = <<x[1], x[2]>>
        BY <1>5, <4>4 DEF Replicates
      <4>7. Replicates(e2, g, out, rp \cup more)
        BY <4>5, <4>6 DEF Replicates
      <4> QED BY <4>7 DEF more
    <3>3. InStep(e2, g, out, retyped, rp \cup ({v} \X g[gr].ports))
      BY <2>3, <2>4, <3>2 DEF InStep
    <3> QED BY <3>1, <3>3
  <2>5. CASE old.type = "FDB"
    <3> DEFINE left == Unbind(retyped, others)
               first == [e |-> e2, g |-> g, out |-> out, binds |-> left, hw |-> {v} \X g[gr].ports]
    <3>1. SyncAdd(s, k) = AddInterfaces(first, others)
      <4> DEFINE bound == [s EXCEPT !.binds = [i \in DOMAIN @ |->
                             IF @[i].v = k[1] THEN [@[i] EXCEPT !.type = KindType(k[2])] ELSE @[i]]]
                 more == {k[1]} \X s.g[s.e[k]].ports
                 rest == s.out \ {k[1]}
                 own == [bound EXCEPT !.hw = (IF type = "FDB" THEN {} ELSE @) \cup more]
                 last == [own EXCEPT !.binds = Unbind(@, rest)]
      <4>1. SyncAdd(s, k) = AddInterfaces(last, rest)
        BY <1>1, <1>3, <1>7, <2>1, <2>5 DEF SyncAdd, type, v
      <4>2. bound = [e |-> e2, g |-> g, out |-> out, binds |-> retyped, hw |-> rp]
        BY <1>1 DEF v
      <4>3. more = {v} \X g[gr].ports /\ rest = others
        BY <1>1, <1>4 DEF v
      <4> HIDE DEF bound, more, rest, retyped, others
      <4>4. own = [e |-> e2, g |-> g, out |-> out, binds |-> retyped, hw |-> {} \cup more]
        BY <2>1, <2>5, <4>2
      <4> HIDE DEF own
      <4>5. last = [e |-> e2, g |-> g, out |-> out, binds |-> Unbind(retyped, rest), hw |-> {} \cup more]
        BY <4>4
      <4>6. {} \cup more = more
        OBVIOUS
      <4> HIDE DEF last
      <4>7. last = first
        BY <4>3, <4>5, <4>6
      <4> HIDE DEF first
      <4> QED BY <4>1, <4>3, <4>7
    <3>2. BindsAre(left, {b \in Bindings(e2, g, out \cap McVlans) : b.v \notin others})
      <4>1. BindsAre(retyped, Bindings(e2, g, out \cap McVlans))
        BY <2>3, <2>5
      <4> DEFINE T == Bindings(e2, g, out \cap McVlans)
      <4> HIDE DEF retyped, others, T
      <4>2. BindsAre(Unbind(retyped, others), {b \in T : b.v \notin others})
        BY <4>1, UnbindLists, ZenonT(40) DEF T
      <4> QED BY <4>2 DEF left, T
    <3>3. {b \in Bindings(e2, g, out \cap McVlans) : b.v \notin others} = Bindings(e2, g, {v} \cap McVlans)
      <4>1. \A a : Bind(e2, g, a).v = a
        BY DEF Bind
      <4> QED BY <4>1, <1>4, <1>7 DEF Bindings, others
    <3>4. Replicates(e2, g, {v}, {v} \X g[gr].ports)
      <4>1. new.ports = g[gr].ports /\ v \notin McRifs
        BY <1>3, <1>4, <2>5, McastAssumption
      <4> QED BY <4>1, <1>4 DEF Replicates, new
    <3> HIDE DEF left, others
    <3>5. InStep(e2, g, {v}, left, {v} \X g[gr].ports)
      BY <3>2, <3>3, <3>4 DEF InStep
    <3>6. others \subseteq McVlans \cup McRifs /\ IsFiniteSet(others) /\ others \cap {v} = {} /\ {v} \cup others = out
      BY <1>7, FS_Subset DEF others
    <3> HIDE DEF first
    <3>7. InStep(e2, g, {v} \cup others, AddInterfaces(first, others).binds, AddInterfaces(first, others).hw)
      BY <3>5, <3>6, AddStep DEF first
    <3> QED BY <3>1, <3>6, <3>7
  <2> QED BY <1>3, <2>2, <2>4, <2>5
<1> QED BY <1>6, <1>7

-----------------------------------------------------------------------------
(* The entries once one was given another group. *)
Regroup(e, k, gr) == [e EXCEPT ![k] = gr]

(* What an entry means for the lookup of its VLAN, and what its removal *)
(* or another group changes. *)
LEMMA OwnLookup ==
  ASSUME NEW e, NEW g, NEW k \in DOMAIN e, k \in McKeys, Unmixed(e), NEW gr
  PROVE  /\ Lookup(e, g, k[1]).type = KindType(k[2]) =>
              /\ Lookup(e, g, k[1]).ports = g[e[k]].ports
              /\ Lookup(Regroup(e, k, gr), g, k[1]).ports = g[gr].ports
         /\ Lookup(e, g, k[1]).type # KindType(k[2]) =>
              /\ Lookup(McDrop(e, k), g, k[1]) = Lookup(e, g, k[1])
              /\ Lookup(Regroup(e, k, gr), g, k[1]) = Lookup(e, g, k[1])
         /\ Lookup(Regroup(e, k, gr), g, k[1]).type = Lookup(e, g, k[1]).type
PROOF
<1> DEFINE v == k[1]
           e2 == Regroup(e, k, gr)
           e3 == McDrop(e, k)
<1>0. KindType("sg") = "L2MC" /\ KindType("xg") = "L2MC" /\ KindType("fdb") = "FDB"
  BY DEF KindType
<1>1. k = <<v, k[2]>> /\ (k[2] = "sg" \/ k[2] = "xg" \/ k[2] = "fdb")
  BY KeyFacts DEF McKinds
<1>2. /\ DOMAIN e2 = DOMAIN e
      /\ \A x \in DOMAIN e : x # k => e2[x] = e[x]
      /\ e2[k] = gr
  BY DEF Regroup
<1>3. /\ \A x : x \in DOMAIN e3 <=> x \in DOMAIN e /\ x # k
      /\ \A x \in DOMAIN e : x # k => e3[x] = e[x]
  BY DEF McDrop
<1>4. \A kind : <<v, kind>> = k <=> kind = k[2]
  BY <1>1
<1>5. ~(<<v, "sg">> \in DOMAIN e /\ <<v, "xg">> \in DOMAIN e)
  BY DEF Unmixed
<1> SUFFICES /\ Lookup(e, g, v).type = KindType(k[2]) =>
                  /\ Lookup(e, g, v).ports = g[e[k]].ports
                  /\ Lookup(e2, g, v).ports = g[gr].ports
             /\ Lookup(e, g, v).type # KindType(k[2]) =>
                  /\ Lookup(e3, g, v) = Lookup(e, g, v)
                  /\ Lookup(e2, g, v) = Lookup(e, g, v)
             /\ Lookup(e2, g, v).type = Lookup(e, g, v).type
  OBVIOUS
<1> HIDE DEF v, e2, e3
<1>6. CASE k[2] = "sg"
  <2>1. <<v, "sg">> = k
    BY <1>1, <1>6
  <2>2. Lookup(e, g, v) = [type |-> "L2MC", ports |-> g[e[<<v, "sg">>]].ports]
    BY <2>1, LookupFinds
  <2>3. <<v, "sg">> \in DOMAIN e2
    BY <1>2, <2>1
  <2>4. Lookup(e2, g, v) = [type |-> "L2MC", ports |-> g[e2[<<v, "sg">>]].ports]
    BY <2>3, LookupFinds
  <2> QED BY <1>0, <1>2, <1>6, <2>1, <2>2, <2>4
<1>7. CASE k[2] = "xg"
  <2>1. <<v, "xg">> = k
    BY <1>1, <1>7
  <2>2. <<v, "sg">> \notin DOMAIN e /\ <<v, "xg">> \in DOMAIN e
    BY <1>5, <2>1
  <2>3. Lookup(e, g, v) = [type |-> "L2MC", ports |-> g[e[<<v, "xg">>]].ports]
    BY <2>2, LookupFinds
  <2>4. <<v, "sg">> \notin DOMAIN e2 /\ <<v, "xg">> \in DOMAIN e2
    BY <1>2, <2>2
  <2>5. Lookup(e2, g, v) = [type |-> "L2MC", ports |-> g[e2[<<v, "xg">>]].ports]
    BY <2>4, LookupFinds
  <2> QED BY <1>0, <1>2, <1>7, <2>1, <2>3, <2>5
<1>8. CASE k[2] = "fdb" /\ <<v, "sg">> \notin DOMAIN e /\ <<v, "xg">> \notin DOMAIN e
  <2>1. <<v, "fdb">> = k
    BY <1>1, <1>8
  <2>2. <<v, "fdb">> \in DOMAIN e
    BY <2>1
  <2>3. Lookup(e, g, v) = [type |-> "FDB", ports |-> g[e[<<v, "fdb">>]].ports]
    BY <1>8, <2>2, LookupFinds
  <2>4. <<v, "sg">> \notin DOMAIN e2 /\ <<v, "xg">> \notin DOMAIN e2 /\ <<v, "fdb">> \in DOMAIN e2
    BY <1>2, <1>8, <2>2
  <2>5. Lookup(e2, g, v) = [type |-> "FDB", ports |-> g[e2[<<v, "fdb">>]].ports]
    BY <2>4, LookupFinds
  <2> QED BY <1>0, <1>2, <1>8, <2>1, <2>3, <2>5
<1>9. CASE k[2] = "fdb" /\ <<v, "sg">> \in DOMAIN e
  <2>1. <<v, "sg">> # k
    BY <1>4, <1>9
  <2>2. Lookup(e, g, v) = [type |-> "L2MC", ports |-> g[e[<<v, "sg">>]].ports]
    BY <1>9, LookupFinds
  <2>3. <<v, "sg">> \in DOMAIN e2 /\ e2[<<v, "sg">>] = e[<<v, "sg">>]
    BY <1>2, <1>9, <2>1
  <2>4. <<v, "sg">> \in DOMAIN e3 /\ e3[<<v, "sg">>] = e[<<v, "sg">>]
    BY <1>3, <1>9, <2>1
  <2>5. Lookup(e2, g, v) = [type |-> "L2MC", ports |-> g[e2[<<v, "sg">>]].ports]
    BY <2>3, LookupFinds
  <2>6. Lookup(e3, g, v) = [type |-> "L2MC", ports |-> g[e3[<<v, "sg">>]].ports]
    BY <2>4, LookupFinds
  <2> QED BY <1>0, <1>9, <2>2, <2>3, <2>4, <2>5, <2>6
<1>10. CASE k[2] = "fdb" /\ <<v, "xg">> \in DOMAIN e
  <2>1. <<v, "xg">> # k
    BY <1>4, <1>10
  <2>2. <<v, "sg">> \notin DOMAIN e /\ <<v, "sg">> \notin DOMAIN e2 /\ <<v, "sg">> \notin DOMAIN e3
    BY <1>2, <1>3, <1>5, <1>10
  <2>3. Lookup(e, g, v) = [type |-> "L2MC", ports |-> g[e[<<v, "xg">>]].ports]
    BY <1>10, <2>2, LookupFinds
  <2>4. <<v, "xg">> \in DOMAIN e2 /\ e2[<<v, "xg">>] = e[<<v, "xg">>]
    BY <1>2, <1>10, <2>1
  <2>5. <<v, "xg">> \in DOMAIN e3 /\ e3[<<v, "xg">>] = e[<<v, "xg">>]
    BY <1>3, <1>10, <2>1
  <2>6. Lookup(e2, g, v) = [type |-> "L2MC", ports |-> g[e2[<<v, "xg">>]].ports]
    BY <2>2, <2>4, LookupFinds
  <2>7. Lookup(e3, g, v) = [type |-> "L2MC", ports |-> g[e3[<<v, "xg">>]].ports]
    BY <2>2, <2>5, LookupFinds
  <2> QED BY <1>0, <1>10, <2>3, <2>4, <2>5, <2>6, <2>7
<1> QED BY <1>1, <1>6, <1>7, <1>8, <1>9, <1>10

(* An entry that goes. *)
LEMMA SyncDeleteStep ==
  ASSUME NEW e, NEW g, NEW out, NEW binds, NEW rp, NEW s, NEW k \in DOMAIN e, k \in McKeys, Unmixed(e),
         IsState(s, e, g, out, binds, rp), InStep(e, g, out, binds, rp)
  PROVE  InStep(McDrop(e, k), g, out, SyncDelete(s, k).binds, SyncDelete(s, k).hw)
PROOF
<1> DEFINE v == k[1]
           e3 == McDrop(e, k)
           old == Lookup(e, g, v)
           type == TypeInHand(s, v)
<1>1. /\ s.e = e /\ s.g = g /\ s.out = out /\ s.binds = binds /\ s.hw = rp
      /\ s = [e |-> e, g |-> g, out |-> out, binds |-> binds, hw |-> rp]
  BY DEF IsState
<1>2. \A a : a # v => Lookup(e3, g, a) = Lookup(e, g, a)
  BY OtherLookup
<1>3. /\ old.type = KindType(k[2]) => old.ports = g[e[k]].ports
      /\ old.type # KindType(k[2]) => Lookup(e3, g, v) = old
  <2>1. /\ old.type = KindType(k[2]) => old.ports = g[e[k]].ports
        /\ old.type # KindType(k[2]) => Lookup(e3, g, v) = old
        /\ Lookup(Regroup(e, k, 0), g, v).type = old.type
    BY OwnLookup
  <2> QED BY <2>1
<1>4. v \in McVlans
  BY KeyFacts
<1>5. BindsAre(binds, Bindings(e, g, out \cap McVlans))
  BY DEF InStep
<1> SUFFICES InStep(e3, g, out, SyncDelete(s, k).binds, SyncDelete(s, k).hw)
  OBVIOUS
<1> HIDE DEF v, old, type, e3
<1>6. v \in out => type = old.type
  <2> SUFFICES ASSUME v \in out PROVE type = old.type
    OBVIOUS
  <2>1. BindsAre(s.binds, Bindings(e, g, out \cap McVlans)) /\ v \in out \cap McVlans
    BY <1>1, <1>4, <1>5
  <2>2. TypeInHand(s, v) = Lookup(e, g, v).type
    BY <2>1, OwnInHand
  <2> QED BY <2>2 DEF type, old
<1>7. CASE v \notin out \/ old.type # KindType(k[2])
  <2>1. SyncDelete(s, k) = s
    BY <1>1, <1>6, <1>7 DEF SyncDelete, v, type
  <2>2. \A a \in out \cap McVlans : Lookup(e3, g, a) = Lookup(e, g, a)
    BY <1>2, <1>3, <1>7 DEF old
  <2>3. InStep(e3, g, out, binds, rp)
    BY <2>2, OtherStep
  <2> QED BY <1>1, <2>1, <2>3
<1>8. CASE v \in out /\ old.type = KindType(k[2])
  <2> DEFINE left == Unbind(binds, {v})
             less == rp \ ({v} \X old.ports)
             gone == [e |-> e3, g |-> g, out |-> out, binds |-> left, hw |-> less]
             rest == out \ {v}
             is == {v}
  <2>1. SyncDelete(s, k) = AddInterfaces(gone, is)
    <3> DEFINE cut == {k[1]} \X s.g[s.e[k]].ports
               away == [s EXCEPT !.hw = @ \ cut, !.binds = Unbind(@, {k[1]}), !.e = McDrop(@, k)]
    <3>1. SyncDelete(s, k) = AddInterfaces(away, {k[1]})
      BY <1>1, <1>6, <1>8 DEF SyncDelete, v, type
    <3>2. cut = {v} \X old.ports /\ k[1] = v
      BY <1>1, <1>3, <1>8 DEF v
    <3> HIDE DEF cut
    <3>3. away = [e |-> e3, g |-> g, out |-> out, binds |-> Unbind(binds, {k[1]}), hw |-> rp \ cut]
      <4> DEFINE a1 == [s EXCEPT !.hw = @ \ cut]
                 a2 == [a1 EXCEPT !.binds = Unbind(@, {k[1]})]
      <4>1. a1 = [e |-> e, g |-> g, out |-> out, binds |-> binds, hw |-> rp \ cut]
        BY <1>1
      <4>2. away = [a2 EXCEPT !.e = McDrop(@, k)]
        OBVIOUS
      <4> HIDE DEF away, a1
      <4>3. a2 = [e |-> e, g |-> g, out |-> out, binds |-> Unbind(binds, {k[1]}), hw |-> rp \ cut]
        BY <4>1
      <4> HIDE DEF a2
      <4> QED BY <4>2, <4>3 DEF e3
    <3> HIDE DEF away
    <3> QED BY <3>1, <3>2, <3>3
  <2>2. InStep(e, g, rest, left, less)
    BY <1>4, RemStep DEF old
  <2> HIDE DEF left, less
  <2>3. \A a \in rest \cap McVlans : Lookup(e3, g, a) = Lookup(e, g, a)
    BY <1>2
  <2>4. is \subseteq McVlans \cup McRifs /\ IsFiniteSet(is) /\ is \cap rest = {} /\ rest \cup is = out
    BY <1>4, <1>8, FS_Singleton
  <2> HIDE DEF rest, is
  <2>5. InStep(e3, g, rest, left, less)
    BY <2>2, <2>3, OtherStep
  <2> HIDE DEF gone
  <2>6. InStep(e3, g, rest \cup is, AddInterfaces(gone, is).binds, AddInterfaces(gone, is).hw)
    BY <2>4, <2>5, AddStep DEF gone
  <2> QED BY <2>1, <2>4, <2>6
<1> QED BY <1>7, <1>8

(* An entry that is given another group. *)
LEMMA SyncUpdateStep ==
  ASSUME NEW e, NEW g, NEW out, NEW binds, NEW rp, NEW s, NEW k \in DOMAIN e, k \in McKeys, Unmixed(e),
         IsState(s, e, g, out, binds, rp), InStep(e, g, out, binds, rp), NEW gr
  PROVE  LET r == SyncUpdate(s, k, g[e[k]].ports, g[gr].ports)
         IN InStep(Regroup(e, k, gr), g, out, r.binds, r.hw)
PROOF
<1> DEFINE v == k[1]
           e2 == Regroup(e, k, gr)
           op == g[e[k]].ports
           np == g[gr].ports
           old == Lookup(e, g, v)
           new == Lookup(e2, g, v)
           type == TypeInHand(s, v)
           r == SyncUpdate(s, k, op, np)
<1>1. /\ s.e = e /\ s.g = g /\ s.out = out /\ s.binds = binds /\ s.hw = rp
      /\ s = [e |-> e, g |-> g, out |-> out, binds |-> binds, hw |-> rp]
  BY DEF IsState
<1>2. \A a : a # v => Lookup(e2, g, a) = Lookup(e, g, a)
  <2> SUFFICES ASSUME NEW a, a # v PROVE Lookup(e2, g, a) = Lookup(e, g, a)
    OBVIOUS
  <2>1. \A kind : <<a, kind>> # k
    OBVIOUS
  <2>2. \A kind \in McKinds : /\ <<a, kind>> \in DOMAIN e2 <=> <<a, kind>> \in DOMAIN e
                              /\ <<a, kind>> \in DOMAIN e => e2[<<a, kind>>] = e[<<a, kind>>]
    BY <2>1 DEF Regroup
  <2> HIDE DEF e2
  <2> QED BY <2>2, LookupSame
<1>3. /\ old.type = KindType(k[2]) => old.ports = op /\ new.ports = np
      /\ old.type # KindType(k[2]) => new = old
      /\ new.type = old.type
  BY OwnLookup
<1>4. v \in McVlans /\ v # 0
  BY KeyFacts
<1>5. BindsAre(binds, Bindings(e, g, out \cap McVlans)) /\ Replicates(e, g, out, rp)
  BY DEF InStep
<1> SUFFICES InStep(e2, g, out, r.binds, r.hw)
  OBVIOUS
<1> HIDE DEF v, old, new, type, e2, op, np
<1>6. v \in out => type = old.type
  <2> SUFFICES ASSUME v \in out PROVE type = old.type
    OBVIOUS
  <2>1. BindsAre(s.binds, Bindings(e, g, out \cap McVlans)) /\ v \in out \cap McVlans
    BY <1>1, <1>4, <1>5
  <2>2. TypeInHand(s, v) = Lookup(e, g, v).type
    BY <2>1, OwnInHand
  <2> QED BY <2>2 DEF type, old
<1>7. CASE v \notin out \/ old.type # KindType(k[2])
  <2>1. r = s
    BY <1>1, <1>6, <1>7 DEF SyncUpdate, v, type
  <2>2. \A a \in out \cap McVlans : Lookup(e2, g, a) = Lookup(e, g, a)
    BY <1>2, <1>3, <1>7 DEF old, new
  <2>3. InStep(e2, g, out, binds, rp)
    BY <2>2, OtherStep
  <2> HIDE DEF r
  <2> QED BY <1>1, <2>1, <2>3
<1>8. CASE v \in out /\ old.type = KindType(k[2])
  <2> DEFINE hw2 == (rp \ ({v} \X op)) \cup ({v} \X np)
  <2>1. r.binds = binds /\ r.hw = hw2
    BY <1>1, <1>6, <1>8 DEF SyncUpdate, v, type
  <2>2. Bindings(e2, g, out \cap McVlans) = Bindings(e, g, out \cap McVlans)
    <3>1. \A a : Lookup(e2, g, a).type = Lookup(e, g, a).type
      BY <1>2, <1>3 DEF old, new
    <3> QED BY <3>1 DEF Bindings, Bind
  <2>3. \A x \in hw2 : x = <<x[1], x[2]>>
    BY <1>5 DEF Replicates
  <2>4. \A a, b : <<a, b>> \in hw2 <=> \/ <<a, b>> \in rp /\ ~(a = v /\ b \in op)
                                       \/ a = v /\ b \in np
    OBVIOUS
  <2> HIDE DEF hw2, r
  <2>5. ASSUME NEW a, NEW b
        PROVE  <<a, b>> \in hw2 <=> \/ a = 0 /\ b \in out \cap McRifs
                                    \/ a \in out \cap McVlans /\ b \in Lookup(e2, g, a).ports
    <3>1. <<a, b>> \in rp <=> \/ a = 0 /\ b \in out \cap McRifs
                              \/ a \in out \cap McVlans /\ b \in Lookup(e, g, a).ports
      BY <1>5 DEF Replicates
    <3>2. CASE a = v
      BY <1>3, <1>4, <1>8, <2>4, <3>1, <3>2 DEF old, new
    <3>3. CASE a # v
      BY <1>2, <2>4, <3>1, <3>3
    <3> QED BY <3>2, <3>3
  <2>6. Replicates(e2, g, out, hw2)
    BY <2>3, <2>5 DEF Replicates
  <2>7. InStep(e2, g, out, binds, hw2)
    BY <1>5, <2>2, <2>6 DEF InStep
  <2> QED BY <2>1, <2>7
<1> QED BY <1>7, <1>8

(* An interface that leaves the group, and an entry without a group. *)
LEMMA DelStep ==
  ASSUME NEW e, NEW g, NEW out, NEW binds, NEW rp, NEW s, NEW i \in out, out \subseteq McVlans \cup McRifs,
         IsState(s, e, g, out, binds, rp), InStep(e, g, out, binds, rp)
  PROVE  InStep(e, g, out \ {i}, DelInterface(s, i).binds, DelInterface(s, i).hw)
PROOF
<1>1. /\ s.e = e /\ s.g = g /\ s.out = out /\ s.binds = binds /\ s.hw = rp
      /\ s = [e |-> e, g |-> g, out |-> out, binds |-> binds, hw |-> rp]
  BY DEF IsState
<1>2. BindsAre(binds, Bindings(e, g, out \cap McVlans)) /\ Replicates(e, g, out, rp)
  BY DEF InStep
<1>3. CASE i \in McRifs
  <2>1. i \notin McVlans
    BY <1>3, McastAssumption
  <2>2. DelInterface(s, i).binds = binds /\ DelInterface(s, i).hw = rp \ {<<0, i>>}
    BY <1>1, <1>3 DEF DelInterface
  <2>3. (out \ {i}) \cap McVlans = out \cap McVlans
    BY <2>1
  <2>4. \A a \in McVlans : a # 0
    BY McastAssumption
  <2>5. Replicates(e, g, out \ {i}, rp \ {<<0, i>>})
    BY <1>2, <1>3, <2>1, <2>4 DEF Replicates
  <2>6. InStep(e, g, out \ {i}, binds, rp \ {<<0, i>>})
    BY <1>2, <2>3, <2>5 DEF InStep
  <2> QED BY <2>2, <2>6
<1>4. CASE i \notin McRifs
  <2>1. i \in McVlans
    BY <1>4
  <2>2. BoundVlans(s) = out \cap McVlans
    <3>1. {binds[n].v : n \in DOMAIN binds} = out \cap McVlans
      BY <1>2, BoundAre
    <3> QED BY <1>1, <3>1 DEF BoundVlans
  <2> DEFINE cut == {i} \X Lookup(e, g, i).ports
  <2>3. DelInterface(s, i).binds = Unbind(binds, {i}) /\ DelInterface(s, i).hw = rp \ cut
    BY <1>1, <1>4, <2>1, <2>2 DEF DelInterface
  <2>4. InStep(e, g, out \ {i}, Unbind(binds, {i}), rp \ cut)
    BY <2>1, RemStep
  <2> HIDE DEF cut
  <2> QED BY <2>3, <2>4
<1> QED BY <1>3, <1>4

(* A group without interfaces has no bindings and no replication. *)
LEMMA EmptyStep == \A e, g : InStep(e, g, {}, << >>, {})
PROOF
<1> TAKE e, g
<1>1. Bindings(e, g, {} \cap McVlans) = {}
  BY DEF Bindings
<1>2. BindsAre(<< >>, {})
  BY DEF BindsAre
<1>3. Replicates(e, g, {}, {})
  BY DEF Replicates
<1> QED BY <1>1, <1>2, <1>3 DEF InStep

-----------------------------------------------------------------------------
(* Multicast: the invariant *)
(* Every L2 entry names a group that exists; the groups of the IPMC entry *)
(* are sets of interfaces, and an entry that does not exist has no group. *)
L2Typed ==
  /\ mcG \in [DOMAIN mcG -> [ports : SUBSET McPorts, entries : SUBSET McKeys]]
  /\ DOMAIN mcHw = DOMAIN mcE /\ DOMAIN mcE \subseteq McKeys
  /\ \A k \in DOMAIN mcE : mcE[k] \in DOMAIN mcG
IpTyped ==
  /\ DOMAIN mcI \subseteq McIpGroups
  /\ \A h \in DOMAIN mcI : mcI[h] \subseteq McVlans \cup McRifs /\ IsFiniteSet(mcI[h])
  /\ mcIp = [on |-> mcIp.on, grp |-> mcIp.grp, binds |-> mcIp.binds] /\ mcIp.on \in BOOLEAN
  /\ mcIp.grp \in DOMAIN mcI \cup {0} /\ (~mcIp.on => mcIp.grp = 0)

(* The interfaces of the group of the IPMC entry. *)
McOut == IF mcIp.grp \in DOMAIN mcI THEN mcI[mcIp.grp] ELSE {}

(* The replication and the bindings of the IPMC entry are those of the *)
(* lookups, for an entry that exists or not, unless a VLAN was mixed. *)
IpKept == ~mcMixed => Unmixed(mcE) /\ InStep(mcE, mcG, McOut, mcIp.binds, mcIpHw)
McInv ==
  /\ mcBroken \in BOOLEAN
  /\ ~mcBroken => L2Typed /\ L2Follows /\ IpTyped /\ IpKept

(* It gives exactness. *)
LEMMA McGives == McInv => McastExact
PROOF
<1> SUFFICES ASSUME McInv, ~mcBroken, mcIp.on, ~mcMixed
             PROVE  LET vlans == McOut \cap McVlans
                    IN /\ mcIpHw = {<<0, i>> : i \in McOut \cap McRifs} \cup
                                   UNION {{v} \X Lookup(mcE, mcG, v).ports : v \in vlans}
                       /\ Len(mcIp.binds) = Cardinality(vlans)
                       /\ ToSet(mcIp.binds) = {[v |-> v, type |-> Lookup(mcE, mcG, v).type] : v \in vlans}
  BY DEF McInv, McastExact, IpFollows, McState, McOut
<1> DEFINE vlans == McOut \cap McVlans
<1>1. /\ BindsAre(mcIp.binds, Bindings(mcE, mcG, vlans)) /\ Replicates(mcE, mcG, McOut, mcIpHw)
  BY DEF McInv, IpKept, InStep
<1>2. IsFiniteSet(vlans)
  <2>1. IsFiniteSet(McOut)
    BY FS_EmptySet DEF McInv, IpTyped, McOut
  <2> QED BY <2>1, FS_Subset
<1>3. Len(mcIp.binds) = Cardinality(vlans)
  <2> HIDE DEF vlans
  <2> QED BY <1>1, <1>2, BindingsCount
<1>4. ToSet(mcIp.binds) = {[v |-> v, type |-> Lookup(mcE, mcG, v).type] : v \in vlans}
  <2>1. ToSet(mcIp.binds) = Bindings(mcE, mcG, vlans)
    BY <1>1 DEF BindsAre, ToSet
  <2> QED BY <2>1 DEF Bindings, Bind
<1>5. mcIpHw = {<<0, i>> : i \in McOut \cap McRifs} \cup
               UNION {{v} \X Lookup(mcE, mcG, v).ports : v \in vlans}
  <2> DEFINE R == {<<0, i>> : i \in McOut \cap McRifs} \cup
                  UNION {{v} \X Lookup(mcE, mcG, v).ports : v \in vlans}
  <2>1. /\ \A x \in R : x = <<x[1], x[2]>>
        /\ \A a, b : <<a, b>> \in R <=> \/ a = 0 /\ b \in McOut \cap McRifs
                                        \/ a \in McOut \cap McVlans /\ b \in Lookup(mcE, mcG, a).ports
    OBVIOUS
  <2> HIDE DEF R
  <2>2. mcIpHw = R
    BY <1>1, <2>1 DEF Replicates
  <2> QED BY <2>2 DEF R
<1> QED BY <1>3, <1>4, <1>5

(* What Synced writes; an IPMC entry without a group is in step with any *)
(* entries. *)
LEMMA SyncedKeeps ==
  ASSUME IpTyped, NEW b, NEW w, UNCHANGED mcI,
         IF mcIp.on /\ mcIp.grp # 0 THEN mcIp' = [mcIp EXCEPT !.binds = b] /\ mcIpHw' = w
         ELSE UNCHANGED <<mcIp, mcIpHw>>,
         ~mcMixed' => /\ ~mcMixed /\ Unmixed(mcE') /\ InStep(mcE, mcG, McOut, mcIp.binds, mcIpHw)
                      /\ InStep(mcE', mcG', McOut, b, w)
  PROVE  IpTyped' /\ IpKept'
PROOF
<1>1. mcIp'.on = mcIp.on /\ mcIp'.grp = mcIp.grp /\ mcIp' = [on |-> mcIp'.on, grp |-> mcIp'.grp, binds |-> mcIp'.binds]
  BY DEF IpTyped
<1>2. IpTyped' /\ McOut' = McOut
  BY <1>1 DEF IpTyped, McOut
<1>3. ASSUME ~mcMixed'
      PROVE  InStep(mcE', mcG', McOut, mcIp'.binds, mcIpHw')
  <2>1. CASE mcIp.on /\ mcIp.grp # 0
    <3>1. mcIp'.binds = b /\ mcIpHw' = w
      BY <2>1 DEF IpTyped
    <3> QED BY <1>3, <3>1
  <2>2. CASE ~(mcIp.on /\ mcIp.grp # 0)
    <3>1. McOut = {}
      BY <2>2, McastAssumption DEF IpTyped, McOut
    <3>2. \A v \in McOut \cap McVlans : Lookup(mcE', mcG', v) = Lookup(mcE, mcG, v)
      BY <3>1
    <3>3. InStep(mcE', mcG', McOut, mcIp.binds, mcIpHw)
      BY <1>3, <3>2, OtherStep
    <3> QED BY <2>2, <3>3
  <2> QED BY <2>1, <2>2
<1> QED BY <1>2, <1>3 DEF IpKept

(* What the operations of layer 2 hand to sync_output_id. *)
LEMMA McStateIs == IsState(McState, mcE, mcG, McOut, mcIp.binds, mcIpHw)
BY DEF IsState, McState, McOut

-----------------------------------------------------------------------------
(* Multicast: the operations on groups of bridge ports keep the invariant. *)
LEMMA GroupStep ==
  ASSUME L2Typed, IpTyped, IpKept, UNCHANGED <<mcE, mcI, mcIp, mcIpHw, mcMixed>>,
         \A k \in DOMAIN mcE : mcG'[mcE[k]].ports = mcG[mcE[k]].ports
  PROVE  IpTyped' /\ IpKept'
PROOF
<1>1. IpTyped' /\ McOut' = McOut
  BY DEF IpTyped, McOut
<1>2. ASSUME ~mcMixed
      PROVE  InStep(mcE', mcG', McOut, mcIp'.binds, mcIpHw')
  <2>1. \A v : \A kind \in McKinds : <<v, kind>> \in DOMAIN mcE =>
          mcG'[mcE[<<v, kind>>]].ports = mcG[mcE[<<v, kind>>]].ports
    OBVIOUS
  <2>2. \A v : Lookup(mcE, mcG', v) = Lookup(mcE, mcG, v)
    BY <2>1, LookupSame
  <2>3. InStep(mcE, mcG', McOut, mcIp.binds, mcIpHw)
    BY <1>2, <2>2, OtherStep DEF IpKept
  <2> QED BY <2>3
<1> QED BY <1>1, <1>2 DEF IpKept

(* create_l2mc_group and remove_l2mc_group. *)
LEMMA GroupsKeep ==
  ASSUME McInv, ~mcBroken, NEW g \in McGroups, CreateL2mcGroup(g) \/ RemoveL2mcGroup(g)
  PROVE  McInv'
PROOF
<1>1. L2Typed /\ L2Follows /\ IpTyped /\ IpKept
  BY DEF McInv
<1>2. CASE CreateL2mcGroup(g)
  <2>1. /\ UNCHANGED <<mcE, mcHw, mcI, mcIp, mcIpHw, mcMixed, mcBroken>> /\ g \notin DOMAIN mcG
        /\ DOMAIN mcG' = DOMAIN mcG \cup {g}
        /\ mcG' = [x \in DOMAIN mcG \cup {g} |-> IF x = g THEN [ports |-> {}, entries |-> {}] ELSE mcG[x]]
    BY <1>2 DEF CreateL2mcGroup, McPut
  <2>2. \A k \in DOMAIN mcE : mcG'[mcE[k]] = mcG[mcE[k]]
    BY <1>1, <2>1 DEF L2Typed
  <2>3. L2Typed'
    BY <1>1, <2>1 DEF L2Typed
  <2>4. L2Follows'
    <3>1. \A k \in DOMAIN mcE : mcHw[k] = mcG'[mcE[k]].ports
      BY <1>1, <2>2 DEF L2Follows
    <3>2. \A x \in DOMAIN mcG' : mcG'[x].entries = {k \in DOMAIN mcE : mcE[k] = x}
      <4> SUFFICES ASSUME NEW x \in DOMAIN mcG' PROVE mcG'[x].entries = {k \in DOMAIN mcE : mcE[k] = x}
        OBVIOUS
      <4>1. CASE x = g
        BY <1>1, <2>1, <4>1 DEF L2Typed
      <4>2. CASE x # g
        <5>1. x \in DOMAIN mcG /\ mcG'[x] = mcG[x]
          BY <2>1, <4>2
        <5> QED BY <1>1, <5>1 DEF L2Follows
      <4> QED BY <4>1, <4>2
    <3> QED BY <2>1, <3>1, <3>2 DEF L2Follows
  <2>5. IpTyped' /\ IpKept'
    BY <1>1, <2>1, <2>2, GroupStep
  <2>6. mcBroken' \in BOOLEAN
    BY <2>1 DEF McInv
  <2> QED BY <2>3, <2>4, <2>5, <2>6 DEF McInv
<1>3. CASE RemoveL2mcGroup(g)
  <2>1. /\ UNCHANGED <<mcE, mcHw, mcI, mcIp, mcIpHw, mcMixed>>
        /\ mcG' = [x \in DOMAIN mcG \ {g} |-> mcG[x]]
        /\ mcBroken' = \E k \in DOMAIN mcE : mcE[k] = g
    BY <1>3 DEF RemoveL2mcGroup, McDrop
  <2>2. mcBroken' \in BOOLEAN
    BY <2>1
  <2>3. CASE mcBroken'
    BY <2>2, <2>3 DEF McInv
  <2>4. CASE ~mcBroken'
    <3>1. \A k \in DOMAIN mcE : mcE[k] # g /\ mcE[k] \in DOMAIN mcG' /\ mcG'[mcE[k]] = mcG[mcE[k]]
      BY <1>1, <2>1, <2>4 DEF L2Typed
    <3>2. L2Typed'
      BY <1>1, <2>1, <3>1 DEF L2Typed
    <3>3. \A x \in DOMAIN mcG' : x \in DOMAIN mcG /\ mcG'[x] = mcG[x]
      BY <2>1
    <3>4. L2Follows'
      BY <1>1, <2>1, <3>1, <3>3 DEF L2Follows
    <3>5. IpTyped' /\ IpKept'
      BY <1>1, <2>1, <3>1, GroupStep
    <3> QED BY <2>2, <3>2, <3>4, <3>5 DEF McInv
  <2> QED BY <2>3, <2>4
<1> QED BY <1>2, <1>3

(* create_l2mc_group_member and remove_l2mc_group_member. *)
LEMMA MembersKeep ==
  ASSUME McInv, ~mcBroken, NEW g \in McGroups, NEW p \in McPorts,
         CreateL2mcMember(g, p) \/ RemoveL2mcMember(g, p)
  PROVE  McInv'
PROOF
<1>1. L2Typed /\ L2Follows /\ IpTyped /\ IpKept
  BY DEF McInv
<1>2. ASSUME NEW add \in BOOLEAN, g \in DOMAIN mcG, UNCHANGED <<mcE, mcI, mcMixed, mcBroken>>,
             NEW ps, ps = IF add THEN mcG[g].ports \cup {p} ELSE mcG[g].ports \ {p},
             mcG' = [mcG EXCEPT ![g].ports = ps],
             DOMAIN mcHw' = DOMAIN mcHw,
             \A k \in DOMAIN mcHw : mcHw'[k] = IF k \notin mcG[g].entries THEN mcHw[k]
                                               ELSE IF add THEN mcHw[k] \cup {p} ELSE mcHw[k] \ {p},
             Synced(SyncMember(McState, mcG[g].entries, p, add))
      PROVE  McInv'
  <2>1. /\ DOMAIN mcG' = DOMAIN mcG
        /\ \A x \in DOMAIN mcG : mcG'[x] = IF x = g THEN [ports |-> ps, entries |-> mcG[g].entries] ELSE mcG[x]
    <3>1. mcG[g] = [ports |-> mcG[g].ports, entries |-> mcG[g].entries]
      BY <1>1, <1>2 DEF L2Typed
    <3>2. mcG' = [mcG EXCEPT ![g].ports = ps] /\ g \in DOMAIN mcG
      BY <1>2
    <3>3. [mcG[g] EXCEPT !.ports = ps] = [ports |-> ps, entries |-> mcG[g].entries]
      BY <3>1
    <3> QED BY <3>2, <3>3
  <2>2. ps \in SUBSET McPorts
    BY <1>1, <1>2 DEF L2Typed
  <2>3. mcG' = [x \in DOMAIN mcG |-> IF x = g THEN [ports |-> ps, entries |-> mcG[g].entries] ELSE mcG[x]]
    <3>1. mcG' = [mcG EXCEPT ![g].ports = ps]
      BY <1>2
    <3>2. mcG' = [x \in DOMAIN mcG |-> mcG'[x]]
      BY <3>1
    <3> QED BY <2>1, <3>2
  <2>4. L2Typed'
    BY <1>1, <1>2, <2>1, <2>2, <2>3 DEF L2Typed
  <2>5. \A k : k \in mcG[g].entries <=> k \in DOMAIN mcE /\ mcE[k] = g
    BY <1>1, <1>2 DEF L2Follows
  <2>6. \A k \in DOMAIN mcE : mcG'[mcE[k]].ports = IF mcE[k] # g THEN mcG[mcE[k]].ports
                                                  ELSE IF add THEN mcG[g].ports \cup {p} ELSE mcG[g].ports \ {p}
    BY <1>1, <1>2, <2>1 DEF L2Typed
  <2>7. L2Follows'
    <3>1. \A k \in DOMAIN mcE : mcHw'[k] = mcG'[mcE[k]].ports
      BY <1>1, <1>2, <2>5, <2>6 DEF L2Follows, L2Typed
    <3>2. \A x \in DOMAIN mcG' : mcG'[x].entries = {k \in DOMAIN mcE : mcE[k] = x}
      <4>1. \A x \in DOMAIN mcG : mcG'[x].entries = mcG[x].entries
        BY <2>1
      <4> QED BY <1>1, <2>1, <4>1 DEF L2Follows
    <3> QED BY <1>2, <3>1, <3>2 DEF L2Follows
  <2> DEFINE r == SyncMember(McState, mcG[g].entries, p, add)
  <2>8. PICK b, w : b = r.binds /\ w = r.hw
    OBVIOUS
  <2>9. IF mcIp.on /\ mcIp.grp # 0 THEN mcIp' = [mcIp EXCEPT !.binds = b] /\ mcIpHw' = w
        ELSE UNCHANGED <<mcIp, mcIpHw>>
    <3>1. Synced(r)
      BY <1>2
    <3> HIDE DEF r
    <3> QED BY <2>8, <3>1 DEF Synced
  <2>10. ASSUME ~mcMixed'
         PROVE  /\ ~mcMixed /\ Unmixed(mcE') /\ InStep(mcE, mcG, McOut, mcIp.binds, mcIpHw)
                /\ InStep(mcE', mcG', McOut, b, w)
    <3>1. Unmixed(mcE) /\ InStep(mcE, mcG, McOut, mcIp.binds, mcIpHw)
      BY <1>1, <1>2, <2>10 DEF IpKept
    <3>2. InStep(mcE, mcG', McOut, r.binds, r.hw)
      <4>1. IsState(McState, mcE, mcG, McOut, mcIp.binds, mcIpHw) /\ DOMAIN mcE \subseteq McKeys
        BY <1>1, McStateIs DEF L2Typed
      <4> DEFINE ks == mcG[g].entries
      <4>2. AreEntries(ks, mcE, g) /\ PortsAre(mcE, mcG, mcG', g, p, add)
        BY <2>5, <2>6 DEF AreEntries, PortsAre
      <4> HIDE DEF ks
      <4>3. InStep(mcE, mcG', McOut, SyncMember(McState, ks, p, add).binds, SyncMember(McState, ks, p, add).hw)
        BY <3>1, <4>1, <4>2, MemberStep
      <4> QED BY <4>3 DEF ks
    <3> QED BY <1>2, <2>8, <2>10, <3>1, <3>2
  <2>11. IpTyped' /\ IpKept'
    BY <1>1, <1>2, <2>9, <2>10, SyncedKeeps
  <2> QED BY <1>2, <2>4, <2>7, <2>11 DEF McInv
<1>3. CASE CreateL2mcMember(g, p)
  <2>1. /\ g \in DOMAIN mcG /\ UNCHANGED <<mcE, mcI, mcMixed, mcBroken>>
        /\ mcG' = [mcG EXCEPT ![g].ports = mcG[g].ports \cup {p}]
        /\ DOMAIN mcHw' = DOMAIN mcHw
        /\ \A k \in DOMAIN mcHw : mcHw'[k] = IF k \notin mcG[g].entries THEN mcHw[k] ELSE mcHw[k] \cup {p}
        /\ Synced(SyncMember(McState, mcG[g].entries, p, TRUE))
    BY <1>3 DEF CreateL2mcMember
  <2> QED BY <1>2, <2>1
<1>4. CASE RemoveL2mcMember(g, p)
  <2>1. /\ g \in DOMAIN mcG /\ UNCHANGED <<mcE, mcI, mcMixed, mcBroken>>
        /\ mcG' = [mcG EXCEPT ![g].ports = mcG[g].ports \ {p}]
        /\ DOMAIN mcHw' = DOMAIN mcHw
        /\ \A k \in DOMAIN mcHw : mcHw'[k] = IF k \notin mcG[g].entries THEN mcHw[k] ELSE mcHw[k] \ {p}
        /\ Synced(SyncMember(McState, mcG[g].entries, p, FALSE))
    BY <1>4 DEF RemoveL2mcMember
  <2> QED BY <1>2, <2>1
<1> QED BY <1>3, <1>4

-----------------------------------------------------------------------------
(* Multicast: the operations on the entries of layer 2 keep the invariant. *)
(* Ports that stay the same leave every lookup the same. *)
LEMMA SamePorts ==
  ASSUME NEW e, NEW g, NEW g2, NEW out, NEW binds, NEW rp, InStep(e, g, out, binds, rp),
         \A k \in DOMAIN e : g2[e[k]].ports = g[e[k]].ports
  PROVE  InStep(e, g2, out, binds, rp)
PROOF
<1>1. \A v : \A kind \in McKinds : <<v, kind>> \in DOMAIN e =>
        g2[e[<<v, kind>>]].ports = g[e[<<v, kind>>]].ports
  OBVIOUS
<1>2. \A v : Lookup(e, g2, v) = Lookup(e, g, v)
  BY <1>1, LookupSame
<1> QED BY <1>2, OtherStep

(* What Synced writes, named. *)
SyncedTo(b, w) ==
  IF mcIp.on /\ mcIp.grp # 0 THEN mcIp' = [mcIp EXCEPT !.binds = b] /\ mcIpHw' = w
  ELSE UNCHANGED <<mcIp, mcIpHw>>

(* create_l2mc_entry and create_mcast_fdb_entry. *)
LEMMA CreateEntryKeeps ==
  ASSUME McInv, ~mcBroken, NEW k \in McKeys, NEW g \in McGroups, CreateL2Entry(k, g)
  PROVE  McInv'
PROOF
<1>1. L2Typed /\ L2Follows /\ IpTyped /\ IpKept
  BY DEF McInv
<1>2. /\ k \notin DOMAIN mcE /\ g \in DOMAIN mcG
      /\ mcE' = McPut(mcE, k, g) /\ mcHw' = McPut(mcHw, k, mcG[g].ports)
      /\ mcG' = [mcG EXCEPT ![g].entries = mcG[g].entries \cup {k}]
      /\ mcMixed' = (mcMixed \/ {<<k[1], "sg">>, <<k[1], "xg">>} \subseteq DOMAIN mcE')
      /\ UNCHANGED <<mcI, mcBroken>>
  BY DEF CreateL2Entry
<1>3. /\ DOMAIN mcE' = DOMAIN mcE \cup {k} /\ mcE'[k] = g
      /\ \A x \in DOMAIN mcE : mcE'[x] = mcE[x]
      /\ DOMAIN mcHw' = DOMAIN mcHw \cup {k} /\ mcHw'[k] = mcG[g].ports
      /\ \A x \in DOMAIN mcHw : x # k => mcHw'[x] = mcHw[x]
  BY <1>2 DEF McPut
<1>4. /\ DOMAIN mcG' = DOMAIN mcG
      /\ mcG' = [x \in DOMAIN mcG |-> mcG'[x]]
      /\ \A x \in DOMAIN mcG : x # g => mcG'[x] = mcG[x]
      /\ mcG'[g] = [ports |-> mcG[g].ports, entries |-> mcG[g].entries \cup {k}]
  <2>1. mcG[g] = [ports |-> mcG[g].ports, entries |-> mcG[g].entries]
    BY <1>1, <1>2 DEF L2Typed
  <2>2. mcG'[g] = [mcG[g] EXCEPT !.entries = mcG[g].entries \cup {k}]
    BY <1>2
  <2>3. mcG'[g] = [ports |-> mcG[g].ports, entries |-> mcG[g].entries \cup {k}]
    BY <2>1, <2>2
  <2> QED BY <1>2, <2>3
<1>5. L2Typed'
  <2>1. mcG'[g] \in [ports : SUBSET McPorts, entries : SUBSET McKeys]
    BY <1>1, <1>2, <1>4 DEF L2Typed
  <2>2. mcG' \in [DOMAIN mcG' -> [ports : SUBSET McPorts, entries : SUBSET McKeys]]
    BY <1>1, <1>4, <2>1 DEF L2Typed
  <2> QED BY <1>1, <1>2, <1>3, <1>4, <2>2 DEF L2Typed
<1>6. \A x \in DOMAIN mcG : mcG'[x].ports = mcG[x].ports
  BY <1>4
<1>7. L2Follows'
  <2>1. ASSUME NEW x \in DOMAIN mcE' PROVE mcHw'[x] = mcG'[mcE'[x]].ports
    <3>1. CASE x = k
      BY <1>2, <1>3, <1>6, <3>1
    <3>2. CASE x # k
      <4>1. x \in DOMAIN mcE /\ x \in DOMAIN mcHw /\ mcE[x] \in DOMAIN mcG /\ mcHw[x] = mcG[mcE[x]].ports
        BY <1>1, <1>3, <2>1, <3>2 DEF L2Typed, L2Follows
      <4> QED BY <1>3, <1>6, <3>2, <4>1
    <3> QED BY <3>1, <3>2
  <2>2. ASSUME NEW h \in DOMAIN mcG' PROVE mcG'[h].entries = {x \in DOMAIN mcE' : mcE'[x] = h}
    <3>1. mcG[h].entries = {x \in DOMAIN mcE : mcE[x] = h}
      BY <1>1, <1>4, <2>2 DEF L2Follows
    <3>2. mcG'[h].entries = IF h = g THEN mcG[g].entries \cup {k} ELSE mcG[h].entries
      BY <1>4, <2>2
    <3> QED BY <1>2, <1>3, <3>1, <3>2
  <2> QED BY <2>1, <2>2 DEF L2Follows
<1> DEFINE s == [McState EXCEPT !.e = mcE']
           r == SyncAdd(s, k)
<1>8. PICK b, w : b = r.binds /\ w = r.hw
  OBVIOUS
<1>9. SyncedTo(b, w)
  <2>1. Synced(r)
    BY DEF CreateL2Entry
  <2> HIDE DEF r
  <2> QED BY <1>8, <2>1 DEF Synced, SyncedTo
<1>10. ASSUME ~mcMixed'
       PROVE  /\ ~mcMixed /\ Unmixed(mcE') /\ InStep(mcE, mcG, McOut, mcIp.binds, mcIpHw)
              /\ InStep(mcE', mcG', McOut, b, w)
  <2>1. ~mcMixed /\ Unmixed(mcE) /\ InStep(mcE, mcG, McOut, mcIp.binds, mcIpHw)
    BY <1>1, <1>2, <1>10 DEF IpKept
  <2>2. Unmixed(mcE')
    <3>1. ~(<<k[1], "sg">> \in DOMAIN mcE' /\ <<k[1], "xg">> \in DOMAIN mcE')
      BY <1>2, <1>10
    <3>2. \A v : v # k[1] => \A kind : <<v, kind>> \in DOMAIN mcE' => <<v, kind>> \in DOMAIN mcE
      BY <1>3
    <3>3. \A v : v # k[1] => ~(<<v, "sg">> \in DOMAIN mcE' /\ <<v, "xg">> \in DOMAIN mcE')
      BY <2>1, <3>2 DEF Unmixed
    <3> QED BY <3>1, <3>3 DEF Unmixed
  <2>3. IsState(s, mcE', mcG, McOut, mcIp.binds, mcIpHw)
    BY McStateIs DEF IsState
  <2>4. McOut \subseteq McVlans \cup McRifs /\ IsFiniteSet(McOut)
    BY <1>1, FS_EmptySet DEF IpTyped, McOut
  <2>5. InStep(McPut(mcE, k, g), mcG, McOut, r.binds, r.hw)
    <3>1. Unmixed(McPut(mcE, k, g)) /\ IsState(s, McPut(mcE, k, g), mcG, McOut, mcIp.binds, mcIpHw)
      BY <1>2, <2>2, <2>3
    <3> HIDE DEF s
    <3> QED BY <1>2, <2>1, <2>4, <3>1, SyncAddStep
  <2>6. InStep(mcE', mcG, McOut, b, w)
    BY <1>2, <1>8, <2>5
  <2>7. \A x \in DOMAIN mcE' : mcG'[mcE'[x]].ports = mcG[mcE'[x]].ports
    BY <1>4, <1>5, <1>6 DEF L2Typed
  <2>8. InStep(mcE', mcG', McOut, b, w)
    BY <2>6, <2>7, SamePorts
  <2> QED BY <2>1, <2>2, <2>8
<1>11. IpTyped' /\ IpKept'
  <2> HIDE DEF r, s
  <2> QED BY <1>1, <1>2, <1>9, <1>10, SyncedKeeps DEF SyncedTo
<1> QED BY <1>2, <1>5, <1>7, <1>11 DEF McInv

(* remove_l2mc_entry and remove_mcast_fdb_entry. *)
LEMMA RemoveEntryKeeps ==
  ASSUME McInv, ~mcBroken, NEW k \in McKeys, RemoveL2Entry(k)
  PROVE  McInv'
PROOF
<1>1. L2Typed /\ L2Follows /\ IpTyped /\ IpKept
  BY DEF McInv
<1> DEFINE g == mcE[k]
<1>2. /\ k \in DOMAIN mcE /\ g \in DOMAIN mcG
      /\ mcE' = McDrop(mcE, k) /\ mcHw' = McDrop(mcHw, k)
      /\ mcG' = [mcG EXCEPT ![g].entries = mcG[g].entries \ {k}]
      /\ UNCHANGED <<mcI, mcMixed, mcBroken>>
  BY DEF RemoveL2Entry
<1>3. /\ DOMAIN mcE' = DOMAIN mcE \ {k} /\ \A x \in DOMAIN mcE : x # k => mcE'[x] = mcE[x]
      /\ DOMAIN mcHw' = DOMAIN mcHw \ {k} /\ \A x \in DOMAIN mcHw : x # k => mcHw'[x] = mcHw[x]
  BY <1>2 DEF McDrop
<1>4. /\ DOMAIN mcG' = DOMAIN mcG
      /\ mcG' = [x \in DOMAIN mcG |-> mcG'[x]]
      /\ \A x \in DOMAIN mcG : x # g => mcG'[x] = mcG[x]
      /\ mcG'[g] = [ports |-> mcG[g].ports, entries |-> mcG[g].entries \ {k}]
  <2>1. mcG[g] = [ports |-> mcG[g].ports, entries |-> mcG[g].entries]
    BY <1>1, <1>2 DEF L2Typed
  <2>2. mcG'[g] = [mcG[g] EXCEPT !.entries = mcG[g].entries \ {k}]
    BY <1>2
  <2>3. mcG'[g] = [ports |-> mcG[g].ports, entries |-> mcG[g].entries \ {k}]
    BY <2>1, <2>2
  <2> QED BY <1>2, <2>3
<1>5. L2Typed'
  <2>1. mcG'[g] \in [ports : SUBSET McPorts, entries : SUBSET McKeys]
    BY <1>1, <1>2, <1>4 DEF L2Typed
  <2>2. mcG' \in [DOMAIN mcG' -> [ports : SUBSET McPorts, entries : SUBSET McKeys]]
    BY <1>1, <1>4, <2>1 DEF L2Typed
  <2> QED BY <1>1, <1>2, <1>3, <1>4, <2>2 DEF L2Typed
<1>6. \A x \in DOMAIN mcG : mcG'[x].ports = mcG[x].ports
  BY <1>4
<1>7. L2Follows'
  <2>1. ASSUME NEW x \in DOMAIN mcE' PROVE mcHw'[x] = mcG'[mcE'[x]].ports
    <3>1. x # k /\ x \in DOMAIN mcE /\ x \in DOMAIN mcHw /\ mcE[x] \in DOMAIN mcG /\ mcHw[x] = mcG[mcE[x]].ports
      BY <1>1, <1>3, <2>1 DEF L2Typed, L2Follows
    <3> QED BY <1>3, <1>6, <3>1
  <2>2. ASSUME NEW h \in DOMAIN mcG' PROVE mcG'[h].entries = {x \in DOMAIN mcE' : mcE'[x] = h}
    <3>1. mcG[h].entries = {x \in DOMAIN mcE : mcE[x] = h}
      BY <1>1, <1>4, <2>2 DEF L2Follows
    <3>2. mcG'[h].entries = IF h = g THEN mcG[g].entries \ {k} ELSE mcG[h].entries
      BY <1>4, <2>2
    <3> QED BY <1>2, <1>3, <3>1, <3>2
  <2> QED BY <2>1, <2>2 DEF L2Follows
<1> DEFINE r == SyncDelete(McState, k)
<1>8. PICK b, w : b = r.binds /\ w = r.hw
  OBVIOUS
<1>9. SyncedTo(b, w)
  <2>1. Synced(r)
    BY DEF RemoveL2Entry
  <2> HIDE DEF r
  <2> QED BY <1>8, <2>1 DEF Synced, SyncedTo
<1>10. ASSUME ~mcMixed'
       PROVE  /\ ~mcMixed /\ Unmixed(mcE') /\ InStep(mcE, mcG, McOut, mcIp.binds, mcIpHw)
              /\ InStep(mcE', mcG', McOut, b, w)
  <2>1. ~mcMixed /\ Unmixed(mcE) /\ InStep(mcE, mcG, McOut, mcIp.binds, mcIpHw)
    BY <1>1, <1>2, <1>10 DEF IpKept
  <2>2. Unmixed(mcE')
    BY <1>3, <2>1 DEF Unmixed
  <2>5. InStep(McDrop(mcE, k), mcG, McOut, r.binds, r.hw)
    BY <1>2, <2>1, McStateIs, SyncDeleteStep
  <2>6. InStep(mcE', mcG, McOut, b, w)
    BY <1>2, <1>8, <2>5
  <2>7. \A x \in DOMAIN mcE' : mcG'[mcE'[x]].ports = mcG[mcE'[x]].ports
    BY <1>4, <1>5, <1>6 DEF L2Typed
  <2>8. InStep(mcE', mcG', McOut, b, w)
    BY <2>6, <2>7, SamePorts
  <2> QED BY <2>1, <2>2, <2>8
<1>11. IpTyped' /\ IpKept'
  <2> HIDE DEF r
  <2> QED BY <1>1, <1>2, <1>9, <1>10, SyncedKeeps DEF SyncedTo
<1> QED BY <1>2, <1>5, <1>7, <1>11 DEF McInv

(* set_l2mc_group_id and set_mcast_fdb_group_id. *)
LEMMA SetGroupKeeps ==
  ASSUME McInv, ~mcBroken, NEW k \in McKeys, NEW g \in McGroups, SetL2EntryGroup(k, g)
  PROVE  McInv'
PROOF
<1>1. L2Typed /\ L2Follows /\ IpTyped /\ IpKept
  BY DEF McInv
<1> DEFINE o == mcE[k]
<1>2. /\ k \in DOMAIN mcE /\ g \in DOMAIN mcG /\ g # o
      /\ mcE' = [mcE EXCEPT ![k] = g] /\ mcHw' = [mcHw EXCEPT ![k] = mcG[g].ports]
      /\ mcG' = [mcG EXCEPT ![o].entries = mcG[o].entries \ {k}, ![g].entries = @ \cup {k}]
      /\ UNCHANGED <<mcI, mcMixed, mcBroken>>
  BY DEF SetL2EntryGroup
<1>3. /\ DOMAIN mcE' = DOMAIN mcE /\ \A x \in DOMAIN mcE : mcE'[x] = IF x = k THEN g ELSE mcE[x]
      /\ DOMAIN mcHw' = DOMAIN mcHw
      /\ \A x \in DOMAIN mcHw : mcHw'[x] = IF x = k THEN mcG[g].ports ELSE mcHw[x]
  BY <1>2
<1>a. o \in DOMAIN mcG
  BY <1>1, <1>2 DEF L2Typed
<1>4. /\ DOMAIN mcG' = DOMAIN mcG
      /\ mcG' = [x \in DOMAIN mcG |-> mcG'[x]]
      /\ \A x \in DOMAIN mcG : x # g /\ x # o => mcG'[x] = mcG[x]
      /\ mcG'[g] = [ports |-> mcG[g].ports, entries |-> mcG[g].entries \cup {k}]
      /\ mcG'[o] = [ports |-> mcG[o].ports, entries |-> mcG[o].entries \ {k}]
  <2>1. /\ mcG[g] = [ports |-> mcG[g].ports, entries |-> mcG[g].entries]
        /\ mcG[o] = [ports |-> mcG[o].ports, entries |-> mcG[o].entries]
    BY <1>1, <1>2, <1>a DEF L2Typed
  <2> HIDE DEF o
  <2>2. /\ mcG'[g] = [mcG[g] EXCEPT !.entries = mcG[g].entries \cup {k}]
        /\ mcG'[o] = [mcG[o] EXCEPT !.entries = mcG[o].entries \ {k}]
        /\ \A x \in DOMAIN mcG : x # g /\ x # o => mcG'[x] = mcG[x]
        /\ DOMAIN mcG' = DOMAIN mcG
        /\ mcG' = [x \in DOMAIN mcG |-> mcG'[x]]
    BY <1>2, <1>a
  <2>3. mcG'[g] = [ports |-> mcG[g].ports, entries |-> mcG[g].entries \cup {k}]
    BY <2>1, <2>2
  <2>4. mcG'[o] = [ports |-> mcG[o].ports, entries |-> mcG[o].entries \ {k}]
    BY <2>1, <2>2
  <2> QED BY <2>2, <2>3, <2>4
<1> HIDE DEF o
<1>5. L2Typed'
  <2>1. mcG'[g] \in [ports : SUBSET McPorts, entries : SUBSET McKeys]
    BY <1>1, <1>2, <1>4 DEF L2Typed
  <2>2. mcG'[o] \in [ports : SUBSET McPorts, entries : SUBSET McKeys]
    BY <1>1, <1>a, <1>4 DEF L2Typed
  <2>3. mcG' \in [DOMAIN mcG' -> [ports : SUBSET McPorts, entries : SUBSET McKeys]]
    BY <1>1, <1>4, <2>1, <2>2 DEF L2Typed
  <2> QED BY <1>1, <1>2, <1>3, <1>4, <2>3 DEF L2Typed
<1>6. \A x \in DOMAIN mcG : mcG'[x].ports = mcG[x].ports
  BY <1>4
<1>7. L2Follows'
  <2>1. ASSUME NEW x \in DOMAIN mcE' PROVE mcHw'[x] = mcG'[mcE'[x]].ports
    <3>1. x \in DOMAIN mcE /\ x \in DOMAIN mcHw /\ mcE[x] \in DOMAIN mcG /\ mcHw[x] = mcG[mcE[x]].ports
      BY <1>1, <1>3, <2>1 DEF L2Typed, L2Follows
    <3> QED BY <1>2, <1>3, <1>6, <3>1
  <2>2. ASSUME NEW h \in DOMAIN mcG' PROVE mcG'[h].entries = {x \in DOMAIN mcE' : mcE'[x] = h}
    <3>1. mcG[h].entries = {x \in DOMAIN mcE : mcE[x] = h}
      BY <1>1, <1>4, <2>2 DEF L2Follows
    <3>2. mcG'[h].entries = IF h = g THEN mcG[h].entries \cup {k}
                            ELSE IF h = o THEN mcG[h].entries \ {k} ELSE mcG[h].entries
      BY <1>2, <1>4, <2>2, ZenonT(40)
    <3>3. mcE[k] = o
      BY DEF o
    <3> QED BY <1>2, <1>3, <3>1, <3>2, <3>3
  <2> QED BY <2>1, <2>2 DEF L2Follows
<1> DEFINE r == SyncUpdate(McState, k, mcG[mcE[k]].ports, mcG[g].ports)
<1>8. PICK b, w : b = r.binds /\ w = r.hw
  OBVIOUS
<1>9. SyncedTo(b, w)
  <2>1. Synced(r)
    BY DEF SetL2EntryGroup
  <2> HIDE DEF r
  <2> QED BY <1>8, <2>1 DEF Synced, SyncedTo
<1>10. ASSUME ~mcMixed'
       PROVE  /\ ~mcMixed /\ Unmixed(mcE') /\ InStep(mcE, mcG, McOut, mcIp.binds, mcIpHw)
              /\ InStep(mcE', mcG', McOut, b, w)
  <2>1. ~mcMixed /\ Unmixed(mcE) /\ InStep(mcE, mcG, McOut, mcIp.binds, mcIpHw)
    BY <1>1, <1>2, <1>10 DEF IpKept
  <2>2. Unmixed(mcE')
    BY <1>3, <2>1 DEF Unmixed
  <2>5. InStep(Regroup(mcE, k, g), mcG, McOut, r.binds, r.hw)
    BY <1>2, <2>1, McStateIs, SyncUpdateStep
  <2>6. InStep(mcE', mcG, McOut, b, w)
    BY <1>2, <1>8, <2>5 DEF Regroup
  <2>7. \A x \in DOMAIN mcE' : mcG'[mcE'[x]].ports = mcG[mcE'[x]].ports
    BY <1>4, <1>5, <1>6 DEF L2Typed
  <2>8. InStep(mcE', mcG', McOut, b, w)
    BY <2>6, <2>7, SamePorts
  <2> QED BY <2>1, <2>2, <2>8
<1>11. IpTyped' /\ IpKept'
  <2> HIDE DEF r
  <2> QED BY <1>1, <1>2, <1>9, <1>10, SyncedKeeps DEF SyncedTo
<1> QED BY <1>2, <1>5, <1>7, <1>11 DEF McInv

-----------------------------------------------------------------------------
(* Multicast: the operations on IPMC groups and on the IPMC entry. *)
(* A replication built anew. *)
LEMMA FreshStep ==
  ASSUME NEW is, is \subseteq McVlans \cup McRifs, IsFiniteSet(is)
  PROVE  InStep(mcE, mcG, is, Fresh(is).binds, Fresh(is).hw)
PROOF
<1> DEFINE s == [McState EXCEPT !.binds = << >>, !.hw = {}]
<1>1. s = [e |-> mcE, g |-> mcG, out |-> McOut, binds |-> << >>, hw |-> {}]
  <2>1. McState = [e |-> mcE, g |-> mcG, out |-> McOut, binds |-> mcIp.binds, hw |-> mcIpHw]
    BY DEF McState, McOut
  <2> DEFINE t == [McState EXCEPT !.binds = << >>]
  <2>2. t = [e |-> mcE, g |-> mcG, out |-> McOut, binds |-> << >>, hw |-> mcIpHw]
    BY <2>1
  <2>3. s = [t EXCEPT !.hw = {}]
    OBVIOUS
  <2> HIDE DEF t, s
  <2> QED BY <2>2, <2>3
<1>2. InStep(mcE, mcG, {}, << >>, {})
  BY EmptyStep
<1>3. is \cap {} = {} /\ {} \cup is = is
  OBVIOUS
<1> HIDE DEF s
<1>4. InStep(mcE, mcG, {} \cup is, AddInterfaces(s, is).binds, AddInterfaces(s, is).hw)
  BY <1>1, <1>2, <1>3, AddStep
<1>5. Fresh(is) = AddInterfaces(s, is)
  BY DEF Fresh, s
<1> QED BY <1>3, <1>4, <1>5

(* create_ipmc_group and remove_ipmc_group. *)
LEMMA IpGroupsKeep ==
  ASSUME McInv, ~mcBroken, NEW h \in McIpGroups, CreateIpmcGroup(h) \/ RemoveIpmcGroup(h)
  PROVE  McInv'
PROOF
<1>1. L2Typed /\ L2Follows /\ IpTyped /\ IpKept
  BY DEF McInv
<1>2. UNCHANGED <<mcG, mcE, mcHw, mcIp, mcIpHw, mcMixed>>
  BY DEF CreateIpmcGroup, RemoveIpmcGroup
<1>3. L2Typed' /\ L2Follows'
  BY <1>1, <1>2 DEF L2Typed, L2Follows
<1>4. h # 0
  BY McastAssumption
<1>5. CASE CreateIpmcGroup(h)
  <2>1. /\ h \notin DOMAIN mcI /\ mcBroken' = mcBroken /\ DOMAIN mcI' = DOMAIN mcI \cup {h}
        /\ mcI'[h] = {} /\ \A x \in DOMAIN mcI : mcI'[x] = mcI[x]
    BY <1>5 DEF CreateIpmcGroup, McPut
  <2>2. IpTyped'
    BY <1>1, <1>2, <2>1, FS_EmptySet DEF IpTyped
  <2>3. McOut' = McOut
    BY <1>1, <1>2, <1>4, <2>1 DEF IpTyped, McOut
  <2>4. IpKept'
    BY <1>1, <1>2, <2>3 DEF IpKept
  <2> QED BY <1>3, <2>1, <2>2, <2>4 DEF McInv
<1>6. CASE RemoveIpmcGroup(h)
  <2>1. /\ DOMAIN mcI' = DOMAIN mcI \ {h} /\ \A x \in DOMAIN mcI : x # h => mcI'[x] = mcI[x]
        /\ mcBroken' = (mcIp.on /\ mcIp.grp = h)
    BY <1>6 DEF RemoveIpmcGroup, McDrop
  <2>2. mcBroken' \in BOOLEAN
    BY <2>1
  <2>3. CASE mcBroken'
    BY <2>2, <2>3 DEF McInv
  <2>4. CASE ~mcBroken'
    <3>1. mcIp.grp # h
      BY <1>1, <1>4, <2>1, <2>4 DEF IpTyped
    <3>2. IpTyped'
      BY <1>1, <1>2, <2>1, <3>1 DEF IpTyped
    <3>3. McOut' = McOut
      BY <1>1, <1>2, <2>1, <3>1 DEF IpTyped, McOut
    <3>4. IpKept'
      BY <1>1, <1>2, <3>3 DEF IpKept
    <3> QED BY <1>3, <2>2, <3>2, <3>4 DEF McInv
  <2> QED BY <2>3, <2>4
<1> QED BY <1>5, <1>6

(* create_ipmc_group_member and remove_ipmc_group_member. *)
LEMMA IpMembersKeep ==
  ASSUME McInv, ~mcBroken, NEW h \in McIpGroups, NEW i \in McVlans \cup McRifs,
         CreateIpmcMember(h, i) \/ RemoveIpmcMember(h, i)
  PROVE  McInv'
PROOF
<1>1. L2Typed /\ L2Follows /\ IpTyped /\ IpKept
  BY DEF McInv
<1>2. UNCHANGED <<mcG, mcE, mcHw, mcMixed, mcBroken>> /\ h \in DOMAIN mcI
  BY DEF CreateIpmcMember, RemoveIpmcMember
<1>3. L2Typed' /\ L2Follows'
  BY <1>1, <1>2 DEF L2Typed, L2Follows
<1>4. h # 0
  BY McastAssumption
<1>5. ASSUME NEW is, is \subseteq McVlans \cup McRifs, IsFiniteSet(is), NEW b, NEW w,
             mcI' = [mcI EXCEPT ![h] = is],
             IF mcIp.on /\ mcIp.grp = h THEN SyncedTo(b, w) ELSE UNCHANGED <<mcIp, mcIpHw>>,
             mcIp.grp = h /\ ~mcMixed => InStep(mcE, mcG, is, b, w)
      PROVE  McInv'
  <2>1. CASE mcIp.on /\ mcIp.grp = h
    <3>1. mcIp' = [mcIp EXCEPT !.binds = b] /\ mcIpHw' = w
      BY <1>4, <1>5, <2>1 DEF SyncedTo
    <3>2. mcIp'.on = mcIp.on /\ mcIp'.grp = h /\ mcIp'.binds = b
          /\ mcIp' = [on |-> mcIp'.on, grp |-> mcIp'.grp, binds |-> mcIp'.binds]
      BY <1>1, <2>1, <3>1 DEF IpTyped
    <3>3. /\ DOMAIN mcI' = DOMAIN mcI /\ mcI'[h] = is
          /\ \A x \in DOMAIN mcI : x # h => mcI'[x] = mcI[x]
      BY <1>2, <1>5
    <3>4. IpTyped'
      BY <1>1, <1>2, <1>5, <2>1, <3>2, <3>3 DEF IpTyped
    <3>5. McOut' = is
      BY <1>2, <3>2, <3>3 DEF McOut
    <3>6. IpKept'
      BY <1>1, <1>2, <1>5, <2>1, <3>1, <3>2, <3>5 DEF IpKept
    <3> QED BY <1>2, <1>3, <3>4, <3>6 DEF McInv
  <2>2. CASE ~(mcIp.on /\ mcIp.grp = h)
    <3>1. mcIp' = mcIp /\ mcIpHw' = mcIpHw
      BY <1>5, <2>2
    <3>2. mcIp.grp # h
      BY <1>1, <1>4, <2>2 DEF IpTyped
    <3>3. /\ DOMAIN mcI' = DOMAIN mcI /\ mcI'[h] = is
          /\ \A x \in DOMAIN mcI : x # h => mcI'[x] = mcI[x]
      BY <1>2, <1>5
    <3>4. IpTyped'
      BY <1>1, <1>5, <3>1, <3>3 DEF IpTyped
    <3>5. McOut' = McOut
      BY <3>1, <3>2, <3>3 DEF McOut
    <3>6. IpKept'
      BY <1>1, <1>2, <3>1, <3>5 DEF IpKept
    <3> QED BY <1>2, <1>3, <3>4, <3>6 DEF McInv
  <2> QED BY <2>1, <2>2
<1>6. CASE CreateIpmcMember(h, i)
  <2> DEFINE r == AddInterfaces(McState, {i})
             is == mcI[h] \cup {i}
  <2>1. PICK b, w : b = r.binds /\ w = r.hw
    OBVIOUS
  <2>2. /\ i \notin mcI[h] /\ mcI' = [mcI EXCEPT ![h] = is]
        /\ IF mcIp.on /\ mcIp.grp = h THEN Synced(r) ELSE UNCHANGED <<mcIp, mcIpHw>>
    BY <1>6 DEF CreateIpmcMember
  <2> HIDE DEF r
  <2>3. IF mcIp.on /\ mcIp.grp = h THEN SyncedTo(b, w) ELSE UNCHANGED <<mcIp, mcIpHw>>
    BY <2>1, <2>2 DEF Synced, SyncedTo
  <2>4. is \subseteq McVlans \cup McRifs /\ IsFiniteSet(is)
    BY <1>1, <1>2, FS_AddElement DEF IpTyped
  <2>5. ASSUME mcIp.grp = h, ~mcMixed
        PROVE  InStep(mcE, mcG, is, b, w)
    <3>1. McOut = mcI[h] /\ InStep(mcE, mcG, McOut, mcIp.binds, mcIpHw)
      BY <1>1, <1>2, <2>5 DEF McOut, IpKept
    <3>2. McState = [e |-> mcE, g |-> mcG, out |-> McOut, binds |-> mcIp.binds, hw |-> mcIpHw]
      BY DEF McState, McOut
    <3> DEFINE new == {i}
    <3>3. new \subseteq McVlans \cup McRifs /\ IsFiniteSet(new) /\ new \cap McOut = {} /\ McOut \cup new = is
      BY <2>2, <3>1, FS_Singleton
    <3> HIDE DEF new, is
    <3>4. InStep(mcE, mcG, McOut \cup new, AddInterfaces(McState, new).binds, AddInterfaces(McState, new).hw)
      BY <3>1, <3>2, <3>3, AddStep
    <3> QED BY <2>1, <3>3, <3>4 DEF new, r
  <2> HIDE DEF is
  <2> QED BY <1>5, <2>2, <2>3, <2>4, <2>5
<1>7. CASE RemoveIpmcMember(h, i)
  <2> DEFINE r == DelInterface(McState, i)
             is == mcI[h] \ {i}
  <2>1. PICK b, w : b = r.binds /\ w = r.hw
    OBVIOUS
  <2>2. /\ i \in mcI[h] /\ mcI' = [mcI EXCEPT ![h] = is]
        /\ IF mcIp.on /\ mcIp.grp = h THEN Synced(r) ELSE UNCHANGED <<mcIp, mcIpHw>>
    BY <1>7 DEF RemoveIpmcMember
  <2> HIDE DEF r
  <2>3. IF mcIp.on /\ mcIp.grp = h THEN SyncedTo(b, w) ELSE UNCHANGED <<mcIp, mcIpHw>>
    BY <2>1, <2>2 DEF Synced, SyncedTo
  <2>4. is \subseteq McVlans \cup McRifs /\ IsFiniteSet(is)
    BY <1>1, <1>2, FS_Subset DEF IpTyped
  <2>5. ASSUME mcIp.grp = h, ~mcMixed
        PROVE  InStep(mcE, mcG, is, b, w)
    <3>1. McOut = mcI[h] /\ InStep(mcE, mcG, McOut, mcIp.binds, mcIpHw)
      BY <1>1, <1>2, <2>5 DEF McOut, IpKept
    <3>2. i \in McOut /\ McOut \subseteq McVlans \cup McRifs /\ McOut \ {i} = is
      BY <1>1, <1>2, <2>2, <3>1 DEF IpTyped
    <3> HIDE DEF is
    <3>4. InStep(mcE, mcG, McOut \ {i}, DelInterface(McState, i).binds, DelInterface(McState, i).hw)
      BY <3>1, <3>2, McStateIs, DelStep
    <3> QED BY <2>1, <3>2, <3>4 DEF r
  <2> HIDE DEF is
  <2> QED BY <1>5, <2>2, <2>3, <2>4, <2>5
<1> QED BY <1>6, <1>7

(* create_ipmc_entry, set_ipmc_group_id and remove_ipmc_entry. *)
LEMMA IpEntryKeeps ==
  ASSUME McInv, ~mcBroken,
         \/ \E h \in McIpGroups \cup {0} : CreateIpmcEntry(h)
         \/ \E h \in McIpGroups : SetIpmcGroup(h)
         \/ RemoveIpmcEntry
  PROVE  McInv'
PROOF
<1>1. L2Typed /\ L2Follows /\ IpTyped /\ IpKept
  BY DEF McInv
<1>2. UNCHANGED <<mcG, mcE, mcHw, mcI, mcMixed, mcBroken>>
  BY DEF CreateIpmcEntry, SetIpmcGroup, RemoveIpmcEntry
<1>3. L2Typed' /\ L2Follows' /\ mcBroken' \in BOOLEAN
  BY <1>1, <1>2 DEF L2Typed, L2Follows, McInv
<1>4. 0 \notin DOMAIN mcI
  BY <1>1, McastAssumption DEF IpTyped
<1>5. ASSUME NEW h \in DOMAIN mcI \cup {0}, NEW is, is = IF h = 0 THEN {} ELSE mcI[h],
             mcIp' = [on |-> TRUE, grp |-> h, binds |-> Fresh(is).binds], mcIpHw' = Fresh(is).hw
      PROVE  McInv'
  <2>1. is \subseteq McVlans \cup McRifs /\ IsFiniteSet(is)
    BY <1>1, <1>5, FS_EmptySet DEF IpTyped
  <2>2. IpTyped'
    BY <1>1, <1>2, <1>5 DEF IpTyped
  <2>3. McOut' = is
    BY <1>2, <1>4, <1>5 DEF McOut
  <2>4. InStep(mcE, mcG, is, Fresh(is).binds, Fresh(is).hw)
    BY <2>1, FreshStep
  <2>5. mcIp'.binds = Fresh(is).binds /\ mcIpHw' = Fresh(is).hw
    BY <1>5
  <2>6. IpKept'
    BY <1>1, <1>2, <2>3, <2>4, <2>5 DEF IpKept
  <2> QED BY <1>3, <2>2, <2>6 DEF McInv
<1>6. ASSUME NEW h \in McIpGroups \cup {0}, CreateIpmcEntry(h) PROVE McInv'
  <2>1. PICK is : is = IF h = 0 THEN {} ELSE mcI[h]
    OBVIOUS
  <2>2. h \in DOMAIN mcI \cup {0}
    BY <1>6 DEF CreateIpmcEntry
  <2>3. mcIp' = [on |-> TRUE, grp |-> h, binds |-> Fresh(is).binds] /\ mcIpHw' = Fresh(is).hw
    BY <1>6, <2>1 DEF CreateIpmcEntry
  <2> QED BY <1>5, <2>1, <2>2, <2>3
<1>7. ASSUME NEW h \in McIpGroups, SetIpmcGroup(h) PROVE McInv'
  <2>1. PICK is : is = IF h = 0 THEN {} ELSE mcI[h]
    OBVIOUS
  <2>2. h \in DOMAIN mcI \cup {0} /\ is = mcI[h] /\ mcIp.on
    BY <1>4, <1>7, <2>1 DEF SetIpmcGroup
  <2>3. mcIp' = [mcIp EXCEPT !.grp = h, !.binds = Fresh(is).binds] /\ mcIpHw' = Fresh(is).hw
    BY <1>7, <2>2 DEF SetIpmcGroup
  <2>4. mcIp' = [on |-> TRUE, grp |-> h, binds |-> Fresh(is).binds]
    BY <1>1, <2>2, <2>3 DEF IpTyped
  <2> QED BY <1>5, <2>1, <2>2, <2>3, <2>4
<1>8. ASSUME RemoveIpmcEntry PROVE McInv'
  <2>1. mcIp' = [on |-> FALSE, grp |-> 0, binds |-> << >>] /\ mcIpHw' = {}
    BY <1>8 DEF RemoveIpmcEntry
  <2>2. mcIp'.on = FALSE /\ mcIp'.grp = 0 /\ mcIp'.binds = << >>
    BY <2>1
  <2>3. IpTyped'
    BY <1>1, <1>2, <2>1, <2>2 DEF IpTyped
  <2>4. McOut' = {}
    BY <1>2, <1>4, <2>2 DEF McOut
  <2>5. InStep(mcE, mcG, {}, << >>, {})
    BY EmptyStep
  <2>6. IpKept'
    BY <1>1, <1>2, <2>1, <2>2, <2>4, <2>5 DEF IpKept
  <2> QED BY <1>3, <2>3, <2>6 DEF McInv
<1> QED BY <1>6, <1>7, <1>8

(* The invariant holds before the first call. *)
LEMMA McInitially == McInit => McInv
PROOF
<1> SUFFICES ASSUME McInit PROVE McInv
  OBVIOUS
<1>1. /\ mcG = << >> /\ mcE = << >> /\ mcHw = << >> /\ mcI = << >> /\ mcIpHw = {}
      /\ mcIp = [on |-> FALSE, grp |-> 0, binds |-> << >>]
  BY DEF McInit
<1>2. DOMAIN mcG = {} /\ DOMAIN mcE = {} /\ DOMAIN mcHw = {} /\ DOMAIN mcI = {}
  BY <1>1
<1>3. L2Typed
  BY <1>1, <1>2 DEF L2Typed
<1>4. L2Follows
  BY <1>2 DEF L2Follows
<1>5. IpTyped
  BY <1>1, <1>2 DEF IpTyped
<1>6. IpKept
  <2>1. McOut = {}
    BY <1>2 DEF McOut
  <2>2. Unmixed(mcE)
    BY <1>2 DEF Unmixed
  <2>3. InStep(mcE, mcG, {}, << >>, {})
    BY EmptyStep
  <2> QED BY <1>1, <2>1, <2>2, <2>3 DEF IpKept
<1>7. mcBroken = FALSE
  BY DEF McInit
<1> QED BY <1>3, <1>4, <1>5, <1>6, <1>7 DEF McInv

(* Every call keeps it. *)
LEMMA McCallsKeep == McInv /\ [McNext]_mcVars => McInv'
PROOF
<1>0. ASSUME McInv, UNCHANGED mcVars PROVE McInv'
  BY <1>0 DEF mcVars, McInv, L2Typed, L2Follows, IpTyped, IpKept, McOut
<1> SUFFICES ASSUME McInv, McNext PROVE McInv'
  BY <1>0
<1>1. CASE ~mcBroken
  <2>1. \A k \in L2mcKeys : k \in McKeys
    BY DEF L2mcKeys
  <2>2. \A v \in McVlans : <<v, "fdb">> \in McKeys
    BY DEF McKeys
  <2>3. CASE \E g \in McGroups : CreateL2mcGroup(g) \/ RemoveL2mcGroup(g)
    BY <1>1, <2>3, GroupsKeep
  <2>4. CASE \E g \in McGroups, p \in McPorts : CreateL2mcMember(g, p) \/ RemoveL2mcMember(g, p)
    BY <1>1, <2>4, MembersKeep
  <2>5. CASE \E k \in L2mcKeys, g \in McGroups : CreateL2Entry(k, g) \/ SetL2EntryGroup(k, g)
    BY <1>1, <2>1, <2>5, CreateEntryKeeps, SetGroupKeeps
  <2>6. CASE \E k \in L2mcKeys : RemoveL2Entry(k)
    BY <1>1, <2>1, <2>6, RemoveEntryKeeps
  <2>7. CASE \E v \in McVlans, g \in McGroups : CreateMcastFdbEntry(v, g) \/ SetMcastFdbGroup(v, g)
    BY <1>1, <2>2, <2>7, CreateEntryKeeps, SetGroupKeeps DEF CreateMcastFdbEntry, SetMcastFdbGroup
  <2>8. CASE \E v \in McVlans : RemoveMcastFdbEntry(v)
    BY <1>1, <2>2, <2>8, RemoveEntryKeeps DEF RemoveMcastFdbEntry
  <2>9. CASE \E h \in McIpGroups : CreateIpmcGroup(h) \/ RemoveIpmcGroup(h) \/ SetIpmcGroup(h)
    BY <1>1, <2>9, IpGroupsKeep, IpEntryKeeps
  <2>10. CASE \E h \in McIpGroups, i \in McVlans \cup McRifs : CreateIpmcMember(h, i) \/ RemoveIpmcMember(h, i)
    BY <1>1, <2>10, IpMembersKeep
  <2>11. CASE (\E h \in McIpGroups \cup {0} : CreateIpmcEntry(h)) \/ RemoveIpmcEntry
    BY <1>1, <2>11, IpEntryKeeps
  <2> QED BY <1>1, <2>3, <2>4, <2>5, <2>6, <2>7, <2>8, <2>9, <2>10, <2>11 DEF McNext
<1>2. CASE mcBroken
  <2>1. UNCHANGED mcVars
    BY <1>2 DEF McNext
  <2> QED BY <1>0, <2>1
<1> QED BY <1>1, <1>2

-----------------------------------------------------------------------------
(* BFD: the routes and next hops of the sessions *)
BfdRecs == [kind : BfdKinds, nh : BfdNhs \cup {0}, addr : BfdAddrs, added : BOOLEAN]
BfdTyped ==
  /\ bfd \in [DOMAIN bfd -> BfdRecs]
  /\ bfdNhPool \subseteq BfdNhs /\ bfdHost \subseteq BfdAddrs
  /\ bfdRoute \in [BfdAddrs -> {"none", "plain", "self"}]
  /\ bfdLeaked = [nhs |-> bfdLeaked.nhs, addrs |-> bfdLeaked.addrs]

(* The addresses the client has a route for, or a failed creation left one. *)
Kept == bfdHost \cup bfdLeaked.addrs

(* Beyond RoutesExact: a route that nobody else accounts for was added by a *)
(* session that is still there and will take it away, and it has the flag, *)
(* unless a removal cleared it. *)
BfdRoutes ==
  /\ \A s \in IpSessions : bfd[s].addr \in Kept \cup bfdDark \/ bfdRoute[bfd[s].addr] = "self"
  /\ \A a \in bfdHost : bfdRoute[a] # "none"
  /\ \A s \in IpSessions : bfd[s].added => bfd[s].addr \notin bfdHost
  /\ \A a \in BfdAddrs \ Kept :
       /\ bfdRoute[a] # "none" => \E s \in IpSessions : bfd[s].addr = a /\ bfd[s].added
       /\ bfdRoute[a] = "plain" => a \in bfdDark
BfdInv == BfdTyped /\ BfdRoutes /\ NextHopsExact

(* What the invariant says of BFD. *)
LEMMA BfdGives == BfdInv => BfdExact
PROOF
<1> SUFFICES ASSUME BfdInv PROVE RoutesExact /\ NextHopsExact
  BY DEF BfdExact
<1>1. ASSUME NEW s \in IpSessions
      PROVE  bfd[s].addr \in bfdHost \cup bfdLeaked.addrs \cup bfdDark \/ bfdRoute[bfd[s].addr] = "self"
  BY DEF BfdInv, BfdRoutes, Kept
<1>2. ASSUME NEW a \in BfdAddrs \ (bfdHost \cup bfdLeaked.addrs)
      PROVE  bfdRoute[a] = "none" \/ \E s \in IpSessions : bfd[s].addr = a
  BY DEF BfdInv, BfdRoutes, Kept
<1>3. \A a \in bfdHost : bfdRoute[a] # "none"
  BY DEF BfdInv, BfdRoutes
<1> QED BY <1>1, <1>2, <1>3 DEF RoutesExact, BfdInv

(* At first there are the client's routes only. *)
LEMMA BfdInitially == BfdInit => BfdInv
PROOF
<1> SUFFICES ASSUME BfdInit PROVE BfdInv
  OBVIOUS
<1>1. DOMAIN bfd = {} /\ bfdNhPool = {} /\ bfdHost \subseteq BfdAddrs
  BY DEF BfdInit
<1>2. bfdRoute = [a \in BfdAddrs |-> IF a \in bfdHost THEN "plain" ELSE "none"]
  BY DEF BfdInit
<1>3. bfdLeaked = [nhs |-> {}, addrs |-> {}]
  BY DEF BfdInit
<1>4. IpSessions = {}
  BY <1>1 DEF IpSessions
<1>5. BfdTyped
  <2>1. bfd \in [DOMAIN bfd -> BfdRecs]
    BY DEF BfdInit
  <2> QED BY <1>1, <1>2, <1>3, <2>1 DEF BfdTyped
<1>6. BfdRoutes
  BY <1>1, <1>2, <1>3, <1>4 DEF BfdRoutes, Kept
<1>7. NextHopsExact
  BY <1>1, <1>3 DEF NextHopsExact
<1> QED BY <1>5, <1>6, <1>7 DEF BfdInv

(* A creation that fails leaves its route, and says so. *)
FailedStep(R) ==
  /\ bfd' = bfd /\ bfdHost' = bfdHost
  /\ \A x \in BfdAddrs \ R : bfdRoute'[x] = bfdRoute[x]
  /\ \A x \in R : bfdRoute'[x] # "none"
  /\ bfdDark' = {x \in bfdDark : x \notin R \/ bfdRoute'[x] # "self"}
  /\ bfdLeaked'.addrs = bfdLeaked.addrs \cup R

(* What a failed creation left keeps the routes. *)
LEMMA FailedRoute ==
  ASSUME BfdInv, NEW R, R \subseteq BfdAddrs, FailedStep(R)
  PROVE  BfdRoutes'
PROOF
<1> USE DEF FailedStep
<1>1. Kept' = Kept \cup R /\ IpSessions' = IpSessions
  BY DEF Kept, IpSessions
<1>2. \A s \in IpSessions : bfd[s].addr \in BfdAddrs
  BY DEF BfdInv, BfdTyped, BfdRecs, IpSessions
<1>3. ASSUME NEW s \in IpSessions
      PROVE  bfd[s].addr \in Kept' \cup bfdDark' \/ bfdRoute'[bfd[s].addr] = "self"
  BY <1>1, <1>2 DEF BfdInv, BfdRoutes
<1>4. \A a \in bfdHost : a \in BfdAddrs /\ bfdRoute'[a] # "none"
  BY DEF BfdInv, BfdRoutes, BfdTyped
<1>5. ASSUME NEW a \in BfdAddrs \ Kept'
      PROVE  /\ bfdRoute'[a] # "none" => \E s \in IpSessions : bfd[s].addr = a /\ bfd[s].added
             /\ bfdRoute'[a] = "plain" => a \in bfdDark'
  BY <1>1 DEF BfdInv, BfdRoutes
<1>6. \A s \in IpSessions : bfd[s].added => bfd[s].addr \notin bfdHost
  BY DEF BfdInv, BfdRoutes
<1>7. bfd' = bfd /\ bfdHost' = bfdHost
  OBVIOUS
<1> HIDE DEF FailedStep
<1> QED BY <1>1, <1>3, <1>4, <1>5, <1>6, <1>7 DEF BfdRoutes

(* A session in MPLS has no route. *)
LEMMA MplsRoute ==
  ASSUME BfdInv, NEW s, s \notin DOMAIN bfd, NEW r, r.kind = "mpls",
         bfd' = [t \in DOMAIN bfd \cup {s} |-> IF t = s THEN r ELSE bfd[t]],
         UNCHANGED <<bfdRoute, bfdHost, bfdLeaked, bfdDark>>
  PROVE  BfdRoutes'
PROOF
<1>1. IpSessions' = IpSessions /\ \A t \in IpSessions : bfd'[t] = bfd[t]
  BY DEF IpSessions
<1>2. Kept' = Kept
  BY DEF Kept
<1>3. BfdRoutes /\ UNCHANGED <<bfdRoute, bfdHost, bfdDark>>
  BY DEF BfdInv
<1> QED BY ONLY <1>1, <1>2, <1>3 DEF BfdRoutes

(* Any other sets its route up, and knows whether it was there before. *)
LEMMA AddedRoute ==
  ASSUME BfdInv, NEW s, s \notin DOMAIN bfd, NEW r, r.kind # "mpls", NEW keep,
         r.addr \in BfdAddrs, r.added = (bfdRoute[r.addr] = "none"),
         bfd' = [t \in DOMAIN bfd \cup {s} |-> IF t = s THEN r ELSE bfd[t]],
         AddLocalIpuc(r.addr, keep), UNCHANGED <<bfdHost, bfdLeaked>>,
         bfdDark' = {x \in bfdDark : x \notin {r.addr} \/ bfdRoute'[x] # "self"}
  PROVE  BfdRoutes'
PROOF
<1> DEFINE a == r.addr
<1>1. IpSessions' = IpSessions \cup {s} /\ s \notin IpSessions
      /\ bfd'[s] = r /\ \A t \in IpSessions : bfd'[t] = bfd[t]
  BY DEF IpSessions
<1>2. Kept' = Kept
  BY DEF Kept
<1>3. /\ bfdRoute'[a] = IF bfdRoute[a] = "none" \/ (bfdRoute[a] = "plain" /\ ~keep) THEN "self" ELSE bfdRoute[a]
      /\ \A x \in BfdAddrs \ {a} : bfdRoute'[x] = bfdRoute[x]
  BY DEF AddLocalIpuc, BfdInv, BfdTyped
<1>4. bfdRoute[a] \in {"none", "plain", "self"} /\ \A t \in IpSessions : bfd[t].addr \in BfdAddrs
  BY DEF BfdInv, BfdTyped, BfdRecs, IpSessions
<1>5. bfdRoute'[a] \in {"plain", "self"} /\ (bfdRoute'[a] = "plain" => bfdRoute[a] = "plain")
  BY <1>3, <1>4
<1>6. bfdRoute'[a] = "plain" => a \in Kept \/ a \in bfdDark'
  BY <1>5, <1>4 DEF BfdInv, BfdRoutes
<1>7. \A x \in BfdAddrs \ {a} : x \in bfdDark' <=> x \in bfdDark
  OBVIOUS
<1>8. ASSUME NEW t \in IpSessions'
      PROVE  bfd'[t].addr \in Kept' \cup bfdDark' \/ bfdRoute'[bfd'[t].addr] = "self"
  <2>1. CASE t = s
    BY <2>1, <1>1, <1>2, <1>5, <1>6
  <2>2. CASE t # s /\ bfd[t].addr = a
    BY <2>2, <1>1, <1>2, <1>5, <1>6
  <2>3. CASE t # s /\ bfd[t].addr # a
    <3>1. bfd[t].addr \in Kept \cup bfdDark \/ bfdRoute[bfd[t].addr] = "self"
      BY <2>3, <1>1 DEF BfdInv, BfdRoutes
    <3>2. bfd'[t] = bfd[t] /\ bfd[t].addr \in BfdAddrs \ {a}
      BY <2>3, <1>1, <1>4
    <3>3. bfd[t].addr \in bfdDark => bfd[t].addr \in bfdDark'
      BY <3>2, <1>7
    <3>4. bfdRoute'[bfd[t].addr] = bfdRoute[bfd[t].addr]
      BY <3>2, <1>3
    <3> QED BY <3>1, <3>2, <3>3, <3>4, <1>2
  <2> QED BY <2>1, <2>2, <2>3
<1>9. \A x \in bfdHost : x \in BfdAddrs /\ bfdRoute'[x] # "none"
  BY <1>3, <1>5 DEF BfdInv, BfdRoutes, BfdTyped
<1>10. ASSUME NEW t \in IpSessions', bfd'[t].added PROVE bfd'[t].addr \notin bfdHost
  <2>1. CASE t = s
    BY <2>1, <1>1, <1>10 DEF BfdInv, BfdRoutes
  <2>2. CASE t # s
    BY <2>2, <1>1, <1>10 DEF BfdInv, BfdRoutes
  <2> QED BY <2>1, <2>2
<1>11. ASSUME NEW x \in BfdAddrs \ Kept'
       PROVE  /\ bfdRoute'[x] # "none" => \E t \in IpSessions' : bfd'[t].addr = x /\ bfd'[t].added
              /\ bfdRoute'[x] = "plain" => x \in bfdDark'
  <2>1. CASE x = a
    <3>1. bfdRoute[a] = "none" => bfd'[s].addr = x /\ bfd'[s].added /\ s \in IpSessions'
      BY <2>1, <1>1
    <3>2. bfdRoute[a] # "none" => \E t \in IpSessions : bfd[t].addr = a /\ bfd[t].added
      BY <2>1, <1>2, <1>11 DEF BfdInv, BfdRoutes
    <3>3. bfdRoute'[x] = "plain" => x \in bfdDark'
      BY <2>1, <1>2, <1>6, <1>11
    <3> QED BY <2>1, <3>1, <3>2, <3>3, <1>1
  <2>2. CASE x # a
    <3>1. bfdRoute[x] # "none" => \E t \in IpSessions : bfd[t].addr = x /\ bfd[t].added
      BY <1>2, <1>11 DEF BfdInv, BfdRoutes
    <3>2. bfdRoute[x] = "plain" => x \in bfdDark
      BY <1>2, <1>11 DEF BfdInv, BfdRoutes
    <3> QED BY <2>2, <3>1, <3>2, <1>1, <1>3, <1>7, <1>11
  <2> QED BY <2>1, <2>2
<1>12. bfdHost' = bfdHost
  OBVIOUS
<1> QED BY ONLY <1>8, <1>9, <1>10, <1>11, <1>12 DEF BfdRoutes

(* A removal takes the route its session added, or the flag. *)
LEMMA RemovedRoute ==
  ASSUME BfdInv, NEW s \in DOMAIN bfd, RemoveBfd(s)
  PROVE  BfdRoutes'
PROOF
<1> DEFINE a == bfd[s].addr
<1>1. bfd' = [t \in DOMAIN bfd \ {s} |-> bfd[t]] /\ UNCHANGED <<bfdHost, bfdLeaked>>
  BY DEF RemoveBfd
<1>2. IpSessions' = IpSessions \ {s} /\ \A t \in IpSessions \ {s} : bfd'[t] = bfd[t]
  BY <1>1 DEF IpSessions
<1>3. Kept' = Kept
  BY <1>1 DEF Kept
<1>4. CASE s \notin IpSessions
  <2>1. bfdRoute' = bfdRoute /\ bfdDark' = bfdDark
    BY <1>4 DEF RemoveBfd, RemoveLocalIpuc, IpSessions
  <2>2. IpSessions' = IpSessions /\ bfdHost' = bfdHost /\ \A t \in IpSessions : bfd'[t] = bfd[t]
    BY <1>1, <1>2, <1>4
  <2>3. BfdRoutes
    BY DEF BfdInv
  <2> QED BY ONLY <2>1, <2>2, <2>3, <1>3 DEF BfdRoutes
<1>5. CASE s \in IpSessions
  <2>1. a \in BfdAddrs /\ bfdRoute[a] \in {"none", "plain", "self"}
        /\ \A t \in IpSessions : bfd[t].addr \in BfdAddrs
    BY DEF BfdInv, BfdTyped, BfdRecs, IpSessions
  <2>2. bfdRoute' = IF bfdRoute[a] = "none" THEN bfdRoute
                    ELSE [bfdRoute EXCEPT ![a] = IF bfd[s].added THEN "none" ELSE "plain"]
    BY <1>5 DEF RemoveBfd, RemoveLocalIpuc, IpSessions
  <2>3. /\ bfdRoute'[a] = IF bfdRoute[a] = "none" \/ bfd[s].added THEN "none" ELSE "plain"
        /\ \A x \in BfdAddrs \ {a} : bfdRoute'[x] = bfdRoute[x]
    BY <2>1, <2>2 DEF BfdInv, BfdTyped
  <2>4. bfdDark' = IF \E t \in IpSessions \ {s} : bfd[t].addr = a
                   THEN bfdDark \cup {a} ELSE bfdDark \ {a}
    BY <1>5 DEF RemoveBfd
  <2>5. \A x \in BfdAddrs \ {a} : x \in bfdDark' <=> x \in bfdDark
    BY <2>4
  <2>6. ASSUME NEW t \in IpSessions \ {s}
        PROVE  bfd[t].addr \in Kept \cup bfdDark' \/ bfdRoute'[bfd[t].addr] = "self"
    <3>1. CASE bfd[t].addr = a
      BY <3>1, <2>4
    <3>2. CASE bfd[t].addr # a
      BY <3>2, <2>1, <2>3, <2>5 DEF BfdInv, BfdRoutes
    <3> QED BY <3>1, <3>2
  <2>7. \A x \in bfdHost : bfdRoute'[x] # "none"
    <3>1. a \in bfdHost => ~bfd[s].added /\ bfdRoute[a] # "none"
      BY <1>5 DEF BfdInv, BfdRoutes
    <3>2. \A x \in bfdHost : x \in BfdAddrs /\ bfdRoute[x] # "none"
      BY DEF BfdInv, BfdRoutes, BfdTyped
    <3> QED BY <3>1, <3>2, <2>3
  <2>8. ASSUME NEW x \in BfdAddrs \ Kept
        PROVE  /\ bfdRoute'[x] # "none" => \E t \in IpSessions \ {s} : bfd[t].addr = x /\ bfd[t].added
               /\ bfdRoute'[x] = "plain" => x \in bfdDark'
    <3>1. /\ bfdRoute[x] # "none" => \E t \in IpSessions : bfd[t].addr = x /\ bfd[t].added
          /\ bfdRoute[x] = "plain" => x \in bfdDark
      BY DEF BfdInv, BfdRoutes
    <3>2. CASE x # a
      BY <3>1, <3>2, <2>3, <2>5
    <3>3. CASE x = a
      <4>1. CASE bfdRoute[a] = "none" \/ bfd[s].added
        BY <4>1, <3>3, <2>3
      <4>2. CASE ~(bfdRoute[a] = "none" \/ bfd[s].added)
        <5>1. PICK t \in IpSessions : bfd[t].addr = a /\ bfd[t].added
          BY <4>2, <3>1, <3>3
        <5>2. t # s
          BY <5>1, <4>2
        <5> QED BY <5>1, <5>2, <3>3, <2>4
      <4> QED BY <4>1, <4>2
    <3> QED BY <3>2, <3>3
  <2>9. \A t \in IpSessions \ {s} : bfd[t].added => bfd[t].addr \notin bfdHost
    BY DEF BfdInv, BfdRoutes
  <2>10. bfdHost' = bfdHost
    BY <1>1
  <2> QED BY <2>6, <2>7, <2>8, <2>9, <2>10, <1>2, <1>3 DEF BfdRoutes
<1> QED BY <1>4, <1>5

(* The next hop a session is built with. *)
LEMMA FreeNhFact == FreeNh \subseteq BfdNhs
PROOF
<1>1. ASSUME ~(BfdNhs \subseteq bfdNhPool)
      PROVE  Min(BfdNhs \ bfdNhPool) \in BfdNhs
  <2>1. BfdNhs \ bfdNhPool \in SUBSET Nat /\ BfdNhs \ bfdNhPool # {}
    BY <1>1, BfdAssumption
  <2> QED BY <2>1, MinFact
<1> QED BY <1>1 DEF FreeNh

(* What a session's next hop takes of the pool. *)
LEMMA BuiltFact ==
  ASSUME BfdInv, NEW kind \in BfdKinds, NEW b \in BuiltNhs(kind)
  PROVE  /\ b[1] \in BfdNhs \cup {0} /\ bfdNhPool \subseteq b[2] /\ b[2] \subseteq BfdNhs
         /\ b[2] = bfdNhPool \cup (IF kind \in {"ipuc", "tunnel"} THEN {b[1]} ELSE {})
         /\ kind \notin {"ipuc", "tunnel", "iloop"} => b[1] = 0
PROOF
<1>1. \A n \in FreeNh : n \in BfdNhs
  BY FreeNhFact
<1>2. bfdNhPool \subseteq BfdNhs
  BY DEF BfdInv, BfdTyped
<1>3. CASE kind \in {"ipuc", "tunnel"}
  <2>1. PICK n \in FreeNh : b = <<n, bfdNhPool \cup {n}>>
    BY <1>3 DEF BuiltNhs
  <2> QED BY <2>1, <1>1, <1>2, <1>3
<1>4. CASE kind = "iloop" /\ ~bfdGlobal
  <2>1. PICK n \in FreeNh : b = <<n, bfdNhPool>>
    BY <1>4 DEF BuiltNhs
  <2> QED BY <2>1, <1>1, <1>2, <1>4
<1>5. CASE ~(kind \in {"ipuc", "tunnel"}) /\ ~(kind = "iloop" /\ ~bfdGlobal)
  <2>1. b = <<0, bfdNhPool>>
    BY <1>5 DEF BuiltNhs
  <2> QED BY <2>1, <1>2, <1>5
<1> QED BY <1>3, <1>4, <1>5

(* A creation: it fails before the next hop is built, after that, or not. *)
LEMMA CreateBfdKeeps ==
  ASSUME BfdInv, NEW s, NEW kind \in BfdKinds, NEW a \in BfdAddrs, NEW fault, NEW keep,
         CreateBfd(s, kind, a, fault, keep)
  PROVE  BfdInv'
PROOF
<1> DEFINE route == IF kind = "mpls" THEN {} ELSE {a}
           lost == IF fault = "nh" /\ kind = "ipuc" THEN FreeNh ELSE {}
<1>1. /\ s \notin DOMAIN bfd /\ UNCHANGED <<bfdGlobal, bfdHost, bfdRobbed>>
      /\ bfdDark' = {x \in bfdDark : x \notin route \/ bfdRoute'[x] # "self"}
  BY DEF CreateBfd
<1>2. /\ bfdRoute' \in [BfdAddrs -> {"none", "plain", "self"}]
      /\ \A x \in BfdAddrs \ route : bfdRoute'[x] = bfdRoute[x]
      /\ \A x \in route : bfdRoute'[x] # "none"
  BY DEF CreateBfd, AddLocalIpuc, BfdInv, BfdTyped
<1>3. BfdTyped
  BY DEF BfdInv
<1>4. CASE fault = "nh" \/ BuiltNhs(kind) = {}
  <2>1. /\ UNCHANGED bfd /\ bfdNhPool' = bfdNhPool \cup lost
        /\ bfdLeaked' = [nhs |-> bfdLeaked.nhs \cup lost, addrs |-> bfdLeaked.addrs \cup route]
    BY <1>4 DEF CreateBfd
  <2>2. lost \subseteq BfdNhs
    BY FreeNhFact
  <2> HIDE DEF lost
  <2>3. BfdTyped'
    BY <1>1, <1>2, <1>3, <2>1, <2>2 DEF BfdTyped
  <2>4. BfdRoutes'
    <3>1. FailedStep(route)
      BY <1>1, <1>2, <2>1, <2>2 DEF FailedStep
    <3> QED BY <3>1, FailedRoute
  <2>5. NextHopsExact'
    BY <1>1, <2>1, <2>2 DEF BfdInv, NextHopsExact
  <2> QED BY <2>3, <2>4, <2>5 DEF BfdInv
<1>5. CASE ~(fault = "nh" \/ BuiltNhs(kind) = {})
  <2>1. PICK b \in BuiltNhs(kind) :
       /\ bfdNhPool' = b[2]
       /\ IF fault = "mep"
          THEN /\ UNCHANGED bfd
               /\ bfdLeaked' = [nhs |-> bfdLeaked.nhs \cup (b[2] \ bfdNhPool),
                                addrs |-> bfdLeaked.addrs \cup route]
          ELSE /\ bfd' = [t \in DOMAIN bfd \cup {s} |->
                            IF t = s THEN [kind |-> kind, nh |-> b[1], addr |-> a,
                                           added |-> bfdRoute[a] = "none"]
                            ELSE bfd[t]]
               /\ UNCHANGED bfdLeaked
    BY <1>5 DEF CreateBfd
  <2>2. /\ b[1] \in BfdNhs \cup {0} /\ bfdNhPool \subseteq b[2] /\ b[2] \subseteq BfdNhs
        /\ b[2] = bfdNhPool \cup (IF kind \in {"ipuc", "tunnel"} THEN {b[1]} ELSE {})
        /\ kind \notin {"ipuc", "tunnel", "iloop"} => b[1] = 0
    BY BuiltFact
  <2>3. CASE fault = "mep"
    <3>1. bfdLeaked' = [nhs |-> bfdLeaked.nhs \cup (b[2] \ bfdNhPool), addrs |-> bfdLeaked.addrs \cup route]
          /\ bfd' = bfd
      BY <2>1, <2>3
    <3>2. BfdTyped'
      BY <1>1, <1>2, <1>3, <2>1, <2>2, <3>1 DEF BfdTyped
    <3>3. BfdRoutes'
      <4>1. FailedStep(route)
        BY <1>1, <1>2, <3>1 DEF FailedStep
      <4> QED BY <4>1, FailedRoute
    <3>4. NextHopsExact'
      BY <1>1, <2>1, <2>2, <3>1 DEF BfdInv, NextHopsExact
    <3> QED BY <3>2, <3>3, <3>4 DEF BfdInv
  <2>4. CASE fault # "mep"
    <3> DEFINE r == [kind |-> kind, nh |-> b[1], addr |-> a, added |-> bfdRoute[a] = "none"]
    <3>1. bfd' = [t \in DOMAIN bfd \cup {s} |-> IF t = s THEN r ELSE bfd[t]] /\ UNCHANGED bfdLeaked
      BY <2>1, <2>4
    <3>2. r.kind = kind /\ r.nh = b[1] /\ r.addr = a /\ r.added = (bfdRoute[a] = "none") /\ r \in BfdRecs
      BY <2>2 DEF BfdRecs
    <3> HIDE DEF r
    <3>3. BfdTyped'
      BY <1>1, <1>2, <1>3, <2>1, <2>2, <3>1, <3>2 DEF BfdTyped
    <3>4. BfdRoutes'
      <4>1. CASE kind = "mpls"
        <5>1. bfdRoute' = bfdRoute /\ bfdDark' = bfdDark
          BY <4>1, <1>1 DEF CreateBfd
        <5> QED BY <4>1, <5>1, <1>1, <3>1, <3>2, MplsRoute
      <4>2. CASE kind # "mpls"
        <5>1. AddLocalIpuc(r.addr, keep) /\ bfdDark' = {x \in bfdDark : x \notin {r.addr} \/ bfdRoute'[x] # "self"}
          BY <4>2, <1>1, <3>2 DEF CreateBfd
        <5> QED BY <4>2, <5>1, <1>1, <3>1, <3>2, AddedRoute
      <4> QED BY <4>1, <4>2
    <3>5. NextHopsExact'
      <4> SUFFICES ASSUME NEW n \in BfdNhs \ bfdRobbed
                   PROVE  n \in b[2] <=> n \in bfdLeaked.nhs \/ \E t \in DOMAIN bfd \cup {s} : bfd'[t].nh = n /\ bfd'[t].kind # "iloop"
        BY <1>1, <2>1, <3>1 DEF NextHopsExact
      <4>1. n \in bfdNhPool <=> n \in bfdLeaked.nhs \/ \E t \in DOMAIN bfd : bfd[t].nh = n /\ bfd[t].kind # "iloop"
        BY DEF BfdInv, NextHopsExact
      <4>2. bfd'[s] = r /\ \A t \in DOMAIN bfd : bfd'[t] = bfd[t]
        BY <1>1, <3>1
      <4>3. n # 0
        BY BfdAssumption
      <4>4. n \in b[2] <=> n \in bfdNhPool \/ (r.nh = n /\ r.kind # "iloop")
        BY <2>2, <3>2, <4>3 DEF BfdKinds
      <4> QED BY <4>1, <4>2, <4>4
    <3> QED BY <3>3, <3>4, <3>5 DEF BfdInv
  <2> QED BY <2>3, <2>4
<1> QED BY <1>4, <1>5

(* A removal: a next hop that others have as well is robbed. *)
LEMMA RemoveBfdKeeps ==
  ASSUME BfdInv, NEW s \in DOMAIN bfd, RemoveBfd(s)
  PROVE  BfdInv'
PROOF
<1>1. /\ bfdNhPool' = bfdNhPool \ {bfd[s].nh}
      /\ bfd' = [t \in DOMAIN bfd \ {s} |-> bfd[t]]
      /\ UNCHANGED <<bfdGlobal, bfdHost, bfdLeaked>>
  BY DEF RemoveBfd, RemoveIpbfdNh
<1>2. bfdRoute' \in [BfdAddrs -> {"none", "plain", "self"}]
  BY DEF RemoveBfd, RemoveLocalIpuc, BfdInv, BfdTyped
<1>3. BfdTyped'
  BY <1>1, <1>2 DEF BfdInv, BfdTyped
<1>4. BfdRoutes'
  BY RemovedRoute
<1>5. NextHopsExact'
  <2> DEFINE n == bfd[s].nh
  <2>1. bfdRobbed \subseteq bfdRobbed'
        /\ ((\E t \in DOMAIN bfd \ {s} : bfd[t].nh = n) \/ n \in bfdLeaked.nhs => n \in bfdRobbed')
    BY DEF RemoveBfd
  <2>2. ASSUME NEW m \in BfdNhs \ bfdRobbed'
        PROVE  m \in bfdNhPool \ {n} <=>
                 m \in bfdLeaked.nhs \/ \E t \in DOMAIN bfd \ {s} : bfd[t].nh = m /\ bfd[t].kind # "iloop"
    <3>1. m \in bfdNhPool <=> m \in bfdLeaked.nhs \/ \E t \in DOMAIN bfd : bfd[t].nh = m /\ bfd[t].kind # "iloop"
      BY <2>1 DEF BfdInv, NextHopsExact
    <3> QED BY <2>1, <3>1
  <2> QED BY <1>1, <2>2 DEF NextHopsExact
<1> QED BY <1>3, <1>4, <1>5 DEF BfdInv

(* Every call keeps the invariant. *)
LEMMA BfdCallsKeep ==
  ASSUME BfdInv, [BfdNext]_bfdVars
  PROVE  BfdInv'
PROOF
<1>1. CASE UNCHANGED bfdVars
  BY <1>1 DEF bfdVars, BfdInv, BfdTyped, BfdRoutes, Kept, IpSessions, NextHopsExact
<1>2. CASE BfdNext
  BY <1>2, CreateBfdKeeps, RemoveBfdKeeps DEF BfdNext
<1> QED BY <1>1, <1>2

-----------------------------------------------------------------------------
(* Y.1731: groups, sessions and remote MEPs *)
(* The records; every session has a key of its own, whose local MEP has its *)
(* MEG, and a creation that is on its way has an id that is still free. *)
YRecs == [meg : Megs, key : MepKeys, attrs : [YAttrs -> YValues], list : SUBSET Rmeps]
YTyped ==
  /\ ySession \in [DOMAIN ySession -> YRecs] /\ IsFiniteSet(DOMAIN ySession)
  /\ DOMAIN ySession \subseteq YSessions
  /\ yLmep \in [DOMAIN yLmep -> [meg : Megs, attrs : [YAttrs -> YValues]]]
  /\ rmep \in [DOMAIN rmep -> YSessions] /\ DOMAIN rmep \subseteq Rmeps
  /\ yAsked \in [DOMAIN ySession -> [YAttrs -> YValues]]
YKeys == {ySession[s].key : s \in DOMAIN ySession}
YHang ==
  /\ \A r \in DOMAIN rmep : rmep[r] \in DOMAIN ySession
  /\ \A s \in DOMAIN ySession : /\ ySession[s].list = {r \in DOMAIN rmep : rmep[r] = s}
                                /\ ySession[s].meg \in megs
                                /\ yLmep[ySession[s].key].meg = ySession[s].meg
  /\ yRmep = {<<ySession[rmep[r]].key, r>> : r \in DOMAIN rmep}
  /\ DOMAIN yLmep = YKeys /\ maids = megs
  /\ \A s \in DOMAIN ySession : \A t \in DOMAIN ySession : ySession[s].key = ySession[t].key => s = t
YWaiting ==
  \A p \in yPending : p[1] \in Rmeps \ DOMAIN rmep /\ p[2] \in YSessions /\ yPending = {p}
YInv == ~yCrashed => YTyped /\ YHang /\ YWaiting /\ AttrsExact

(* What the invariant says of Y.1731. *)
LEMMA YGives == YInv => Y1731Exact
PROOF
<1> SUFFICES ASSUME YInv, ~yCrashed PROVE MepsExact
  BY DEF YInv, Y1731Exact
<1>1. YTyped /\ YHang
  BY DEF YInv
<1>2. Cardinality(DOMAIN yLmep) = Cardinality(DOMAIN ySession)
  <2> DEFINE f == [s \in DOMAIN ySession |-> ySession[s].key]
  <2>1. f \in Bijection(DOMAIN ySession, YKeys)
    <3>1. f \in [DOMAIN ySession -> YKeys] /\ (\A k \in YKeys : \E s \in DOMAIN ySession : f[s] = k)
      BY DEF YKeys
    <3>2. \A s \in DOMAIN ySession : \A t \in DOMAIN ySession : f[s] = f[t] => s = t
      BY <1>1 DEF YHang
    <3> QED BY <3>1, <3>2 DEF Bijection, Injection, Surjection, IsInjective
  <2> HIDE DEF f
  <2>2. Cardinality(YKeys) = Cardinality(DOMAIN ySession)
    <3>1. IsFiniteSet(DOMAIN ySession) /\ ExistsBijection(DOMAIN ySession, YKeys)
      BY <1>1, <2>1 DEF YTyped, ExistsBijection
    <3> QED BY ONLY <3>1, FS_Bijection
  <2> QED BY <1>1, <2>2 DEF YHang
<1> QED BY <1>1, <1>2 DEF YHang, YKeys, MepsExact

(* At first there is nothing. *)
LEMMA YInitially == Y1731Init => YInv
PROOF
<1> SUFFICES ASSUME Y1731Init PROVE YTyped /\ YHang /\ YWaiting /\ AttrsExact
  BY DEF YInv
<1>1. DOMAIN ySession = {} /\ DOMAIN rmep = {} /\ DOMAIN yLmep = {} /\ DOMAIN yAsked = {}
  BY DEF Y1731Init
<1>2. YTyped
  <2>1. IsFiniteSet(DOMAIN ySession)
    BY <1>1, FS_EmptySet
  <2>2. ySession = [x \in {} |-> 0] /\ rmep = [x \in {} |-> 0] /\ yLmep = [x \in {} |-> 0] /\ yAsked = [x \in {} |-> 0]
    BY DEF Y1731Init
  <2> QED BY <1>1, <2>1, <2>2 DEF YTyped
<1>3. YHang /\ YWaiting /\ AttrsExact
  BY <1>1 DEF Y1731Init, YHang, YWaiting, AttrsExact, YKeys
<1> QED BY <1>2, <1>3

(* A group comes, or goes when no local MEP has its name. *)
LEMMA MegKeeps ==
  ASSUME YInv, ~yCrashed, NEW g \in Megs, CreateMeg(g) \/ RemoveMeg(g)
  PROVE  YInv'
PROOF
<1>1. /\ UNCHANGED <<ySession, rmep, yLmep, yRmep, yPending, yAsked, yBent, yCrashed>>
      /\ megs' = maids'
  BY DEF CreateMeg, RemoveMeg, YInv, YHang
<1>2. YTyped /\ YHang /\ YWaiting /\ AttrsExact
  BY DEF YInv
<1>3. \A s \in DOMAIN ySession : ySession[s].meg \in megs'
  <2>1. CASE CreateMeg(g)
    BY <2>1, <1>2 DEF CreateMeg, YHang
  <2>2. CASE RemoveMeg(g)
    <3>1. \A s \in DOMAIN ySession : ySession[s].key \in DOMAIN yLmep
      BY <1>2 DEF YHang, YKeys
    <3> QED BY <2>2, <3>1, <1>2 DEF RemoveMeg, YHang
  <2> QED BY <2>1, <2>2
<1>4. YTyped' /\ YWaiting' /\ AttrsExact'
  BY <1>1, <1>2 DEF YTyped, YWaiting, AttrsExact
<1>5. YHang'
  BY <1>1, <1>2, <1>3 DEF YHang, YKeys
<1> QED BY <1>4, <1>5 DEF YInv

(* A session is created under a key that nobody has. *)
LEMMA CreateSessionKeeps ==
  ASSUME YInv, ~yCrashed, NEW s \in YSessions, NEW g \in Megs, NEW k \in MepKeys, CreateSession(s, g, k)
  PROVE  YInv'
PROOF
<1> DEFINE attrs == [a \in YAttrs |-> 0]
           r == [meg |-> g, key |-> k, attrs |-> attrs, list |-> {}]
           m == [meg |-> g, attrs |-> attrs]
<1>1. /\ s \notin DOMAIN ySession /\ g \in megs /\ k \notin DOMAIN yLmep
      /\ ySession' = With(ySession, s, r) /\ yLmep' = With(yLmep, k, m) /\ yAsked' = With(yAsked, s, attrs)
      /\ UNCHANGED <<megs, rmep, maids, yRmep, yPending, yBent, yCrashed>>
  BY DEF CreateSession
<1>2. YTyped /\ YHang /\ YWaiting /\ AttrsExact
  BY DEF YInv
<1>3. attrs \in [YAttrs -> YValues] /\ r \in YRecs /\ m \in [meg : Megs, attrs : [YAttrs -> YValues]]
  BY YAssumption DEF YRecs
<1>4. r.meg = g /\ r.key = k /\ r.attrs = attrs /\ r.list = {} /\ m.meg = g /\ m.attrs = attrs
  OBVIOUS
<1> HIDE DEF attrs, r, m
<1>5. /\ DOMAIN ySession' = DOMAIN ySession \cup {s} /\ ySession'[s] = r
      /\ \A t \in DOMAIN ySession : ySession'[t] = ySession[t]
  BY <1>1 DEF With
<1>6. /\ DOMAIN yLmep' = DOMAIN yLmep \cup {k} /\ yLmep'[k] = m
      /\ \A j \in DOMAIN yLmep : yLmep'[j] = yLmep[j]
  BY <1>1 DEF With
<1>7. /\ yAsked' \in [DOMAIN ySession' -> [YAttrs -> YValues]] /\ yAsked'[s] = attrs
      /\ \A t \in DOMAIN ySession : yAsked'[t] = yAsked[t]
  BY <1>1, <1>2, <1>3, <1>5 DEF With, YTyped
<1>8. \A t \in DOMAIN ySession : ySession[t].key \in DOMAIN yLmep /\ ySession[t].key # k
  BY <1>1, <1>2 DEF YHang, YKeys
<1>9. YTyped'
  <2>1. IsFiniteSet(DOMAIN ySession')
    <3>1. IsFiniteSet(DOMAIN ySession) /\ DOMAIN ySession' = DOMAIN ySession \cup {s}
      BY <1>2, <1>5 DEF YTyped
    <3> QED BY ONLY <3>1, FS_AddElement
  <2>2. ySession' \in [DOMAIN ySession' -> YRecs]
    BY <1>1, <1>2, <1>3 DEF With, YTyped
  <2>3. yLmep' \in [DOMAIN yLmep' -> [meg : Megs, attrs : [YAttrs -> YValues]]]
    BY <1>1, <1>2, <1>3 DEF With, YTyped
  <2>4. DOMAIN ySession' \subseteq YSessions
    BY <1>2, <1>5 DEF YTyped
  <2>5. rmep' \in [DOMAIN rmep' -> YSessions] /\ DOMAIN rmep' \subseteq Rmeps
    BY <1>1, <1>2 DEF YTyped
  <2>6. yAsked' \in [DOMAIN ySession' -> [YAttrs -> YValues]]
    BY <1>7
  <2> QED BY ONLY <2>1, <2>2, <2>3, <2>4, <2>5, <2>6 DEF YTyped
<1>10. YKeys' = YKeys \cup {k}
  BY <1>4, <1>5 DEF YKeys
<1>11. YHang'
  <2>1. \A x \in DOMAIN rmep : rmep[x] \in DOMAIN ySession /\ rmep[x] # s
    BY <1>1, <1>2 DEF YHang
  <2>2. ASSUME NEW t \in DOMAIN ySession'
        PROVE  /\ ySession'[t].list = {x \in DOMAIN rmep : rmep[x] = t}
               /\ ySession'[t].meg \in megs /\ yLmep'[ySession'[t].key].meg = ySession'[t].meg
    <3>1. CASE t = s
      BY <3>1, <2>1, <1>1, <1>4, <1>5, <1>6
    <3>2. CASE t # s
      BY <3>2, <1>2, <1>5, <1>6, <1>8 DEF YHang
    <3> QED BY <3>1, <3>2
  <2>3. \A x \in DOMAIN rmep : ySession'[rmep[x]].key = ySession[rmep[x]].key
    BY <2>1, <1>5
  <2>4. yRmep = {<<ySession'[rmep[x]].key, x>> : x \in DOMAIN rmep}
    BY <1>2, <2>3 DEF YHang
  <2>5. ASSUME NEW t \in DOMAIN ySession', NEW u \in DOMAIN ySession', ySession'[t].key = ySession'[u].key
        PROVE  t = u
    BY <2>5, <1>2, <1>4, <1>5, <1>8 DEF YHang
  <2>6. DOMAIN yLmep' = YKeys' /\ maids = megs
    BY <1>2, <1>6, <1>10 DEF YHang
  <2> QED BY <2>1, <2>2, <2>4, <2>5, <2>6, <1>1, <1>5 DEF YHang
<1>12. AttrsExact'
  <2> SUFFICES ASSUME NEW t \in DOMAIN ySession', NEW a \in YAttrs, <<t, a>> \notin yBent
               PROVE  ySession'[t].attrs[a] = yAsked'[t][a] /\ yLmep'[ySession'[t].key].attrs[a] = yAsked'[t][a]
    BY <1>1 DEF AttrsExact
  <2>1. CASE t = s
    BY <2>1, <1>4, <1>5, <1>6, <1>7
  <2>2. CASE t # s
    BY <2>2, <1>2, <1>5, <1>6, <1>7, <1>8 DEF AttrsExact
  <2> QED BY <2>1, <2>2
<1>13. YWaiting'
  BY <1>1, <1>2 DEF YWaiting
<1> QED BY <1>9, <1>11, <1>12, <1>13 DEF YInv

(* A session that goes has no remote MEPs. *)
LEMMA RemoveSessionKeeps ==
  ASSUME YInv, ~yCrashed, NEW s \in DOMAIN ySession, RemoveSession(s)
  PROVE  YInv'
PROOF
<1> DEFINE k == ySession[s].key
<1>1. /\ ySession[s].list = {} /\ yLmep' = Without(yLmep, k)
      /\ ySession' = Without(ySession, s) /\ yAsked' = Without(yAsked, s)
      /\ yBent' = {x \in yBent : x[1] # s}
      /\ UNCHANGED <<megs, rmep, maids, yRmep, yPending, yCrashed>>
  BY DEF RemoveSession, Removable
<1>2. YTyped /\ YHang /\ YWaiting /\ AttrsExact
  BY DEF YInv
<1>3. /\ DOMAIN ySession' = DOMAIN ySession \ {s}
      /\ \A t \in DOMAIN ySession \ {s} : ySession'[t] = ySession[t] /\ yAsked'[t] = yAsked[t]
  BY <1>1, <1>2 DEF Without, YTyped
<1>4. /\ DOMAIN yLmep' = DOMAIN yLmep \ {k}
      /\ \A j \in DOMAIN yLmep \ {k} : yLmep'[j] = yLmep[j]
  BY <1>1 DEF Without
<1>5. \A t \in DOMAIN ySession \ {s} : ySession[t].key \in DOMAIN yLmep \ {k}
  BY <1>2 DEF YHang, YKeys
<1>6. YTyped'
  <2>1. IsFiniteSet(DOMAIN ySession')
    BY <1>2, <1>3, FS_RemoveElement DEF YTyped
  <2>2. ySession' \in [DOMAIN ySession' -> YRecs]
    BY <1>1, <1>2 DEF Without, YTyped
  <2>3. yLmep' \in [DOMAIN yLmep' -> [meg : Megs, attrs : [YAttrs -> YValues]]]
    BY <1>1, <1>2 DEF Without, YTyped
  <2>4. yAsked' \in [DOMAIN ySession' -> [YAttrs -> YValues]]
    BY <1>1, <1>2 DEF Without, YTyped
  <2>5. DOMAIN ySession' \subseteq YSessions
    BY <1>2, <1>3 DEF YTyped
  <2>6. rmep' \in [DOMAIN rmep' -> YSessions] /\ DOMAIN rmep' \subseteq Rmeps
    BY <1>1, <1>2 DEF YTyped
  <2> QED BY ONLY <2>1, <2>2, <2>3, <2>4, <2>5, <2>6 DEF YTyped
<1>7. YHang'
  <2>1. \A x \in DOMAIN rmep : rmep[x] \in DOMAIN ySession \ {s}
    BY <1>1, <1>2 DEF YHang
  <2>2. \A t \in DOMAIN ySession' :
               /\ ySession'[t].list = {x \in DOMAIN rmep : rmep[x] = t}
               /\ ySession'[t].meg \in megs /\ yLmep'[ySession'[t].key].meg = ySession'[t].meg
    BY <1>2, <1>3, <1>4, <1>5 DEF YHang
  <2>3. \A x \in DOMAIN rmep : ySession'[rmep[x]].key = ySession[rmep[x]].key
    BY <2>1, <1>3
  <2>4. yRmep = {<<ySession'[rmep[x]].key, x>> : x \in DOMAIN rmep}
    BY <1>2, <2>3 DEF YHang
  <2>5. \A t \in DOMAIN ySession' : \A u \in DOMAIN ySession' : ySession'[t].key = ySession'[u].key => t = u
    BY <1>2, <1>3 DEF YHang
  <2>6. DOMAIN yLmep' = YKeys' /\ maids = megs
    <3>1. YKeys' = {ySession[t].key : t \in DOMAIN ySession \ {s}}
      BY <1>3 DEF YKeys
    <3>2. DOMAIN yLmep = YKeys
      BY <1>2 DEF YHang
    <3>3. \A t \in DOMAIN ySession \ {s} : ySession[t].key # k
      BY <1>5
    <3>4. YKeys = {ySession[t].key : t \in DOMAIN ySession \ {s}} \cup {k}
      BY DEF YKeys
    <3>5. k \notin {ySession[t].key : t \in DOMAIN ySession \ {s}}
      BY <3>3
    <3>6. maids = megs
      BY <1>2 DEF YHang
    <3>7. DOMAIN yLmep' = DOMAIN yLmep \ {k}
      BY <1>4
    <3> QED BY ONLY <3>1, <3>2, <3>4, <3>5, <3>6, <3>7
  <2> QED BY <2>1, <2>2, <2>4, <2>5, <2>6, <1>1, <1>3 DEF YHang
<1>8. AttrsExact'
  <2> SUFFICES ASSUME NEW t \in DOMAIN ySession', NEW a \in YAttrs, <<t, a>> \notin yBent'
               PROVE  ySession'[t].attrs[a] = yAsked'[t][a] /\ yLmep'[ySession'[t].key].attrs[a] = yAsked'[t][a]
    BY DEF AttrsExact
  <2>1. <<t, a>> \notin yBent
    BY <1>1, <1>3
  <2> QED BY <2>1, <1>2, <1>3, <1>4, <1>5 DEF AttrsExact
<1>9. YWaiting'
  BY <1>1, <1>2 DEF YWaiting
<1> QED BY <1>6, <1>7, <1>8, <1>9 DEF YInv

(* What a set of attribute a does to attribute x, in a record or the engine.*)
Overwritten(f, W, v) == [x \in YAttrs |-> IF x \in W THEN v ELSE f[x]]

(* A set: the record and the engine get it, or what was asked is bent. *)
LEMMA SetSessionKeeps ==
  ASSUME YInv, ~yCrashed, NEW s \in DOMAIN ySession, NEW a \in YAttrs, NEW v \in YValues, SetSession(s, a, v)
  PROVE  YInv'
PROOF
<1> DEFINE k == ySession[s].key
           fr == Overwritten(ySession[s].attrs, RecordWrites(a), v)
           fe == Overwritten(yLmep[k].attrs, EngineWrites(a), v)
<1>1. /\ ySession' = [ySession EXCEPT ![s].attrs = fr]
      /\ yLmep' = [yLmep EXCEPT ![k].attrs = fe]
      /\ yAsked' = [yAsked EXCEPT ![s][a] = v]
      /\ yBent' = (yBent \ {<<s, a>>}) \cup
           {<<s, x>> : x \in (RecordWrites(a) \cup EngineWrites(a)) \ {a}} \cup
           (IF a = "rdi" THEN {<<s, "rdi">>} ELSE {})
      /\ UNCHANGED <<megs, rmep, maids, yRmep, yPending, yCrashed>>
  BY DEF SetSession, Overwritten
<1>2. YTyped /\ YHang /\ YWaiting /\ AttrsExact
  BY DEF YInv
<1>3. /\ ySession[s] \in YRecs /\ k \in DOMAIN yLmep /\ yLmep[k] \in [meg : Megs, attrs : [YAttrs -> YValues]]
      /\ yAsked[s] \in [YAttrs -> YValues]
  BY <1>2 DEF YTyped, YHang, YKeys
<1>4. fr \in [YAttrs -> YValues] /\ fe \in [YAttrs -> YValues]
  BY <1>3 DEF Overwritten, YRecs
<1>5. \A x \in YAttrs : /\ fr[x] = IF x \in RecordWrites(a) THEN v ELSE ySession[s].attrs[x]
                        /\ fe[x] = IF x \in EngineWrites(a) THEN v ELSE yLmep[k].attrs[x]
  BY DEF Overwritten
<1> HIDE DEF fr, fe
<1>6. /\ DOMAIN ySession' = DOMAIN ySession
      /\ ySession'[s] = [ySession[s] EXCEPT !.attrs = fr]
      /\ \A t \in DOMAIN ySession \ {s} : ySession'[t] = ySession[t]
  BY <1>1, <1>2 DEF YTyped
<1>7. /\ ySession'[s] \in YRecs /\ ySession'[s].attrs = fr /\ ySession'[s].key = k
      /\ ySession'[s].meg = ySession[s].meg /\ ySession'[s].list = ySession[s].list
  BY <1>3, <1>4, <1>6 DEF YRecs
<1>8. /\ DOMAIN yLmep' = DOMAIN yLmep /\ yLmep'[k] = [yLmep[k] EXCEPT !.attrs = fe]
      /\ \A j \in DOMAIN yLmep \ {k} : yLmep'[j] = yLmep[j]
  BY <1>1, <1>2, <1>3 DEF YTyped
<1>9. yLmep'[k] \in [meg : Megs, attrs : [YAttrs -> YValues]] /\ yLmep'[k].attrs = fe /\ yLmep'[k].meg = yLmep[k].meg
  BY <1>3, <1>4, <1>8
<1>10. /\ yAsked' \in [DOMAIN ySession -> [YAttrs -> YValues]]
       /\ \A t \in DOMAIN ySession \ {s} : yAsked'[t] = yAsked[t]
       /\ \A x \in YAttrs : yAsked'[s][x] = IF x = a THEN v ELSE yAsked[s][x]
  BY <1>1, <1>2, <1>3 DEF YTyped
<1>11. \A t \in DOMAIN ySession : ySession'[t].key = ySession[t].key /\ ySession'[t].meg = ySession[t].meg
                                  /\ ySession'[t].list = ySession[t].list
  BY <1>6, <1>7
<1>12. \A t \in DOMAIN ySession \ {s} : ySession[t].key \in DOMAIN yLmep \ {k}
  BY <1>2 DEF YHang, YKeys
<1>13. YTyped'
  <2>1. ySession' \in [DOMAIN ySession' -> YRecs]
    <3>1. \A t \in DOMAIN ySession : ySession'[t] \in YRecs
      BY <1>2, <1>6, <1>7 DEF YTyped
    <3>2. ySession' = [t \in DOMAIN ySession |-> ySession'[t]]
      BY <1>1, <1>2 DEF YTyped
    <3> QED BY <3>1, <3>2, <1>6
  <2>2. yLmep' \in [DOMAIN yLmep' -> [meg : Megs, attrs : [YAttrs -> YValues]]]
    <3>1. \A j \in DOMAIN yLmep : yLmep'[j] \in [meg : Megs, attrs : [YAttrs -> YValues]]
      BY <1>2, <1>8, <1>9 DEF YTyped
    <3>2. yLmep' = [j \in DOMAIN yLmep |-> yLmep'[j]]
      BY <1>1, <1>2 DEF YTyped
    <3> QED BY <3>1, <3>2, <1>8
  <2> QED BY <2>1, <2>2, <1>1, <1>2, <1>6, <1>10 DEF YTyped
<1>14. YHang'
  <2>1. \A t \in DOMAIN ySession : yLmep'[ySession[t].key].meg = yLmep[ySession[t].key].meg
    BY <1>8, <1>9, <1>12
  <2>2. YKeys' = YKeys
    BY <1>6, <1>11 DEF YKeys
  <2>3. \A x \in DOMAIN rmep : ySession'[rmep[x]].key = ySession[rmep[x]].key
    BY <1>2, <1>11 DEF YHang
  <2>4. yRmep = {<<ySession'[rmep[x]].key, x>> : x \in DOMAIN rmep}
    BY <1>2, <2>3 DEF YHang
  <2>5. \A t \in DOMAIN ySession : /\ ySession'[t].list = {x \in DOMAIN rmep : rmep[x] = t}
                                   /\ ySession'[t].meg \in megs
                                   /\ yLmep'[ySession'[t].key].meg = ySession'[t].meg
    BY <1>2, <1>11, <2>1 DEF YHang
  <2>6. \A t \in DOMAIN ySession : \A u \in DOMAIN ySession : ySession'[t].key = ySession'[u].key => t = u
    BY <1>2, <1>11 DEF YHang
  <2>7. DOMAIN ySession' = DOMAIN ySession /\ DOMAIN yLmep' = YKeys' /\ maids' = megs' /\ megs' = megs
    BY <2>2, <1>1, <1>2, <1>6, <1>8 DEF YHang
  <2>8. rmep' = rmep /\ yRmep' = yRmep /\ \A x \in DOMAIN rmep : rmep[x] \in DOMAIN ySession
    BY <1>1, <1>2 DEF YHang
  <2> QED BY ONLY <2>4, <2>5, <2>6, <2>7, <2>8 DEF YHang
<1>15. AttrsExact'
  <2> SUFFICES ASSUME NEW t \in DOMAIN ySession, NEW x \in YAttrs, <<t, x>> \notin yBent'
               PROVE  ySession'[t].attrs[x] = yAsked'[t][x] /\ yLmep'[ySession'[t].key].attrs[x] = yAsked'[t][x]
    BY <1>6 DEF AttrsExact
  <2>1. CASE t # s
    <3>1. <<t, x>> \notin yBent
      BY <2>1, <1>1
    <3> QED BY <2>1, <3>1, <1>2, <1>6, <1>8, <1>10, <1>12 DEF AttrsExact
  <2>2. CASE t = s /\ x = a
    <3>1. a # "rdi"
      BY <2>2, <1>1
    <3>2. a \in RecordWrites(a) /\ a \in EngineWrites(a)
      BY <3>1 DEF RecordWrites, EngineWrites
    <3> QED BY <2>2, <3>2, <1>5, <1>7, <1>9, <1>10
  <2>3. CASE t = s /\ x # a
    <3>1. x \notin RecordWrites(a) /\ x \notin EngineWrites(a) /\ <<s, x>> \notin yBent
      BY <2>3, <1>1
    <3>2. ySession[s].attrs[x] = yAsked[s][x] /\ yLmep[k].attrs[x] = yAsked[s][x]
      BY <3>1, <1>2 DEF AttrsExact
    <3> QED BY <2>3, <3>1, <3>2, <1>5, <1>7, <1>9, <1>10
  <2> QED BY <2>1, <2>2, <2>3
<1>16. YWaiting'
  BY <1>1, <1>2 DEF YWaiting
<1> QED BY <1>13, <1>14, <1>15, <1>16 DEF YInv

(* The check of a remote MEP's creation. *)
LEMMA RequestKeeps ==
  ASSUME YInv, ~yCrashed, NEW r \in Rmeps, NEW s \in DOMAIN ySession, RequestRmep(r, s)
  PROVE  YInv'
PROOF
<1>1. /\ r \notin DOMAIN rmep /\ yPending' = {<<r, s>>}
      /\ UNCHANGED <<megs, ySession, rmep, maids, yLmep, yRmep, yAsked, yBent, yCrashed>>
  BY DEF RequestRmep
<1>2. YTyped /\ YHang /\ YWaiting /\ AttrsExact
  BY DEF YInv
<1>3. s \in YSessions
  BY <1>2 DEF YTyped
<1>4. YTyped' /\ YHang' /\ AttrsExact'
  BY <1>1, <1>2 DEF YTyped, YHang, AttrsExact, YKeys
<1>5. YWaiting'
  BY <1>1, <1>3 DEF YWaiting
<1> QED BY <1>4, <1>5 DEF YInv

(* Lists may change as long as the other fields do not. *)
ListsStep(L) ==
  /\ ySession' = [t \in DOMAIN ySession |-> [ySession[t] EXCEPT !.list = L[t]]]
  /\ \A t \in DOMAIN ySession : L[t] \in SUBSET Rmeps
  /\ UNCHANGED <<megs, maids, yLmep, yAsked, yBent>>
  /\ rmep' \in [DOMAIN rmep' -> YSessions] /\ DOMAIN rmep' \subseteq Rmeps
  /\ \A x \in DOMAIN rmep' : rmep'[x] \in DOMAIN ySession
  /\ \A t \in DOMAIN ySession : L[t] = {x \in DOMAIN rmep' : rmep'[x] = t}
  /\ yRmep' = {<<ySession[rmep'[x]].key, x>> : x \in DOMAIN rmep'}

(* Such a change keeps what the records say. *)
LEMMA ListsWritten ==
  ASSUME YTyped, YHang, AttrsExact, NEW L, ListsStep(L)
  PROVE  YTyped' /\ YHang' /\ AttrsExact'
PROOF
<1> USE DEF ListsStep
<1>1. DOMAIN ySession' = DOMAIN ySession
  OBVIOUS
<1>2. \A t \in DOMAIN ySession : ySession[t] \in YRecs /\ ySession'[t] = [ySession[t] EXCEPT !.list = L[t]]
  BY DEF YTyped
<1>3. \A t \in DOMAIN ySession :
         /\ ySession'[t] \in YRecs /\ ySession'[t].list = L[t] /\ ySession'[t].key = ySession[t].key
         /\ ySession'[t].meg = ySession[t].meg /\ ySession'[t].attrs = ySession[t].attrs
  BY <1>2 DEF YRecs
<1>4. YTyped'
  <2>1. ySession' \in [DOMAIN ySession' -> YRecs]
    BY <1>1, <1>3
  <2>2. IsFiniteSet(DOMAIN ySession') /\ DOMAIN ySession' \subseteq YSessions
    BY <1>1 DEF YTyped
  <2>3. yLmep' \in [DOMAIN yLmep' -> [meg : Megs, attrs : [YAttrs -> YValues]]]
    BY DEF YTyped
  <2>4. yAsked' \in [DOMAIN ySession' -> [YAttrs -> YValues]]
    BY <1>1 DEF YTyped
  <2>5. rmep' \in [DOMAIN rmep' -> YSessions] /\ DOMAIN rmep' \subseteq Rmeps
    OBVIOUS
  <2> HIDE DEF ListsStep
  <2> QED BY ONLY <2>1, <2>2, <2>3, <2>4, <2>5 DEF YTyped
<1>5. YHang'
  <2>1. \A x \in DOMAIN rmep' : ySession'[rmep'[x]].key = ySession[rmep'[x]].key
    BY <1>3
  <2>2. yRmep' = {<<ySession'[rmep'[x]].key, x>> : x \in DOMAIN rmep'}
    BY <2>1
  <2>3. YKeys' = YKeys
    BY <1>1, <1>3 DEF YKeys
  <2>4. \A t \in DOMAIN ySession : /\ ySession'[t].list = {x \in DOMAIN rmep' : rmep'[x] = t}
                                   /\ ySession'[t].meg \in megs
                                   /\ yLmep[ySession'[t].key].meg = ySession'[t].meg
    BY <1>3 DEF YHang
  <2>5. \A t \in DOMAIN ySession : \A u \in DOMAIN ySession : ySession'[t].key = ySession'[u].key => t = u
    BY <1>3 DEF YHang
  <2>6. DOMAIN ySession' = DOMAIN ySession /\ DOMAIN yLmep' = YKeys' /\ maids' = megs' /\ megs' = megs /\ yLmep' = yLmep
    BY <2>3, <1>1 DEF YHang
  <2>7. \A x \in DOMAIN rmep' : rmep'[x] \in DOMAIN ySession
    OBVIOUS
  <2> HIDE DEF ListsStep
  <2> QED BY ONLY <2>2, <2>4, <2>5, <2>6, <2>7 DEF YHang
<1>6. AttrsExact'
  BY <1>1, <1>3 DEF AttrsExact
<1> QED BY <1>4, <1>5, <1>6

(* The rest of it, which finds the session or crashes. *)
LEMMA CreateRmepKeeps ==
  ASSUME YInv, ~yCrashed, NEW p \in yPending, CreateRmep(p[1], p[2])
  PROVE  YInv'
PROOF
<1> DEFINE r == p[1]
           s == p[2]
           L == [t \in DOMAIN ySession |-> IF t = s THEN ySession[t].list \cup {r} ELSE ySession[t].list]
<1>1. CASE s \notin DOMAIN ySession
  BY <1>1 DEF CreateRmep, YInv
<1>2. CASE s \in DOMAIN ySession
  <2>1. YTyped /\ YHang /\ YWaiting /\ AttrsExact
    BY DEF YInv
  <2>2. /\ yPending' = {} /\ rmep' = With(rmep, r, s) /\ yRmep' = yRmep \cup {<<ySession[s].key, r>>}
        /\ ySession' = [ySession EXCEPT ![s].list = @ \cup {r}]
        /\ UNCHANGED <<megs, maids, yLmep, yAsked, yBent, yCrashed>>
    BY <1>2 DEF CreateRmep
  <2>3. r \in Rmeps \ DOMAIN rmep /\ s \in YSessions
    BY <2>1 DEF YWaiting
  <2> HIDE DEF r, s
  <2>4. /\ DOMAIN rmep' = DOMAIN rmep \cup {r} /\ rmep'[r] = s
        /\ \A x \in DOMAIN rmep : rmep'[x] = rmep[x]
        /\ rmep' = [x \in DOMAIN rmep \cup {r} |-> IF x = r THEN s ELSE rmep[x]]
    BY <2>2, <2>3 DEF With
  <2>5. rmep' \in [DOMAIN rmep' -> YSessions]
    BY <2>1, <2>3, <2>4 DEF YTyped
  <2>6. \A x \in DOMAIN rmep' : rmep'[x] \in DOMAIN ySession
    BY <2>1, <2>4, <1>2 DEF YHang
  <2>7. ySession' = [t \in DOMAIN ySession |-> [ySession[t] EXCEPT !.list = L[t]]]
    <3>1. \A t \in DOMAIN ySession : ySession[t] \in YRecs
      BY <2>1 DEF YTyped
    <3>2. \A t \in DOMAIN ySession : ySession[t] = [ySession[t] EXCEPT !.list = ySession[t].list]
      BY <3>1 DEF YRecs
    <3> QED BY <2>2, <3>2, <1>2
  <2>8. \A t \in DOMAIN ySession : L[t] \in SUBSET Rmeps /\ L[t] = {x \in DOMAIN rmep' : rmep'[x] = t}
    <3>1. \A t \in DOMAIN ySession : ySession[t].list = {x \in DOMAIN rmep : rmep[x] = t} /\ ySession[t].list \in SUBSET Rmeps
      BY <2>1 DEF YHang, YTyped
    <3>2. \A t \in DOMAIN ySession : L[t] = IF t = s THEN ySession[t].list \cup {r} ELSE ySession[t].list
      OBVIOUS
    <3> HIDE DEF L
    <3>3. ASSUME NEW t \in DOMAIN ySession PROVE L[t] = {x \in DOMAIN rmep' : rmep'[x] = t}
      <4>1. ASSUME NEW x PROVE x \in L[t] <=> x \in DOMAIN rmep' /\ rmep'[x] = t
        <5>1. x \in ySession[t].list <=> x \in DOMAIN rmep /\ rmep[x] = t
          BY <3>1
        <5>2. x \in L[t] <=> x \in ySession[t].list \/ (t = s /\ x = r)
          BY <3>2
        <5> QED BY ONLY <5>1, <5>2, <2>3, <2>4
      <4> QED BY <4>1
    <3>4. ASSUME NEW t \in DOMAIN ySession PROVE L[t] \in SUBSET Rmeps
      <4>1. ySession[t].list \subseteq Rmeps /\ r \in Rmeps
        BY <3>1, <2>3
      <4>2. L[t] = ySession[t].list \/ L[t] = ySession[t].list \cup {r}
        BY <3>2
      <4> QED BY ONLY <4>1, <4>2
    <3> QED BY ONLY <3>3, <3>4
  <2>9. yRmep' = {<<ySession[rmep'[x]].key, x>> : x \in DOMAIN rmep'}
    <3>1. yRmep = {<<ySession[rmep[x]].key, x>> : x \in DOMAIN rmep}
      BY <2>1 DEF YHang
    <3>2. \A x \in DOMAIN rmep : ySession[rmep'[x]].key = ySession[rmep[x]].key
      BY <2>4
    <3> QED BY <3>1, <3>2, <2>2, <2>4
  <2>10. DOMAIN rmep' \subseteq Rmeps
    BY <2>1, <2>3, <2>4 DEF YTyped
  <2> HIDE DEF L
  <2>11. YTyped' /\ YHang' /\ AttrsExact'
    <3>1. ListsStep(L)
      BY ONLY <2>2, <2>5, <2>6, <2>7, <2>8, <2>9, <2>10 DEF ListsStep
    <3> QED BY <2>1, <3>1, ListsWritten
  <2> QED BY <2>2, <2>11 DEF YInv, YWaiting
<1> QED BY <1>1, <1>2

(* A remote MEP goes. *)
LEMMA RemoveRmepKeeps ==
  ASSUME YInv, ~yCrashed, NEW r \in DOMAIN rmep, RemoveRmep(r)
  PROVE  YInv'
PROOF
<1> DEFINE s == rmep[r]
           L == [t \in DOMAIN ySession |-> IF t = s THEN ySession[t].list \ {r} ELSE ySession[t].list]
<1>1. YTyped /\ YHang /\ YWaiting /\ AttrsExact
  BY DEF YInv
<1>2. /\ s \in DOMAIN ySession /\ yRmep' = yRmep \ {<<ySession[s].key, r>>}
      /\ ySession' = [ySession EXCEPT ![s].list = @ \ {r}] /\ rmep' = Without(rmep, r)
      /\ UNCHANGED <<megs, maids, yLmep, yPending, yAsked, yBent, yCrashed>>
  BY DEF RemoveRmep
<1>3. /\ DOMAIN rmep' = DOMAIN rmep \ {r} /\ rmep' = [x \in DOMAIN rmep \ {r} |-> rmep[x]]
      /\ \A x \in DOMAIN rmep \ {r} : rmep'[x] = rmep[x]
  BY <1>2 DEF Without
<1>4. rmep' \in [DOMAIN rmep' -> YSessions] /\ DOMAIN rmep' \subseteq Rmeps
  BY <1>1, <1>3 DEF YTyped
<1>5. \A x \in DOMAIN rmep' : rmep'[x] \in DOMAIN ySession
  BY <1>1, <1>3 DEF YHang
<1>6. ySession' = [t \in DOMAIN ySession |-> [ySession[t] EXCEPT !.list = L[t]]]
  <2>1. \A t \in DOMAIN ySession : ySession[t] \in YRecs
    BY <1>1 DEF YTyped
  <2>2. \A t \in DOMAIN ySession : ySession[t] = [ySession[t] EXCEPT !.list = ySession[t].list]
    BY <2>1 DEF YRecs
  <2>3. \A t \in DOMAIN ySession : L[t] = IF t = s THEN ySession[t].list \ {r} ELSE ySession[t].list
    OBVIOUS
  <2>4. ySession = [t \in DOMAIN ySession |-> ySession[t]]
    BY <1>1 DEF YTyped
  <2> HIDE DEF L
  <2>5. ySession' = [t \in DOMAIN ySession |-> IF t = s THEN [ySession[t] EXCEPT !.list = @ \ {r}] ELSE ySession[t]]
    BY <1>2, <2>4
  <2>6. \A t \in DOMAIN ySession : (IF t = s THEN [ySession[t] EXCEPT !.list = @ \ {r}] ELSE ySession[t])
                                   = [ySession[t] EXCEPT !.list = L[t]]
    BY ONLY <2>2, <2>3
  <2> QED BY ONLY <2>5, <2>6
<1>7. \A t \in DOMAIN ySession : L[t] \in SUBSET Rmeps /\ L[t] = {x \in DOMAIN rmep' : rmep'[x] = t}
  <2>1. \A t \in DOMAIN ySession : ySession[t].list = {x \in DOMAIN rmep : rmep[x] = t} /\ ySession[t].list \in SUBSET Rmeps
    BY <1>1 DEF YHang, YTyped
  <2>2. \A t \in DOMAIN ySession : L[t] = IF t = s THEN ySession[t].list \ {r} ELSE ySession[t].list
    OBVIOUS
  <2> HIDE DEF L
  <2>3. ASSUME NEW t \in DOMAIN ySession PROVE L[t] = {x \in DOMAIN rmep' : rmep'[x] = t}
    <3>1. ASSUME NEW x PROVE x \in L[t] <=> x \in DOMAIN rmep' /\ rmep'[x] = t
      <4>1. x \in ySession[t].list <=> x \in DOMAIN rmep /\ rmep[x] = t
        BY <2>1
      <4>2. x \in L[t] <=> x \in ySession[t].list /\ ~(t = s /\ x = r)
        BY <2>2
      <4>3. rmep[r] = s
        OBVIOUS
      <4> QED BY ONLY <4>1, <4>2, <4>3, <1>3
    <3> QED BY <3>1
  <2> QED BY <2>1, <2>2, <2>3
<1>8. yRmep' = {<<ySession[rmep'[x]].key, x>> : x \in DOMAIN rmep'}
  <2>1. yRmep = {<<ySession[rmep[x]].key, x>> : x \in DOMAIN rmep}
    BY <1>1 DEF YHang
  <2>2. \A x \in DOMAIN rmep \ {r} : ySession[rmep'[x]].key = ySession[rmep[x]].key
    BY <1>3
  <2> QED BY <2>1, <2>2, <1>2, <1>3
<1> HIDE DEF L
<1>9. YTyped' /\ YHang' /\ AttrsExact'
  <2>1. ListsStep(L)
    BY ONLY <1>2, <1>4, <1>5, <1>6, <1>7, <1>8 DEF ListsStep
  <2> QED BY <1>1, <2>1, ListsWritten
<1>10. YWaiting'
  BY <1>1, <1>2, <1>3 DEF YWaiting
<1> QED BY <1>2, <1>9, <1>10 DEF YInv

(* A warm restart brings every list back. *)
LEMMA WarmKeeps ==
  ASSUME YInv, ~yCrashed, YWarmRestart
  PROVE  YInv'
PROOF
<1> DEFINE saved == UNION {{s} \X ySession[s].list : s \in DOMAIN ySession}
<1>1. YTyped /\ YHang /\ YWaiting /\ AttrsExact
  BY DEF YInv
<1>2. /\ ySession' = [s \in DOMAIN ySession |-> [ySession[s] EXCEPT !.list = Reloaded(s, saved)]]
      /\ UNCHANGED <<megs, rmep, maids, yLmep, yRmep, yPending, yAsked, yBent, yCrashed>>
  BY DEF YWarmRestart
<1>3. ASSUME NEW s \in DOMAIN ySession PROVE Reloaded(s, saved) = ySession[s].list
  <2>1. ASSUME NEW x \in ySession[s].list PROVE x \in Reloaded(s, saved)
    <3>1. <<s, x>> \in {s} \X ySession[s].list
      OBVIOUS
    <3>2. <<s, x>> \in {q \in saved : q[1] = s}
      BY <3>1
    <3> QED BY <3>2 DEF Reloaded
  <2>2. ASSUME NEW x \in Reloaded(s, saved) PROVE x \in ySession[s].list
    <3>1. PICK q \in saved : q[1] = s /\ x = q[2]
      BY DEF Reloaded
    <3>2. PICK t \in DOMAIN ySession : q \in {t} \X ySession[t].list
      BY <3>1
    <3>3. q[1] = t /\ q[2] \in ySession[t].list
      BY <3>2
    <3> QED BY <3>1, <3>3
  <2> QED BY <2>1, <2>2
<1> HIDE DEF saved
<1>4. \A s \in DOMAIN ySession : [ySession[s] EXCEPT !.list = ySession[s].list] = ySession[s]
  <2>1. \A s \in DOMAIN ySession : ySession[s] \in YRecs
    BY <1>1 DEF YTyped
  <2> QED BY <2>1 DEF YRecs
<1>5. ySession' = ySession
  <2>1. ySession = [s \in DOMAIN ySession |-> ySession[s]]
    BY <1>1 DEF YTyped
  <2>2. ySession' = [s \in DOMAIN ySession |-> ySession[s]]
    BY <1>2, <1>3, <1>4
  <2> QED BY <2>1, <2>2
<1>6. YTyped' /\ YHang' /\ YWaiting' /\ AttrsExact'
  <2>1. UNCHANGED <<megs, ySession, rmep, maids, yLmep, yRmep, yPending, yAsked, yBent>>
    BY <1>2, <1>5
  <2>2. YTyped'
    BY ONLY <1>1, <2>1 DEF YTyped
  <2>3. YHang'
    BY ONLY <1>1, <2>1 DEF YHang, YKeys
  <2>4. YWaiting' /\ AttrsExact'
    BY ONLY <1>1, <2>1 DEF YWaiting, AttrsExact
  <2> QED BY <2>2, <2>3, <2>4
<1> QED BY <1>6 DEF YInv

(* Every call keeps the invariant. *)
LEMMA YCallsKeep ==
  ASSUME YInv, [Y1731Next]_y1731Vars
  PROVE  YInv'
PROOF
<1>1. CASE UNCHANGED y1731Vars
  BY <1>1 DEF y1731Vars, YInv, YTyped, YHang, YWaiting, AttrsExact, YKeys
<1>2. CASE Y1731Next
  <2>1. CASE yCrashed
    <3>1. UNCHANGED y1731Vars
      BY <1>2, <2>1 DEF Y1731Next
    <3> QED BY <3>1, <1>1
  <2>2. CASE ~yCrashed
    BY <1>2, <2>2, MegKeeps, CreateSessionKeeps, RemoveSessionKeeps, SetSessionKeeps, RequestKeeps,
       CreateRmepKeeps, RemoveRmepKeeps, WarmKeeps DEF Y1731Next
  <2> QED BY <2>1, <2>2
<1> QED BY <1>1, <1>2

-----------------------------------------------------------------------------
(* TWAMP: the sessions and what they take *)
TwRecs == [port : TwPorts, v4 : BOOLEAN, hw : BOOLEAN, tx : BOOLEAN, set : BOOLEAN,
           nh : {0} \cup TwNhs, loop : BOOLEAN]
TwTyped ==
  /\ tSess \in [DOMAIN tSess -> TwRecs] /\ tGone \subseteq DOMAIN tSess
  /\ tNhs \subseteq TwNhs /\ OtherNhs \subseteq tNhs \cup tRobbed

(* Every id is free, in use or lost. *)
TwPool ==
  /\ TwIds = tFree \cup DOMAIN tSess \cup tLost
  /\ tFree \cap (DOMAIN tSess \cup tLost) = {} /\ DOMAIN tSess \cap tLost = {}

(* The index twamp_mep_index keeps is that of a MEP; so are those of the *)
(* entries, and a loop that nobody robbed has a next hop of its own. *)
TwLive == DOMAIN tSess \ tGone
TwKept ==
  /\ tMeps # {} => tLast \in tMeps
  /\ DOMAIN tEntry \subseteq TwLive
  /\ DOMAIN tSess # {} /\ tGone = {} => tMac
  /\ \A s \in DOMAIN tSess : tSess[s].loop => tSess[s].hw
  /\ \A s \in TwLive :
       /\ tSess[s].v4 => s \in DOMAIN tEntry /\ tEntry[s] \in tMeps
       /\ tSess[s].set => (s \in tSends) = tSess[s].tx
TwLoops ==
  \A s \in TwLive :
    tSess[s].loop /\ tSess[s].nh \notin tRobbed =>
      /\ tSess[s].nh \in tNhs
      /\ \A t \in TwLive : tSess[t].loop /\ tSess[t].nh = tSess[s].nh => t = s
TwInv == TwTyped /\ TwPool /\ TwKept /\ TwLoops

(* What the invariant says of TWAMP. *)
LEMMA TwGives == TwInv => TwampExact
PROOF
<1> SUFFICES ASSUME TwInv PROVE TwampExact
  OBVIOUS
<1>1. ASSUME NEW s \in DOMAIN tSess \ tGone
      PROVE  LET rec == tSess[s] IN
             /\ rec.v4 => s \in DOMAIN tEntry /\ tEntry[s] \in tMeps
             /\ rec.v4 /\ tMeps = {rec.port} => tEntry[s] = rec.port
             /\ rec.loop /\ rec.nh \notin tRobbed => rec.nh \in tNhs /\ Holders(rec.nh) = {s}
             /\ rec.set => (s \in tSends) = rec.tx
             /\ tGone = {} => tMac
  <2>1. s \in TwLive
    BY DEF TwLive
  <2>2. tSess[s].v4 => s \in DOMAIN tEntry /\ tEntry[s] \in tMeps
    BY <2>1 DEF TwInv, TwKept
  <2>3. ASSUME tSess[s].loop, tSess[s].nh \notin tRobbed
        PROVE  tSess[s].nh \in tNhs /\ Holders(tSess[s].nh) = {s}
    BY <2>1, <2>3 DEF TwInv, TwLoops, Holders, TwLive
  <2>4. (tSess[s].set => (s \in tSends) = tSess[s].tx) /\ (tGone = {} => tMac)
    BY <2>1 DEF TwInv, TwKept
  <2> QED BY <2>2, <2>3, <2>4
<1>2. DOMAIN tEntry \subseteq DOMAIN tSess \ tGone
  BY DEF TwInv, TwKept, TwLive
<1> QED BY <1>1, <1>2 DEF TwInv, TwTyped, TwPool, TwampExact

(* At first there is nothing. *)
LEMMA TwInitially == TwInit => TwInv
PROOF
<1> SUFFICES ASSUME TwInit PROVE TwInv
  OBVIOUS
<1>1. /\ DOMAIN tSess = {} /\ DOMAIN tEntry = {} /\ tFree = TwIds
      /\ tMeps = {} /\ tNhs = OtherNhs /\ tGone = {} /\ tLost = {} /\ tRobbed = {}
  BY DEF TwInit
<1>2. TwTyped
  <2>1. tSess = [x \in {} |-> 0]
    BY DEF TwInit
  <2> QED BY <1>1, <2>1, TwampAssumption DEF TwTyped
<1> QED BY <1>1, <1>2 DEF TwInv, TwPool, TwKept, TwLoops, TwLive

(* The id and the next hop that a creation takes. *)
LEMMA FreeIdFact ==
  ASSUME TwInv, tFree # {}
  PROVE  Min(tFree) \in tFree /\ Min(tFree) \in TwIds /\ Min(tFree) \notin DOMAIN tSess
PROOF
<1>1. tFree \in SUBSET Nat
  BY TwampAssumption DEF TwInv, TwPool
<1>2. Min(tFree) \in tFree
  BY <1>1, MinFact
<1> QED BY <1>2 DEF TwInv, TwPool

(* The next hop. *)
LEMMA LoopNhFact ==
  ASSUME TwNhs \ tNhs # {}
  PROVE  LoopNh \in TwNhs /\ LoopNh \notin tNhs
PROOF
<1>1. TwNhs \ tNhs \in SUBSET Nat
  BY TwampAssumption
<1>2. Min(TwNhs \ tNhs) \in TwNhs \ tNhs
  BY <1>1, MinFact
<1> QED BY <1>2 DEF LoopNh

(* The index of a port's MEP is that of one there is then. *)
LEMMA MepIndexFact ==
  ASSUME TwInv, NEW p
  PROVE  MepIndex(p) \in tMeps \cup {p}
BY DEF TwInv, TwKept, MepIndex

(* A creation. *)
LEMMA CreateTwampKeeps ==
  ASSUME TwInv, NEW r \in TwRequests, CreateTwamp(r)
  PROVE  TwInv'
PROOF
<1> DEFINE s == Min(tFree)
           nh == IF TakesLoop(r) THEN LoopNh ELSE r.nh
           c == [port |-> r.port, v4 |-> r.v4, hw |-> r.hw, tx |-> r.tx, set |-> FALSE,
                 nh |-> nh, loop |-> TakesLoop(r)]
<1>1. /\ tFree # {} /\ (TakesLoop(r) => TwNhs \ tNhs # {})
      /\ tFree' = tFree \ {s}
      /\ tSess' = [x \in DOMAIN tSess \cup {s} |-> IF x = s THEN c ELSE tSess[x]]
      /\ tEntry' = IF r.v4 THEN [x \in DOMAIN tEntry \cup {s} |-> IF x = s THEN MepIndex(r.port) ELSE tEntry[x]]
                   ELSE tEntry
      /\ tNhs' = IF TakesLoop(r) THEN tNhs \cup {nh} ELSE tNhs
      /\ tMeps' = tMeps \cup {r.port} /\ tLast' = MepIndex(r.port) /\ tMac' = TRUE
      /\ UNCHANGED <<tSends, tGone, tLost, tRobbed>>
  BY DEF CreateTwamp
<1>2. s \in tFree /\ s \in TwIds /\ s \notin DOMAIN tSess
  BY <1>1, FreeIdFact
<1>3. /\ r.port \in TwPorts /\ r.v4 \in BOOLEAN /\ r.hw \in BOOLEAN /\ r.tx \in BOOLEAN
      /\ r.nh \in {0} \cup TwNhs /\ r.sender \in BOOLEAN
  BY TwampAssumption DEF TwRequests
<1>4. nh \in {0} \cup TwNhs /\ (TakesLoop(r) => nh \in TwNhs /\ nh \notin tNhs /\ r.hw)
  BY <1>1, <1>3, LoopNhFact DEF TakesLoop
<1>5. TakesLoop(r) \in BOOLEAN
  BY DEF TakesLoop
<1> HIDE DEF nh
<1>6. c \in TwRecs /\ c.v4 = r.v4 /\ c.hw = r.hw /\ c.set = FALSE /\ c.nh = nh /\ c.loop = TakesLoop(r)
  BY <1>3, <1>4, <1>5 DEF TwRecs
<1> HIDE DEF s, c
<1>7. /\ DOMAIN tSess' = DOMAIN tSess \cup {s} /\ tSess'[s] = c
      /\ \A x \in DOMAIN tSess : tSess'[x] = tSess[x]
  BY <1>1, <1>2
<1>8. TwTyped /\ TwPool /\ TwKept /\ TwLoops
  BY DEF TwInv
<1>9. TwLive' = TwLive \cup {s} /\ s \notin TwLive /\ TwLive \subseteq DOMAIN tSess
  BY <1>1, <1>2, <1>7, <1>8 DEF TwLive, TwTyped
<1>10. TwTyped'
  <2>1. tSess' \in [DOMAIN tSess' -> TwRecs]
    BY <1>1, <1>6, <1>7, <1>8 DEF TwTyped
  <2> QED BY <2>1, <1>1, <1>4, <1>7, <1>8 DEF TwTyped
<1>11. TwPool'
  BY <1>1, <1>2, <1>7, <1>8 DEF TwPool
<1>12. TwKept'
  <2>1. MepIndex(r.port) \in tMeps'
    BY <1>1, MepIndexFact
  <2>2. /\ DOMAIN tEntry' = DOMAIN tEntry \cup (IF r.v4 THEN {s} ELSE {})
        /\ \A x \in DOMAIN tEntry : tEntry'[x] = tEntry[x]
        /\ r.v4 => tEntry'[s] = MepIndex(r.port)
    <3>1. s \notin DOMAIN tEntry
      BY <1>8, <1>9 DEF TwKept
    <3> QED BY <3>1, <1>1
  <2>3. DOMAIN tEntry' \subseteq TwLive'
    BY <2>2, <1>8, <1>9 DEF TwKept
  <2>4. \A x \in DOMAIN tSess' : tSess'[x].loop => tSess'[x].hw
    BY <1>4, <1>6, <1>7, <1>8 DEF TwKept
  <2>5. ASSUME NEW x \in TwLive'
        PROVE  /\ tSess'[x].v4 => x \in DOMAIN tEntry' /\ tEntry'[x] \in tMeps'
               /\ tSess'[x].set => (x \in tSends) = tSess'[x].tx
    <3>1. CASE x = s
      BY <3>1, <2>1, <2>2, <1>6, <1>7
    <3>2. CASE x # s
      BY <3>2, <2>2, <1>1, <1>7, <1>8, <1>9 DEF TwKept
    <3> QED BY <3>1, <3>2
  <2> QED BY <2>1, <2>3, <2>4, <2>5, <1>1 DEF TwKept
<1>13. TwLoops'
  <2> SUFFICES ASSUME NEW x \in TwLive', tSess'[x].loop, tSess'[x].nh \notin tRobbed
               PROVE  /\ tSess'[x].nh \in tNhs'
                      /\ \A t \in TwLive' : tSess'[t].loop /\ tSess'[t].nh = tSess'[x].nh => t = x
    BY <1>1 DEF TwLoops
  <2>1. \A t \in TwLive : tSess[t].loop /\ tSess[t].nh \notin tRobbed => tSess[t].nh \in tNhs
    BY <1>8 DEF TwLoops
  <2>2. CASE x = s
    <3>1. TakesLoop(r) /\ tSess'[x].nh = nh /\ nh \notin tRobbed /\ nh \notin tNhs
      BY <2>2, <1>4, <1>6, <1>7
    <3>2. \A t \in TwLive : tSess'[t].loop /\ tSess'[t].nh = nh => t = x
      BY <3>1, <2>1, <1>7, <1>9
    <3> QED BY <3>1, <3>2, <2>2, <1>1, <1>9
  <2>3. CASE x # s
    <3>1. x \in TwLive /\ tSess[x].loop /\ tSess[x].nh \notin tRobbed /\ tSess'[x] = tSess[x]
      BY <2>3, <1>7, <1>9
    <3>2. tSess[x].nh \in tNhs /\ \A t \in TwLive : tSess[t].loop /\ tSess[t].nh = tSess[x].nh => t = x
      BY <3>1, <1>8 DEF TwLoops
    <3>3. ~(tSess'[s].loop /\ tSess'[s].nh = tSess[x].nh)
      BY <3>2, <1>4, <1>6, <1>7
    <3> QED BY <3>1, <3>2, <3>3, <1>1, <1>7, <1>9
  <2> QED BY <2>2, <2>3
<1> QED BY <1>10, <1>11, <1>12, <1>13 DEF TwInv

(* A failed creation takes an id, and perhaps a MEP and a next hop. *)
LEMMA FailCreateKeeps ==
  ASSUME TwInv, NEW r \in TwRequests, NEW parsed \in BOOLEAN, FailCreate(r, parsed)
  PROVE  TwInv'
PROOF
<1> DEFINE s == Min(tFree)
<1>1. /\ tFree # {} /\ tLost = {} /\ tFree' = tFree \ {s} /\ tLost' = {s}
      /\ UNCHANGED <<tSess, tEntry, tSends, tGone, tRobbed>>
  BY DEF FailCreate
<1>2. s \in tFree /\ s \in TwIds /\ s \notin DOMAIN tSess
  BY <1>1, FreeIdFact
<1> HIDE DEF s
<1>3. TwTyped /\ TwPool /\ TwKept /\ TwLoops
  BY DEF TwInv
<1>4. /\ tMeps \subseteq tMeps' /\ (tMeps' # {} => tLast' \in tMeps') /\ (tMac => tMac')
      /\ tNhs \subseteq tNhs' /\ tNhs' \subseteq TwNhs
  <2>1. CASE parsed
    <3>1. /\ tMeps' = tMeps \cup {r.port} /\ tLast' = MepIndex(r.port) /\ tMac' = TRUE
          /\ tNhs' = IF TakesLoop(r) THEN tNhs \cup {LoopNh} ELSE tNhs
          /\ TakesLoop(r) => TwNhs \ tNhs # {}
      BY <2>1 DEF FailCreate
    <3>2. TakesLoop(r) => LoopNh \in TwNhs
      BY <3>1, LoopNhFact
    <3> QED BY <3>1, <3>2, <1>3, MepIndexFact DEF TwTyped
  <2>2. CASE ~parsed
    BY <2>2, <1>3 DEF FailCreate, TwKept, TwTyped
  <2> QED BY <2>1, <2>2
<1>5. TwLive' = TwLive
  BY <1>1 DEF TwLive
<1>6. TwTyped'
  BY <1>1, <1>3, <1>4 DEF TwTyped
<1>7. TwPool'
  BY <1>1, <1>2, <1>3 DEF TwPool
<1>8. TwKept' /\ TwLoops'
  BY <1>1, <1>3, <1>4, <1>5 DEF TwKept, TwLoops
<1> QED BY <1>6, <1>7, <1>8 DEF TwInv

(* A removal, the first or a later one, may rob another of its next hop. *)
LEMMA RemoveTwampKeeps ==
  ASSUME TwInv, NEW s, RemoveTwamp(s)
  PROVE  TwInv'
PROOF
<1> DEFINE nh == tSess[s].nh
<1>1. /\ s \in DOMAIN tSess
      /\ tEntry' = [x \in DOMAIN tEntry \ {s} |-> tEntry[x]]
      /\ tSends' = tSends \ {s} /\ tMac' = FALSE /\ tGone' = tGone \cup {s}
      /\ UNCHANGED <<tSess, tFree, tMeps, tLast, tLost>>
  BY DEF RemoveTwamp
<1>2. TwTyped /\ TwPool /\ TwKept /\ TwLoops
  BY DEF TwInv
<1>3. TwLive' = TwLive \ {s}
  BY <1>1 DEF TwLive
<1>4. /\ tNhs' \subseteq tNhs /\ tNhs \subseteq tNhs' \cup {nh} /\ tRobbed \subseteq tRobbed'
      /\ ~tSess[s].hw => tNhs' = tNhs
      /\ tSess[s].hw /\ nh \in tNhs /\ (nh \in OtherNhs \/ Holders(nh) \ {s} # {}) => nh \in tRobbed'
  BY DEF RemoveTwamp, RemoveLoop
<1>5. TwTyped'
  <2>1. OtherNhs \subseteq tNhs' \cup tRobbed'
    <3> SUFFICES ASSUME NEW n \in OtherNhs, n \notin tRobbed' PROVE n \in tNhs'
      OBVIOUS
    <3>1. n \in tNhs
      BY <1>2, <1>4 DEF TwTyped
    <3> QED BY <3>1, <1>4
  <2> QED BY <2>1, <1>1, <1>2, <1>4 DEF TwTyped
<1>6. TwPool'
  BY <1>1, <1>2 DEF TwPool
<1>7. TwKept'
  BY <1>1, <1>2, <1>3 DEF TwKept
<1>8. TwLoops'
  <2> SUFFICES ASSUME NEW x \in TwLive \ {s}, tSess[x].loop, tSess[x].nh \notin tRobbed'
               PROVE  /\ tSess[x].nh \in tNhs'
                      /\ \A t \in TwLive \ {s} : tSess[t].loop /\ tSess[t].nh = tSess[x].nh => t = x
    BY <1>1, <1>3 DEF TwLoops
  <2>1. /\ tSess[x].nh \in tNhs
        /\ \A t \in TwLive : tSess[t].loop /\ tSess[t].nh = tSess[x].nh => t = x
    BY <1>2, <1>4 DEF TwLoops
  <2>2. x \in Holders(tSess[x].nh) \ {s}
    BY DEF Holders, TwLive
  <2>3. tSess[x].nh = nh => ~tSess[s].hw
    BY <2>1, <2>2, <1>4
  <2> QED BY <2>1, <2>3, <1>4
<1> QED BY <1>5, <1>6, <1>7, <1>8 DEF TwInv

(* A set of the transmission. *)
LEMMA SetTransmitKeeps ==
  ASSUME TwInv, NEW s, SetTransmit(s)
  PROVE  TwInv'
PROOF
<1> DEFINE one == [tSess[s] EXCEPT !.tx = ~@]
           c == [one EXCEPT !.set = TRUE]
<1>1. /\ s \in DOMAIN tSess /\ tSess' = [tSess EXCEPT ![s].tx = ~@, ![s].set = TRUE]
      /\ tSends' = IF tSess[s].tx THEN tSends \ {s} ELSE tSends \cup {s}
      /\ UNCHANGED <<tFree, tEntry, tMeps, tLast, tMac, tNhs, tGone, tLost, tRobbed>>
  BY DEF SetTransmit
<1>2. TwTyped /\ TwPool /\ TwKept /\ TwLoops
  BY DEF TwInv
<1>3. tSess[s] \in TwRecs
  BY <1>1, <1>2 DEF TwTyped
<1>4. /\ one \in TwRecs /\ one.tx = ~tSess[s].tx /\ one.v4 = tSess[s].v4 /\ one.hw = tSess[s].hw
      /\ one.nh = tSess[s].nh /\ one.loop = tSess[s].loop
  BY <1>3 DEF TwRecs
<1>5. tSess' = [tSess EXCEPT ![s] = c]
  BY <1>1, <1>2 DEF TwTyped
<1> HIDE DEF one
<1>6. /\ c \in TwRecs /\ c.tx = ~tSess[s].tx /\ c.v4 = tSess[s].v4 /\ c.hw = tSess[s].hw
      /\ c.nh = tSess[s].nh /\ c.loop = tSess[s].loop
  BY <1>4 DEF TwRecs
<1> HIDE DEF c
<1>7. /\ DOMAIN tSess' = DOMAIN tSess /\ tSess'[s] = c
      /\ \A x \in DOMAIN tSess \ {s} : tSess'[x] = tSess[x]
      /\ tSess' \in [DOMAIN tSess' -> TwRecs]
  BY <1>1, <1>2, <1>5, <1>6 DEF TwTyped
<1>8. TwLive' = TwLive /\ TwLive \subseteq DOMAIN tSess
  BY <1>1, <1>7 DEF TwLive
<1>9. \A x \in DOMAIN tSess : /\ tSess'[x].v4 = tSess[x].v4 /\ tSess'[x].hw = tSess[x].hw
                              /\ tSess'[x].nh = tSess[x].nh /\ tSess'[x].loop = tSess[x].loop
  BY <1>6, <1>7
<1>10. TwTyped' /\ TwPool'
  BY <1>1, <1>2, <1>7 DEF TwTyped, TwPool
<1>11. TwLoops'
  BY <1>1, <1>2, <1>8, <1>9 DEF TwLoops
<1>12. TwKept'
  <2>1. \A x \in TwLive : tSess'[x].set => (x \in tSends') = tSess'[x].tx
    <3> SUFFICES ASSUME NEW x \in TwLive, tSess'[x].set PROVE (x \in tSends') = tSess'[x].tx
      OBVIOUS
    <3>1. CASE x = s
      <4>1. tSess[s].tx \in BOOLEAN
        BY <1>3 DEF TwRecs
      <4>2. CASE tSess[s].tx
        BY <4>2, <3>1, <1>1, <1>6, <1>7
      <4>3. CASE ~tSess[s].tx
        BY <4>3, <3>1, <1>1, <1>6, <1>7
      <4> QED BY <4>1, <4>2, <4>3
    <3>2. CASE x # s
      BY <3>2, <1>1, <1>2, <1>7, <1>8 DEF TwKept
    <3> QED BY <3>1, <3>2
  <2> QED BY <2>1, <1>1, <1>2, <1>7, <1>8, <1>9 DEF TwKept
<1> QED BY <1>10, <1>11, <1>12 DEF TwInv

(* Every call keeps the invariant. *)
LEMMA TwCallsKeep ==
  ASSUME TwInv, [TwNext]_twVars
  PROVE  TwInv'
PROOF
<1>1. CASE UNCHANGED twVars
  BY <1>1 DEF twVars, TwInv, TwTyped, TwPool, TwKept, TwLoops, TwLive
<1>2. CASE TwNext
  BY <1>2, CreateTwampKeeps, FailCreateKeeps, RemoveTwampKeeps, SetTransmitKeeps DEF TwNext
<1> QED BY <1>1, <1>2

-----------------------------------------------------------------------------
(* OAM events: a batch and what the client is told *)
OamProtos == {"bfd", "y1731"}
OamMeps == [obj : OamObjs, proto : OamProtos, remote : BOOLEAN]
OamEntries == [idx : MepIdx, proto : OamProtos, remote : BOOLEAN, was : OamObjs \cup {0},
               defects : SUBSET OamDefects]

(* An entry that names an owner is about a MEP that is still there. *)
Current(e) ==
  /\ e.idx \in DOMAIN oamMep
  /\ oamMep[e.idx] = [obj |-> e.was, proto |-> e.proto, remote |-> e.remote]
OevInv ==
  /\ oamMep \in [DOMAIN oamMep -> OamMeps] /\ oamQueue \in Seq(OamEntries)
  /\ \A n \in DOMAIN oamQueue : oamQueue[n].was # 0 => Current(oamQueue[n])
  /\ OamToldExact

(* The places of the entries of a batch. *)
LEMMA PlaceFact ==
  ASSUME NEW b, NEW k \in Nat
  PROVE  /\ Place(b, 0) = 0 /\ Place(b, k) \in Nat
         /\ Place(b, k + 1) = Place(b, k) + (IF Calls(b[k + 1]) THEN 1 ELSE 0)
         /\ \A n \in 1 .. k : Calls(b[n]) => Place(b, n) \in 1 .. Place(b, k)
PROOF
<1> DEFINE S(n) == {m \in 1 .. n : Calls(b[m])}
<1>1. ASSUME NEW n \in Nat PROVE IsFiniteSet(S(n)) /\ Cardinality(S(n)) \in Nat
  <2>1. IsFiniteSet(1 .. n) /\ S(n) \in SUBSET (1 .. n)
    BY FS_Interval
  <2> QED BY <2>1, FS_Subset, FS_CardinalityType
<1>2. S(0) = {}
  OBVIOUS
<1>3. Place(b, 0) = 0
  BY <1>2, FS_EmptySet DEF Place
<1>4. S(k + 1) = S(k) \cup (IF Calls(b[k + 1]) THEN {k + 1} ELSE {}) /\ k + 1 \notin S(k)
  <2>1. \A m \in 1 .. (k + 1) : m \in 1 .. k \/ m = k + 1
    OBVIOUS
  <2>2. \A m \in 1 .. k : m \in 1 .. (k + 1)
    OBVIOUS
  <2>3. k + 1 \in 1 .. (k + 1) /\ k + 1 \notin 1 .. k
    OBVIOUS
  <2> QED BY <2>1, <2>2, <2>3
<1>5. ASSUME NEW n \in 1 .. k, Calls(b[n]) PROVE Cardinality(S(n)) \in 1 .. Cardinality(S(k))
  <2>1. n \in S(n) /\ S(n) \in SUBSET S(k) /\ n \in Nat
    BY <1>5
  <2> HIDE DEF S
  <2>2. Cardinality(S(n)) <= Cardinality(S(k)) /\ Cardinality(S(n)) # 0
    BY <1>1, <2>1, FS_Subset, FS_EmptySet
  <2> QED BY <1>1, <2>1, <2>2
<1> HIDE DEF S
<1>6. Cardinality(S(k + 1)) = Cardinality(S(k)) + (IF Calls(b[k + 1]) THEN 1 ELSE 0)
  <2>1. CASE Calls(b[k + 1])
    BY <2>1, <1>1, <1>4, FS_AddElement
  <2>2. CASE ~Calls(b[k + 1])
    BY <2>2, <1>1, <1>4
  <2> QED BY <2>1, <2>2
<1> QED BY <1>1, <1>3, <1>5, <1>6 DEF Place, S

(* The loop, round by round. *)
LEMMA RoundsFact ==
  ASSUME NEW q, Len(q) \in Nat
  PROVE  \E C : /\ C[0] = Begin /\ \A n \in 1 .. Len(q) : C[n] = Step(C[n - 1], q[n])
                /\ Rounds(q) = C[Len(q)]
PROOF
<1> DEFINE l == Len(q)
           body(f, k) == [n \in 0 .. k |-> IF n = 0 THEN Begin ELSE Step(f[n - 1], q[n])]
           bad == {k \in 0 .. l : ~ \E f : f = body(f, k)}
           C == CHOOSE f : f = body(f, l)
<1>1. bad = {}
  <2> SUFFICES ASSUME bad # {} PROVE FALSE
    OBVIOUS
  <2>1. bad \in SUBSET Nat
    OBVIOUS
  <2> DEFINE k == Min(bad)
  <2> HIDE DEF bad
  <2>2. k \in bad /\ \A y \in bad : k <= y
    BY <2>1, MinFact
  <2> USE DEF bad
  <2>3. k \in 0 .. l /\ ~ \E f : f = body(f, k)
    BY <2>2
  <2> HIDE DEF k
  <2>4. CASE k = 0
    <3> DEFINE g == [n \in 0 .. 0 |-> Begin]
    <3>1. g = body(g, 0)
      OBVIOUS
    <3> QED BY <3>1, <2>3, <2>4
  <2>5. CASE k # 0
    <3>1. k - 1 \in 0 .. l /\ ~(k <= k - 1) /\ k \in Nat
      BY <2>3, <2>5
    <3>2. k - 1 \notin bad
      BY <2>2, <3>1
    <3>3. PICK f : f = body(f, k - 1)
      BY <3>1, <3>2
    <3> DEFINE g == [n \in 0 .. k |-> IF n = k THEN Step(f[k - 1], q[k]) ELSE f[n]]
    <3>4. ASSUME NEW n \in 0 .. k PROVE g[n] = IF n = 0 THEN Begin ELSE Step(g[n - 1], q[n])
      <4>1. CASE n = k
        BY <4>1, <2>5, <3>1
      <4>2. CASE n # k /\ n # 0
        <5>1. n \in 0 .. (k - 1) /\ n - 1 \in 0 .. (k - 1) /\ n - 1 \in 0 .. k /\ n - 1 # k
          BY <4>2, <3>1
        <5>2. f[n] = Step(f[n - 1], q[n])
          BY <3>3, <5>1, <4>2
        <5> QED BY <5>1, <5>2, <4>2
      <4>3. CASE n = 0
        <5>1. 0 \in 0 .. (k - 1)
          BY <3>1, <2>5
        <5>2. f[0] = Begin
          BY <3>3, <5>1
        <5> QED BY <5>2, <4>3, <2>5
      <4> QED BY <4>1, <4>2, <4>3
    <3>5. g = [n \in 0 .. k |-> g[n]]
      OBVIOUS
    <3> HIDE DEF g
    <3>6. g = body(g, k)
      BY <3>4, <3>5
    <3> QED BY <3>6, <2>3
  <2> QED BY <2>4, <2>5
<1>2. \E f : f = body(f, l)
  BY <1>1
<1>3. C = body(C, l)
  BY <1>2
<1>4. Rounds(q) = C[l]
  BY DEF Rounds
<1> HIDE DEF C
<1>5. C[0] = Begin /\ \A n \in 1 .. l : C[n] = Step(C[n - 1], q[n])
  <2>1. \A n \in 0 .. l : C[n] = IF n = 0 THEN Begin ELSE Step(C[n - 1], q[n])
    BY <1>3
  <2>2. 0 \in 0 .. l /\ \A n \in 1 .. l : n \in 0 .. l /\ n # 0
    OBVIOUS
  <2> QED BY <2>1, <2>2
<1> QED BY <1>4, <1>5

(* What a round has made of the entries up to k. *)
Right(q, k, st) ==
  /\ st = [ids |-> st.ids, events |-> st.events, stop |-> FALSE, told |-> st.told]
  /\ st.events # {} => \E m \in 1 .. k : q[m].proto = "y1731"
  /\ \E T : st.told \in Seq(T)
  /\ Len(st.told) = Place(q, k)
  /\ \A n \in 1 .. k : Calls(q[n]) => ToldRight(q, n, st.told[Place(q, n)])

(* An entry about a MEP that is there makes the next round right. *)
LEMMA RoundRight ==
  ASSUME NEW q \in Seq(OamEntries), NEW k \in Nat, k + 1 \in 1 .. Len(q), NEW st, Right(q, k, st),
         q[k + 1].was # 0, Current(q[k + 1])
  PROVE  Right(q, k + 1, Step(st, q[k + 1]))
PROOF
<1> DEFINE e == q[k + 1]
           o == e.was
           events == IF e.proto = "bfd" THEN {} ELSE st.events \cup e.defects
           t == [obj |-> o, events |-> events]
           told == IF e.proto = "bfd" /\ e.defects = {} THEN st.told ELSE Append(st.told, t)
           new == [ids |-> [st.ids EXCEPT ![e.proto] = o], events |-> st.events \cup events,
                   stop |-> FALSE, told |-> told]
<1>1. e \in OamEntries
  OBVIOUS
<1>2. e.proto \in {"bfd", "y1731"}
  BY <1>1 DEF OamEntries, OamProtos
<1>3. \A x : Found(e, x) = o
  BY DEF Found, Matches, Current
<1>4. Step(st, e) = new
  <2>1. st.stop = FALSE
    BY DEF Right
  <2> QED BY <2>1, <1>3 DEF Step
<1>5. Calls(e) <=> ~(e.proto = "bfd" /\ e.defects = {})
  BY <1>2 DEF Calls
<1>6. /\ Place(q, k) \in Nat /\ Place(q, k + 1) = Place(q, k) + (IF Calls(e) THEN 1 ELSE 0)
      /\ \A n \in 1 .. k : Calls(q[n]) => Place(q, n) \in 1 .. Place(q, k)
  BY PlaceFact
<1>7. PICK T : st.told \in Seq(T)
  BY DEF Right
<1>8. Len(st.told) = Place(q, k) /\ \A n \in 1 .. k : Calls(q[n]) => ToldRight(q, n, st.told[Place(q, n)])
  BY DEF Right
<1>9. st.events # {} => \E m \in 1 .. k : q[m].proto = "y1731"
  BY DEF Right
<1>10. /\ new = [ids |-> new.ids, events |-> new.events, stop |-> FALSE, told |-> new.told]
       /\ new.events = st.events \cup events /\ new.told = told
  OBVIOUS
<1>11. t.obj = o /\ t.events = events
  OBVIOUS
<1> HIDE DEF new, t
<1>12. told \in Seq(T \cup {t}) /\ Len(told) = Place(q, k + 1)
       /\ (\A i \in 1 .. Place(q, k) : told[i] = st.told[i])
       /\ (Calls(e) => told[Place(q, k + 1)] = t)
  <2>1. st.told \in Seq(T \cup {t})
    BY <1>7
  <2>2. CASE Calls(e)
    <3>1. told = Append(st.told, t)
      BY <2>2, <1>5
    <3> HIDE DEF told
    <3> QED BY <2>1, <2>2, <3>1, <1>6, <1>8, AppendProperties
  <2>3. CASE ~Calls(e)
    <3>1. told = st.told
      BY <2>3, <1>5
    <3> HIDE DEF told
    <3> QED BY <2>1, <2>3, <3>1, <1>6, <1>8
  <2> QED BY <2>2, <2>3
<1> HIDE DEF told
<1>13. ASSUME Calls(e) PROVE ToldRight(q, k + 1, t)
  <2>1. (k + 1) - 1 = k
    OBVIOUS
  <2>2. e.proto = "y1731" => events = st.events \cup e.defects
    OBVIOUS
  <2> QED BY <2>1, <2>2, <1>9, <1>11 DEF ToldRight
<1>14. ASSUME NEW n \in 1 .. (k + 1), Calls(q[n]) PROVE ToldRight(q, n, told[Place(q, n)])
  <2>1. CASE n = k + 1
    BY <2>1, <1>12, <1>13, <1>14
  <2>2. CASE n # k + 1
    <3>1. n \in 1 .. k
      BY <2>2
    <3> QED BY <3>1, <1>6, <1>8, <1>12, <1>14
  <2> QED BY <2>1, <2>2
<1>15. new.events # {} => \E m \in 1 .. (k + 1) : q[m].proto = "y1731"
  <2>1. \A m \in 1 .. k : m \in 1 .. (k + 1)
    OBVIOUS
  <2>2. e.proto = "bfd" => events = {}
    OBVIOUS
  <2>3. k + 1 \in 1 .. (k + 1)
    OBVIOUS
  <2> QED BY <2>1, <2>2, <2>3, <1>2, <1>9, <1>10
<1> QED BY <1>4, <1>10, <1>12, <1>14, <1>15 DEF Right

(* A batch of such entries is told in full. *)
LEMMA BatchRight ==
  ASSUME NEW q \in Seq(OamEntries), \A n \in DOMAIN q : q[n].was # 0 /\ Current(q[n])
  PROVE  Right(q, Len(q), Rounds(q))
PROOF
<1>1. Len(q) \in Nat /\ DOMAIN q = 1 .. Len(q)
  OBVIOUS
<1>2. PICK C : /\ C[0] = Begin /\ \A n \in 1 .. Len(q) : C[n] = Step(C[n - 1], q[n])
               /\ Rounds(q) = C[Len(q)]
  BY <1>1, RoundsFact
<1> DEFINE bad == {k \in 0 .. Len(q) : ~Right(q, k, C[k])}
<1>3. bad = {}
  <2> SUFFICES ASSUME bad # {} PROVE FALSE
    OBVIOUS
  <2>1. bad \in SUBSET Nat
    OBVIOUS
  <2> DEFINE k == Min(bad)
  <2> HIDE DEF bad
  <2>2. k \in bad /\ \A y \in bad : k <= y
    BY <2>1, MinFact
  <2> USE DEF bad
  <2>3. k \in 0 .. Len(q) /\ ~Right(q, k, C[k])
    BY <2>2
  <2> HIDE DEF k
  <2>4. Right(q, 0, Begin)
    <3>1. Begin.told = << >> /\ Begin.events = {} /\ Begin.stop = FALSE
          /\ Begin = [ids |-> Begin.ids, events |-> Begin.events, stop |-> FALSE, told |-> Begin.told]
      BY DEF Begin
    <3>2. << >> \in Seq({}) /\ Len(<< >>) = 0
      OBVIOUS
    <3>3. Place(q, 0) = 0
      BY PlaceFact
    <3> QED BY <3>1, <3>2, <3>3 DEF Right
  <2>5. CASE k = 0
    BY <2>3, <2>4, <2>5, <1>2
  <2>6. CASE k # 0
    <3> DEFINE j == k - 1
    <3>1. j \in Nat /\ k = j + 1 /\ j + 1 \in 1 .. Len(q) /\ j \in 0 .. Len(q) /\ ~(k <= j)
      BY <2>3, <2>6, <1>1
    <3>2. Right(q, j, C[j])
      BY <2>2, <3>1
    <3>3. q[j + 1].was # 0 /\ Current(q[j + 1])
      BY <3>1, <1>1
    <3>4. C[j + 1] = Step(C[j], q[j + 1])
      BY <1>2, <3>1
    <3> HIDE DEF j
    <3>5. Right(q, j + 1, Step(C[j], q[j + 1]))
      BY <3>1, <3>2, <3>3, RoundRight
    <3> QED BY <3>1, <3>4, <3>5, <2>3
  <2> QED BY <2>5, <2>6
<1>4. Right(q, Len(q), C[Len(q)])
  BY <1>1, <1>3
<1> QED BY <1>2, <1>4

(* What the invariant says of the events. *)
LEMMA OevGives == OevInv => OamToldExact
BY DEF OevInv

(* At first nothing was told. *)
LEMMA OevInitially == OamInit => OevInv
PROOF
<1> SUFFICES ASSUME OamInit PROVE OevInv
  OBVIOUS
<1>1. oamMep = << >> /\ oamQueue = << >> /\ oamTold.batch = << >> /\ oamTold.told = << >>
  BY DEF OamInit
<1>2. OamToldExact
  <2>1. Place(<< >>, 0) = 0 /\ Len(<< >>) = 0 /\ DOMAIN << >> = {}
    BY PlaceFact
  <2> QED BY <2>1, <1>1 DEF OamToldExact
<1>3. oamMep \in [DOMAIN oamMep -> OamMeps] /\ oamQueue \in Seq(OamEntries) /\ DOMAIN oamQueue = {}
  <2>1. oamMep = [x \in {} |-> 0]
    BY <1>1
  <2> QED BY <2>1, <1>1
<1> QED BY <1>2, <1>3 DEF OevInv

(* A new MEP, under an index that no entry with an owner has. *)
LEMMA AddMepKeeps ==
  ASSUME OevInv, NEW i, NEW o \in OamObjs, NEW proto \in OamProtos, NEW remote \in BOOLEAN,
         AddMep(i, o, proto, remote)
  PROVE  OevInv'
PROOF
<1> DEFINE r == [obj |-> o, proto |-> proto, remote |-> remote]
<1>1. /\ i \notin DOMAIN oamMep /\ UNCHANGED <<oamQueue, oamTold>>
      /\ oamMep' = [j \in DOMAIN oamMep \cup {i} |-> IF j = i THEN r ELSE oamMep[j]]
  BY DEF AddMep
<1>2. r \in OamMeps
  BY DEF OamMeps
<1> HIDE DEF r
<1>3. oamMep' \in [DOMAIN oamMep' -> OamMeps]
  BY <1>1, <1>2 DEF OevInv
<1>4. ASSUME NEW n \in DOMAIN oamQueue, oamQueue[n].was # 0 PROVE Current(oamQueue[n])'
  <2>1. Current(oamQueue[n])
    BY <1>4 DEF OevInv
  <2>2. oamQueue'[n] = oamQueue[n]
    BY <1>1
  <2> QED BY <2>1, <2>2, <1>1 DEF Current
<1>5. OamToldExact'
  BY <1>1 DEF OevInv, OamToldExact
<1> QED BY <1>1, <1>3, <1>4, <1>5 DEF OevInv

(* The entries about a MEP that goes lose their owner. *)
LEMMA RemoveMepKeeps ==
  ASSUME OevInv, NEW i, RemoveMep(i)
  PROVE  OevInv'
PROOF
<1>1. /\ i \in DOMAIN oamMep /\ UNCHANGED oamTold
      /\ oamMep' = [j \in DOMAIN oamMep \ {i} |-> oamMep[j]]
      /\ oamQueue' = [n \in DOMAIN oamQueue |->
                        IF oamQueue[n].idx = i THEN [oamQueue[n] EXCEPT !.was = 0] ELSE oamQueue[n]]
  BY DEF RemoveMep
<1>2. oamQueue \in Seq(OamEntries) /\ Len(oamQueue) \in Nat /\ DOMAIN oamQueue = 1 .. Len(oamQueue)
  BY DEF OevInv
<1>3. \A n \in DOMAIN oamQueue : oamQueue[n] \in OamEntries
  BY <1>2
<1>4. \A n \in DOMAIN oamQueue : [oamQueue[n] EXCEPT !.was = 0] \in OamEntries
  BY <1>3 DEF OamEntries
<1>5. oamQueue' \in Seq(OamEntries) /\ DOMAIN oamQueue' = DOMAIN oamQueue
  <2>1. oamQueue' \in [1 .. Len(oamQueue) -> OamEntries]
    BY <1>1, <1>2, <1>3, <1>4
  <2> QED BY <2>1, <1>1, <1>2, SeqDef
<1>6. ASSUME NEW n \in DOMAIN oamQueue, oamQueue'[n].was # 0 PROVE Current(oamQueue[n])'
  <2>1. [oamQueue[n] EXCEPT !.was = 0].was = 0
    BY <1>3 DEF OamEntries
  <2>2. oamQueue[n].idx # i /\ oamQueue'[n] = oamQueue[n]
    BY <1>1, <1>6, <2>1
  <2>3. Current(oamQueue[n])
    BY <2>2, <1>6 DEF OevInv
  <2> QED BY <2>2, <2>3, <1>1 DEF Current
<1>7. oamMep' \in [DOMAIN oamMep' -> OamMeps]
  BY <1>1 DEF OevInv
<1>8. OamToldExact'
  BY <1>1 DEF OevInv, OamToldExact
<1> QED BY <1>5, <1>6, <1>7, <1>8 DEF OevInv

(* A change is collected under its MEP's owner. *)
LEMMA MepEventKeeps ==
  ASSUME OevInv, NEW i \in MepIdx, NEW d \in SUBSET OamDefects, MepEvent(i, d)
  PROVE  OevInv'
PROOF
<1> DEFINE e == [idx |-> i, proto |-> oamMep[i].proto, remote |-> oamMep[i].remote,
                 was |-> oamMep[i].obj, defects |-> d]
<1>1. i \in DOMAIN oamMep /\ oamQueue' = Append(oamQueue, e) /\ UNCHANGED <<oamMep, oamTold>>
  BY DEF MepEvent
<1>2. oamMep[i] \in OamMeps
  BY <1>1 DEF OevInv
<1>3. e \in OamEntries /\ Current(e)
  <2>1. oamMep[i] = [obj |-> oamMep[i].obj, proto |-> oamMep[i].proto, remote |-> oamMep[i].remote]
    BY <1>2 DEF OamMeps
  <2> QED BY <2>1, <1>1, <1>2 DEF OamEntries, OamMeps, Current
<1> HIDE DEF e
<1>4. oamQueue \in Seq(OamEntries)
  BY DEF OevInv
<1>5. /\ oamQueue' \in Seq(OamEntries)
      /\ \A n \in DOMAIN oamQueue' : oamQueue'[n] = e \/ (n \in DOMAIN oamQueue /\ oamQueue'[n] = oamQueue[n])
  BY <1>1, <1>3, <1>4
<1>6. ASSUME NEW n \in DOMAIN oamQueue', oamQueue'[n].was # 0 PROVE Current(oamQueue[n])'
  <2>1. Current(oamQueue'[n])
    BY <1>3, <1>5, <1>6 DEF OevInv
  <2> QED BY <2>1, <1>1 DEF Current
<1>7. OamToldExact'
  BY <1>1 DEF OevInv, OamToldExact
<1> QED BY <1>1, <1>5, <1>6, <1>7 DEF OevInv

(* The batch is told. *)
LEMMA ProcessKeeps ==
  ASSUME OevInv, OamEventProcess
  PROVE  OevInv'
PROOF
<1> DEFINE end == Rounds(oamQueue)
<1>1. /\ oamTold' = [batch |-> oamQueue, told |-> IF end.stop THEN << >> ELSE end.told]
      /\ oamQueue' = << >> /\ UNCHANGED oamMep
  BY DEF OamEventProcess
<1>2. oamQueue \in Seq(OamEntries)
  BY DEF OevInv
<1>3. OamToldExact'
  <2> SUFFICES ASSUME \A n \in DOMAIN oamQueue : oamQueue[n].was # 0
               PROVE  /\ Len(oamTold'.told) = Place(oamQueue, Len(oamQueue))
                      /\ \A n \in DOMAIN oamQueue : Calls(oamQueue[n]) =>
                           ToldRight(oamQueue, n, oamTold'.told[Place(oamQueue, n)])
    <3>1. oamTold'.batch = oamQueue
      BY <1>1
    <3> QED BY <3>1 DEF OamToldExact
  <2>1. \A n \in DOMAIN oamQueue : Current(oamQueue[n])
    BY DEF OevInv
  <2>2. Right(oamQueue, Len(oamQueue), end)
    BY <2>1, <1>2, BatchRight
  <2> HIDE DEF end
  <2>3. end.stop = FALSE
    BY <2>2 DEF Right
  <2>4. oamTold'.told = end.told /\ DOMAIN oamQueue = 1 .. Len(oamQueue)
    BY <1>1, <1>2, <2>3
  <2> QED BY <2>2, <2>4 DEF Right
<1>4. oamQueue' \in Seq(OamEntries) /\ DOMAIN oamQueue' = {}
  BY <1>1
<1> QED BY <1>1, <1>3, <1>4 DEF OevInv

(* Every call keeps the invariant. *)
LEMMA OevCallsKeep ==
  ASSUME OevInv, [OamNext]_oamVars
  PROVE  OevInv'
PROOF
<1>1. CASE UNCHANGED oamVars
  BY <1>1 DEF oamVars, OevInv, OamToldExact, Current
<1>2. CASE OamNext
  <2>1. CASE UNCHANGED oamVars
    BY <2>1, <1>1
  <2>2. CASE ~UNCHANGED oamVars
    BY <1>2, <2>2, AddMepKeeps, RemoveMepKeeps, MepEventKeeps, ProcessKeeps DEF OamNext, OamProtos
  <2> QED BY <2>1, <2>2
<1> QED BY <1>1, <1>2

-----------------------------------------------------------------------------
(* MPLS: labels, pseudo-wires and ethernet segments *)
IlmRecs == [pop : {0, 1}, decap : BOOLEAN, nh : {"drop", "cpu", "none", "nh"} \X (MpNhs \cup {0}),
            cw : BOOLEAN, es : MpSegs \cup {0}]
InsegRecs == [action : MpActions, nh : MpNhs \cup MpIfs]
MpTyped ==
  /\ mpInseg \in [DOMAIN mpInseg -> InsegRecs] /\ DOMAIN mpInseg \subseteq MpLabels
  /\ mpWire \in [DOMAIN mpInseg -> MpTuns \cup {0}]
  /\ mpEs \in [DOMAIN mpEs -> [label : MpLabels, ref : Int]] /\ DOMAIN mpEs \subseteq MpSegs
  /\ mpTun \in [MpTuns -> [label : MpLabels \cup {0}, cw : BOOLEAN]]
  /\ mpPort \in [DOMAIN mpPort -> [es : MpSegs \cup {0}, hw : MpSegs \cup {0}]]
  /\ mpIlm \in [DOMAIN mpIlm -> IlmRecs] /\ mpWait \in MpLabels \cup {0}
  /\ IsFiniteSet(DOMAIN mpPort)

(* The labels that are a segment's, and the in-segments that are wired: the *)
(* tunnel remembers the label and both have the same control word. *)
EsLabels == {mpEs[e].label : e \in DOMAIN mpEs}
MpWired ==
  \A l \in DOMAIN mpWire :
    mpWire[l] # 0 /\ l \notin mpLoose =>
      mpTun[mpWire[l]].label = l /\ mpIlm[l].cw = mpTun[mpWire[l]].cw
MpInv == MpTyped /\ LabelsOwned /\ IlmFollows /\ MpWired /\ SegmentsCounted

(* What the invariant says of labels. *)
LEMMA MpGives == MpInv => MplsExact
BY DEF MpInv, MplsExact, MpWired, ControlWordFollows

(* At first there are tunnels without labels. *)
LEMMA MpInitially == MpInit => MpInv
PROOF
<1> SUFFICES ASSUME MpInit PROVE MpInv
  OBVIOUS
<1>1. /\ DOMAIN mpInseg = {} /\ DOMAIN mpWire = {} /\ DOMAIN mpEs = {} /\ DOMAIN mpIlm = {} /\ DOMAIN mpPort = {}
      /\ mpWait = 0 /\ mpTun = [t \in MpTuns |-> [label |-> 0, cw |-> FALSE]]
  BY DEF MpInit
<1>2. MpTyped
  <2>1. /\ mpInseg = [x \in {} |-> 0] /\ mpWire = [x \in {} |-> 0] /\ mpEs = [x \in {} |-> 0]
        /\ mpIlm = [x \in {} |-> 0] /\ mpPort = [x \in {} |-> 0]
    BY DEF MpInit
  <2>2. IsFiniteSet(DOMAIN mpPort)
    BY <1>1, FS_EmptySet
  <2> QED BY <1>1, <2>1, <2>2 DEF MpTyped
<1>3. LabelsOwned
  BY <1>1 DEF LabelsOwned
<1>4. IlmFollows /\ MpWired /\ SegmentsCounted
  BY <1>1 DEF IlmFollows, MpWired, SegmentsCounted
<1> QED BY <1>2, <1>3, <1>4 DEF MpInv

(* What mpls_get_ctc_nh_id leaves and writes. *)
LEMMA GetCtcFact ==
  ASSUME NEW x \in IlmRecs, NEW a \in MpActions, NEW n \in MpNhs \cup MpIfs
  PROVE  /\ GetCtcNhId(x, a, n) \in IlmRecs
         /\ GetCtcNhId(x, a, n).nh = GetCtcNhId(NoIlm, a, n).nh
         /\ GetCtcNhId(x, a, n).cw = x.cw /\ GetCtcNhId(x, a, n).es = x.es
         /\ a = "FORWARD" /\ n \in MpIfs => GetCtcNhId(x, a, n).decap /\ GetCtcNhId(x, a, n).pop = 1
PROOF
<1>1. CASE a = "DROP"
  BY <1>1 DEF GetCtcNhId, IlmRecs, NoIlm
<1>2. CASE a = "TRAP"
  BY <1>2 DEF GetCtcNhId, IlmRecs, NoIlm
<1>3. CASE a \notin {"DROP", "TRAP"} /\ n \in MpIfs
  <2> DEFINE y1 == [x EXCEPT !.nh = <<"none", 0>>]
             y2 == [y1 EXCEPT !.pop = 1]
             y3 == [y2 EXCEPT !.decap = TRUE]
             z == [NoIlm EXCEPT !.nh = <<"none", 0>>, !.pop = 1, !.decap = TRUE]
  <2>1. y1 \in IlmRecs /\ y1.nh = <<"none", 0>> /\ y1.cw = x.cw /\ y1.es = x.es
    BY DEF IlmRecs
  <2> HIDE DEF y1
  <2>2. y2 \in IlmRecs /\ y2.nh = <<"none", 0>> /\ y2.cw = x.cw /\ y2.es = x.es /\ y2.pop = 1
    BY <2>1 DEF IlmRecs
  <2> HIDE DEF y2
  <2>3. y3 \in IlmRecs /\ y3.nh = <<"none", 0>> /\ y3.cw = x.cw /\ y3.es = x.es /\ y3.pop = 1 /\ y3.decap
    BY <2>2 DEF IlmRecs
  <2>4. z.nh = <<"none", 0>>
    BY DEF NoIlm
  <2>5. GetCtcNhId(x, a, n) = y3 /\ GetCtcNhId(NoIlm, a, n) = z
    BY <1>3 DEF GetCtcNhId, y2, y1
  <2> HIDE DEF y3, z
  <2> QED BY <2>3, <2>4, <2>5
<1>4. CASE a \notin {"DROP", "TRAP"} /\ n \notin MpIfs
  <2>1. n \in MpNhs
    BY <1>4
  <2>2. /\ GetCtcNhId(x, a, n) = [x EXCEPT !.nh = <<"nh", n>>]
        /\ GetCtcNhId(NoIlm, a, n) = [NoIlm EXCEPT !.nh = <<"nh", n>>]
    BY <1>4, <2>1 DEF GetCtcNhId
  <2>3. [NoIlm EXCEPT !.nh = <<"nh", n>>].nh = <<"nh", n>>
    BY DEF NoIlm
  <2>4. /\ [x EXCEPT !.nh = <<"nh", n>>] \in IlmRecs /\ [x EXCEPT !.nh = <<"nh", n>>].nh = <<"nh", n>>
        /\ [x EXCEPT !.nh = <<"nh", n>>].cw = x.cw /\ [x EXCEPT !.nh = <<"nh", n>>].es = x.es
    BY <2>1 DEF IlmRecs
  <2> QED BY <1>4, <2>2, <2>3, <2>4
<1> QED BY <1>1, <1>2, <1>3, <1>4

(* A label is a number other than zero. *)
LEMMA LabelFact == 0 \notin MpLabels /\ 0 \notin MpSegs /\ 0 \notin MpTuns
BY MplsAssumption

(* An in-segment takes a label that the table does not have. *)
LEMMA CreateInsegKeeps ==
  ASSUME MpInv, NEW l \in MpLabels, NEW a \in MpActions, NEW n \in MpNhs \cup MpIfs,
         NEW t \in MpTuns \cup {0}, CreateInseg(l, 0, a, n, t)
  PROVE  MpInv'
PROOF
<1> DEFINE x0 == [NoIlm EXCEPT !.pop = 0]
           x == [x0 EXCEPT !.cw = t # 0 /\ mpTun[t].cw]
           y == GetCtcNhId(x, a, n)
           r == [action |-> a, nh |-> n]
<1>1. /\ l \notin DOMAIN mpInseg /\ l \notin DOMAIN mpIlm
      /\ mpIlm' = MpPut(mpIlm, l, y)
      /\ mpInseg' = MpPut(mpInseg, l, r) /\ mpWire' = MpPut(mpWire, l, t)
      /\ UNCHANGED <<mpEs, mpPort, mpWait, mpSkew, mpStuck>>
  BY DEF CreateInseg
<1>2. MpTyped /\ LabelsOwned /\ IlmFollows /\ MpWired /\ SegmentsCounted
  BY DEF MpInv
<1>3. t # 0 => t \in MpTuns /\ mpTun[t] \in [label : MpLabels \cup {0}, cw : BOOLEAN]
  BY <1>2 DEF MpTyped
<1>4. x \in IlmRecs /\ x.cw = (t # 0 /\ mpTun[t].cw)
  <2>1. x0 \in IlmRecs
    BY DEF NoIlm, IlmRecs
  <2> HIDE DEF x0
  <2>2. (t # 0 /\ mpTun[t].cw) \in BOOLEAN
    BY <1>3
  <2> QED BY <2>1, <2>2 DEF IlmRecs
<1> HIDE DEF x
<1>5. /\ y \in IlmRecs /\ y.nh = GetCtcNhId(NoIlm, a, n).nh /\ y.cw = (t # 0 /\ mpTun[t].cw)
      /\ a = "FORWARD" /\ n \in MpIfs => y.decap /\ y.pop = 1
  BY <1>4, GetCtcFact
<1>6. r \in InsegRecs /\ r.action = a /\ r.nh = n
  BY DEF InsegRecs
<1> HIDE DEF y, r
<1>7. /\ DOMAIN mpIlm' = DOMAIN mpIlm \cup {l} /\ mpIlm'[l] = y /\ \A j \in DOMAIN mpIlm : mpIlm'[j] = mpIlm[j]
      /\ DOMAIN mpInseg' = DOMAIN mpInseg \cup {l} /\ mpInseg'[l] = r
      /\ \A j \in DOMAIN mpInseg : mpInseg'[j] = mpInseg[j]
      /\ DOMAIN mpWire' = DOMAIN mpWire \cup {l} /\ mpWire'[l] = t
      /\ \A j \in DOMAIN mpInseg : mpWire'[j] = mpWire[j]
  BY <1>1, <1>2 DEF MpPut, MpTyped
<1>8. mpTun' \in [MpTuns -> [label : MpLabels \cup {0}, cw : BOOLEAN]]
      /\ \A u \in MpTuns : mpTun'[u].cw = mpTun[u].cw /\ mpTun'[u].label = IF u = t THEN l ELSE mpTun[u].label
  <2>1. CASE t = 0
    BY <2>1, <1>2, LabelFact DEF CreateInseg, MpTyped
  <2>2. CASE t # 0
    <3>1. mpTun' = [mpTun EXCEPT ![t].label = l]
      BY <2>2 DEF CreateInseg
    <3> QED BY <3>1, <2>2, <1>2 DEF MpTyped
  <2> QED BY <2>1, <2>2
<1>9. mpLoose \subseteq mpLoose' /\ (t # 0 /\ mpTun[t].label \notin {0, l} => mpTun[t].label \in mpLoose')
  BY DEF CreateInseg
<1>10. MpTyped'
  <2>1. mpIlm' \in [DOMAIN mpIlm' -> IlmRecs] /\ mpInseg' \in [DOMAIN mpInseg' -> InsegRecs]
    BY <1>1, <1>2, <1>5, <1>6 DEF MpPut, MpTyped
  <2>2. mpWire' \in [DOMAIN mpInseg' -> MpTuns \cup {0}]
    BY <1>1, <1>2 DEF MpPut, MpTyped
  <2> QED BY <2>1, <2>2, <1>1, <1>2, <1>7, <1>8 DEF MpTyped
<1>11. LabelsOwned'
  <2>1. EsLabels \subseteq DOMAIN mpIlm
    BY <1>2 DEF LabelsOwned, EsLabels
  <2>2. EsLabels' = EsLabels
    BY <1>1 DEF EsLabels
  <2>3. \A e \in DOMAIN mpEs : mpEs[e].label \in DOMAIN mpIlm
    BY <2>1 DEF EsLabels
  <2> QED BY <2>1, <2>2, <2>3, <1>1, <1>2, <1>7 DEF LabelsOwned, EsLabels
<1>12. IlmFollows'
  <2>1. DOMAIN mpInseg \subseteq DOMAIN mpIlm
    BY <1>2 DEF LabelsOwned
  <2> QED BY <2>1, <1>2, <1>5, <1>6, <1>7 DEF IlmFollows
<1>13. MpWired'
  <2> SUFFICES ASSUME NEW j \in DOMAIN mpWire', mpWire'[j] # 0, j \notin mpLoose'
               PROVE  mpTun'[mpWire'[j]].label = j /\ mpIlm'[j].cw = mpTun'[mpWire'[j]].cw
    BY DEF MpWired
  <2>1. CASE j = l
    BY <2>1, <1>3, <1>5, <1>7, <1>8
  <2>2. CASE j # l
    <3>1. j \in DOMAIN mpWire /\ j \in DOMAIN mpInseg /\ j \in DOMAIN mpIlm /\ mpWire'[j] = mpWire[j] /\ j \notin mpLoose
      BY <2>2, <1>2, <1>7, <1>9 DEF MpTyped, LabelsOwned
    <3>2. mpTun[mpWire[j]].label = j /\ mpIlm[j].cw = mpTun[mpWire[j]].cw /\ mpWire[j] \in MpTuns /\ j # 0
      BY <3>1, <1>2, LabelFact DEF MpWired, MpTyped
    <3>3. mpWire[j] # t
      BY <3>1, <3>2, <2>2, <1>9
    <3> QED BY <3>1, <3>2, <3>3, <1>7, <1>8
  <2> QED BY <2>1, <2>2
<1>14. SegmentsCounted'
  BY <1>1, <1>2 DEF SegmentsCounted
<1> QED BY <1>10, <1>11, <1>12, <1>13, <1>14 DEF MpInv

(* An in-segment goes with its entry. *)
LEMMA RemoveInsegKeeps ==
  ASSUME MpInv, NEW l, RemoveInseg(l)
  PROVE  MpInv'
PROOF
<1>1. /\ l \in DOMAIN mpInseg /\ mpIlm' = MpDrop(mpIlm, l)
      /\ mpInseg' = MpDrop(mpInseg, l) /\ mpWire' = MpDrop(mpWire, l) /\ mpLoose' = mpLoose \ {l}
      /\ UNCHANGED <<mpEs, mpTun, mpPort, mpWait, mpSkew, mpStuck>>
  BY DEF RemoveInseg
<1>2. MpTyped /\ LabelsOwned /\ IlmFollows /\ MpWired /\ SegmentsCounted
  BY DEF MpInv
<1>3. /\ DOMAIN mpIlm' = DOMAIN mpIlm \ {l} /\ \A j \in DOMAIN mpIlm \ {l} : mpIlm'[j] = mpIlm[j]
      /\ DOMAIN mpInseg' = DOMAIN mpInseg \ {l} /\ \A j \in DOMAIN mpInseg \ {l} : mpInseg'[j] = mpInseg[j]
      /\ DOMAIN mpWire' = DOMAIN mpInseg \ {l} /\ \A j \in DOMAIN mpInseg \ {l} : mpWire'[j] = mpWire[j]
  BY <1>1, <1>2 DEF MpDrop, MpTyped
<1>4. MpTyped'
  <2>1. mpIlm' \in [DOMAIN mpIlm' -> IlmRecs] /\ mpInseg' \in [DOMAIN mpInseg' -> InsegRecs]
    BY <1>1, <1>2 DEF MpDrop, MpTyped
  <2>2. mpWire' \in [DOMAIN mpInseg' -> MpTuns \cup {0}]
    BY <1>1, <1>2 DEF MpDrop, MpTyped
  <2> QED BY <2>1, <2>2, <1>1, <1>2, <1>3 DEF MpTyped
<1>5. LabelsOwned'
  <2>1. \A e \in DOMAIN mpEs : mpEs[e].label \in DOMAIN mpIlm \ {l}
    BY <1>1, <1>2 DEF LabelsOwned
  <2> QED BY <2>1, <1>1, <1>2, <1>3 DEF LabelsOwned
<1>6. \A j \in DOMAIN mpInseg \ {l} : j \in DOMAIN mpIlm \ {l}
  BY <1>2 DEF LabelsOwned
<1>7. IlmFollows' /\ SegmentsCounted'
  BY <1>1, <1>2, <1>3, <1>6 DEF IlmFollows, SegmentsCounted
<1>8. MpWired'
  BY <1>1, <1>2, <1>3, <1>6 DEF MpWired, MpTyped
<1> QED BY <1>4, <1>5, <1>7, <1>8 DEF MpInv

(* A write to the entry of a label leaves the owners as they are. *)
LEMMA OneEntry ==
  ASSUME MpInv, NEW l \in DOMAIN mpIlm, NEW y \in IlmRecs, y.es = mpIlm[l].es,
         mpIlm' = [mpIlm EXCEPT ![l] = y], DOMAIN mpInseg' = DOMAIN mpInseg, UNCHANGED mpEs
  PROVE  /\ LabelsOwned' /\ mpIlm' \in [DOMAIN mpIlm' -> IlmRecs] /\ mpIlm'[l] = y
         /\ \A j \in DOMAIN mpIlm \ {l} : mpIlm'[j] = mpIlm[j]
PROOF
<1>1. MpTyped /\ LabelsOwned
  BY DEF MpInv
<1>2. /\ DOMAIN mpIlm' = DOMAIN mpIlm /\ mpIlm'[l] = y /\ \A j \in DOMAIN mpIlm \ {l} : mpIlm'[j] = mpIlm[j]
      /\ mpIlm' \in [DOMAIN mpIlm' -> IlmRecs]
  BY <1>1 DEF MpTyped
<1>3. \A j \in DOMAIN mpIlm : mpIlm'[j].es = mpIlm[j].es
  BY <1>2
<1>4. \A e \in DOMAIN mpEs : mpEs[e].label \in DOMAIN mpIlm
  BY <1>1 DEF LabelsOwned
<1> QED BY <1>1, <1>2, <1>3, <1>4 DEF LabelsOwned

(* A set of an in-segment. *)
LEMMA SetInsegKeeps ==
  ASSUME MpInv, NEW l \in DOMAIN mpInseg, NEW q \in OneAttr(l), SetInseg(l, q.pop, q.action, q.nh)
  PROVE  MpInv'
PROOF
<1> DEFINE x == [mpIlm[l] EXCEPT !.pop = q.pop]
           y == GetCtcNhId(x, q.action, q.nh)
           r == [action |-> q.action, nh |-> q.nh]
<1>1. /\ mpIlm' = [mpIlm EXCEPT ![l] = y] /\ mpInseg' = [mpInseg EXCEPT ![l] = r]
      /\ UNCHANGED <<mpWire, mpEs, mpTun, mpPort, mpWait, mpLoose, mpSkew, mpStuck>>
  BY DEF SetInseg
<1>2. MpTyped /\ LabelsOwned /\ IlmFollows /\ MpWired /\ SegmentsCounted
  BY DEF MpInv
<1>3. l \in DOMAIN mpIlm /\ mpIlm[l] \in IlmRecs /\ mpInseg[l] \in InsegRecs
  BY <1>2 DEF LabelsOwned, MpTyped
<1>4. q.pop \in {0, 1} /\ q.action \in MpActions /\ q.nh \in MpNhs \cup MpIfs
  BY <1>3 DEF OneAttr, IlmRecs, InsegRecs
<1>5. x \in IlmRecs /\ x.cw = mpIlm[l].cw /\ x.es = mpIlm[l].es
  BY <1>3, <1>4 DEF IlmRecs
<1> HIDE DEF x
<1>6. /\ y \in IlmRecs /\ y.nh = GetCtcNhId(NoIlm, q.action, q.nh).nh /\ y.cw = mpIlm[l].cw /\ y.es = mpIlm[l].es
      /\ q.action = "FORWARD" /\ q.nh \in MpIfs => y.decap /\ y.pop = 1
  BY <1>4, <1>5, GetCtcFact
<1>7. r \in InsegRecs /\ r.action = q.action /\ r.nh = q.nh
  BY <1>4 DEF InsegRecs
<1> HIDE DEF y, r
<1>8. /\ DOMAIN mpInseg' = DOMAIN mpInseg /\ mpInseg'[l] = r /\ \A j \in DOMAIN mpInseg \ {l} : mpInseg'[j] = mpInseg[j]
      /\ mpInseg' \in [DOMAIN mpInseg' -> InsegRecs]
  BY <1>1, <1>2, <1>7 DEF MpTyped
<1>9. /\ LabelsOwned' /\ mpIlm' \in [DOMAIN mpIlm' -> IlmRecs] /\ mpIlm'[l] = y
      /\ \A j \in DOMAIN mpIlm \ {l} : mpIlm'[j] = mpIlm[j]
  BY <1>1, <1>3, <1>6, <1>8, OneEntry
<1>10. MpTyped'
  BY <1>1, <1>2, <1>8, <1>9 DEF MpTyped
<1>11. \A j \in DOMAIN mpInseg : j \in DOMAIN mpIlm
  BY <1>2 DEF LabelsOwned
<1>12. IlmFollows'
  <2> SUFFICES ASSUME NEW j \in DOMAIN mpInseg
               PROVE  /\ mpIlm'[j].nh = GetCtcNhId(NoIlm, mpInseg'[j].action, mpInseg'[j].nh).nh
                      /\ mpInseg'[j].action = "FORWARD" /\ mpInseg'[j].nh \in MpIfs => mpIlm'[j].decap /\ mpIlm'[j].pop = 1
    BY <1>8 DEF IlmFollows
  <2>1. CASE j = l
    BY <2>1, <1>6, <1>7, <1>8, <1>9
  <2>2. CASE j # l
    BY <2>2, <1>2, <1>8, <1>9, <1>11 DEF IlmFollows
  <2> QED BY <2>1, <2>2
<1>13. \A j \in DOMAIN mpIlm : mpIlm'[j].cw = mpIlm[j].cw
  BY <1>6, <1>9
<1>14. MpWired' /\ SegmentsCounted'
  BY <1>1, <1>2, <1>11, <1>13 DEF MpWired, SegmentsCounted, MpTyped
<1> QED BY <1>9, <1>10, <1>12, <1>14 DEF MpInv

(* The control word of a tunnel. *)
LEMMA SetControlWordKeeps ==
  ASSUME MpInv, NEW t \in MpTuns, NEW on \in BOOLEAN, SetControlWord(t, on)
  PROVE  MpInv'
PROOF
<1> DEFINE l == mpTun[t].label
           y == [mpIlm[l] EXCEPT !.cw = on]
<1>1. /\ mpTun' = [mpTun EXCEPT ![t].cw = on]
      /\ UNCHANGED <<mpInseg, mpWire, mpEs, mpPort, mpWait, mpSkew, mpStuck>>
  BY DEF SetControlWord
<1>2. MpTyped /\ LabelsOwned /\ IlmFollows /\ MpWired /\ SegmentsCounted
  BY DEF MpInv
<1>3. /\ mpTun' \in [MpTuns -> [label : MpLabels \cup {0}, cw : BOOLEAN]]
      /\ \A u \in MpTuns : mpTun'[u].label = mpTun[u].label /\ mpTun'[u].cw = IF u = t THEN on ELSE mpTun[u].cw
  BY <1>1, <1>2 DEF MpTyped
<1>4. \A j \in DOMAIN mpInseg : j \in DOMAIN mpIlm /\ j # 0
  BY <1>2, LabelFact DEF LabelsOwned, MpTyped
<1>5. SegmentsCounted'
  BY <1>1, <1>2 DEF SegmentsCounted
<1>6. \A j \in DOMAIN mpWire : j \in DOMAIN mpInseg /\ (mpWire[j] # 0 => mpWire[j] \in MpTuns)
  BY <1>2 DEF MpTyped
<1>7. CASE l = 0
  <2>1. mpIlm' = mpIlm /\ mpLoose' = mpLoose
    BY <1>7 DEF SetControlWord
  <2>2. MpTyped' /\ LabelsOwned' /\ IlmFollows'
    BY <2>1, <1>1, <1>2, <1>3 DEF MpTyped, LabelsOwned, IlmFollows
  <2>3. MpWired'
    <3> SUFFICES ASSUME NEW j \in DOMAIN mpWire, mpWire[j] # 0, j \notin mpLoose
                 PROVE  mpTun'[mpWire[j]].label = j /\ mpIlm[j].cw = mpTun'[mpWire[j]].cw
      BY <1>1, <2>1 DEF MpWired
    <3>1. mpTun[mpWire[j]].label = j /\ mpIlm[j].cw = mpTun[mpWire[j]].cw
      BY <1>2 DEF MpWired
    <3>2. mpWire[j] # t
      BY <3>1, <1>4, <1>6, <1>7
    <3> QED BY <3>1, <3>2, <1>3, <1>6
  <2> QED BY <2>2, <2>3, <1>5 DEF MpInv
<1>8. CASE l # 0
  <2>1. /\ l \in DOMAIN mpIlm /\ mpIlm' = [mpIlm EXCEPT ![l].cw = on]
        /\ mpLoose \subseteq mpLoose' /\ (~(l \in DOMAIN mpWire /\ mpWire[l] = t) => l \in mpLoose')
    BY <1>8 DEF SetControlWord
  <2>2. mpIlm[l] \in IlmRecs
    BY <2>1, <1>2 DEF MpTyped
  <2>3. /\ y \in IlmRecs /\ y.cw = on /\ y.nh = mpIlm[l].nh /\ y.es = mpIlm[l].es
        /\ y.decap = mpIlm[l].decap /\ y.pop = mpIlm[l].pop
    BY <2>2 DEF IlmRecs
  <2>4. mpIlm' = [mpIlm EXCEPT ![l] = y]
    BY <2>1
  <2> HIDE DEF y
  <2>5. /\ LabelsOwned' /\ mpIlm' \in [DOMAIN mpIlm' -> IlmRecs] /\ mpIlm'[l] = y
        /\ \A j \in DOMAIN mpIlm \ {l} : mpIlm'[j] = mpIlm[j]
    <3>1. DOMAIN mpInseg' = DOMAIN mpInseg
      BY <1>1
    <3> QED BY <2>1, <2>3, <2>4, <3>1, <1>1, OneEntry
  <2>6. MpTyped'
    BY <2>5, <1>1, <1>2, <1>3 DEF MpTyped
  <2>7. \A j \in DOMAIN mpIlm : mpIlm'[j].nh = mpIlm[j].nh /\ mpIlm'[j].decap = mpIlm[j].decap /\ mpIlm'[j].pop = mpIlm[j].pop
    BY <2>3, <2>5
  <2>8. IlmFollows'
    BY <2>7, <1>1, <1>2, <1>4 DEF IlmFollows
  <2>9. MpWired'
    <3> SUFFICES ASSUME NEW j \in DOMAIN mpWire, mpWire[j] # 0, j \notin mpLoose'
                 PROVE  mpTun'[mpWire[j]].label = j /\ mpIlm'[j].cw = mpTun'[mpWire[j]].cw
      BY <1>1 DEF MpWired
    <3>1. mpTun[mpWire[j]].label = j /\ mpIlm[j].cw = mpTun[mpWire[j]].cw
      BY <1>2, <2>1 DEF MpWired
    <3>2. CASE j = l
      <4>1. mpWire[j] = t
        BY <3>2, <2>1
      <4> QED BY <4>1, <3>1, <3>2, <1>3, <2>3, <2>5
    <3>3. CASE j # l
      <4>1. mpWire[j] # t
        BY <3>1, <3>3
      <4> QED BY <4>1, <3>1, <3>3, <1>3, <1>4, <1>6, <2>5
    <3> QED BY <3>2, <3>3
  <2> QED BY <2>5, <2>6, <2>8, <2>9, <1>5 DEF MpInv
<1> QED BY <1>7, <1>8

(* The ports of a segment are finitely many. *)
SegPorts(e) == {p \in DOMAIN mpPort : mpPort[p].es = e}

(* ... so that they can be counted. *)
LEMMA SegPortsFinite ==
  ASSUME MpTyped, NEW e
  PROVE  IsFiniteSet(SegPorts(e))
PROOF
<1>1. SegPorts(e) \in SUBSET DOMAIN mpPort /\ IsFiniteSet(DOMAIN mpPort)
  BY DEF SegPorts, MpTyped
<1> QED BY <1>1, FS_Subset

(* A look-up outside the lock changes nothing but what it remembers. *)
LEMMA BeginEsKeeps ==
  ASSUME MpInv, NEW l \in MpLabels, BeginEs(l)
  PROVE  MpInv'
BY DEF BeginEs, MpInv, MpTyped, LabelsOwned, IlmFollows, MpWired, SegmentsCounted

(* A segment takes an id and a label that are free under the lock. *)
LEMMA EndEsKeeps ==
  ASSUME MpInv, EndEs
  PROVE  MpInv'
PROOF
<1> DEFINE l == mpWait
           e == Min(EsFree)
           r == [label |-> l, ref |-> 0]
           y1 == [NoIlm EXCEPT !.pop = 1]
           y == [y1 EXCEPT !.es = e]
<1>1. /\ mpWait # 0 /\ mpWait' = 0
      /\ UNCHANGED <<mpInseg, mpWire, mpTun, mpPort, mpLoose, mpSkew, mpStuck>>
  BY DEF EndEs
<1>2. MpTyped /\ LabelsOwned /\ IlmFollows /\ MpWired /\ SegmentsCounted
  BY DEF MpInv
<1>3. CASE ~(EsFree # {} /\ mpWait \notin DOMAIN mpIlm)
  <2>1. UNCHANGED <<mpEs, mpIlm>>
    BY <1>3 DEF EndEs
  <2> QED BY <2>1, <1>1, <1>2 DEF MpInv, MpTyped, LabelsOwned, IlmFollows, MpWired, SegmentsCounted
<1>4. CASE EsFree # {} /\ mpWait \notin DOMAIN mpIlm
  <2>1. mpEs' = MpPut(mpEs, e, r) /\ mpIlm' = MpPut(mpIlm, l, y)
    BY <1>4 DEF EndEs
  <2>2. l \in MpLabels /\ l \notin DOMAIN mpIlm
    BY <1>1, <1>2, <1>4 DEF MpTyped
  <2>3. e \in MpSegs /\ e \notin DOMAIN mpEs /\ e # 0
    <3>1. EsFree \in SUBSET Nat
      BY MplsAssumption DEF EsFree
    <3>2. e \in EsFree
      BY <3>1, <1>4, MinFact
    <3> QED BY <3>2, LabelFact DEF EsFree
  <2> HIDE DEF e
  <2>4. y1 \in IlmRecs
    BY DEF NoIlm, IlmRecs
  <2> HIDE DEF y1
  <2>5. y \in IlmRecs /\ y.es = e
    BY <2>3, <2>4 DEF IlmRecs
  <2>6. r.label = l /\ r.ref = 0 /\ r \in [label : MpLabels, ref : Int]
    BY <2>2
  <2> HIDE DEF y, r
  <2>7. /\ DOMAIN mpEs' = DOMAIN mpEs \cup {e} /\ mpEs'[e] = r /\ \A x \in DOMAIN mpEs : mpEs'[x] = mpEs[x]
        /\ DOMAIN mpIlm' = DOMAIN mpIlm \cup {l} /\ mpIlm'[l] = y /\ \A j \in DOMAIN mpIlm : mpIlm'[j] = mpIlm[j]
    BY <2>1, <2>2, <2>3 DEF MpPut
  <2>8. MpTyped'
    <3>1. mpEs' \in [DOMAIN mpEs' -> [label : MpLabels, ref : Int]] /\ DOMAIN mpEs' \subseteq MpSegs
      BY <1>2, <2>1, <2>3, <2>6 DEF MpPut, MpTyped
    <3>2. mpIlm' \in [DOMAIN mpIlm' -> IlmRecs]
      BY <1>2, <2>1, <2>5 DEF MpPut, MpTyped
    <3> QED BY <3>1, <3>2, <1>1, <1>2 DEF MpTyped
  <2>9. DOMAIN mpIlm = DOMAIN mpInseg \cup EsLabels /\ DOMAIN mpInseg \cap EsLabels = {}
        /\ \A x \in DOMAIN mpEs : mpIlm[mpEs[x].label].es = x
    BY <1>2 DEF LabelsOwned, EsLabels
  <2>10. EsLabels' = EsLabels \cup {l}
    <3>1. ASSUME NEW j PROVE j \in EsLabels' <=> j \in EsLabels \/ j = l
      BY <2>6, <2>7 DEF EsLabels
    <3> QED BY <3>1
  <2>11. \A x \in DOMAIN mpEs' : mpIlm'[mpEs'[x].label].es = x
    <3> SUFFICES ASSUME NEW x \in DOMAIN mpEs' PROVE mpIlm'[mpEs'[x].label].es = x
      OBVIOUS
    <3>1. CASE x = e
      BY <3>1, <2>5, <2>6, <2>7
    <3>2. CASE x # e
      <4>1. x \in DOMAIN mpEs /\ mpEs[x].label \in DOMAIN mpIlm
        BY <3>2, <2>7, <2>9 DEF EsLabels
      <4> QED BY <4>1, <2>7, <2>9
    <3> QED BY <3>1, <3>2
  <2>12. LabelsOwned'
    <3>1. DOMAIN mpIlm' = DOMAIN mpInseg' \cup EsLabels' /\ DOMAIN mpInseg' \cap EsLabels' = {}
      BY <1>1, <2>2, <2>7, <2>9, <2>10
    <3> QED BY <3>1, <2>11 DEF LabelsOwned, EsLabels
  <2>13. IlmFollows' /\ MpWired'
    <3>1. \A j \in DOMAIN mpInseg : mpIlm'[j] = mpIlm[j]
      BY <2>7, <2>9
    <3> QED BY <3>1, <1>1, <1>2 DEF IlmFollows, MpWired, MpTyped
  <2>14. SegmentsCounted'
    <3> SUFFICES ASSUME ~mpSkew, ~mpStuck
                 PROVE  /\ \A x \in DOMAIN mpEs' : mpEs'[x].ref = Cardinality(SegPorts(x))
                        /\ \A p \in DOMAIN mpPort : mpPort[p].es \in DOMAIN mpEs' \cup {0} /\ mpPort[p].hw = mpPort[p].es
      BY <1>1 DEF SegmentsCounted, SegPorts
    <3>1. /\ \A x \in DOMAIN mpEs : mpEs[x].ref = Cardinality(SegPorts(x))
          /\ \A p \in DOMAIN mpPort : mpPort[p].es \in DOMAIN mpEs \cup {0} /\ mpPort[p].hw = mpPort[p].es
      BY <1>2 DEF SegmentsCounted, SegPorts
    <3>2. SegPorts(e) = {}
      BY <3>1, <2>3 DEF SegPorts
    <3>3. Cardinality(SegPorts(e)) = 0
      BY <3>2, FS_EmptySet
    <3> QED BY <3>1, <3>3, <2>6, <2>7
  <2> QED BY <2>8, <2>12, <2>13, <2>14 DEF MpInv
<1> QED BY <1>3, <1>4

(* A segment that no port counts goes with its label. *)
LEMMA RemoveEsKeeps ==
  ASSUME MpInv, NEW e \in MpSegs, RemoveEs(e)
  PROVE  MpInv'
PROOF
<1> DEFINE l == mpEs[e].label
<1>1. e \in DOMAIN mpEs /\ UNCHANGED <<mpInseg, mpWire, mpTun, mpPort, mpWait, mpSkew>>
  BY DEF RemoveEs
<1>2. MpTyped /\ LabelsOwned /\ IlmFollows /\ MpWired /\ SegmentsCounted
  BY DEF MpInv
<1>3. CASE mpStuck' = TRUE /\ UNCHANGED <<mpEs, mpIlm, mpLoose, mpGone>>
  BY <1>1, <1>2, <1>3 DEF MpInv, MpTyped, LabelsOwned, IlmFollows, MpWired, SegmentsCounted
<1>4. CASE ~(mpStuck' = TRUE /\ UNCHANGED <<mpEs, mpIlm, mpLoose, mpGone>>)
  <2>1. /\ mpEs[e].ref = 0 /\ mpEs' = MpDrop(mpEs, e) /\ mpIlm' = MpDrop(mpIlm, l)
        /\ mpLoose' = mpLoose \ {l} /\ UNCHANGED mpStuck
    BY <1>4 DEF RemoveEs
  <2>2. DOMAIN mpIlm = DOMAIN mpInseg \cup EsLabels /\ DOMAIN mpInseg \cap EsLabels = {}
        /\ \A x \in DOMAIN mpEs : mpIlm[mpEs[x].label].es = x
    BY <1>2 DEF LabelsOwned, EsLabels
  <2>3. l \in EsLabels /\ l \notin DOMAIN mpInseg /\ \A x \in DOMAIN mpEs \ {e} : mpEs[x].label # l
    BY <1>1, <2>2 DEF EsLabels
  <2> HIDE DEF l
  <2>4. /\ DOMAIN mpEs' = DOMAIN mpEs \ {e} /\ \A x \in DOMAIN mpEs \ {e} : mpEs'[x] = mpEs[x]
        /\ DOMAIN mpIlm' = DOMAIN mpIlm \ {l} /\ \A j \in DOMAIN mpIlm \ {l} : mpIlm'[j] = mpIlm[j]
    BY <2>1 DEF MpDrop
  <2>5. MpTyped'
    <3>1. mpEs' \in [DOMAIN mpEs' -> [label : MpLabels, ref : Int]] /\ DOMAIN mpEs' \subseteq MpSegs
      BY <1>2, <2>1 DEF MpDrop, MpTyped
    <3>2. mpIlm' \in [DOMAIN mpIlm' -> IlmRecs]
      BY <1>2, <2>1 DEF MpDrop, MpTyped
    <3> QED BY <3>1, <3>2, <1>1, <1>2 DEF MpTyped
  <2>6. EsLabels' = EsLabels \ {l}
    <3>1. ASSUME NEW j PROVE j \in EsLabels' <=> j \in EsLabels /\ j # l
      <4>1. ASSUME j \in EsLabels' PROVE j \in EsLabels /\ j # l
        BY <4>1, <2>3, <2>4 DEF EsLabels
      <4>2. ASSUME j \in EsLabels, j # l PROVE j \in EsLabels'
        BY <4>2, <2>4 DEF EsLabels, l
      <4> QED BY <4>1, <4>2
    <3> QED BY <3>1
  <2>7. \A x \in DOMAIN mpEs' : mpIlm'[mpEs'[x].label].es = x
    <3> SUFFICES ASSUME NEW x \in DOMAIN mpEs' PROVE mpIlm'[mpEs'[x].label].es = x
      OBVIOUS
    <3>1. x \in DOMAIN mpEs \ {e} /\ mpEs[x].label \in DOMAIN mpIlm
      BY <2>2, <2>4 DEF EsLabels
    <3> QED BY <3>1, <2>2, <2>3, <2>4
  <2>8. LabelsOwned'
    <3>1. DOMAIN mpIlm' = DOMAIN mpInseg' \cup EsLabels' /\ DOMAIN mpInseg' \cap EsLabels' = {}
      BY <1>1, <2>2, <2>3, <2>4, <2>6
    <3> QED BY <3>1, <2>7 DEF LabelsOwned, EsLabels
  <2>9. IlmFollows' /\ MpWired'
    <3>1. \A j \in DOMAIN mpInseg : mpIlm'[j] = mpIlm[j] /\ (j \notin mpLoose' => j \notin mpLoose)
      BY <2>1, <2>2, <2>3, <2>4
    <3> QED BY <3>1, <1>1, <1>2 DEF IlmFollows, MpWired, MpTyped
  <2>10. SegmentsCounted'
    <3> SUFFICES ASSUME ~mpSkew, ~mpStuck
                 PROVE  /\ \A x \in DOMAIN mpEs' : mpEs'[x].ref = Cardinality(SegPorts(x))
                        /\ \A p \in DOMAIN mpPort : mpPort[p].es \in DOMAIN mpEs' \cup {0} /\ mpPort[p].hw = mpPort[p].es
      BY <1>1, <2>1 DEF SegmentsCounted, SegPorts
    <3>1. /\ \A x \in DOMAIN mpEs : mpEs[x].ref = Cardinality(SegPorts(x))
          /\ \A p \in DOMAIN mpPort : mpPort[p].es \in DOMAIN mpEs \cup {0} /\ mpPort[p].hw = mpPort[p].es
      BY <1>2 DEF SegmentsCounted, SegPorts
    <3>2. SegPorts(e) = {}
      BY <3>1, <1>1, <1>2, <2>1, SegPortsFinite, FS_EmptySet
    <3> QED BY <3>1, <3>2, <2>4 DEF SegPorts
  <2> QED BY <2>5, <2>8, <2>9, <2>10 DEF MpInv
<1> QED BY <1>3, <1>4

(* The id comes back. *)
LEMMA FreeEsKeeps ==
  ASSUME MpInv, NEW e, FreeEs(e)
  PROVE  MpInv'
BY DEF FreeEs, MpInv, MpTyped, LabelsOwned, IlmFollows, MpWired, SegmentsCounted

(* What does not depend on the counts and the ports. *)
LEMMA OnlyPorts ==
  ASSUME MpInv, UNCHANGED <<mpInseg, mpWire, mpTun, mpIlm, mpWait, mpLoose>>,
         DOMAIN mpEs' = DOMAIN mpEs, \A x \in DOMAIN mpEs : mpEs'[x].label = mpEs[x].label,
         mpEs' \in [DOMAIN mpEs -> [label : MpLabels, ref : Int]],
         mpPort' \in [DOMAIN mpPort' -> [es : MpSegs \cup {0}, hw : MpSegs \cup {0}]],
         IsFiniteSet(DOMAIN mpPort'), SegmentsCounted'
  PROVE  MpInv'
PROOF
<1>1. MpTyped /\ LabelsOwned /\ IlmFollows /\ MpWired
  BY DEF MpInv
<1>2. MpTyped'
  BY <1>1 DEF MpTyped
<1>3. EsLabels' = EsLabels
  <2>1. ASSUME NEW j PROVE j \in EsLabels' <=> j \in EsLabels
    BY DEF EsLabels
  <2> QED BY <2>1
<1>4. LabelsOwned'
  <2>1. DOMAIN mpIlm = DOMAIN mpInseg \cup EsLabels /\ DOMAIN mpInseg \cap EsLabels = {}
        /\ \A x \in DOMAIN mpEs : mpIlm[mpEs[x].label].es = x
    BY <1>1 DEF LabelsOwned, EsLabels
  <2>2. \A x \in DOMAIN mpEs' : mpIlm'[mpEs'[x].label].es = x
    BY <2>1
  <2>3. DOMAIN mpIlm' = DOMAIN mpInseg' \cup EsLabels' /\ DOMAIN mpInseg' \cap EsLabels' = {}
    BY <2>1, <1>3
  <2> QED BY <2>2, <2>3 DEF LabelsOwned, EsLabels
<1>5. IlmFollows' /\ MpWired'
  BY <1>1 DEF IlmFollows, MpWired
<1> QED BY <1>2, <1>4, <1>5 DEF MpInv

(* A port goes from one segment to another, and both are counted. *)
LEMMA PortMoves ==
  ASSUME MpInv, ~mpStuck, NEW p \in MpPorts, NEW e \in MpSegs \cup {0}, SetPortEs(p, e)
  PROVE  MpInv'
PROOF
<1> DEFINE old == mpPort[p].es
           new == [es |-> e, hw |-> e]
           more == [x \in DOMAIN mpEs |-> IF x = e THEN 1 ELSE 0]
           less == [x \in DOMAIN mpEs |-> IF x = old THEN 1 ELSE 0]
<1>1. /\ p \in DOMAIN mpPort /\ old # e /\ (e # 0 => e \in DOMAIN mpEs)
      /\ mpStuck' = (old # 0 /\ old \notin DOMAIN mpEs)
      /\ mpPort' = [mpPort EXCEPT ![p] = new]
      /\ mpEs' = [x \in DOMAIN mpEs |-> [mpEs[x] EXCEPT !.ref = @ + more[x] - less[x]]]
      /\ UNCHANGED <<mpInseg, mpWire, mpTun, mpIlm, mpWait, mpLoose, mpSkew>>
  BY DEF SetPortEs
<1>2. MpTyped /\ SegmentsCounted
  BY DEF MpInv
<1>3. new.es = e /\ new.hw = e /\ new \in [es : MpSegs \cup {0}, hw : MpSegs \cup {0}]
  OBVIOUS
<1>4. \A x \in DOMAIN mpEs : more[x] \in Int /\ less[x] \in Int
  OBVIOUS
<1> HIDE DEF new, more, less
<1>5. /\ DOMAIN mpEs' = DOMAIN mpEs
      /\ \A x \in DOMAIN mpEs : mpEs'[x].label = mpEs[x].label /\ mpEs'[x].ref = mpEs[x].ref + more[x] - less[x]
      /\ mpEs' \in [DOMAIN mpEs -> [label : MpLabels, ref : Int]]
  <2>1. ASSUME NEW x \in DOMAIN mpEs
        PROVE  /\ mpEs'[x].label = mpEs[x].label /\ mpEs'[x].ref = mpEs[x].ref + more[x] - less[x]
               /\ mpEs'[x] \in [label : MpLabels, ref : Int]
    <3>1. mpEs[x] \in [label : MpLabels, ref : Int] /\ more[x] \in Int /\ less[x] \in Int
      BY <1>2, <1>4 DEF MpTyped
    <3>2. mpEs'[x] = [mpEs[x] EXCEPT !.ref = mpEs[x].ref + more[x] - less[x]]
      BY <1>1
    <3> QED BY ONLY <3>1, <3>2
  <2>2. DOMAIN mpEs' = DOMAIN mpEs /\ mpEs' = [x \in DOMAIN mpEs |-> mpEs'[x]]
    BY <1>1
  <2> QED BY ONLY <2>1, <2>2
<1>6. /\ DOMAIN mpPort' = DOMAIN mpPort /\ mpPort'[p] = new /\ \A q \in DOMAIN mpPort \ {p} : mpPort'[q] = mpPort[q]
      /\ mpPort' \in [DOMAIN mpPort' -> [es : MpSegs \cup {0}, hw : MpSegs \cup {0}]]
  BY <1>1, <1>2, <1>3 DEF MpTyped
<1>7. SegmentsCounted'
  <2> SUFFICES ASSUME ~mpSkew, old # 0 => old \in DOMAIN mpEs
               PROVE  /\ \A x \in DOMAIN mpEs : mpEs'[x].ref = Cardinality(SegPorts(x)')
                      /\ \A q \in DOMAIN mpPort : mpPort'[q].es \in DOMAIN mpEs \cup {0} /\ mpPort'[q].hw = mpPort'[q].es
    BY <1>1, <1>5, <1>6 DEF SegmentsCounted, SegPorts
  <2>1. /\ \A x \in DOMAIN mpEs : mpEs[x].ref = Cardinality(SegPorts(x))
        /\ \A q \in DOMAIN mpPort : mpPort[q].es \in DOMAIN mpEs \cup {0} /\ mpPort[q].hw = mpPort[q].es
    BY <1>2 DEF SegmentsCounted, SegPorts
  <2>2. ASSUME NEW x \in DOMAIN mpEs PROVE mpEs'[x].ref = Cardinality(SegPorts(x)')
    <3>1. IsFiniteSet(SegPorts(x)) /\ Cardinality(SegPorts(x)) \in Nat
      BY <1>2, SegPortsFinite, FS_CardinalityType
    <3>2. CASE x = e
      <4>1. SegPorts(x)' = SegPorts(x) \cup {p} /\ p \notin SegPorts(x)
        <5>1. ASSUME NEW q PROVE q \in SegPorts(x)' <=> q \in SegPorts(x) \/ q = p
          BY <1>1, <1>3, <1>6, <3>2 DEF SegPorts
        <5> QED BY <5>1, <1>1, <3>2 DEF SegPorts
      <4>2. Cardinality(SegPorts(x)') = Cardinality(SegPorts(x)) + 1
        BY <4>1, <3>1, FS_AddElement
      <4> QED BY <4>2, <3>1, <3>2, <1>1, <1>5, <2>1 DEF more, less
    <3>3. CASE x = old
      <4>1. SegPorts(x)' = SegPorts(x) \ {p} /\ p \in SegPorts(x)
        <5>1. ASSUME NEW q PROVE q \in SegPorts(x)' <=> q \in SegPorts(x) /\ q # p
          BY <1>1, <1>3, <1>6, <3>3 DEF SegPorts
        <5> QED BY <5>1, <1>1, <3>3 DEF SegPorts
      <4>2. Cardinality(SegPorts(x)') = Cardinality(SegPorts(x)) - 1
        BY <4>1, <3>1, FS_RemoveElement
      <4> QED BY <4>2, <3>1, <3>3, <1>1, <1>5, <2>1 DEF more, less
    <3>4. CASE x # e /\ x # old
      <4>1. SegPorts(x)' = SegPorts(x)
        <5>1. ASSUME NEW q PROVE q \in SegPorts(x)' <=> q \in SegPorts(x)
          BY <1>1, <1>3, <1>6, <3>4 DEF SegPorts
        <5> QED BY <5>1
      <4> QED BY <4>1, <3>1, <3>4, <1>5, <2>1 DEF more, less
    <3> QED BY <3>2, <3>3, <3>4
  <2> QED BY <2>1, <2>2, <1>1, <1>3, <1>6
<1>8. IsFiniteSet(DOMAIN mpPort')
  BY <1>2, <1>6 DEF MpTyped
<1> QED BY <1>1, <1>5, <1>6, <1>7, <1>8, OnlyPorts

(* A port comes or goes; what it does to the counts is said. *)
LEMMA PortWithEsKeeps ==
  ASSUME MpInv, NEW p \in MpPorts,
         (\E e \in MpSegs \cup {0} : CreatePortWithEs(p, e)) \/ RemovePortWithEs(p)
  PROVE  MpInv'
PROOF
<1>1. MpTyped /\ SegmentsCounted
  BY DEF MpInv
<1>2. /\ ~mpSkew /\ UNCHANGED <<mpInseg, mpWire, mpTun, mpIlm, mpWait, mpLoose, mpEs, mpStuck>>
      /\ IsFiniteSet(DOMAIN mpPort')
      /\ mpPort' \in [DOMAIN mpPort' -> [es : MpSegs \cup {0}, hw : MpSegs \cup {0}]]
      /\ ~mpSkew' => /\ \A q \in DOMAIN mpPort' \ {p} : q \in DOMAIN mpPort /\ mpPort'[q] = mpPort[q]
                     /\ \A q \in DOMAIN mpPort \ {p} : q \in DOMAIN mpPort'
                     /\ p \in DOMAIN mpPort => mpPort[p].es = 0
                     /\ p \in DOMAIN mpPort' => mpPort'[p].es = 0 /\ mpPort'[p].hw = 0
  <2>1. CASE \E e \in MpSegs \cup {0} : CreatePortWithEs(p, e)
    <3>1. PICK e \in MpSegs \cup {0} : CreatePortWithEs(p, e)
      BY <2>1
    <3> DEFINE new == [es |-> e, hw |-> 0]
    <3>2. /\ ~mpSkew /\ p \notin DOMAIN mpPort /\ mpPort' = MpPut(mpPort, p, new) /\ (~mpSkew' => e = 0)
          /\ UNCHANGED <<mpInseg, mpWire, mpTun, mpIlm, mpWait, mpLoose, mpEs, mpStuck>>
      BY <3>1 DEF CreatePortWithEs
    <3>3. new.es = e /\ new.hw = 0 /\ new \in [es : MpSegs \cup {0}, hw : MpSegs \cup {0}]
      OBVIOUS
    <3> HIDE DEF new
    <3>4. /\ DOMAIN mpPort' = DOMAIN mpPort \cup {p} /\ mpPort'[p] = new
          /\ \A q \in DOMAIN mpPort : mpPort'[q] = mpPort[q]
      BY <3>2 DEF MpPut
    <3>5. mpPort' \in [DOMAIN mpPort' -> [es : MpSegs \cup {0}, hw : MpSegs \cup {0}]]
      BY <3>2, <3>3, <1>1 DEF MpPut, MpTyped
    <3>6. IsFiniteSet(DOMAIN mpPort')
      BY <3>4, <1>1, FS_AddElement DEF MpTyped
    <3> QED BY <3>2, <3>3, <3>4, <3>5, <3>6
  <2>2. CASE RemovePortWithEs(p)
    <3>2. /\ ~mpSkew /\ p \in DOMAIN mpPort /\ mpPort' = MpDrop(mpPort, p) /\ (~mpSkew' => mpPort[p].es = 0)
          /\ UNCHANGED <<mpInseg, mpWire, mpTun, mpIlm, mpWait, mpLoose, mpEs, mpStuck>>
      BY <2>2 DEF RemovePortWithEs
    <3>4. DOMAIN mpPort' = DOMAIN mpPort \ {p} /\ \A q \in DOMAIN mpPort' : mpPort'[q] = mpPort[q]
      BY <3>2 DEF MpDrop
    <3>5. mpPort' \in [DOMAIN mpPort' -> [es : MpSegs \cup {0}, hw : MpSegs \cup {0}]]
      BY <3>2, <1>1 DEF MpDrop, MpTyped
    <3>6. IsFiniteSet(DOMAIN mpPort')
      BY <3>4, <1>1, FS_RemoveElement DEF MpTyped
    <3> QED BY <3>2, <3>4, <3>5, <3>6
  <2> QED BY <2>1, <2>2
<1>3. SegmentsCounted'
  <2> SUFFICES ASSUME ~mpSkew', ~mpStuck
               PROVE  /\ \A x \in DOMAIN mpEs : mpEs[x].ref = Cardinality(SegPorts(x)')
                      /\ \A q \in DOMAIN mpPort' : mpPort'[q].es \in DOMAIN mpEs \cup {0} /\ mpPort'[q].hw = mpPort'[q].es
    BY <1>2 DEF SegmentsCounted, SegPorts
  <2>1. /\ \A x \in DOMAIN mpEs : mpEs[x].ref = Cardinality(SegPorts(x))
        /\ \A q \in DOMAIN mpPort : mpPort[q].es \in DOMAIN mpEs \cup {0} /\ mpPort[q].hw = mpPort[q].es
    BY <1>1, <1>2 DEF SegmentsCounted, SegPorts
  <2>2. ASSUME NEW x \in DOMAIN mpEs PROVE SegPorts(x)' = SegPorts(x)
    <3>1. x # 0
      BY <1>1, LabelFact DEF MpTyped
    <3>2. ASSUME NEW q PROVE q \in SegPorts(x)' <=> q \in SegPorts(x)
      BY <3>1, <1>2 DEF SegPorts
    <3> QED BY <3>2
  <2> QED BY <2>1, <2>2, <1>2
<1>4. mpEs' \in [DOMAIN mpEs -> [label : MpLabels, ref : Int]]
  BY <1>1, <1>2 DEF MpTyped
<1> QED BY <1>2, <1>3, <1>4, OnlyPorts

(* Every call keeps the invariant. *)
LEMMA MpCallsKeep ==
  ASSUME MpInv, [MpNext]_mpVars
  PROVE  MpInv'
PROOF
<1>1. CASE UNCHANGED mpVars
  BY <1>1 DEF mpVars, MpInv, MpTyped, LabelsOwned, IlmFollows, MpWired, SegmentsCounted
<1>2. CASE MpNext
  <2>1. CASE \E l \in MpLabels, a \in MpActions, n \in MpNhs \cup MpIfs, t \in MpTuns \cup {0} : CreateInseg(l, 0, a, n, t)
    BY <2>1, CreateInsegKeeps
  <2>2. CASE \E l \in MpLabels : RemoveInseg(l) \/ BeginEs(l)
    BY <2>2, RemoveInsegKeeps, BeginEsKeeps
  <2>3. CASE \E l \in DOMAIN mpInseg : \E r \in OneAttr(l) : SetInseg(l, r.pop, r.action, r.nh)
    BY <2>3, SetInsegKeeps
  <2>4. CASE \E t \in MpTuns, on \in BOOLEAN : SetControlWord(t, on)
    BY <2>4, SetControlWordKeeps
  <2>5. CASE EndEs \/ \E e \in MpSegs : RemoveEs(e) \/ FreeEs(e)
    BY <2>5, EndEsKeeps, RemoveEsKeeps, FreeEsKeeps
  <2>6. CASE ~mpStuck /\ \E p \in MpPorts, e \in MpSegs \cup {0} : SetPortEs(p, e)
    <3>1. PICK p \in MpPorts, e \in MpSegs \cup {0} : SetPortEs(p, e)
      BY <2>6
    <3>2. ~mpStuck
      BY <2>6
    <3> QED BY <3>1, <3>2, PortMoves
  <2>7. CASE \E p \in MpPorts : (\E e \in MpSegs \cup {0} : CreatePortWithEs(p, e)) \/ RemovePortWithEs(p)
    BY <2>7, PortWithEsKeeps
  <2> QED BY <1>2, <1>1, <2>1, <2>2, <2>3, <2>4, <2>5, <2>6, <2>7 DEF MpNext
<1> QED BY <1>1, <1>2

-----------------------------------------------------------------------------
(* PTP and SyncE: the domain and its hardware *)
PtRecs == [basedOnPort : BOOLEAN, device : Nat, tod : BOOLEAN, mode : {0, 2}, leap : Nat, pps : Nat]
PtTyped == ptDom \in PtRecs /\ ptHw \in PtRecs /\ ptOff \subseteq {"mode", "leap", "pps"}

(* The record and the hardware, field by field: time of day is never off. *)
PtSame ==
  /\ ptHw.basedOnPort = ptDom.basedOnPort /\ ptHw.device = ptDom.device /\ ptHw.tod = ptDom.tod
  /\ "mode" \notin ptOff => ptHw.mode = ptDom.mode
  /\ "leap" \notin ptOff => ptHw.leap = ptDom.leap
  /\ "pps" \notin ptOff => ptHw.pps = ptDom.pps
PtDomain ==
  /\ ptMade => PtSame
  /\ ~ptMade /\ ~ptHalf => ptHw = NoPtp
  /\ ptMade /\ ptHw.tod => Frame(ptHw) = ptLive
PtBinds == ptPortEn = ptBound /\ (ptBound # ptOrphan => ptMade)
PtClocks == syLive \subseteq syUsed /\ (syLive = {} => syClock = 0)
PtInv == PtTyped /\ PtDomain /\ PtBinds /\ PtClocks

(* What the invariant says of PTP and SyncE. *)
LEMMA PtGives == PtInv => TimeSyncExact
PROOF
<1> SUFFICES ASSUME PtInv PROVE TimeSyncExact
  OBVIOUS
<1>1. ASSUME ptMade, NEW f \in DOMAIN NoPtp \ ptOff PROVE ptHw[f] = ptDom[f]
  <2>1. f \in {"basedOnPort", "device", "tod", "mode", "leap", "pps"}
    BY DEF NoPtp
  <2>2. PtSame
    BY <1>1 DEF PtInv, PtDomain
  <2> QED BY <1>1, <2>1, <2>2 DEF PtSame
<1> QED BY <1>1 DEF PtInv, PtDomain, PtBinds, PtClocks, TimeSyncExact

(* At first there is no domain. *)
LEMMA PtInitially == PtInit => PtInv
PROOF
<1> SUFFICES ASSUME PtInit PROVE PtInv
  OBVIOUS
<1>1. NoPtp \in PtRecs
  BY DEF NoPtp, PtRecs
<1> QED BY <1>1 DEF PtInit, PtInv, PtTyped, PtDomain, PtBinds, PtClocks

(* A domain comes with what it was given. *)
LEMMA CreateDomainKeeps ==
  ASSUME PtInv, NEW b \in BOOLEAN, NEW t \in BOOLEAN, NEW d \in PtVals, NEW l \in PtVals, NEW s \in PtVals,
         NEW m \in {0, 2, NotGiven}, CreateDomain(b, d, m, l, s, t)
  PROVE  PtInv'
PROOF
<1> DEFINE rm == IF m = NotGiven THEN 0 ELSE m
           hm == IF m = NotGiven THEN ptHw.mode ELSE m
           rec == [NewDomain EXCEPT !.basedOnPort = b, !.device = d, !.tod = t, !.mode = rm]
           chip == [rec EXCEPT !.mode = hm, !.leap = l, !.pps = s]
<1>1. /\ ptMade' = TRUE /\ ptDom' = rec /\ ptHw' = chip /\ ptOff' = {f \in {"mode", "leap", "pps"} : chip[f] # rec[f]}
      /\ ptLive' = <<l, s>> /\ UNCHANGED <<ptHalf, ptBound, ptPortEn, ptOrphan, syUsed, syLive, syClock>>
  BY DEF CreateDomain, ptPortVars, syVars
<1>2. ptHw.mode \in {0, 2} /\ d \in Nat /\ l \in Nat /\ s \in Nat /\ m \in {0, 2, 3}
  BY PtAssumption DEF PtInv, PtTyped, PtRecs, NotGiven
<1>3. rm \in {0, 2} /\ hm \in {0, 2}
  BY <1>2 DEF NotGiven
<1> HIDE DEF rm, hm
<1>4. NewDomain \in PtRecs
  BY DEF NewDomain, NoPtp, PtRecs
<1>5. rec \in PtRecs
  BY <1>2, <1>3, <1>4 DEF PtRecs
<1> HIDE DEF rec
<1>6. /\ chip \in PtRecs /\ chip.basedOnPort = rec.basedOnPort /\ chip.device = rec.device /\ chip.tod = rec.tod
      /\ chip.leap = l /\ chip.pps = s
  BY <1>2, <1>3, <1>5 DEF PtRecs
<1> HIDE DEF chip
<1>7. PtTyped'
  BY <1>1, <1>5, <1>6 DEF PtTyped
<1>8. PtDomain'
  BY <1>1, <1>6 DEF PtDomain, PtSame, Frame
<1> QED BY <1>1, <1>7, <1>8 DEF PtInv, PtBinds, PtClocks

(* One that fails may leave something in the hardware, and says so. *)
LEMMA CreateDomainFailsKeeps ==
  ASSUME PtInv, NEW b \in BOOLEAN, NEW d \in PtVals, CreateDomainFails(b, d)
  PROVE  PtInv'
PROOF
<1>1. /\ ~ptMade /\ ptHw' = [ptHw EXCEPT !.basedOnPort = b, !.device = d] /\ ptHalf' = (ptHw' # NoPtp)
      /\ UNCHANGED <<ptMade, ptDom, ptOff, ptLive, ptBound, ptPortEn, ptOrphan, syUsed, syLive, syClock>>
  BY DEF CreateDomainFails, ptPortVars, syVars
<1>2. ptHw' \in PtRecs
  BY <1>1, PtAssumption DEF PtInv, PtTyped, PtRecs
<1> QED BY <1>1, <1>2 DEF PtInv, PtTyped, PtDomain, PtBinds, PtClocks

(* A domain goes, and the hardware does nothing. *)
LEMMA RemoveDomainKeeps ==
  ASSUME PtInv, RemoveDomain
  PROVE  PtInv'
PROOF
<1>1. NoPtp \in PtRecs
  BY DEF NoPtp, PtRecs
<1>2. /\ ptMade' = FALSE /\ ptDom' = NoPtp /\ ptOff' = {} /\ ptHalf' = FALSE /\ ptHw' = NoPtp
      /\ ptOrphan' = ptBound /\ UNCHANGED <<ptBound, ptPortEn, syUsed, syLive, syClock>>
  BY DEF RemoveDomain, syVars
<1> QED BY <1>1, <1>2 DEF PtInv, PtTyped, PtDomain, PtBinds, PtClocks

(* The sets of a domain's fields. *)
LEMMA SetDomainKeeps ==
  ASSUME PtInv, NEW f \in {"basedOnPort", "device"}, NEW v, v \in IF f = "device" THEN PtVals ELSE BOOLEAN,
         SetDomain(f, v)
  PROVE  PtInv'
PROOF
<1>1. /\ ptMade /\ ptDom' = [ptDom EXCEPT ![f] = v] /\ ptHw' = [ptHw EXCEPT ![f] = v]
      /\ UNCHANGED <<ptMade, ptOff, ptHalf, ptLive, ptBound, ptPortEn, ptOrphan, syUsed, syLive, syClock>>
  BY DEF SetDomain, ptPortVars, syVars
<1>2. ptDom \in PtRecs /\ ptHw \in PtRecs /\ PtSame /\ (ptHw.tod => Frame(ptHw) = ptLive)
  BY <1>1 DEF PtInv, PtTyped, PtDomain
<1>3. CASE f = "device"
  <2>1. /\ ptDom' = [ptDom EXCEPT !.device = v] /\ ptHw' = [ptHw EXCEPT !.device = v] /\ v \in Nat
    BY <1>1, <1>3, PtAssumption
  <2>2. ptDom' \in PtRecs /\ ptHw' \in PtRecs /\ PtSame' /\ (ptHw'.tod => Frame(ptHw') = ptLive)
    BY <1>1, <1>2, <2>1 DEF PtRecs, PtSame, Frame
  <2> QED BY <1>1, <2>2 DEF PtInv, PtTyped, PtDomain, PtBinds, PtClocks
<1>4. CASE f = "basedOnPort"
  <2>1. /\ ptDom' = [ptDom EXCEPT !.basedOnPort = v] /\ ptHw' = [ptHw EXCEPT !.basedOnPort = v] /\ v \in BOOLEAN
    BY <1>1, <1>4
  <2>2. ptDom' \in PtRecs /\ ptHw' \in PtRecs /\ PtSame' /\ (ptHw'.tod => Frame(ptHw') = ptLive)
    BY <1>1, <1>2, <2>1 DEF PtRecs, PtSame, Frame
  <2> QED BY <1>1, <2>2 DEF PtInv, PtTyped, PtDomain, PtBinds, PtClocks
<1> QED BY <1>3, <1>4

(* ... of the frame, which is written whole while nothing is sent. *)
LEMMA SetFrameFieldKeeps ==
  ASSUME PtInv, NEW v \in PtVals, SetLeapSecond(v) \/ SetPpsStatus(v)
  PROVE  PtInv'
PROOF
<1>1. /\ ptMade /\ ~ptDom.tod
      /\ UNCHANGED <<ptMade, ptHalf, ptLive, ptBound, ptPortEn, ptOrphan, syUsed, syLive, syClock>>
  BY DEF SetLeapSecond, SetPpsStatus, TodClosed, ptPortVars, syVars
<1>2. ptDom \in PtRecs /\ ptHw \in PtRecs /\ PtSame /\ ptOff \subseteq {"mode", "leap", "pps"} /\ v \in Nat
  BY <1>1, PtAssumption DEF PtInv, PtTyped, PtDomain
<1>3. PtTyped' /\ PtSame' /\ ~ptHw'.tod
  <2>1. CASE SetLeapSecond(v)
    <3>1. /\ ptDom' = [ptDom EXCEPT !.leap = v] /\ ptHw' = [ptHw EXCEPT !.leap = v, !.pps = ptDom.pps]
          /\ ptOff' = ptOff \ {"leap", "pps"}
      BY <2>1 DEF SetLeapSecond
    <3>2. ptDom' \in PtRecs /\ ptHw' \in PtRecs
      BY <1>2, <3>1 DEF PtRecs
    <3>3. /\ ptDom'.leap = v /\ ptHw'.leap = v /\ ptHw'.pps = ptDom.pps /\ ptDom'.pps = ptDom.pps
          /\ ptHw'.tod = ptHw.tod /\ ptDom'.tod = ptDom.tod
          /\ ptHw'.basedOnPort = ptHw.basedOnPort /\ ptDom'.basedOnPort = ptDom.basedOnPort
          /\ ptHw'.device = ptHw.device /\ ptDom'.device = ptDom.device
          /\ ptHw'.mode = ptHw.mode /\ ptDom'.mode = ptDom.mode
      BY <1>2, <3>1 DEF PtRecs
    <3> QED BY <1>1, <1>2, <3>1, <3>2, <3>3 DEF PtTyped, PtSame
  <2>2. CASE SetPpsStatus(v)
    <3>1. /\ ptDom' = [ptDom EXCEPT !.pps = v] /\ ptHw' = [ptHw EXCEPT !.pps = v, !.leap = v]
          /\ ptOff' = (ptOff \ {"leap", "pps"}) \cup {f \in {"leap"} : v # ptDom.leap}
      BY <2>2 DEF SetPpsStatus
    <3>2. ptDom' \in PtRecs /\ ptHw' \in PtRecs
      BY <1>2, <3>1 DEF PtRecs
    <3>3. /\ ptDom'.pps = v /\ ptHw'.pps = v /\ ptHw'.leap = v /\ ptDom'.leap = ptDom.leap
          /\ ptHw'.tod = ptHw.tod /\ ptDom'.tod = ptDom.tod
          /\ ptHw'.basedOnPort = ptHw.basedOnPort /\ ptDom'.basedOnPort = ptDom.basedOnPort
          /\ ptHw'.device = ptHw.device /\ ptDom'.device = ptDom.device
          /\ ptHw'.mode = ptHw.mode /\ ptDom'.mode = ptDom.mode
      BY <1>2, <3>1 DEF PtRecs
    <3> QED BY <1>1, <1>2, <3>1, <3>2, <3>3 DEF PtTyped, PtSame
  <2> QED BY <2>1, <2>2
<1>4. PtDomain'
  BY <1>1, <1>3 DEF PtDomain
<1> QED BY <1>1, <1>3, <1>4 DEF PtInv, PtBinds, PtClocks

(* ... and of the time of day. *)
LEMMA SetTodKeeps ==
  ASSUME PtInv, (\E m \in {0, 2} : SetTodMode(m)) \/ (\E b \in BOOLEAN : SetTodEnable(b))
  PROVE  PtInv'
PROOF
<1>1. CASE \E m \in {0, 2} : SetTodMode(m)
  <2>1. PICK m \in {0, 2} : SetTodMode(m)
    BY <1>1
  <2>2. /\ ptMade /\ ptDom' = [ptDom EXCEPT !.mode = m] /\ ptHw' = [ptHw EXCEPT !.mode = m] /\ ptOff' = ptOff \ {"mode"}
        /\ UNCHANGED <<ptMade, ptHalf, ptLive, ptBound, ptPortEn, ptOrphan, syUsed, syLive, syClock>>
    BY <2>1 DEF SetTodMode, ptPortVars, syVars
  <2>3. ptDom \in PtRecs /\ ptHw \in PtRecs /\ PtSame /\ (ptHw.tod => Frame(ptHw) = ptLive)
    BY <2>2 DEF PtInv, PtTyped, PtDomain
  <2>4. ptDom' \in PtRecs /\ ptHw' \in PtRecs /\ PtSame' /\ (ptHw'.tod => Frame(ptHw') = ptLive)
    BY <2>2, <2>3 DEF PtRecs, PtSame, Frame
  <2> QED BY <2>2, <2>4 DEF PtInv, PtTyped, PtDomain, PtBinds, PtClocks
<1>2. CASE \E b \in BOOLEAN : SetTodEnable(b)
  <2>1. PICK b \in BOOLEAN : SetTodEnable(b)
    BY <1>2
  <2>2. /\ ptMade /\ ptDom' = [ptDom EXCEPT !.tod = b] /\ ptHw' = [ptHw EXCEPT !.tod = b] /\ ptLive' = Frame(ptHw)
        /\ UNCHANGED <<ptMade, ptOff, ptHalf, ptBound, ptPortEn, ptOrphan, syUsed, syLive, syClock>>
    BY <2>1 DEF SetTodEnable, ptPortVars, syVars
  <2>3. ptDom \in PtRecs /\ ptHw \in PtRecs /\ PtSame
    BY <2>2 DEF PtInv, PtTyped, PtDomain
  <2>4. ptDom' \in PtRecs /\ ptHw' \in PtRecs /\ PtSame' /\ Frame(ptHw') = ptLive'
    BY <2>2, <2>3 DEF PtRecs, PtSame, Frame
  <2> QED BY <2>2, <2>4 DEF PtInv, PtTyped, PtDomain, PtBinds, PtClocks
<1> QED BY <1>1, <1>2

(* The ports of the domain, and the SyncE clocks. *)
LEMMA BindAndClockKeep ==
  ASSUME PtInv,
         (\E p \in PtPorts : BindPtpPort(p)) \/ (\E q \in SyPorts : CreateSynce(q))
         \/ (\E s \in SyIds : RemoveSynce(s) \/ \E q \in SyPorts : SetRecoveredPort(s, q)) \/ CreateReturnsLocked
  PROVE  PtInv'
PROOF
<1>1. UNCHANGED domVars
  BY DEF BindPtpPort, CreateSynce, RemoveSynce, SetRecoveredPort, CreateReturnsLocked
<1>2. PtTyped' /\ PtDomain'
  BY <1>1 DEF PtInv, domVars, PtTyped, PtDomain, PtSame
<1>3. PtBinds'
  <2>1. CASE UNCHANGED ptPortVars
    BY <1>1, <2>1 DEF PtInv, PtBinds, ptPortVars, domVars
  <2>2. CASE \E p \in PtPorts : BindPtpPort(p)
    BY <1>1, <2>2 DEF BindPtpPort, PtInv, PtBinds, domVars
  <2> QED BY <2>1, <2>2 DEF CreateSynce, RemoveSynce, SetRecoveredPort, CreateReturnsLocked
<1>4. PtClocks'
  <2>1. CASE UNCHANGED syVars
    BY <2>1 DEF PtInv, PtClocks, syVars
  <2>2. CASE \E q \in SyPorts : CreateSynce(q)
    BY <2>2 DEF CreateSynce, PtInv, PtClocks
  <2>3. CASE \E s \in SyIds : RemoveSynce(s)
    BY <2>3 DEF RemoveSynce, PtInv, PtClocks
  <2>4. CASE \E s \in SyIds : \E q \in SyPorts : SetRecoveredPort(s, q)
    BY <2>4 DEF SetRecoveredPort, PtInv, PtClocks
  <2> QED BY <2>1, <2>2, <2>3, <2>4 DEF BindPtpPort, CreateReturnsLocked
<1> QED BY <1>2, <1>3, <1>4 DEF PtInv

(* Every call keeps the invariant. *)
LEMMA PtCallsKeep ==
  ASSUME PtInv, [PtNext]_ptVars
  PROVE  PtInv'
PROOF
<1>1. CASE UNCHANGED ptVars
  BY <1>1 DEF ptVars, PtInv, PtTyped, PtDomain, PtSame, PtBinds, PtClocks
<1>2. CASE PtNext
  <2>1. CASE \E b \in BOOLEAN, t \in BOOLEAN, d \in PtVals, l \in PtVals, s \in PtVals, m \in {0, 2, NotGiven} :
               CreateDomain(b, d, m, l, s, t)
    BY <2>1, CreateDomainKeeps
  <2>2. CASE \E b \in BOOLEAN, d \in PtVals : CreateDomainFails(b, d)
    BY <2>2, CreateDomainFailsKeeps
  <2>3. CASE \E b \in BOOLEAN : SetDomain("basedOnPort", b)
    BY <2>3, SetDomainKeeps
  <2>4. CASE \E d \in PtVals : SetDomain("device", d)
    BY <2>4, SetDomainKeeps
  <2>5. CASE \E v \in PtVals : SetLeapSecond(v) \/ SetPpsStatus(v)
    BY <2>5, SetFrameFieldKeeps
  <2> QED BY <1>2, <1>1, <2>1, <2>2, <2>3, <2>4, <2>5, RemoveDomainKeeps, SetTodKeeps, BindAndClockKeep DEF PtNext
<1> QED BY <1>1, <1>2

-----------------------------------------------------------------------------
(* Ports: frame sizes, flow control and DSCP *)
FrTyped ==
  /\ frTable \in [1..PoEntries -> Nat] /\ frPool \subseteq 1..PoEntries
  /\ poFrame \in [PoPorts -> 0..PoEntries] /\ poAsked \in [PoPorts -> Nat]
PfcTyped == pfcHw \in [PoPorts -> [Dirs -> SUBSET PoClasses]]
DscpTyped == dscpHw \in [PoPorts -> BOOLEAN] /\ ifDscp \in [DOMAIN ifDscp -> [port : PoPorts, rewrites : BOOLEAN]]

(* An entry that a port was given is taken, and no taken one is written. *)
FrHeld ==
  \A p \in PoPorts \ frBorrowed :
    /\ poAsked[p] = IF poFrame[p] = 0 THEN 0 ELSE frTable[poFrame[p]]
    /\ poFrame[p] # 0 => poFrame[p] \in frPool
FrDistinct == \A i, j \in frPool : i # j => frTable[i] # frTable[j]
FrInv == FrTyped /\ FrHeld /\ FrDistinct

(* A port without a record will have one of the combined mode. *)
PfcInv ==
  /\ PfcTyped
  /\ \A p \in PoPorts \ pfcMixed : p \notin DOMAIN poMode \/ poMode[p] = "COMBINED" => ~Mixed(p)
DscpInv ==
  /\ DscpTyped
  /\ \A i \in DOMAIN ifDscp \ dscpLate : ifDscp[i].rewrites = dscpHw[ifDscp[i].port]
PoInv == DOMAIN poMode \subseteq PoPorts /\ FrInv /\ PfcInv /\ DscpInv

(* What the invariant says of ports. *)
LEMMA PoGives == PoInv => PortsExact
BY DEF PoInv, FrInv, FrHeld, FrDistinct, PfcInv, DscpInv, PortsExact

(* At first the chip is as it starts. *)
LEMMA PoInitially == PoInit => PoInv
PROOF
<1> SUFFICES ASSUME PoInit PROVE PoInv
  OBVIOUS
<1>1. FrInv
  BY PoAssumption DEF PoInit, FrInv, FrTyped, FrHeld, FrDistinct
<1>2. PfcInv
  BY DEF PoInit, PfcInv, PfcTyped, Mixed, Dirs
<1>3. DscpInv
  <2>1. ifDscp = [x \in {} |-> 0] /\ DOMAIN ifDscp = {}
    BY DEF PoInit
  <2> QED BY <2>1 DEF PoInit, DscpInv, DscpTyped
<1>4. DOMAIN poMode = {}
  BY DEF PoInit
<1> QED BY <1>1, <1>2, <1>3, <1>4 DEF PoInv

(* A free entry, and one with a size, are entries of the table. *)
LEMMA EntryFact ==
  ASSUME FrTyped, NEW size
  PROVE  /\ EntriesOf(size) # {} => Min(EntriesOf(size)) \in 1..PoEntries /\ frTable[Min(EntriesOf(size))] = size
         /\ FreeEntries # {} => Min(FreeEntries) \in 1..PoEntries \ frPool
PROOF
<1>1. EntriesOf(size) \in SUBSET Nat /\ FreeEntries \in SUBSET Nat
  BY PoAssumption DEF EntriesOf, FreeEntries
<1>2. EntriesOf(size) # {} => Min(EntriesOf(size)) \in EntriesOf(size)
  BY <1>1, MinFact
<1>3. FreeEntries # {} => Min(FreeEntries) \in FreeEntries
  BY <1>1, MinFact
<1> QED BY <1>2, <1>3 DEF EntriesOf, FreeEntries

(* A write to an entry that is free does not reach a port that holds one. *)
LEMMA FreeEntryWritten ==
  ASSUME FrInv, NEW i \in 1..PoEntries \ frPool, NEW size \in Nat, frTable' = [frTable EXCEPT ![i] = size]
  PROVE  /\ frTable' \in [1..PoEntries -> Nat] /\ frTable'[i] = size
         /\ \A j \in frPool : frTable'[j] = frTable[j]
BY DEF FrInv, FrTyped

(* A size is set. *)
LEMMA SetFrameKeeps ==
  ASSUME FrInv, NEW p \in PoPorts, NEW size \in PoSizes, SetFrame(p, size)
  PROVE  FrInv'
PROOF
<1>1. FrTyped /\ FrHeld /\ FrDistinct /\ size \in Nat
  BY PoAssumption DEF FrInv
<1>2. poAsked' = [poAsked EXCEPT ![p] = size]
  BY DEF SetFrame
<1>3. PICK i \in 1..PoEntries :
        /\ poFrame' = [poFrame EXCEPT ![p] = i]
        /\ frTable' \in [1..PoEntries -> Nat] /\ frTable'[i] = size
        /\ \A j \in frPool : frTable'[j] = frTable[j]
        /\ frPool' \subseteq 1..PoEntries /\ frPool \subseteq frPool'
        /\ \A j, k \in frPool' : j # k => frTable'[j] # frTable'[k]
        /\ \/ i \in frPool' /\ frBorrowed' = frBorrowed \ {p}
           \/ frBorrowed' = frBorrowed \cup {p}
  <2>1. CASE EntriesOf(size) # {}
    <3> DEFINE i == Min(EntriesOf(size))
    <3>1. i \in 1..PoEntries /\ frTable[i] = size
      BY <1>1, <2>1, EntryFact
    <3>2. /\ poFrame' = [poFrame EXCEPT ![p] = i] /\ UNCHANGED <<frTable, frPool>>
          /\ frBorrowed' = IF i \in frPool THEN frBorrowed \ {p} ELSE frBorrowed \cup {p}
      BY <2>1 DEF SetFrame
    <3> HIDE DEF i
    <3>3. \A j, k \in frPool' : j # k => frTable'[j] # frTable'[k]
      BY <1>1, <3>2 DEF FrDistinct
    <3>4. frTable' \in [1..PoEntries -> Nat] /\ frPool' \subseteq 1..PoEntries
      BY <1>1, <3>2 DEF FrTyped
    <3> QED BY <3>1, <3>2, <3>3, <3>4
  <2>2. CASE EntriesOf(size) = {}
    <3> DEFINE i == Min(FreeEntries)
    <3>1. /\ FreeEntries # {} /\ frTable' = [frTable EXCEPT ![i] = size]
          /\ frPool' = frPool \cup {i} /\ poFrame' = [poFrame EXCEPT ![p] = i]
          /\ frBorrowed' = frBorrowed \ {p}
      BY <2>2 DEF SetFrame
    <3>2. i \in 1..PoEntries \ frPool
      BY <1>1, <3>1, EntryFact
    <3> HIDE DEF i
    <3>3. /\ frTable' \in [1..PoEntries -> Nat] /\ frTable'[i] = size
          /\ \A j \in frPool : frTable'[j] = frTable[j]
      BY <1>1, <3>1, <3>2, FreeEntryWritten
    <3>4. \A j \in frPool : frTable[j] # size
      BY <1>1, <2>2 DEF EntriesOf, FrTyped
    <3>5. \A j, k \in frPool' : j # k => frTable'[j] # frTable'[k]
      BY <1>1, <3>1, <3>3, <3>4 DEF FrDistinct
    <3>6. frPool' \subseteq 1..PoEntries
      BY <1>1, <3>1, <3>2 DEF FrTyped
    <3> QED BY <3>1, <3>2, <3>3, <3>5, <3>6
  <2> QED BY <2>1, <2>2
<1>4. poFrame' \in [PoPorts -> 0..PoEntries] /\ poFrame'[p] = i /\ poAsked' \in [PoPorts -> Nat] /\ poAsked'[p] = size
      /\ \A q \in PoPorts \ {p} : poFrame'[q] = poFrame[q] /\ poAsked'[q] = poAsked[q]
  BY <1>1, <1>2, <1>3, PoAssumption DEF FrTyped
<1>5. FrTyped' /\ FrDistinct'
  BY <1>3, <1>4 DEF FrTyped, FrDistinct
<1>6. FrHeld'
  <2> SUFFICES ASSUME NEW q \in PoPorts, q \notin frBorrowed'
               PROVE  /\ poAsked'[q] = IF poFrame'[q] = 0 THEN 0 ELSE frTable'[poFrame'[q]]
                      /\ poFrame'[q] # 0 => poFrame'[q] \in frPool'
    BY DEF FrHeld
  <2>1. CASE q = p
    BY <2>1, <1>3, <1>4
  <2>2. CASE q # p
    <3>1. q \notin frBorrowed
      BY <2>2, <1>3
    <3>2. /\ poAsked[q] = IF poFrame[q] = 0 THEN 0 ELSE frTable[poFrame[q]]
          /\ poFrame[q] # 0 => poFrame[q] \in frPool
      BY <3>1, <1>1 DEF FrHeld
    <3> QED BY <2>2, <3>2, <1>3, <1>4
  <2> QED BY <2>1, <2>2
<1> QED BY <1>5, <1>6 DEF FrInv

(* ... or refused, when at most an entry that nobody holds is written. *)
LEMMA FrameRefusedKeeps ==
  ASSUME FrInv, NEW p \in PoPorts, NEW size \in PoSizes, FrameRefused(p, size)
  PROVE  FrInv'
PROOF
<1>1. FrTyped /\ FrHeld /\ FrDistinct /\ size \in Nat
  BY PoAssumption DEF FrInv
<1>2. UNCHANGED <<frPool, poFrame, poAsked, frBorrowed>>
  BY DEF FrameRefused
<1>3. frTable' \in [1..PoEntries -> Nat] /\ \A j \in frPool : frTable'[j] = frTable[j]
  <2>1. CASE frTable' = frTable
    BY <2>1, <1>1 DEF FrTyped
  <2>2. CASE frTable' # frTable
    <3>1. FreeEntries # {} /\ frTable' = [frTable EXCEPT ![Min(FreeEntries)] = size]
      BY <2>2 DEF FrameRefused
    <3>2. Min(FreeEntries) \in 1..PoEntries \ frPool
      BY <1>1, <3>1, EntryFact
    <3> QED BY <1>1, <3>1, <3>2, FreeEntryWritten
  <2> QED BY <2>1, <2>2
<1>4. FrTyped' /\ FrDistinct'
  BY <1>1, <1>2, <1>3 DEF FrTyped, FrDistinct
<1>5. FrHeld'
  BY <1>1, <1>2, <1>3 DEF FrHeld
<1> QED BY <1>4, <1>5 DEF FrInv

(* A record that any access makes is of the combined mode. *)
LEMMA TouchedFact ==
  ASSUME NEW p \in PoPorts, DOMAIN poMode \subseteq PoPorts
  PROVE  /\ DOMAIN Touched(p) = DOMAIN poMode \cup {p}
         /\ \A q \in DOMAIN poMode : Touched(p)[q] = poMode[q]
         /\ p \notin DOMAIN poMode => Touched(p)[p] = "COMBINED"
BY DEF Touched, PoPut

(* Flow control does not see a record made. *)
LEMMA TouchedKeeps ==
  ASSUME PfcInv, NEW p \in PoPorts, DOMAIN poMode \subseteq PoPorts, poMode' = Touched(p), UNCHANGED pfcVars
  PROVE  PfcInv' /\ DOMAIN poMode' \subseteq PoPorts
PROOF
<1>1. DOMAIN poMode' \subseteq PoPorts
  BY TouchedFact
<1>2. ASSUME NEW q \in PoPorts \ pfcMixed, q \notin DOMAIN poMode' \/ poMode'[q] = "COMBINED"
      PROVE  ~Mixed(q)
  BY <1>2, TouchedFact DEF PfcInv
<1> QED BY <1>1, <1>2 DEF PfcInv, PfcTyped, Mixed, pfcVars

(* The mode changes, or the record goes: over what is in the hardware. *)
LEMMA ModeKeeps ==
  ASSUME PfcInv, NEW p \in PoPorts, DOMAIN poMode \subseteq PoPorts,
         RemovePort(p) \/ \E m \in {"COMBINED", "SEPARATE"} : SetPfcMode(p, m)
  PROVE  PfcInv' /\ DOMAIN poMode' \subseteq PoPorts
PROOF
<1>1. /\ pfcHw' = pfcHw /\ pfcMixed' = IF Mixed(p) THEN pfcMixed \cup {p} ELSE pfcMixed
      /\ DOMAIN poMode' \subseteq PoPorts
      /\ \A q \in PoPorts \ {p} : /\ q \in DOMAIN poMode' <=> q \in DOMAIN poMode
                                  /\ q \in DOMAIN poMode => poMode'[q] = poMode[q]
  BY DEF RemovePort, SetPfcMode, PoDrop, PoPut
<1>2. ASSUME NEW q \in PoPorts \ pfcMixed', q \notin DOMAIN poMode' \/ poMode'[q] = "COMBINED"
      PROVE  ~Mixed(q)
  <2>1. CASE q = p
    BY <2>1, <1>1
  <2>2. CASE q # p
    BY <2>2, <1>1, <1>2 DEF PfcInv
  <2> QED BY <2>1, <2>2
<1> QED BY <1>1, <1>2 DEF PfcInv, PfcTyped, Mixed

(* The classes are written, all or the first ones. *)
LEMMA SetPfcKeeps ==
  ASSUME PfcInv, NEW p \in PoPorts, DOMAIN poMode \subseteq PoPorts,
         NEW dirs \in {Dirs, {"IN"}, {"OUT"}}, NEW classes \in SUBSET PoClasses, NEW done \in SUBSET PoClasses,
         SetPfc(p, dirs, classes, done)
  PROVE  PfcInv' /\ DOMAIN poMode' \subseteq PoPorts
PROOF
<1> DEFINE h(d) == IF d \in dirs THEN (pfcHw[p][d] \ done) \cup (classes \cap done) ELSE pfcHw[p][d]
<1>1. /\ (Touched(p)[p] = "COMBINED") = (dirs = Dirs) /\ poMode' = Touched(p)
      /\ pfcHw' = [pfcHw EXCEPT ![p] = [d \in Dirs |-> h(d)]]
      /\ pfcMixed' = IF dirs = Dirs /\ done = PoClasses THEN pfcMixed \ {p} ELSE pfcMixed
  BY DEF SetPfc
<1>2. PfcTyped /\ pfcHw[p] \in [Dirs -> SUBSET PoClasses]
  BY DEF PfcInv, PfcTyped
<1>3. \A d \in Dirs : h(d) \in SUBSET PoClasses
  BY <1>2
<1>4. pfcHw'[p] = [d \in Dirs |-> h(d)] /\ \A q \in PoPorts \ {p} : pfcHw'[q] = pfcHw[q]
  BY <1>1, <1>2 DEF PfcTyped
<1>5. PfcTyped'
  BY <1>1, <1>2, <1>3 DEF PfcTyped
<1>6. "IN" \in Dirs /\ "OUT" \in Dirs
  BY DEF Dirs
<1>7. ASSUME NEW q \in PoPorts \ pfcMixed', q \notin DOMAIN poMode' \/ poMode'[q] = "COMBINED"
      PROVE  pfcHw'[q]["IN"] = pfcHw'[q]["OUT"]
  <2>1. CASE q # p
    <3>1. q \notin pfcMixed /\ (q \notin DOMAIN poMode \/ poMode[q] = "COMBINED")
      BY <2>1, <1>1, <1>7, TouchedFact
    <3> QED BY <2>1, <3>1, <1>4 DEF PfcInv, Mixed
  <2>2. CASE q = p
    <3>1. Touched(p)[p] = "COMBINED" /\ dirs = Dirs
      BY <2>2, <1>1, <1>7, TouchedFact
    <3>2. /\ pfcHw'[p]["IN"] = (pfcHw[p]["IN"] \ done) \cup (classes \cap done)
          /\ pfcHw'[p]["OUT"] = (pfcHw[p]["OUT"] \ done) \cup (classes \cap done)
      BY <1>4, <1>6, <3>1
    <3>3. CASE done = PoClasses
      <4>1. pfcHw[p]["IN"] \subseteq PoClasses /\ pfcHw[p]["OUT"] \subseteq PoClasses
        BY <1>2, <1>6
      <4> QED BY <2>2, <3>2, <3>3, <4>1
    <3>4. CASE done # PoClasses
      <4>1. p \notin pfcMixed /\ (p \notin DOMAIN poMode \/ poMode[p] = "COMBINED")
        BY <2>2, <3>1, <3>4, <1>1, <1>7, TouchedFact
      <4> QED BY <2>2, <3>2, <4>1 DEF PfcInv, Mixed
    <3> QED BY <3>3, <3>4
  <2> QED BY <2>1, <2>2
<1>8. DOMAIN poMode' \subseteq PoPorts
  <2>1. DOMAIN Touched(p) = DOMAIN poMode \cup {p}
    BY TouchedFact
  <2> QED BY ONLY <1>1, <2>1, DOMAIN poMode \subseteq PoPorts, p \in PoPorts
<1> QED BY <1>5, <1>7, <1>8 DEF PfcInv, Mixed

(* The port's flag, and the interfaces that take it over. *)
LEMMA DscpKeeps ==
  ASSUME DscpInv,
         (\E p \in PoPorts, b \in BOOLEAN : SetUpdateDscp(p, b)) \/ (\E i \in PoIfs, p \in PoPorts : CreateIf(i, p))
         \/ \E i \in PoIfs : RemoveIf(i)
  PROVE  DscpInv'
PROOF
<1>1. DscpTyped
  BY DEF DscpInv
<1>2. CASE \E p \in PoPorts, b \in BOOLEAN : SetUpdateDscp(p, b)
  <2>1. PICK p \in PoPorts, b \in BOOLEAN : SetUpdateDscp(p, b)
    BY <1>2
  <2>2. /\ ifDscp' = ifDscp /\ dscpHw' = [dscpHw EXCEPT ![p] = b]
        /\ dscpLate' = IF b # dscpHw[p] THEN dscpLate \cup {i \in DOMAIN ifDscp : ifDscp[i].port = p} ELSE dscpLate
    BY <2>1 DEF SetUpdateDscp
  <2>3. /\ dscpHw' \in [PoPorts -> BOOLEAN] /\ dscpHw'[p] = b
        /\ \A q \in PoPorts \ {p} : dscpHw'[q] = dscpHw[q]
    BY <1>1, <2>2 DEF DscpTyped
  <2>4. ASSUME NEW i \in DOMAIN ifDscp, i \notin dscpLate'
        PROVE  ifDscp[i].rewrites = dscpHw'[ifDscp[i].port]
    <3>1. i \notin dscpLate /\ (ifDscp[i].port = p => b = dscpHw[p])
      BY <2>2, <2>4
    <3>2. ifDscp[i].port \in PoPorts /\ ifDscp[i].rewrites = dscpHw[ifDscp[i].port]
      BY <3>1, <1>1 DEF DscpInv, DscpTyped
    <3> QED BY <3>1, <3>2, <2>3
  <2> QED BY <1>1, <2>2, <2>3, <2>4 DEF DscpInv, DscpTyped
<1>3. CASE \E i \in PoIfs, p \in PoPorts : CreateIf(i, p)
  <2>1. PICK i \in PoIfs, p \in PoPorts : CreateIf(i, p)
    BY <1>3
  <2> DEFINE r == [port |-> p, rewrites |-> dscpHw[p]]
  <2>2. /\ i \notin DOMAIN ifDscp /\ ifDscp' = PoPut(ifDscp, i, r) /\ dscpLate' = dscpLate \ {i} /\ dscpHw' = dscpHw
    BY <2>1 DEF CreateIf
  <2>3. r.port = p /\ r.rewrites = dscpHw[p] /\ r \in [port : PoPorts, rewrites : BOOLEAN]
    BY <1>1 DEF DscpTyped
  <2> HIDE DEF r
  <2>4. /\ DOMAIN ifDscp' = DOMAIN ifDscp \cup {i} /\ ifDscp'[i] = r
        /\ \A j \in DOMAIN ifDscp : ifDscp'[j] = ifDscp[j]
    BY <2>2 DEF PoPut
  <2>5. ifDscp' \in [DOMAIN ifDscp' -> [port : PoPorts, rewrites : BOOLEAN]]
    BY <1>1, <2>2, <2>3 DEF PoPut, DscpTyped
  <2>6. ASSUME NEW j \in DOMAIN ifDscp', j \notin dscpLate'
        PROVE  ifDscp'[j].rewrites = dscpHw'[ifDscp'[j].port]
    <3>1. CASE j = i
      BY <3>1, <2>2, <2>3, <2>4
    <3>2. CASE j # i
      BY <3>2, <2>2, <2>4, <2>6 DEF DscpInv
    <3> QED BY <3>1, <3>2
  <2> QED BY <1>1, <2>2, <2>5, <2>6 DEF DscpInv, DscpTyped
<1>4. CASE \E i \in PoIfs : RemoveIf(i)
  <2>1. PICK i \in PoIfs : RemoveIf(i)
    BY <1>4
  <2>2. ifDscp' = PoDrop(ifDscp, i) /\ UNCHANGED <<dscpHw, dscpLate>>
    BY <2>1 DEF RemoveIf
  <2>3. DOMAIN ifDscp' = DOMAIN ifDscp \ {i} /\ \A j \in DOMAIN ifDscp' : ifDscp'[j] = ifDscp[j]
    BY <2>2 DEF PoDrop
  <2>4. ifDscp' \in [DOMAIN ifDscp' -> [port : PoPorts, rewrites : BOOLEAN]]
    BY <1>1, <2>2 DEF PoDrop, DscpTyped
  <2> QED BY <1>1, <2>2, <2>3, <2>4 DEF DscpInv, DscpTyped
<1> QED BY <1>2, <1>3, <1>4

(* Every call keeps the invariant. *)
LEMMA PoCallsKeep ==
  ASSUME PoInv, [PoNext]_poVars
  PROVE  PoInv'
PROOF
<1>1. DOMAIN poMode \subseteq PoPorts /\ FrInv /\ PfcInv /\ DscpInv
  BY DEF PoInv
<1>2. UNCHANGED frVars => FrInv'
  BY <1>1 DEF frVars, FrInv, FrTyped, FrHeld, FrDistinct
<1>3. UNCHANGED <<pfcVars, poMode>> => PfcInv' /\ DOMAIN poMode' \subseteq PoPorts
  BY <1>1 DEF pfcVars, PfcInv, PfcTyped, Mixed
<1>4. UNCHANGED dscpVars => DscpInv'
  BY <1>1 DEF dscpVars, DscpInv, DscpTyped
<1>5. CASE UNCHANGED poVars
  <2>1. UNCHANGED frVars /\ UNCHANGED <<pfcVars, poMode>> /\ UNCHANGED dscpVars
    BY <1>5 DEF poVars, frVars, pfcVars, dscpVars
  <2> QED BY <2>1, <1>2, <1>3, <1>4 DEF PoInv
<1>6. CASE \E p \in PoPorts, s \in PoSizes : CreatePort(p, s) \/ SetMtu(p, s)
  <2>1. PICK p \in PoPorts, s \in PoSizes : CreatePort(p, s) \/ SetMtu(p, s)
    BY <1>6
  <2>2. (SetFrame(p, s) \/ FrameRefused(p, s)) /\ poMode' = Touched(p) /\ UNCHANGED pfcVars /\ UNCHANGED dscpVars
    BY <2>1 DEF CreatePort, SetMtu
  <2> QED BY <2>2, <1>1, <1>4, SetFrameKeeps, FrameRefusedKeeps, TouchedKeeps DEF PoInv
<1>7. CASE \E p \in PoPorts : GetPort(p)
  <2>1. PICK p \in PoPorts : GetPort(p)
    BY <1>7
  <2>2. poMode' = Touched(p) /\ UNCHANGED frVars /\ UNCHANGED pfcVars /\ UNCHANGED dscpVars
    BY <2>1 DEF GetPort
  <2> QED BY <2>2, <1>1, <1>2, <1>4, TouchedKeeps DEF PoInv
<1>8. CASE \E p \in PoPorts : RemovePort(p) \/ \E m \in {"COMBINED", "SEPARATE"} : SetPfcMode(p, m)
  <2>1. UNCHANGED frVars /\ UNCHANGED dscpVars
    BY <1>8 DEF RemovePort, SetPfcMode
  <2> QED BY <1>8, <2>1, <1>1, <1>2, <1>4, ModeKeeps DEF PoInv
<1>9. CASE \E p \in PoPorts, ds \in {Dirs, {"IN"}, {"OUT"}}, cs \in SUBSET PoClasses, done \in SUBSET PoClasses :
             SetPfc(p, ds, cs, done)
  <2>1. UNCHANGED frVars /\ UNCHANGED dscpVars
    BY <1>9 DEF SetPfc
  <2> QED BY <1>9, <2>1, <1>1, <1>2, <1>4, SetPfcKeeps DEF PoInv
<1>10. CASE \E p \in PoPorts, b \in BOOLEAN : SetUpdateDscp(p, b)
  <2>1. PICK p \in PoPorts, b \in BOOLEAN : SetUpdateDscp(p, b)
    BY <1>10
  <2>2. poMode' = Touched(p) /\ UNCHANGED frVars /\ UNCHANGED pfcVars
    BY <2>1 DEF SetUpdateDscp
  <2> QED BY <2>1, <2>2, <1>1, <1>2, TouchedKeeps, DscpKeeps DEF PoInv
<1>11. CASE (\E i \in PoIfs, p \in PoPorts : CreateIf(i, p)) \/ \E i \in PoIfs : RemoveIf(i)
  <2>1. UNCHANGED frVars /\ UNCHANGED <<pfcVars, poMode>>
    BY <1>11 DEF CreateIf, RemoveIf
  <2> QED BY <1>11, <2>1, <1>1, <1>2, <1>3, DscpKeeps DEF PoInv
<1> QED BY <1>5, <1>6, <1>7, <1>8, <1>9, <1>10, <1>11 DEF PoNext

-----------------------------------------------------------------------------
(* Services *)

(* A step of Services is a step of each of these parts, or leaves it alone. *)
LEMMA DeliverySteps ==
  ASSUME [ServicesNext]_<<part, vars, bfdVars, oamVars, y1731Vars, attrVars, twVars, tnVars,
                          mpVars, mcVars, rpfVars, natVars, isoVars, wbVars, qVars, ptVars,
                          udfVars, dcVars, poVars>>
  PROVE  [McNext]_mcVars /\ [RpfNext]_rpfVars /\ [NatNext]_natVars /\ [IsoNext]_isoVars
         /\ [MpNext]_mpVars
BY DEF ServicesNext

(* Whatever groups, entries and interfaces there are and however they come *)
(* and go: multicast replicates to the members of the groups and to the *)
(* ports that layer 2 would find, a reverse path check accepts the *)
(* interfaces of its group, translated addresses are those of the entries, *)
(* isolated ports those of their groups, a label has one owner and its *)
(* entry does what the owner's record says, outside what the histories *)
(* name (mcast_sync_output_id, create_rpf_group_member, *)
(* _ctc_sai_create_nat_entry, remove_group, mpls_set_attr, create_es). *)
THEOREM DeliveryIsExact == ServicesSpec => []DeliveryExact
PROOF
<1>1. ServicesInit => McInv /\ RpfInv /\ NatInv /\ IsoInv /\ MpInv
  BY McInitially, RpfInitially, NatInitially, IsoInitially, MpInitially DEF ServicesInit
<1>2. McInv /\ RpfInv /\ NatInv /\ IsoInv /\ MpInv
        /\ [ServicesNext]_<<part, vars, bfdVars, oamVars, y1731Vars, attrVars, twVars, tnVars,
                            mpVars, mcVars, rpfVars, natVars, isoVars, wbVars, qVars, ptVars,
                            udfVars, dcVars, poVars>>
        => McInv' /\ RpfInv' /\ NatInv' /\ IsoInv' /\ MpInv'
  BY DeliverySteps, McCallsKeep, RpfCallsKeep, NatCallsKeep, IsoCallsKeep, MpCallsKeep
<1>3. McInv /\ RpfInv /\ NatInv /\ IsoInv /\ MpInv => DeliveryExact
  BY McGives, RpfGives, NatGives, IsoGives, MpGives DEF DeliveryExact
<1> QED BY <1>1, <1>2, <1>3, PTL DEF ServicesSpec

(* ... and of each of the OAM parts. *)
LEMMA OamSteps ==
  ASSUME [ServicesNext]_<<part, vars, bfdVars, oamVars, y1731Vars, attrVars, twVars, tnVars,
                          mpVars, mcVars, rpfVars, natVars, isoVars, wbVars, qVars, ptVars,
                          udfVars, dcVars, poVars>>
  PROVE  [BfdNext]_bfdVars /\ [OamNext]_oamVars /\ [Y1731Next]_y1731Vars /\ [TwNext]_twVars
BY DEF ServicesNext

(* Whatever sessions there are, however their creations fail, and whatever *)
(* the engine reports meanwhile: BFD sessions have their routes and next *)
(* hops, Y.1731 sessions their groups, local MEPs and remote MEPs, TWAMP *)
(* sessions their indices, entries, loops and generators, and a batch of *)
(* events whose MEPs live is told entry by entry under the owners' names, *)
(* outside what the histories name (create_bfd_session, *)
(* create_y1731_session, create_twamp_session, oam_event_process). *)
THEOREM OamIsExact == ServicesSpec => []OamExact
PROOF
<1>1. ServicesInit => BfdInv /\ OevInv /\ YInv /\ TwInv
  BY BfdInitially, OevInitially, YInitially, TwInitially DEF ServicesInit
<1>2. BfdInv /\ OevInv /\ YInv /\ TwInv
        /\ [ServicesNext]_<<part, vars, bfdVars, oamVars, y1731Vars, attrVars, twVars, tnVars,
                            mpVars, mcVars, rpfVars, natVars, isoVars, wbVars, qVars, ptVars,
                            udfVars, dcVars, poVars>>
        => BfdInv' /\ OevInv' /\ YInv' /\ TwInv'
  BY OamSteps, BfdCallsKeep, OevCallsKeep, YCallsKeep, TwCallsKeep
<1>3. BfdInv /\ OevInv /\ YInv /\ TwInv => OamExact
  BY BfdGives, OevGives, YGives, TwGives DEF OamExact
<1> QED BY <1>1, <1>2, <1>3, PTL DEF ServicesSpec

(* ... and of the clocks and of the ports. *)
LEMMA SettingsSteps ==
  ASSUME [ServicesNext]_<<part, vars, bfdVars, oamVars, y1731Vars, attrVars, twVars, tnVars,
                          mpVars, mcVars, rpfVars, natVars, isoVars, wbVars, qVars, ptVars,
                          udfVars, dcVars, poVars>>
  PROVE  [PtNext]_ptVars /\ [PoNext]_poVars
BY DEF ServicesNext

(* Whatever is set elsewhere: the chip has the values of the PTP domain, a *)
(* recovered clock is that of a live object, and the frame size, the flow *)
(* control and the DSCP rewriting of a port are those it was set to, *)
(* outside what the histories name (ctc_sai_ptp_set_info, *)
(* remove_synce, _ctc_sai_port_set_max_frame). *)
THEOREM SettingsAreExact == ServicesSpec => []SettingsExact
PROOF
<1>1. ServicesInit => PtInv /\ PoInv
  BY PtInitially, PoInitially DEF ServicesInit
<1>2. PtInv /\ PoInv
        /\ [ServicesNext]_<<part, vars, bfdVars, oamVars, y1731Vars, attrVars, twVars, tnVars,
                            mpVars, mcVars, rpfVars, natVars, isoVars, wbVars, qVars, ptVars,
                            udfVars, dcVars, poVars>>
        => PtInv' /\ PoInv'
  BY SettingsSteps, PtCallsKeep, PoCallsKeep
<1>3. PtInv /\ PoInv => SettingsExact
  BY PtGives, PoGives DEF SettingsExact
<1> QED BY <1>1, <1>2, <1>3, PTL DEF ServicesSpec
=============================================================================
