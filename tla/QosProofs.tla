------------------------------ MODULE QosProofs ------------------------------
(***************************************************************************)
(* Safety theorems about the QoS parts: schedulers (QosSched), policers *)
(* (Policing), QoS maps (QosMaps), and WRED and buffer profiles *)
(* (QosProfiles), for every set of objects, ports and queues that satisfies*)
(* their assumptions. One section per part: its inductive invariant, the *)
(* lemma that it holds at first, one lemma per call that keeps it, and *)
(* what it gives. PlatformProofs uses them for the four together. *)
(***************************************************************************)
EXTENDS QosSched, Policing, QosMaps, QosProfiles, FiniteSetTheorems,
        WellFoundedInduction, TLAPS

-----------------------------------------------------------------------------
(* Numbers and counts *)
(* The least of a set of numbers. *)
LEMMA MinFact ==
  ASSUME NEW S \in SUBSET Nat, S # {}
  PROVE  Min(S) \in S /\ \A y \in S : Min(S) <= y
PROOF
<1> DEFINE less == {ss \in Nat \X Nat : ss[1] < ss[2]}
<1>1. IsWellFoundedOn(less, Nat)
  BY NatLessThanWellFounded DEF OpToRel
<1>2. PICK x \in S : \A y \in S : <<y, x>> \notin less
  BY <1>1, WFMin
<1>3. ASSUME NEW y \in S PROVE x <= y
  <2>1. x \in Nat /\ y \in Nat /\ <<y, x>> \notin less
    BY <1>2
  <2> QED BY <2>1
<1> QED BY <1>3 DEF Min

(* The users of x among a finite set, and what one of them that names *)
(* something else changes: one less here and one more there. *)
Named(S, f, x) == Cardinality({s \in S : f[s] = x})
Once(b) == IF b THEN 1 ELSE 0
Renamed(S, f, g, a) ==
  \A x : /\ Named(S, f, x) \in Nat /\ Named(S, g, x) \in Nat
         /\ Named(S, g, x) = Named(S, f, x) + (IF g[a] = x THEN 1 ELSE 0) - (IF f[a] = x THEN 1 ELSE 0)
         /\ f[a] = x => Named(S, f, x) > 0

(* They are finitely many. *)
LEMMA NamedFact ==
  ASSUME NEW S, IsFiniteSet(S), NEW f, NEW x
  PROVE  /\ IsFiniteSet({s \in S : f[s] = x}) /\ Named(S, f, x) \in Nat
         /\ Named(S, f, x) = 0 => \A s \in S : f[s] # x
PROOF
<1>1. IsFiniteSet({s \in S : f[s] = x})
  BY FS_Subset
<1>2. Named(S, f, x) \in Nat /\ (Named(S, f, x) = 0 => {s \in S : f[s] = x} = {})
  BY <1>1, FS_CardinalityType, FS_EmptySet DEF Named
<1> QED BY <1>1, <1>2

(* One of them names something else. *)
LEMMA OneRenames ==
  ASSUME NEW S, IsFiniteSet(S), NEW f, NEW g, NEW a \in S, \A s \in S : s # a => g[s] = f[s]
  PROVE  Renamed(S, f, g, a)
PROOF
<1> SUFFICES ASSUME NEW x
    PROVE  /\ Named(S, f, x) \in Nat /\ Named(S, g, x) \in Nat
           /\ Named(S, g, x) = Named(S, f, x) + (IF g[a] = x THEN 1 ELSE 0) - (IF f[a] = x THEN 1 ELSE 0)
           /\ f[a] = x => Named(S, f, x) > 0
  BY DEF Renamed
<1> DEFINE F == {s \in S : f[s] = x}
           G == {s \in S : g[s] = x}
           R == F \ {a}
<1>1. IsFiniteSet(F) /\ IsFiniteSet(G)
  <2>1. F \in SUBSET S /\ G \in SUBSET S
    OBVIOUS
  <2> HIDE DEF F, G
  <2> QED BY <2>1, FS_Subset
<1>2. G \ {a} = R
  OBVIOUS
<1>3. (a \in F <=> f[a] = x) /\ (a \in G <=> g[a] = x)
  OBVIOUS
<1> HIDE DEF F, G
<1>4. IsFiniteSet(R) /\ Cardinality(R) = IF a \in F THEN Cardinality(F) - 1 ELSE Cardinality(F)
  BY <1>1, FS_RemoveElement
<1>5. Cardinality(R) = IF a \in G THEN Cardinality(G) - 1 ELSE Cardinality(G)
  BY <1>1, <1>2, FS_RemoveElement
<1>6. Cardinality(F) \in Nat /\ Cardinality(G) \in Nat /\ Cardinality(R) \in Nat
  BY <1>1, <1>4, FS_CardinalityType
<1>7. Cardinality(G) = Cardinality(F) + (IF g[a] = x THEN 1 ELSE 0) - (IF f[a] = x THEN 1 ELSE 0)
  BY <1>3, <1>4, <1>5, <1>6
<1>8. f[a] = x => Cardinality(F) > 0
  BY <1>3, <1>4, <1>6
<1> QED BY <1>6, <1>7, <1>8 DEF F, G, Named

(* A set of users none of whom names x. *)
LEMMA NoneNamed ==
  ASSUME NEW S, NEW f, NEW x, \A s \in S : f[s] # x
  PROVE  Named(S, f, x) = 0
PROOF
<1>1. {s \in S : f[s] = x} = {}
  OBVIOUS
<1> QED BY <1>1, FS_EmptySet DEF Named

(* The only user of x. *)
LEMMA LoneUser ==
  ASSUME NEW S, IsFiniteSet(S), NEW f, NEW a \in S, Named(S, f, f[a]) = 1
  PROVE  \A s \in S : f[s] = f[a] => s = a
PROOF
<1> SUFFICES ASSUME NEW b \in S, f[b] = f[a], b # a PROVE FALSE
  OBVIOUS
<1> DEFINE F == {s \in S : f[s] = f[a]}
<1>1. IsFiniteSet(F) /\ a \in F /\ b \in F \ {a} /\ Cardinality(F) = 1
  BY NamedFact DEF Named
<1> HIDE DEF F
<1>2. IsFiniteSet(F \ {a}) /\ Cardinality(F \ {a}) = Cardinality(F) - 1
  BY <1>1, FS_RemoveElement
<1>3. F \ {a} = {}
  BY <1>1, <1>2, FS_EmptySet
<1> QED BY <1>1, <1>3

-----------------------------------------------------------------------------
(* Scheduling *)
SchRecs == [live : BOOLEAN, type : SchTypes, rate : BOOLEAN, ref : Nat]
SchGrpRecs == [live : BOOLEAN, sched : Scheds \cup {0}, kids : SUBSET Qs]
SchTyped ==
  /\ schDb \in [Scheds -> SchRecs]
  /\ qSch \in [Qs -> Scheds \cup {0}] /\ qGrp \in [Qs -> SchGroups \cup {0}]
  /\ portSch \in Scheds \cup {0} /\ grpDb \in [SchGroups -> SchGrpRecs]
  /\ hwClass \in [Qs -> Qs] /\ hwShape \subseteq Qs /\ hwPrio \in [Qs -> Nat] /\ torn \subseteq Qs
(* The uses of a scheduler by queues, groups and the port, and a count that *)
(* is never below them; one that is not there has none. *)
GrpSch(db) == [g \in SchGroups |-> db[g].sched]
UsesIn(queues, groups2, port, s) ==
  Named(Qs, queues, s) + Named(SchGroups, GrpSch(groups2), s) + Once(port = s)
SchKept(s) ==
  /\ schDb[s].ref >= UsesIn(qSch, grpDb, portSch, s)
  /\ ~schDb[s].live => UsesIn(qSch, grpDb, portSch, s) = 0
SchInv ==
  /\ SchTyped
  /\ \A s \in Scheds : SchKept(s)
  /\ ClassesExact
  /\ GroupsExact

(* The queues and the groups are finitely many. *)
LEMMA SchFinite == IsFiniteSet(Qs) /\ IsFiniteSet(SchGroups) /\ Qs \subseteq Nat /\ 0 \notin Scheds /\ 0 \notin SchGroups
PROOF
<1>1. IsFiniteSet(0 .. NumQ - 1)
  BY SchedAssumption, FS_Interval
<1>2. IsFiniteSet(1 .. 2)
  <2>1. 1 \in Int /\ 2 \in Int
    OBVIOUS
  <2> QED BY <2>1, FS_Interval
<1>3. IsFiniteSet(SchGroups)
  <2>1. SchGroups \subseteq 1 .. 2
    BY SchedAssumption
  <2> QED BY <1>2, <2>1, FS_Subset
<1> QED BY <1>1, <1>3, SchedAssumption DEF Qs

(* The uses counted by user are those the property counts. *)
LEMMA UsesFact ==
  ASSUME SchTyped, NEW s \in Scheds
  PROVE  /\ Uses(s) = UsesIn(qSch, grpDb, portSch, s)
         /\ UsesIn(qSch, grpDb, portSch, s) \in Nat
         /\ UsesIn(qSch, grpDb, portSch, s) = 0 =>
              /\ \A q \in Qs : qSch[q] # s
              /\ \A g \in SchGroups : grpDb[g].sched # s
              /\ portSch # s
PROOF
<1>1. {g \in SchGroups : grpDb[g].sched = s} = {g \in SchGroups : GrpSch(grpDb)[g] = s}
  BY DEF GrpSch
<1>2. Uses(s) = UsesIn(qSch, grpDb, portSch, s)
  BY <1>1 DEF Uses, UsesIn, Named, Once
<1>3. /\ Named(Qs, qSch, s) \in Nat /\ Named(SchGroups, GrpSch(grpDb), s) \in Nat
      /\ Named(Qs, qSch, s) = 0 => \A q \in Qs : qSch[q] # s
      /\ Named(SchGroups, GrpSch(grpDb), s) = 0 => \A g \in SchGroups : GrpSch(grpDb)[g] # s
  BY SchFinite, NamedFact
<1>4. Once(portSch = s) \in Nat /\ (Once(portSch = s) = 0 => portSch # s)
  BY DEF Once
<1>5. /\ UsesIn(qSch, grpDb, portSch, s) \in Nat
      /\ UsesIn(qSch, grpDb, portSch, s) = 0 =>
           /\ Named(Qs, qSch, s) = 0 /\ Named(SchGroups, GrpSch(grpDb), s) = 0 /\ Once(portSch = s) = 0
  BY <1>3, <1>4 DEF UsesIn
<1> QED BY <1>2, <1>3, <1>4, <1>5 DEF GrpSch

(* What the invariant says of scheduling. *)
LEMMA SchGives == SchInv => SchedulingExact
PROOF
<1> SUFFICES ASSUME SchInv PROVE SchedulingExact
  OBVIOUS
<1>1. ASSUME NEW s \in Scheds PROVE schDb[s].ref >= Uses(s) /\ (Uses(s) > 0 => schDb[s].live)
  <2>1. SchTyped /\ SchKept(s)
    BY DEF SchInv
  <2>2. Uses(s) = UsesIn(qSch, grpDb, portSch, s) /\ UsesIn(qSch, grpDb, portSch, s) \in Nat
    BY <2>1, UsesFact
  <2> QED BY <2>1, <2>2 DEF SchKept
<1> QED BY <1>1 DEF SchInv, SchedulingExact, SchedulersKept

-----------------------------------------------------------------------------
(* The classes of the queues when those of D are DWRR. *)
ClassFor(D) == [q \in Qs |-> IF q \in D THEN Min(D) ELSE q]
ShapeFor(sch, db) == {q \in Qs : sch[q] # 0 /\ db[sch[q]].rate}

(* The lowest of a set of queues. *)
LEMMA LowestFact ==
  ASSUME NEW D \in SUBSET Qs, D # {}
  PROVE  Min(D) \in D /\ Min(D) \in Nat /\ (\A i \in D : Min(D) <= i /\ i \in Nat)
BY MinFact, SchFinite

(* A queue made strict leaves the others the class of the lowest of them. *)
LEMMA StrictFact ==
  ASSUME NEW D \in SUBSET Qs, NEW q \in Qs
  PROVE  StrictClass(ClassFor(D), q) = ClassFor(D \ {q})
PROOF
<1> DEFINE cls == ClassFor(D)
           E == D \ {q}
           moved == {i \in Qs : i > q /\ cls[i] = q}
<1>1. /\ Qs \subseteq Nat /\ \A i \in Qs : cls[i] = IF i \in D THEN Min(D) ELSE i
  BY SchFinite DEF ClassFor
<1>2. D # {} => Min(D) \in D /\ Min(D) \in Nat /\ (\A i \in D : Min(D) <= i /\ i \in Nat)
  BY LowestFact
<1>3. E # {} => Min(E) \in E /\ Min(E) \in Nat /\ (\A i \in E : Min(E) <= i /\ i \in Nat)
  BY LowestFact
<1>4. moved = IF q \in D /\ q = Min(D) THEN E ELSE {}
  <2> HIDE DEF cls
  <2>1. ASSUME NEW i \in Qs PROVE i > q /\ cls[i] = q <=> q \in D /\ q = Min(D) /\ i \in E
    <3>1. i \in Nat /\ q \in Nat /\ cls[i] = IF i \in D THEN Min(D) ELSE i
      BY <1>1
    <3>2. CASE i \in D
      <4>1. Min(D) \in D /\ Min(D) \in Nat /\ Min(D) <= i /\ cls[i] = Min(D)
        BY <1>2, <3>1, <3>2
      <4> QED BY <3>1, <3>2, <4>1
    <3>3. CASE i \notin D
      BY <3>1, <3>3
    <3> QED BY <3>2, <3>3
  <2>2. E \subseteq Qs
    OBVIOUS
  <2> HIDE DEF E
  <2>3. CASE q \in D /\ q = Min(D)
    BY <2>1, <2>2, <2>3
  <2>4. CASE ~(q \in D /\ q = Min(D))
    BY <2>1, <2>4
  <2> QED BY <2>3, <2>4
<1>5. StrictClass(cls, q) = [i \in Qs |-> CASE i = q -> q [] i \in moved -> Min(moved) [] OTHER -> cls[i]]
  BY DEF StrictClass
<1> HIDE DEF moved
<1>6. ASSUME NEW i \in Qs
      PROVE  (CASE i = q -> q [] i \in moved -> Min(moved) [] OTHER -> cls[i]) = IF i \in E THEN Min(E) ELSE i
  <2>1. CASE i = q
    <3>1. i \notin moved /\ i \notin E
      BY <2>1, <1>4
    <3> QED BY <2>1, <3>1
  <2>2. CASE i # q /\ i \in moved
    BY <2>2, <1>4
  <2>3. CASE i # q /\ i \notin moved
    <3>1. CASE i \notin D
      BY <2>3, <3>1, <1>1
    <3>2. CASE i \in D
      <4>1. i \in E /\ cls[i] = Min(D)
        BY <2>3, <3>2, <1>1
      <4>2. ~(q \in D /\ q = Min(D))
        BY <2>3, <4>1, <1>4
      <4>3. Min(D) \in E
        BY <3>2, <4>2, <1>2
      <4>4. Min(E) = Min(D)
        BY <4>1, <4>3, <1>2, <1>3
      <4> QED BY <2>3, <4>1, <4>4
    <3> QED BY <3>1, <3>2
  <2> QED BY <2>1, <2>2, <2>3
<1>7. [i \in Qs |-> CASE i = q -> q [] i \in moved -> Min(moved) [] OTHER -> cls[i]]
        = [i \in Qs |-> IF i \in E THEN Min(E) ELSE i]
  BY <1>6, Zenon
<1> QED BY <1>5, <1>7, Zenon DEF ClassFor

(* Queues made DWRR share the class of the lowest of all. *)
LEMMA DwrrFact ==
  ASSUME NEW E \in SUBSET Qs, NEW D \in SUBSET E
  PROVE  DwrrClass(ClassFor(D), E) = ClassFor(E)
PROOF
<1>1. \A i \in Qs : (IF i \in E THEN Min(E) ELSE ClassFor(D)[i]) = IF i \in E THEN Min(E) ELSE i
  BY DEF ClassFor
<1>2. [i \in Qs |-> IF i \in E THEN Min(E) ELSE ClassFor(D)[i]] = [i \in Qs |-> IF i \in E THEN Min(E) ELSE i]
  BY <1>1, Zenon
<1> QED BY <1>2, Zenon DEF DwrrClass, ClassFor

(* One queue mapped: its own type decides whether it is among the DWRR. *)
LEMMA MapFact ==
  ASSUME NEW D \in SUBSET Qs, NEW q \in Qs, NEW sch, NEW db, D \subseteq DwrrQueues(sch, db) \/ db[sch[q]].type = "STRICT"
  PROVE  MapClass(ClassFor(D), q, sch, db) =
           IF db[sch[q]].type = "STRICT" THEN ClassFor(D \ {q}) ELSE ClassFor(DwrrQueues(sch, db))
PROOF
<1>1. DwrrQueues(sch, db) \subseteq Qs
  BY DEF DwrrQueues
<1>2. CASE db[sch[q]].type = "STRICT"
  BY <1>2, StrictFact DEF MapClass
<1>3. CASE db[sch[q]].type # "STRICT"
  BY <1>1, <1>3, DwrrFact DEF MapClass
<1> QED BY <1>2, <1>3

(* The classes after each queue in turn are mapped are those of a sequence *)
(* that starts and goes on as the traversal does. *)
LEMMA RemapSteps ==
  ASSUME NEW cls, NEW s, NEW sch, NEW db, NEW E, E[0] = cls,
         \A n \in 1 .. NumQ : E[n] = IF sch[n-1] = s THEN MapClass(E[n-1], n - 1, sch, db) ELSE E[n-1]
  PROVE  Remapped(cls, s, sch, db) = E[NumQ]
PROOF
<1> DEFINE body(f) == [n \in 0 .. NumQ |-> IF n = 0 THEN cls
                         ELSE IF sch[n-1] = s THEN MapClass(f[n-1], n - 1, sch, db) ELSE f[n-1]]
           C == CHOOSE f : f = body(f)
<1>0. NumQ \in Nat
  BY SchedAssumption
<1>1. \E f : f = body(f)
  <2> DEFINE w == [n \in 0 .. NumQ |-> E[n]]
  <2>1. \A n \in 0 .. NumQ : w[n] = IF n = 0 THEN cls
                         ELSE IF sch[n-1] = s THEN MapClass(w[n-1], n - 1, sch, db) ELSE w[n-1]
    BY <1>0
  <2>2. w = body(w)
    BY <2>1
  <2> QED BY <2>2
<1>2. C = body(C)
  BY <1>1
<1>3. Remapped(cls, s, sch, db) = C[NumQ]
  BY DEF Remapped
<1> HIDE DEF C
<1>4. \A n \in 0 .. NumQ : C[n] = IF n = 0 THEN cls
                         ELSE IF sch[n-1] = s THEN MapClass(C[n-1], n - 1, sch, db) ELSE C[n-1]
  BY <1>2
<1> DEFINE bad == {n \in 0 .. NumQ : C[n] # E[n]}
<1>5. bad = {}
  <2> SUFFICES ASSUME bad # {} PROVE FALSE
    OBVIOUS
  <2>1. bad \in SUBSET Nat
    BY <1>0
  <2> DEFINE n == Min(bad)
  <2>2. n \in bad /\ \A y \in bad : n <= y
    BY <2>1, MinFact
  <2>3. n \in 0 .. NumQ /\ C[n] # E[n]
    BY <2>2
  <2> HIDE DEF n
  <2>4. CASE n = 0
    BY <2>3, <2>4, <1>4
  <2>5. CASE n # 0
    <3>1. n \in 1 .. NumQ /\ n - 1 \in 0 .. NumQ /\ ~(n <= n - 1)
      BY <2>3, <2>5, <1>0
    <3>2. C[n-1] = E[n-1]
      BY <2>2, <3>1
    <3>3. C[n] = IF sch[n-1] = s THEN MapClass(C[n-1], n - 1, sch, db) ELSE C[n-1]
      BY <1>4, <2>3, <2>5
    <3> QED BY <2>3, <3>1, <3>2, <3>3
  <2> QED BY <2>4, <2>5
<1>6. C[NumQ] = E[NumQ]
  BY <1>0, <1>5
<1> QED BY <1>3, <1>6

(* The users of a scheduler that became strict leave the shared class one *)
(* after the other. *)
LEMMA RemapStrict ==
  ASSUME NEW D \in SUBSET Qs, NEW s, NEW sch, NEW db, db[s].type = "STRICT"
  PROVE  Remapped(ClassFor(D), s, sch, db) = ClassFor(D \ {q \in Qs : sch[q] = s})
PROOF
<1> DEFINE F(n) == D \ {q \in Qs : sch[q] = s /\ q < n}
           E == [n \in 0 .. NumQ |-> ClassFor(F(n))]
<1>0. NumQ \in Nat /\ Qs = 0 .. NumQ - 1
  BY SchedAssumption DEF Qs
<1>1. \A n \in 0 .. NumQ : F(n) \in SUBSET Qs
  OBVIOUS
<1>2. F(0) = D /\ F(NumQ) = D \ {q \in Qs : sch[q] = s}
  BY <1>0
<1>3. ASSUME NEW n \in 1 .. NumQ
      PROVE  E[n] = IF sch[n-1] = s THEN MapClass(E[n-1], n - 1, sch, db) ELSE E[n-1]
  <2>1. n - 1 \in Qs /\ n - 1 \in 0 .. NumQ /\ n \in 0 .. NumQ
    BY <1>0
  <2>2. F(n) = IF sch[n-1] = s THEN F(n-1) \ {n-1} ELSE F(n-1)
    <3>1. ASSUME NEW q \in Qs PROVE q < n <=> q < n - 1 \/ q = n - 1
      BY <1>0, <2>1
    <3> QED BY <3>1, <2>1
  <2>3. E[n] = ClassFor(F(n)) /\ E[n-1] = ClassFor(F(n-1)) /\ F(n-1) \in SUBSET Qs
    BY <2>1, <1>1
  <2> HIDE DEF F, E
  <2>4. sch[n-1] = s => MapClass(ClassFor(F(n-1)), n - 1, sch, db) = ClassFor(F(n-1) \ {n-1})
    BY <2>1, <2>3, MapFact
  <2> QED BY <2>2, <2>3, <2>4
<1>4. E[0] = ClassFor(D) /\ E[NumQ] = ClassFor(D \ {q \in Qs : sch[q] = s})
  <2>1. 0 \in 0 .. NumQ /\ NumQ \in 0 .. NumQ
    BY <1>0
  <2> HIDE DEF F
  <2>2. E[0] = ClassFor(F(0)) /\ E[NumQ] = ClassFor(F(NumQ))
    BY <2>1
  <2> QED BY <1>2, <2>2
<1> HIDE DEF E
<1>5. Remapped(ClassFor(D), s, sch, db) = E[NumQ]
  BY <1>3, <1>4, RemapSteps
<1> QED BY <1>4, <1>5

(* Those of one that became DWRR join it together. *)
LEMMA RemapDwrr ==
  ASSUME NEW s, NEW sch, NEW db, db[s].type = "DWRR", NEW D \in SUBSET DwrrQueues(sch, db)
  PROVE  Remapped(ClassFor(D), s, sch, db) =
           ClassFor(IF \E q \in Qs : sch[q] = s THEN DwrrQueues(sch, db) ELSE D)
PROOF
<1> DEFINE A == DwrrQueues(sch, db)
           F(n) == IF \E q \in Qs : sch[q] = s /\ q < n THEN A ELSE D
           E == [n \in 0 .. NumQ |-> ClassFor(F(n))]
<1>0. NumQ \in Nat /\ Qs = 0 .. NumQ - 1 /\ A \in SUBSET Qs
  BY SchedAssumption DEF Qs, DwrrQueues
<1> HIDE DEF A
<1>1. \A n \in 0 .. NumQ : F(n) \in SUBSET A /\ F(n) \in SUBSET Qs
  BY <1>0 DEF A
<1>2. F(0) = D /\ F(NumQ) = IF \E q \in Qs : sch[q] = s THEN A ELSE D
  <2>1. \A q \in Qs : q < NumQ /\ ~(q < 0)
    BY <1>0
  <2> QED BY <2>1
<1>3. ASSUME NEW n \in 1 .. NumQ
      PROVE  E[n] = IF sch[n-1] = s THEN MapClass(E[n-1], n - 1, sch, db) ELSE E[n-1]
  <2>1. n - 1 \in Qs /\ n - 1 \in 0 .. NumQ /\ n \in 0 .. NumQ
    BY <1>0
  <2>2. F(n) = IF sch[n-1] = s THEN A ELSE F(n-1)
    <3>1. ASSUME NEW q \in Qs PROVE q < n <=> q < n - 1 \/ q = n - 1
      BY <1>0, <2>1
    <3>2. (\E q \in Qs : sch[q] = s /\ q < n) <=> sch[n-1] = s \/ \E q \in Qs : sch[q] = s /\ q < n - 1
      BY <3>1, <2>1
    <3> QED BY <3>2
  <2>3. E[n] = ClassFor(F(n)) /\ E[n-1] = ClassFor(F(n-1)) /\ F(n-1) \in SUBSET Qs /\ F(n-1) \in SUBSET A
    BY <2>1, <1>1
  <2> HIDE DEF F, E
  <2>4. sch[n-1] = s => MapClass(ClassFor(F(n-1)), n - 1, sch, db) = ClassFor(A)
    <3>1. F(n-1) \subseteq DwrrQueues(sch, db)
      BY <2>3 DEF A
    <3>2. db[sch[n-1]].type # "STRICT" => MapClass(ClassFor(F(n-1)), n - 1, sch, db) = ClassFor(DwrrQueues(sch, db))
      <4> DEFINE B == F(n-1)
      <4>1. B \in SUBSET Qs /\ B \subseteq DwrrQueues(sch, db)
        BY <2>3, <3>1
      <4> HIDE DEF B
      <4>2. MapClass(ClassFor(B), n - 1, sch, db) =
           IF db[sch[n-1]].type = "STRICT" THEN ClassFor(B \ {n-1}) ELSE ClassFor(DwrrQueues(sch, db))
        BY <2>1, <4>1, MapFact
      <4> QED BY <4>2 DEF B
    <3>3. sch[n-1] = s => db[sch[n-1]].type # "STRICT"
      OBVIOUS
    <3> QED BY <3>2, <3>3 DEF A
  <2> QED BY <2>2, <2>3, <2>4
<1>4. E[0] = ClassFor(D) /\ E[NumQ] = ClassFor(F(NumQ))
  BY <1>0, <1>2
<1> HIDE DEF E
<1>5. Remapped(ClassFor(D), s, sch, db) = E[NumQ]
  BY <1>3, <1>4, RemapSteps
<1> QED BY <1>2, <1>4, <1>5 DEF A

-----------------------------------------------------------------------------
(* What the calls share. The chip has the classes and shapes of the queues. *)
LEMMA ClassesForm ==
  ASSUME SchInv
  PROVE  hwClass = ClassFor(DwrrQueues(qSch, schDb)) /\ hwShape = ShapeFor(qSch, schDb)
PROOF
<1>1. hwClass \in [Qs -> Qs] /\ \A q \in Qs : hwClass[q] = ClassFor(DwrrQueues(qSch, schDb))[q]
  BY DEF SchInv, SchTyped, ClassesExact, ClassFor
<1>2. hwClass = [q \in Qs |-> hwClass[q]] /\ ClassFor(DwrrQueues(qSch, schDb)) = [q \in Qs |-> ClassFor(DwrrQueues(qSch, schDb))[q]]
  BY <1>1 DEF ClassFor
<1>3. hwClass = ClassFor(DwrrQueues(qSch, schDb))
  BY <1>1, <1>2, Zenon
<1> QED BY <1>3 DEF SchInv, ClassesExact, ShapeFor

(* A set of DWRR queues gives every queue the class of a queue. *)
LEMMA ClassForType ==
  ASSUME NEW D \in SUBSET Qs
  PROVE  ClassFor(D) \in [Qs -> Qs] /\ \A q \in Qs : ClassFor(D)[q] = IF q \in D THEN Min(D) ELSE q
BY LowestFact DEF ClassFor

(* A call that leaves the groups alone keeps the invariant when it keeps *)
(* the counts and gives the chip the classes and shapes of the queues. *)
LEMMA QueuesStep ==
  ASSUME SchInv, SchTyped', UNCHANGED <<qGrp, hwPrio, torn>>,
         \A g \in SchGroups : grpDb'[g].live = grpDb[g].live /\ grpDb'[g].kids = grpDb[g].kids,
         \A k \in Scheds : SchKept(k)',
         hwClass' = ClassFor(DwrrQueues(qSch', schDb')), hwShape' = ShapeFor(qSch', schDb')
  PROVE  SchInv'
PROOF
<1>1. DwrrQueues(qSch', schDb') \in SUBSET Qs
  BY DEF DwrrQueues
<1>2. ClassesExact'
  BY <1>1, ClassForType DEF ClassesExact, ShapeFor
<1>3. GroupsExact'
  <2>1. GroupsExact /\ \A q \in Qs : qGrp[q] # 0 => qGrp[q] \in SchGroups
    BY DEF SchInv, SchTyped
  <2> QED BY <2>1 DEF GroupsExact
<1> QED BY <1>2, <1>3 DEF SchInv

(* These are the same when the schedulers the queues have are of one kind. *)
LEMMA KindsKeep ==
  ASSUME NEW sch, NEW old, NEW new,
         \A q \in Qs : sch[q] # 0 => new[sch[q]].type = old[sch[q]].type /\ new[sch[q]].rate = old[sch[q]].rate
  PROVE  DwrrQueues(sch, new) = DwrrQueues(sch, old) /\ ShapeFor(sch, new) = ShapeFor(sch, old)
BY DEF DwrrQueues, ShapeFor

(* Schedulers of which only the counts change: one use more of s, one less *)
(* of old. *)
UsesCounted(db, new, s, old) ==
  /\ new \in [Scheds -> SchRecs]
  /\ \A k \in Scheds : /\ new[k].live = db[k].live /\ new[k].type = db[k].type /\ new[k].rate = db[k].rate
                       /\ new[k].ref >= db[k].ref + Once(s = k) - Once(old = k)

(* The calls count that way. *)
LEMMA RecountFact ==
  ASSUME NEW db \in [Scheds -> SchRecs], NEW s, NEW old
  PROVE  UsesCounted(db, Recount(db, s, old), s, old)
PROOF
<1> DEFINE new == Recount(db, s, old)
           refOf(k) == IF s = old THEN db[k].ref ELSE IF k = s THEN db[k].ref + 1
                       ELSE IF k = old /\ db[k].ref > 0 THEN db[k].ref - 1 ELSE db[k].ref
<1>1. ASSUME NEW k \in Scheds
      PROVE  /\ new[k] \in SchRecs /\ new[k].live = db[k].live /\ new[k].type = db[k].type
             /\ new[k].rate = db[k].rate /\ new[k].ref = refOf(k)
  <2>1. db[k] \in SchRecs /\ db[k].ref \in Nat /\ refOf(k) \in Nat
    BY DEF SchRecs
  <2>2. new[k] = [db[k] EXCEPT !.ref = refOf(k)]
    BY <2>1 DEF Recount, SchRecs
  <2> HIDE DEF refOf, new
  <2> QED BY <2>1, <2>2 DEF SchRecs
<1>2. new = [k \in Scheds |-> new[k]]
  BY DEF Recount
<1> HIDE DEF new
<1>3. new \in [Scheds -> SchRecs]
  BY <1>1, <1>2
<1>4. ASSUME NEW k \in Scheds PROVE refOf(k) >= db[k].ref + Once(s = k) - Once(old = k)
  <2>1. db[k].ref \in Nat
    BY DEF SchRecs
  <2> QED BY <2>1 DEF Once
<1> HIDE DEF refOf
<1>5. UsesCounted(db, new, s, old)
  BY <1>1, <1>3, <1>4 DEF UsesCounted
<1> QED BY <1>5 DEF new

(* Then no count falls below the uses, if these change the same way. *)
LEMMA KeptStep ==
  ASSUME SchInv, SchTyped', NEW s, NEW old, UsesCounted(schDb, schDb', s, old),
         s \notin Scheds \/ schDb[s].live,
         \A k \in Scheds : UsesIn(qSch', grpDb', portSch', k) <= UsesIn(qSch, grpDb, portSch, k) + Once(s = k) - Once(old = k)
  PROVE  \A k \in Scheds : SchKept(k)'
PROOF
<1> SUFFICES ASSUME NEW k \in Scheds PROVE SchKept(k)'
  OBVIOUS
<1>1. UsesIn(qSch, grpDb, portSch, k) \in Nat /\ UsesIn(qSch', grpDb', portSch', k) \in Nat
  <2>1. SchTyped
    BY DEF SchInv
  <2>2. UsesIn(qSch, grpDb, portSch, k) \in Nat
    BY <2>1, UsesFact
  <2>3. UsesIn(qSch', grpDb', portSch', k) \in Nat
    <3>1. Named(Qs, qSch', k) \in Nat /\ Named(SchGroups, GrpSch(grpDb'), k) \in Nat
      BY SchFinite, NamedFact
    <3> QED BY <3>1 DEF UsesIn, Once
  <2> QED BY <2>2, <2>3
<1>2. SchKept(k) /\ schDb[k].ref \in Nat /\ schDb'[k].ref \in Nat
  BY DEF SchInv, SchTyped, SchRecs, UsesCounted
<1>3. /\ schDb'[k].ref >= schDb[k].ref + Once(s = k) - Once(old = k) /\ schDb'[k].live = schDb[k].live
      /\ UsesIn(qSch', grpDb', portSch', k) <= UsesIn(qSch, grpDb, portSch, k) + Once(s = k) - Once(old = k)
  BY DEF UsesCounted
<1>4. Once(s = k) \in Nat /\ Once(old = k) \in Nat /\ (~schDb[k].live => Once(s = k) = 0)
  BY DEF Once
<1>5. schDb'[k].ref >= UsesIn(qSch', grpDb', portSch', k)
  BY <1>1, <1>2, <1>3, <1>4 DEF SchKept
<1>6. ~schDb'[k].live => UsesIn(qSch', grpDb', portSch', k) = 0
  BY <1>1, <1>2, <1>3, <1>4 DEF SchKept
<1> QED BY <1>5, <1>6 DEF SchKept

-----------------------------------------------------------------------------
(* It holds before the first call. *)
LEMMA SchInitially == SchInit => SchInv
PROOF
<1> SUFFICES ASSUME SchInit PROVE SchInv
  OBVIOUS
<1>1. SchTyped
  BY SchedAssumption DEF SchInit, SchTyped, SchRecs, SchGrpRecs, NoSch, NoGrp, SchTypes, DefaultPrio
<1>2. ASSUME NEW s \in Scheds PROVE SchKept(s)
  <2>1. s # 0
    BY SchFinite
  <2>2. {q \in Qs : qSch[q] = s} = {} /\ {g \in SchGroups : GrpSch(grpDb)[g] = s} = {} /\ portSch # s
    BY <2>1 DEF SchInit, GrpSch, NoGrp
  <2>3. UsesIn(qSch, grpDb, portSch, s) = 0
    BY <2>2, FS_EmptySet DEF UsesIn, Named, Once
  <2> QED BY <2>3 DEF SchKept, SchInit, NoSch
<1>3. ClassesExact
  BY DEF ClassesExact, DwrrQueues, SchInit
<1>4. GroupsExact
  <2>1. \A g \in SchGroups : Cardinality(grpDb[g].kids) <= MaxChilds
    <3>1. \A g \in SchGroups : grpDb[g].kids = {}
      BY DEF SchInit, NoGrp
    <3> QED BY <3>1, FS_EmptySet, SchedAssumption
  <2> QED BY <2>1 DEF GroupsExact, SchInit
<1> QED BY <1>1, <1>2, <1>3, <1>4 DEF SchInv

(* A scheduler no one uses is created or removed. *)
LEMMA SchedulerKeeps ==
  ASSUME SchInv, NEW s \in Scheds,
         (\E ty \in SchTypes, rate \in BOOLEAN : CreateScheduler(s, ty, rate)) \/ RemoveScheduler(s)
  PROVE  SchInv'
PROOF
<1>1. PICK rec \in SchRecs : schDb' = [schDb EXCEPT ![s] = rec] /\ (schDb[s].live => schDb[s].ref = 0)
  BY DEF CreateScheduler, RemoveScheduler, SchRecs, NoSch, SchTypes
<1>2. UNCHANGED <<qSch, qGrp, portSch, grpDb, hwClass, hwShape, hwPrio, torn>>
  BY DEF CreateScheduler, RemoveScheduler
<1>3. SchTyped /\ SchTyped'
  BY <1>1, <1>2 DEF SchInv, SchTyped
<1>4. UsesIn(qSch, grpDb, portSch, s) = 0 /\ \A q \in Qs : qSch[q] # s
  <2>1. UsesIn(qSch, grpDb, portSch, s) \in Nat /\ schDb[s].ref \in Nat /\ SchKept(s)
    BY <1>3, UsesFact DEF SchInv, SchTyped, SchRecs
  <2>2. UsesIn(qSch, grpDb, portSch, s) = 0
    BY <1>1, <2>1 DEF SchKept
  <2> QED BY <2>2, <1>3, UsesFact
<1>5. schDb'[s] = rec /\ \A k \in Scheds : k # s => schDb'[k] = schDb[k]
  BY <1>1, <1>3 DEF SchTyped
<1>6. ASSUME NEW k \in Scheds PROVE SchKept(k)'
  <2>1. CASE k = s
    BY <2>1, <1>2, <1>4, <1>5 DEF SchKept, SchRecs
  <2>2. CASE k # s
    BY <2>2, <1>2, <1>5 DEF SchInv, SchKept
  <2> QED BY <2>1, <2>2
<1>7. hwClass' = ClassFor(DwrrQueues(qSch', schDb')) /\ hwShape' = ShapeFor(qSch', schDb')
  <2>1. \A q \in Qs : qSch[q] # 0 => schDb'[qSch[q]] = schDb[qSch[q]]
    BY <1>3, <1>4, <1>5 DEF SchTyped
  <2>2. DwrrQueues(qSch, schDb') = DwrrQueues(qSch, schDb) /\ ShapeFor(qSch, schDb') = ShapeFor(qSch, schDb)
    BY <2>1, KindsKeep
  <2> QED BY <2>2, <1>2, ClassesForm
<1> QED BY <1>2, <1>3, <1>6, <1>7, QueuesStep

(* The uses when one queue, one group or the port gets another scheduler. *)
LEMMA QueueUses ==
  ASSUME NEW q \in Qs, NEW s, SchTyped, qSch' = [qSch EXCEPT ![q] = s], UNCHANGED <<portSch, grpDb>>
  PROVE  \A k \in Scheds : UsesIn(qSch', grpDb', portSch', k) <= UsesIn(qSch, grpDb, portSch, k) + Once(s = k) - Once(qSch[q] = k)
PROOF
<1> SUFFICES ASSUME NEW k \in Scheds
    PROVE  UsesIn(qSch', grpDb', portSch', k) <= UsesIn(qSch, grpDb, portSch, k) + Once(s = k) - Once(qSch[q] = k)
  OBVIOUS
<1>1. (\A i \in Qs : i # q => qSch'[i] = qSch[i]) /\ qSch'[q] = s
  BY DEF SchTyped
<1>2. Renamed(Qs, qSch, qSch', q)
  <2> DEFINE h == qSch'
  <2>1. \A i \in Qs : i # q => h[i] = qSch[i]
    BY <1>1
  <2> HIDE DEF h
  <2>2. Renamed(Qs, qSch, h, q)
    BY <2>1, SchFinite, OneRenames
  <2> QED BY <2>2 DEF h
<1>3. /\ Named(Qs, qSch, k) \in Nat /\ Named(Qs, qSch', k) \in Nat
      /\ Named(Qs, qSch', k) = Named(Qs, qSch, k) + (IF s = k THEN 1 ELSE 0) - (IF qSch[q] = k THEN 1 ELSE 0)
  BY <1>1, <1>2 DEF Renamed
<1>4. Named(SchGroups, GrpSch(grpDb), k) \in Nat
  BY SchFinite, NamedFact
<1> QED BY <1>3, <1>4 DEF UsesIn, Once

(* The uses when one group's record changes. *)
LEMMA GroupUses ==
  ASSUME NEW g \in SchGroups, SchTyped, NEW rec \in SchGrpRecs, grpDb' = [grpDb EXCEPT ![g] = rec], UNCHANGED <<portSch, qSch>>
  PROVE  \A k \in Scheds : UsesIn(qSch', grpDb', portSch', k)
                             = UsesIn(qSch, grpDb, portSch, k) + Once(rec.sched = k) - Once(grpDb[g].sched = k)
PROOF
<1> SUFFICES ASSUME NEW k \in Scheds
    PROVE  UsesIn(qSch', grpDb', portSch', k)
             = UsesIn(qSch, grpDb, portSch, k) + Once(rec.sched = k) - Once(grpDb[g].sched = k)
  OBVIOUS
<1> DEFINE f == GrpSch(grpDb)
           h == GrpSch(grpDb')
<1>1. (\A i \in SchGroups : i # g => h[i] = f[i]) /\ h[g] = rec.sched /\ f[g] = grpDb[g].sched
  BY DEF SchTyped, GrpSch
<1> HIDE DEF f, h
<1>2. Renamed(SchGroups, f, h, g)
  BY <1>1, SchFinite, OneRenames
<1>3. /\ Named(SchGroups, f, k) \in Nat /\ Named(SchGroups, h, k) \in Nat
      /\ Named(SchGroups, h, k) = Named(SchGroups, f, k) + (IF rec.sched = k THEN 1 ELSE 0) - (IF grpDb[g].sched = k THEN 1 ELSE 0)
  BY <1>1, <1>2 DEF Renamed
<1>4. Named(Qs, qSch, k) \in Nat
  BY SchFinite, NamedFact
<1> QED BY <1>3, <1>4 DEF UsesIn, Once, f, h

(* A queue gets a scheduler. *)
LEMMA QueueSetSchedulerKeeps ==
  ASSUME SchInv, NEW q \in Qs, NEW s \in Scheds, QueueSetScheduler(q, s)
  PROVE  SchInv'
PROOF
<1> DEFINE D == DwrrQueues(qSch, schDb)
           A == DwrrQueues(qSch', schDb)
<1>0. SchTyped /\ s # 0
  BY SchFinite DEF SchInv
<1>1. /\ schDb[s].live /\ qSch' = [qSch EXCEPT ![q] = s] /\ schDb' = Recount(schDb, s, qSch[q])
      /\ hwClass' = MapClass(hwClass, q, qSch', schDb) /\ hwShape' = MapShape(hwShape, q, qSch', schDb)
      /\ UNCHANGED <<qGrp, portSch, grpDb, hwPrio, torn>>
  BY DEF QueueSetScheduler
<1>2. UsesCounted(schDb, schDb', s, qSch[q])
  BY <1>0, <1>1, RecountFact DEF SchTyped
<1>3. qSch' \in [Qs -> Scheds \cup {0}] /\ qSch'[q] = s /\ \A i \in Qs : i # q => qSch'[i] = qSch[i]
  BY <1>0, <1>1 DEF SchTyped
<1>4. DwrrQueues(qSch', schDb') = A /\ ShapeFor(qSch', schDb') = ShapeFor(qSch', schDb)
  <2>1. \A i \in Qs : qSch'[i] # 0 => schDb'[qSch'[i]].type = schDb[qSch'[i]].type /\ schDb'[qSch'[i]].rate = schDb[qSch'[i]].rate
    BY <1>2, <1>3 DEF UsesCounted
  <2> QED BY <2>1, KindsKeep
<1>5. schDb[s].type \in SchTypes /\ A = IF schDb[s].type = "STRICT" THEN D \ {q} ELSE D \cup {q}
  <2>1. schDb[s].type \in {"STRICT", "DWRR"}
    BY <1>0 DEF SchTyped, SchRecs, SchTypes
  <2> QED BY <2>1, <1>0, <1>3 DEF DwrrQueues, SchTypes
<1>6. hwClass' = ClassFor(A)
  <2>1. D \in SUBSET Qs /\ hwClass = ClassFor(D)
    BY ClassesForm DEF DwrrQueues
  <2> DEFINE sch == qSch'
  <2>2. D \subseteq DwrrQueues(sch, schDb) \/ schDb[sch[q]].type = "STRICT"
    BY <1>3, <1>5
  <2> HIDE DEF sch, D
  <2>3. MapClass(ClassFor(D), q, sch, schDb) =
           IF schDb[sch[q]].type = "STRICT" THEN ClassFor(D \ {q}) ELSE ClassFor(DwrrQueues(sch, schDb))
    BY <2>1, <2>2, MapFact
  <2> QED BY <1>1, <1>3, <1>5, <2>1, <2>3 DEF sch
<1>7. hwShape' = ShapeFor(qSch', schDb)
  <2>1. hwShape = ShapeFor(qSch, schDb)
    BY ClassesForm
  <2> QED BY <1>0, <1>1, <1>3, <2>1 DEF MapShape, ShapeFor
<1>8. SchTyped'
  <2>1. A \in SUBSET Qs
    BY DEF DwrrQueues
  <2>2. hwClass' \in [Qs -> Qs]
    BY <1>6, <2>1, ClassForType
  <2> QED BY <2>2, <1>0, <1>1, <1>2, <1>3, <1>7 DEF SchTyped, UsesCounted, ShapeFor
<1>9. \A k \in Scheds : UsesIn(qSch', grpDb', portSch', k) <= UsesIn(qSch, grpDb, portSch, k) + Once(s = k) - Once(qSch[q] = k)
  BY <1>0, <1>1, QueueUses
<1>10. \A k \in Scheds : SchKept(k)'
  BY <1>1, <1>2, <1>8, <1>9, KeptStep, ZenonT(30)
<1> QED BY <1>1, <1>4, <1>6, <1>7, <1>8, <1>10, QueuesStep
(* A queue gives its scheduler up. *)
LEMMA QueueUnsetSchedulerKeeps ==
  ASSUME SchInv, NEW q \in Qs, QueueUnsetScheduler(q)
  PROVE  SchInv'
PROOF
<1> DEFINE D == DwrrQueues(qSch, schDb)
<1>0. SchTyped /\ 0 \notin Scheds
  BY SchFinite DEF SchInv
<1>1. /\ {i \in Qs \ {q} : hwClass[i] = q} = {} /\ qSch' = [qSch EXCEPT ![q] = 0]
      /\ schDb' = Recount(schDb, 0, qSch[q])
      /\ hwClass' = [hwClass EXCEPT ![q] = q] /\ hwShape' = hwShape \ {q}
      /\ UNCHANGED <<qGrp, portSch, grpDb, hwPrio, torn>>
  BY DEF QueueUnsetScheduler
<1>2. UsesCounted(schDb, schDb', 0, qSch[q])
  BY <1>0, <1>1, RecountFact DEF SchTyped
<1>3. qSch' \in [Qs -> Scheds \cup {0}] /\ qSch'[q] = 0 /\ \A i \in Qs : i # q => qSch'[i] = qSch[i]
  BY <1>0, <1>1 DEF SchTyped
<1>4. DwrrQueues(qSch', schDb') = DwrrQueues(qSch', schDb) /\ ShapeFor(qSch', schDb') = ShapeFor(qSch', schDb)
  <2>1. \A i \in Qs : qSch'[i] # 0 => schDb'[qSch'[i]].type = schDb[qSch'[i]].type /\ schDb'[qSch'[i]].rate = schDb[qSch'[i]].rate
    BY <1>2, <1>3 DEF UsesCounted
  <2> QED BY <2>1, KindsKeep
<1>5. DwrrQueues(qSch', schDb) = D \ {q}
  BY <1>3 DEF DwrrQueues
<1>6. hwClass' = ClassFor(D \ {q})
  <2>1. D \in SUBSET Qs /\ hwClass = ClassFor(D)
    BY ClassesForm DEF DwrrQueues
  <2>2. StrictClass(hwClass, q) = ClassFor(D \ {q})
    BY <2>1, StrictFact
  <2>3. StrictClass(hwClass, q) = [hwClass EXCEPT ![q] = q]
    <3> DEFINE moved == {i \in Qs : i > q /\ hwClass[i] = q}
    <3>1. moved = {}
      <4>1. \A i \in Qs : ~(i > i)
        BY SchFinite
      <4> QED BY <1>1, <4>1
    <3>2. StrictClass(hwClass, q) = [i \in Qs |-> CASE i = q -> q [] i \in moved -> Min(moved) [] OTHER -> hwClass[i]]
      BY DEF StrictClass
    <3> HIDE DEF moved
    <3>3. \A i \in Qs : (CASE i = q -> q [] i \in moved -> Min(moved) [] OTHER -> hwClass[i]) = IF i = q THEN q ELSE hwClass[i]
      BY <3>1
    <3>4. StrictClass(hwClass, q) = [i \in Qs |-> IF i = q THEN q ELSE hwClass[i]]
      BY <3>2, <3>3, Zenon
    <3> QED BY <3>4, <1>0 DEF SchTyped
  <2> QED BY <1>1, <2>2, <2>3
<1>7. hwShape' = ShapeFor(qSch', schDb)
  <2>1. hwShape = ShapeFor(qSch, schDb)
    BY ClassesForm
  <2> QED BY <1>1, <1>3, <2>1 DEF ShapeFor
<1>8. SchTyped'
  BY <1>0, <1>1, <1>2, <1>3 DEF SchTyped, UsesCounted
<1>9. \A k \in Scheds : UsesIn(qSch', grpDb', portSch', k) <= UsesIn(qSch, grpDb, portSch, k) + Once(0 = k) - Once(qSch[q] = k)
  BY <1>0, <1>1, QueueUses
<1>10. \A k \in Scheds : SchKept(k)'
  BY <1>0, <1>2, <1>8, <1>9, KeptStep
<1> QED BY <1>1, <1>4, <1>5, <1>6, <1>7, <1>8, <1>10, QueuesStep

(* The port gets a scheduler or gives it up. *)
LEMMA PortSetSchedulerKeeps ==
  ASSUME SchInv, NEW s \in Scheds \cup {0}, PortSetScheduler(s)
  PROVE  SchInv'
PROOF
<1>0. SchTyped /\ 0 \notin Scheds
  BY SchFinite DEF SchInv
<1>1. /\ s # 0 => schDb[s].live
      /\ portSch' = s /\ schDb' = Recount(schDb, s, portSch)
      /\ UNCHANGED <<qSch, qGrp, grpDb, hwClass, hwShape, hwPrio, torn>>
  BY DEF PortSetScheduler, CanRef
<1>2. UsesCounted(schDb, schDb', s, portSch)
  BY <1>0, <1>1, RecountFact DEF SchTyped
<1>3. DwrrQueues(qSch, schDb') = DwrrQueues(qSch, schDb) /\ ShapeFor(qSch, schDb') = ShapeFor(qSch, schDb)
  <2>1. \A i \in Qs : qSch[i] # 0 => schDb'[qSch[i]].type = schDb[qSch[i]].type /\ schDb'[qSch[i]].rate = schDb[qSch[i]].rate
    BY <1>0, <1>2 DEF UsesCounted, SchTyped
  <2> QED BY <2>1, KindsKeep
<1>4. SchTyped'
  BY <1>0, <1>1, <1>2 DEF SchTyped, UsesCounted
<1>5. ASSUME NEW k \in Scheds
      PROVE  UsesIn(qSch', grpDb', portSch', k) <= UsesIn(qSch, grpDb, portSch, k) + Once(s = k) - Once(portSch = k)
  <2>1. Named(Qs, qSch, k) \in Nat /\ Named(SchGroups, GrpSch(grpDb), k) \in Nat
    BY SchFinite, NamedFact
  <2> QED BY <2>1, <1>1 DEF UsesIn, Once
<1>6. \A k \in Scheds : SchKept(k)'
  BY <1>0, <1>1, <1>2, <1>4, <1>5, KeptStep
<1>7. hwClass' = ClassFor(DwrrQueues(qSch', schDb')) /\ hwShape' = ShapeFor(qSch', schDb')
  BY <1>1, <1>3, ClassesForm
<1> QED BY <1>1, <1>4, <1>6, <1>7, QueuesStep

(* A record with one or two of its fields changed. *)
LEMMA SchRecChanged ==
  ASSUME NEW r \in SchRecs, NEW t, NEW b
  PROVE  [[r EXCEPT !.type = t] EXCEPT !.rate = b] = [live |-> r.live, type |-> t, rate |-> b, ref |-> r.ref]
PROOF
<1>1. [r EXCEPT !.type = t] = [live |-> r.live, type |-> t, rate |-> r.rate, ref |-> r.ref]
  BY DEF SchRecs
<1>2. [[live |-> r.live, type |-> t, rate |-> r.rate, ref |-> r.ref] EXCEPT !.rate = b]
        = [live |-> r.live, type |-> t, rate |-> b, ref |-> r.ref]
  OBVIOUS
<1> QED BY <1>1, <1>2, Zenon
(* The same of a group. *)
LEMMA GrpRecChanged ==
  ASSUME NEW r \in SchGrpRecs, NEW s, NEW K
  PROVE  /\ [r EXCEPT !.sched = s] = [live |-> r.live, sched |-> s, kids |-> r.kids]
         /\ [r EXCEPT !.kids = K] = [live |-> r.live, sched |-> r.sched, kids |-> K]
BY DEF SchGrpRecs
(* A scheduler changes under the queues that have it. *)
LEMMA SetSchedulerKeeps ==
  ASSUME SchInv, NEW s \in Scheds, NEW ty \in SchTypes, NEW rate \in BOOLEAN, SetScheduler(s, ty, rate)
  PROVE  SchInv'
PROOF
<1> DEFINE D == DwrrQueues(qSch, schDb)
           A == DwrrQueues(qSch, schDb')
           rec == [live |-> schDb[s].live, type |-> ty, rate |-> rate, ref |-> schDb[s].ref]
<1>0. SchTyped /\ s # 0 /\ schDb[s] \in SchRecs
  BY SchFinite DEF SchInv, SchTyped
<1>1. /\ (ty = schDb[s].type) # (rate = schDb[s].rate)
      /\ hwClass' = Remapped(hwClass, s, qSch, schDb')
      /\ hwShape' = {q \in Qs : IF qSch[q] = s THEN rate ELSE q \in hwShape}
      /\ UNCHANGED <<qSch, qGrp, portSch, grpDb, hwPrio, torn>>
  BY DEF SetScheduler
<1>2. schDb' = [schDb EXCEPT ![s] = rec]
  <2>1. schDb' = [schDb EXCEPT ![s].type = ty, ![s].rate = rate]
    BY DEF SetScheduler
  <2>2. [[schDb[s] EXCEPT !.type = ty] EXCEPT !.rate = rate] = rec
    <3>1. schDb[s] \in SchRecs /\ ty \in SchTypes /\ rate \in BOOLEAN
      BY <1>0
    <3> QED BY <3>1, SchRecChanged
  <2> HIDE DEF rec
  <2>3. schDb' = [schDb EXCEPT ![s] = [[schDb[s] EXCEPT !.type = ty] EXCEPT !.rate = rate]]
    BY <2>1, <1>0 DEF SchTyped
  <2> QED BY <2>2, <2>3
<1>3. /\ rec \in SchRecs /\ rec.live = schDb[s].live /\ rec.type = ty /\ rec.rate = rate /\ rec.ref = schDb[s].ref
      /\ schDb' \in [Scheds -> SchRecs] /\ schDb'[s] = rec /\ \A k \in Scheds : k # s => schDb'[k] = schDb[k]
  <2>1. rec \in SchRecs
    BY <1>0 DEF SchRecs
  <2> QED BY <2>1, <1>0, <1>2 DEF SchTyped
<1> HIDE DEF rec
<1>4. D \in SUBSET Qs /\ A \in SUBSET Qs /\ hwClass = ClassFor(D) /\ hwShape = ShapeFor(qSch, schDb)
  BY ClassesForm DEF DwrrQueues
<1>5. hwClass' = ClassFor(A)
  <2>1. CASE ty = "STRICT"
    <3>1. A = D \ {q \in Qs : qSch[q] = s}
      BY <2>1, <1>0, <1>3 DEF DwrrQueues, SchTyped
    <3> HIDE DEF D, A
    <3>2. Remapped(ClassFor(D), s, qSch, schDb') = ClassFor(D \ {q \in Qs : qSch[q] = s})
      BY <2>1, <1>3, <1>4, RemapStrict
    <3> QED BY <1>1, <1>4, <3>1, <3>2
  <2>2. CASE ty = "DWRR"
    <3>1. D \subseteq A /\ ((\E q \in Qs : qSch[q] = s) \/ A = D)
      BY <2>2, <1>0, <1>3 DEF DwrrQueues, SchTyped
    <3> HIDE DEF D
    <3>2. Remapped(ClassFor(D), s, qSch, schDb') = ClassFor(IF \E q \in Qs : qSch[q] = s THEN DwrrQueues(qSch, schDb') ELSE D)
      BY <2>2, <3>1, <1>3, RemapDwrr
    <3> HIDE DEF A
    <3>3. Remapped(ClassFor(D), s, qSch, schDb') = ClassFor(IF \E q \in Qs : qSch[q] = s THEN A ELSE D)
      BY <3>2 DEF A
    <3> QED BY <1>1, <1>4, <3>1, <3>3
  <2> QED BY <2>1, <2>2 DEF SchTypes
<1>6. hwShape' = ShapeFor(qSch', schDb')
  BY <1>0, <1>1, <1>3, <1>4 DEF ShapeFor, SchTyped
<1>7. SchTyped'
  <2>1. hwClass' \in [Qs -> Qs]
    BY <1>4, <1>5, ClassForType
  <2> QED BY <2>1, <1>0, <1>1, <1>3 DEF SchTyped
<1>8. ASSUME NEW k \in Scheds PROVE SchKept(k)'
  <2>1. SchKept(k) /\ schDb'[k].live = schDb[k].live /\ schDb'[k].ref = schDb[k].ref
    BY <1>3 DEF SchInv
  <2> QED BY <2>1, <1>1 DEF SchKept
<1> QED BY <1>1, <1>5, <1>6, <1>7, <1>8, QueuesStep

-----------------------------------------------------------------------------
(* The calls that leave the schedulers and the queues' use of them alone *)
(* need only give no group a scheduler and leave the groups exact. *)
LEMMA GroupsStep ==
  ASSUME SchInv, NEW g \in SchGroups, NEW rec \in SchGrpRecs, grpDb' = [grpDb EXCEPT ![g] = rec],
         rec.sched \in {0, grpDb[g].sched}, qGrp' \in [Qs -> SchGroups \cup {0}], hwPrio' \in [Qs -> Nat],
         torn' \subseteq Qs, GroupsExact',
         UNCHANGED <<schDb, qSch, portSch, hwClass, hwShape>>
  PROVE  SchInv'
PROOF
<1>0. SchTyped /\ 0 \notin Scheds
  BY SchFinite DEF SchInv
<1>1. SchTyped'
  BY <1>0 DEF SchTyped
<1>2. \A k \in Scheds : UsesIn(qSch', grpDb', portSch', k)
                             = UsesIn(qSch, grpDb, portSch, k) + Once(rec.sched = k) - Once(grpDb[g].sched = k)
  BY <1>0, GroupUses
<1>3. \A k \in Scheds : UsesIn(qSch', grpDb', portSch', k) <= UsesIn(qSch, grpDb, portSch, k) + Once(0 = k) - Once(0 = k)
  <2> SUFFICES ASSUME NEW k \in Scheds
      PROVE UsesIn(qSch', grpDb', portSch', k) <= UsesIn(qSch, grpDb, portSch, k) + Once(0 = k) - Once(0 = k)
    OBVIOUS
  <2>1. UsesIn(qSch, grpDb, portSch, k) \in Nat
    BY <1>0, UsesFact
  <2>2. Once(grpDb[g].sched = k) \in Nat /\ Once(0 = k) = 0 /\ Once(rec.sched = k) <= Once(grpDb[g].sched = k)
    <3>1. rec.sched = 0 \/ rec.sched = grpDb[g].sched
      OBVIOUS
    <3>2. k # 0
      BY <1>0
    <3> QED BY <3>1, <3>2 DEF Once
  <2>3. Once(rec.sched = k) \in Nat /\ UsesIn(qSch', grpDb', portSch', k)
                             = UsesIn(qSch, grpDb, portSch, k) + Once(rec.sched = k) - Once(grpDb[g].sched = k)
    BY <1>2 DEF Once
  <2> QED BY <2>1, <2>2, <2>3
<1>4. UsesCounted(schDb, schDb', 0, 0)
  BY <1>0 DEF UsesCounted, Once, SchTyped, SchRecs
<1>5. \A k \in Scheds : SchKept(k)'
  BY <1>0, <1>1, <1>3, <1>4, KeptStep, ZenonT(30)
<1>6. ClassesExact'
  BY DEF SchInv, ClassesExact
<1> QED BY <1>1, <1>5, <1>6 DEF SchInv

(* The children of a group are counted. *)
LEMMA KidsFinite ==
  ASSUME NEW K \in SUBSET Qs, NEW q \in Qs
  PROVE  /\ IsFiniteSet(K) /\ Cardinality(K) \in Nat
         /\ Cardinality(K \cup {q}) = Cardinality(K) + (IF q \in K THEN 0 ELSE 1)
         /\ Cardinality(K \ {q}) <= Cardinality(K)
PROOF
<1>1. IsFiniteSet(K)
  BY SchFinite, FS_Subset
<1>2. Cardinality(K) \in Nat
  BY <1>1, FS_CardinalityType
<1>3. Cardinality(K \cup {q}) = Cardinality(K) + (IF q \in K THEN 0 ELSE 1)
  BY <1>1, <1>2, FS_AddElement
<1>4. Cardinality(K \ {q}) = IF q \in K THEN Cardinality(K) - 1 ELSE Cardinality(K)
  BY <1>1, FS_RemoveElement
<1> QED BY <1>1, <1>2, <1>3, <1>4

(* A group without queues is created or removed. *)
LEMMA GroupKeeps ==
  ASSUME SchInv, CreateGroup \/ \E g \in SchGroups : RemoveGroup(g)
  PROVE  SchInv'
PROOF
<1>0. SchTyped /\ GroupsExact
  BY DEF SchInv
<1>1. PICK g \in SchGroups, rec \in SchGrpRecs :
        /\ grpDb' = [grpDb EXCEPT ![g] = rec] /\ rec.sched = 0 /\ rec.kids = {} /\ (~grpDb[g].live \/ \A q \in Qs : qGrp[q] # g)
  <2>1. CASE CreateGroup
    <3> DEFINE free == {g \in SchGroups : ~grpDb[g].live}
               new == [NoGrp EXCEPT !.live = TRUE]
    <3>1. free # {} /\ grpDb' = [grpDb EXCEPT ![Min(free)] = new]
      BY <2>1 DEF CreateGroup
    <3>2. free \in SUBSET Nat
      <4>1. SchGroups \subseteq Nat
        BY SchedAssumption
      <4> QED BY <4>1
    <3>3. Min(free) \in free
      <4> HIDE DEF free
      <4> QED BY <3>1, <3>2, MinFact
    <3>4. new \in SchGrpRecs /\ new.sched = 0 /\ new.kids = {}
      BY DEF NoGrp, SchGrpRecs
    <3>5. Min(free) \in SchGroups /\ ~grpDb[Min(free)].live
      BY <3>3
    <3> HIDE DEF free, new
    <3> QED BY <3>1, <3>4, <3>5
  <2>2. ASSUME NEW g \in SchGroups, RemoveGroup(g)
        PROVE  \E x \in SchGroups, rec \in SchGrpRecs :
        /\ grpDb' = [grpDb EXCEPT ![x] = rec] /\ rec.sched = 0 /\ rec.kids = {} /\ (~grpDb[x].live \/ \A q \in Qs : qGrp[q] # x)
    <3>1. NoGrp \in SchGrpRecs /\ NoGrp.sched = 0 /\ NoGrp.kids = {}
      BY DEF NoGrp, SchGrpRecs
    <3>2. grpDb' = [grpDb EXCEPT ![g] = NoGrp] /\ \A q \in Qs : qGrp[q] # g
      BY <2>2 DEF RemoveGroup
    <3> QED BY <3>1, <3>2
  <2> QED BY <2>1, <2>2
<1>2. UNCHANGED <<schDb, qSch, qGrp, portSch, hwClass, hwShape, hwPrio, torn>>
  BY DEF CreateGroup, RemoveGroup
<1>3. grpDb'[g] = rec /\ \A x \in SchGroups : x # g => grpDb'[x] = grpDb[x]
  BY <1>0, <1>1 DEF SchTyped
<1>4. GroupsExact'
  <2>1. ASSUME NEW q \in Qs, qGrp[q] # 0 PROVE grpDb'[qGrp[q]] = grpDb[qGrp[q]]
    <3>1. qGrp[q] \in SchGroups /\ grpDb[qGrp[q]].live
      BY <2>1, <1>0 DEF SchTyped, GroupsExact
    <3> QED BY <3>1, <1>1, <1>3
  <2>2. Cardinality(rec.kids) <= MaxChilds
    BY <1>1, FS_EmptySet, SchedAssumption
  <2>3. \A x \in SchGroups : Cardinality(grpDb'[x].kids) <= MaxChilds
    BY <2>2, <1>0, <1>3 DEF GroupsExact
  <2> QED BY <2>1, <2>3, <1>0, <1>2 DEF GroupsExact
<1> QED BY <1>0, <1>1, <1>2, <1>4, GroupsStep DEF SchTyped

(* A group gets a scheduler, or gives it up. *)
LEMMA GroupSetSchedulerKeeps ==
  ASSUME SchInv, NEW g \in SchGroups, NEW s \in Scheds \cup {0}, GroupSetScheduler(g, s)
  PROVE  SchInv'
PROOF
<1> DEFINE old == IF s = 0 THEN grpDb[g].sched ELSE 0
           rec == [live |-> grpDb[g].live, sched |-> s, kids |-> grpDb[g].kids]
<1>0. SchTyped /\ 0 \notin Scheds /\ grpDb[g] \in SchGrpRecs
  BY SchFinite DEF SchInv, SchTyped
<1>1. /\ s # 0 => schDb[s].live
      /\ grpDb' = [grpDb EXCEPT ![g].sched = s] /\ schDb' = Recount(schDb, s, old)
      /\ UNCHANGED <<qSch, qGrp, portSch, hwClass, hwShape, hwPrio, torn>>
  BY DEF GroupSetScheduler, CanRef
<1>2. UsesCounted(schDb, schDb', s, old)
  BY <1>0, <1>1, RecountFact DEF SchTyped
<1>3. DwrrQueues(qSch, schDb') = DwrrQueues(qSch, schDb) /\ ShapeFor(qSch, schDb') = ShapeFor(qSch, schDb)
  <2>1. \A i \in Qs : qSch[i] # 0 => schDb'[qSch[i]].type = schDb[qSch[i]].type /\ schDb'[qSch[i]].rate = schDb[qSch[i]].rate
    BY <1>0, <1>2 DEF UsesCounted, SchTyped
  <2> QED BY <2>1, KindsKeep
<1>4. grpDb' = [grpDb EXCEPT ![g] = rec] /\ rec \in SchGrpRecs /\ rec.sched = s
  <2>1. [grpDb[g] EXCEPT !.sched = s] = rec
    BY <1>0, GrpRecChanged
  <2>2. grpDb' = [grpDb EXCEPT ![g] = [grpDb[g] EXCEPT !.sched = s]]
    BY <1>1
  <2>3. rec \in SchGrpRecs
    BY <1>0 DEF SchGrpRecs
  <2> QED BY <2>1, <2>2, <2>3
<1>5. SchTyped' /\ \A x \in SchGroups : grpDb'[x].live = grpDb[x].live /\ grpDb'[x].kids = grpDb[x].kids
  <2>1. \A x \in SchGroups : grpDb'[x].live = grpDb[x].live /\ grpDb'[x].kids = grpDb[x].kids
    BY <1>0, <1>4 DEF SchTyped
  <2> HIDE DEF rec
  <2> QED BY <2>1, <1>0, <1>1, <1>2, <1>4 DEF SchTyped, UsesCounted
<1>6. ASSUME NEW k \in Scheds
      PROVE  UsesIn(qSch', grpDb', portSch', k) <= UsesIn(qSch, grpDb, portSch, k) + Once(s = k) - Once(old = k)
  <2> HIDE DEF rec
  <2>1. UsesIn(qSch', grpDb', portSch', k) = UsesIn(qSch, grpDb, portSch, k) + Once(rec.sched = k) - Once(grpDb[g].sched = k)
    <3>1. UNCHANGED <<portSch, qSch>> /\ SchTyped
      BY <1>0, <1>1
    <3>2. rec \in SchGrpRecs /\ grpDb' = [grpDb EXCEPT ![g] = rec]
      BY <1>4
    <3> QED BY <3>1, <3>2, GroupUses
  <2>2. UsesIn(qSch, grpDb, portSch, k) \in Nat /\ k # 0
    BY <1>0, UsesFact
  <2> QED BY <2>1, <2>2, <1>4 DEF Once
<1> HIDE DEF old
<1>7. \A k \in Scheds : SchKept(k)'
  <2>1. s \notin Scheds \/ schDb[s].live
    BY <1>0, <1>1
  <2>2. SchTyped'
    BY <1>5
  <2> QED BY <2>1, <2>2, <1>2, <1>6, KeptStep
<1>8. hwClass' = ClassFor(DwrrQueues(qSch', schDb')) /\ hwShape' = ShapeFor(qSch', schDb')
  BY <1>1, <1>3, ClassesForm
<1> QED BY <1>1, <1>5, <1>7, <1>8, QueuesStep

(* A queue joins a group, or is refused after the chip has been told. *)
LEMMA QueueSetGroupKeeps ==
  ASSUME SchInv, NEW q \in Qs, NEW g \in SchGroups, QueueSetGroup(q, g)
  PROVE  SchInv'
PROOF
<1> DEFINE kids == grpDb[g].kids
           full == q \notin kids /\ Cardinality(kids) >= MaxChilds
           rec == [live |-> grpDb[g].live, sched |-> grpDb[g].sched, kids |-> IF full THEN kids ELSE kids \cup {q}]
<1>0. SchTyped /\ GroupsExact /\ grpDb[g] \in SchGrpRecs /\ 0 \notin SchGroups /\ SchGroups \subseteq Nat \ {0}
  BY SchFinite, SchedAssumption DEF SchInv, SchTyped
<1>1. /\ grpDb[g].live /\ hwPrio' = [hwPrio EXCEPT ![q] = g - 1]
      /\ UNCHANGED <<schDb, qSch, portSch, hwClass, hwShape>>
      /\ full => torn' = torn \cup {q} /\ UNCHANGED <<qGrp, grpDb>>
      /\ ~full => /\ grpDb' = [grpDb EXCEPT ![g].kids = grpDb[g].kids \cup {q}]
                  /\ qGrp' = [qGrp EXCEPT ![q] = g] /\ torn' = torn \ {q}
  BY DEF QueueSetGroup
<1>2. grpDb' = [grpDb EXCEPT ![g] = rec] /\ rec \in SchGrpRecs /\ rec.sched = grpDb[g].sched /\ rec.live
      /\ kids \subseteq rec.kids /\ rec.kids \in SUBSET Qs
  <2>1. CASE full
    BY <2>1, <1>0, <1>1 DEF SchTyped, SchGrpRecs
  <2>2. CASE ~full
    BY <2>2, <1>0, <1>1 DEF SchTyped, SchGrpRecs
  <2> QED BY <2>1, <2>2
<1>3. q \in rec.kids \/ full
  OBVIOUS
<1>4. Cardinality(rec.kids) <= MaxChilds
  <2>1. kids \in SUBSET Qs /\ Cardinality(kids) <= MaxChilds
    BY <1>0 DEF SchGrpRecs, GroupsExact
  <2> HIDE DEF kids
  <2>2. Cardinality(kids) \in Nat /\ MaxChilds \in Nat /\ Cardinality(kids \cup {q}) = Cardinality(kids) + (IF q \in kids THEN 0 ELSE 1)
    BY <2>1, KidsFinite, SchedAssumption
  <2> QED BY <2>1, <2>2
<1>5. grpDb'[g] = rec /\ \A x \in SchGroups : x # g => grpDb'[x] = grpDb[x]
  BY <1>0, <1>2 DEF SchTyped
<1> HIDE DEF rec
<1>6. /\ qGrp' \in [Qs -> SchGroups \cup {0}] /\ hwPrio' \in [Qs -> Nat] /\ torn' \subseteq Qs
      /\ \A i \in Qs : i # q => qGrp'[i] = qGrp[i] /\ hwPrio'[i] = hwPrio[i] /\ (i \in torn' <=> i \in torn)
      /\ hwPrio'[q] = g - 1 /\ (full => qGrp'[q] = qGrp[q] /\ q \in torn') /\ (~full => qGrp'[q] = g)
  BY <1>0, <1>1 DEF SchTyped
<1> HIDE DEF full
<1>7. GroupsExact'
  <2>1. \A i \in Qs : qGrp'[i] # 0 => grpDb'[qGrp'[i]].live /\ i \in grpDb'[qGrp'[i]].kids
    <3> SUFFICES ASSUME NEW i \in Qs, qGrp'[i] # 0 PROVE grpDb'[qGrp'[i]].live /\ i \in grpDb'[qGrp'[i]].kids
      OBVIOUS
    <3>1. CASE i = q /\ ~full
      BY <3>1, <1>2, <1>3, <1>5, <1>6
    <3>2. CASE i # q \/ full
      <4>1. qGrp'[i] = qGrp[i] /\ qGrp[i] \in SchGroups /\ grpDb[qGrp[i]].live /\ i \in grpDb[qGrp[i]].kids
        BY <3>2, <1>0, <1>6 DEF SchTyped, GroupsExact
      <4> QED BY <4>1, <1>2, <1>5
    <3> QED BY <3>1, <3>2
  <2>2. \A i \in Qs \ torn' : hwPrio'[i] = IF qGrp'[i] = 0 THEN DefaultPrio ELSE qGrp'[i] - 1
    BY <1>0, <1>6 DEF GroupsExact
  <2>3. \A x \in SchGroups : Cardinality(grpDb'[x].kids) <= MaxChilds
    BY <1>0, <1>4, <1>5 DEF GroupsExact
  <2> QED BY <2>1, <2>2, <2>3 DEF GroupsExact
<1> QED BY <1>1, <1>2, <1>6, <1>7, GroupsStep

(* A queue leaves its group. *)
LEMMA QueueUnsetGroupKeeps ==
  ASSUME SchInv, NEW q \in Qs, QueueUnsetGroup(q)
  PROVE  SchInv'
PROOF
<1> DEFINE g == qGrp[q]
           rec == [live |-> grpDb[g].live, sched |-> grpDb[g].sched, kids |-> grpDb[g].kids \ {q}]
<1>0. SchTyped /\ GroupsExact /\ g \in SchGroups /\ grpDb[g] \in SchGrpRecs
  BY DEF SchInv, SchTyped, QueueUnsetGroup
<1>1. /\ grpDb' = [grpDb EXCEPT ![g].kids = grpDb[g].kids \ {q}]
      /\ qGrp' = [qGrp EXCEPT ![q] = 0] /\ hwPrio' = [hwPrio EXCEPT ![q] = DefaultPrio]
      /\ torn' = torn \ {q}
      /\ UNCHANGED <<schDb, qSch, portSch, hwClass, hwShape>>
  BY DEF QueueUnsetGroup
<1>2. grpDb' = [grpDb EXCEPT ![g] = rec] /\ rec \in SchGrpRecs /\ rec.sched = grpDb[g].sched /\ rec.live = grpDb[g].live
      /\ rec.kids = grpDb[g].kids \ {q} /\ rec.kids \in SUBSET Qs
  <2> DEFINE K == grpDb[g].kids \ {q}
  <2>1. [grpDb[g] EXCEPT !.kids = K] = rec
    BY <1>0, GrpRecChanged
  <2>2. grpDb' = [grpDb EXCEPT ![g] = [grpDb[g] EXCEPT !.kids = K]]
    BY <1>1
  <2>3. rec \in SchGrpRecs
    BY <1>0 DEF SchGrpRecs
  <2>4. K \in SUBSET Qs
    BY <1>0 DEF SchGrpRecs
  <2> QED BY <2>1, <2>2, <2>3, <2>4
<1>3. grpDb'[g] = rec /\ \A x \in SchGroups : x # g => grpDb'[x] = grpDb[x]
  BY <1>0, <1>2 DEF SchTyped
<1> HIDE DEF rec
<1>4. Cardinality(rec.kids) <= MaxChilds
  <2> DEFINE kids == grpDb[g].kids
  <2>1. kids \in SUBSET Qs /\ Cardinality(kids) <= MaxChilds /\ rec.kids = kids \ {q}
    BY <1>0, <1>2 DEF SchGrpRecs, GroupsExact
  <2> HIDE DEF kids
  <2>2. Cardinality(kids) \in Nat /\ MaxChilds \in Nat /\ Cardinality(kids \ {q}) <= Cardinality(kids) /\ IsFiniteSet(kids \ {q})
    BY <2>1, KidsFinite, SchedAssumption
  <2>3. Cardinality(kids \ {q}) \in Nat
    BY <2>2, FS_CardinalityType
  <2> QED BY <2>1, <2>2, <2>3
<1>5. /\ qGrp' \in [Qs -> SchGroups \cup {0}] /\ hwPrio' \in [Qs -> Nat] /\ torn' \subseteq Qs
      /\ \A i \in Qs : i # q => qGrp'[i] = qGrp[i] /\ hwPrio'[i] = hwPrio[i] /\ (i \in torn' <=> i \in torn)
      /\ hwPrio'[q] = DefaultPrio /\ qGrp'[q] = 0
  BY <1>0, <1>1 DEF SchTyped, DefaultPrio
<1>6. GroupsExact'
  <2>1. ASSUME NEW i \in Qs, qGrp'[i] # 0 PROVE grpDb'[qGrp'[i]].live /\ i \in grpDb'[qGrp'[i]].kids
    <3>1. i # q /\ qGrp'[i] = qGrp[i] /\ qGrp[i] \in SchGroups /\ grpDb[qGrp[i]].live /\ i \in grpDb[qGrp[i]].kids
      BY <2>1, <1>0, <1>5 DEF SchTyped, GroupsExact
    <3> HIDE DEF g
    <3> QED BY <3>1, <1>2, <1>3
  <2>2. \A i \in Qs \ torn' : hwPrio'[i] = IF qGrp'[i] = 0 THEN DefaultPrio ELSE qGrp'[i] - 1
    BY <1>0, <1>5 DEF GroupsExact
  <2>3. \A x \in SchGroups : Cardinality(grpDb'[x].kids) <= MaxChilds
    BY <1>0, <1>4, <1>3 DEF GroupsExact
  <2> QED BY <2>1, <2>2, <2>3 DEF GroupsExact
<1> HIDE DEF g
<1> QED BY <1>0, <1>1, <1>2, <1>5, <1>6, GroupsStep

(* Every call of schedulers and groups keeps the invariant. *)
LEMMA SchCallsKeep == SchInv /\ [SchNext]_schVars => SchInv'
PROOF
<1> SUFFICES ASSUME SchInv, [SchNext]_schVars PROVE SchInv'
  OBVIOUS
<1>1. CASE UNCHANGED schVars
  <2>1. UNCHANGED <<schDb, qSch, qGrp, portSch, grpDb, hwClass, hwShape, hwPrio, torn>>
    BY <1>1 DEF schVars
  <2>2. SchTyped' /\ ClassesExact' /\ GroupsExact'
    BY <2>1 DEF SchInv, SchTyped, ClassesExact, GroupsExact
  <2>3. \A k \in Scheds : SchKept(k)'
    BY <2>1 DEF SchInv, SchKept
  <2> QED BY <2>2, <2>3 DEF SchInv
<1>2. ASSUME NEW s \in Scheds, NEW ty \in SchTypes, NEW rate \in BOOLEAN, CreateScheduler(s, ty, rate) PROVE SchInv'
  BY <1>2, SchedulerKeeps
<1>3. ASSUME NEW s \in Scheds, NEW ty \in SchTypes, NEW rate \in BOOLEAN, SetScheduler(s, ty, rate) PROVE SchInv'
  BY <1>3, SetSchedulerKeeps
<1>4. ASSUME NEW s \in Scheds, RemoveScheduler(s) PROVE SchInv'
  BY <1>4, SchedulerKeeps
<1>5. ASSUME NEW q \in Qs, NEW s \in Scheds, QueueSetScheduler(q, s) PROVE SchInv'
  BY <1>5, QueueSetSchedulerKeeps
<1>6. ASSUME NEW q \in Qs, QueueUnsetScheduler(q) PROVE SchInv'
  BY <1>6, QueueUnsetSchedulerKeeps
<1>7. ASSUME NEW q \in Qs, QueueUnsetGroup(q) PROVE SchInv'
  BY <1>7, QueueUnsetGroupKeeps
<1>8. ASSUME NEW s \in Scheds \cup {0}, PortSetScheduler(s) PROVE SchInv'
  BY <1>8, PortSetSchedulerKeeps
<1>9. ASSUME NEW g \in SchGroups, NEW s \in Scheds \cup {0}, GroupSetScheduler(g, s) PROVE SchInv'
  BY <1>9, GroupSetSchedulerKeeps
<1>10. ASSUME NEW q \in Qs, NEW g \in SchGroups, QueueSetGroup(q, g) PROVE SchInv'
  BY <1>10, QueueSetGroupKeeps
<1> QED BY <1>1, <1>2, <1>3, <1>4, <1>5, <1>6, <1>7, <1>8, <1>9, <1>10, GroupKeeps DEF SchNext

-----------------------------------------------------------------------------
(* Policers *)
PolUsers == PolPorts \cup PolEntries \cup {NoUser}
PolRecs == [live : BOOLEAN, mode : PolModes, rate : Nat, at : PolUsers, type : {"MAX", "PORT", "FLOW"}]
PortPolRecs == [live : BOOLEAN, main : Policers \cup {0}, storm : [StormKinds -> Policers \cup {0}]]
PolTyped ==
  /\ polDb \in [Policers -> PolRecs] /\ portPol \in [PolPorts -> PortPolRecs]
  /\ hwPort \in [PolPorts -> Nat] /\ hwFlow \in [Policers \cup PolEntries -> Nat]
(* A policer that has a type is a port's or an entry's, and the chip's flow *)
(* policer follows it unless a later rate went astray. *)
PolicerOk(p) ==
  /\ ~polDb[p].live => polDb[p].at = NoUser /\ polDb[p].type = "MAX"
  /\ polDb[p].type = "PORT" =>
       polDb[p].mode = "TCM" /\ polDb[p].at \in PolPorts /\ portPol[polDb[p].at].main = p
  /\ polDb[p].type = "FLOW" => polDb[p].mode = "TCM" /\ polDb[p].at \in PolEntries
  /\ p \notin astray => hwFlow[p] = IF polDb[p].type = "FLOW" THEN polDb[p].rate ELSE 0
(* A port that is not there names none; the policer of one serves that port *)
(* and the chip has its rate. *)
PortPolOk(g) ==
  /\ hwPort[g] = IF portPol[g].main = 0 THEN 0 ELSE polDb[portPol[g].main].rate
  /\ portPol[g].main # 0 => /\ polDb[portPol[g].main].live /\ polDb[portPol[g].main].at = g
                            /\ polDb[portPol[g].main].type = "PORT"
  /\ ~portPol[g].live => portPol[g].main = 0 /\ \A k \in StormKinds : portPol[g].storm[k] = 0
(* A storm policer that is named exists and is of that port alone; the chip *)
(* has its rate, unless it was taken off through another kind. *)
StormOk(st, g, k) ==
  LET p == st.port[g].storm[k]
  IN /\ p # 0 => /\ st.pol[p].live /\ st.pol[p].mode = "STORM" /\ st.pol[p].at \in {g, NoUser}
                 /\ \A h \in PolPorts, j \in StormKinds : st.port[h].storm[j] = p => h = g
     /\ <<g, k>> \notin st.orph =>
          IF p = 0 THEN st.hw[g][k] = 0 ELSE st.pol[p].at = g /\ st.hw[g][k] = st.pol[p].rate
StormTyped(st) ==
  /\ st.pol \in [Policers -> PolRecs] /\ st.port \in [PolPorts -> PortPolRecs]
  /\ st.hw \in [PolPorts -> [StormKinds -> Nat]]
StormsOk(st) == StormTyped(st) /\ \A g \in PolPorts, k \in StormKinds : StormOk(st, g, k)
PolInv ==
  /\ PolTyped
  /\ \A p \in Policers : PolicerOk(p)
  /\ \A g \in PolPorts : PortPolOk(g)
  /\ StormsOk(StormState)

(* What the invariant says of policers. *)
LEMMA PolGives == PolInv => PolicersExact
PROOF
<1> SUFFICES ASSUME PolInv PROVE PolicersExact
  OBVIOUS
<1>1. StormExact
  <2> SUFFICES ASSUME NEW g \in PolPorts, NEW k \in StormKinds, <<g, k>> \notin orphan
      PROVE  IF portPol[g].storm[k] = 0 THEN hwStorm[g][k] = 0
             ELSE /\ polDb[portPol[g].storm[k]].live /\ polDb[portPol[g].storm[k]].at = g
                  /\ hwStorm[g][k] = polDb[portPol[g].storm[k]].rate
    BY DEF StormExact
  <2>1. StormOk(StormState, g, k)
    BY DEF PolInv, StormsOk
  <2> QED BY <2>1 DEF StormOk, StormState
<1>2. PortPolicersExact
  BY DEF PolInv, PortPolicersExact, PortPolOk
<1>3. FlowExact
  BY DEF PolInv, FlowExact, PolicerOk
<1> QED BY <1>1, <1>2, <1>3 DEF PolicersExact

(* It holds before the first call. *)
LEMMA PolInitially == PolInit => PolInv
PROOF
<1> SUFFICES ASSUME PolInit PROVE PolInv
  OBVIOUS
<1>1. NoPol \in PolRecs /\ FreshPortPol \in PortPolRecs
  BY DEF NoPol, FreshPortPol, PolRecs, PortPolRecs, PolUsers, PolModes
<1>2. PolTyped
  BY <1>1 DEF PolInit, PolTyped
<1>3. StormsOk(StormState)
  <2>1. StormTyped(StormState)
    BY <1>1 DEF PolInit, StormTyped, StormState
  <2>2. \A g \in PolPorts, k \in StormKinds : StormOk(StormState, g, k)
    BY DEF PolInit, StormOk, StormState, FreshPortPol
  <2> QED BY <2>1, <2>2 DEF StormsOk
<1>4. \A p \in Policers : PolicerOk(p)
  BY DEF PolInit, PolicerOk, NoPol
<1>5. \A g \in PolPorts : PortPolOk(g)
  BY DEF PolInit, PortPolOk, FreshPortPol
<1> QED BY <1>2, <1>3, <1>4, <1>5 DEF PolInv

-----------------------------------------------------------------------------
(* A call that leaves the storm policers alone keeps the storm controls. *)
LEMMA StormFrame ==
  ASSUME NEW a, NEW b, StormsOk(a), StormTyped(b), b.hw = a.hw, b.orph = a.orph,
         \A g \in PolPorts, k \in StormKinds :
           /\ b.port[g].storm[k] = a.port[g].storm[k]
           /\ a.port[g].storm[k] # 0 => /\ b.pol[a.port[g].storm[k]] = a.pol[a.port[g].storm[k]]
  PROVE  StormsOk(b)
PROOF
<1> SUFFICES ASSUME NEW g \in PolPorts, NEW k \in StormKinds PROVE StormOk(b, g, k)
  BY DEF StormsOk
<1>1. StormOk(a, g, k)
  BY DEF StormsOk
<1> DEFINE p == a.port[g].storm[k]
<1>2. /\ p # 0 => /\ a.pol[p].live /\ a.pol[p].mode = "STORM" /\ a.pol[p].at \in {g, NoUser}
                  /\ \A h \in PolPorts, j \in StormKinds : a.port[h].storm[j] = p => h = g
      /\ <<g, k>> \notin a.orph => IF p = 0 THEN a.hw[g][k] = 0 ELSE a.pol[p].at = g /\ a.hw[g][k] = a.pol[p].rate
  BY <1>1 DEF StormOk
<1>3. b.port[g].storm[k] = p /\ (p # 0 => b.pol[p] = a.pol[p])
  OBVIOUS
<1>4. p # 0 => \A h \in PolPorts, j \in StormKinds : b.port[h].storm[j] = p => h = g
  BY <1>2
<1> HIDE DEF p
<1> QED BY <1>2, <1>3, <1>4 DEF StormOk

(* What taking storm controls off a port leaves: the kinds K of port g name *)
(* none, and no policer changed but for the user of storm policers. *)
StormsOff(a, b, g, K) ==
  /\ StormsOk(b)
  /\ \A p \in Policers :
       /\ b.pol[p].live = a.pol[p].live /\ b.pol[p].mode = a.pol[p].mode
       /\ b.pol[p].rate = a.pol[p].rate /\ b.pol[p].type = a.pol[p].type
       /\ a.pol[p].mode # "STORM" => b.pol[p].at = a.pol[p].at
       /\ b.pol[p].at \in {a.pol[p].at, NoUser}
  /\ \A h \in PolPorts :
       /\ b.port[h].live = a.port[h].live /\ b.port[h].main = a.port[h].main
       /\ \A j \in StormKinds : b.port[h].storm[j] = IF h = g /\ j \in K THEN 0 ELSE a.port[h].storm[j]

(* One kind is taken off. *)
LEMMA OffOne ==
  ASSUME NEW st, StormsOk(st), NEW g \in PolPorts, NEW k \in StormKinds
  PROVE  StormsOff(st, StormOff(st, g, k), g, {k})
PROOF
<1> DEFINE p == st.port[g].storm[k]
           kept == st.pol[p].at = NoUser
           share == {j \in StormKinds \ {k} : st.port[g].storm[j] = p}
           pol2 == [st.pol EXCEPT ![p].at = NoUser]
           port2 == [st.port EXCEPT ![g].storm[k] = 0]
           hw2 == IF kept THEN st.hw ELSE [st.hw EXCEPT ![g][k] = 0]
           orph2 == IF kept THEN st.orph ELSE (st.orph \ {<<g, k>>}) \cup {<<g, j>> : j \in share}
<1>0. StormTyped(st) /\ StormOk(st, g, k)
  BY DEF StormsOk
<1>1. CASE p = 0
  <2>1. StormOff(st, g, k) = st
    BY <1>1 DEF StormOff
  <2> QED BY <2>1, <1>1 DEF StormsOff
<1>2. CASE p # 0
  <2>0. p \in Policers /\ st.pol[p] \in PolRecs /\ NoUser \in PolUsers
    BY <1>0, <1>2 DEF StormTyped, PortPolRecs, PolUsers
  <2>1. /\ st.pol[p].live /\ st.pol[p].mode = "STORM" /\ (kept \/ st.pol[p].at = g)
        /\ \A h \in PolPorts, j \in StormKinds : st.port[h].storm[j] = p => h = g
    BY <1>0, <1>2 DEF StormOk
  <2>2. StormOff(st, g, k) = [pol |-> pol2, port |-> port2, hw |-> hw2, orph |-> orph2]
    BY <1>2, <2>1 DEF StormOff
  <2> DEFINE r == StormOff(st, g, k)
  <2>3. r.pol = pol2 /\ r.port = port2 /\ r.hw = hw2 /\ r.orph = orph2
    BY <2>2, SMTT(30)
  <2> HIDE DEF r
  <2>4. /\ pol2 \in [Policers -> PolRecs] /\ pol2[p].live = st.pol[p].live /\ pol2[p].mode = st.pol[p].mode
        /\ pol2[p].rate = st.pol[p].rate /\ pol2[p].type = st.pol[p].type /\ pol2[p].at = NoUser
        /\ \A x \in Policers : x # p => pol2[x] = st.pol[x]
    BY <2>0, <1>0 DEF StormTyped, PolRecs
  <2>5. /\ port2 \in [PolPorts -> PortPolRecs]
        /\ \A h \in PolPorts :
             /\ port2[h].live = st.port[h].live /\ port2[h].main = st.port[h].main
             /\ \A j \in StormKinds : port2[h].storm[j] = IF h = g /\ j \in {k} THEN 0 ELSE st.port[h].storm[j]
    BY <1>0 DEF StormTyped, PortPolRecs
  <2>6. /\ hw2 \in [PolPorts -> [StormKinds -> Nat]]
        /\ \A h \in PolPorts, j \in StormKinds :
             hw2[h][j] = IF h = g /\ j = k /\ ~kept THEN 0 ELSE st.hw[h][j]
    BY <1>0 DEF StormTyped
  <2>7. \A h \in PolPorts, j \in StormKinds :
          <<h, j>> \in orph2 <=> IF kept THEN <<h, j>> \in st.orph
                                 ELSE (<<h, j>> \in st.orph /\ <<h, j>> # <<g, k>>) \/ (h = g /\ j \in share)
    OBVIOUS
  <2> HIDE DEF pol2, port2, hw2, orph2
  <2>8. ASSUME NEW h \in PolPorts, NEW j \in StormKinds PROVE StormOk(r, h, j)
    <3> DEFINE q == st.port[h].storm[j]
    <3>1. StormOk(st, h, j) /\ (q # 0 => q \in Policers)
      BY <1>0 DEF StormsOk, StormTyped, PortPolRecs
    <3>2. CASE h = g /\ j = k
      <4>1. r.port[h].storm[j] = 0
        BY <2>3, <2>5, <3>2
      <4>2. kept => <<h, j>> \in st.orph
        BY <1>0, <1>2, <3>2, PolicingAssumption DEF StormOk
      <4>3. <<h, j>> \notin r.orph => r.hw[h][j] = 0
        BY <2>3, <2>6, <2>7, <3>2, <4>2
      <4> QED BY <4>1, <4>3 DEF StormOk
    <3>3. CASE ~(h = g /\ j = k)
      <4>1. r.port[h].storm[j] = q /\ r.hw[h][j] = st.hw[h][j]
        BY <2>3, <2>5, <2>6, <3>3
      <4>2. CASE q = p
        <5>1. h = g /\ j \in share
          BY <2>1, <3>3, <4>2
        <5>2. kept => <<h, j>> \in st.orph
          BY <3>1, <4>2, <1>2, <5>1, PolicingAssumption DEF StormOk
        <5>3. <<h, j>> \in r.orph
          BY <2>3, <2>7, <5>1, <5>2
        <5>4. \A h2 \in PolPorts, j2 \in StormKinds : r.port[h2].storm[j2] = q => h2 = h
          BY <1>2, <2>1, <2>3, <2>5, <4>2, <5>1
        <5>5. r.pol[q].live /\ r.pol[q].mode = "STORM" /\ r.pol[q].at = NoUser
          BY <2>1, <2>3, <2>4, <4>2
        <5> QED BY <4>1, <5>3, <5>4, <5>5 DEF StormOk
      <4>3. CASE q # p
        <5>1. <<h, j>> \notin r.orph => <<h, j>> \notin st.orph
          BY <2>3, <2>7, <3>3
        <5>2. q # 0 => r.pol[q] = st.pol[q]
          BY <2>3, <2>4, <3>1, <4>3
        <5>3. q # 0 => \A h2 \in PolPorts, j2 \in StormKinds : r.port[h2].storm[j2] = q => h2 = h
          BY <2>3, <2>5, <3>1 DEF StormOk
        <5> QED BY <3>1, <4>1, <5>1, <5>2, <5>3 DEF StormOk
      <4> QED BY <4>2, <4>3
    <3> QED BY <3>2, <3>3
  <2>9. StormsOk(r)
    BY <2>3, <2>4, <2>5, <2>6, <2>8 DEF StormsOk, StormTyped
  <2>10. StormsOff(st, r, g, {k})
    <3>1. \A x \in Policers :
            /\ r.pol[x].live = st.pol[x].live /\ r.pol[x].mode = st.pol[x].mode
            /\ r.pol[x].rate = st.pol[x].rate /\ r.pol[x].type = st.pol[x].type
            /\ st.pol[x].mode # "STORM" => r.pol[x].at = st.pol[x].at
            /\ r.pol[x].at \in {st.pol[x].at, NoUser}
      BY <2>1, <2>3, <2>4
    <3> QED BY <2>9, <3>1, <2>3, <2>5 DEF StormsOff
  <2> QED BY <2>10 DEF r
<1> QED BY <1>1, <1>2

(* One kind after another. *)
LEMMA OffMore ==
  ASSUME NEW a, NEW b, NEW c, NEW g \in PolPorts, NEW K, NEW L, StormsOff(a, b, g, K), StormsOff(b, c, g, L)
  PROVE  StormsOff(a, c, g, K \cup L)
BY DEF StormsOff

(* All of them. *)
LEMMA OffAll ==
  ASSUME NEW st, StormsOk(st), NEW g \in PolPorts
  PROVE  StormsOff(st, AllStormOff(st, g), g, StormKinds)
PROOF
<1> DEFINE step(s, k) == IF k \in StormKinds THEN StormOff(s, g, k) ELSE s
           one == step(st, "flood")
           two == step(one, "bcast")
           three == step(two, "mcast")
<1>1. ASSUME NEW s, StormsOk(s), NEW k PROVE StormsOff(s, step(s, k), g, {k}) /\ StormsOk(step(s, k))
  <2>1. CASE k \in StormKinds
    BY <1>1, <2>1, OffOne DEF StormsOff
  <2>2. CASE k \notin StormKinds
    BY <1>1, <2>2 DEF StormsOff
  <2> QED BY <2>1, <2>2
<1>2. AllStormOff(st, g) = three
  BY DEF AllStormOff
<1> HIDE DEF step
<1>3. StormsOff(st, one, g, {"flood"}) /\ StormsOk(one)
  BY <1>1
<1> HIDE DEF one
<1>4. StormsOff(one, two, g, {"bcast"}) /\ StormsOk(two)
  BY <1>1, <1>3
<1> HIDE DEF two
<1>5. StormsOff(two, three, g, {"mcast"})
  BY <1>1, <1>4
<1> HIDE DEF three
<1>6. StormsOff(st, two, g, {"flood"} \cup {"bcast"})
  BY <1>3, <1>4, OffMore
<1>7. StormsOff(st, three, g, ({"flood"} \cup {"bcast"}) \cup {"mcast"})
  BY <1>5, <1>6, OffMore
<1>8. \A j \in StormKinds : j \in ({"flood"} \cup {"bcast"}) \cup {"mcast"}
  BY PolicingAssumption
<1> QED BY <1>2, <1>7, <1>8 DEF StormsOff

-----------------------------------------------------------------------------
(* A policer gets a user and a type; without them it is detached. *)
UserIs(db, new, p, u, t) ==
  /\ new \in [Policers -> PolRecs] /\ \A x \in Policers : x # p => new[x] = db[x]
  /\ new[p].live = db[p].live /\ new[p].mode = db[p].mode /\ new[p].rate = db[p].rate
  /\ new[p].at = u /\ new[p].type = t

(* The record of one policer with its user and type replaced. *)
LEMMA UserChanged ==
  ASSUME NEW db \in [Policers -> PolRecs], NEW p \in Policers, NEW u \in PolUsers, NEW t \in {"MAX", "PORT", "FLOW"}
  PROVE  UserIs(db, [db EXCEPT ![p].at = u, ![p].type = t], p, u, t)
BY DEF UserIs, PolRecs
(* It loses them. *)
LEMMA DetachedFact ==
  ASSUME NEW db \in [Policers -> PolRecs], NEW p \in Policers
  PROVE  UserIs(db, Detached(db, p), p, NoUser, "MAX")
PROOF
<1>1. NoUser \in PolUsers /\ "MAX" \in {"MAX", "PORT", "FLOW"}
  BY DEF PolUsers
<1> QED BY <1>1, UserChanged DEF Detached

(* The state of the storm controls, before and after a call. *)
LEMMA StormFields ==
  /\ StormState.pol = polDb /\ StormState.port = portPol /\ StormState.hw = hwStorm /\ StormState.orph = orphan
  /\ StormState'.pol = polDb' /\ StormState'.port = portPol' /\ StormState'.hw = hwStorm' /\ StormState'.orph = orphan'
BY DEF StormState

(* What the invariant says of the policer a port names. *)
LEMMA NamedPolicer ==
  ASSUME PolInv, NEW g \in PolPorts
  PROVE  /\ portPol[g] \in PortPolRecs
         /\ portPol[g].main # 0 =>
              /\ portPol[g].main \in Policers /\ polDb[portPol[g].main].live
              /\ polDb[portPol[g].main].type = "PORT" /\ polDb[portPol[g].main].mode = "TCM"
              /\ polDb[portPol[g].main].at = g
         /\ \A k \in StormKinds : portPol[g].storm[k] # 0 =>
              /\ portPol[g].storm[k] \in Policers /\ polDb[portPol[g].storm[k]].live
              /\ polDb[portPol[g].storm[k]].mode = "STORM" /\ polDb[portPol[g].storm[k]].type = "MAX"
PROOF
<1>1. portPol[g] \in PortPolRecs
  BY DEF PolInv, PolTyped
<1>2. portPol[g].main # 0 =>
              /\ portPol[g].main \in Policers /\ polDb[portPol[g].main].live
              /\ polDb[portPol[g].main].type = "PORT" /\ polDb[portPol[g].main].at = g
  BY <1>1 DEF PolInv, PortPolOk, PortPolRecs
<1>3. portPol[g].main # 0 => polDb[portPol[g].main].mode = "TCM"
  BY <1>2 DEF PolInv, PolicerOk
<1>4. ASSUME NEW k \in StormKinds, portPol[g].storm[k] # 0
      PROVE  /\ portPol[g].storm[k] \in Policers /\ polDb[portPol[g].storm[k]].live
             /\ polDb[portPol[g].storm[k]].mode = "STORM" /\ polDb[portPol[g].storm[k]].type = "MAX"
  <2>1. StormOk(StormState, g, k)
    BY DEF PolInv, StormsOk
  <2>2. portPol[g].storm[k] \in Policers
    BY <1>1, <1>4 DEF PortPolRecs
  <2>3. polDb[portPol[g].storm[k]].live /\ polDb[portPol[g].storm[k]].mode = "STORM"
    BY <1>4, <2>1, StormFields DEF StormOk
  <2>4. polDb[portPol[g].storm[k]] \in PolRecs /\ PolicerOk(portPol[g].storm[k])
    BY <2>2 DEF PolInv, PolTyped
  <2>5. polDb[portPol[g].storm[k]].type = "MAX"
    BY <2>3, <2>4 DEF PolRecs, PolicerOk
  <2> QED BY <2>2, <2>3, <2>5
<1> QED BY <1>1, <1>2, <1>3, <1>4

(* A policer no one has is created or removed. *)
LEMMA PolicerKeeps ==
  ASSUME PolInv, NEW p \in Policers,
         (\E mode \in PolModes, r \in Rates : CreatePolicer(p, mode, r)) \/ RemovePolicer(p)
  PROVE  PolInv'
PROOF
<1>1. PICK rec \in PolRecs : polDb' = [polDb EXCEPT ![p] = rec] /\ rec.at = NoUser /\ rec.type = "MAX"
  <2>1. NoPol \in PolRecs /\ NoPol.at = NoUser /\ NoPol.type = "MAX"
    BY DEF NoPol, PolRecs, PolUsers, PolModes
  <2>2. ASSUME NEW mode \in PolModes, NEW r \in Rates
        PROVE  LET n == [NoPol EXCEPT !.live = TRUE, !.mode = mode, !.rate = r]
               IN n \in PolRecs /\ n.at = NoUser /\ n.type = "MAX"
    BY PolicingAssumption DEF NoPol, PolRecs, PolUsers
  <2> QED BY <2>1, <2>2, ZenonT(30) DEF CreatePolicer, RemovePolicer
<1>2. UNCHANGED <<portPol, hwStorm, hwPort, hwFlow, orphan, astray>>
  BY DEF CreatePolicer, RemovePolicer
<1>3. polDb[p].at = NoUser /\ polDb[p].type = "MAX"
  BY DEF CreatePolicer, RemovePolicer, PolInv, PolicerOk
<1>4. \A g \in PolPorts : portPol[g].main # p /\ \A k \in StormKinds : portPol[g].storm[k] # p
  <2>1. p # 0
    BY PolicingAssumption
  <2>2. polDb[p].live => \A g \in PolPorts : ~Names(g, p)
    BY DEF CreatePolicer, RemovePolicer
  <2> QED BY <2>1, <2>2, <1>3, NamedPolicer DEF Names
<1>5. PolTyped /\ PolTyped'
  BY <1>1, <1>2 DEF PolInv, PolTyped
<1>6. polDb'[p] = rec /\ \A x \in Policers : x # p => polDb'[x] = polDb[x]
  BY <1>1, <1>5 DEF PolTyped
<1>7. \A x \in Policers : PolicerOk(x)'
  BY <1>1, <1>2, <1>3, <1>6 DEF PolInv, PolicerOk
<1>8. ASSUME NEW g \in PolPorts PROVE PortPolOk(g)'
  <2>1. portPol[g].main # 0 => polDb'[portPol[g].main] = polDb[portPol[g].main]
    BY <1>4, <1>6, NamedPolicer
  <2> QED BY <2>1, <1>2 DEF PolInv, PortPolOk
<1>9. StormsOk(StormState')
  <2>1. StormsOk(StormState)
    BY DEF PolInv
  <2>2. StormTyped(StormState')
    BY <2>1, <1>2, <1>5, StormFields DEF StormsOk, StormTyped, PolTyped
  <2>3. \A g \in PolPorts, k \in StormKinds : portPol[g].storm[k] # 0 => polDb'[portPol[g].storm[k]] = polDb[portPol[g].storm[k]]
    BY <1>4, <1>6, NamedPolicer
  <2> QED BY <2>1, <2>2, <2>3, <1>2, StormFields, StormFrame
<1>10. StormsOk(StormState)'
  BY <1>9 DEF StormsOk, StormTyped, StormOk, StormState
<1> QED BY <1>5, <1>7, <1>8, <1>10 DEF PolInv

(* A policer gets another rate, and its user with it. *)
LEMMA SetPolicerKeeps ==
  ASSUME PolInv, NEW p \in Policers, NEW r \in Rates, SetPolicer(p, r)
  PROVE  PolInv'
PROOF
<1> DEFINE g == polDb[p].at
           mode == polDb[p].mode
           type == polDb[p].type
<1>0. /\ PolTyped /\ PolicerOk(p) /\ p # 0 /\ r \in Nat /\ polDb[p] \in PolRecs
      /\ \A h \in PolPorts : portPol[h] \in PortPolRecs
  BY PolicingAssumption DEF PolInv, PolTyped
<1>1. /\ polDb' = [polDb EXCEPT ![p].rate = r]
      /\ hwPort' = IF mode = "TCM" /\ type = "PORT" THEN [hwPort EXCEPT ![g] = r] ELSE hwPort
      /\ mode = "TCM" /\ type = "FLOW" =>
           /\ hwFlow' = [hwFlow EXCEPT ![g] = r]
           /\ astray' = IF g = p THEN astray ELSE astray \cup {g, p}
      /\ ~(mode = "TCM" /\ type = "FLOW") => UNCHANGED <<hwFlow, astray>>
      /\ UNCHANGED <<portPol, orphan>>
  BY DEF SetPolicer
<1>2. /\ polDb' \in [Policers -> PolRecs] /\ \A x \in Policers : x # p => polDb'[x] = polDb[x]
      /\ polDb'[p].live = polDb[p].live /\ polDb'[p].mode = mode /\ polDb'[p].at = g /\ polDb'[p].type = type
      /\ polDb'[p].rate = r
  BY <1>0, <1>1 DEF PolTyped, PolRecs
<1>3. type = "PORT" => mode = "TCM" /\ g \in PolPorts /\ portPol[g].main = p
  BY <1>0 DEF PolicerOk
<1>4. type = "FLOW" => mode = "TCM" /\ g \in PolEntries
  BY <1>0 DEF PolicerOk
<1>5. hwPort' \in [PolPorts -> Nat] /\ \A h \in PolPorts : hwPort'[h] = IF type = "PORT" /\ h = g THEN r ELSE hwPort[h]
  BY <1>0, <1>1, <1>3 DEF PolTyped
<1>6. /\ hwFlow' \in [Policers \cup PolEntries -> Nat]
      /\ type # "FLOW" => hwFlow' = hwFlow /\ astray' = astray
      /\ type = "FLOW" => /\ \A x \in Policers : hwFlow'[x] = IF x = g THEN r ELSE hwFlow[x]
                          /\ astray' = IF g = p THEN astray ELSE astray \cup {g, p}
  BY <1>0, <1>1, <1>4 DEF PolTyped
<1>7. hwStorm' = IF mode = "STORM" /\ g \in PolPorts /\ portPol[g].live
                   THEN [hwStorm EXCEPT ![g] = [k \in StormKinds |->
                           IF portPol[g].storm[k] = p THEN r ELSE hwStorm[g][k]]]
                   ELSE hwStorm
  BY DEF SetPolicer
<1>8. hwStorm \in [PolPorts -> [StormKinds -> Nat]]
  BY StormFields DEF PolInv, StormsOk, StormTyped
<1>9. /\ hwStorm' \in [PolPorts -> [StormKinds -> Nat]]
      /\ \A h \in PolPorts, k \in StormKinds :
           hwStorm'[h][k] = IF mode = "STORM" /\ h = g /\ portPol[g].live /\ portPol[g].storm[k] = p THEN r ELSE hwStorm[h][k]
  <2>1. CASE mode = "STORM" /\ g \in PolPorts /\ portPol[g].live
    <3> DEFINE row == [k \in StormKinds |-> IF portPol[g].storm[k] = p THEN r ELSE hwStorm[g][k]]
    <3>1. row \in [StormKinds -> Nat] /\ \A k \in StormKinds : row[k] = IF portPol[g].storm[k] = p THEN r ELSE hwStorm[g][k]
      BY <1>0, <1>8, <2>1
    <3>2. hwStorm' = [hwStorm EXCEPT ![g] = row]
      BY <1>7, <2>1
    <3> HIDE DEF row
    <3> QED BY <1>8, <2>1, <3>1, <3>2
  <2>2. CASE ~(mode = "STORM" /\ g \in PolPorts /\ portPol[g].live)
    BY <1>7, <1>8, <2>2
  <2> QED BY <2>1, <2>2
<1> HIDE DEF g, mode, type
<1>10. PolTyped'
  BY <1>0, <1>1, <1>2, <1>5, <1>6 DEF PolTyped
<1>11. ASSUME NEW x \in Policers PROVE PolicerOk(x)'
  <2>1. PolicerOk(x) /\ portPol' = portPol
    BY <1>1 DEF PolInv
  <2>2. CASE x = p
    BY <2>1, <2>2, <1>2, <1>6 DEF PolicerOk, g, mode, type
  <2>3. CASE x # p
    BY <2>1, <2>3, <1>2, <1>6 DEF PolicerOk
  <2> QED BY <2>2, <2>3
<1>12. ASSUME NEW h \in PolPorts PROVE PortPolOk(h)'
  <2> DEFINE m == portPol[h].main
  <2>1. PortPolOk(h) /\ portPol' = portPol /\ (m # 0 => m \in Policers /\ polDb[m].type = "PORT" /\ polDb[m].at = h)
    BY <1>1, NamedPolicer DEF PolInv
  <2>2. CASE m = p
    BY <2>1, <2>2, <1>0, <1>2, <1>5 DEF PortPolOk, g, type
  <2>3. CASE m # p
    <3>1. hwPort'[h] = hwPort[h]
      BY <2>3, <1>3, <1>5
    <3>2. m # 0 => polDb'[m] = polDb[m]
      BY <2>1, <2>3, <1>2
    <3> QED BY <2>1, <3>1, <3>2 DEF PortPolOk
  <2> QED BY <2>2, <2>3
<1>13. ASSUME NEW h \in PolPorts, NEW k \in StormKinds PROVE StormOk(StormState, h, k)'
  <2> DEFINE q == portPol[h].storm[k]
  <2>1. /\ q # 0 => /\ polDb[q].live /\ polDb[q].mode = "STORM" /\ polDb[q].at \in {h, NoUser}
                    /\ \A i \in PolPorts, j \in StormKinds : portPol[i].storm[j] = q => i = h
        /\ <<h, k>> \notin orphan => IF q = 0 THEN hwStorm[h][k] = 0 ELSE polDb[q].at = h /\ hwStorm[h][k] = polDb[q].rate
    <3>1. StormOk(StormState, h, k)
      BY DEF PolInv, StormsOk
    <3> QED BY <3>1, StormFields DEF StormOk
  <2>2. q # 0 => q \in Policers /\ portPol[h].live
    BY <1>0 DEF PortPolRecs, PolInv, PortPolOk
  <2>3. q # 0 => /\ polDb'[q].live /\ polDb'[q].mode = "STORM" /\ polDb'[q].at = polDb[q].at
                 /\ polDb'[q].rate = IF q = p THEN r ELSE polDb[q].rate
    BY <2>1, <2>2, <1>2 DEF g, mode
  <2>4. hwStorm'[h][k] = IF mode = "STORM" /\ h = g /\ q = p /\ portPol[h].live THEN r ELSE hwStorm[h][k]
    BY <1>9
  <2>5. q = p /\ <<h, k>> \notin orphan => hwStorm'[h][k] = r
    BY <2>1, <2>2, <2>4, <1>0 DEF g, mode
  <2>6. q # p => hwStorm'[h][k] = hwStorm[h][k]
    BY <2>4
  <2>7. portPol' = portPol /\ orphan' = orphan
    BY <1>1
  <2>8. StormOk([pol |-> polDb', port |-> portPol', hw |-> hwStorm', orph |-> orphan'], h, k)
    BY <2>1, <2>3, <2>5, <2>6, <2>7, <1>0 DEF StormOk
  <2> QED BY <2>8 DEF StormState, StormOk
<1>14. StormTyped(StormState)'
  BY <1>0, <1>1, <1>2, <1>9 DEF StormTyped, StormState, PolTyped
<1> QED BY <1>10, <1>11, <1>12, <1>13, <1>14 DEF PolInv, StormsOk

(* A storm control of a port gets a policer. *)
LEMMA SetStormKeeps ==
  ASSUME PolInv, NEW g \in PolPorts, NEW k \in StormKinds, NEW p \in Policers, SetStorm(g, k, p)
  PROVE  PolInv'
PROOF
<1> DEFINE old == portPol[g].storm[k]
           set == [polDb EXCEPT ![p].at = g]
           gone == MustRevert(g, k, p, old) /\ polDb[old].live
<1>0. /\ PolTyped /\ StormTyped(StormState) /\ p # 0 /\ NoUser \notin PolPorts /\ hwStorm \in [PolPorts -> [StormKinds -> Nat]]
      /\ portPol[g] \in PortPolRecs /\ polDb[p] \in PolRecs /\ polDb[p].rate \in Nat
  BY PolicingAssumption, StormFields DEF PolInv, PolTyped, StormsOk, StormTyped, PolRecs
<1>1. /\ portPol[g].live /\ polDb[p].live /\ polDb[p].mode = "STORM" /\ polDb[p].at \in {g, NoUser}
      /\ \A h \in PolPorts \ {g} : ~Names(h, p)
      /\ portPol' = [portPol EXCEPT ![g].storm[k] = p]
      /\ hwStorm' = [hwStorm EXCEPT ![g][k] = polDb[p].rate]
      /\ polDb' = IF gone THEN Detached(set, old) ELSE set
      /\ orphan' = orphan \ {<<g, k>>}
      /\ UNCHANGED <<hwPort, hwFlow, astray>>
  BY DEF SetStorm, CanStorm
<1>2. polDb[p].type = "MAX"
  BY <1>0, <1>1 DEF PolInv, PolicerOk, PolRecs
<1>3. /\ set \in [Policers -> PolRecs] /\ \A x \in Policers : x # p => set[x] = polDb[x]
      /\ set[p].live = polDb[p].live /\ set[p].mode = polDb[p].mode /\ set[p].rate = polDb[p].rate
      /\ set[p].type = polDb[p].type /\ set[p].at = g
  <2>1. g \in PolUsers
    BY DEF PolUsers
  <2> QED BY <2>1, <1>0 DEF PolTyped, PolRecs
<1>4. gone => /\ old \in Policers /\ old # p /\ polDb[old].mode = "STORM" /\ polDb[old].type = "MAX"
              /\ \A h \in PolPorts, j \in StormKinds : portPol[h].storm[j] = old => h = g /\ j = k
  <2> SUFFICES ASSUME gone
      PROVE  /\ old \in Policers /\ old # p /\ polDb[old].mode = "STORM" /\ polDb[old].type = "MAX"
             /\ \A h \in PolPorts, j \in StormKinds : portPol[h].storm[j] = old => h = g /\ j = k
    OBVIOUS
  <2>1. old # 0 /\ old # p /\ Sharing(g, k, old) = {}
    BY DEF MustRevert
  <2>2. StormOk(StormState, g, k)
    BY DEF PolInv, StormsOk
  <2>3. \A h \in PolPorts, j \in StormKinds : portPol[h].storm[j] = old => h = g
    BY <2>1, <2>2, StormFields DEF StormOk
  <2>4. \A j \in StormKinds : portPol[g].storm[j] = old => j = k
    BY <2>1 DEF Sharing
  <2>5. old \in Policers /\ polDb[old].mode = "STORM" /\ polDb[old].type = "MAX"
    BY <2>1, NamedPolicer
  <2> QED BY <2>1, <2>3, <2>4, <2>5
<1> HIDE DEF set
<1>5. /\ polDb' \in [Policers -> PolRecs]
      /\ \A x \in Policers :
           /\ polDb'[x].live = polDb[x].live /\ polDb'[x].mode = polDb[x].mode
           /\ polDb'[x].rate = polDb[x].rate /\ polDb'[x].type = polDb[x].type
           /\ polDb'[x].at = IF x = p THEN g ELSE IF gone /\ x = old THEN NoUser ELSE polDb[x].at
  <2>1. CASE gone
    <3>1. polDb' = Detached(set, old) /\ old \in Policers
      BY <1>1, <1>4, <2>1
    <3> HIDE DEF old, gone
    <3>2. /\ polDb' \in [Policers -> PolRecs] /\ \A x \in Policers : x # old => polDb'[x] = set[x]
          /\ polDb'[old].live = set[old].live /\ polDb'[old].mode = set[old].mode
          /\ polDb'[old].rate = set[old].rate /\ polDb'[old].at = NoUser /\ polDb'[old].type = "MAX"
      BY <1>3, <3>1, DetachedFact DEF UserIs
    <3> QED BY <1>3, <1>4, <2>1, <3>2
  <2>2. CASE ~gone
    BY <1>1, <1>3, <2>2
  <2> QED BY <2>1, <2>2
<1>6. /\ portPol' \in [PolPorts -> PortPolRecs]
      /\ \A h \in PolPorts : /\ portPol'[h].live = portPol[h].live /\ portPol'[h].main = portPol[h].main
                             /\ \A j \in StormKinds : portPol'[h].storm[j] = IF h = g /\ j = k THEN p ELSE portPol[h].storm[j]
  BY <1>0, <1>1 DEF PolTyped, PortPolRecs
<1>7. /\ hwStorm' \in [PolPorts -> [StormKinds -> Nat]]
      /\ \A h \in PolPorts, j \in StormKinds : hwStorm'[h][j] = IF h = g /\ j = k THEN polDb[p].rate ELSE hwStorm[h][j]
  BY <1>0, <1>1
<1> HIDE DEF gone
<1>8. ASSUME NEW x \in Policers PROVE PolicerOk(x)'
  <2>1. PolicerOk(x) /\ hwFlow' = hwFlow /\ astray' = astray
    BY <1>1 DEF PolInv
  <2>2. polDb[x].type \in {"PORT", "FLOW"} \/ ~polDb[x].live => polDb'[x].at = polDb[x].at
    BY <1>1, <1>2, <1>4, <1>5, <2>1 DEF PolicerOk
  <2> QED BY <2>1, <2>2, <1>5, <1>6 DEF PolicerOk
<1>9. ASSUME NEW h \in PolPorts PROVE PortPolOk(h)'
  <2> DEFINE m == portPol[h].main
  <2>1. PortPolOk(h) /\ hwPort' = hwPort /\ (m # 0 => m \in Policers /\ polDb[m].type = "PORT" /\ polDb[m].at = h)
    BY <1>1, NamedPolicer DEF PolInv
  <2>2. m # 0 => m # p /\ ~(gone /\ m = old)
    BY <2>1, <1>2, <1>4
  <2>3. m # 0 => polDb'[m].live = polDb[m].live /\ polDb'[m].rate = polDb[m].rate /\ polDb'[m].type = polDb[m].type /\ polDb'[m].at = polDb[m].at
    BY <2>1, <2>2, <1>5
  <2>4. h = g => portPol'[h].live
    BY <1>1, <1>6
  <2> QED BY <2>1, <2>3, <2>4, <1>6 DEF PortPolOk
<1>10. ASSUME NEW h \in PolPorts, NEW j \in StormKinds PROVE StormOk(StormState, h, j)'
  <2> DEFINE q == portPol[h].storm[j]
             q2 == portPol'[h].storm[j]
  <2>1. /\ q # 0 => /\ polDb[q].live /\ polDb[q].mode = "STORM" /\ polDb[q].at \in {h, NoUser}
                    /\ \A i \in PolPorts, l \in StormKinds : portPol[i].storm[l] = q => i = h
        /\ <<h, j>> \notin orphan => IF q = 0 THEN hwStorm[h][j] = 0 ELSE polDb[q].at = h /\ hwStorm[h][j] = polDb[q].rate
    <3>1. StormOk(StormState, h, j)
      BY DEF PolInv, StormsOk
    <3> QED BY <3>1, StormFields DEF StormOk
  <2>2. \A i \in PolPorts, l \in StormKinds : portPol'[i].storm[l] = p => i = g
    BY <1>1, <1>6 DEF Names
  <2>3. \A i \in PolPorts, l \in StormKinds : q # 0 /\ q # p /\ portPol'[i].storm[l] = q => i = h
    BY <2>1, <1>6
  <2>4. CASE q2 = p
    <3>1. h = g
      BY <2>2, <2>4
    <3>2. polDb'[p].live /\ polDb'[p].mode = "STORM" /\ polDb'[p].at = g /\ polDb'[p].rate = polDb[p].rate
      BY <1>1, <1>5
    <3>3. <<h, j>> \notin orphan' => hwStorm'[h][j] = polDb[p].rate
      <4>1. CASE j = k
        BY <1>7, <3>1, <4>1
      <4>2. CASE j # k
        <5>1. q = p
          BY <1>6, <2>4, <4>2
        <5>2. <<h, j>> \notin orphan' => <<h, j>> \notin orphan
          BY <1>1, <4>2
        <5> QED BY <1>0, <1>7, <2>1, <4>2, <5>1, <5>2
      <4> QED BY <4>1, <4>2
    <3>4. StormOk([pol |-> polDb', port |-> portPol', hw |-> hwStorm', orph |-> orphan'], h, j)
      BY <1>0, <2>2, <2>4, <3>1, <3>2, <3>3 DEF StormOk
    <3> QED BY <3>4 DEF StormState, StormOk
  <2>5. CASE q2 # p
    <3>1. q2 = q /\ ~(h = g /\ j = k) /\ hwStorm'[h][j] = hwStorm[h][j]
      BY <1>6, <1>7, <2>5
    <3>2. q \in Policers \cup {0} /\ (<<h, j>> \notin orphan' => <<h, j>> \notin orphan)
      BY <1>0, <1>1, <3>1 DEF PolTyped, PortPolRecs
    <3>3. q # 0 => ~(gone /\ q = old)
      BY <1>4, <3>1
    <3>4. q # 0 => /\ polDb'[q].live /\ polDb'[q].mode = "STORM" /\ polDb'[q].at = polDb[q].at /\ polDb'[q].rate = polDb[q].rate
      BY <1>5, <2>1, <2>5, <3>1, <3>2, <3>3
    <3> HIDE DEF q, q2
    <3>5. StormOk([pol |-> polDb', port |-> portPol', hw |-> hwStorm', orph |-> orphan'], h, j)
      BY <2>1, <2>3, <2>5, <3>1, <3>2, <3>4 DEF StormOk, q2
    <3> QED BY <3>5 DEF StormState, StormOk
  <2> QED BY <2>4, <2>5
<1>11. PolTyped'
  BY <1>0, <1>1, <1>5, <1>6 DEF PolTyped
<1>12. StormTyped(StormState)'
  BY <1>5, <1>6, <1>7 DEF StormTyped, StormState
<1> QED BY <1>8, <1>9, <1>10, <1>11, <1>12 DEF PolInv, StormsOk

(* A storm control of a port is taken off. *)
LEMMA ClearStormKeeps ==
  ASSUME PolInv, NEW g \in PolPorts, NEW k \in StormKinds, ClearStorm(g, k)
  PROVE  PolInv'
PROOF
<1> DEFINE st == StormOff(StormState, g, k)
<1>1. /\ polDb' = st.pol /\ portPol' = st.port /\ hwStorm' = st.hw /\ orphan' = st.orph
      /\ UNCHANGED <<hwPort, hwFlow, astray>> /\ portPol[g].live
  BY DEF ClearStorm
<1>2. StormsOff(StormState, st, g, {k})
  BY OffOne DEF PolInv
<1> HIDE DEF st
<1>3. StormTyped(st) /\ StormsOk(st)
  BY <1>2 DEF StormsOff, StormsOk
<1>4. StormsOk([pol |-> polDb', port |-> portPol', hw |-> hwStorm', orph |-> orphan'])
  <2> DEFINE b == [pol |-> st.pol, port |-> st.port, hw |-> st.hw, orph |-> st.orph]
  <2>1. b.pol = st.pol /\ b.port = st.port /\ b.hw = st.hw /\ b.orph = st.orph
    OBVIOUS
  <2> HIDE DEF b
  <2>2. StormTyped(b)
    BY <1>3, <2>1 DEF StormTyped
  <2>3. StormsOk(b)
    BY <1>3, <2>1, <2>2, StormFrame
  <2> QED BY <1>1, <2>3 DEF b
<1>5. /\ polDb' \in [Policers -> PolRecs] /\ portPol' \in [PolPorts -> PortPolRecs]
      /\ \A x \in Policers :
           /\ polDb'[x].live = polDb[x].live /\ polDb'[x].mode = polDb[x].mode
           /\ polDb'[x].rate = polDb[x].rate /\ polDb'[x].type = polDb[x].type
           /\ polDb[x].mode # "STORM" => polDb'[x].at = polDb[x].at
           /\ polDb'[x].at \in {polDb[x].at, NoUser}
      /\ \A h \in PolPorts :
           /\ portPol'[h].live = portPol[h].live /\ portPol'[h].main = portPol[h].main
           /\ \A j \in StormKinds : portPol'[h].storm[j] \in {0, portPol[h].storm[j]}
  BY <1>1, <1>2, <1>3, StormFields DEF StormsOff, StormTyped
<1>6. ASSUME NEW x \in Policers PROVE PolicerOk(x)'
  <2>1. PolicerOk(x) /\ hwFlow' = hwFlow /\ astray' = astray
    BY <1>1 DEF PolInv
  <2> QED BY <2>1, <1>5 DEF PolicerOk
<1>7. ASSUME NEW h \in PolPorts PROVE PortPolOk(h)'
  <2> DEFINE m == portPol[h].main
  <2>1. PortPolOk(h) /\ hwPort' = hwPort
    BY <1>1 DEF PolInv
  <2>2. m # 0 => m \in Policers /\ polDb[m].mode = "TCM"
    BY NamedPolicer
  <2>3. m # 0 => polDb'[m].live = polDb[m].live /\ polDb'[m].rate = polDb[m].rate /\ polDb'[m].type = polDb[m].type /\ polDb'[m].at = polDb[m].at
    BY <2>2, <1>5
  <2> QED BY <2>1, <2>3, <1>5 DEF PortPolOk
<1>8. PolTyped'
  BY <1>1, <1>5 DEF PolTyped, PolInv
<1>9. StormsOk(StormState)'
  BY <1>4 DEF StormsOk, StormTyped, StormOk, StormState
<1> QED BY <1>6, <1>7, <1>8, <1>9 DEF PolInv

(* A port gets a policer. *)
LEMMA SetPortPolicerKeeps ==
  ASSUME PolInv, NEW g \in PolPorts, NEW p \in Policers, SetPortPolicer(g, p)
  PROVE  PolInv'
PROOF
<1> DEFINE old == portPol[g].main
           set == [polDb EXCEPT ![p].at = g, ![p].type = "PORT"]
           gone == old \notin {0, p}
<1>0. /\ PolTyped /\ p # 0 /\ NoUser \notin PolPorts /\ portPol[g] \in PortPolRecs
      /\ polDb \in [Policers -> PolRecs] /\ polDb[p] \in PolRecs /\ polDb[p].rate \in Nat
  BY PolicingAssumption DEF PolInv, PolTyped, PolRecs
<1>1. /\ portPol[g].live /\ polDb[p].live /\ polDb[p].mode = "TCM"
      /\ polDb[p].at = NoUser \/ (polDb[p].at = g /\ polDb[p].type = "PORT")
      /\ portPol' = [portPol EXCEPT ![g].main = p]
      /\ hwPort' = [hwPort EXCEPT ![g] = polDb[p].rate]
      /\ polDb' = IF gone THEN Detached(set, old) ELSE set
      /\ UNCHANGED <<hwStorm, hwFlow, orphan, astray>>
  BY DEF SetPortPolicer
<1>2. polDb[p].type # "FLOW"
  <2>1. NoUser \notin PolEntries /\ PolicerOk(p)
    BY PolicingAssumption DEF PolInv
  <2> QED BY <1>1, <2>1 DEF PolicerOk
<1>3. UserIs(polDb, set, p, g, "PORT")
  <2>1. g \in PolUsers /\ "PORT" \in {"MAX", "PORT", "FLOW"}
    BY DEF PolUsers
  <2> QED BY <2>1, <1>0, UserChanged
<1>4. gone => /\ old \in Policers /\ old # p /\ polDb[old].type = "PORT" /\ polDb[old].mode = "TCM" /\ polDb[old].at = g
  BY NamedPolicer
<1> HIDE DEF set
<1>5. /\ polDb' \in [Policers -> PolRecs]
      /\ \A x \in Policers :
           /\ polDb'[x].live = polDb[x].live /\ polDb'[x].mode = polDb[x].mode /\ polDb'[x].rate = polDb[x].rate
           /\ polDb'[x].at = IF x = p THEN g ELSE IF gone /\ x = old THEN NoUser ELSE polDb[x].at
           /\ polDb'[x].type = IF x = p THEN "PORT" ELSE IF gone /\ x = old THEN "MAX" ELSE polDb[x].type
           /\ x # p /\ ~(gone /\ x = old) => polDb'[x] = polDb[x]
  <2>1. CASE gone
    <3>1. polDb' = Detached(set, old) /\ old \in Policers
      BY <1>1, <1>4, <2>1
    <3> HIDE DEF old, gone
    <3>2. UserIs(set, polDb', old, NoUser, "MAX")
      BY <1>3, <3>1, DetachedFact DEF UserIs
    <3> QED BY <1>3, <1>4, <2>1, <3>2 DEF UserIs
  <2>2. CASE ~gone
    BY <1>1, <1>3, <2>2 DEF UserIs
  <2> QED BY <2>1, <2>2
<1>6. /\ portPol' \in [PolPorts -> PortPolRecs]
      /\ \A h \in PolPorts : /\ portPol'[h].live = portPol[h].live /\ portPol'[h].main = IF h = g THEN p ELSE portPol[h].main
                             /\ \A j \in StormKinds : portPol'[h].storm[j] = portPol[h].storm[j]
  BY <1>0, <1>1 DEF PolTyped, PortPolRecs
<1>7. /\ hwPort' \in [PolPorts -> Nat] /\ hwPort'[g] = polDb[p].rate
      /\ \A h \in PolPorts : h # g => hwPort'[h] = hwPort[h]
  BY <1>0, <1>1 DEF PolTyped
<1> HIDE DEF gone
<1>8. ASSUME NEW x \in Policers PROVE PolicerOk(x)'
  <2>1. PolicerOk(x) /\ hwFlow' = hwFlow /\ astray' = astray
    BY <1>1 DEF PolInv
  <2>2. CASE x = p
    BY <2>1, <2>2, <1>1, <1>2, <1>5, <1>6 DEF PolicerOk
  <2>3. CASE x # p /\ gone /\ x = old
    BY <2>1, <2>3, <1>4, <1>5 DEF PolicerOk
  <2>4. CASE x # p /\ ~(gone /\ x = old)
    <3>1. polDb[x].type = "PORT" => polDb[x].at # g
      BY <2>1, <2>4, PolicingAssumption DEF PolicerOk, gone
    <3> QED BY <2>1, <2>4, <3>1, <1>5, <1>6 DEF PolicerOk
  <2> QED BY <2>2, <2>3, <2>4
<1>9. ASSUME NEW h \in PolPorts PROVE PortPolOk(h)'
  <2> DEFINE m == portPol[h].main
  <2>1. PortPolOk(h) /\ (m # 0 => m \in Policers /\ polDb[m].type = "PORT" /\ polDb[m].at = h)
    BY NamedPolicer DEF PolInv
  <2>2. CASE h = g
    BY <2>2, <1>0, <1>1, <1>5, <1>6, <1>7 DEF PortPolOk
  <2>3. CASE h # g
    <3>1. m # 0 => m # p /\ ~(gone /\ m = old)
      BY <2>1, <2>3, <1>0, <1>1, <1>4
    <3>2. m # 0 => polDb'[m] = polDb[m]
      BY <2>1, <3>1, <1>5
    <3> QED BY <2>1, <2>3, <3>2, <1>6, <1>7 DEF PortPolOk
  <2> QED BY <2>2, <2>3
<1>10. StormsOk(StormState')
  <2>1. StormsOk(StormState) /\ StormTyped(StormState')
    BY <1>1, <1>5, <1>6, StormFields DEF PolInv, StormsOk, StormTyped
  <2>2. \A h \in PolPorts, j \in StormKinds : portPol[h].storm[j] # 0 => polDb'[portPol[h].storm[j]] = polDb[portPol[h].storm[j]]
    BY <1>1, <1>4, <1>5, NamedPolicer
  <2>3. StormState'.hw = StormState.hw /\ StormState'.orph = StormState.orph
    BY <1>1, StormFields
  <2>4. \A h \in PolPorts, j \in StormKinds : StormState'.port[h].storm[j] = StormState.port[h].storm[j]
    BY <1>6, StormFields
  <2> QED BY <2>1, <2>2, <2>3, <2>4, StormFields, StormFrame
<1>11. PolTyped'
  BY <1>0, <1>1, <1>5, <1>6, <1>7 DEF PolTyped
<1>12. StormsOk(StormState)'
  BY <1>10 DEF StormsOk, StormTyped, StormOk, StormState
<1> QED BY <1>8, <1>9, <1>11, <1>12 DEF PolInv

(* A policer is attached to an entry, or a port's or entry's is taken off. *)
LEMMA AclAttachKeeps ==
  ASSUME PolInv, NEW e \in PolEntries, NEW p \in Policers, AclAttach(e, p) \/ AclDetach(e, p)
  PROVE  PolInv'
PROOF
<1>0. /\ PolTyped /\ polDb \in [Policers -> PolRecs] /\ polDb[p] \in PolRecs /\ polDb[p].rate \in Nat /\ PolicerOk(p)
      /\ hwFlow \in [Policers \cup PolEntries -> Nat]
  BY DEF PolInv, PolTyped, PolRecs
<1>1. PICK u \in PolEntries \cup {NoUser}, t \in {"MAX", "FLOW"}, v \in Nat :
        /\ polDb' = [polDb EXCEPT ![p].at = u, ![p].type = t] /\ hwFlow' = [hwFlow EXCEPT ![p] = v]
        /\ v = IF t = "FLOW" THEN polDb[p].rate ELSE 0
        /\ t = "FLOW" => u \in PolEntries
        /\ t = "MAX" => u = NoUser
  <2>1. AclAttach(e, p) => polDb' = [polDb EXCEPT ![p].at = e, ![p].type = "FLOW"] /\ hwFlow' = [hwFlow EXCEPT ![p] = polDb[p].rate]
    BY DEF AclAttach
  <2>2. AclDetach(e, p) => polDb' = [polDb EXCEPT ![p].at = NoUser, ![p].type = "MAX"] /\ hwFlow' = [hwFlow EXCEPT ![p] = 0]
    BY DEF AclDetach, Detached
  <2> QED BY <2>1, <2>2, <1>0
<1>2. /\ polDb[p].live /\ polDb[p].mode = "TCM" /\ polDb[p].type # "PORT" /\ astray' = astray \ {p}
      /\ UNCHANGED <<portPol, hwStorm, hwPort, orphan>>
  <2>1. CASE AclAttach(e, p)
    <3>1. polDb[p].type = "PORT" => polDb[p].at # NoUser
      BY <1>0, PolicingAssumption DEF PolicerOk
    <3> QED BY <2>1, <3>1 DEF AclAttach
  <2>2. CASE AclDetach(e, p)
    BY <2>2, <1>0 DEF AclDetach, PolicerOk
  <2> QED BY <2>1, <2>2
<1>3. UserIs(polDb, polDb', p, u, t)
  <2>1. u \in PolUsers /\ t \in {"MAX", "PORT", "FLOW"}
    BY DEF PolUsers
  <2> QED BY <2>1, <1>0, <1>1, UserChanged
<1>4. hwFlow' \in [Policers \cup PolEntries -> Nat] /\ hwFlow'[p] = v /\ \A x \in Policers : x # p => hwFlow'[x] = hwFlow[x]
  BY <1>0, <1>1
<1>5. ASSUME NEW x \in Policers PROVE PolicerOk(x)'
  <2>1. PolicerOk(x)
    BY DEF PolInv
  <2>2. CASE x = p
    BY <2>2, <1>1, <1>2, <1>3, <1>4 DEF PolicerOk, UserIs
  <2>3. CASE x # p
    BY <2>1, <2>3, <1>2, <1>3, <1>4 DEF PolicerOk, UserIs
  <2> QED BY <2>2, <2>3
<1>6. ASSUME NEW h \in PolPorts PROVE PortPolOk(h)'
  <2>1. PortPolOk(h) /\ (portPol[h].main # 0 => portPol[h].main \in Policers /\ polDb[portPol[h].main].type = "PORT")
    BY NamedPolicer DEF PolInv
  <2>2. portPol[h].main # 0 => polDb'[portPol[h].main] = polDb[portPol[h].main]
    BY <2>1, <1>2, <1>3 DEF UserIs
  <2> QED BY <2>1, <2>2, <1>2 DEF PortPolOk
<1>7. StormsOk(StormState')
  <2>1. StormsOk(StormState) /\ StormTyped(StormState')
    BY <1>2, <1>3, StormFields DEF PolInv, StormsOk, StormTyped, UserIs
  <2>2. \A h \in PolPorts, j \in StormKinds : portPol[h].storm[j] # 0 => polDb'[portPol[h].storm[j]] = polDb[portPol[h].storm[j]]
    BY <1>2, <1>3, NamedPolicer DEF UserIs
  <2> QED BY <2>1, <2>2, <1>2, StormFields, StormFrame
<1>8. PolTyped'
  BY <1>0, <1>2, <1>3, <1>4 DEF PolTyped, UserIs
<1>9. StormsOk(StormState)'
  BY <1>7 DEF StormsOk, StormTyped, StormOk, StormState
<1> QED BY <1>5, <1>6, <1>8, <1>9 DEF PolInv

(* The policer of a port is taken off. *)
LEMMA ClearPortPolicerKeeps ==
  ASSUME PolInv, NEW g \in PolPorts, ClearPortPolicer(g)
  PROVE  PolInv'
PROOF
<1> DEFINE p == portPol[g].main
<1>0. PolTyped /\ portPol[g] \in PortPolRecs
  BY DEF PolInv, PolTyped
<1>1. /\ p # 0 /\ portPol' = [portPol EXCEPT ![g].main = 0] /\ hwPort' = [hwPort EXCEPT ![g] = 0] /\ portPol[g].live
      /\ polDb' = Detached(polDb, p) /\ UNCHANGED <<hwStorm, hwFlow, orphan, astray>>
  BY DEF ClearPortPolicer
<1>2. p \in Policers /\ polDb[p].live /\ polDb[p].type = "PORT" /\ polDb[p].mode = "TCM" /\ polDb[p].at = g
  BY <1>1, NamedPolicer
<1>3. UserIs(polDb, polDb', p, NoUser, "MAX")
  <2> HIDE DEF p
  <2> QED BY <1>0, <1>1, <1>2, DetachedFact DEF PolTyped
<1>4. /\ portPol' \in [PolPorts -> PortPolRecs]
      /\ \A h \in PolPorts : /\ portPol'[h].live = portPol[h].live /\ portPol'[h].main = IF h = g THEN 0 ELSE portPol[h].main
                             /\ \A j \in StormKinds : portPol'[h].storm[j] = portPol[h].storm[j]
  BY <1>0, <1>1 DEF PolTyped, PortPolRecs
<1>5. hwPort' \in [PolPorts -> Nat] /\ hwPort'[g] = 0 /\ \A h \in PolPorts : h # g => hwPort'[h] = hwPort[h]
  BY <1>0, <1>1 DEF PolTyped
<1>6. ASSUME NEW x \in Policers PROVE PolicerOk(x)'
  <2>1. PolicerOk(x) /\ hwFlow' = hwFlow /\ astray' = astray
    BY <1>1 DEF PolInv
  <2>2. CASE x = p
    BY <2>1, <2>2, <1>2, <1>3 DEF PolicerOk, UserIs
  <2>3. CASE x # p
    <3>1. polDb[x].type = "PORT" => polDb[x].at # g
      BY <2>1, <2>3 DEF PolicerOk
    <3> QED BY <2>1, <2>3, <3>1, <1>3, <1>4 DEF PolicerOk, UserIs
  <2> QED BY <2>2, <2>3
<1>7. ASSUME NEW h \in PolPorts PROVE PortPolOk(h)'
  <2> DEFINE m == portPol[h].main
  <2>1. PortPolOk(h) /\ (m # 0 => m \in Policers /\ polDb[m].at = h)
    BY NamedPolicer DEF PolInv
  <2>2. CASE h = g
    BY <2>2, <1>1, <1>4, <1>5 DEF PortPolOk
  <2>3. CASE h # g
    <3>1. m # 0 => polDb'[m] = polDb[m]
      BY <2>1, <2>3, <1>2, <1>3 DEF UserIs
    <3> QED BY <2>1, <2>3, <3>1, <1>4, <1>5 DEF PortPolOk
  <2> QED BY <2>2, <2>3
<1>8. StormsOk(StormState')
  <2>1. StormsOk(StormState) /\ StormTyped(StormState')
    BY <1>1, <1>3, <1>4, StormFields DEF PolInv, StormsOk, StormTyped, UserIs
  <2>2. \A h \in PolPorts, j \in StormKinds : portPol[h].storm[j] # 0 => polDb'[portPol[h].storm[j]] = polDb[portPol[h].storm[j]]
    BY <1>2, <1>3, NamedPolicer DEF UserIs
  <2>3. StormState'.hw = StormState.hw /\ StormState'.orph = StormState.orph
    BY <1>1, StormFields
  <2>4. \A h \in PolPorts, j \in StormKinds : StormState'.port[h].storm[j] = StormState.port[h].storm[j]
    BY <1>4, StormFields
  <2> QED BY <2>1, <2>2, <2>3, <2>4, StormFields, StormFrame
<1>9. PolTyped'
  BY <1>0, <1>1, <1>3, <1>4, <1>5 DEF PolTyped, UserIs
<1>10. StormsOk(StormState)'
  BY <1>8 DEF StormsOk, StormTyped, StormOk, StormState
<1> QED BY <1>6, <1>7, <1>9, <1>10 DEF PolInv

(* A port is removed, with its policers. *)
LEMMA RemovePortKeeps ==
  ASSUME PolInv, NEW g \in PolPorts, RemovePort(g)
  PROVE  PolInv'
PROOF
<1> DEFINE p == portPol[g].main
           db == IF p = 0 THEN polDb ELSE Detached(polDb, p)
           mid == [StormState EXCEPT !.pol = db]
           st == AllStormOff(mid, g)
           left == [FreshPortPol EXCEPT !.live = FALSE]
<1>0. PolTyped /\ portPol[g] \in PortPolRecs /\ left \in PortPolRecs /\ StormTyped(StormState) /\ StormsOk(StormState)
      /\ left.main = 0 /\ ~left.live /\ \A j \in StormKinds : left.storm[j] = 0
  BY DEF PolInv, PolTyped, StormsOk, FreshPortPol, PortPolRecs
<1>1. /\ polDb' = st.pol /\ portPol' = [portPol EXCEPT ![g] = left] /\ hwPort' = [hwPort EXCEPT ![g] = 0]
      /\ hwStorm' = st.hw /\ orphan' = st.orph /\ UNCHANGED <<hwFlow, astray>>
  BY DEF RemovePort
<1>2. p # 0 => p \in Policers /\ polDb[p].live /\ polDb[p].type = "PORT" /\ polDb[p].mode = "TCM" /\ polDb[p].at = g
  BY NamedPolicer
<1>3. /\ db \in [Policers -> PolRecs]
      /\ \A x \in Policers : /\ db[x].live = polDb[x].live /\ db[x].mode = polDb[x].mode /\ db[x].rate = polDb[x].rate
                             /\ x # p => db[x] = polDb[x]
                             /\ x = p => db[x].at = NoUser /\ db[x].type = "MAX"
  <2>1. CASE p = 0
    BY <2>1, <1>0, PolicingAssumption DEF PolTyped
  <2>2. CASE p # 0
    <3>1. db = Detached(polDb, p)
      BY <2>2
    <3> HIDE DEF p, db
    <3>2. UserIs(polDb, db, p, NoUser, "MAX")
      BY <3>1, <2>2, <1>0, <1>2, DetachedFact DEF PolTyped
    <3> QED BY <3>2, <1>2, <2>2 DEF UserIs
  <2> QED BY <2>1, <2>2
<1> HIDE DEF db
<1>4. mid.pol = db /\ mid.port = portPol /\ mid.hw = hwStorm /\ mid.orph = orphan
  BY DEF StormState
<1> HIDE DEF mid
<1>5. StormsOk(mid)
  <2>1. StormTyped(mid)
    BY <1>0, <1>3, <1>4, StormFields DEF StormTyped
  <2>2. \A h \in PolPorts, j \in StormKinds : portPol[h].storm[j] # 0 => db[portPol[h].storm[j]] = polDb[portPol[h].storm[j]]
    BY <1>2, <1>3, NamedPolicer
  <2> QED BY <2>1, <2>2, <1>0, <1>4, StormFields, StormFrame
<1>6. StormsOff(mid, st, g, StormKinds)
  BY <1>5, OffAll
<1> HIDE DEF st, left
<1>7. StormsOk(st) /\ StormTyped(st)
  BY <1>6 DEF StormsOff, StormsOk
<1>8. /\ portPol' \in [PolPorts -> PortPolRecs] /\ portPol'[g] = left
      /\ \A h \in PolPorts : h # g => portPol'[h] = portPol[h]
  BY <1>0, <1>1 DEF PolTyped
<1>9. /\ polDb' \in [Policers -> PolRecs]
      /\ \A x \in Policers :
           /\ polDb'[x].live = db[x].live /\ polDb'[x].mode = db[x].mode
           /\ polDb'[x].rate = db[x].rate /\ polDb'[x].type = db[x].type
           /\ db[x].mode # "STORM" => polDb'[x].at = db[x].at
           /\ polDb'[x].at \in {db[x].at, NoUser}
  BY <1>1, <1>4, <1>6, <1>7 DEF StormsOff, StormTyped
<1>10. StormsOk(StormState')
  <2>1. StormTyped(StormState')
    BY <1>1, <1>7, <1>8, <1>9, StormFields DEF StormTyped
  <2>2. \A h \in PolPorts, j \in StormKinds : st.port[h].storm[j] = IF h = g THEN 0 ELSE portPol[h].storm[j]
    BY <1>4, <1>6 DEF StormsOff
  <2>3. \A h \in PolPorts, j \in StormKinds : StormState'.port[h].storm[j] = st.port[h].storm[j]
    BY <2>2, <1>0, <1>8, StormFields
  <2>4. StormState'.hw = st.hw /\ StormState'.orph = st.orph /\ StormState'.pol = st.pol
    BY <1>1, StormFields
  <2> QED BY <2>1, <2>3, <2>4, <1>7, StormFrame
<1>11. ASSUME NEW x \in Policers PROVE PolicerOk(x)'
  <2>1. PolicerOk(x) /\ hwFlow' = hwFlow /\ astray' = astray
    BY <1>1 DEF PolInv
  <2>2. CASE x = p
    BY <2>1, <2>2, <1>2, <1>3, <1>9, PolicingAssumption DEF PolicerOk
  <2>3. CASE x # p
    <3>1. polDb[x].type = "PORT" => polDb[x].at # g
      BY <2>1, <2>3 DEF PolicerOk
    <3>2. db[x] = polDb[x]
      BY <2>3, <1>3
    <3> HIDE DEF p
    <3> QED BY <2>1, <3>1, <3>2, <1>8, <1>9 DEF PolicerOk
  <2> QED BY <2>2, <2>3
<1>12. hwPort' \in [PolPorts -> Nat] /\ hwPort'[g] = 0 /\ \A h \in PolPorts : h # g => hwPort'[h] = hwPort[h]
  BY <1>0, <1>1 DEF PolTyped
<1>13. ASSUME NEW h \in PolPorts PROVE PortPolOk(h)'
  <2> DEFINE m == portPol[h].main
  <2>1. PortPolOk(h) /\ (m # 0 => m \in Policers /\ polDb[m].at = h /\ polDb[m].mode = "TCM")
    BY NamedPolicer DEF PolInv
  <2>2. CASE h = g
    BY <2>2, <1>0, <1>8, <1>12 DEF PortPolOk
  <2>3. CASE h # g
    <3>1. m # 0 => m # p
      BY <2>1, <2>3, <1>2
    <3>2. m # 0 => polDb'[m].live = polDb[m].live /\ polDb'[m].rate = polDb[m].rate /\ polDb'[m].type = polDb[m].type /\ polDb'[m].at = polDb[m].at
      BY <2>1, <3>1, <1>3, <1>9
    <3> QED BY <2>1, <2>3, <3>2, <1>8, <1>12 DEF PortPolOk
  <2> QED BY <2>2, <2>3
<1>14. PolTyped'
  BY <1>0, <1>1, <1>8, <1>9, <1>12 DEF PolTyped
<1>15. StormsOk(StormState)'
  BY <1>10 DEF StormsOk, StormTyped, StormOk, StormState
<1> QED BY <1>11, <1>13, <1>14, <1>15 DEF PolInv

(* A port that is not there is created. *)
LEMMA CreatePortKeeps ==
  ASSUME PolInv, NEW g \in PolPorts, CreatePort(g)
  PROVE  PolInv'
PROOF
<1>0. PolTyped /\ FreshPortPol \in PortPolRecs /\ FreshPortPol.main = 0 /\ FreshPortPol.live
      /\ (\A j \in StormKinds : FreshPortPol.storm[j] = 0)
  BY DEF PolInv, FreshPortPol, PortPolRecs
<1>1. portPol' = [portPol EXCEPT ![g] = FreshPortPol] /\ UNCHANGED <<polDb, hwStorm, hwPort, hwFlow, orphan, astray>>
      /\ ~portPol[g].live
  BY DEF CreatePort
<1>2. portPol[g].main = 0 /\ \A j \in StormKinds : portPol[g].storm[j] = 0
  BY <1>1 DEF PolInv, PortPolOk
<1>3. /\ portPol' \in [PolPorts -> PortPolRecs] /\ portPol'[g] = FreshPortPol
      /\ \A h \in PolPorts : h # g => portPol'[h] = portPol[h]
  BY <1>0, <1>1 DEF PolTyped
<1>4. \A h \in PolPorts : portPol'[h].main = portPol[h].main /\ \A j \in StormKinds : portPol'[h].storm[j] = portPol[h].storm[j]
  BY <1>0, <1>2, <1>3
<1>5. \A x \in Policers : PolicerOk(x)'
  BY <1>1, <1>4 DEF PolInv, PolicerOk
<1>6. ASSUME NEW h \in PolPorts PROVE PortPolOk(h)'
  <2>1. PortPolOk(h) /\ (portPol'[h].live = portPol[h].live \/ portPol'[h].live)
    BY <1>0, <1>3 DEF PolInv
  <2> QED BY <2>1, <1>1, <1>4 DEF PortPolOk
<1>7. StormsOk(StormState')
  <2>1. StormsOk(StormState) /\ StormTyped(StormState')
    BY <1>1, <1>3, StormFields DEF PolInv, StormsOk, StormTyped
  <2>2. StormState'.hw = StormState.hw /\ StormState'.orph = StormState.orph /\ StormState'.pol = StormState.pol
    BY <1>1, StormFields
  <2>3. \A h \in PolPorts, j \in StormKinds : StormState'.port[h].storm[j] = StormState.port[h].storm[j]
    BY <1>4, StormFields
  <2> QED BY <2>1, <2>2, <2>3, StormFrame
<1>8. PolTyped'
  BY <1>0, <1>1, <1>3 DEF PolTyped
<1>9. StormsOk(StormState)'
  BY <1>7 DEF StormsOk, StormTyped, StormOk, StormState
<1> QED BY <1>5, <1>6, <1>8, <1>9 DEF PolInv

(* Every call of policers keeps the invariant. *)
LEMMA PolCallsKeep == PolInv /\ [PolNext]_polVars => PolInv'
PROOF
<1> SUFFICES ASSUME PolInv, [PolNext]_polVars PROVE PolInv'
  OBVIOUS
<1>1. CASE UNCHANGED polVars
  <2>1. UNCHANGED <<polDb, portPol, hwStorm, hwPort, hwFlow, orphan, astray>>
    BY <1>1 DEF polVars
  <2>2. PolTyped' /\ (\A p \in Policers : PolicerOk(p)') /\ (\A g \in PolPorts : PortPolOk(g)')
    BY <2>1 DEF PolInv, PolTyped, PolicerOk, PortPolOk
  <2>3. StormsOk(StormState)'
    BY <2>1 DEF PolInv, StormsOk, StormTyped, StormOk, StormState
  <2> QED BY <2>2, <2>3 DEF PolInv
<1>2. ASSUME NEW p \in Policers, NEW mode \in PolModes, NEW r \in Rates, CreatePolicer(p, mode, r) PROVE PolInv'
  BY <1>2, PolicerKeeps
<1>3. ASSUME NEW p \in Policers, RemovePolicer(p) PROVE PolInv'
  BY <1>3, PolicerKeeps
<1>4. ASSUME NEW p \in Policers, NEW r \in Rates, SetPolicer(p, r) PROVE PolInv'
  BY <1>4, SetPolicerKeeps
<1>5. ASSUME NEW g \in PolPorts, NEW k \in StormKinds, NEW p \in Policers, SetStorm(g, k, p) PROVE PolInv'
  BY <1>5, SetStormKeeps
<1>6. ASSUME NEW g \in PolPorts, NEW k \in StormKinds, ClearStorm(g, k) PROVE PolInv'
  BY <1>6, ClearStormKeeps
<1>7. ASSUME NEW g \in PolPorts, NEW p \in Policers, SetPortPolicer(g, p) PROVE PolInv'
  BY <1>7, SetPortPolicerKeeps
<1>8. ASSUME NEW g \in PolPorts, ClearPortPolicer(g) \/ RemovePort(g) \/ CreatePort(g) PROVE PolInv'
  BY <1>8, ClearPortPolicerKeeps, RemovePortKeeps, CreatePortKeeps
<1>9. ASSUME NEW e \in PolEntries, NEW p \in Policers, AclAttach(e, p) \/ AclDetach(e, p) PROVE PolInv'
  BY <1>9, AclAttachKeeps
<1> QED BY <1>1, <1>2, <1>3, <1>4, <1>5, <1>6, <1>7, <1>8, <1>9 DEF PolNext

-----------------------------------------------------------------------------
(* QoS maps *)
MapRecs == [live : BOOLEAN, kind : MapKinds, list : Nat, bmp : SUBSET DomainIds]
DomRecs == [map : MapIds \cup {0}, ref : Nat]
Pairs == [MapKinds -> MapIds \cup {0}]
(* The domains, the maps and the tables agree: a table of a domain has the *)
(* list of the map it counts users of, and the map knows the domain. *)
MapState == [dom |-> domDb, map |-> mapDb, hw |-> hwDomain]
StateTyped(st) ==
  /\ st = [dom |-> st.dom, map |-> st.map, hw |-> st.hw]
  /\ st.dom \in [DomainIds -> [MapKinds -> DomRecs]] /\ st.map \in [MapIds -> MapRecs]
  /\ st.hw \in [DomainIds -> [MapKinds -> Nat]]
TableOk(st, d, k) ==
  /\ st.dom[d][k].map = 0 <=> st.dom[d][k].ref = 0
  /\ st.dom[d][k].map # 0 => st.map[st.dom[d][k].map].live /\ st.map[st.dom[d][k].map].kind = k
  /\ st.hw[d][k] = IF st.dom[d][k].map = 0 THEN 0 ELSE st.map[st.dom[d][k].map].list
BitmapOk(st, m) == st.map[m].bmp = {d \in DomainIds : st.dom[d][st.map[m].kind].map = m}
Coherent(st) ==
  /\ StateTyped(st)
  /\ \A d \in DomainIds, k \in MapKinds : TableOk(st, d, k)
  /\ \A m \in MapIds : BitmapOk(st, m)
(* Every port of a domain has the domain's maps, and is counted once for *)
(* each it has; a port without maps is in the switch's domain. *)
Has(dom, d, p) == \A k \in MapKinds : dom[d][k].map = p[k]
PortMapsOk(g) ==
  /\ hwPortDom[g] = 0 <=> portMaps[g] = NoMaps
  /\ hwPortDom[g] # 0 => Has(domDb, hwPortDom[g], portMaps[g])
DomainOk(d) ==
  LET n == Named(QosPorts, hwPortDom, d)
  IN \A k \in MapKinds : /\ domDb[d][k].ref = IF domDb[d][k].map = 0 THEN 0 ELSE n
                         /\ n = 0 => domDb[d][k].map = 0
(* No two domains have the same single map: this is why a port that gets a *)
(* second one can only extend the domain it is alone in. *)
Half(p) == (\E k \in MapKinds : p[k] = 0) /\ (\E k \in MapKinds : p[k] # 0)
HalfUnique(dom) ==
  \A d, e \in DomainIds \ {0}, p \in Pairs : Half(p) /\ Has(dom, d, p) /\ Has(dom, e, p) => d = e
SwitchOk(k) == domDb[0][k] = [map |-> switchMaps[k], ref |-> Once(switchMaps[k] # 0)]
MapTyped ==
  portMaps \in [QosPorts -> Pairs] /\ switchMaps \in Pairs /\ hwPortDom \in [QosPorts -> DomainIds]
MapInv ==
  /\ MapTyped /\ Coherent(MapState)
  /\ \A g \in QosPorts : PortMapsOk(g)
  /\ \A d \in DomainIds \ {0} : DomainOk(d)
  /\ \A k \in MapKinds : SwitchOk(k)
  /\ HalfUnique(domDb)

(* The fields of the state, before and after a call. *)
LEMMA MapFields ==
  /\ MapState.dom = domDb /\ MapState.map = mapDb /\ MapState.hw = hwDomain
  /\ MapState'.dom = domDb' /\ MapState'.map = mapDb' /\ MapState'.hw = hwDomain'
BY DEF MapState

(* What the invariant says of the classification. *)
LEMMA MapGives == MapInv => ClassifiesByMaps
PROOF
<1> SUFFICES ASSUME MapInv PROVE ClassifiesByMaps
  OBVIOUS
<1>0. 0 \in DomainIds
  BY QosMapAssumption DEF DomainIds
<1>1. ASSUME NEW d \in DomainIds, NEW k \in MapKinds
      PROVE  /\ hwDomain[d][k] = ListOf(domDb[d][k].map)
             /\ domDb[d][k].map # 0 => mapDb[domDb[d][k].map].live
  <2>1. TableOk(MapState, d, k)
    BY DEF MapInv, Coherent
  <2> QED BY <2>1, MapFields DEF TableOk, ListOf
<1>2. ASSUME NEW g \in QosPorts, NEW k \in MapKinds
      PROVE  LET want == IF portMaps[g] = NoMaps THEN switchMaps ELSE portMaps[g]
             IN hwDomain[hwPortDom[g]][k] = ListOf(want[k]) /\ (want[k] # 0 => mapDb[want[k]].live)
  <2>1. hwPortDom[g] \in DomainIds /\ PortMapsOk(g) /\ domDb[0][k].map = switchMaps[k]
    <3>1. hwPortDom[g] \in DomainIds /\ PortMapsOk(g) /\ SwitchOk(k)
      BY DEF MapInv, MapTyped
    <3> QED BY <3>1 DEF SwitchOk
  <2>2. CASE portMaps[g] = NoMaps
    BY <1>0, <1>1, <2>1, <2>2 DEF PortMapsOk
  <2>3. CASE portMaps[g] # NoMaps
    <3>1. domDb[hwPortDom[g]][k].map = portMaps[g][k]
      BY <2>1, <2>3 DEF PortMapsOk, Has
    <3> QED BY <1>1, <2>1, <2>3, <3>1
  <2> QED BY <2>2, <2>3
<1>3. ASSUME NEW m \in MapIds, NEW d \in mapDb[m].bmp
      PROVE  \/ d = 0 /\ m = switchMaps[mapDb[m].kind]
             \/ \E g \in QosPorts : hwPortDom[g] = d /\ m = portMaps[g][mapDb[m].kind]
  <2> DEFINE k == mapDb[m].kind
  <2>1. d \in DomainIds /\ k \in MapKinds /\ domDb[d][k].map = m /\ m # 0
    <3>1. BitmapOk(MapState, m) /\ mapDb[m] \in MapRecs
      BY MapFields DEF MapInv, Coherent, StateTyped
    <3> QED BY <3>1, MapFields, QosMapAssumption DEF BitmapOk, MapRecs
  <2>2. CASE d = 0
    <3>1. SwitchOk(k)
      BY <2>1 DEF MapInv
    <3> QED BY <2>1, <2>2, <3>1 DEF SwitchOk
  <2>3. CASE d # 0
    <3>1. Named(QosPorts, hwPortDom, d) # 0
      BY <2>1, <2>3 DEF MapInv, DomainOk
    <3>2. PICK g \in QosPorts : hwPortDom[g] = d
      BY <3>1, NoneNamed
    <3>3. Has(domDb, d, portMaps[g])
      BY <2>3, <3>2 DEF MapInv, PortMapsOk
    <3> QED BY <2>1, <3>2, <3>3 DEF Has
  <2> QED BY <2>2, <2>3
<1> QED BY <1>2, <1>3 DEF ClassifiesByMaps

(* It holds before the first call. *)
LEMMA MapInitially == MapInit => MapInv
PROOF
<1> SUFFICES ASSUME MapInit PROVE MapInv
  OBVIOUS
<1>0. 0 \in DomainIds /\ NoMaps \in Pairs /\ NoDomain \in [MapKinds -> DomRecs] /\ NoMap \in MapRecs /\ 0 \notin MapIds
  BY QosMapAssumption DEF DomainIds, NoMaps, Pairs, NoDomain, DomRecs, NoMap, MapRecs, MapKinds
<1>1. MapTyped
  BY <1>0 DEF MapTyped, MapInit
<1>2. Coherent(MapState)
  <2>1. StateTyped(MapState)
    <3>1. NoMaps \in [MapKinds -> Nat]
      BY DEF NoMaps
    <3>2. MapState = [dom |-> MapState.dom, map |-> MapState.map, hw |-> MapState.hw]
      BY DEF MapState
    <3> QED BY <3>1, <3>2, <1>0, MapFields DEF StateTyped, MapInit
  <2>2. \A d \in DomainIds, k \in MapKinds : TableOk(MapState, d, k)
    BY MapFields DEF TableOk, MapInit, NoDomain, NoMaps
  <2>3. \A m \in MapIds : BitmapOk(MapState, m)
    BY <1>0, MapFields DEF BitmapOk, MapInit, NoDomain, NoMap, MapKinds
  <2> QED BY <2>1, <2>2, <2>3 DEF Coherent
<1>3. \A d \in DomainIds, k \in MapKinds : domDb[d][k].map = 0 /\ domDb[d][k].ref = 0
  BY DEF MapInit, NoDomain
<1>4. \A g \in QosPorts : PortMapsOk(g)
  BY DEF PortMapsOk, MapInit
<1>5. \A d \in DomainIds \ {0} : DomainOk(d)
  BY <1>3 DEF DomainOk
<1>6. \A k \in MapKinds : SwitchOk(k)
  BY <1>0 DEF SwitchOk, Once, MapInit, NoDomain, NoMaps
<1>7. HalfUnique(domDb)
  BY <1>3 DEF HalfUnique, Half, Has
<1> QED BY <1>1, <1>2, <1>4, <1>5, <1>6, <1>7 DEF MapInv

-----------------------------------------------------------------------------
(* One table of one domain changes, the maps only in their bitmaps. *)
MapsSame(a, b) ==
  \A m \in MapIds : /\ b.map[m].live = a.map[m].live /\ b.map[m].kind = a.map[m].kind
                    /\ b.map[m].list = a.map[m].list
TableStep(a, b, d, k, e) ==
  /\ Coherent(b) /\ MapsSame(a, b) /\ b.dom[d][k] = e
  /\ \A c \in DomainIds, l \in MapKinds : ~(c = d /\ l = k) => b.dom[c][l] = a.dom[c][l]
(* A table with one user more and one user less of m. *)
JoinedBy(e, m) == IF m = 0 THEN e ELSE [map |-> m, ref |-> e.ref + 1]
LeftBy(e, m) ==
  IF m = 0 THEN e ELSE IF e.ref > 1 THEN [map |-> m, ref |-> e.ref - 1] ELSE [map |-> 0, ref |-> 0]

(* A state in which one table, and nothing or one map's bitmap, changed. *)
TableGets(st, b, d, k, e, m, B, h) ==
  /\ e \in DomRecs /\ m \in MapIds /\ B \in SUBSET DomainIds /\ h \in Nat
  /\ b = [dom |-> [st.dom EXCEPT ![d][k] = e], map |-> [st.map EXCEPT ![m].bmp = B], hw |-> [st.hw EXCEPT ![d][k] = h]]
  /\ e.map = 0 <=> e.ref = 0
  /\ e.map \in {0, m} /\ st.dom[d][k].map \in {0, m}
  /\ st.map[m].live /\ st.map[m].kind = k
  /\ h = IF e.map = 0 THEN 0 ELSE st.map[m].list
  /\ \A c \in DomainIds : c \in B <=> IF c = d THEN e.map = m ELSE c \in st.map[m].bmp

(* Such a change is a step of that table. *)
LEMMA TableChanged ==
  ASSUME NEW st, Coherent(st), NEW d \in DomainIds, NEW k \in MapKinds, NEW e, NEW b,
         NEW m, NEW B, NEW h, TableGets(st, b, d, k, e, m, B, h)
  PROVE  TableStep(st, b, d, k, e)
PROOF
<1> USE DEF TableGets
<1>0. StateTyped(st) /\ m # 0
  BY QosMapAssumption DEF Coherent
<1>1. /\ b.dom \in [DomainIds -> [MapKinds -> DomRecs]] /\ b.dom[d][k] = e
      /\ \A c \in DomainIds, l \in MapKinds : ~(c = d /\ l = k) => b.dom[c][l] = st.dom[c][l]
  BY <1>0 DEF StateTyped
<1>2. /\ b.map \in [MapIds -> MapRecs] /\ MapsSame(st, b) /\ b.map[m].bmp = B
      /\ \A x \in MapIds : x # m => b.map[x] = st.map[x]
  BY <1>0 DEF StateTyped, MapsSame, MapRecs
<1>3. /\ b.hw \in [DomainIds -> [MapKinds -> Nat]] /\ b.hw[d][k] = h
      /\ \A c \in DomainIds, l \in MapKinds : ~(c = d /\ l = k) => b.hw[c][l] = st.hw[c][l]
  BY <1>0 DEF StateTyped
<1>4. b = [dom |-> b.dom, map |-> b.map, hw |-> b.hw]
  OBVIOUS
<1>5. ASSUME NEW c \in DomainIds, NEW l \in MapKinds PROVE TableOk(b, c, l)
  <2>1. TableOk(st, c, l) /\ st.dom[c][l] \in DomRecs
    BY <1>0 DEF Coherent, StateTyped
  <2>2. CASE c = d /\ l = k
    <3>1. e.map # 0 => e.map = m /\ b.map[m].live /\ b.map[m].kind = k /\ b.map[m].list = st.map[m].list
      BY <1>2 DEF MapsSame
    <3> QED BY <2>2, <3>1, <1>1, <1>3 DEF TableOk
  <2>3. CASE ~(c = d /\ l = k)
    <3>1. b.dom[c][l] = st.dom[c][l] /\ b.hw[c][l] = st.hw[c][l]
      BY <2>3, <1>1, <1>3
    <3> DEFINE q == st.dom[c][l].map
    <3>2. q \in MapIds \cup {0}
      BY <2>1 DEF DomRecs
    <3>3. q # 0 => b.map[q].live = st.map[q].live /\ b.map[q].kind = st.map[q].kind /\ b.map[q].list = st.map[q].list
      BY <3>2, <1>2 DEF MapsSame
    <3>4. b.dom[c][l].map = q /\ b.dom[c][l].ref = st.dom[c][l].ref
      BY <3>1
    <3>5. /\ q = 0 <=> st.dom[c][l].ref = 0
          /\ q # 0 => st.map[q].live /\ st.map[q].kind = l
          /\ st.hw[c][l] = IF q = 0 THEN 0 ELSE st.map[q].list
      BY <2>1 DEF TableOk
    <3> HIDE DEF q
    <3> QED BY <3>1, <3>3, <3>4, <3>5 DEF TableOk
  <2> QED BY <2>2, <2>3
<1>6. ASSUME NEW x \in MapIds PROVE BitmapOk(b, x)
  <2>1. BitmapOk(st, x) /\ b.map[x].kind = st.map[x].kind /\ st.map[x].kind \in MapKinds
    BY <1>0, <1>2 DEF Coherent, MapsSame, StateTyped, MapRecs
  <2>2. CASE x = m
    <3>1. \A c \in DomainIds : c \in B <=> b.dom[c][k].map = m
      BY <2>1, <2>2, <1>0, <1>1 DEF BitmapOk
    <3> QED BY <2>1, <2>2, <3>1, <1>2, SMTT(30) DEF BitmapOk
  <2>3. CASE x # m
    <3>1. \A c \in DomainIds : b.dom[c][st.map[x].kind].map = x <=> st.dom[c][st.map[x].kind].map = x
      <4> SUFFICES ASSUME NEW c \in DomainIds PROVE b.dom[c][st.map[x].kind].map = x <=> st.dom[c][st.map[x].kind].map = x
        OBVIOUS
      <4>1. x # 0
        BY QosMapAssumption
      <4>2. CASE c = d /\ st.map[x].kind = k
        BY <4>1, <4>2, <2>3, <1>1
      <4>3. CASE ~(c = d /\ st.map[x].kind = k)
        BY <4>3, <2>1, <1>1
      <4> QED BY <4>2, <4>3
    <3>2. b.map[x].bmp = st.map[x].bmp
      BY <2>3, <1>2
    <3> QED BY <2>1, <3>1, <3>2, SMTT(30) DEF BitmapOk
  <2> QED BY <2>2, <2>3
<1>7. StateTyped(b)
  BY <1>1, <1>2, <1>3, <1>4 DEF StateTyped
<1>8. Coherent(b)
  BY <1>5, <1>6, <1>7 DEF Coherent
<1> QED BY <1>1, <1>2, <1>8 DEF TableStep

(* A state in which only the count of a table changed. *)
LEMMA CountChanged ==
  ASSUME NEW st, Coherent(st), NEW d \in DomainIds, NEW k \in MapKinds, NEW r \in Nat \ {0}, NEW b,
         b = [dom |-> [st.dom EXCEPT ![d][k].ref = r], map |-> st.map, hw |-> st.hw],
         st.dom[d][k].map # 0
  PROVE  TableStep(st, b, d, k, [map |-> st.dom[d][k].map, ref |-> r])
PROOF
<1> DEFINE e == [map |-> st.dom[d][k].map, ref |-> r]
<1>0. StateTyped(st) /\ st.dom[d][k] \in DomRecs
  BY DEF Coherent, StateTyped
<1>1. e \in DomRecs /\ e.map = st.dom[d][k].map /\ e.ref = r
  BY <1>0 DEF DomRecs
<1>2. b.dom = [st.dom EXCEPT ![d][k] = e]
  <2>1. [st.dom[d][k] EXCEPT !.ref = r] = e
    BY <1>0 DEF DomRecs
  <2>2. b.dom = [st.dom EXCEPT ![d][k] = [st.dom[d][k] EXCEPT !.ref = r]]
    BY <1>0 DEF StateTyped
  <2> QED BY <2>1, <2>2
<1> HIDE DEF e
<1>3. /\ b.dom \in [DomainIds -> [MapKinds -> DomRecs]] /\ b.dom[d][k] = e
      /\ \A c \in DomainIds, l \in MapKinds : ~(c = d /\ l = k) => b.dom[c][l] = st.dom[c][l]
  BY <1>0, <1>1, <1>2, ZenonT(30) DEF StateTyped
<1>4. b = [dom |-> b.dom, map |-> b.map, hw |-> b.hw] /\ b.map = st.map /\ b.hw = st.hw
  OBVIOUS
<1>5. StateTyped(b)
  BY <1>0, <1>3, <1>4 DEF StateTyped
<1>6. \A c \in DomainIds, l \in MapKinds : b.dom[c][l].map = st.dom[c][l].map
  BY <1>1, <1>3
<1>7. ASSUME NEW c \in DomainIds, NEW l \in MapKinds PROVE TableOk(b, c, l)
  <2>1. TableOk(st, c, l) /\ (b.dom[c][l].ref = 0 <=> st.dom[c][l].ref = 0)
    <3>1. TableOk(st, c, l) /\ TableOk(st, d, k)
      BY DEF Coherent
    <3>2. st.dom[d][k].ref # 0 /\ r # 0
      BY <3>1 DEF TableOk
    <3> QED BY <3>1, <3>2, <1>1, <1>3
  <2> QED BY <2>1, <1>4, <1>6 DEF TableOk
<1>8. \A m \in MapIds : BitmapOk(b, m)
  BY <1>0, <1>4, <1>6 DEF Coherent, BitmapOk, StateTyped, MapRecs
<1>9. MapsSame(st, b)
  BY <1>4 DEF MapsSame
<1> QED BY <1>3, <1>5, <1>7, <1>8, <1>9 DEF TableStep, Coherent, e

(* A map joins a table of a domain: nothing, one more, or the first user. *)
LEMMA DomainSetFact ==
  ASSUME NEW st, Coherent(st), NEW d \in DomainIds, NEW k \in MapKinds, NEW m \in MapIds \cup {0},
         m # 0 => /\ st.map[m].live /\ st.map[m].kind = k
                  /\ st.dom[d][k].map \in {0, m}
  PROVE  TableStep(st, DomainSet(st, d, k, m), d, k, JoinedBy(st.dom[d][k], m))
PROOF
<1>0. StateTyped(st) /\ st.dom[d][k] \in DomRecs /\ TableOk(st, d, k) /\ st.dom[d][k].ref \in Nat
  BY DEF Coherent, StateTyped, DomRecs
<1> DEFINE b == DomainSet(st, d, k, m)
           e == JoinedBy(st.dom[d][k], m)
<1>1. CASE m = 0
  <2>1. b = st /\ e = st.dom[d][k]
    BY <1>1 DEF DomainSet, JoinedBy
  <2> QED BY <2>1 DEF TableStep, MapsSame
<1>2. CASE m # 0 /\ st.dom[d][k].ref > 0
  <2> DEFINE r == st.dom[d][k].ref + 1
             D == [st.dom EXCEPT ![d][k].ref = r]
  <2>1. b = [st EXCEPT !.dom[d][k].ref = st.dom[d][k].ref + 1]
    BY <1>2 DEF DomainSet
  <2>2. b = [dom |-> D, map |-> st.map, hw |-> st.hw]
    BY <2>1, <1>0 DEF StateTyped
  <2>3. st.dom[d][k].map = m /\ r \in Nat \ {0}
    BY <1>0, <1>2 DEF TableOk
  <2>4. e = [map |-> st.dom[d][k].map, ref |-> r]
    BY <1>2, <2>3 DEF JoinedBy
  <2> HIDE DEF b, e, r
  <2>5. TableStep(st, b, d, k, [map |-> st.dom[d][k].map, ref |-> r])
    BY <2>2, <2>3, <1>2, CountChanged
  <2> QED BY <2>4, <2>5 DEF b, e
<1>3. CASE m # 0 /\ ~(st.dom[d][k].ref > 0)
  <2>1. st.dom[d][k].ref = 0 /\ st.dom[d][k].map = 0 /\ e = [map |-> m, ref |-> 1] /\ m \in MapIds
    BY <1>0, <1>3 DEF TableOk, JoinedBy
  <2> DEFINE B == st.map[m].bmp \cup {d}
             h == st.map[m].list
  <2>2. b = [st EXCEPT !.dom[d][k] = [map |-> m, ref |-> 1], !.map[m].bmp = st.map[m].bmp \cup {d}, !.hw[d][k] = st.map[m].list]
    BY <1>3 DEF DomainSet
  <2>3. b = [dom |-> [st.dom EXCEPT ![d][k] = e], map |-> [st.map EXCEPT ![m].bmp = B], hw |-> [st.hw EXCEPT ![d][k] = h]]
    <3>1. b = [st EXCEPT !.dom[d][k] = e, !.map[m].bmp = B, !.hw[d][k] = h]
      BY <2>1, <2>2
    <3> HIDE DEF b, e, B, h
    <3> QED BY <3>1, <1>0 DEF StateTyped
  <2>4. B \in SUBSET DomainIds /\ h \in Nat /\ \A c \in DomainIds : c \in B <=> c = d \/ c \in st.map[m].bmp
    BY <1>0, <2>1 DEF StateTyped, MapRecs
  <2>5. e \in DomRecs /\ e.map = m /\ e.ref = 1
    BY <2>1 DEF DomRecs
  <2> HIDE DEF b, e, B, h
  <2>6. h = st.map[m].list
    BY DEF h
  <2>7. \A c \in DomainIds : c \in B <=> IF c = d THEN e.map = m ELSE c \in st.map[m].bmp
    BY <2>4, <2>5
  <2>8. /\ e.map = 0 <=> e.ref = 0
        /\ e.map \in {0, m} /\ st.dom[d][k].map \in {0, m}
        /\ h = IF e.map = 0 THEN 0 ELSE st.map[m].list
    BY <1>3, <2>1, <2>5, <2>6
  <2>9. TableGets(st, b, d, k, e, m, B, h)
    BY <1>3, <2>1, <2>3, <2>4, <2>5, <2>7, <2>8 DEF TableGets
  <2>10. TableStep(st, b, d, k, e)
    BY <2>9, TableChanged
  <2> QED BY <2>10 DEF b, e
<1> QED BY <1>1, <1>2, <1>3

(* A map leaves a table of a domain: nothing, one less, or the last user. *)
LEMMA DomainUnsetFact ==
  ASSUME NEW st, Coherent(st), NEW d \in DomainIds, NEW k \in MapKinds, NEW m \in MapIds \cup {0},
         m # 0 => st.dom[d][k].map = m
  PROVE  TableStep(st, DomainUnset(st, d, k, m), d, k, LeftBy(st.dom[d][k], m))
PROOF
<1>0. StateTyped(st) /\ st.dom[d][k] \in DomRecs /\ TableOk(st, d, k) /\ st.dom[d][k].ref \in Nat
  BY DEF Coherent, StateTyped, DomRecs
<1> DEFINE b == DomainUnset(st, d, k, m)
           e == LeftBy(st.dom[d][k], m)
<1>1. CASE m = 0
  <2>1. b = st /\ e = st.dom[d][k]
    BY <1>1 DEF DomainUnset, LeftBy
  <2> QED BY <2>1 DEF TableStep, MapsSame
<1>2. m # 0 => st.dom[d][k].ref # 0 /\ m \in MapIds /\ st.map[m].live /\ st.map[m].kind = k
  BY <1>0 DEF TableOk
<1>3. CASE m # 0 /\ st.dom[d][k].ref > 1
  <2> DEFINE r == st.dom[d][k].ref - 1
             D == [st.dom EXCEPT ![d][k].ref = r]
  <2>1. b = [st EXCEPT !.dom[d][k].ref = st.dom[d][k].ref - 1]
    BY <1>2, <1>3 DEF DomainUnset
  <2>2. b = [dom |-> D, map |-> st.map, hw |-> st.hw]
    BY <2>1, <1>0 DEF StateTyped
  <2>3. st.dom[d][k].map = m /\ r \in Nat \ {0}
    BY <1>0, <1>3
  <2>4. e = [map |-> st.dom[d][k].map, ref |-> r]
    BY <1>3, <2>3 DEF LeftBy
  <2> HIDE DEF b, e, r
  <2>5. TableStep(st, b, d, k, [map |-> st.dom[d][k].map, ref |-> r])
    BY <2>2, <2>3, <1>3, CountChanged
  <2> QED BY <2>4, <2>5 DEF b, e
<1>4. CASE m # 0 /\ ~(st.dom[d][k].ref > 1)
  <2>1. st.dom[d][k].map = m /\ e = [map |-> 0, ref |-> 0] /\ m \in MapIds
    BY <1>2, <1>4 DEF LeftBy
  <2> DEFINE B == st.map[m].bmp \ {d}
             h == 0
  <2>2. b = [st EXCEPT !.dom[d][k] = [map |-> 0, ref |-> 0], !.map[m].bmp = @ \ {d}, !.hw[d][k] = 0]
    BY <1>2, <1>4 DEF DomainUnset
  <2>3. b = [dom |-> [st.dom EXCEPT ![d][k] = e], map |-> [st.map EXCEPT ![m].bmp = B], hw |-> [st.hw EXCEPT ![d][k] = h]]
    <3>1. b = [st EXCEPT !.dom[d][k] = e, !.map[m].bmp = B, !.hw[d][k] = h]
      BY <2>1, <2>2
    <3> HIDE DEF b, e, B, h
    <3> QED BY <3>1, <1>0 DEF StateTyped
  <2>4. B \in SUBSET DomainIds /\ h \in Nat /\ \A c \in DomainIds : c \in B <=> c # d /\ c \in st.map[m].bmp
    BY <1>0, <2>1 DEF StateTyped, MapRecs
  <2>5. e \in DomRecs /\ e.map = 0 /\ e.ref = 0
    BY <2>1 DEF DomRecs
  <2>6. h = 0
    OBVIOUS
  <2> HIDE DEF b, e, B, h
  <2>7. \A c \in DomainIds : c \in B <=> IF c = d THEN e.map = m ELSE c \in st.map[m].bmp
    BY <1>4, <2>4, <2>5
  <2>8. /\ e.map = 0 <=> e.ref = 0
        /\ e.map \in {0, m} /\ st.dom[d][k].map \in {0, m}
        /\ h = IF e.map = 0 THEN 0 ELSE st.map[m].list
    BY <2>1, <2>5, <2>6
  <2>9. TableGets(st, b, d, k, e, m, B, h)
    BY <1>2, <1>4, <2>1, <2>3, <2>4, <2>5, <2>7, <2>8 DEF TableGets
  <2>10. TableStep(st, b, d, k, e)
    BY <2>9, TableChanged
  <2> QED BY <2>10 DEF b, e
<1> QED BY <1>1, <1>3, <1>4

-----------------------------------------------------------------------------
(* Calls that leave the users and the domains' counts alone. *)
LEMMA UsersSame ==
  ASSUME MapInv, UNCHANGED <<portMaps, switchMaps, domDb, hwPortDom>>, Coherent(MapState')
  PROVE  MapInv'
PROOF
<1>1. Coherent(MapState)'
  BY DEF Coherent, StateTyped, TableOk, BitmapOk, MapState
<1>2. MapTyped' /\ HalfUnique(domDb)'
  BY DEF MapInv, MapTyped, HalfUnique, Has
<1>3. (\A g \in QosPorts : PortMapsOk(g)') /\ (\A k \in MapKinds : SwitchOk(k)') /\ (\A d \in DomainIds \ {0} : DomainOk(d)')
  BY DEF MapInv, PortMapsOk, SwitchOk, DomainOk, Has
<1> QED BY <1>1, <1>2, <1>3 DEF MapInv

(* The state is a record of the three fields. *)
LEMMA StateFact ==
  ASSUME MapInv
  PROVE  /\ domDb \in [DomainIds -> [MapKinds -> DomRecs]] /\ mapDb \in [MapIds -> MapRecs]
         /\ hwDomain \in [DomainIds -> [MapKinds -> Nat]]
         /\ \A d \in DomainIds, k \in MapKinds :
              /\ domDb[d][k] \in DomRecs
              /\ domDb[d][k].map = 0 <=> domDb[d][k].ref = 0
              /\ domDb[d][k].map # 0 => mapDb[domDb[d][k].map].live /\ mapDb[domDb[d][k].map].kind = k
              /\ hwDomain[d][k] = IF domDb[d][k].map = 0 THEN 0 ELSE mapDb[domDb[d][k].map].list
         /\ \A m \in MapIds : mapDb[m].bmp = {d \in DomainIds : domDb[d][mapDb[m].kind].map = m}
PROOF
<1>1. /\ domDb \in [DomainIds -> [MapKinds -> DomRecs]] /\ mapDb \in [MapIds -> MapRecs]
      /\ hwDomain \in [DomainIds -> [MapKinds -> Nat]]
  BY MapFields DEF MapInv, Coherent, StateTyped
<1>2. ASSUME NEW d \in DomainIds, NEW k \in MapKinds
      PROVE  /\ domDb[d][k].map = 0 <=> domDb[d][k].ref = 0
             /\ domDb[d][k].map # 0 => mapDb[domDb[d][k].map].live /\ mapDb[domDb[d][k].map].kind = k
             /\ hwDomain[d][k] = IF domDb[d][k].map = 0 THEN 0 ELSE mapDb[domDb[d][k].map].list
  <2>1. TableOk(MapState, d, k)
    BY DEF MapInv, Coherent
  <2> QED BY <2>1, MapFields DEF TableOk
<1>3. ASSUME NEW m \in MapIds PROVE mapDb[m].bmp = {d \in DomainIds : domDb[d][mapDb[m].kind].map = m}
  <2>1. BitmapOk(MapState, m)
    BY DEF MapInv, Coherent
  <2> QED BY <2>1, MapFields DEF BitmapOk
<1> QED BY <1>1, <1>2, <1>3

(* A map no domain has is created or removed. *)
LEMMA MapKeeps ==
  ASSUME MapInv, NEW m \in MapIds,
         (\E kind \in MapKinds, list \in MapLists : CreateMap(m, kind, list)) \/ RemoveMap(m)
  PROVE  MapInv'
PROOF
<1>1. PICK rec \in MapRecs : mapDb' = [mapDb EXCEPT ![m] = rec] /\ rec.bmp = {}
  <2>1. NoMap \in MapRecs /\ NoMap.bmp = {}
    BY DEF NoMap, MapRecs, MapKinds
  <2>2. ASSUME NEW kind \in MapKinds, NEW list \in MapLists
        PROVE  LET n == [live |-> TRUE, kind |-> kind, list |-> list, bmp |-> {}] IN n \in MapRecs /\ n.bmp = {}
    BY QosMapAssumption DEF MapRecs
  <2> QED BY <2>1, <2>2 DEF CreateMap, RemoveMap
<1>2. UNCHANGED <<portMaps, switchMaps, domDb, hwPortDom, hwDomain>> /\ (mapDb[m].live => mapDb[m].bmp = {})
  BY DEF CreateMap, RemoveMap
<1>3. \A d \in DomainIds, k \in MapKinds : domDb[d][k].map # m
  <2> SUFFICES ASSUME NEW d \in DomainIds, NEW k \in MapKinds, domDb[d][k].map = m PROVE FALSE
    OBVIOUS
  <2>1. mapDb[m].live /\ mapDb[m].kind = k
    BY StateFact, QosMapAssumption
  <2>2. d \in mapDb[m].bmp
    BY <2>1, StateFact
  <2> QED BY <1>2, <2>1, <2>2
<1>4. mapDb' \in [MapIds -> MapRecs] /\ mapDb'[m] = rec /\ \A x \in MapIds : x # m => mapDb'[x] = mapDb[x]
  BY <1>1, StateFact
<1>5. StateTyped(MapState')
  <2>1. MapState' = [dom |-> MapState'.dom, map |-> MapState'.map, hw |-> MapState'.hw]
    BY DEF MapState
  <2> QED BY <2>1, <1>2, <1>4, MapFields, StateFact DEF StateTyped
<1>6. ASSUME NEW d \in DomainIds, NEW k \in MapKinds PROVE TableOk(MapState', d, k)
  <2>1. domDb[d][k].map # 0 => mapDb'[domDb[d][k].map] = mapDb[domDb[d][k].map]
    BY <1>3, <1>4, StateFact DEF DomRecs
  <2> QED BY <2>1, <1>2, MapFields, StateFact DEF TableOk
<1>7. ASSUME NEW x \in MapIds PROVE BitmapOk(MapState', x)
  <2>1. CASE x = m
    <3>1. rec.kind \in MapKinds
      BY DEF MapRecs
    <3> QED BY <2>1, <3>1, <1>1, <1>2, <1>3, <1>4, MapFields DEF BitmapOk
  <2>2. CASE x # m
    BY <2>2, <1>2, <1>4, MapFields, StateFact DEF BitmapOk
  <2> QED BY <2>1, <2>2
<1>8. Coherent(MapState')
  BY <1>5, <1>6, <1>7 DEF Coherent
<1> QED BY <1>2, <1>8, UsersSame

(* A map gets another list, and the domains that have it. *)
LEMMA SetMapListKeeps ==
  ASSUME MapInv, NEW m \in MapIds, NEW list \in MapLists, SetMapList(m, list)
  PROVE  MapInv'
PROOF
<1> DEFINE kind == mapDb[m].kind
<1>0. list \in Nat /\ mapDb[m] \in MapRecs /\ kind \in MapKinds
  BY QosMapAssumption, StateFact DEF MapRecs
<1>1. /\ mapDb' = [mapDb EXCEPT ![m].list = list]
      /\ hwDomain' = [d \in DomainIds |-> IF d \in mapDb[m].bmp
                    THEN [hwDomain[d] EXCEPT ![kind] = list] ELSE hwDomain[d]]
      /\ UNCHANGED <<portMaps, switchMaps, domDb, hwPortDom>>
  BY DEF SetMapList
<1>2. /\ mapDb' \in [MapIds -> MapRecs]
      /\ \A x \in MapIds : /\ mapDb'[x].live = mapDb[x].live /\ mapDb'[x].kind = mapDb[x].kind /\ mapDb'[x].bmp = mapDb[x].bmp
                           /\ mapDb'[x].list = IF x = m THEN list ELSE mapDb[x].list
  BY <1>0, <1>1, StateFact DEF MapRecs
<1>3. /\ hwDomain' \in [DomainIds -> [MapKinds -> Nat]]
      /\ \A d \in DomainIds, k \in MapKinds :
           hwDomain'[d][k] = IF d \in mapDb[m].bmp /\ k = kind THEN list ELSE hwDomain[d][k]
  BY <1>0, <1>1, StateFact
<1>4. StateTyped(MapState')
  <2>1. MapState' = [dom |-> MapState'.dom, map |-> MapState'.map, hw |-> MapState'.hw]
    BY DEF MapState
  <2> QED BY <2>1, <1>1, <1>2, <1>3, MapFields, StateFact DEF StateTyped
<1>5. ASSUME NEW d \in DomainIds, NEW k \in MapKinds PROVE TableOk(MapState', d, k)
  <2> DEFINE q == domDb[d][k].map
  <2>1. q \in MapIds \cup {0} /\ m # 0
    BY StateFact, QosMapAssumption DEF DomRecs
  <2>2. d \in mapDb[m].bmp /\ k = kind <=> q = m
    BY <2>1, StateFact
  <2>3. hwDomain'[d][k] = IF q = 0 THEN 0 ELSE mapDb'[q].list
    BY <2>1, <2>2, <1>2, <1>3, StateFact
  <2>4. q # 0 => mapDb'[q].live /\ mapDb'[q].kind = k
    BY <2>1, <1>2, StateFact, SMTT(30)
  <2>5. q = 0 <=> domDb[d][k].ref = 0
    BY StateFact
  <2>6. domDb' = domDb
    BY <1>1
  <2> QED BY <2>3, <2>4, <2>5, <2>6, MapFields DEF TableOk
<1>6. ASSUME NEW x \in MapIds PROVE BitmapOk(MapState', x)
  BY <1>1, <1>2, MapFields, StateFact DEF BitmapOk
<1>7. Coherent(MapState')
  BY <1>4, <1>5, <1>6 DEF Coherent
<1> QED BY <1>1, <1>7, UsersSame

(* A call that changes one table of the switch's domain. *)
LEMMA SwitchStep ==
  ASSUME MapInv, NEW k \in MapKinds, NEW m \in MapIds \cup {0},
         switchMaps' = [switchMaps EXCEPT ![k] = m], UNCHANGED <<portMaps, hwPortDom>>,
         TableStep(MapState, MapState', 0, k, [map |-> m, ref |-> Once(m # 0)])
  PROVE  MapInv'
PROOF
<1>0. 0 \in DomainIds /\ MapTyped /\ switchMaps \in Pairs
  BY QosMapAssumption DEF DomainIds, MapInv, MapTyped
<1>1. /\ Coherent(MapState') /\ domDb'[0][k] = [map |-> m, ref |-> Once(m # 0)]
      /\ \A c \in DomainIds, l \in MapKinds : ~(c = 0 /\ l = k) => domDb'[c][l] = domDb[c][l]
  BY MapFields DEF TableStep
<1>2. switchMaps' \in Pairs /\ switchMaps'[k] = m /\ \A l \in MapKinds : l # k => switchMaps'[l] = switchMaps[l]
  BY <1>0 DEF Pairs
<1>3. \A l \in MapKinds : SwitchOk(l)'
  <2> SUFFICES ASSUME NEW l \in MapKinds PROVE SwitchOk(l)'
    OBVIOUS
  <2>1. SwitchOk(l)
    BY DEF MapInv
  <2>2. CASE l = k
    BY <2>2, <1>1, <1>2 DEF SwitchOk, Once
  <2>3. CASE l # k
    BY <2>1, <2>3, <1>0, <1>1, <1>2 DEF SwitchOk, Once
  <2> QED BY <2>2, <2>3
<1>4. \A c \in DomainIds \ {0}, l \in MapKinds : domDb'[c][l] = domDb[c][l]
  BY <1>1
<1>5. \A g \in QosPorts : PortMapsOk(g)'
  BY <1>0, <1>4 DEF MapInv, PortMapsOk, Has, MapTyped
<1>6. \A d \in DomainIds \ {0} : DomainOk(d)'
  BY <1>4 DEF MapInv, DomainOk
<1>7. HalfUnique(domDb)'
  BY <1>4 DEF MapInv, HalfUnique, Has
<1>8. MapTyped' /\ Coherent(MapState)'
  BY <1>0, <1>1, <1>2 DEF MapTyped, Coherent, StateTyped, TableOk, BitmapOk, MapState
<1> QED BY <1>3, <1>5, <1>6, <1>7, <1>8 DEF MapInv

(* The switch gets a map or gives one up. *)
LEMMA SwitchKeeps ==
  ASSUME MapInv, (\E m \in MapIds : SwitchSetMap(m)) \/ (\E k \in MapKinds : SwitchUnsetMap(k))
  PROVE  MapInv'
PROOF
<1>0. 0 \in DomainIds /\ Coherent(MapState) /\ switchMaps \in Pairs
  BY QosMapAssumption DEF DomainIds, MapInv, MapTyped
<1>1. ASSUME NEW m \in MapIds, SwitchSetMap(m) PROVE MapInv'
  <2> DEFINE k == mapDb[m].kind
             st == DomainSet(MapState, 0, k, m)
  <2>1. /\ mapDb[m].live /\ switchMaps[k] = 0
        /\ domDb' = st.dom /\ mapDb' = st.map /\ hwDomain' = st.hw
        /\ switchMaps' = [switchMaps EXCEPT ![k] = m] /\ UNCHANGED <<portMaps, hwPortDom>>
    BY <1>1 DEF SwitchSetMap, MapState
  <2>2. k \in MapKinds /\ m # 0
    BY QosMapAssumption, StateFact DEF MapRecs
  <2>3. domDb[0][k] = [map |-> 0, ref |-> 0]
    <3>1. SwitchOk(k)
      BY <2>2 DEF MapInv
    <3> QED BY <2>1, <3>1 DEF SwitchOk, Once
  <2>4. TableStep(MapState, st, 0, k, JoinedBy(domDb[0][k], m))
    BY <1>0, <2>1, <2>2, <2>3, MapFields, DomainSetFact
  <2>5. JoinedBy(domDb[0][k], m) = [map |-> m, ref |-> Once(m # 0)]
    BY <2>2, <2>3 DEF JoinedBy, Once
  <2> HIDE DEF k, st
  <2>6. st = MapState'
    BY <2>1, <2>4 DEF TableStep, Coherent, StateTyped, MapState
  <2> QED BY <2>1, <2>2, <2>4, <2>5, <2>6, SwitchStep
<1>2. ASSUME NEW k \in MapKinds, SwitchUnsetMap(k) PROVE MapInv'
  <2> DEFINE m == switchMaps[k]
             st == DomainUnset(MapState, 0, k, m)
  <2>1. /\ m # 0
        /\ domDb' = st.dom /\ mapDb' = st.map /\ hwDomain' = st.hw
        /\ switchMaps' = [switchMaps EXCEPT ![k] = 0] /\ UNCHANGED <<portMaps, hwPortDom>>
    BY <1>2 DEF SwitchUnsetMap, MapState
  <2>2. m \in MapIds \cup {0}
    BY <1>0 DEF Pairs
  <2>3. domDb[0][k] = [map |-> m, ref |-> 1]
    <3>1. SwitchOk(k)
      BY DEF MapInv
    <3> QED BY <2>1, <3>1 DEF SwitchOk, Once
  <2>4. TableStep(MapState, st, 0, k, LeftBy(domDb[0][k], m))
    BY <1>0, <2>2, <2>3, MapFields, DomainUnsetFact
  <2>5. LeftBy(domDb[0][k], m) = [map |-> 0, ref |-> Once(0 # 0)]
    BY <2>1, <2>3 DEF LeftBy, Once
  <2> HIDE DEF m, st
  <2>6. st = MapState'
    BY <2>1, <2>4 DEF TableStep, Coherent, StateTyped, MapState
  <2> QED BY <2>1, <2>4, <2>5, <2>6, SwitchStep
<1> QED BY <1>1, <1>2

-----------------------------------------------------------------------------
(* The maps want a port will have are those it has but for one kind k: it *)
(* gets a map it had none of, or gives up one it had. *)
Change(g, k, want, on) ==
  /\ want \in Pairs /\ want[Other(k)] = portMaps[g][Other(k)]
  /\ IF on THEN portMaps[g][k] = 0 /\ want[k] # 0 ELSE portMaps[g][k] # 0 /\ want[k] = 0
(* The domain chosen: the switch's for no maps, another one that has the *)
(* maps or is empty, or the port's own if it is alone there. *)
None(want) == \A d \in DomainIds \ {0} : ~Has(domDb, d, want)
Chosen(g, k, want, on, new) ==
  \/ new = 0 /\ want = NoMaps /\ hwPortDom[g] # 0
  \/ /\ new \in DomainIds \ {0} /\ new # hwPortDom[g] /\ want # NoMaps
     /\ Has(domDb, new, want) \/ (Has(domDb, new, NoMaps) /\ None(want))
  \/ /\ new = hwPortDom[g] /\ new # 0 /\ Named(QosPorts, hwPortDom, new) = 1 /\ want # NoMaps
     /\ (on /\ ~Half(want)) \/ (~on /\ None(want))

(* The two kinds, and a pair of maps. *)
LEMMA KindFact ==
  /\ \A k \in MapKinds : Other(k) \in MapKinds /\ Other(k) # k /\ \A l \in MapKinds : l = k \/ l = Other(k)
  /\ NoMaps \in Pairs /\ \A k \in MapKinds : NoMaps[k] = 0
  /\ \A p \in Pairs : p = NoMaps <=> \A k \in MapKinds : p[k] = 0
PROOF
<1>1. NoMaps \in Pairs /\ \A k \in MapKinds : NoMaps[k] = 0
  BY DEF NoMaps, Pairs
<1>2. \A p \in Pairs : (\A k \in MapKinds : p[k] = 0) => p = NoMaps
  BY DEF NoMaps, Pairs
<1> QED BY <1>1, <1>2 DEF MapKinds, Other

(* A port with maps is in a domain that has them, and is counted there. *)
LEMMA PortDomain ==
  ASSUME MapInv, NEW g \in QosPorts
  PROVE  /\ portMaps[g] \in Pairs /\ hwPortDom[g] \in DomainIds
         /\ hwPortDom[g] = 0 <=> portMaps[g] = NoMaps
         /\ hwPortDom[g] # 0 => /\ Has(domDb, hwPortDom[g], portMaps[g])
                                /\ Named(QosPorts, hwPortDom, hwPortDom[g]) \in Nat \ {0}
         /\ \A d \in DomainIds \ {0}, k \in MapKinds :
              /\ domDb[d][k].map = 0 <=> domDb[d][k].ref = 0
              /\ domDb[d][k].map # 0 => domDb[d][k].ref = Named(QosPorts, hwPortDom, d)
PROOF
<1>1. portMaps[g] \in Pairs /\ hwPortDom[g] \in DomainIds /\ PortMapsOk(g)
  BY DEF MapInv, MapTyped
<1>2. Named(QosPorts, hwPortDom, hwPortDom[g]) \in Nat \ {0}
  BY NamedFact, QosMapAssumption
<1>3. \A d \in DomainIds \ {0}, k \in MapKinds :
              /\ domDb[d][k].map = 0 <=> domDb[d][k].ref = 0
              /\ domDb[d][k].map # 0 => domDb[d][k].ref = Named(QosPorts, hwPortDom, d)
  BY StateFact DEF MapInv, DomainOk
<1> QED BY <1>1, <1>2, <1>3 DEF PortMapsOk

(* What the allocation chooses. *)
LEMMA AllocFact ==
  ASSUME MapInv, NEW g \in QosPorts, NEW k \in MapKinds, NEW want, NEW on \in BOOLEAN, Change(g, k, want, on),
         AllocDomain(g, k, want, on) # NumDomains
  PROVE  Chosen(g, k, want, on, AllocDomain(g, k, want, on))
PROOF
<1> DEFINE o == Other(k)
           cur == portMaps[g]
           old == hwPortDom[g]
           suit == {d \in DomainIds \ {0} : Suits(d, k, want)}
           free == {d \in DomainIds \ {0} : Suits(d, k, NoMaps)}
           new == AllocDomain(g, k, want, on)
<1>0. /\ o \in MapKinds /\ o # k /\ \A l \in MapKinds : l = k \/ l = o
      /\ want \in Pairs /\ want[o] = cur[o] /\ cur \in Pairs /\ old \in DomainIds
  BY KindFact, PortDomain DEF Change
<1>1. IF on THEN cur[k] = 0 /\ want[k] # 0 ELSE cur[k] # 0 /\ want[k] = 0
  BY DEF Change
<1>2. /\ old = 0 <=> cur = NoMaps
      /\ old # 0 => /\ domDb[old][k].map = cur[k] /\ domDb[old][o].map = cur[o]
  BY <1>0, PortDomain DEF Has
<1>3. suit \in SUBSET Nat /\ free \in SUBSET Nat
  BY QosMapAssumption DEF DomainIds
<1>4. new = IF want = NoMaps THEN 0
     ELSE IF suit # {} THEN Min(suit)
     ELSE IF free # {} THEN Min(free)
     ELSE IF ~on /\ Alone(old, want) THEN old ELSE NumDomains
  BY DEF AllocDomain
<1>5. \A d \in DomainIds \ {0} : Has(domDb, d, want) => d \in suit
  BY <1>0 DEF Has, Suits
<1> HIDE DEF suit
<1>6. CASE want = NoMaps
  <2>1. cur # NoMaps
    BY <1>0, <1>1, <1>6, KindFact
  <2> QED BY <1>2, <1>4, <1>6, <2>1 DEF Chosen
<1>7. CASE want # NoMaps /\ suit # {}
  <2>1. new \in suit
    BY <1>3, <1>4, <1>7, MinFact
  <2>2. new \in DomainIds \ {0} /\ Suits(new, k, want)
    BY <2>1 DEF suit
  <2> HIDE DEF new
  <2>3. \A l \in MapKinds : domDb[new][l].ref = 1 => domDb[new][l].map # 0 /\ Named(QosPorts, hwPortDom, new) = 1
    BY <2>2, PortDomain
  <2>4. CASE Has(domDb, new, want)
    <3>1. new # old
      BY <1>0, <1>1, <1>2, <2>2, <2>4 DEF Has
    <3> QED BY <1>7, <2>2, <2>4, <3>1 DEF Chosen, new
  <2>5. CASE ~Has(domDb, new, want)
    <3>1. /\ want[o] = domDb[new][o].map /\ domDb[new][o].ref = 1 /\ domDb[new][k].map = 0
          /\ want[k] # 0
      BY <1>0, <2>2, <2>5 DEF Suits, Has
    <3>2. on /\ cur[k] = 0 /\ want[o] # 0 /\ Named(QosPorts, hwPortDom, new) = 1
      BY <1>0, <1>1, <2>3, <3>1
    <3>3. Half(cur) /\ Has(domDb, new, cur) /\ old # 0
      BY <1>0, <1>2, <3>1, <3>2, KindFact DEF Half, Has
    <3>4. Has(domDb, old, cur)
      BY <3>3, PortDomain
    <3>5. new = old
      BY <1>0, <2>2, <3>3, <3>4 DEF MapInv, HalfUnique
    <3>6. ~Half(want)
      BY <1>0, <3>1, <3>2 DEF Half
    <3> QED BY <1>7, <3>2, <3>3, <3>5, <3>6 DEF Chosen, new
  <2> QED BY <2>4, <2>5
<1>8. CASE want # NoMaps /\ suit = {}
  <2>1. None(want)
    BY <1>5, <1>8 DEF None
  <2>2. CASE free # {}
    <3>1. new \in free
      BY <1>3, <1>4, <1>8, <2>2, MinFact
    <3>2. new \in DomainIds \ {0} /\ Suits(new, k, NoMaps)
      BY <3>1
    <3> HIDE DEF new
    <3>3. Has(domDb, new, NoMaps)
      <4>1. \A l \in MapKinds : domDb[new][l].ref = 1 => domDb[new][l].map # 0
        BY <3>2, PortDomain
      <4> QED BY <1>0, <3>2, <4>1, KindFact DEF Suits, Has
    <3>4. new # old
      <4>1. old # 0 => cur # NoMaps
        BY <1>2
      <4>2. new = old => cur[k] = 0 /\ cur[o] = 0
        BY <1>0, <1>2, <3>2, <3>3, KindFact DEF Has
      <4> QED BY <1>0, <3>2, <4>1, <4>2, KindFact
    <3> QED BY <1>8, <2>1, <3>2, <3>3, <3>4 DEF Chosen, new
  <2>3. CASE free = {}
    <3>1. new = old /\ ~on /\ Alone(old, want)
      BY <1>4, <1>8, <2>3
    <3>2. cur # NoMaps /\ old # 0
      BY <1>0, <1>1, <1>2, <3>1, KindFact
    <3>3. Named(QosPorts, hwPortDom, old) = 1
      BY <1>0, <3>1, <3>2, PortDomain DEF Alone
    <3> HIDE DEF new
    <3> QED BY <1>8, <2>1, <3>1, <3>2, <3>3 DEF Chosen, new
  <2> QED BY <2>2, <2>3
<1> QED BY <1>6, <1>7, <1>8

-----------------------------------------------------------------------------
(* Two maps join one domain and two leave another. *)
TwoMoved(a, b, old, new, cur, want) ==
  /\ Coherent(b)
  /\ \A d \in DomainIds, l \in MapKinds :
       b.dom[d][l] = IF d = new THEN JoinedBy(a.dom[d][l], want[l])
                     ELSE IF d = old THEN LeftBy(a.dom[d][l], cur[l]) ELSE a.dom[d][l]

(* The four calls of a move do this. *)
LEMMA TwoFact ==
  ASSUME NEW st, Coherent(st), NEW k \in MapKinds, NEW old \in DomainIds, NEW new \in DomainIds, new # old,
         NEW cur \in Pairs, NEW want \in Pairs,
         \A l \in MapKinds : want[l] # 0 => /\ st.map[want[l]].live /\ st.map[want[l]].kind = l
                                            /\ st.dom[new][l].map \in {0, want[l]},
         \A l \in MapKinds : cur[l] # 0 => st.dom[old][l].map = cur[l]
  PROVE  TwoMoved(st, DomainUnset(DomainUnset(DomainSet(DomainSet(st, new, k, want[k]), new, Other(k), want[Other(k)]),
                        old, k, cur[k]), old, Other(k), cur[Other(k)]), old, new, cur, want)
PROOF
<1> DEFINE o == Other(k)
           s1 == DomainSet(st, new, k, want[k])
           s2 == DomainSet(s1, new, o, want[o])
           s3 == DomainUnset(s2, old, k, cur[k])
           s4 == DomainUnset(s3, old, o, cur[o])
<1>0. /\ o \in MapKinds /\ o # k /\ \A l \in MapKinds : l = k \/ l = o
      /\ \A l \in MapKinds : want[l] \in MapIds \cup {0} /\ cur[l] \in MapIds \cup {0}
  BY KindFact DEF Pairs
<1>1. TableStep(st, s1, new, k, JoinedBy(st.dom[new][k], want[k]))
  BY DomainSetFact, <1>0
<1> HIDE DEF s1
<1>2. TableStep(s1, s2, new, o, JoinedBy(s1.dom[new][o], want[o]))
  <2>1. Coherent(s1) /\ s1.dom[new][o] = st.dom[new][o]
    BY <1>0, <1>1 DEF TableStep
  <2>2. want[o] # 0 => /\ s1.map[want[o]].live /\ s1.map[want[o]].kind = o
                       /\ s1.dom[new][o].map \in {0, want[o]}
    BY <1>0, <1>1, <2>1 DEF TableStep, MapsSame
  <2> HIDE DEF o
  <2> QED BY DomainSetFact, <1>0, <2>1, <2>2
<1> HIDE DEF s2
<1>3. TableStep(s2, s3, old, k, LeftBy(s2.dom[old][k], cur[k]))
  <2>1. Coherent(s2) /\ s2.dom[old][k] = st.dom[old][k]
    BY <1>0, <1>1, <1>2 DEF TableStep
  <2> QED BY DomainUnsetFact, <1>0, <2>1
<1> HIDE DEF s3
<1>4. TableStep(s3, s4, old, o, LeftBy(s3.dom[old][o], cur[o]))
  <2>1. Coherent(s3) /\ s3.dom[old][o] = st.dom[old][o]
    BY <1>0, <1>1, <1>2, <1>3 DEF TableStep
  <2> HIDE DEF o
  <2> QED BY DomainUnsetFact, <1>0, <2>1
<1> HIDE DEF s4, o
<1>5. \A d \in DomainIds, l \in MapKinds : d # new /\ d # old => s4.dom[d][l] = st.dom[d][l]
  BY <1>1, <1>2, <1>3, <1>4 DEF TableStep
<1>6. s4.dom[new][k] = JoinedBy(st.dom[new][k], want[k]) /\ s4.dom[new][o] = JoinedBy(st.dom[new][o], want[o])
  BY <1>0, <1>1, <1>2, <1>3, <1>4 DEF TableStep
<1>7. s4.dom[old][k] = LeftBy(st.dom[old][k], cur[k]) /\ s4.dom[old][o] = LeftBy(st.dom[old][o], cur[o])
  BY <1>0, <1>1, <1>2, <1>3, <1>4 DEF TableStep
<1>8. \A l \in MapKinds : s4.dom[new][l] = JoinedBy(st.dom[new][l], want[l]) /\ s4.dom[old][l] = LeftBy(st.dom[old][l], cur[l])
  BY <1>0, <1>6, <1>7
<1>9. Coherent(s4)
  BY <1>4 DEF TableStep
<1>10. TwoMoved(st, s4, old, new, cur, want)
  BY <1>5, <1>8, <1>9 DEF TwoMoved
<1> QED BY <1>10 DEF s4, s3, s2, s1, o

(* What the move of a port does to the state. *)
LEMMA MoveFact ==
  ASSUME MapInv, NEW g \in QosPorts, NEW k \in MapKinds, NEW want, NEW on \in BOOLEAN, Change(g, k, want, on),
         \A l \in MapKinds : want[l] # 0 => mapDb[want[l]].live /\ mapDb[want[l]].kind = l,
         NEW new, new = AllocDomain(g, k, want, on), Chosen(g, k, want, on, new),
         NEW m, m = IF on THEN want[k] ELSE portMaps[g][k],
         NEW st, st = MoveDomain(g, k, m, want, on)
  PROVE  IF new # hwPortDom[g] THEN TwoMoved(MapState, st, hwPortDom[g], new, portMaps[g], want)
         ELSE TableStep(MapState, st, new, k, IF on THEN JoinedBy(domDb[new][k], want[k])
                                              ELSE LeftBy(domDb[new][k], portMaps[g][k]))
PROOF
<1> DEFINE o == Other(k)
           cur == portMaps[g]
           old == hwPortDom[g]
           moved == old # 0 /\ new # old
           st1 == IF ~on /\ new = 0 THEN MapState
             ELSE IF moved THEN DomainSet(DomainSet(MapState, new, k, want[k]), new, o, want[o])
             ELSE DomainSet(MapState, new, k, want[k])
           st2 == IF ~on /\ old # 0 THEN DomainUnset(st1, old, k, m) ELSE st1
<1>0. /\ o \in MapKinds /\ o # k /\ \A l \in MapKinds : l = k \/ l = o
      /\ want \in Pairs /\ want[o] = cur[o] /\ cur \in Pairs /\ old \in DomainIds /\ new \in DomainIds
      /\ Coherent(MapState)
      /\ \A l \in MapKinds : want[l] \in MapIds \cup {0} /\ cur[l] \in MapIds \cup {0}
  <2>1. 0 \in DomainIds /\ old \in DomainIds
    BY QosMapAssumption, PortDomain DEF DomainIds
  <2> QED BY KindFact, PortDomain, <2>1 DEF Change, Chosen, MapInv, Pairs
<1>1. IF on THEN cur[k] = 0 /\ want[k] # 0 ELSE cur[k] # 0 /\ want[k] = 0
  BY DEF Change
<1>2. /\ old = 0 <=> cur = NoMaps
      /\ old # 0 => \A l \in MapKinds : domDb[old][l].map = cur[l]
  BY <1>0, PortDomain DEF Has
<1>3. ASSUME NEW s, NEW d, NEW l PROVE DomainSet(s, d, l, 0) = s /\ DomainUnset(s, d, l, 0) = s
  <2>1. DomainSet(s, d, l, 0) = s
    BY Zenon DEF DomainSet
  <2>2. DomainUnset(s, d, l, 0) = s
    BY Zenon DEF DomainUnset
  <2> QED BY <2>1, <2>2
<1>4. st = IF moved THEN DomainUnset(st2, old, o, want[o]) ELSE st2
  BY DEF MoveDomain, MapState
<1>5. CASE new # old
  <2> DEFINE s == DomainUnset(DomainUnset(DomainSet(DomainSet(MapState, new, k, want[k]), new, o, want[o]), old, k, cur[k]), old, o, cur[o])
  <2>1. st = s
    <3>1. CASE old = 0
      <4>1. cur[k] = 0 /\ cur[o] = 0 /\ want[o] = 0 /\ on
        BY <1>0, <1>1, <1>2, <3>1, KindFact
      <4>2. st = DomainSet(MapState, new, k, want[k])
        BY <1>4, <3>1, <4>1
      <4> HIDE DEF cur, old, o
      <4> DEFINE t == DomainSet(MapState, new, k, want[k])
      <4>3. s = DomainUnset(DomainUnset(DomainSet(t, new, o, 0), old, k, 0), old, o, 0)
        BY <4>1
      <4> HIDE DEF t, s
      <4>4. s = t
        <5>1. DomainSet(t, new, o, 0) = t
          BY <1>3
        <5>2. DomainUnset(t, old, k, 0) = t
          BY <1>3
        <5>3. DomainUnset(t, old, o, 0) = t
          BY <1>3
        <5> QED BY <4>3, <5>1, <5>2, <5>3
      <4> QED BY <4>2, <4>4 DEF t
    <3>2. CASE old # 0 /\ new = 0
      <4>1. want[k] = 0 /\ want[o] = 0 /\ cur[o] = 0 /\ ~on
        <5>1. want = NoMaps
          BY <3>2 DEF Chosen
        <5> QED BY <1>0, <1>1, <5>1, KindFact
      <4> QED BY <1>3, <1>4, <3>2, <4>1
    <3>3. CASE old # 0 /\ new # 0 /\ on
      <4>1. cur[k] = 0 /\ cur[o] = want[o]
        BY <1>0, <1>1, <3>3
      <4> DEFINE t == DomainSet(DomainSet(MapState, new, k, want[k]), new, o, want[o])
      <4>2. st = DomainUnset(t, old, o, want[o])
        BY <1>4, <1>5, <3>3
      <4> HIDE DEF cur, old, o
      <4>3. s = DomainUnset(DomainUnset(t, old, k, 0), old, o, want[o])
        BY <4>1
      <4> HIDE DEF t, s
      <4>4. DomainUnset(t, old, k, 0) = t
        BY <1>3
      <4> QED BY <4>2, <4>3, <4>4
    <3>4. CASE old # 0 /\ new # 0 /\ ~on
      <4>1. m = cur[k] /\ cur[o] = want[o]
        BY <1>0, <3>4
      <4> QED BY <1>4, <1>5, <3>4, <4>1
    <3> QED BY <3>1, <3>2, <3>3, <3>4
  <2>2. ASSUME NEW l \in MapKinds, want[l] # 0
        PROVE  /\ MapState.map[want[l]].live /\ MapState.map[want[l]].kind = l
               /\ MapState.dom[new][l].map \in {0, want[l]}
    <3>1. want # NoMaps
      BY <2>2, KindFact
    <3>2. Has(domDb, new, want) \/ Has(domDb, new, NoMaps)
      BY <1>5, <3>1 DEF Chosen
    <3> QED BY <2>2, <3>2, KindFact, MapFields DEF Has
  <2>3. \A l \in MapKinds : cur[l] # 0 => MapState.dom[old][l].map = cur[l]
    BY <1>2, MapFields, KindFact
  <2> HIDE DEF cur, old, o
  <2>4. TwoMoved(MapState,
          DomainUnset(DomainUnset(DomainSet(DomainSet(MapState, new, k, want[k]), new, Other(k), want[Other(k)]),
            old, k, cur[k]), old, Other(k), cur[Other(k)]), old, new, cur, want)
    BY <1>0, <1>5, <2>2, <2>3, TwoFact
  <2> QED BY <1>5, <2>1, <2>4 DEF cur, old, o
<1>6. CASE new = old
  <2>1. new # 0 /\ \A l \in MapKinds : domDb[new][l].map = cur[l]
    <3>1. new # 0
      BY <1>6 DEF Chosen
    <3> QED BY <1>2, <1>6, <3>1
  <2>2. CASE on
    <3>1. st = DomainSet(MapState, new, k, want[k])
      BY <1>4, <1>6, <2>1, <2>2
    <3>2. MapState.dom[new][k].map \in {0, want[k]}
      BY <1>1, <2>1, <2>2, MapFields
    <3>3. TableStep(MapState, DomainSet(MapState, new, k, want[k]), new, k, JoinedBy(MapState.dom[new][k], want[k]))
      BY <1>0, <3>2, MapFields, DomainSetFact
    <3> QED BY <1>6, <2>2, <3>1, <3>3, MapFields
  <2>3. CASE ~on
    <3>1. st = DomainUnset(MapState, new, k, cur[k])
      BY <1>1, <1>3, <1>4, <1>6, <2>1, <2>3
    <3>2. TableStep(MapState, DomainUnset(MapState, new, k, cur[k]), new, k, LeftBy(MapState.dom[new][k], cur[k]))
      BY <1>0, <2>1, MapFields, DomainUnsetFact
    <3> QED BY <1>6, <2>3, <3>1, <3>2, MapFields
  <2> QED BY <2>2, <2>3
<1> QED BY <1>5, <1>6

-----------------------------------------------------------------------------
(* A port has moved to new, or is alone there and has got its maps. *)
Gone(g, new, want) ==
  /\ hwPortDom' = [hwPortDom EXCEPT ![g] = new] /\ portMaps' = [portMaps EXCEPT ![g] = want]
  /\ UNCHANGED switchMaps
Settled(g, new, want) ==
  /\ Coherent(MapState') /\ \A l \in MapKinds : domDb'[0][l] = domDb[0][l]
  /\ \A d \in DomainIds \ {0} :
       LET n == Named(QosPorts, hwPortDom', d)
       IN \A l \in MapKinds :
            /\ domDb'[d][l].ref = IF domDb'[d][l].map = 0 THEN 0 ELSE n
            /\ n = 0 => domDb'[d][l].map = 0
            /\ IF d = new THEN domDb'[d][l].map = want[l]
               ELSE n # 0 => domDb'[d][l].map = domDb[d][l].map
  /\ new # 0 => /\ \A h \in QosPorts \ {g} : hwPortDom[h] = new => Has(domDb, new, want)
                /\ Half(want) => \A e \in DomainIds \ {0} : Has(domDb, e, want) => e = new

(* The invariant holds after it. *)
LEMMA SettledKeeps ==
  ASSUME MapInv, NEW g \in QosPorts, NEW new \in DomainIds, NEW want \in Pairs, new = 0 <=> want = NoMaps,
         Gone(g, new, want),
         IF new = hwPortDom[g] THEN \A h \in QosPorts : hwPortDom[h] = new => h = g ELSE TRUE,
         Settled(g, new, want)
  PROVE  MapInv'
PROOF
<1>0. /\ MapTyped /\ 0 \in DomainIds
      /\ hwPortDom'[g] = new /\ portMaps'[g] = want
      /\ \A h \in QosPorts : h # g => hwPortDom'[h] = hwPortDom[h] /\ portMaps'[h] = portMaps[h]
  BY QosMapAssumption DEF MapInv, MapTyped, Gone, DomainIds
<1>1. MapTyped' /\ Coherent(MapState)'
  <2>1. MapTyped'
    BY DEF MapInv, MapTyped, Gone
  <2>2. Coherent(MapState)'
    BY DEF Settled, Coherent, StateTyped, TableOk, BitmapOk, MapState
  <2> QED BY <2>1, <2>2
<1>2. \A k \in MapKinds : SwitchOk(k)'
  BY DEF Settled, Gone, MapInv, SwitchOk, Once
<1>3. \A d \in DomainIds \ {0} : DomainOk(d)'
  BY DEF Settled, DomainOk
<1>4. ASSUME NEW h \in QosPorts PROVE PortMapsOk(h)'
  <2>1. CASE h = g
    BY <1>0, <2>1 DEF PortMapsOk, Has, Settled
  <2>2. CASE h # g
    <3> DEFINE d == hwPortDom[h]
               n == Named(QosPorts, hwPortDom', d)
    <3>1. /\ d = 0 <=> portMaps[h] = NoMaps
          /\ d # 0 => Has(domDb, d, portMaps[h])
          /\ d \in DomainIds
      BY PortDomain
    <3>2. n # 0
      <4>1. n = 0 => \A s \in QosPorts : hwPortDom'[s] # d
        BY NamedFact, QosMapAssumption
      <4> QED BY <1>0, <2>2, <4>1
    <3>3. d # 0 => Has(domDb', d, portMaps[h])
      <4>1. CASE d # 0 /\ d = new
        <5>1. Has(domDb, new, want)
          BY <2>2, <4>1 DEF Settled
        <5>2. \A l \in MapKinds : domDb'[new][l].map = want[l]
          BY <4>1 DEF Settled
        <5> QED BY <3>1, <4>1, <5>1, <5>2 DEF Has
      <4>2. CASE d # 0 /\ d # new
        <5>1. \A l \in MapKinds : domDb'[d][l].map = domDb[d][l].map
          BY <3>1, <3>2, <4>2 DEF Settled
        <5> QED BY <3>1, <4>2, <5>1 DEF Has
      <4> QED BY <4>1, <4>2
    <3> QED BY <1>0, <2>2, <3>1, <3>3 DEF PortMapsOk
  <2> QED BY <2>1, <2>2
<1>5. HalfUnique(domDb)'
  <2> SUFFICES ASSUME NEW d \in DomainIds \ {0}, NEW e \in DomainIds \ {0}, NEW p \in Pairs,
                      Half(p), Has(domDb', d, p), Has(domDb', e, p) PROVE d = e
    BY DEF HalfUnique, Half, Has
  <2>1. ASSUME NEW c \in DomainIds \ {0}, Has(domDb', c, p), c # new PROVE Has(domDb, c, p)
    <3>1. PICK l \in MapKinds : p[l] # 0
      BY DEF Half
    <3>2. Named(QosPorts, hwPortDom', c) # 0
      BY <2>1, <3>1 DEF Settled, Has
    <3> QED BY <2>1, <3>2 DEF Settled, Has
  <2>2. ASSUME NEW c \in DomainIds \ {0}, Has(domDb', c, p), c = new
        PROVE  p = want
    <3>1. \A l \in MapKinds : p[l] = want[l]
      BY <2>2 DEF Settled, Has
    <3> QED BY <3>1 DEF Pairs
  <2>3. CASE d # new /\ e # new
    BY <2>1, <2>3 DEF MapInv, HalfUnique
  <2>4. CASE d = new \/ e = new
    <3>1. p = want /\ new # 0
      BY <2>2, <2>4
    <3>2. \A c \in DomainIds \ {0} : Has(domDb, c, want) => c = new
      BY <3>1 DEF Settled
    <3> QED BY <2>1, <2>4, <3>1, <3>2
  <2> QED BY <2>3, <2>4
<1> QED BY <1>1, <1>2, <1>3, <1>4, <1>5 DEF MapInv

(* A port leaves one domain for another. *)
LEMMA MoveSettles ==
  ASSUME MapInv, NEW g \in QosPorts, NEW k \in MapKinds, NEW want, NEW on \in BOOLEAN, Change(g, k, want, on),
         NEW new, Chosen(g, k, want, on, new), new # hwPortDom[g], Gone(g, new, want),
         TwoMoved(MapState, MapState', hwPortDom[g], new, portMaps[g], want)
  PROVE  Settled(g, new, want)
PROOF
<1> DEFINE old == hwPortDom[g]
           cur == portMaps[g]
           N(d) == Named(QosPorts, hwPortDom, d)
           M(d) == Named(QosPorts, hwPortDom', d)
<1>0. /\ cur \in Pairs /\ want \in Pairs /\ old \in DomainIds /\ new \in DomainIds /\ 0 \in DomainIds
      /\ \A l \in MapKinds : want[l] \in Nat /\ cur[l] \in Nat
      /\ new = 0 <=> want = NoMaps
  <2>1. 0 \in DomainIds /\ MapIds \subseteq Nat
    BY QosMapAssumption DEF DomainIds
  <2>2. cur \in Pairs /\ want \in Pairs /\ old \in DomainIds
    BY PortDomain DEF Change
  <2>3. \A l \in MapKinds : want[l] \in Nat /\ cur[l] \in Nat
    <3>1. ASSUME NEW p \in Pairs, NEW l \in MapKinds PROVE p[l] \in Nat
      <4>1. p[l] \in MapIds \cup {0}
        BY DEF Pairs
      <4>2. \A x \in MapIds \cup {0} : x \in Nat
        BY <2>1
      <4> QED BY <4>1, <4>2
    <3> QED BY <2>2, <3>1
  <2>4. new \in DomainIds /\ (new = 0 <=> want = NoMaps)
    BY <2>1, <2>2 DEF Chosen
  <2> QED BY <2>1, <2>2, <2>3, <2>4
<1>1. \A d : /\ N(d) \in Nat /\ M(d) \in Nat
             /\ M(d) = N(d) + (IF new = d THEN 1 ELSE 0) - (IF old = d THEN 1 ELSE 0)
             /\ old = d => N(d) > 0
  <2>1. hwPortDom'[g] = new /\ \A h \in QosPorts : h # g => hwPortDom'[h] = hwPortDom[h]
    BY DEF MapInv, MapTyped, Gone
  <2>2. Renamed(QosPorts, hwPortDom, hwPortDom', g)
    BY <2>1, QosMapAssumption, OneRenames
  <2> QED BY <2>1, <2>2 DEF Renamed
<1>2. /\ Coherent(MapState')
      /\ \A d \in DomainIds, l \in MapKinds :
           domDb'[d][l] = IF d = new THEN JoinedBy(domDb[d][l], want[l])
                          ELSE IF d = old THEN LeftBy(domDb[d][l], cur[l]) ELSE domDb[d][l]
  BY MapFields DEF TwoMoved
<1>3. \A d \in DomainIds \ {0}, l \in MapKinds :
        /\ domDb[d][l].ref = IF domDb[d][l].map = 0 THEN 0 ELSE N(d)
        /\ N(d) = 0 => domDb[d][l].map = 0
  BY DEF MapInv, DomainOk
<1>4. \A l \in MapKinds : domDb'[0][l] = domDb[0][l]
  <2> SUFFICES ASSUME NEW l \in MapKinds PROVE domDb'[0][l] = domDb[0][l]
    OBVIOUS
  <2>1. (new = 0 => want[l] = 0) /\ (old = 0 => cur[l] = 0)
    BY <1>0, KindFact, PortDomain
  <2> QED BY <1>0, <1>2, <2>1 DEF JoinedBy, LeftBy
<1>5. ASSUME new # 0
      PROVE  /\ \/ Has(domDb, new, want)
                \/ None(want) /\ Has(domDb, new, NoMaps) /\ N(new) = 0
             /\ \A h \in QosPorts \ {g} : hwPortDom[h] = new => Has(domDb, new, want)
  <2>1. Has(domDb, new, want) \/ (Has(domDb, new, NoMaps) /\ None(want))
    BY <1>5 DEF Chosen
  <2>2. ASSUME Has(domDb, new, NoMaps), NEW h \in QosPorts, hwPortDom[h] = new PROVE FALSE
    <3>1. portMaps[h] \in Pairs /\ portMaps[h] # NoMaps /\ Has(domDb, new, portMaps[h])
      BY <1>5, <2>2, PortDomain
    <3> QED BY <2>2, <3>1, KindFact DEF Has
  <2>3. Has(domDb, new, NoMaps) => N(new) = 0
    BY <2>2, NoneNamed
  <2> QED BY <2>1, <2>2, <2>3
<1>6. ASSUME NEW d \in DomainIds \ {0}, NEW l \in MapKinds
      PROVE  /\ domDb'[d][l].ref = IF domDb'[d][l].map = 0 THEN 0 ELSE M(d)
             /\ M(d) = 0 => domDb'[d][l].map = 0
             /\ IF d = new THEN domDb'[d][l].map = want[l]
                ELSE M(d) # 0 => domDb'[d][l].map = domDb[d][l].map
  <2>0. N(d) \in Nat /\ M(d) \in Nat /\ domDb[d][l] \in DomRecs
    BY <1>1, StateFact
  <2>1. CASE d = new
    <3>1. domDb'[d][l] = JoinedBy(domDb[d][l], want[l]) /\ M(d) = N(d) + 1
      BY <1>1, <1>2, <2>1
    <3>2. domDb[d][l].map = want[l] \/ (domDb[d][l].map = 0 /\ N(d) = 0)
      BY <1>5, <2>1, KindFact DEF Has
    <3> HIDE DEF N, M
    <3>3. CASE want[l] = 0
      <4>1. domDb'[d][l] = domDb[d][l] /\ domDb[d][l].map = 0
        BY <3>1, <3>2, <3>3 DEF JoinedBy
      <4> QED BY <1>3, <2>1, <3>3, <4>1
    <3>4. CASE want[l] # 0
      <4>1. domDb'[d][l].map = want[l] /\ domDb'[d][l].ref = domDb[d][l].ref + 1
        BY <3>1, <3>4 DEF JoinedBy
      <4>2. domDb[d][l].ref = N(d)
        BY <1>3, <3>2, <3>4
      <4> QED BY <2>0, <2>1, <3>1, <3>4, <4>1, <4>2
    <3> QED BY <3>3, <3>4
  <2>2. CASE d # new /\ d = old
    <3>1. domDb'[d][l] = LeftBy(domDb[d][l], cur[l]) /\ M(d) = N(d) - 1 /\ N(d) > 0
      BY <1>1, <1>2, <2>2
    <3>2. domDb[d][l].map = cur[l]
      BY <2>2, PortDomain DEF Has
    <3>3. domDb[d][l].ref = IF cur[l] = 0 THEN 0 ELSE N(d)
      BY <1>3, <3>2
    <3> HIDE DEF N, M, cur, old
    <3>4. CASE cur[l] = 0
      <4>1. domDb'[d][l] = domDb[d][l]
        BY <3>1, <3>4 DEF LeftBy
      <4> QED BY <2>2, <3>2, <3>3, <3>4, <4>1
    <3>5. CASE cur[l] # 0 /\ N(d) > 1
      <4>1. domDb'[d][l].map = cur[l] /\ domDb'[d][l].ref = N(d) - 1
        BY <3>1, <3>3, <3>5 DEF LeftBy
      <4> QED BY <2>0, <2>2, <3>1, <3>2, <3>5, <4>1
    <3>6. CASE cur[l] # 0 /\ ~(N(d) > 1)
      <4>1. domDb'[d][l].map = 0 /\ domDb'[d][l].ref = 0
        BY <3>1, <3>3, <3>6 DEF LeftBy
      <4>2. M(d) = 0
        BY <2>0, <3>1, <3>6
      <4> QED BY <2>2, <4>1, <4>2
    <3> QED BY <3>4, <3>5, <3>6
  <2>3. CASE d # new /\ d # old
    <3>1. domDb'[d][l] = domDb[d][l] /\ M(d) = N(d)
      BY <1>1, <1>2, <2>0, <2>3
    <3> QED BY <1>3, <2>3, <3>1
  <2> QED BY <2>1, <2>2, <2>3
<1>7. ASSUME new # 0, Half(want), NEW e \in DomainIds \ {0}, Has(domDb, e, want) PROVE e = new
  <2>1. Has(domDb, new, want)
    BY <1>5, <1>7 DEF None
  <2> QED BY <1>0, <1>7, <2>1 DEF MapInv, HalfUnique
<1> QED BY <1>2, <1>4, <1>5, <1>6, <1>7 DEF Settled

(* A port that is alone in its domain changes the domain. *)
LEMMA ExtendSettles ==
  ASSUME MapInv, NEW g \in QosPorts, NEW k \in MapKinds, NEW want, NEW on \in BOOLEAN, Change(g, k, want, on),
         NEW new, Chosen(g, k, want, on, new), new = hwPortDom[g], Gone(g, new, want),
         TableStep(MapState, MapState', new, k, IF on THEN JoinedBy(domDb[new][k], want[k])
                                                ELSE LeftBy(domDb[new][k], portMaps[g][k]))
  PROVE  Settled(g, new, want) /\ \A h \in QosPorts : hwPortDom[h] = new => h = g
PROOF
<1> DEFINE cur == portMaps[g]
           o == Other(k)
<1>0. /\ o \in MapKinds /\ o # k /\ \A l \in MapKinds : l = k \/ l = o
      /\ want \in Pairs /\ want[o] = cur[o] /\ new \in DomainIds \ {0}
      /\ IF on THEN cur[k] = 0 /\ want[k] # 0 ELSE cur[k] # 0 /\ want[k] = 0
      /\ Named(QosPorts, hwPortDom, new) = 1 /\ ((on /\ ~Half(want)) \/ (~on /\ None(want)))
  BY KindFact, PortDomain DEF Change, Chosen
<1>1. \A h \in QosPorts : hwPortDom[h] = new => h = g
  BY <1>0, LoneUser, QosMapAssumption
<1>2. hwPortDom' = hwPortDom
  BY DEF Gone, MapInv, MapTyped
<1>3. /\ Coherent(MapState')
      /\ \A d \in DomainIds, l \in MapKinds : ~(d = new /\ l = k) => domDb'[d][l] = domDb[d][l]
      /\ domDb'[new][k] = IF on THEN JoinedBy(domDb[new][k], want[k]) ELSE LeftBy(domDb[new][k], cur[k])
  BY MapFields DEF TableStep
<1>4. \A d \in DomainIds \ {0}, l \in MapKinds :
        /\ domDb[d][l].ref = IF domDb[d][l].map = 0 THEN 0 ELSE Named(QosPorts, hwPortDom, d)
        /\ Named(QosPorts, hwPortDom, d) = 0 => domDb[d][l].map = 0
  BY DEF MapInv, DomainOk
<1>5. \A l \in MapKinds : domDb[new][l].map = cur[l]
  BY <1>0, PortDomain DEF Has
<1>6. domDb'[new][k].map = want[k] /\ domDb'[new][k].ref = IF want[k] = 0 THEN 0 ELSE 1
  <2>1. domDb[new][k].map = cur[k] /\ domDb[new][k].ref = IF cur[k] = 0 THEN 0 ELSE 1
    BY <1>0, <1>4, <1>5
  <2>2. CASE on
    BY <1>0, <1>3, <2>1, <2>2 DEF JoinedBy
  <2>3. CASE ~on
    BY <1>0, <1>3, <2>1, <2>3 DEF LeftBy
  <2> QED BY <2>2, <2>3
<1>7. domDb'[new][o].map = want[o] /\ domDb'[new][o].ref = IF want[o] = 0 THEN 0 ELSE 1
  BY <1>0, <1>3, <1>4, <1>5
<1>8. \A l \in MapKinds : domDb'[0][l] = domDb[0][l]
  BY <1>0, <1>3, QosMapAssumption DEF DomainIds
<1>9. ASSUME NEW d \in DomainIds \ {0}, NEW l \in MapKinds
      PROVE  LET n == Named(QosPorts, hwPortDom', d)
             IN /\ domDb'[d][l].ref = IF domDb'[d][l].map = 0 THEN 0 ELSE n
                /\ n = 0 => domDb'[d][l].map = 0
                /\ IF d = new THEN domDb'[d][l].map = want[l]
                   ELSE n # 0 => domDb'[d][l].map = domDb[d][l].map
  <2>1. CASE d = new
    <3>1. domDb'[d][l].map = want[l] /\ domDb'[d][l].ref = IF want[l] = 0 THEN 0 ELSE 1
      BY <1>0, <1>6, <1>7, <2>1
    <3> QED BY <1>0, <1>2, <2>1, <3>1
  <2>2. CASE d # new
    <3>1. domDb'[d][l] = domDb[d][l]
      BY <1>3, <2>2
    <3> QED BY <1>2, <1>4, <2>2, <3>1
  <2> QED BY <2>1, <2>2
<1>10. \A h \in QosPorts \ {g} : hwPortDom[h] = new => Has(domDb, new, want)
  BY <1>1
<1>11. Half(want) => \A e \in DomainIds \ {0} : Has(domDb, e, want) => e = new
  BY <1>0 DEF None
<1> QED BY <1>1, <1>3, <1>8, <1>9, <1>10, <1>11 DEF Settled

(* A port gets a map or gives one up. *)
LEMMA PortMoveKeeps ==
  ASSUME MapInv, NEW g \in QosPorts, NEW k \in MapKinds, NEW want, NEW on \in BOOLEAN, Change(g, k, want, on),
         \A l \in MapKinds : want[l] # 0 => mapDb[want[l]].live /\ mapDb[want[l]].kind = l,
         NEW m, m = IF on THEN want[k] ELSE portMaps[g][k], PortMove(g, k, m, want, on)
  PROVE  MapInv'
PROOF
<1> DEFINE new == AllocDomain(g, k, want, on)
           st == MoveDomain(g, k, m, want, on)
<1>1. /\ new # NumDomains /\ domDb' = st.dom /\ mapDb' = st.map /\ hwDomain' = st.hw
      /\ Gone(g, new, want)
  BY DEF PortMove, Gone
<1>2. Chosen(g, k, want, on, new)
  BY <1>1, AllocFact
<1> HIDE DEF new, st
<1>3. IF new # hwPortDom[g] THEN TwoMoved(MapState, st, hwPortDom[g], new, portMaps[g], want)
      ELSE TableStep(MapState, st, new, k, IF on THEN JoinedBy(domDb[new][k], want[k])
                                           ELSE LeftBy(domDb[new][k], portMaps[g][k]))
  BY <1>2, MoveFact DEF new, st
<1>4. st = MapState'
  <2>1. Coherent(st)
    BY <1>3 DEF TwoMoved, TableStep
  <2> QED BY <1>1, <2>1 DEF Coherent, StateTyped, MapState
<1>5. new \in DomainIds /\ want \in Pairs /\ (new = 0 <=> want = NoMaps)
  <2>1. 0 \in DomainIds /\ hwPortDom[g] \in DomainIds /\ want \in Pairs
    BY QosMapAssumption, PortDomain DEF DomainIds, Change
  <2> QED BY <1>2, <2>1 DEF Chosen
<1>6. CASE new # hwPortDom[g]
  <2>1. Settled(g, new, want)
    BY <1>1, <1>2, <1>3, <1>4, <1>6, MoveSettles
  <2> QED BY <1>1, <1>5, <1>6, <2>1, SettledKeeps
<1>7. CASE new = hwPortDom[g]
  <2>1. Settled(g, new, want) /\ \A h \in QosPorts : hwPortDom[h] = new => h = g
    BY <1>1, <1>2, <1>3, <1>4, <1>7, ExtendSettles
  <2> QED BY <1>1, <1>5, <1>7, <2>1, SettledKeeps
<1> QED BY <1>6, <1>7

(* The client's two calls on a port. *)
LEMMA PortKeeps ==
  ASSUME MapInv, NEW g \in QosPorts, (\E m \in MapIds : PortSetMap(g, m)) \/ (\E k \in MapKinds : PortUnsetMap(g, k))
  PROVE  MapInv'
PROOF
<1>1. portMaps[g] \in Pairs
  BY PortDomain
<1>2. \A l \in MapKinds : portMaps[g][l] # 0 => mapDb[portMaps[g][l]].live /\ mapDb[portMaps[g][l]].kind = l
  <2>1. \A l \in MapKinds : portMaps[g][l] # 0 => hwPortDom[g] # 0 /\ hwPortDom[g] \in DomainIds /\ domDb[hwPortDom[g]][l].map = portMaps[g][l]
    BY PortDomain, KindFact DEF Has
  <2> QED BY <2>1, StateFact
<1>3. ASSUME NEW m \in MapIds, PortSetMap(g, m) PROVE MapInv'
  <2> DEFINE k == mapDb[m].kind
             want == [portMaps[g] EXCEPT ![k] = m]
  <2>1. mapDb[m].live /\ portMaps[g][k] = 0 /\ PortMove(g, k, m, want, TRUE)
    BY <1>3 DEF PortSetMap
  <2>2. k \in MapKinds /\ m # 0 /\ Other(k) \in MapKinds /\ Other(k) # k
    BY QosMapAssumption, StateFact, KindFact DEF MapRecs
  <2>3. want \in Pairs /\ want[k] = m /\ \A l \in MapKinds : l # k => want[l] = portMaps[g][l]
    BY <1>1, <2>2 DEF Pairs
  <2> HIDE DEF want
  <2>4. Change(g, k, want, TRUE)
    BY <2>1, <2>2, <2>3 DEF Change
  <2>5. \A l \in MapKinds : want[l] # 0 => mapDb[want[l]].live /\ mapDb[want[l]].kind = l
    BY <1>2, <2>1, <2>3
  <2> HIDE DEF k
  <2> QED BY <2>1, <2>2, <2>3, <2>4, <2>5, PortMoveKeeps
<1>4. ASSUME NEW k \in MapKinds, PortUnsetMap(g, k) PROVE MapInv'
  <2> DEFINE want == [portMaps[g] EXCEPT ![k] = 0]
             m == portMaps[g][k]
  <2>1. portMaps[g][k] # 0 /\ PortMove(g, k, m, want, FALSE)
    BY <1>4 DEF PortUnsetMap
  <2>2. Other(k) \in MapKinds /\ Other(k) # k
    BY KindFact
  <2>3. want \in Pairs /\ want[k] = 0 /\ \A l \in MapKinds : l # k => want[l] = portMaps[g][l]
    BY <1>1 DEF Pairs
  <2> HIDE DEF want
  <2>4. Change(g, k, want, FALSE)
    BY <2>1, <2>2, <2>3 DEF Change
  <2>5. \A l \in MapKinds : want[l] # 0 => mapDb[want[l]].live /\ mapDb[want[l]].kind = l
    BY <1>2, <2>3
  <2>6. m = IF FALSE THEN want[k] ELSE portMaps[g][k]
    OBVIOUS
  <2> HIDE DEF m
  <2> QED BY <2>1, <2>4, <2>5, <2>6, PortMoveKeeps
<1> QED BY <1>3, <1>4

(* Every call keeps the invariant. *)
LEMMA MapCallsKeep == MapInv /\ [MapNext]_mapVars => MapInv'
PROOF
<1>1. ASSUME MapInv, UNCHANGED mapVars PROVE MapInv'
  <2>1. UNCHANGED <<portMaps, switchMaps, domDb, hwPortDom>> /\ MapState' = MapState
    BY <1>1 DEF mapVars, MapState
  <2> QED BY <1>1, <2>1, UsersSame DEF MapInv
<1>2. ASSUME MapInv, MapNext PROVE MapInv'
  BY <1>2, MapKeeps, SetMapListKeeps, SwitchKeeps, PortKeeps DEF MapNext
<1> QED BY <1>1, <1>2

-----------------------------------------------------------------------------
(* Profiles *)
ProfRecs == [live : BOOLEAN, th : Nat, xoff : Nat, ref : Nat]
QueueRecs == [wred : Wreds \cup {0}, buf : Bufs \cup {0}]
PgRecs == [live : BOOLEAN, buf : Bufs \cup {0}]
Schemes == [mode : {"WTD", "WRED"}, th : Nat]
ProfTyped ==
  /\ wredDb \in [Wreds -> ProfRecs] /\ bufDb \in [Bufs -> ProfRecs]
  /\ queueDb \in [ProfQueues -> QueueRecs] /\ pgDb \in [Pgs -> PgRecs]
  /\ hwDrop \in [ProfQueues -> Schemes] /\ hwPfc \in [Pgs -> Nat]
(* Who names a profile, and a count that is never below their number. *)
WredOf(db) == [q \in ProfQueues |-> db[q].wred]
BufOf(db) == [q \in ProfQueues |-> db[q].buf]
PgOf(db) == [g \in Pgs |-> db[g].buf]
WredCounted(w) == wredDb[w].ref >= Named(ProfQueues, WredOf(queueDb), w)
BufCounted(b) ==
  bufDb[b].ref >= Named(ProfQueues, BufOf(queueDb), b) + Named(Pgs, PgOf(pgDb), b)
(* A queue's profiles exist, and unless it has had both at a time the chip *)
(* has the scheme of the one it has; a queue without any is not in mixed. *)
Both(r) == r.wred # 0 /\ r.buf # 0
ProfQueueOk(q) ==
  /\ queueDb[q].wred # 0 => wredDb[queueDb[q].wred].live
  /\ queueDb[q].buf # 0 => bufDb[queueDb[q].buf].live
  /\ q \notin mixed => ~Both(queueDb[q]) /\ hwDrop[q] = SchemeOf(q)
  /\ q \in mixed => queueDb[q] # NoQueue
PgOk(g) ==
  /\ ~pgDb[g].live => pgDb[g].buf = 0
  /\ pgDb[g].live => IF pgDb[g].buf = 0 THEN hwPfc[g] = 0
                     ELSE bufDb[pgDb[g].buf].live /\ hwPfc[g] = bufDb[pgDb[g].buf].xoff
ProfInv ==
  /\ ProfTyped
  /\ \A w \in Wreds : WredCounted(w)
  /\ \A b \in Bufs : BufCounted(b)
  /\ \A q \in ProfQueues : ProfQueueOk(q)
  /\ \A g \in Pgs : PgOk(g)

(* What the invariant says of queues and priority groups. *)
LEMMA ProfGives == ProfInv => ProfilesExact
BY DEF ProfInv, ProfilesExact, ProfQueueOk, PgOk

(* It holds before the first call. *)
LEMMA ProfInitially == ProfInit => ProfInv
PROOF
<1> SUFFICES ASSUME ProfInit PROVE ProfInv
  OBVIOUS
<1> USE DEF ProfInit
<1>1. ProfTyped
  BY ProfileAssumption DEF ProfTyped, ProfRecs, QueueRecs, PgRecs, Schemes, NoProf, NoQueue, NoPg, TailDrop
<1>2. ASSUME NEW w \in Wreds PROVE WredCounted(w)
  <2>1. \A q \in ProfQueues : WredOf(queueDb)[q] # w
    BY ProfileAssumption DEF WredOf, NoQueue
  <2> QED BY <2>1, NoneNamed DEF WredCounted, NoProf
<1>3. ASSUME NEW b \in Bufs PROVE BufCounted(b)
  <2>1. (\A q \in ProfQueues : BufOf(queueDb)[q] # b) /\ (\A g \in Pgs : PgOf(pgDb)[g] # b)
    BY ProfileAssumption DEF BufOf, PgOf, NoQueue, NoPg
  <2>2. Named(ProfQueues, BufOf(queueDb), b) = 0 /\ Named(Pgs, PgOf(pgDb), b) = 0
    BY <2>1, NoneNamed
  <2> QED BY <2>2 DEF BufCounted, NoProf
<1>4. ASSUME NEW q \in ProfQueues PROVE ProfQueueOk(q)
  BY DEF ProfQueueOk, SchemeOf, NoQueue, TailDrop, Both
<1>5. ASSUME NEW g \in Pgs PROVE PgOk(g)
  BY DEF PgOk, NoPg
<1> QED BY <1>1, <1>2, <1>3, <1>4, <1>5 DEF ProfInv

(* A profile counted up or down is the same in everything else. *)
LEMMA CountedUp ==
  ASSUME NEW P, NEW db \in [P -> ProfRecs], NEW p \in P
  PROVE  /\ [db EXCEPT ![p].ref = @ + 1] \in [P -> ProfRecs]
         /\ \A r \in P : /\ [db EXCEPT ![p].ref = @ + 1][r].live = db[r].live
                         /\ [db EXCEPT ![p].ref = @ + 1][r].th = db[r].th
                         /\ [db EXCEPT ![p].ref = @ + 1][r].xoff = db[r].xoff
                         /\ [db EXCEPT ![p].ref = @ + 1][r].ref = db[r].ref + (IF r = p THEN 1 ELSE 0)
BY DEF ProfRecs

(* A record with one user less, or none at zero. *)
LEMMA CountedDown ==
  ASSUME NEW P, NEW db \in [P -> ProfRecs], NEW p \in P
  PROVE  /\ Down(db, p) \in [P -> ProfRecs]
         /\ \A r \in P : /\ Down(db, p)[r].live = db[r].live /\ Down(db, p)[r].th = db[r].th
                         /\ Down(db, p)[r].xoff = db[r].xoff
                         /\ Down(db, p)[r].ref >= db[r].ref - (IF r = p THEN 1 ELSE 0)
PROOF
<1>1. \A r \in P : db[r] \in ProfRecs /\ db[r].ref \in Nat
  BY DEF ProfRecs
<1>2. CASE db[p].ref = 0
  BY <1>1, <1>2 DEF Down
<1>3. CASE db[p].ref # 0
  <2> DEFINE low == [db[p] EXCEPT !.ref = db[p].ref - 1]
  <2>1. Down(db, p) = [db EXCEPT ![p] = low]
    BY <1>3 DEF Down
  <2>2. /\ low \in ProfRecs /\ low.live = db[p].live /\ low.th = db[p].th
        /\ low.xoff = db[p].xoff /\ low.ref = db[p].ref - 1
    BY <1>1, <1>3 DEF ProfRecs
  <2> HIDE DEF low
  <2> QED BY <1>1, <2>1, <2>2
<1> QED BY <1>2, <1>3

(* A record with one of its two fields changed. *)
LEMMA FieldChanged ==
  /\ \A r \in QueueRecs : \A w : [r EXCEPT !.wred = w] = [wred |-> w, buf |-> r.buf]
  /\ \A r \in QueueRecs : \A b : [r EXCEPT !.buf = b] = [wred |-> r.wred, buf |-> b]
  /\ \A r \in PgRecs : \A b : [r EXCEPT !.buf = b] = [live |-> r.live, buf |-> b]
BY DEF QueueRecs, PgRecs

(* Profiles of which only the counts change. *)
OnlyCounts(P, old, new) ==
  /\ new \in [P -> ProfRecs]
  /\ \A p \in P : /\ new[p].live = old[p].live /\ new[p].th = old[p].th /\ new[p].xoff = old[p].xoff
(* A user that named a and names b now is counted for b and no more for a. *)
Recounts(P, old, new, a, b) ==
  /\ OnlyCounts(P, old, new)
  /\ \A p \in P : new[p].ref >= old[p].ref + (IF b = p THEN 1 ELSE 0) - (IF a = p THEN 1 ELSE 0)

(* A queue that gets other profiles and a scheme. *)
LEMMA QueueStep ==
  ASSUME ProfInv, NEW q \in ProfQueues, NEW n \in QueueRecs, NEW s \in Schemes,
         queueDb' = [queueDb EXCEPT ![q] = n], hwDrop' = [hwDrop EXCEPT ![q] = s],
         mixed' = Mix(queueDb'), UNCHANGED <<pgDb, hwPfc>>,
         Recounts(Wreds, wredDb, wredDb', queueDb[q].wred, n.wred),
         Recounts(Bufs, bufDb, bufDb', queueDb[q].buf, n.buf),
         n.wred # 0 => wredDb[n.wred].live, n.buf # 0 => bufDb[n.buf].live,
         ~Both(n) /\ (q \in mixed => n = NoQueue) =>
           s = IF n.wred # 0 THEN EarlyDrop(wredDb[n.wred].th)
               ELSE IF n.buf # 0 THEN TailDrop(bufDb[n.buf].th) ELSE TailDrop(0)
  PROVE  ProfInv'
PROOF
<1>1. ProfTyped /\ ProfTyped'
  BY DEF ProfInv, ProfTyped, Recounts, OnlyCounts
<1>2. /\ queueDb'[q] = n /\ \A r \in ProfQueues \ {q} : queueDb'[r] = queueDb[r] /\ hwDrop'[r] = hwDrop[r]
      /\ hwDrop'[q] = s /\ queueDb[q] \in QueueRecs
  BY <1>1 DEF ProfTyped
<1>3. ASSUME NEW w \in Wreds PROVE WredCounted(w)'
  <2>1. /\ \A r \in ProfQueues : r # q => WredOf(queueDb')[r] = WredOf(queueDb)[r]
        /\ WredOf(queueDb)[q] = queueDb[q].wred /\ WredOf(queueDb')[q] = n.wred
    BY <1>2 DEF WredOf
  <2>2. /\ Named(ProfQueues, WredOf(queueDb), w) \in Nat
        /\ Named(ProfQueues, WredOf(queueDb'), w) = Named(ProfQueues, WredOf(queueDb), w)
             + (IF n.wred = w THEN 1 ELSE 0) - (IF queueDb[q].wred = w THEN 1 ELSE 0)
    <3> DEFINE f == WredOf(queueDb)
               h == WredOf(queueDb')
    <3>0. IsFiniteSet(ProfQueues)
      BY ProfileAssumption
    <3>1. /\ \A r \in ProfQueues : r # q => h[r] = f[r]
          /\ f[q] = queueDb[q].wred /\ h[q] = n.wred
      BY <2>1
    <3> HIDE DEF f, h
    <3>2. Renamed(ProfQueues, f, h, q)
      BY <3>0, <3>1, OneRenames
    <3> QED BY <3>1, <3>2 DEF f, h, Renamed
  <2>3. wredDb[w].ref \in Nat /\ wredDb'[w].ref \in Nat
    BY <1>1 DEF ProfTyped, ProfRecs
  <2>4. wredDb[w].ref >= Named(ProfQueues, WredOf(queueDb), w)
    BY DEF ProfInv, WredCounted
  <2>5. wredDb'[w].ref >= wredDb[w].ref + (IF n.wred = w THEN 1 ELSE 0) - (IF queueDb[q].wred = w THEN 1 ELSE 0)
    BY DEF Recounts
  <2>6. wredDb'[w].ref >= Named(ProfQueues, WredOf(queueDb'), w)
    BY <2>2, <2>3, <2>4, <2>5
  <2> QED BY <2>6 DEF WredCounted
<1>4. ASSUME NEW b \in Bufs PROVE BufCounted(b)'
  <2>1. /\ \A r \in ProfQueues : r # q => BufOf(queueDb')[r] = BufOf(queueDb)[r]
        /\ BufOf(queueDb)[q] = queueDb[q].buf /\ BufOf(queueDb')[q] = n.buf
    BY <1>2 DEF BufOf
  <2>2. /\ Named(ProfQueues, BufOf(queueDb), b) \in Nat
        /\ Named(ProfQueues, BufOf(queueDb'), b) = Named(ProfQueues, BufOf(queueDb), b)
             + (IF n.buf = b THEN 1 ELSE 0) - (IF queueDb[q].buf = b THEN 1 ELSE 0)
    <3> DEFINE f == BufOf(queueDb)
               h == BufOf(queueDb')
    <3>0. IsFiniteSet(ProfQueues)
      BY ProfileAssumption
    <3>1. /\ \A r \in ProfQueues : r # q => h[r] = f[r]
          /\ f[q] = queueDb[q].buf /\ h[q] = n.buf
      BY <2>1
    <3> HIDE DEF f, h
    <3>2. Renamed(ProfQueues, f, h, q)
      BY <3>0, <3>1, OneRenames
    <3> QED BY <3>1, <3>2 DEF f, h, Renamed
  <2>3. bufDb[b].ref \in Nat /\ bufDb'[b].ref \in Nat
    BY <1>1 DEF ProfTyped, ProfRecs
  <2>4. bufDb[b].ref >= Named(ProfQueues, BufOf(queueDb), b) + Named(Pgs, PgOf(pgDb), b)
    BY DEF ProfInv, BufCounted
  <2>5. bufDb'[b].ref >= bufDb[b].ref + (IF n.buf = b THEN 1 ELSE 0) - (IF queueDb[q].buf = b THEN 1 ELSE 0)
    BY DEF Recounts
  <2>6. Named(Pgs, PgOf(pgDb), b) \in Nat
    BY NamedFact, ProfileAssumption
  <2>7. bufDb'[b].ref >= Named(ProfQueues, BufOf(queueDb'), b) + Named(Pgs, PgOf(pgDb), b)
    BY <2>2, <2>3, <2>4, <2>5, <2>6
  <2> QED BY <2>7 DEF BufCounted
<1>5. ASSUME NEW r \in ProfQueues PROVE ProfQueueOk(r)'
  <2>0. /\ \A w \in Wreds : wredDb'[w].live = wredDb[w].live /\ wredDb'[w].th = wredDb[w].th
        /\ \A b \in Bufs : bufDb'[b].live = bufDb[b].live /\ bufDb'[b].th = bufDb[b].th
    BY DEF Recounts, OnlyCounts
  <2>1. CASE r = q
    <3>1. /\ n.wred # 0 => wredDb'[n.wred].live /\ wredDb'[n.wred].th = wredDb[n.wred].th
          /\ n.buf # 0 => bufDb'[n.buf].live /\ bufDb'[n.buf].th = bufDb[n.buf].th
      BY <2>0 DEF QueueRecs
    <3>2. q \notin mixed' => ~Both(n) /\ (q \in mixed => n = NoQueue)
      BY <1>2 DEF Mix, Both
    <3>3. q \notin mixed' => hwDrop'[q] = SchemeOf(q)'
      BY <3>1, <3>2, <1>2 DEF SchemeOf
    <3>4. q \in mixed' => n # NoQueue
      BY <1>2 DEF Mix, NoQueue
    <3> QED BY <2>1, <3>1, <3>2, <3>3, <3>4, <1>2 DEF ProfQueueOk
  <2>2. CASE r # q
    <3>1. queueDb'[r] = queueDb[r] /\ hwDrop'[r] = hwDrop[r] /\ queueDb[r] \in QueueRecs /\ ProfQueueOk(r)
      BY <2>2, <1>1, <1>2 DEF ProfInv, ProfTyped
    <3>2. /\ queueDb[r].wred # 0 => wredDb'[queueDb[r].wred].live = wredDb[queueDb[r].wred].live
                                    /\ wredDb'[queueDb[r].wred].th = wredDb[queueDb[r].wred].th
          /\ queueDb[r].buf # 0 => bufDb'[queueDb[r].buf].live = bufDb[queueDb[r].buf].live
                                    /\ bufDb'[queueDb[r].buf].th = bufDb[queueDb[r].buf].th
      BY <2>0, <3>1 DEF QueueRecs
    <3>3. SchemeOf(r)' = SchemeOf(r)
      BY <3>1, <3>2 DEF SchemeOf
    <3>4. r \in mixed' => queueDb[r] # NoQueue
      BY <3>1 DEF Mix, NoQueue
    <3>5. r \notin mixed' => r \notin mixed
      BY <3>1 DEF Mix, ProfQueueOk
    <3> QED BY <3>1, <3>2, <3>3, <3>4, <3>5 DEF ProfQueueOk
  <2> QED BY <2>1, <2>2
<1>6. ASSUME NEW g \in Pgs PROVE PgOk(g)'
  <2>1. PgOk(g) /\ pgDb[g] \in PgRecs /\ pgDb'[g] = pgDb[g] /\ hwPfc'[g] = hwPfc[g]
    BY <1>1 DEF ProfInv, ProfTyped
  <2>2. pgDb[g].buf # 0 => bufDb'[pgDb[g].buf].live = bufDb[pgDb[g].buf].live
                            /\ bufDb'[pgDb[g].buf].xoff = bufDb[pgDb[g].buf].xoff
    BY <2>1 DEF Recounts, OnlyCounts, PgRecs
  <2> QED BY <2>1, <2>2 DEF PgOk
<1> QED BY <1>1, <1>3, <1>4, <1>5, <1>6 DEF ProfInv

(* A profile counts no user when it is not there or its count is 0. *)
LEMMA UnusedWred ==
  ASSUME ProfInv, NEW w \in Wreds, ~wredDb[w].live \/ wredDb[w].ref = 0
  PROVE  \A q \in ProfQueues : queueDb[q].wred # w
PROOF
<1> SUFFICES ASSUME NEW q \in ProfQueues, queueDb[q].wred = w PROVE FALSE
  OBVIOUS
<1>1. w # 0 /\ wredDb[w].live
  BY ProfileAssumption DEF ProfInv, ProfQueueOk
<1>2. WredOf(queueDb)[q] = w
  BY DEF WredOf
<1>3. Named(ProfQueues, WredOf(queueDb), w) \in Nat /\ Named(ProfQueues, WredOf(queueDb), w) # 0
  BY <1>2, NamedFact, ProfileAssumption
<1>4. wredDb[w].ref >= Named(ProfQueues, WredOf(queueDb), w)
  BY DEF ProfInv, WredCounted
<1> QED BY <1>1, <1>3, <1>4

(* No queue or priority group has a buffer profile without users. *)
LEMMA UnusedBuffer ==
  ASSUME ProfInv, NEW b \in Bufs, ~bufDb[b].live \/ bufDb[b].ref = 0
  PROVE  (\A q \in ProfQueues : queueDb[q].buf # b) /\ (\A g \in Pgs : pgDb[g].buf # b)
PROOF
<1>1. b # 0
  BY ProfileAssumption
<1>2. Named(ProfQueues, BufOf(queueDb), b) \in Nat /\ Named(Pgs, PgOf(pgDb), b) \in Nat
  BY NamedFact, ProfileAssumption
<1>3. bufDb[b].ref >= Named(ProfQueues, BufOf(queueDb), b) + Named(Pgs, PgOf(pgDb), b)
  BY DEF ProfInv, BufCounted
<1>4. bufDb[b].ref = 0 => Named(ProfQueues, BufOf(queueDb), b) = 0 /\ Named(Pgs, PgOf(pgDb), b) = 0
  BY <1>2, <1>3
<1>5. ASSUME NEW q \in ProfQueues PROVE queueDb[q].buf # b
  <2>1. bufDb[b].ref = 0 => BufOf(queueDb)[q] # b
    BY <1>4, NamedFact, ProfileAssumption
  <2>2. queueDb[q].buf = b => bufDb[b].live
    BY <1>1 DEF ProfInv, ProfQueueOk
  <2> QED BY <2>1, <2>2 DEF BufOf
<1>6. ASSUME NEW g \in Pgs PROVE pgDb[g].buf # b
  <2>1. bufDb[b].ref = 0 => PgOf(pgDb)[g] # b
    BY <1>4, NamedFact, ProfileAssumption
  <2>2. pgDb[g].buf = b => bufDb[b].live
    BY <1>1 DEF ProfInv, PgOk
  <2> QED BY <2>1, <2>2 DEF PgOf
<1> QED BY <1>5, <1>6

(* An unused profile is created or removed. *)
LEMMA WredsKeep ==
  ASSUME ProfInv, NEW w \in Wreds, (\E v \in Thresholds : CreateWred(w, v)) \/ RemoveWred(w)
  PROVE  ProfInv'
PROOF
<1>1. PICK rec \in ProfRecs : wredDb' = [wredDb EXCEPT ![w] = rec]
  <2>1. NoProf \in ProfRecs /\ \A v \in Thresholds : FreshProf(v) \in ProfRecs
    BY ProfileAssumption DEF NoProf, FreshProf, ProfRecs
  <2> QED BY <2>1 DEF CreateWred, RemoveWred
<1>2. \A q \in ProfQueues : queueDb[q].wred # w
  BY UnusedWred DEF CreateWred, RemoveWred
<1>3. UNCHANGED <<bufDb, queueDb, pgDb, hwDrop, hwPfc, mixed>>
  BY DEF CreateWred, RemoveWred
<1>4. ProfTyped /\ ProfTyped'
  BY <1>1, <1>3 DEF ProfInv, ProfTyped
<1>5. wredDb'[w] = rec /\ \A x \in Wreds : x # w => wredDb'[x] = wredDb[x]
  BY <1>1, <1>4 DEF ProfTyped
<1>6. ASSUME NEW x \in Wreds PROVE WredCounted(x)'
  <2>1. CASE x = w
    <3>1. \A q \in ProfQueues : WredOf(queueDb)[q] # x
      BY <2>1, <1>2 DEF WredOf
    <3>2. Named(ProfQueues, WredOf(queueDb), x) = 0
      BY <3>1, NoneNamed
    <3> QED BY <3>2, <2>1, <1>3, <1>5 DEF WredCounted, ProfRecs
  <2>2. CASE x # w
    BY <2>2, <1>3, <1>5 DEF ProfInv, WredCounted
  <2> QED BY <2>1, <2>2
<1>7. ASSUME NEW q \in ProfQueues PROVE ProfQueueOk(q)'
  <2>1. queueDb[q].wred # 0 => wredDb'[queueDb[q].wred] = wredDb[queueDb[q].wred]
    BY <1>2, <1>4, <1>5 DEF ProfTyped, QueueRecs
  <2>2. SchemeOf(q)' = SchemeOf(q)
    BY <2>1, <1>3 DEF SchemeOf
  <2> QED BY <2>1, <2>2, <1>3 DEF ProfInv, ProfQueueOk
<1>8. \A g \in Pgs : PgOk(g)'
  BY <1>3 DEF ProfInv, PgOk
<1>9. \A b \in Bufs : BufCounted(b)'
  BY <1>3 DEF ProfInv, BufCounted
<1> QED BY <1>4, <1>6, <1>7, <1>8, <1>9 DEF ProfInv

(* A buffer profile is created or removed. *)
LEMMA BuffersKeep ==
  ASSUME ProfInv, NEW b \in Bufs, (\E v \in Thresholds : CreateBuffer(b, v)) \/ RemoveBuffer(b)
  PROVE  ProfInv'
PROOF
<1>1. PICK rec \in ProfRecs : bufDb' = [bufDb EXCEPT ![b] = rec]
  <2>1. NoProf \in ProfRecs /\ \A v \in Thresholds : FreshProf(v) \in ProfRecs
    BY ProfileAssumption DEF NoProf, FreshProf, ProfRecs
  <2> QED BY <2>1 DEF CreateBuffer, RemoveBuffer
<1>2. (\A q \in ProfQueues : queueDb[q].buf # b) /\ (\A g \in Pgs : pgDb[g].buf # b)
  BY UnusedBuffer DEF CreateBuffer, RemoveBuffer
<1>3. UNCHANGED <<wredDb, queueDb, pgDb, hwDrop, hwPfc, mixed>>
  BY DEF CreateBuffer, RemoveBuffer
<1>4. ProfTyped /\ ProfTyped'
  BY <1>1, <1>3 DEF ProfInv, ProfTyped
<1>5. bufDb'[b] = rec /\ \A x \in Bufs : x # b => bufDb'[x] = bufDb[x]
  BY <1>1, <1>4 DEF ProfTyped
<1>6. ASSUME NEW x \in Bufs PROVE BufCounted(x)'
  <2>1. CASE x = b
    <3>1. (\A q \in ProfQueues : BufOf(queueDb)[q] # x) /\ (\A g \in Pgs : PgOf(pgDb)[g] # x)
      BY <2>1, <1>2 DEF BufOf, PgOf
    <3>2. Named(ProfQueues, BufOf(queueDb), x) = 0 /\ Named(Pgs, PgOf(pgDb), x) = 0
      BY <3>1, NoneNamed
    <3> QED BY <3>2, <2>1, <1>3, <1>5 DEF BufCounted, ProfRecs
  <2>2. CASE x # b
    BY <2>2, <1>3, <1>5 DEF ProfInv, BufCounted
  <2> QED BY <2>1, <2>2
<1>7. ASSUME NEW q \in ProfQueues PROVE ProfQueueOk(q)'
  <2>1. queueDb[q].buf # 0 => bufDb'[queueDb[q].buf] = bufDb[queueDb[q].buf]
    BY <1>2, <1>4, <1>5 DEF ProfTyped, QueueRecs
  <2>2. SchemeOf(q)' = SchemeOf(q)
    BY <2>1, <1>3 DEF SchemeOf
  <2> QED BY <2>1, <2>2, <1>3 DEF ProfInv, ProfQueueOk
<1>8. ASSUME NEW g \in Pgs PROVE PgOk(g)'
  <2>1. pgDb[g].buf # 0 => bufDb'[pgDb[g].buf] = bufDb[pgDb[g].buf]
    BY <1>2, <1>4, <1>5 DEF ProfTyped, PgRecs
  <2> QED BY <2>1, <1>3 DEF ProfInv, PgOk
<1>9. \A w \in Wreds : WredCounted(w)'
  BY <1>3 DEF ProfInv, WredCounted
<1> QED BY <1>4, <1>6, <1>7, <1>8, <1>9 DEF ProfInv

(* The counts of the profile calls of a queue. *)
LEMMA SameCounts ==
  ASSUME NEW P, NEW db \in [P -> ProfRecs], NEW a
  PROVE  Recounts(P, db, db, a, a)
PROOF
<1>1. \A p \in P : db[p].ref \in Nat
  BY DEF ProfRecs
<1>2. \A p \in P : db[p].ref >= db[p].ref + (IF a = p THEN 1 ELSE 0) - (IF a = p THEN 1 ELSE 0)
  BY <1>1
<1> QED BY <1>2 DEF Recounts, OnlyCounts

(* A profile gets a user. *)
LEMMA UpCounts ==
  ASSUME NEW P, NEW db \in [P -> ProfRecs], NEW b \in P, NEW a, a = b \/ a \notin P
  PROVE  Recounts(P, db, [db EXCEPT ![b].ref = @ + 1], a, b)
PROOF
<1> DEFINE up == [db EXCEPT ![b].ref = @ + 1]
<1>1. OnlyCounts(P, db, up) /\ \A p \in P : up[p].ref = db[p].ref + (IF p = b THEN 1 ELSE 0)
  BY CountedUp DEF OnlyCounts
<1>2. \A p \in P : db[p].ref \in Nat
  BY DEF ProfRecs
<1> HIDE DEF up
<1>3. \A p \in P : up[p].ref >= db[p].ref + (IF b = p THEN 1 ELSE 0) - (IF a = p THEN 1 ELSE 0)
  BY <1>1, <1>2
<1>4. Recounts(P, db, up, a, b)
  BY <1>1, <1>3 DEF Recounts
<1> QED BY <1>4 DEF up

(* A profile loses a user. *)
LEMMA DownCounts ==
  ASSUME NEW P, NEW db \in [P -> ProfRecs], NEW a \in P, NEW b, b \notin P
  PROVE  Recounts(P, db, Down(db, a), a, b)
PROOF
<1> DEFINE down == Down(db, a)
<1>1. OnlyCounts(P, db, down) /\ \A p \in P : down[p].ref >= db[p].ref - (IF p = a THEN 1 ELSE 0)
  BY CountedDown DEF OnlyCounts
<1>2. \A p \in P : db[p].ref \in Nat /\ down[p].ref \in Nat
  BY <1>1 DEF ProfRecs, OnlyCounts
<1> HIDE DEF down
<1>3. \A p \in P : down[p].ref >= db[p].ref + (IF b = p THEN 1 ELSE 0) - (IF a = p THEN 1 ELSE 0)
  BY <1>1, <1>2
<1>4. Recounts(P, db, down, a, b)
  BY <1>1, <1>3 DEF Recounts
<1> QED BY <1>4 DEF down

(* A user changes from one profile to another. *)
LEMMA UpDownCounts ==
  ASSUME NEW P, NEW db \in [P -> ProfRecs], NEW a \in P, NEW b \in P, a # b
  PROVE  Recounts(P, db, Down([db EXCEPT ![b].ref = @ + 1], a), a, b)
PROOF
<1> DEFINE up == [db EXCEPT ![b].ref = @ + 1]
           new == Down(up, a)
<1>1. OnlyCounts(P, db, up) /\ \A p \in P : up[p].ref = db[p].ref + (IF p = b THEN 1 ELSE 0)
  BY CountedUp DEF OnlyCounts
<1> HIDE DEF up
<1>2. OnlyCounts(P, up, new) /\ \A p \in P : new[p].ref >= up[p].ref - (IF p = a THEN 1 ELSE 0)
  BY <1>1, CountedDown DEF OnlyCounts
<1> HIDE DEF new
<1>3. \A p \in P : db[p].ref \in Nat /\ up[p].ref \in Nat /\ new[p].ref \in Nat
  BY <1>1, <1>2 DEF ProfRecs, OnlyCounts
<1>4. \A p \in P : new[p].ref >= db[p].ref + (IF b = p THEN 1 ELSE 0) - (IF a = p THEN 1 ELSE 0)
  BY <1>1, <1>2, <1>3
<1>5. OnlyCounts(P, db, new)
  BY <1>1, <1>2 DEF OnlyCounts
<1>6. Recounts(P, db, new, a, b)
  BY <1>4, <1>5 DEF Recounts
<1> QED BY <1>6 DEF new, up

(* The types of what one call on a queue reads and writes. *)
LEMMA QueueTypes ==
  ASSUME ProfInv, NEW q \in ProfQueues
  PROVE  /\ queueDb \in [ProfQueues -> QueueRecs] /\ queueDb[q] \in QueueRecs
         /\ wredDb \in [Wreds -> ProfRecs] /\ bufDb \in [Bufs -> ProfRecs]
         /\ 0 \notin Wreds /\ 0 \notin Bufs
         /\ \A w \in Wreds : EarlyDrop(wredDb[w].th) \in Schemes
         /\ \A b \in Bufs : TailDrop(bufDb[b].th) \in Schemes
         /\ TailDrop(0) \in Schemes
         /\ queueDb[q].wred # 0 => wredDb[queueDb[q].wred].live
         /\ queueDb[q].buf # 0 => bufDb[queueDb[q].buf].live
         /\ q \notin mixed => ~Both(queueDb[q])
BY ProfileAssumption DEF ProfInv, ProfTyped, ProfRecs, EarlyDrop, TailDrop, Schemes, ProfQueueOk

(* The WRED profile of a queue set or taken off. *)
LEMMA QueueSetWredKeeps ==
  ASSUME ProfInv, NEW q \in ProfQueues, NEW w \in Wreds, QueueSetWred(q, w)
  PROVE  ProfInv'
PROOF
<1> DEFINE n == [wred |-> w, buf |-> queueDb[q].buf]
           old == queueDb[q].wred
<1>1. /\ queueDb \in [ProfQueues -> QueueRecs] /\ queueDb[q] \in QueueRecs
      /\ wredDb \in [Wreds -> ProfRecs] /\ bufDb \in [Bufs -> ProfRecs] /\ 0 \notin Wreds
      /\ EarlyDrop(wredDb[w].th) \in Schemes
      /\ queueDb[q].buf # 0 => bufDb[queueDb[q].buf].live
  BY QueueTypes
<1>2. n \in QueueRecs /\ n.wred = w /\ n.buf = queueDb[q].buf /\ w # 0
  BY <1>1 DEF QueueRecs
<1>3. queueDb' = [queueDb EXCEPT ![q] = n]
  <2>1. queueDb' = [queueDb EXCEPT ![q] = [queueDb[q] EXCEPT !.wred = w]]
    BY DEF QueueSetWred
  <2> QED BY <2>1, <1>1, FieldChanged
<1>4. Recounts(Wreds, wredDb, wredDb', old, w)
  <2>1. CASE old \in {0, w}
    <3>1. wredDb' = [wredDb EXCEPT ![w].ref = @ + 1]
      BY <2>1 DEF QueueSetWred
    <3> QED BY <3>1, <2>1, <1>1, UpCounts
  <2>2. CASE old \notin {0, w}
    <3>1. wredDb' = Down([wredDb EXCEPT ![w].ref = @ + 1], old) /\ old \in Wreds /\ old # w
      BY <2>2, <1>1 DEF QueueSetWred, QueueRecs
    <3> QED BY <3>1, <1>1, UpDownCounts
  <2> QED BY <2>1, <2>2
<1>5. /\ hwDrop' = [hwDrop EXCEPT ![q] = EarlyDrop(wredDb[w].th)] /\ mixed' = Mix(queueDb')
      /\ UNCHANGED <<bufDb, pgDb, hwPfc>> /\ wredDb[w].live
  BY DEF QueueSetWred
<1>6. Recounts(Bufs, bufDb, bufDb', queueDb[q].buf, n.buf)
  BY <1>1, <1>2, <1>5, SameCounts
<1>7. Recounts(Wreds, wredDb, wredDb', queueDb[q].wred, n.wred)
  BY <1>2, <1>4
<1> HIDE DEF n
<1> QED BY <1>1, <1>2, <1>3, <1>5, <1>6, <1>7, QueueStep

(* A queue gives up its WRED profile. *)
LEMMA QueueUnsetWredKeeps ==
  ASSUME ProfInv, NEW q \in ProfQueues, QueueUnsetWred(q)
  PROVE  ProfInv'
PROOF
<1> DEFINE n == [wred |-> 0, buf |-> queueDb[q].buf]
           old == queueDb[q].wred
<1>1. /\ queueDb \in [ProfQueues -> QueueRecs] /\ queueDb[q] \in QueueRecs
      /\ wredDb \in [Wreds -> ProfRecs] /\ bufDb \in [Bufs -> ProfRecs] /\ 0 \notin Wreds
      /\ TailDrop(0) \in Schemes /\ (q \notin mixed => ~Both(queueDb[q]))
      /\ queueDb[q].buf # 0 => bufDb[queueDb[q].buf].live
  BY QueueTypes
<1>2. n \in QueueRecs /\ n.wred = 0 /\ n.buf = queueDb[q].buf
  BY <1>1 DEF QueueRecs
<1>3. queueDb' = [queueDb EXCEPT ![q] = n]
  <2>1. queueDb' = [queueDb EXCEPT ![q] = [queueDb[q] EXCEPT !.wred = 0]]
    BY DEF QueueUnsetWred
  <2> QED BY <2>1, <1>1, FieldChanged
<1>4. Recounts(Wreds, wredDb, wredDb', old, 0)
  <2>1. wredDb' = Down(wredDb, old) /\ old \in Wreds
    BY <1>1 DEF QueueUnsetWred, QueueRecs
  <2> QED BY <2>1, <1>1, DownCounts
<1>5. /\ hwDrop' = [hwDrop EXCEPT ![q] = TailDrop(0)] /\ mixed' = Mix(queueDb')
      /\ UNCHANGED <<bufDb, pgDb, hwPfc>> /\ old # 0
  BY DEF QueueUnsetWred
<1>6. Recounts(Bufs, bufDb, bufDb', queueDb[q].buf, n.buf)
  BY <1>1, <1>2, <1>5, SameCounts
<1>7. Recounts(Wreds, wredDb, wredDb', queueDb[q].wred, n.wred)
  BY <1>2, <1>4
<1>8. (q \in mixed => n = NoQueue) => n.buf = 0
  BY <1>1, <1>2, <1>5 DEF Both, NoQueue
<1> HIDE DEF n
<1> QED BY <1>1, <1>2, <1>3, <1>5, <1>6, <1>7, <1>8, QueueStep

(* A buffer profile named anew is counted once. *)
LEMMA RecountedFact ==
  ASSUME NEW db \in [Bufs -> ProfRecs], NEW old \in Bufs \cup {0}, NEW b \in Bufs
  PROVE  Recounts(Bufs, db, Recounted(db, old, b), old, b)
PROOF
<1>1. CASE old = b
  <2>1. Recounted(db, old, b) = db
    BY <1>1 DEF Recounted
  <2> QED BY <2>1, <1>1, SameCounts
<1>2. CASE old = 0
  <2>1. Recounted(db, old, b) = [db EXCEPT ![b].ref = @ + 1] /\ old \notin Bufs
    BY <1>2, ProfileAssumption DEF Recounted
  <2>2. Recounts(Bufs, db, [db EXCEPT ![b].ref = @ + 1], old, b)
    BY <2>1, UpCounts
  <2> QED BY <2>1, <2>2
<1>3. CASE old \notin {0, b}
  <2>1. Recounted(db, old, b) = Down([db EXCEPT ![b].ref = @ + 1], old) /\ old \in Bufs
    BY <1>3 DEF Recounted
  <2>2. Recounts(Bufs, db, Down([db EXCEPT ![b].ref = @ + 1], old), old, b)
    BY <2>1, <1>3, UpDownCounts
  <2> QED BY <2>1, <2>2
<1> QED BY <1>1, <1>2, <1>3

(* The buffer profile of a queue set or taken off. *)
LEMMA QueueSetBufferKeeps ==
  ASSUME ProfInv, NEW q \in ProfQueues, NEW b \in Bufs, QueueSetBuffer(q, b)
  PROVE  ProfInv'
PROOF
<1> DEFINE n == [wred |-> queueDb[q].wred, buf |-> b]
<1>1. /\ queueDb \in [ProfQueues -> QueueRecs] /\ queueDb[q] \in QueueRecs
      /\ wredDb \in [Wreds -> ProfRecs] /\ bufDb \in [Bufs -> ProfRecs] /\ 0 \notin Bufs
      /\ TailDrop(bufDb[b].th) \in Schemes
      /\ queueDb[q].wred # 0 => wredDb[queueDb[q].wred].live
  BY QueueTypes
<1>2. n \in QueueRecs /\ n.buf = b /\ n.wred = queueDb[q].wred /\ b # 0
  BY <1>1 DEF QueueRecs
<1>3. queueDb' = [queueDb EXCEPT ![q] = n]
  <2>1. queueDb' = [queueDb EXCEPT ![q] = [queueDb[q] EXCEPT !.buf = b]]
    BY DEF QueueSetBuffer
  <2> QED BY <2>1, <1>1, FieldChanged
<1>4. /\ bufDb' = Recounted(bufDb, queueDb[q].buf, b) /\ bufDb[b].live
      /\ hwDrop' = [hwDrop EXCEPT ![q] = TailDrop(bufDb[b].th)] /\ mixed' = Mix(queueDb')
      /\ UNCHANGED <<wredDb, pgDb, hwPfc>>
  BY DEF QueueSetBuffer
<1>5. queueDb[q].buf \in Bufs \cup {0}
  BY <1>1 DEF QueueRecs
<1>6. Recounts(Bufs, bufDb, bufDb', queueDb[q].buf, n.buf)
  BY <1>1, <1>2, <1>4, <1>5, RecountedFact
<1>7. Recounts(Wreds, wredDb, wredDb', queueDb[q].wred, n.wred)
  BY <1>1, <1>2, <1>4, SameCounts
<1>8. ~Both(n) => n.wred = 0
  BY <1>2 DEF Both
<1> HIDE DEF n
<1> QED BY <1>1, <1>2, <1>3, <1>4, <1>6, <1>7, <1>8, QueueStep

(* A queue gives up its buffer profile. *)
LEMMA QueueUnsetBufferKeeps ==
  ASSUME ProfInv, NEW q \in ProfQueues, QueueUnsetBuffer(q)
  PROVE  ProfInv'
PROOF
<1> DEFINE n == [wred |-> queueDb[q].wred, buf |-> 0]
           old == queueDb[q].buf
<1>1. /\ queueDb \in [ProfQueues -> QueueRecs] /\ queueDb[q] \in QueueRecs
      /\ wredDb \in [Wreds -> ProfRecs] /\ bufDb \in [Bufs -> ProfRecs] /\ 0 \notin Bufs
      /\ TailDrop(0) \in Schemes /\ (q \notin mixed => ~Both(queueDb[q]))
      /\ queueDb[q].wred # 0 => wredDb[queueDb[q].wred].live
  BY QueueTypes
<1>2. n \in QueueRecs /\ n.buf = 0 /\ n.wred = queueDb[q].wred
  BY <1>1 DEF QueueRecs
<1>3. queueDb' = [queueDb EXCEPT ![q] = n]
  <2>1. queueDb' = [queueDb EXCEPT ![q] = [queueDb[q] EXCEPT !.buf = 0]]
    BY DEF QueueUnsetBuffer
  <2> QED BY <2>1, <1>1, FieldChanged
<1>4. Recounts(Bufs, bufDb, bufDb', old, 0)
  <2>1. bufDb' = Down(bufDb, old) /\ old \in Bufs
    BY <1>1 DEF QueueUnsetBuffer, QueueRecs
  <2> QED BY <2>1, <1>1, DownCounts
<1>5. /\ hwDrop' = [hwDrop EXCEPT ![q] = TailDrop(0)] /\ mixed' = Mix(queueDb')
      /\ UNCHANGED <<wredDb, pgDb, hwPfc>> /\ old # 0
  BY DEF QueueUnsetBuffer
<1>6. Recounts(Wreds, wredDb, wredDb', queueDb[q].wred, n.wred)
  BY <1>1, <1>2, <1>5, SameCounts
<1>7. Recounts(Bufs, bufDb, bufDb', queueDb[q].buf, n.buf)
  BY <1>2, <1>4
<1>8. (q \in mixed => n = NoQueue) => n.wred = 0
  BY <1>1, <1>2, <1>5 DEF Both, NoQueue
<1> HIDE DEF n
<1> QED BY <1>1, <1>2, <1>3, <1>5, <1>6, <1>7, <1>8, QueueStep

(* A queue created with both profiles, or with the first alone when there *)
(* is no second. *)
LEMMA CreateQueueKeeps ==
  ASSUME ProfInv, NEW q \in ProfQueues, NEW w \in Wreds, NEW b \in Bufs, CreateQueue(q, w, b)
  PROVE  ProfInv'
PROOF
<1> DEFINE n == [wred |-> w, buf |-> IF bufDb[b].live THEN b ELSE 0]
           s == IF bufDb[b].live THEN TailDrop(bufDb[b].th) ELSE EarlyDrop(wredDb[w].th)
<1>1. /\ queueDb \in [ProfQueues -> QueueRecs]
      /\ wredDb \in [Wreds -> ProfRecs] /\ bufDb \in [Bufs -> ProfRecs] /\ 0 \notin Bufs /\ 0 \notin Wreds
      /\ TailDrop(bufDb[b].th) \in Schemes /\ EarlyDrop(wredDb[w].th) \in Schemes
  BY QueueTypes
<1>2. n \in QueueRecs /\ n.wred = w /\ n.wred # 0 /\ s \in Schemes
      /\ n.buf = (IF bufDb[b].live THEN b ELSE 0)
  BY <1>1 DEF QueueRecs
<1>3. queueDb[q].wred = 0 /\ queueDb[q].buf = 0 /\ queueDb[q] = NoQueue
  BY DEF CreateQueue, NoQueue
<1>4. queueDb' = [queueDb EXCEPT ![q] = n]
  <2>1. CASE bufDb[b].live
    BY <2>1 DEF CreateQueue
  <2>2. CASE ~bufDb[b].live
    <3>1. queueDb' = [queueDb EXCEPT ![q].wred = w]
      BY <2>2 DEF CreateQueue
    <3>2. [queueDb[q] EXCEPT !.wred = w] = n
      BY <2>2, <1>3 DEF NoQueue
    <3> QED BY <3>1, <3>2, <1>1
  <2> QED BY <2>1, <2>2
<1>5. Recounts(Wreds, wredDb, wredDb', 0, w)
  <2>1. wredDb' = [wredDb EXCEPT ![w].ref = @ + 1]
    BY DEF CreateQueue
  <2> QED BY <2>1, <1>1, UpCounts
<1>6. Recounts(Bufs, bufDb, bufDb', 0, n.buf)
  <2>1. CASE bufDb[b].live
    <3>1. bufDb' = [bufDb EXCEPT ![b].ref = @ + 1] /\ n.buf = b
      BY <2>1 DEF CreateQueue
    <3> QED BY <3>1, <1>1, UpCounts
  <2>2. CASE ~bufDb[b].live
    <3>1. bufDb' = bufDb /\ n.buf = 0
      BY <2>2 DEF CreateQueue
    <3> QED BY <3>1, <1>1, SameCounts
  <2> QED BY <2>1, <2>2
<1>7. hwDrop' = [hwDrop EXCEPT ![q] = s] /\ mixed' = Mix(queueDb') /\ UNCHANGED <<pgDb, hwPfc>>
      /\ wredDb[w].live
  BY DEF CreateQueue
<1>8. ~Both(n) => s = EarlyDrop(wredDb[n.wred].th)
  BY <1>1, <1>2 DEF Both
<1>9. Recounts(Wreds, wredDb, wredDb', queueDb[q].wred, n.wred)
  BY <1>2, <1>3, <1>5
<1>10. Recounts(Bufs, bufDb, bufDb', queueDb[q].buf, n.buf)
  BY <1>3, <1>6
<1>11. n.buf # 0 => bufDb[n.buf].live
  BY <1>2
<1> HIDE DEF n, s
<1> QED BY <1>1, <1>2, <1>4, <1>7, <1>8, <1>9, <1>10, <1>11, QueueStep

(* A queue is removed, with what it has. *)
LEMMA RemoveQueueKeeps ==
  ASSUME ProfInv, NEW q \in ProfQueues, RemoveQueue(q)
  PROVE  ProfInv'
PROOF
<1> DEFINE w == queueDb[q].wred
           b == queueDb[q].buf
<1>1. /\ queueDb \in [ProfQueues -> QueueRecs] /\ queueDb[q] \in QueueRecs
      /\ wredDb \in [Wreds -> ProfRecs] /\ bufDb \in [Bufs -> ProfRecs] /\ 0 \notin Bufs /\ 0 \notin Wreds
      /\ TailDrop(0) \in Schemes
  BY QueueTypes
<1>2. NoQueue \in QueueRecs /\ NoQueue.wred = 0 /\ NoQueue.buf = 0
  BY DEF QueueRecs, NoQueue
<1>3. Recounts(Wreds, wredDb, wredDb', w, 0)
  <2>1. CASE w = 0
    <3>1. wredDb' = wredDb
      BY <2>1 DEF RemoveQueue
    <3> QED BY <3>1, <2>1, <1>1, SameCounts
  <2>2. CASE w # 0
    <3>1. wredDb' = Down(wredDb, w) /\ w \in Wreds
      BY <2>2, <1>1 DEF RemoveQueue, QueueRecs
    <3> QED BY <3>1, <1>1, DownCounts
  <2> QED BY <2>1, <2>2
<1>4. Recounts(Bufs, bufDb, bufDb', b, 0)
  <2>1. CASE b = 0
    <3>1. bufDb' = bufDb
      BY <2>1 DEF RemoveQueue
    <3> QED BY <3>1, <2>1, <1>1, SameCounts
  <2>2. CASE b # 0
    <3>1. bufDb' = Down(bufDb, b) /\ b \in Bufs
      BY <2>2, <1>1 DEF RemoveQueue, QueueRecs
    <3> QED BY <3>1, <1>1, DownCounts
  <2> QED BY <2>1, <2>2
<1>5. /\ queueDb' = [queueDb EXCEPT ![q] = NoQueue] /\ hwDrop' = [hwDrop EXCEPT ![q] = TailDrop(0)]
      /\ mixed' = Mix(queueDb') /\ UNCHANGED <<pgDb, hwPfc>>
  BY DEF RemoveQueue
<1>6. Recounts(Wreds, wredDb, wredDb', queueDb[q].wred, NoQueue.wred)
      /\ Recounts(Bufs, bufDb, bufDb', queueDb[q].buf, NoQueue.buf)
  BY <1>2, <1>3, <1>4
<1> QED BY <1>1, <1>2, <1>5, <1>6, QueueStep

(* A priority group that gets another record and thresholds. *)
LEMMA PgStep ==
  ASSUME ProfInv, NEW g \in Pgs, NEW n \in PgRecs, NEW v \in Nat,
         pgDb' = [pgDb EXCEPT ![g] = n], hwPfc' = [hwPfc EXCEPT ![g] = v],
         UNCHANGED <<wredDb, queueDb, hwDrop, mixed>>,
         Recounts(Bufs, bufDb, bufDb', pgDb[g].buf, n.buf),
         ~n.live => n.buf = 0,
         n.live => IF n.buf = 0 THEN v = 0 ELSE bufDb[n.buf].live /\ v = bufDb[n.buf].xoff
  PROVE  ProfInv'
PROOF
<1>1. ProfTyped /\ ProfTyped'
  BY DEF ProfInv, ProfTyped, Recounts, OnlyCounts
<1>2. /\ pgDb'[g] = n /\ hwPfc'[g] = v
      /\ \A h \in Pgs \ {g} : pgDb'[h] = pgDb[h] /\ hwPfc'[h] = hwPfc[h]
  BY <1>1 DEF ProfTyped
<1>3. /\ \A c \in Bufs : bufDb'[c].live = bufDb[c].live /\ bufDb'[c].th = bufDb[c].th
                        /\ bufDb'[c].xoff = bufDb[c].xoff
  BY DEF Recounts, OnlyCounts
<1>4. ASSUME NEW b \in Bufs PROVE BufCounted(b)'
  <2>1. /\ \A h \in Pgs : h # g => PgOf(pgDb')[h] = PgOf(pgDb)[h]
        /\ PgOf(pgDb)[g] = pgDb[g].buf /\ PgOf(pgDb')[g] = n.buf
    BY <1>2 DEF PgOf
  <2>2. /\ Named(Pgs, PgOf(pgDb), b) \in Nat
        /\ Named(Pgs, PgOf(pgDb'), b) = Named(Pgs, PgOf(pgDb), b)
             + (IF n.buf = b THEN 1 ELSE 0) - (IF pgDb[g].buf = b THEN 1 ELSE 0)
    <3> DEFINE f == PgOf(pgDb)
               h == PgOf(pgDb')
    <3>0. IsFiniteSet(Pgs)
      BY ProfileAssumption
    <3>1. /\ \A r \in Pgs : r # g => h[r] = f[r]
          /\ f[g] = pgDb[g].buf /\ h[g] = n.buf
      BY <2>1
    <3> HIDE DEF f, h
    <3>2. Renamed(Pgs, f, h, g)
      BY <3>0, <3>1, OneRenames
    <3> QED BY <3>1, <3>2 DEF f, h, Renamed
  <2>3. bufDb[b].ref \in Nat /\ bufDb'[b].ref \in Nat
    BY <1>1 DEF ProfTyped, ProfRecs
  <2>4. bufDb[b].ref >= Named(ProfQueues, BufOf(queueDb), b) + Named(Pgs, PgOf(pgDb), b)
    BY DEF ProfInv, BufCounted
  <2>5. bufDb'[b].ref >= bufDb[b].ref + (IF n.buf = b THEN 1 ELSE 0) - (IF pgDb[g].buf = b THEN 1 ELSE 0)
    BY DEF Recounts
  <2>6. Named(ProfQueues, BufOf(queueDb), b) \in Nat
    BY NamedFact, ProfileAssumption
  <2>7. bufDb'[b].ref >= Named(ProfQueues, BufOf(queueDb), b) + Named(Pgs, PgOf(pgDb'), b)
    BY <2>2, <2>3, <2>4, <2>5, <2>6
  <2> QED BY <2>7 DEF BufCounted
<1>5. ASSUME NEW q \in ProfQueues PROVE ProfQueueOk(q)'
  <2>1. ProfQueueOk(q) /\ queueDb[q] \in QueueRecs
    BY <1>1 DEF ProfInv, ProfTyped
  <2>2. queueDb[q].buf # 0 => bufDb'[queueDb[q].buf].live = bufDb[queueDb[q].buf].live
                              /\ bufDb'[queueDb[q].buf].th = bufDb[queueDb[q].buf].th
    BY <2>1, <1>3 DEF QueueRecs
  <2>3. SchemeOf(q)' = SchemeOf(q)
    BY <2>2 DEF SchemeOf
  <2> QED BY <2>1, <2>2, <2>3 DEF ProfQueueOk
<1>6. ASSUME NEW h \in Pgs PROVE PgOk(h)'
  <2>1. CASE h = g
    <3>1. n.buf # 0 => bufDb'[n.buf].live = bufDb[n.buf].live /\ bufDb'[n.buf].xoff = bufDb[n.buf].xoff
      BY <1>3 DEF PgRecs
    <3> QED BY <2>1, <3>1, <1>2 DEF PgOk
  <2>2. CASE h # g
    <3>1. PgOk(h) /\ pgDb[h] \in PgRecs /\ pgDb'[h] = pgDb[h] /\ hwPfc'[h] = hwPfc[h]
      BY <2>2, <1>1, <1>2 DEF ProfInv, ProfTyped
    <3>2. pgDb[h].buf # 0 => bufDb'[pgDb[h].buf].live = bufDb[pgDb[h].buf].live
                              /\ bufDb'[pgDb[h].buf].xoff = bufDb[pgDb[h].buf].xoff
      BY <3>1, <1>3 DEF PgRecs
    <3> QED BY <3>1, <3>2 DEF PgOk
  <2> QED BY <2>1, <2>2
<1>7. \A w \in Wreds : WredCounted(w)'
  BY DEF ProfInv, WredCounted
<1> QED BY <1>1, <1>4, <1>5, <1>6, <1>7 DEF ProfInv

(* The profile of a priority group set or taken off, and the record freed. *)
LEMMA PgSetProfileKeeps ==
  ASSUME ProfInv, NEW g \in Pgs, NEW b \in Bufs, PgSetProfile(g, b)
  PROVE  ProfInv'
PROOF
<1> DEFINE n == [live |-> TRUE, buf |-> b]
<1>1. n \in PgRecs /\ n.live /\ n.buf = b /\ b # 0
  BY ProfileAssumption DEF PgRecs
<1>2. /\ bufDb \in [Bufs -> ProfRecs] /\ bufDb[b].xoff \in Nat /\ pgDb[g].buf \in Bufs \cup {0}
  BY DEF ProfInv, ProfTyped, ProfRecs, PgRecs
<1>3. /\ bufDb' = Recounted(bufDb, pgDb[g].buf, b) /\ bufDb[b].live
      /\ pgDb' = [pgDb EXCEPT ![g] = n] /\ hwPfc' = [hwPfc EXCEPT ![g] = bufDb[b].xoff]
      /\ UNCHANGED <<wredDb, queueDb, hwDrop, mixed>>
  BY DEF PgSetProfile
<1>4. Recounts(Bufs, bufDb, bufDb', pgDb[g].buf, n.buf)
  BY <1>1, <1>2, <1>3, RecountedFact
<1> HIDE DEF n
<1> QED BY <1>1, <1>2, <1>3, <1>4, PgStep

(* A priority group gives up its profile, or is removed. *)
LEMMA PgUnsetProfileKeeps ==
  ASSUME ProfInv, NEW g \in Pgs, PgUnsetProfile(g) \/ RemovePg(g)
  PROVE  ProfInv'
PROOF
<1>1. /\ bufDb \in [Bufs -> ProfRecs] /\ pgDb \in [Pgs -> PgRecs] /\ pgDb[g] \in PgRecs
      /\ hwPfc \in [Pgs -> Nat] /\ pgDb[g].buf \in Bufs \cup {0} /\ 0 \notin Bufs
      /\ \A c \in Bufs : bufDb[c].ref \in Nat
  BY ProfileAssumption DEF ProfInv, ProfTyped, PgRecs, ProfRecs
<1>2. CASE PgUnsetProfile(g)
  <2> DEFINE n == [live |-> TRUE, buf |-> 0]
             b == pgDb[g].buf
  <2>1. n \in PgRecs /\ n.live /\ n.buf = 0
    BY DEF PgRecs
  <2>2. /\ b \in Bufs /\ pgDb[g].live /\ bufDb' = [bufDb EXCEPT ![b].ref = @ - 1]
        /\ pgDb' = [pgDb EXCEPT ![g].buf = 0] /\ hwPfc' = [hwPfc EXCEPT ![g] = 0]
        /\ UNCHANGED <<wredDb, queueDb, hwDrop, mixed>>
    BY <1>1, <1>2 DEF PgUnsetProfile
  <2>3. pgDb' = [pgDb EXCEPT ![g] = n]
    <3>1. pgDb' = [pgDb EXCEPT ![g] = [pgDb[g] EXCEPT !.buf = 0]]
      BY <2>2
    <3> QED BY <3>1, <1>1, <2>2, FieldChanged, ZenonT(30)
  <2>4. bufDb[b].ref # 0
    <3>1. /\ Named(Pgs, PgOf(pgDb), b) \in Nat /\ Named(ProfQueues, BufOf(queueDb), b) \in Nat
          /\ (Named(Pgs, PgOf(pgDb), b) = 0 => PgOf(pgDb)[g] # b)
      BY NamedFact, ProfileAssumption
    <3>2. bufDb[b].ref >= Named(ProfQueues, BufOf(queueDb), b) + Named(Pgs, PgOf(pgDb), b)
      BY <2>2 DEF ProfInv, BufCounted
    <3>3. PgOf(pgDb)[g] = b
      BY DEF PgOf
    <3> QED BY <3>1, <3>2, <3>3
  <2>5. bufDb' = Down(bufDb, b)
    BY <2>2, <2>4 DEF Down
  <2>6. Recounts(Bufs, bufDb, bufDb', b, 0)
    <3>1. Recounts(Bufs, bufDb, Down(bufDb, b), b, 0)
      BY <1>1, <2>2, DownCounts
    <3> QED BY <3>1, <2>5
  <2>7. Recounts(Bufs, bufDb, bufDb', pgDb[g].buf, n.buf)
    BY <2>1, <2>6
  <2>8. PICK v \in Nat : v = 0
    OBVIOUS
  <2>9. hwPfc' = [hwPfc EXCEPT ![g] = v] /\ UNCHANGED <<wredDb, queueDb, hwDrop, mixed>>
    BY <2>2, <2>8
  <2> HIDE DEF n
  <2> QED BY <2>1, <2>3, <2>7, <2>8, <2>9, PgStep
<1>3. CASE RemovePg(g)
  <2>1. NoPg \in PgRecs /\ ~NoPg.live /\ NoPg.buf = 0
    BY DEF PgRecs, NoPg
  <2>2. /\ pgDb' = [pgDb EXCEPT ![g] = NoPg] /\ hwPfc' = [hwPfc EXCEPT ![g] = hwPfc[g]]
        /\ UNCHANGED <<wredDb, bufDb, queueDb, hwDrop, mixed>> /\ hwPfc[g] \in Nat
    BY <1>1, <1>3 DEF RemovePg
  <2>3. Recounts(Bufs, bufDb, bufDb', pgDb[g].buf, NoPg.buf)
    BY <1>1, <2>1, <2>2 DEF Recounts, OnlyCounts
  <2> QED BY <2>1, <2>2, <2>3, PgStep
<1> QED BY <1>2, <1>3

(* A new value of a WRED profile, at every queue that has it. *)
LEMMA SetWredKeeps ==
  ASSUME ProfInv, NEW w \in Wreds, NEW v \in Thresholds, SetWred(w, v)
  PROVE  ProfInv'
PROOF
<1>1. /\ ProfTyped /\ w # 0 /\ v \in Nat /\ EarlyDrop(v) \in Schemes
      /\ wredDb' = [wredDb EXCEPT ![w].th = v] /\ UNCHANGED <<bufDb, queueDb, pgDb, hwPfc, mixed>>
      /\ hwDrop' = (IF wredDb[w].ref = 0 THEN hwDrop ELSE TraverseSet("wred", w, EarlyDrop(v)))
  BY ProfileAssumption DEF ProfInv, SetWred, Schemes, EarlyDrop
<1>2. /\ wredDb' \in [Wreds -> ProfRecs] /\ wredDb'[w].th = v
      /\ \A x \in Wreds : wredDb'[x].live = wredDb[x].live /\ wredDb'[x].ref = wredDb[x].ref
      /\ \A x \in Wreds \ {w} : wredDb'[x] = wredDb[x]
  BY <1>1 DEF ProfTyped, ProfRecs
<1>3. hwDrop' \in [ProfQueues -> Schemes]
  BY <1>1 DEF ProfTyped, TraverseSet
<1>4. ProfTyped'
  BY <1>1, <1>2, <1>3 DEF ProfTyped
<1>5. \A q \in ProfQueues : hwDrop'[q] = IF queueDb[q].wred = w THEN EarlyDrop(v) ELSE hwDrop[q]
  BY <1>1, UnusedWred DEF TraverseSet, ProfTyped
<1>6. ASSUME NEW q \in ProfQueues PROVE ProfQueueOk(q)'
  <2>1. ProfQueueOk(q) /\ queueDb[q] \in QueueRecs
    BY <1>1 DEF ProfInv, ProfTyped
  <2>2. CASE queueDb[q].wred = w
    BY <1>1, <1>2, <1>5, <2>1, <2>2 DEF ProfQueueOk, SchemeOf
  <2>3. CASE queueDb[q].wred # w
    <3>1. queueDb[q].wred # 0 => wredDb'[queueDb[q].wred] = wredDb[queueDb[q].wred]
      BY <2>1, <2>3, <1>2 DEF QueueRecs
    <3>0. UNCHANGED <<bufDb, queueDb>>
      BY <1>1
    <3>2. SchemeOf(q)' = SchemeOf(q)
      BY <3>0, <3>1 DEF SchemeOf
    <3>3. hwDrop'[q] = hwDrop[q]
      BY <2>3, <1>5
    <3> QED BY <1>1, <2>1, <3>1, <3>2, <3>3 DEF ProfQueueOk
  <2> QED BY <2>2, <2>3
<1>7. \A x \in Wreds : WredCounted(x)'
  BY <1>1, <1>2 DEF ProfInv, WredCounted
<1>8. (\A b \in Bufs : BufCounted(b)') /\ (\A g \in Pgs : PgOk(g)')
  BY <1>1 DEF ProfInv, BufCounted, PgOk
<1> QED BY <1>4, <1>6, <1>7, <1>8 DEF ProfInv

(* A new shared threshold of a buffer profile, at every queue that has it. *)
LEMMA SetBufferKeeps ==
  ASSUME ProfInv, NEW b \in Bufs, NEW v \in Thresholds, SetBuffer(b, v)
  PROVE  ProfInv'
PROOF
<1>1. /\ ProfTyped /\ b # 0 /\ v \in Nat /\ TailDrop(v) \in Schemes
      /\ bufDb' = [bufDb EXCEPT ![b].th = v] /\ UNCHANGED <<wredDb, queueDb, pgDb, hwPfc, mixed>>
      /\ hwDrop' = (IF bufDb[b].ref = 0 THEN hwDrop ELSE TraverseSet("buf", b, TailDrop(v)))
  BY ProfileAssumption DEF ProfInv, SetBuffer, Schemes, TailDrop
<1>2. /\ bufDb' \in [Bufs -> ProfRecs] /\ bufDb'[b].th = v
      /\ \A x \in Bufs : bufDb'[x].live = bufDb[x].live /\ bufDb'[x].ref = bufDb[x].ref
                        /\ bufDb'[x].xoff = bufDb[x].xoff
      /\ \A x \in Bufs \ {b} : bufDb'[x] = bufDb[x]
  BY <1>1 DEF ProfTyped, ProfRecs
<1>3. hwDrop' \in [ProfQueues -> Schemes]
  BY <1>1 DEF ProfTyped, TraverseSet
<1>4. ProfTyped'
  BY <1>1, <1>2, <1>3 DEF ProfTyped
<1>5. \A q \in ProfQueues : hwDrop'[q] = IF queueDb[q].buf = b THEN TailDrop(v) ELSE hwDrop[q]
  BY <1>1, UnusedBuffer DEF TraverseSet, ProfTyped
<1>6. ASSUME NEW q \in ProfQueues PROVE ProfQueueOk(q)'
  <2>1. ProfQueueOk(q) /\ queueDb[q] \in QueueRecs
    BY <1>1 DEF ProfInv, ProfTyped
  <2>2. CASE queueDb[q].buf = b
    BY <1>1, <1>2, <1>5, <2>1, <2>2 DEF ProfQueueOk, SchemeOf, Both
  <2>3. CASE queueDb[q].buf # b
    <3>1. queueDb[q].buf # 0 => bufDb'[queueDb[q].buf] = bufDb[queueDb[q].buf]
      BY <2>1, <2>3, <1>2 DEF QueueRecs
    <3>0. UNCHANGED <<wredDb, queueDb>>
      BY <1>1
    <3>2. SchemeOf(q)' = SchemeOf(q)
      BY <3>0, <3>1 DEF SchemeOf
    <3>3. hwDrop'[q] = hwDrop[q]
      BY <2>3, <1>5
    <3> QED BY <1>1, <2>1, <3>1, <3>2, <3>3 DEF ProfQueueOk
  <2> QED BY <2>2, <2>3
<1>7. \A x \in Bufs : BufCounted(x)'
  BY <1>1, <1>2 DEF ProfInv, BufCounted
<1>8. ASSUME NEW g \in Pgs PROVE PgOk(g)'
  <2>1. PgOk(g) /\ pgDb[g] \in PgRecs
    BY <1>1 DEF ProfInv, ProfTyped
  <2>2. pgDb[g].buf # 0 => bufDb'[pgDb[g].buf].live = bufDb[pgDb[g].buf].live
                            /\ bufDb'[pgDb[g].buf].xoff = bufDb[pgDb[g].buf].xoff
    BY <2>1, <1>2 DEF PgRecs
  <2> QED BY <1>1, <2>1, <2>2 DEF PgOk
<1>9. \A w \in Wreds : WredCounted(w)'
  BY <1>1 DEF ProfInv, WredCounted
<1> QED BY <1>4, <1>6, <1>7, <1>8, <1>9 DEF ProfInv

(* A new flow control threshold of a buffer profile in use: every priority *)
(* group there is moves to the profile, and is counted there. *)
LEMMA SetXoffKeeps ==
  ASSUME ProfInv, NEW b \in Bufs, NEW v \in Thresholds, SetXoff(b, v)
  PROVE  ProfInv'
PROOF
<1> DEFINE T == IF bufDb[b].ref = 0 THEN {} ELSE {g \in Pgs : pgDb[g].live}
           hd(c) == Cardinality({g \in T : pgDb[g].buf = c})
           less(n, k) == IF k > n THEN 0 ELSE n - k
<1>1. /\ ProfTyped /\ b # 0 /\ v \in Nat /\ 0 \notin Bufs /\ UNCHANGED <<wredDb, queueDb, hwDrop, mixed>>
      /\ bufDb' = [c \in Bufs |-> IF c = b
           THEN [bufDb[c] EXCEPT !.xoff = v, !.ref = @ + Cardinality(T) - hd(b)]
           ELSE [bufDb[c] EXCEPT !.ref = less(@, hd(c))]]
      /\ pgDb' = [g \in Pgs |-> IF g \in T THEN [pgDb[g] EXCEPT !.buf = b] ELSE pgDb[g]]
      /\ hwPfc' = [g \in Pgs |-> IF g \in T THEN v ELSE hwPfc[g]]
      /\ bufDb[b].live
  BY ProfileAssumption DEF ProfInv, SetXoff
<1>2. \A c \in Bufs : bufDb[c] \in ProfRecs /\ bufDb[c].ref \in Nat
  BY <1>1 DEF ProfTyped, ProfRecs
<1>3. \A g \in Pgs : pgDb[g] \in PgRecs /\ PgOk(g)
  BY <1>1 DEF ProfInv, ProfTyped
<1>4. T \subseteq Pgs /\ IsFiniteSet(T)
  BY ProfileAssumption, FS_Subset
<1>5. Cardinality(T) \in Nat
  BY <1>4, FS_CardinalityType
<1>6. \A c : hd(c) \in Nat /\ hd(c) <= Cardinality(T)
  <2> TAKE c
  <2>1. {g \in T : pgDb[g].buf = c} \subseteq T
    OBVIOUS
  <2>2. IsFiniteSet({g \in T : pgDb[g].buf = c})
    BY <1>4, <2>1, FS_Subset
  <2> QED BY <1>4, <2>1, <2>2, FS_Subset, FS_CardinalityType
<1>7. bufDb[b].ref = 0 => /\ T = {} /\ Cardinality(T) = 0 /\ (\A c : hd(c) = 0)
                          /\ (\A g \in Pgs : pgDb[g].buf # b)
  <2>1. bufDb[b].ref = 0 => T = {} /\ \A c : {g \in T : pgDb[g].buf = c} = {}
    OBVIOUS
  <2> QED BY <2>1, FS_EmptySet, UnusedBuffer
<1>8. ASSUME bufDb[b].ref # 0, NEW c \in Bufs
      PROVE  /\ hd(c) = Named(Pgs, PgOf(pgDb), c)
             /\ Named(Pgs, PgOf(pgDb'), c) = IF c = b THEN Cardinality(T) ELSE 0
  <2>1. T = {g \in Pgs : pgDb[g].live} /\ c # 0
    BY <1>1, <1>8
  <2>2. {g \in T : pgDb[g].buf = c} = {g \in Pgs : PgOf(pgDb)[g] = c}
    BY <2>1, <1>3 DEF PgOk, PgOf
  <2>3. ASSUME NEW g \in Pgs PROVE PgOf(pgDb')[g] = IF g \in T THEN b ELSE 0
    BY <2>1, <1>1, <1>3 DEF PgOf, PgOk, PgRecs
  <2> HIDE DEF T
  <2>4. {g \in Pgs : PgOf(pgDb')[g] = c} = IF c = b THEN T ELSE {}
    BY <2>1, <2>3, <1>4
  <2>5. CASE c = b
    BY <2>2, <2>4, <2>5 DEF Named
  <2>6. CASE c # b
    BY <2>2, <2>4, <2>6, FS_EmptySet DEF Named
  <2> QED BY <2>5, <2>6
<1>9. \A g \in Pgs : g \notin T /\ bufDb[b].ref # 0 => ~pgDb[g].live
  OBVIOUS
<1>10. \A g \in T : pgDb[g].live
  OBVIOUS
<1> HIDE DEF T, hd
<1>11. ASSUME NEW c \in Bufs
       PROVE  /\ bufDb'[c] \in ProfRecs
              /\ bufDb'[c].live = bufDb[c].live /\ bufDb'[c].th = bufDb[c].th
              /\ bufDb'[c].xoff = IF c = b THEN v ELSE bufDb[c].xoff
              /\ c = b => bufDb'[c].ref = bufDb[c].ref + Cardinality(T) - hd(b)
              /\ c # b => bufDb'[c].ref = IF hd(c) > bufDb[c].ref THEN 0 ELSE bufDb[c].ref - hd(c)
  <2>1. hd(b) \in Nat /\ hd(c) \in Nat /\ hd(b) <= Cardinality(T)
    BY <1>6
  <2>2. CASE c = b
    <3>1. bufDb'[c] = [bufDb[c] EXCEPT !.xoff = v, !.ref = bufDb[c].ref + Cardinality(T) - hd(b)]
      BY <2>2, <1>1, <1>2 DEF ProfRecs
    <3>2. bufDb[c].ref + Cardinality(T) - hd(b) \in Nat
      BY <2>1, <1>2, <1>5
    <3> QED BY <3>1, <3>2, <2>2, <1>1, <1>2 DEF ProfRecs
  <2>3. CASE c # b
    <3>1. bufDb'[c] = [bufDb[c] EXCEPT !.ref = less(bufDb[c].ref, hd(c))]
      BY <2>3, <1>1, <1>2 DEF ProfRecs
    <3>2. less(bufDb[c].ref, hd(c)) \in Nat
      BY <2>1, <1>2
    <3> QED BY <3>1, <3>2, <2>3, <1>2 DEF ProfRecs
  <2> QED BY <2>2, <2>3
<1>12. ASSUME NEW c \in Bufs PROVE BufCounted(c)'
  <2>1. /\ Named(ProfQueues, BufOf(queueDb), c) \in Nat /\ Named(Pgs, PgOf(pgDb), c) \in Nat
        /\ Named(Pgs, PgOf(pgDb'), c) \in Nat
    BY NamedFact, ProfileAssumption
  <2>2. bufDb[c].ref >= Named(ProfQueues, BufOf(queueDb), c) + Named(Pgs, PgOf(pgDb), c)
    BY DEF ProfInv, BufCounted
  <2>3. hd(c) \in Nat /\ bufDb[c].ref \in Nat
    BY <1>2, <1>6
  <2>4. bufDb'[c].ref >= Named(ProfQueues, BufOf(queueDb), c) + Named(Pgs, PgOf(pgDb'), c)
    <3>1. CASE bufDb[b].ref = 0
      <4>1. bufDb'[c].ref = bufDb[c].ref
        BY <3>1, <1>5, <1>7, <1>11, <2>3
      <4>2. pgDb' = pgDb
        BY <3>1, <1>1, <1>7 DEF ProfTyped
      <4> QED BY <4>1, <4>2, <2>2
    <3>2. CASE bufDb[b].ref # 0
      <4>1. /\ hd(c) = Named(Pgs, PgOf(pgDb), c)
            /\ Named(Pgs, PgOf(pgDb'), c) = IF c = b THEN Cardinality(T) ELSE 0
        BY <3>2, <1>8
      <4>2. CASE c = b
        <5>1. bufDb'[c].ref = bufDb[c].ref + Cardinality(T) - hd(c)
          BY <4>2, <1>11
        <5> QED BY <5>1, <4>1, <4>2, <1>5, <2>1, <2>2, <2>3
      <4>3. CASE c # b
        <5>1. bufDb'[c].ref = IF hd(c) > bufDb[c].ref THEN 0 ELSE bufDb[c].ref - hd(c)
          BY <4>3, <1>11
        <5> QED BY <5>1, <4>1, <4>3, <2>1, <2>2, <2>3
      <4> QED BY <4>2, <4>3
    <3> QED BY <3>1, <3>2
  <2> QED BY <2>4, <1>1 DEF BufCounted
<1>13. ASSUME NEW q \in ProfQueues PROVE ProfQueueOk(q)'
  <2>1. ProfQueueOk(q) /\ queueDb[q] \in QueueRecs
    BY <1>1 DEF ProfInv, ProfTyped
  <2>2. queueDb[q].buf # 0 => bufDb'[queueDb[q].buf].live = bufDb[queueDb[q].buf].live
                              /\ bufDb'[queueDb[q].buf].th = bufDb[queueDb[q].buf].th
    BY <2>1, <1>11 DEF QueueRecs
  <2>3. UNCHANGED <<wredDb, queueDb, hwDrop, mixed>>
    BY <1>1
  <2>4. SchemeOf(q)' = SchemeOf(q)
    BY <2>2, <2>3 DEF SchemeOf
  <2> QED BY <2>1, <2>2, <2>3, <2>4 DEF ProfQueueOk
<1>14. ASSUME NEW g \in Pgs PROVE PgOk(g)' /\ pgDb'[g] \in PgRecs /\ hwPfc'[g] \in Nat
  <2>0. /\ pgDb'[g] = IF g \in T THEN [pgDb[g] EXCEPT !.buf = b] ELSE pgDb[g]
        /\ hwPfc'[g] = IF g \in T THEN v ELSE hwPfc[g]
        /\ hwPfc[g] \in Nat
    BY <1>1 DEF ProfTyped
  <2>1. CASE g \in T
    <3>1. pgDb[g] \in PgRecs /\ pgDb[g].live
      BY <2>1, <1>3, <1>10
    <3>2. pgDb'[g] = [live |-> TRUE, buf |-> b] /\ hwPfc'[g] = v
      BY <2>0, <2>1, <3>1, FieldChanged DEF PgRecs
    <3>3. bufDb'[b].live /\ bufDb'[b].xoff = v /\ b # 0 /\ v \in Nat
      BY <1>1, <1>11
    <3> QED BY <3>2, <3>3 DEF PgOk, PgRecs
  <2>2. CASE g \notin T
    <3>1. pgDb'[g] = pgDb[g] /\ hwPfc'[g] = hwPfc[g] /\ pgDb[g] \in PgRecs /\ PgOk(g)
      BY <2>2, <2>0, <1>3
    <3>2. pgDb[g].live => pgDb[g].buf # b
      BY <2>2, <1>7, <1>9
    <3>3. pgDb[g].live /\ pgDb[g].buf # 0 => /\ bufDb'[pgDb[g].buf].live = bufDb[pgDb[g].buf].live
                                            /\ bufDb'[pgDb[g].buf].xoff = bufDb[pgDb[g].buf].xoff
      BY <3>1, <3>2, <1>11 DEF PgRecs
    <3> QED BY <3>1, <3>2, <3>3, <2>0 DEF PgOk
  <2> QED BY <2>1, <2>2
<1>15. ProfTyped'
  <2>1. bufDb' \in [Bufs -> ProfRecs]
    BY <1>1, <1>11
  <2>2. pgDb' \in [Pgs -> PgRecs] /\ hwPfc' \in [Pgs -> Nat]
    BY <1>1, <1>14
  <2> QED BY <1>1, <2>1, <2>2 DEF ProfTyped
<1>16. \A w \in Wreds : WredCounted(w)'
  BY <1>1 DEF ProfInv, WredCounted
<1> QED BY <1>12, <1>13, <1>14, <1>15, <1>16 DEF ProfInv

(* Every call on profiles, queues and priority groups keeps the invariant. *)
LEMMA ProfCallsKeep == ProfInv /\ [ProfNext]_profVars => ProfInv'
PROOF
<1> SUFFICES ASSUME ProfInv, [ProfNext]_profVars PROVE ProfInv'
  OBVIOUS
<1>1. CASE UNCHANGED profVars
  BY <1>1 DEF profVars, ProfInv, ProfTyped, WredCounted, BufCounted, ProfQueueOk, PgOk, SchemeOf
<1>2. CASE ProfNext
  BY <1>2, WredsKeep, BuffersKeep, QueueSetWredKeeps, QueueUnsetWredKeeps, QueueSetBufferKeeps,
     QueueUnsetBufferKeeps, CreateQueueKeeps, RemoveQueueKeeps, PgSetProfileKeeps,
     PgUnsetProfileKeeps, SetWredKeeps, SetBufferKeeps, SetXoffKeeps DEF ProfNext
<1> QED BY <1>1, <1>2

-----------------------------------------------------------------------------
(* The theorems *)

(* However queues, groups and ports are given schedulers and lose them, and *)
(* whichever class is strict: the chip's classes, weights and shapers are *)
(* those of the records, and a scheduler in use is not removed *)
(* (_ctc_sai_scheduler_queue_set_scheduler, ctc_sai_scheduler_set_attr). *)
THEOREM SchedulingIsExact == SchSpec => []SchedulingExact
PROOF
<1>1. SchInv => SchedulingExact
  BY SchGives
<1> QED BY SchInitially, SchCallsKeep, <1>1, PTL DEF SchSpec

(* However ports and ACL entries are given policers and storm policers and *)
(* lose them: what the chip meters is what the records say *)
(* (ctc_sai_policer_port_set_policer, _ctc_sai_policer_set_attr). *)
THEOREM PolicingIsExact == PolSpec => []PolicersExact
PROOF
<1>1. PolInv => PolicersExact
  BY PolGives
<1> QED BY PolInitially, PolCallsKeep, <1>1, PTL DEF PolSpec

(* However ports move between the chip's few domains: each is classified by *)
(* its own maps or the switch's, with their present lists *)
(* (_ctc_sai_port_set_qos_map, _ctc_sai_qos_map_port_alloc_domain). *)
THEOREM MapsAreExact == MapSpec => []ClassifiesByMaps
PROOF
<1>1. MapInv => ClassifiesByMaps
  BY MapGives
<1> QED BY MapInitially, MapCallsKeep, <1>1, PTL DEF MapSpec

(* However queues and priority groups take and leave profiles: each has the *)
(* thresholds of its profile in the chip, and the profiles count their users*)
(* (ctc_sai_queue_set_wred, ctc_sai_buffer_queue_set_profile). *)
THEOREM ProfilingIsExact == ProfSpec => []ProfilesExact
PROOF
<1>1. ProfInv => ProfilesExact
  BY ProfGives
<1> QED BY ProfInitially, ProfCallsKeep, <1>1, PTL DEF ProfSpec
=============================================================================
