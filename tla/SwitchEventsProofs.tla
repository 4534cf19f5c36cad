------------------------- MODULE SwitchEventsProofs -------------------------
(***************************************************************************)
(* Safety theorems about SwitchEvents, for every set of MACs and ports, *)
(* every bound and every length of a learning report: the types, the port *)
(* state told by the two link threads, and, where the chip reports aged *)
(* MACs one at a time, the refinement of FdbClient. The only difficult *)
(* function is the one that writes a report: LastOf is a CHOOSE, and that *)
(* there is a last entry for a MAC rests on the well-foundedness of Nat. *)
(***************************************************************************)
EXTENDS SwitchEvents, SequenceTheorems, WellFoundedInduction, TLAPS

Bindings == Client!Binding
Entries == Client!Entry
Tables == [Macs -> Entries]
Covers(c, t) == \A m \in Macs : t[m] # Nothing => c[m] = t[m]

(* The inductive invariant: types, and a copy that is right about every *)
(* entry there is. A client's call on an entry reads it, so that without *)
(* the second part the copy could be given an entry without a port. *)
EventsInv == TypeOK /\ CopyCovers

(* A set of numbers that is not empty has a smallest one. *)
LEMMA SmallestFact ==
  ASSUME NEW T \in SUBSET Nat, T # {}
  PROVE  \E x \in T : \A y \in T : x <= y
PROOF
<1> DEFINE less == {ss \in Nat \X Nat : ss[1] < ss[2]}
<1>1. IsWellFoundedOn(less, Nat)
  BY NatLessThanWellFounded DEF OpToRel
<1>2. PICK x \in T : \A y \in T : <<y, x>> \notin less
  BY <1>1, WFMin
<1>3. \A y \in T : ~(y < x)
  BY <1>2
<1> QED BY <1>3

(* A set of numbers with an upper bound has a largest one. *)
LEMMA LargestFact ==
  ASSUME NEW n \in Nat, NEW H \in SUBSET (1..n), H # {}
  PROVE  \E i \in H : \A j \in H : j <= i
PROOF
<1> DEFINE T == {n - i : i \in H}
<1>1. \A i \in H : i \in Nat /\ n - i \in Nat
  OBVIOUS
<1>5. T \in SUBSET Nat /\ T # {}
  BY <1>1
<1>2. PICK x \in T : \A y \in T : x <= y
  BY <1>5, SmallestFact
<1>3. PICK i \in H : x = n - i
  BY <1>2
<1>4. ASSUME NEW j \in H PROVE j <= i
  <2>1. n - i <= n - j
    BY <1>2, <1>3, <1>4
  <2> HIDE DEF T
  <2> QED BY <2>1, <1>1
<1> QED BY <1>3, <1>4

-----------------------------------------------------------------------------
(* The entries the code writes, and the tables the FDB calls make. *)
LEMMA EntryTypes ==
  /\ Entries = Bindings \cup {Nothing} /\ Nothing \notin Bindings
  /\ \A p \in Ports : Dynamic(p) \in Bindings
  /\ \A p \in Ports, b \in BOOLEAN : MapL2Addr(p, b) \in Bindings
BY EventsAssumption
DEF Bindings, Entries, Nothing, Client!Nothing, Client!Binding, Client!Entry, Dynamic, MapL2Addr

(* The FDB's operators make tables of tables. *)
LEMMA TableTypes ==
  ASSUME NEW t \in Tables
  PROVE  /\ \A m \in Macs, e \in Bindings : AddFdb(t, m, e) \in Tables
         /\ \A S : RemoveFdb(t, S) \in Tables
         /\ \A P : FlushFdb(t, P) \in Tables
         /\ FlushAll(t) \in Tables
BY EntryTypes DEF Tables, AddFdb, RemoveFdb, FlushFdb, FlushAll

(* A report of MACs and ports writes entries. *)
LEMMA LearnTypes ==
  ASSUME NEW t \in Tables, NEW report \in Seq(Macs \X Ports)
  PROVE  /\ Learn(t, report) \in Tables
         /\ \A m \in Macs : (\E i \in DOMAIN report : report[i][1] = m)
              => Dynamic(report[LastOf(report, m)][2]) \in Bindings
PROOF
<1>1. ASSUME NEW m \in Macs, \E i \in DOMAIN report : report[i][1] = m
      PROVE  Dynamic(report[LastOf(report, m)][2]) \in Bindings
  <2> DEFINE H == {i \in DOMAIN report : report[i][1] = m}
  <2>1. Len(report) \in Nat /\ DOMAIN report = 1..Len(report)
    BY LenProperties
  <2>2. H \in SUBSET (1..Len(report)) /\ H # {}
    BY <1>1, <2>1
  <2>3. \E i \in H : \A j \in H : j <= i
    BY <2>1, <2>2, LargestFact
  <2>4. LastOf(report, m) \in DOMAIN report
    BY <2>3 DEF LastOf
  <2>5. report[LastOf(report, m)] \in Macs \X Ports
    BY <2>1, <2>4, ElementOfSeq
  <2> QED BY <2>5, EntryTypes
<1> QED BY <1>1, EntryTypes DEF Learn, Tables

(* What is done to the table and to its copy alike leaves the copy right *)
(* about the entries there are; so does an aging that the client is told in *)
(* part. *)
LEMMA CoversKept ==
  ASSUME NEW t \in Tables, NEW c \in Tables, Covers(c, t)
  PROVE  /\ \A m \in Macs, e \in Bindings : Covers(AddFdb(c, m, e), AddFdb(t, m, e))
         /\ \A R, S : R \subseteq S => Covers(RemoveFdb(c, R), RemoveFdb(t, S))
         /\ \A P : Covers(FlushFdb(c, P), FlushFdb(t, P))
         /\ Covers(FlushAll(c), FlushAll(t))
         /\ \A report : Covers(Learn(c, report), Learn(t, report))
BY EntryTypes DEF Covers, Tables, AddFdb, RemoveFdb, FlushFdb, FlushAll, Learn

(* Taking the first n elements of a queue leaves a queue. *)
LEMMA Dequeue ==
  ASSUME NEW S, NEW q \in Seq(S), NEW n \in Nat \ {0}, n <= Len(q)
  PROVE  /\ SubSeq(q, 1, n) \in Seq(S)
         /\ SubSeq(q, n + 1, Len(q)) \in Seq(S)
         /\ Len(SubSeq(q, n + 1, Len(q))) <= Len(q)
         /\ q[n] \in ToSet(SubSeq(q, 1, n))
         /\ n = 1 => ToSet(SubSeq(q, 1, n)) = {q[1]}
PROOF
<1>1. Len(q) \in Nat /\ \A i \in 1..Len(q) : q[i] \in S
  BY LenProperties, ElementOfSeq
<1>2. /\ SubSeq(q, 1, n) \in Seq(S) /\ Len(SubSeq(q, 1, n)) = n
      /\ \A i \in 1..n : SubSeq(q, 1, n)[i] = q[i]
  <2>1. /\ SubSeq(q, 1, n) \in Seq(S) /\ Len(SubSeq(q, 1, n)) = IF 1 <= n THEN n - 1 + 1 ELSE 0
        /\ \A i \in 1..(n - 1 + 1) : SubSeq(q, 1, n)[i] = q[1 + i - 1]
    BY <1>1, SubSeqProperties
  <2> QED BY <2>1
<1>4. DOMAIN SubSeq(q, 1, n) = 1..n
  BY <1>2, LenProperties
<1>5. q[n] \in ToSet(SubSeq(q, 1, n)) /\ (n = 1 => ToSet(SubSeq(q, 1, n)) = {q[1]})
  BY <1>2, <1>4 DEF ToSet
<1>3. /\ SubSeq(q, n + 1, Len(q)) \in Seq(S)
      /\ Len(SubSeq(q, n + 1, Len(q))) = IF n + 1 <= Len(q) THEN Len(q) - (n + 1) + 1 ELSE 0
  <2>1. \A i \in (n + 1)..Len(q) : q[i] \in S
    BY <1>1
  <2>2. n + 1 \in Int /\ Len(q) \in Int
    BY <1>1
  <2> QED BY <2>1, <2>2, SubSeqProperties
<1> QED BY <1>1, <1>2, <1>3, <1>5

-----------------------------------------------------------------------------
(* Every variable keeps its type, and the queues stay within their bound, *)
(* whatever the chip, the two link threads and the client do. *)
LEMMA InitInv == Init => EventsInv
PROOF
<1>1. /\ [m \in Macs |-> Nothing] \in Tables
      /\ <<>> \in Seq(Macs \X Ports) /\ <<>> \in Seq(Macs) /\ Len(<<>>) = 0
  BY EntryTypes, EmptySeq DEF Tables
<1>2. MaxQueue \in Nat \ {0} /\ MaxFlips \in Nat /\ MaxCalls \in Nat
  BY EventsAssumption
<1> QED BY <1>1, <1>2 DEF Init, EventsInv, CopyCovers, TypeOK, Idle, Tables, Entries

(* One step per action of the chip, the threads and the client. *)
LEMMA NextInv == EventsInv /\ [Next]_vars => EventsInv'
PROOF
<1> SUFFICES ASSUME EventsInv, [Next]_vars PROVE EventsInv'
  OBVIOUS
<1> USE DEF fdbVars, chipVars, linkVars
<1> DEFINE FdbOK == fdb \in Tables /\ copy \in Tables /\ Covers(copy, fdb)
           QueuesOK == /\ learnQ \in Seq(Macs \X Ports) /\ Len(learnQ) <= MaxQueue
                       /\ ageQ \in Seq(Macs) /\ Len(ageQ) <= MaxQueue
           LinksOK == /\ link \in [Ports -> BOOLEAN] /\ irq \subseteq Ports
                      /\ isr \in [port : Ports \cup {NoPort}, up : BOOLEAN]
                      /\ lportLink \in [Ports -> BOOLEAN] /\ portEn \in [Ports -> BOOLEAN]
                      /\ told \in [Ports -> BOOLEAN] /\ flips \in 0..MaxFlips
<1>a. FdbOK /\ QueuesOK /\ LinksOK /\ calls \in 0..MaxCalls
  BY DEF EventsInv, TypeOK, CopyCovers, Covers, Tables, Entries
<1>b. ASSUME FdbOK', QueuesOK', LinksOK', calls' \in 0..MaxCalls PROVE EventsInv'
  BY <1>b DEF EventsInv, TypeOK, CopyCovers, Covers, Tables, Entries
<1>c. MaxQueue \in Nat \ {0} /\ MaxFlips \in Nat /\ MaxCalls \in Nat
      /\ LearnBatch \in Nat \ {0} /\ AgingBatch \in Nat \ {0} /\ BridgePorts \subseteq Ports
  BY EventsAssumption
<1>1. ASSUME NEW m \in Macs, NEW q \in Ports, SeeMac(m, q) PROVE EventsInv'
  <2>1. Append(learnQ, <<m, q>>) \in Seq(Macs \X Ports)
        /\ Len(Append(learnQ, <<m, q>>)) = Len(learnQ) + 1
    BY <1>a, AppendProperties
  <2>2. Len(learnQ) \in Nat
    BY <1>a, LenProperties
  <2> QED BY <1>a, <1>b, <1>c, <1>1, <2>1, <2>2 DEF SeeMac
<1>2. ASSUME NEW m \in Macs, AgeMac(m) PROVE EventsInv'
  <2>1. Append(ageQ, m) \in Seq(Macs) /\ Len(Append(ageQ, m)) = Len(ageQ) + 1
    BY <1>a, AppendProperties
  <2>2. Len(ageQ) \in Nat
    BY <1>a, LenProperties
  <2> QED BY <1>a, <1>b, <1>c, <1>2, <2>1, <2>2 DEF AgeMac
<1>3. ASSUME NEW q \in Ports, LinkChange(q) PROVE EventsInv'
  BY <1>a, <1>b, <1>c, <1>3 DEF LinkChange
<1>4. ASSUME NEW n \in 1..LearnBatch, LearningProcess(n) PROVE EventsInv'
  <2>1. /\ SubSeq(learnQ, 1, n) \in Seq(Macs \X Ports)
        /\ SubSeq(learnQ, n + 1, Len(learnQ)) \in Seq(Macs \X Ports)
        /\ Len(SubSeq(learnQ, n + 1, Len(learnQ))) <= Len(learnQ)
    <3>1. n \in Nat \ {0} /\ n <= Len(learnQ) /\ learnQ \in Seq(Macs \X Ports)
      BY <1>a, <1>c, <1>4 DEF LearningProcess
    <3> QED BY <3>1, Dequeue
  <2>2. FdbOK'
    BY <1>a, <1>4, <2>1, LearnTypes, CoversKept DEF LearningProcess
  <2>3. Len(learnQ) \in Nat /\ Len(SubSeq(learnQ, n + 1, Len(learnQ))) \in Nat
    BY <1>a, <2>1, LenProperties
  <2>4. QueuesOK'
    BY <1>a, <1>c, <1>4, <2>1, <2>3 DEF LearningProcess
  <2> QED BY <1>a, <1>b, <1>4, <2>2, <2>4 DEF LearningProcess
<1>5. ASSUME NEW n \in 1..AgingBatch, AgingProcess(n) PROVE EventsInv'
  <2>1. /\ SubSeq(ageQ, n + 1, Len(ageQ)) \in Seq(Macs)
        /\ Len(SubSeq(ageQ, n + 1, Len(ageQ))) <= Len(ageQ)
        /\ ageQ[n] \in ToSet(SubSeq(ageQ, 1, n))
    <3>1. n \in Nat \ {0} /\ n <= Len(ageQ) /\ ageQ \in Seq(Macs)
      BY <1>a, <1>c, <1>5 DEF AgingProcess
    <3> QED BY <3>1, Dequeue
  <2>2. FdbOK'
    BY <1>a, <1>5, <2>1, TableTypes, CoversKept DEF AgingProcess
  <2>3. Len(ageQ) \in Nat /\ Len(SubSeq(ageQ, n + 1, Len(ageQ))) \in Nat
    BY <1>a, <2>1, LenProperties
  <2>4. QueuesOK'
    BY <1>a, <1>c, <1>5, <2>1, <2>3 DEF AgingProcess
  <2> QED BY <1>a, <1>b, <1>5, <2>2, <2>4 DEF AgingProcess
<1>6. ASSUME NEW q \in Ports, LinkIsrRead(q) PROVE EventsInv'
  BY <1>a, <1>b, <1>6 DEF LinkIsrRead
<1>7. ASSUME LinkIsr PROVE EventsInv'
  <2>1. FdbOK'
    BY <1>a, <1>7, TableTypes, CoversKept DEF LinkIsr, FlushPorts
  <2> QED BY <1>a, <1>b, <1>7, <2>1 DEF LinkIsr, Idle
<1>8. ASSUME Polling PROVE EventsInv'
  <2>1. FdbOK'
    BY <1>a, <1>8, TableTypes, CoversKept DEF Polling, FlushPorts
  <2> QED BY <1>a, <1>b, <1>8, <2>1 DEF Polling
<1>9. ASSUME Call, FdbOK' PROVE EventsInv'
  BY <1>a, <1>b, <1>c, <1>9 DEF Call
<1>10. ASSUME NEW m \in Macs, NEW q \in Ports, NEW b \in BOOLEAN, CreateFdbEntry(m, q, b)
       PROVE EventsInv'
  BY <1>a, <1>9, <1>10, EntryTypes, TableTypes, CoversKept DEF CreateFdbEntry, Both
<1>11. ASSUME NEW m \in Macs, RemoveFdbEntry(m) PROVE EventsInv'
  BY <1>a, <1>9, <1>11, TableTypes, CoversKept DEF RemoveFdbEntry, Both
<1>12. ASSUME NEW m \in Macs, SetFdbType(m) PROVE EventsInv'
  <2>1. fdb[m] \in Bindings /\ copy[m] = fdb[m]
    BY <1>a, <1>12, EntryTypes DEF SetFdbType, Tables, Covers
  <2> DEFINE new == [fdb[m] EXCEPT !.static = ~fdb[m].static]
  <2>2. new \in Bindings
    BY <2>1, Zenon DEF Bindings, Client!Binding
  <2>3. fdb' = AddFdb(fdb, m, new) /\ copy' = AddFdb(copy, m, new)
    BY <1>a, <1>12, <2>1 DEF SetFdbType, Both, AddFdb, Tables
  <2> QED BY <1>a, <1>9, <1>12, <2>2, <2>3, TableTypes, CoversKept DEF SetFdbType
<1>13. ASSUME NEW m \in Macs, NEW q \in Ports, SetFdbPort(m, q) PROVE EventsInv'
  <2>1. fdb[m] \in Bindings /\ copy[m] = fdb[m]
    BY <1>a, <1>13, EntryTypes DEF SetFdbPort, Tables, Covers
  <2> DEFINE new == [fdb[m] EXCEPT !.port = q]
  <2>2. new \in Bindings
    BY <2>1 DEF Bindings, Client!Binding
  <2>3. fdb' = AddFdb(fdb, m, new) /\ copy' = AddFdb(copy, m, new)
    BY <1>a, <1>13, <2>1 DEF SetFdbPort, Both, AddFdb, Tables
  <2> QED BY <1>a, <1>9, <1>13, <2>2, <2>3, TableTypes, CoversKept DEF SetFdbPort
<1>14. ASSUME NEW q \in Ports, FlushFdbEntries(q) PROVE EventsInv'
  BY <1>a, <1>9, <1>14, TableTypes, CoversKept DEF FlushFdbEntries, Both
<1>15. ASSUME FlushAllEntries PROVE EventsInv'
  BY <1>a, <1>9, <1>15, TableTypes, CoversKept DEF FlushAllEntries, Both
<1>16. CASE UNCHANGED vars
  BY <1>a, <1>b, <1>16 DEF vars
<1> HIDE DEF FdbOK, QueuesOK, LinksOK
<1> QED
  BY <1>1, <1>2, <1>3, <1>4, <1>5, <1>6, <1>7, <1>8, <1>10, <1>11, <1>12, <1>13, <1>14,
     <1>15, <1>16 DEF Next, Learning, Aging, IsrRead

(* The invariant is inductive, so that the types hold in every state the *)
(* handlers of ctc_sai_switch.c, ctc_sai_port.c and ctc_sai_fdb.c reach. *)
THEOREM EventsTypeCorrect == Spec => []TypeOK
BY InitInv, NextInv, PTL DEF Spec, EventsInv

(* Whatever the length of an aging report, of which the client is told one *)
(* MAC: no entry that is there is missing from the client's copy or another *)
(* in it. What the client may be wrong about are entries that are gone. *)
THEOREM CopyCoversTable == Spec => []CopyCovers
BY InitInv, NextInv, PTL DEF Spec, EventsInv

----
(* The link callback and _ctc_sai_port_polling_thread write the recorded *)
(* status, the chip's enable and what they tell the client together, so *)
(* that the three agree whichever thread handled a change last, and with a *)
(* stale read too. *)
THEOREM PortStateAgrees == Spec => []PortStateTold
PROOF
<1>1. Init => PortStateTold
  BY DEF Init, PortStateTold
<1>2. TypeOK /\ PortStateTold /\ [Next]_vars => PortStateTold'
  <2> SUFFICES ASSUME TypeOK, PortStateTold, [Next]_vars PROVE PortStateTold'
    OBVIOUS
  <2> USE DEF PortStateTold, linkVars
  <2>1. ASSUME LinkIsr PROVE PortStateTold'
    BY <2>1 DEF LinkIsr, TypeOK
  <2>2. ASSUME Polling PROVE PortStateTold'
    BY <2>2 DEF Polling, TypeOK
  <2>3. ASSUME UNCHANGED <<lportLink, portEn, told>> PROVE PortStateTold'
    BY <2>3
  <2>4. CASE UNCHANGED vars
    BY <2>3, <2>4 DEF vars
  <2>5. CASE Next
    BY <2>1, <2>2, <2>3, <2>5
    DEF Next, AgeMac, SeeMac, LinkChange, Learning, LearningProcess, Aging, AgingProcess,
        IsrRead, LinkIsrRead, Call, CreateFdbEntry, RemoveFdbEntry, SetFdbType, SetFdbPort,
        FlushFdbEntries, FlushAllEntries
  <2> QED BY <2>4, <2>5
<1> QED BY <1>1, <1>2, EventsTypeCorrect, PTL DEF Spec

-----------------------------------------------------------------------------
(* A step that writes the same bindings to the table and to the copy, and *)
(* one that drops the same entries of both, are steps of FdbClient. *)
LEMMA WriteStep ==
  ASSUME NEW S \in SUBSET Macs, NEW new \in [S -> Bindings],
         fdb' = [m \in Macs |-> IF m \in S THEN new[m] ELSE fdb[m]],
         copy' = [m \in Macs |-> IF m \in S THEN new[m] ELSE copy[m]]
  PROVE  Client!Next
BY DEF Client!Next, Client!Write, Bindings

(* Entries leave chip and copy together: one event of the client. *)
LEMMA ForgetStep ==
  ASSUME NEW S \in SUBSET Macs, fdb' = RemoveFdb(fdb, S), copy' = RemoveFdb(copy, S)
  PROVE  Client!Next
BY DEF Client!Next, Client!Forget, RemoveFdb, Nothing, Client!Nothing

(* A call that binds one MAC, in both. *)
LEMMA BindStep ==
  ASSUME fdb \in Tables, copy \in Tables, NEW m \in Macs, NEW e \in Bindings,
         fdb' = AddFdb(fdb, m, e), copy' = AddFdb(copy, m, e)
  PROVE  Client!Next
PROOF
<1> DEFINE new == [x \in {m} |-> e]
<1>1. {m} \in SUBSET Macs /\ new \in [{m} -> Bindings] /\ new[m] = e
  OBVIOUS
<1>2. /\ fdb' = [x \in Macs |-> IF x \in {m} THEN new[x] ELSE fdb[x]]
      /\ copy' = [x \in Macs |-> IF x \in {m} THEN new[x] ELSE copy[x]]
  BY DEF AddFdb, Tables
<1> HIDE DEF new
<1> QED BY <1>1, <1>2, WriteStep

(* A flush drops the same entries of the table and of an equal copy. *)
LEMMA FlushStep ==
  ASSUME copy = fdb, NEW P,
         \/ fdb' = FlushFdb(fdb, P) /\ copy' = FlushFdb(copy, P)
         \/ fdb' = FlushAll(fdb) /\ copy' = FlushAll(copy)
  PROVE  Client!Next
PROOF
<1>1. CASE fdb' = FlushFdb(fdb, P) /\ copy' = FlushFdb(copy, P)
  <2> DEFINE S == {m \in Macs : fdb[m].port \in P \cap BridgePorts /\ ~fdb[m].static}
  <2>1. fdb' = RemoveFdb(fdb, S) /\ copy' = RemoveFdb(copy, S)
    BY <1>1 DEF FlushFdb, RemoveFdb
  <2> QED BY <2>1, ForgetStep
<1>2. CASE fdb' = FlushAll(fdb) /\ copy' = FlushAll(copy)
  <2> DEFINE S == {m \in Macs : ~fdb[m].static}
  <2>1. fdb' = RemoveFdb(fdb, S) /\ copy' = RemoveFdb(copy, S)
    BY <1>2 DEF FlushAll, RemoveFdb
  <2> QED BY <2>1, ForgetStep
<1> QED BY <1>1, <1>2

(* Every step of the switch is a step of the abstract client or leaves *)
(* table and copy alone. *)
LEMMA ClientStep ==
  AgingBatch = 1 /\ TypeOK /\ CopyExact /\ [Next]_vars => [Client!Next]_(Client!vars)
PROOF
<1> SUFFICES ASSUME AgingBatch = 1, TypeOK, CopyExact, [Next]_vars
             PROVE  Client!Next \/ UNCHANGED fdbVars
  BY DEF Client!vars, fdbVars
<1>a. /\ fdb \in Tables /\ copy \in Tables /\ copy = fdb
      /\ learnQ \in Seq(Macs \X Ports) /\ ageQ \in Seq(Macs)
  BY DEF TypeOK, Tables, Entries, CopyExact
<1>1. ASSUME NEW n \in 1..LearnBatch, LearningProcess(n) PROVE Client!Next
  <2> DEFINE report == SubSeq(learnQ, 1, n)
             S == {m \in Macs : \E i \in DOMAIN report : report[i][1] = m}
             new == [m \in S |-> Dynamic(report[LastOf(report, m)][2])]
  <2>1. report \in Seq(Macs \X Ports)
    <3>1. n \in Nat \ {0} /\ n <= Len(learnQ) /\ learnQ \in Seq(Macs \X Ports)
      BY <1>a, <1>1, EventsAssumption DEF LearningProcess
    <3> QED BY <3>1, Dequeue
  <2> HIDE DEF report
  <2>2. S \in SUBSET Macs /\ new \in [S -> Bindings]
    BY <1>a, <2>1, LearnTypes
  <2>3. fdb' = Learn(fdb, report) /\ copy' = Learn(copy, report)
    BY <1>1 DEF LearningProcess, report
  <2>4. /\ fdb' = [m \in Macs |-> IF m \in S THEN new[m] ELSE fdb[m]]
        /\ copy' = [m \in Macs |-> IF m \in S THEN new[m] ELSE copy[m]]
    BY <2>3 DEF Learn
  <2> HIDE DEF S, new
  <2> QED BY <2>2, <2>4, WriteStep
<1>2. ASSUME NEW n \in 1..AgingBatch, AgingProcess(n) PROVE Client!Next
  <2>1. n = 1
    OBVIOUS
  <2>2. ToSet(SubSeq(ageQ, 1, n)) = {ageQ[1]} /\ ageQ[1] \in Macs
    <3>1. Len(ageQ) \in Nat /\ 1 \in 1..Len(ageQ)
      BY <1>a, <1>2, <2>1, LenProperties DEF AgingProcess
    <3> QED BY <1>a, <1>2, <2>1, <3>1, Dequeue, ElementOfSeq DEF AgingProcess
  <2> QED BY <1>2, <2>1, <2>2, ForgetStep DEF AgingProcess
<1>3. ASSUME LinkIsr PROVE Client!Next
  BY <1>a, <1>3, FlushStep DEF LinkIsr, FlushPorts
<1>4. ASSUME Polling PROVE Client!Next
  BY <1>a, <1>4, FlushStep DEF Polling, FlushPorts
<1>5. ASSUME NEW m \in Macs, NEW q \in Ports, NEW b \in BOOLEAN, CreateFdbEntry(m, q, b)
      PROVE Client!Next
  BY <1>a, <1>5, EntryTypes, BindStep DEF CreateFdbEntry, Both
<1>6. ASSUME NEW m \in Macs, RemoveFdbEntry(m) PROVE Client!Next
  BY <1>6, ForgetStep DEF RemoveFdbEntry, Both
<1>7. ASSUME NEW m \in Macs, SetFdbType(m) PROVE Client!Next
  <2> DEFINE new == [fdb[m] EXCEPT !.static = ~fdb[m].static]
  <2>1. fdb[m] \in Bindings
    BY <1>a, <1>7, EntryTypes DEF SetFdbType, Tables
  <2>2. new \in Bindings
    BY <2>1, Zenon DEF Bindings, Client!Binding
  <2>3. fdb' = AddFdb(fdb, m, new) /\ copy' = AddFdb(copy, m, new)
    BY <1>a, <1>7 DEF SetFdbType, Both, AddFdb, Tables
  <2> HIDE DEF new
  <2> QED BY <1>a, <2>2, <2>3, BindStep
<1>8. ASSUME NEW m \in Macs, NEW q \in Ports, SetFdbPort(m, q) PROVE Client!Next
  <2> DEFINE new == [fdb[m] EXCEPT !.port = q]
  <2>1. fdb[m] \in Bindings
    BY <1>a, <1>8, EntryTypes DEF SetFdbPort, Tables
  <2>2. new \in Bindings
    BY <2>1 DEF Bindings, Client!Binding
  <2>3. fdb' = AddFdb(fdb, m, new) /\ copy' = AddFdb(copy, m, new)
    BY <1>a, <1>8 DEF SetFdbPort, Both, AddFdb, Tables
  <2> HIDE DEF new
  <2> QED BY <1>a, <2>2, <2>3, BindStep
<1>9. ASSUME NEW q \in Ports, FlushFdbEntries(q) PROVE Client!Next
  BY <1>a, <1>9, FlushStep DEF FlushFdbEntries, Both
<1>10. ASSUME FlushAllEntries PROVE Client!Next
  BY <1>a, <1>10, FlushStep DEF FlushAllEntries, Both
<1> QED
  BY <1>1, <1>2, <1>3, <1>4, <1>5, <1>6, <1>7, <1>8, <1>9, <1>10
  DEF Next, vars, SeeMac, AgeMac, LinkChange, Learning, Aging, IsrRead, LinkIsrRead

(* A step of the abstract client keeps copy and table equal. *)
LEMMA ClientKeepsCopy ==
  CopyExact /\ [Client!Next]_(Client!vars) => CopyExact'
BY DEF CopyExact, Client!Next, Client!Write, Client!Forget, Client!vars

(* A chip that reports aged MACs one at a time: the client's copy is the *)
(* table, and the switch with its threads and calls implements FdbClient. *)
THEOREM CopyIsTable == ASSUME AgingBatch = 1 PROVE Spec => []CopyExact
PROOF
<1>1. Init => CopyExact
  BY DEF Init, CopyExact
<1>2. TypeOK /\ CopyExact /\ [Next]_vars => CopyExact'
  BY ClientStep, ClientKeepsCopy
<1> QED BY <1>1, <1>2, EventsTypeCorrect, PTL DEF Spec

(* The refinement itself, with the table as the table of the client. *)
THEOREM SwitchImplementsClient == ASSUME AgingBatch = 1 PROVE Spec => FollowsFdb
PROOF
<1>1. Init => Client!Init
  BY DEF Init, Client!Init, Nothing
<1>2. TypeOK /\ CopyExact /\ [Next]_vars => [Client!Next]_(Client!vars)
  BY ClientStep
<1> QED BY <1>1, <1>2, EventsTypeCorrect, CopyIsTable, PTL DEF Spec, FollowsFdb, Client!Spec
=============================================================================
