------------------------------ MODULE ApiTable ------------------------------
(* The adapter's own calls (ctc_sai.c): it is initialised and uninitialised, *)
(* and a client lists the objects of a type with two calls, one that counts *)
(* them and one that writes their keys, each under the database lock but not *)
(* both under one; the hardware learns MACs under no lock at all. *)
EXTENDS Integers, Sequences, FiniteSets, FiniteSetsExt, SequencesExt

CONSTANTS
  QObjs,   \* objects of a type
  QVals,   \* values of an attribute of theirs
  QMacs,   \* MACs, numbered as their places in the hardware
  QPage    \* entries in a page of the hardware's table, 100 in the code

ASSUME QAssumption == QObjs \subseteq Nat \ {0} /\ QMacs \subseteq Nat \ {0} /\ QPage \in Nat \ {0}

VARIABLES
  apiUp,    \* api_status: the tables of g_api_master are there
  apiHeld,  \* the client has tables it got from sai_api_query
  qHas,     \* database: object -> value of its attribute
  qFdb,     \* hardware: MACs
  qUse,     \* "list" or "avail" (sai_object_type_get_availability)
  qType,    \* "object" or "fdb"
  qPhase,   \* "idle", "counted", "dumping", "listed", "refused", "dead"
  qCount,   \* what the first call answered, the size of the list
  qList,    \* keys, 0 one that was never written
  qAt,      \* dumping: the hardware's next index
  qFound,   \* availability: objects counted so far, and the value asked for
  qKept,    \* history: keys there ever since the count
  qGrown,   \* history: keys made or learned since
  qChanged  \* history: an object went since

adapterVars == <<apiUp, apiHeld>>
queryVars == <<qUse, qType, qPhase, qCount, qList, qAt, qFound>>
qVars == <<adapterVars, qHas, qFdb, queryVars, qKept, qGrown, qChanged>>

QIdle ==
  /\ qUse' = "list" /\ qType' = "object" /\ qPhase' = "idle" /\ qCount' = 0
  /\ qList' = << >> /\ qAt' = 0 /\ qFound' = <<0, 0>>
  /\ qKept' = {} /\ qGrown' = {} /\ qChanged' = FALSE

(* Every initialisation begins by clearing g_api_master; one with a bad *)
(* argument then ends, so that it takes down an adapter that was running. *)
sai_api_initialize(good) ==
  /\ apiUp' = good
  /\ UNCHANGED <<apiHeld, qHas, qFdb, queryVars, qKept, qGrown, qChanged>>

sai_api_query ==
  /\ apiUp /\ ~apiHeld /\ apiHeld' = TRUE
  /\ UNCHANGED <<apiUp, qHas, qFdb, queryVars, qKept, qGrown, qChanged>>

(* The switch and the objects stay, and so do the tables the client holds. *)
sai_api_uninitialize ==
  /\ apiUp /\ apiUp' = FALSE
  /\ UNCHANGED <<apiHeld, qHas, qFdb, queryVars, qKept, qGrown, qChanged>>

(* Between the two calls, and after them, others create and remove; only the *)
(* dump of the MACs keeps the lock from one step to the next. *)
InQuery == qPhase \notin {"idle", "dead"}

ObjectMade(o, v) ==
  /\ apiHeld /\ qPhase # "dumping" /\ o \notin DOMAIN qHas
  /\ qHas' = [x \in DOMAIN qHas \cup {o} |-> IF x = o THEN v ELSE qHas[x]]
  /\ qGrown' = IF InQuery /\ qType = "object" THEN qGrown \cup {o} ELSE qGrown
  /\ UNCHANGED <<adapterVars, qFdb, queryVars, qKept, qChanged>>

ObjectGone(o) ==
  /\ qPhase # "dumping" /\ o \in DOMAIN qHas
  /\ qHas' = [x \in DOMAIN qHas \ {o} |-> qHas[x]]
  /\ qKept' = IF qType = "object" THEN qKept \ {o} ELSE qKept
  /\ qChanged' = (qChanged \/ (InQuery /\ qType = "object"))
  /\ UNCHANGED <<adapterVars, qFdb, queryVars, qGrown>>

MacLearned(m) ==
  /\ apiHeld /\ m \notin qFdb /\ qFdb' = qFdb \cup {m}
  /\ qGrown' = IF InQuery /\ qType = "fdb" THEN qGrown \cup {m} ELSE qGrown
  /\ UNCHANGED <<adapterVars, qHas, queryVars, qKept, qChanged>>

MacAged(m) ==
  /\ m \in qFdb /\ qFdb' = qFdb \ {m}
  /\ qKept' = IF qType = "fdb" THEN qKept \ {m} ELSE qKept
  /\ UNCHANGED <<adapterVars, qHas, queryVars, qGrown, qChanged>>

QKeys(type) == IF type = "fdb" THEN qFdb ELSE DOMAIN qHas

(* The first call. The list of keys is made as long as it answers. *)
sai_get_object_count(use, type, asked) ==
  /\ qPhase = "idle" /\ apiHeld
  /\ qUse' = use /\ qType' = type /\ qPhase' = "counted"
  /\ qCount' = Cardinality(QKeys(type))
  /\ qList' = [i \in 1..Cardinality(QKeys(type)) |-> 0]
  /\ qFound' = <<0, asked>> /\ qKept' = QKeys(type) /\ qGrown' = {} /\ qChanged' = FALSE
  /\ UNCHANGED <<adapterVars, qHas, qFdb, qAt>>

(* The list is too short: the client counts again; the availability call does *)
(* not look at the answer. *)
KeysRefused ==
  /\ qPhase = "counted" /\ qCount < Cardinality(QKeys(qType))
  /\ qPhase' = IF qUse = "avail" THEN "listed" ELSE "refused"
  /\ UNCHANGED <<adapterVars, qHas, qFdb, qUse, qType, qCount, qList, qAt, qFound, qKept, qGrown,
                 qChanged>>

\* mutant: the length of the list is not looked at
ObjectKeysUnchecked ==
  LET keys == SetToSeq(DOMAIN qHas)
  IN /\ qPhase = "counted" /\ qType = "object"
     /\ qList' = [i \in 1..Max({qCount, Len(keys)}) |-> IF i <= Len(keys) THEN keys[i] ELSE 0]
     /\ qPhase' = "listed"
     /\ UNCHANGED <<adapterVars, qHas, qFdb, qUse, qType, qCount, qAt, qFound, qKept, qGrown, qChanged>>

(* The keys of objects are written in one traversal, under the lock. The *)
(* number of keys is not given back: an object that went since the count *)
(* leaves a slot as it was. *)
ObjectKeys ==
  LET keys == SetToSeq(DOMAIN qHas)
  IN /\ qPhase = "counted" /\ qType = "object" /\ Len(keys) <= qCount
     /\ qList' = [i \in 1..qCount |-> IF i <= Len(keys) THEN keys[i] ELSE 0]
     /\ qPhase' = "listed"
     /\ UNCHANGED <<adapterVars, qHas, qFdb, qUse, qType, qCount, qAt, qFound, qKept, qGrown, qChanged>>

DumpStarts ==
  /\ qPhase = "counted" /\ qType = "fdb" /\ Cardinality(qFdb) <= qCount
  /\ qPhase' = "dumping" /\ qAt' = 1 /\ qList' = << >>
  /\ UNCHANGED <<adapterVars, qHas, qFdb, qUse, qType, qCount, qFound, qKept, qGrown, qChanged>>

(* The next entries of the hardware's table, as many as a page holds. *)
Page(from) ==
  LET rest == {m \in qFdb : m >= from}
  IN SetToSortSeq({m \in rest : Cardinality({x \in rest : x <= m}) <= QPage}, <)

\* mutant: the next page begins with the last entry of this one
DumpPageAgain ==
  LET page == Page(qAt)
      last == page = << >> \/ \A m \in qFdb : m <= Last(page)
  IN /\ qPhase = "dumping"
     /\ qList' = qList \o page
     /\ qAt' = IF last THEN 0 ELSE Last(page)
     /\ qPhase' = IF last THEN "listed" ELSE "dumping"
     /\ UNCHANGED <<adapterVars, qHas, qFdb, qUse, qType, qCount, qFound, qKept, qGrown, qChanged>>

(* A page is written behind the ones before it, whatever the list's length; *)
(* between two pages the task sleeps, with the lock held. *)
DumpPage ==
  LET page == Page(qAt)
      last == page = << >> \/ \A m \in qFdb : m <= Last(page)
  IN /\ qPhase = "dumping"
     /\ qList' = qList \o page
     /\ qAt' = IF last THEN 0 ELSE Last(page) + 1
     /\ qPhase' = IF last THEN "listed" ELSE "dumping"
     /\ UNCHANGED <<adapterVars, qHas, qFdb, qUse, qType, qCount, qFound, qKept, qGrown, qChanged>>

Judging == qPhase = "listed" /\ qUse = "avail" /\ qList # << >>

(* A slot that was not written holds whatever the memory held. *)
KeyRead == IF Head(qList) = 0 THEN {0} \cup DOMAIN qHas ELSE {Head(qList)}

\* mutant: the objects with the value asked for are counted
JudgeEqual(key) ==
  /\ Judging /\ apiUp /\ key \in KeyRead
  /\ qList' = Tail(qList)
  /\ qFound' = IF key \in DOMAIN qHas /\ qHas[key] = qFound[2]
                 THEN <<qFound[1] + 1, qFound[2]>> ELSE qFound
  /\ UNCHANGED <<adapterVars, qHas, qFdb, qUse, qType, qPhase, qCount, qAt, qKept, qGrown, qChanged>>

(* get_availability reads each object it listed, through a table it does not *)
(* look at, and counts the ones whose attribute has another value. *)
Judge(key) ==
  /\ Judging /\ apiUp /\ key \in KeyRead
  /\ qList' = Tail(qList)
  /\ qFound' = IF key \in DOMAIN qHas /\ qHas[key] # qFound[2]
                 THEN <<qFound[1] + 1, qFound[2]>> ELSE qFound
  /\ UNCHANGED <<adapterVars, qHas, qFdb, qUse, qType, qPhase, qCount, qAt, qKept, qGrown, qChanged>>

JudgeWithoutTable ==
  /\ Judging /\ ~apiUp
  /\ qPhase' = "dead"
  /\ UNCHANGED <<adapterVars, qHas, qFdb, qUse, qType, qCount, qList, qAt, qFound, qKept, qGrown,
                 qChanged>>

Answered == qPhase = "listed" /\ (qUse = "avail" => qList = << >>)

QueryEnds ==
  /\ Answered \/ qPhase = "refused"
  /\ QIdle /\ UNCHANGED <<adapterVars, qHas, qFdb>>

QInit ==
  /\ apiUp = FALSE /\ apiHeld = FALSE /\ qHas = << >> /\ qFdb = {}
  /\ qUse = "list" /\ qType = "object" /\ qPhase = "idle" /\ qCount = 0
  /\ qList = << >> /\ qAt = 0 /\ qFound = <<0, 0>>
  /\ qKept = {} /\ qGrown = {} /\ qChanged = FALSE

(* When a client is dead the behaviour is over. *)
QNext ==
  \/ qPhase # "dead" /\ \E g \in BOOLEAN : sai_api_initialize(g)
  \/ sai_api_query
  \/ qPhase # "dead" /\ sai_api_uninitialize
  \/ qPhase # "dead" /\ \E o \in QObjs, v \in QVals : ObjectMade(o, v) \/ ObjectGone(o)
  \/ qPhase # "dead" /\ \E m \in QMacs : MacLearned(m) \/ MacAged(m)
  \/ \E a \in QVals : sai_get_object_count("avail", "object", a)
  \/ \E t \in {"object", "fdb"} : sai_get_object_count("list", t, 0)
  \/ KeysRefused
  \/ ObjectKeys
  \/ DumpStarts
  \/ DumpPage
  \/ \E k \in {0} \cup QObjs : Judge(k)
  \/ JudgeWithoutTable
  \/ QueryEnds
  \/ qPhase = "dead" /\ UNCHANGED qVars

Written == {i \in DOMAIN qList : qList[i] # 0}

(* sai_get_object_key lists what was there ever since sai_get_object_count, *)
(* each key once, writes over the end of the list only when the hardware *)
(* learned in between, and leaves a slot unwritten only when an object went; *)
(* a key too many is refused exactly when one was made in between. Without a *)
(* change the availability call counts the objects whose value differs. Only *)
(* a client of an adapter that was taken down dies. *)
QueriesExact ==
  /\ (qPhase = "listed" /\ qUse = "list" =>
        /\ qKept \subseteq {qList[i] : i \in Written}
        /\ \A i, j \in Written : qList[i] = qList[j] => i = j \/ qList[i] \in qGrown
        /\ (Len(qList) > qCount => qType = "fdb" /\ qGrown # {})
        /\ (qType = "object" /\ Written # DOMAIN qList => qChanged))
  /\ (qPhase = "refused" => qGrown # {})
  /\ (Answered /\ qUse = "avail" /\ ~qChanged /\ qGrown = {} =>
        qFound[1] = Cardinality({o \in DOMAIN qHas : qHas[o] # qFound[2]}))
  /\ (qPhase = "dead" => ~apiUp)
=============================================================================
