------------------------------ MODULE UdfHash -------------------------------
(* User-defined fields and the hashes that use them (ctc_sai_udf.c, *)
(* ctc_sai_ld_hash.c) on a chip of the Duet2 kind. A group has a few slots *)
(* for UDFs of one match, one entry in the hardware with their offsets, and a *)
(* mask of the bytes that count in a hash; the two hashes, of ECMP and of *)
(* link aggregation, have a list of groups and a list of native fields. *)
EXTENDS Integers, Sequences, FiniteSets, FiniteSetsExt, SequencesExt

CONSTANTS
  UgIds, UmIds, UdfIds, UdfOffsets,
  UgSlots,      \* slots of a group, 4 in the code
  HashUsages, HashFields

ASSUME UgAssumption == UgSlots \in Nat \ {0} /\ UdfIds \subseteq Nat \ {0}

VARIABLES
  ugRec,     \* groups: -> [slot, mask, valid (add_valid)]
  umRef,     \* matches: -> udf_ref_cnt
  udfRec,    \* UDFs: -> [group, match, offset, inHash]
  ugHw,      \* hardware: group -> its match and offsets
  hashRec,   \* hash -> [groups, fields]
  hashHw,    \* hardware: hash -> [mask: group -> offsets, fields]
  ugStale,   \* history: groups whose mask changed while a hash used them
  hashOff,   \* history: hashes whose list was refused half way
  hashForgot,\* history: hashes whose fields were forgotten by a set of groups
  udfLoose,  \* history: UDFs that lost their slot to another's removal
  umOff,     \* history: matches that such a UDF's removal miscounted
  udfFault   \* the hardware refused an entry, once in a behaviour

udfVars == <<ugRec, umRef, udfRec, ugHw, hashRec, hashHw, ugStale, hashOff, hashForgot, udfLoose,
             umOff, udfFault>>
histVars == <<ugStale, hashOff, hashForgot, udfLoose, umOff, udfFault>>
hashVars == <<hashRec, hashHw, hashOff, hashForgot>>

UPut(f, k, v) == [x \in DOMAIN f \cup {k} |-> IF x = k THEN v ELSE f[x]]
UDrop(f, k) == [x \in DOMAIN f \ {k} |-> f[x]]

Filled(slot) == {i \in DOMAIN slot : slot[i] # 0}
Mates(slot) == {slot[i] : i \in Filled(slot)}

(* _udf_judged_used: by a hash; no ACL table ever counts itself in a group. *)
UsedByHash(g) == \E h \in HashUsages : g \in ToSet(hashRec[h].groups)

(* A match is counted down for another one's UDF: it can go while a UDF needs *)
(* it, and the behaviour is not followed further. *)
UdfCounted == umOff = {}

(* The bytes that count in a hash, and the entry of the hardware. *)
HashMask(slot, recs) == {recs[u].offset : u \in {x \in Mates(slot) : recs[x].inHash}}
HwEntry(slot, recs) ==
  [match |-> recs[slot[Max(Filled(slot))]].match, offsets |-> {recs[u].offset : u \in Mates(slot)}]

(* update_ctc_udf_entry takes the old entry out and puts a new one in; when *)
(* the record has an entry that the hardware has not, it fails. *)
CanUpdate(g) == ugRec[g].valid = (g \in DOMAIN ugHw)
UpdateEntry(g, slot, recs) ==
  ugHw' = IF Filled(slot) = {} THEN UDrop(ugHw, g) ELSE UPut(ugHw, g, HwEntry(slot, recs))

CreateGroup(g) ==
  /\ g \notin DOMAIN ugRec
  /\ ugRec' = UPut(ugRec, g, [slot |-> [i \in 1..UgSlots |-> 0], mask |-> {}, valid |-> FALSE])
  /\ ugStale' = ugStale \ {g}
  /\ UNCHANGED <<umRef, udfRec, ugHw, hashVars, udfLoose, umOff, udfFault>>

\* mutant: the hashes are not asked
RemoveGroupUsed(g) ==
  /\ g \in DOMAIN ugRec /\ Filled(ugRec[g].slot) = {}
  /\ ugRec' = UDrop(ugRec, g)
  /\ UNCHANGED <<umRef, udfRec, ugHw, hashRec, hashHw, histVars>>

RemoveGroup(g) ==
  /\ g \in DOMAIN ugRec /\ ~UsedByHash(g) /\ Filled(ugRec[g].slot) = {}
  /\ ugRec' = UDrop(ugRec, g)
  /\ UNCHANGED <<umRef, udfRec, ugHw, hashRec, hashHw, histVars>>

CreateMatch(m) ==
  /\ m \notin DOMAIN umRef
  /\ umRef' = UPut(umRef, m, 0)
  /\ UNCHANGED <<ugRec, udfRec, ugHw, hashRec, hashHw, histVars>>

RemoveMatch(m) ==
  /\ m \in DOMAIN umRef /\ umRef[m] = 0
  /\ umRef' = UDrop(umRef, m)
  /\ UNCHANGED <<ugRec, udfRec, ugHw, hashRec, hashHw, histVars>>

(* A UDF takes the last free slot; the UDFs of a group have one match. *)
Fits(g, m) ==
  /\ g \in DOMAIN ugRec /\ m \in DOMAIN umRef
  /\ Cardinality(Filled(ugRec[g].slot)) < UgSlots
  /\ \A u \in Mates(ugRec[g].slot) : u = ugRec[g].slot[Max(Filled(ugRec[g].slot))] => udfRec[u].match = m

TakenSlot(g, u) == [ugRec[g].slot EXCEPT ![Max(DOMAIN ugRec[g].slot \ Filled(ugRec[g].slot))] = u]

\* mutant: the match is not counted
CreateUdfUncounted(u, g, m, off, inHash) ==
  LET recs == UPut(udfRec, u, [group |-> g, match |-> m, offset |-> off, inHash |-> inHash])
      slot == TakenSlot(g, u)
  IN /\ u \notin DOMAIN udfRec /\ Fits(g, m) /\ CanUpdate(g)
     /\ udfRec' = recs
     /\ ugRec' = [ugRec EXCEPT ![g] = [slot |-> slot, mask |-> HashMask(slot, recs), valid |-> TRUE]]
     /\ UpdateEntry(g, slot, recs)
     /\ ugStale' = IF UsedByHash(g) THEN ugStale \cup {g} ELSE ugStale
     /\ UNCHANGED <<umRef, hashVars, udfLoose, umOff, udfFault>>

(* Nothing keeps a group that a hash uses from getting one more: the hash is *)
(* not told of the new mask. *)
CreateUdf(u, g, m, off, inHash) ==
  LET recs == UPut(udfRec, u, [group |-> g, match |-> m, offset |-> off, inHash |-> inHash])
      slot == TakenSlot(g, u)
  IN /\ u \notin DOMAIN udfRec /\ Fits(g, m) /\ CanUpdate(g)
     /\ udfRec' = recs
     /\ umRef' = [umRef EXCEPT ![m] = @ + 1]
     /\ ugRec' = [ugRec EXCEPT ![g] = [slot |-> slot, mask |-> HashMask(slot, recs), valid |-> TRUE]]
     /\ UpdateEntry(g, slot, recs)
     /\ ugStale' = IF UsedByHash(g) THEN ugStale \cup {g} ELSE ugStale
     /\ UNCHANGED <<hashVars, udfLoose, umOff, udfFault>>

(* The hardware refuses the new entry when the old one is out: match and *)
(* group get their old contents back, the old entry does not come back. *)
CreateUdfRefused(g, m) ==
  /\ ~udfFault /\ Fits(g, m) /\ g \in DOMAIN ugHw
  /\ ugHw' = UDrop(ugHw, g) /\ udfFault' = TRUE
  /\ UNCHANGED <<ugRec, umRef, udfRec, hashVars, ugStale, udfLoose, umOff>>

SetInHash(u, inHash) ==
  LET g    == udfRec[u].group
      recs == [udfRec EXCEPT ![u].inHash = inHash]
  IN /\ u \in DOMAIN udfRec /\ g \in DOMAIN ugRec /\ ~UsedByHash(g)
     /\ udfRec' = recs
     /\ ugRec' = [ugRec EXCEPT ![g].mask = HashMask(ugRec[g].slot, recs)]
     /\ UNCHANGED <<umRef, ugHw, hashRec, hashHw, histVars>>

\* mutant: the match keeps its count
RemoveUdfCounted(u) ==
  LET g     == udfRec[u].group
      old   == ugRec[g].slot
      mates == Mates(old)
      same  == {x \in mates : udfRec[x].offset = udfRec[u].offset}
      slot  == [i \in DOMAIN old |-> IF old[i] \in same THEN 0 ELSE old[i]]
  IN /\ u \in DOMAIN udfRec /\ g \in DOMAIN ugRec /\ ~UsedByHash(g) /\ CanUpdate(g)
     /\ ugRec' = [ugRec EXCEPT ![g].slot = slot, ![g].valid = Filled(slot) # {}]
     /\ UpdateEntry(g, slot, udfRec)
     /\ udfRec' = UDrop(udfRec, u)
     /\ udfLoose' = (udfLoose \cup same) \ {u}
     /\ UNCHANGED <<umRef, umOff, hashVars, ugStale, udfFault>>

(* Every UDF of the group with the offset of the removed one leaves its slot; *)
(* the match that is counted down is the one of the last UDF looked at; the *)
(* group's mask keeps the byte. *)
RemoveUdf(u) ==
  LET g     == udfRec[u].group
      old   == ugRec[g].slot
      mates == Mates(old)
      same  == {x \in mates : udfRec[x].offset = udfRec[u].offset}
      slot  == [i \in DOMAIN old |-> IF old[i] \in same THEN 0 ELSE old[i]]
      last  == IF mates = {} THEN u ELSE old[Max(Filled(old))]
      m     == udfRec[last].match
  IN /\ u \in DOMAIN udfRec /\ g \in DOMAIN ugRec /\ ~UsedByHash(g) /\ CanUpdate(g)
     /\ ugRec' = [ugRec EXCEPT ![g].slot = slot, ![g].valid = Filled(slot) # {}]
     /\ UpdateEntry(g, slot, udfRec)
     /\ umRef' = [umRef EXCEPT ![m] = (@ - 1) % 256]
     /\ umOff' = IF m = udfRec[u].match THEN umOff ELSE umOff \cup {m, udfRec[u].match}
     /\ udfRec' = UDrop(udfRec, u)
     /\ udfLoose' = (udfLoose \cup same) \ {u}
     /\ UNCHANGED <<hashVars, ugStale, udfFault>>

(* The groups of a hash, in order; the masks of the old ones are cleared, and *)
(* those of the new ones written up to the first that is no group. Then the *)
(* record gets the old list back, the hardware does not. *)
SetHashGroups(h, groups) ==
  LET written == {i \in DOMAIN groups : \A j \in 1..i : groups[j] \in DOMAIN ugRec}
      ok      == written = DOMAIN groups
      cleared == [g \in UgIds |-> IF g \in ToSet(hashRec[h].groups) THEN {} ELSE hashHw[h].mask[g]]
  IN /\ hashHw' = [hashHw EXCEPT ![h].mask = [g \in UgIds |->
                     IF \E i \in written : groups[i] = g THEN ugRec[g].mask ELSE cleared[g]]]
     /\ hashRec' = IF ok THEN [hashRec EXCEPT ![h] = [groups |-> groups, fields |-> {}]] ELSE hashRec
     /\ hashOff' = IF ok THEN hashOff ELSE hashOff \cup {h}
     /\ hashForgot' = IF ok THEN hashForgot \cup {h} ELSE hashForgot
     /\ ugStale' = {g \in ugStale : \E x \in HashUsages \ {h} : g \in ToSet(hashRec[x].groups)}
     /\ UNCHANGED <<ugRec, umRef, udfRec, ugHw, udfLoose, umOff, udfFault>>

\* mutant: the old fields are not cleared first
SetHashFieldsAdded(h, fields) ==
  /\ hashRec' = [hashRec EXCEPT ![h].fields = fields]
  /\ hashHw' = [hashHw EXCEPT ![h] =
                  [mask |-> [g \in UgIds |-> IF g \in ToSet(hashRec[h].groups) THEN ugRec[g].mask
                                             ELSE hashHw[h].mask[g]],
                   fields |-> hashHw[h].fields \cup fields]]
  /\ hashForgot' = hashForgot \ {h}
  /\ UNCHANGED <<ugRec, umRef, udfRec, ugHw, ugStale, hashOff, udfLoose, umOff, udfFault>>

(* The native fields; the masks of the groups are written again. *)
SetHashFields(h, fields) ==
  /\ hashRec' = [hashRec EXCEPT ![h].fields = fields]
  /\ hashHw' = [hashHw EXCEPT ![h] =
                  [mask |-> [g \in UgIds |-> IF g \in ToSet(hashRec[h].groups) THEN ugRec[g].mask
                                             ELSE hashHw[h].mask[g]],
                   fields |-> fields]]
  /\ hashForgot' = hashForgot \ {h}
  /\ UNCHANGED <<ugRec, umRef, udfRec, ugHw, ugStale, hashOff, udfLoose, umOff, udfFault>>

(* Lists of a group, and lists that end in an id that no group has. *)
NoGroup == 0
HashLists == {<< >>, <<NoGroup>>} \cup UNION {{<<g>>, <<g, NoGroup>>} : g \in UgIds}

UdfInit ==
  /\ ugRec = << >> /\ umRef = << >> /\ udfRec = << >> /\ ugHw = << >>
  /\ hashRec = [h \in HashUsages |-> [groups |-> << >>, fields |-> HashFields]]
  /\ hashHw = [h \in HashUsages |-> [mask |-> [g \in UgIds |-> {}], fields |-> HashFields]]
  /\ ugStale = {} /\ hashOff = {} /\ hashForgot = {} /\ udfLoose = {} /\ umOff = {}
  /\ udfFault = FALSE

UdfNext ==
  \/ UdfCounted /\ \E g \in UgIds : CreateGroup(g) \/ RemoveGroup(g)
  \/ UdfCounted /\ \E m \in UmIds : CreateMatch(m) \/ RemoveMatch(m)
  \/ UdfCounted /\ \E u \in UdfIds, g \in UgIds, m \in UmIds, o \in UdfOffsets, b \in BOOLEAN : CreateUdf(u, g, m, o, b)
  \/ UdfCounted /\ \E g \in UgIds, m \in UmIds : CreateUdfRefused(g, m)
  \/ UdfCounted /\ \E u \in UdfIds, b \in BOOLEAN : SetInHash(u, b)
  \/ UdfCounted /\ \E u \in UdfIds : RemoveUdf(u)
  \/ UdfCounted /\ \E h \in HashUsages, gs \in HashLists : SetHashGroups(h, gs)
  \/ UdfCounted /\ \E h \in HashUsages, f \in {{}, HashFields} : SetHashFields(h, f)
  \/ ~UdfCounted /\ UNCHANGED udfVars

(* What the hashes are computed from is what their records say *)
(* (_ctc_sai_ld_hash_set_attr): groups that exist, each with the bytes of its *)
(* UDFs (_ctc_sai_udf_set_hash_mask), unless a UDF joined a group in use or a *)
(* list was refused half way. A group's entry has the offsets of the UDFs in *)
(* its slots, which are the ones that name it but for those that lost their *)
(* slot to another's removal; and a match counts its UDFs, so that one in use *)
(* stays. *)
HashExact ==
  /\ \A h \in HashUsages :
       /\ ToSet(hashRec[h].groups) \subseteq DOMAIN ugRec
       /\ (h \notin hashForgot => hashHw[h].fields = hashRec[h].fields)
       /\ (h \notin hashOff =>
             \A g \in UgIds \ ugStale :
               hashHw[h].mask[g] = IF g \in ToSet(hashRec[h].groups) THEN ugRec[g].mask ELSE {})
  /\ \A g \in DOMAIN ugRec :
       /\ Mates(ugRec[g].slot) = {u \in DOMAIN udfRec : udfRec[u].group = g} \ udfLoose
       /\ (udfFault \/ (ugRec[g].valid = (g \in DOMAIN ugHw) /\ (g \in DOMAIN ugHw) = (Filled(ugRec[g].slot) # {})))
       /\ (g \in DOMAIN ugHw => ugHw[g].offsets = {udfRec[u].offset : u \in Mates(ugRec[g].slot)})
  /\ \A m \in DOMAIN umRef \ umOff :
       umRef[m] = Cardinality({u \in DOMAIN udfRec : udfRec[u].match = m})
  /\ (UdfCounted => \A u \in DOMAIN udfRec : udfRec[u].match \in DOMAIN umRef)
=============================================================================
