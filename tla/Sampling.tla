------------------------------ MODULE Sampling -------------------------------
(* Sampling of packets (ctc_sai_samplepacket.c). A samplepacket object has a *)
(* rate and a list of what it is bound to; a port's record names the object *)
(* of each direction, the chip has a rate and a switch for each. An ACL entry *)
(* that samples takes the mirror slots of its stage and uses the first. *)
EXTENDS Naturals, FiniteSets, FiniteSetsExt

CONSTANTS
  Samples,     \* samplepacket objects, numbers from 1 on
  SampleRates, \* one packet in so many
  SamPorts, SamDirs,
  SamEntries,  \* ACL entries
  MaxRate      \* CTC_SAI_RANDOM_LOG_MAX_RATE
ASSUME SamAssumption == Samples \cup SampleRates \subseteq Nat \ {0} /\ MaxRate \in Nat

VARIABLES
  sampleRate,  \* rate of each object; 0: not created
  samNodes,    \* port_list: <<object, port, direction>>
  portSample,  \* the ports' records; 0: none
  logRate, logOn,  \* the chip
  sampled,     \* the entries that sample
  logSession,  \* the chip: the first session of their stage goes to the CPU
  cutOff,      \* history: the session was removed while entries sample
  samStray,    \* history: ports whose object was replaced or removed
  rerated      \* history: ports whose rate was written as it is
samVars == <<sampleRate, samNodes, portSample, logRate, logOn, sampled, logSession,
             cutOff, samStray, rerated>>
entryVars == <<sampled, logSession, cutOff>>

SamInit ==
  /\ sampleRate = [s \in Samples |-> 0] /\ samNodes = {}
  /\ portSample = [p \in SamPorts |-> [d \in SamDirs |-> 0]]
  /\ logRate = [p \in SamPorts |-> [d \in SamDirs |-> 0]]
  /\ logOn = [p \in SamPorts |-> [d \in SamDirs |-> FALSE]]
  /\ sampled = {} /\ logSession = FALSE /\ cutOff = FALSE
  /\ samStray = {} /\ rerated = {}

(* The chip samples value packets in MaxRate. From MaxRate on every packet is *)
(* sampled. *)
Portion(r) == IF r >= MaxRate THEN MaxRate ELSE MaxRate \div r
(* _ctc_sai_samplepacket_rate_map_acl_precent: the power of two below, of 16. *)
Power(r) == Max({k \in 0..16 : 2^k <= r})
MapsToPercent(r) == Power(r) < 16

CreateSample(s, r) ==
  /\ sampleRate[s] = 0
  /\ sampleRate' = [sampleRate EXCEPT ![s] = r]
  /\ UNCHANGED <<samNodes, portSample, logRate, logOn, entryVars, samStray, rerated>>
(* Nothing asks whether the object is in use. *)
RemoveSample(s) ==
  /\ sampleRate[s] # 0
  /\ sampleRate' = [sampleRate EXCEPT ![s] = 0]
  /\ samNodes' = {n \in samNodes : n[1] # s}
  /\ samStray' = samStray \cup {p \in SamPorts : \E d \in SamDirs : portSample[p][d] = s}
  /\ UNCHANGED <<portSample, logRate, logOn, entryVars, rerated>>
(* set_samplepacket_property writes the rate itself to the bound ports. *)
SetSampleRate(s, r) ==
  LET at == {<<n[2], n[3]>> : n \in {m \in samNodes : m[1] = s}}
  IN /\ sampleRate[s] \notin {0, r}
     /\ sampleRate' = [sampleRate EXCEPT ![s] = r]
     /\ logRate' = [p \in SamPorts |-> [d \in SamDirs |-> IF <<p, d>> \in at THEN r ELSE logRate[p][d]]]
     /\ rerated' = rerated \cup at
     /\ UNCHANGED <<samNodes, portSample, logOn, entryVars, samStray>>

(* set_port_samplepacket and the port's record. A port that has the object in *)
(* either direction is refused. An object that is replaced keeps the port in *)
(* its list. *)
BindSample(p, d, s) ==
  /\ sampleRate[s] # 0 /\ ~\E e \in SamDirs : <<s, p, e>> \in samNodes
  /\ samNodes' = samNodes \cup {<<s, p, d>>}
  /\ portSample' = [portSample EXCEPT ![p][d] = s]
  /\ logRate' = [logRate EXCEPT ![p][d] = Portion(sampleRate[s])]
  /\ logOn' = [logOn EXCEPT ![p][d] = TRUE]
  /\ samStray' = IF portSample[p][d] = 0 THEN samStray ELSE samStray \cup {p}
  /\ rerated' = rerated \ {<<p, d>>}
  /\ UNCHANGED <<sampleRate, entryVars>>
\* mutant: the node stays in the object's list
UnbindSample_listed(p, d) ==
  LET s == portSample[p][d]
  IN /\ s # 0 /\ sampleRate[s] # 0 /\ \E e \in SamDirs : <<s, p, e>> \in samNodes
     /\ portSample' = [portSample EXCEPT ![p][d] = 0]
     /\ logOn' = [logOn EXCEPT ![p][d] = FALSE]
     /\ UNCHANGED <<sampleRate, samNodes, logRate, entryVars, samStray, rerated>>
UnbindSample(p, d) ==
  LET s == portSample[p][d]
  IN /\ s # 0 /\ sampleRate[s] # 0 /\ \E e \in SamDirs : <<s, p, e>> \in samNodes
     /\ samNodes' = samNodes \ {<<s, p, e>> : e \in SamDirs}
     /\ portSample' = [portSample EXCEPT ![p][d] = 0]
     /\ logOn' = [logOn EXCEPT ![p][d] = FALSE]
     /\ UNCHANGED <<sampleRate, logRate, entryVars, samStray, rerated>>

(* set_acl_samplepacket with ctc_sai_mirror_alloc_sess_res_index: the search *)
(* takes every slot of the stage that is empty and always answers the first *)
(* one, whose session then goes to the CPU. *)
SampleEntry(e, s) ==
  /\ e \notin sampled /\ sampleRate[s] # 0 /\ MapsToPercent(sampleRate[s])
  /\ sampled' = sampled \cup {e} /\ logSession' = TRUE /\ cutOff' = FALSE
  /\ UNCHANGED <<sampleRate, samNodes, portSample, logRate, logOn, samStray, rerated>>
(* The session is removed from the chip for every entry that samples, and *)
(* ctc_sai_mirror_free_sess_res_index removes element 0 of the vector and not *)
(* the stage's: its slots stay taken. *)
UnsampleEntry(e) ==
  /\ e \in sampled
  /\ sampled' = sampled \ {e} /\ logSession' = FALSE
  /\ cutOff' = (sampled' # {})
  /\ UNCHANGED <<sampleRate, samNodes, portSample, logRate, logOn, samStray, rerated>>

SamNext ==
  \/ \E s \in Samples, r \in SampleRates : CreateSample(s, r) \/ SetSampleRate(s, r)
  \/ \E s \in Samples : RemoveSample(s)
  \/ \E p \in SamPorts, d \in SamDirs, s \in Samples : BindSample(p, d, s)
  \/ \E p \in SamPorts, d \in SamDirs : UnbindSample(p, d)
  \/ \E e \in SamEntries, s \in Samples : SampleEntry(e, s)
  \/ \E e \in SamEntries : UnsampleEntry(e)
SamSpec == SamInit /\ [][SamNext]_samVars

-----------------------------------------------------------------------------
(* Sampling of a port: the chip samples it in a direction exactly when its *)
(* record names an object, with the portion the object's rate asks for until *)
(* the rate is set while bound; the object's list has it, so that a change of *)
(* rate reaches every port bound to it and no other. An entry that samples *)
(* has a session. A port whose object was replaced or removed while bound is *)
(* not asked about. *)
SamplingExact ==
  /\ \A p \in SamPorts, d \in SamDirs : p \notin samStray =>
       /\ logOn[p][d] = (portSample[p][d] # 0)
       /\ {s \in Samples : <<s, p, d>> \in samNodes} = {portSample[p][d]} \ {0}
       /\ logOn[p][d] /\ <<p, d>> \notin rerated => logRate[p][d] = Portion(sampleRate[portSample[p][d]])
  /\ ~cutOff => logSession = (sampled # {})
=============================================================================
