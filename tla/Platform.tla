------------------------------ MODULE Platform ------------------------------
(* The parts of the library that share no state with one another, checked in *)
(* one run. A behaviour exercises one part, chosen at the start, while the *)
(* others stay in their initial states: the parts' state spaces add up where *)
(* their product would say nothing more, as no action of one reads or writes *)
(* a variable of another. *)
EXTENDS L2Domain, L2Ports, QosSched, Policing, QosMaps, QosProfiles, Traps,
        HostIfs, Acl, AclActions, Mirror, Sampling

VARIABLE part     \* the part this behaviour exercises

Parts == {"domains", "ports", "scheduling", "policing", "maps", "profiles",
          "traps", "hostifs", "acl", "aclactions", "mirror", "sampling"}

PlatformInit ==
  /\ part \in Parts
  /\ DomInit
  /\ LpInit
  /\ SchInit
  /\ PolInit
  /\ MapInit
  /\ ProfInit
  /\ TrapInit
  /\ HifInit
  /\ AclInit
  /\ ActInit
  /\ MirInit
  /\ SamInit

PlatformNext ==
  \/ /\ part = "domains" /\ DomNext
     /\ UNCHANGED <<part, lpVars, schVars, polVars, mapVars, profVars,
                    trapVars, hifVars, aclVars, actVars, mirVars, samVars>>
  \/ /\ part = "ports" /\ LpNext
     /\ UNCHANGED <<part, domVars, schVars, polVars, mapVars, profVars,
                    trapVars, hifVars, aclVars, actVars, mirVars, samVars>>
  \/ /\ part = "scheduling" /\ SchNext
     /\ UNCHANGED <<part, domVars, lpVars, polVars, mapVars, profVars,
                    trapVars, hifVars, aclVars, actVars, mirVars, samVars>>
  \/ /\ part = "policing" /\ PolNext
     /\ UNCHANGED <<part, domVars, lpVars, schVars, mapVars, profVars,
                    trapVars, hifVars, aclVars, actVars, mirVars, samVars>>
  \/ /\ part = "maps" /\ MapNext
     /\ UNCHANGED <<part, domVars, lpVars, schVars, polVars, profVars,
                    trapVars, hifVars, aclVars, actVars, mirVars, samVars>>
  \/ /\ part = "profiles" /\ ProfNext
     /\ UNCHANGED <<part, domVars, lpVars, schVars, polVars, mapVars,
                    trapVars, hifVars, aclVars, actVars, mirVars, samVars>>
  \/ /\ part = "traps" /\ TrapNext
     /\ UNCHANGED <<part, domVars, lpVars, schVars, polVars, mapVars,
                    profVars, hifVars, aclVars, actVars, mirVars, samVars>>
  \/ /\ part = "hostifs" /\ HifNext
     /\ UNCHANGED <<part, domVars, lpVars, schVars, polVars, mapVars,
                    profVars, trapVars, aclVars, actVars, mirVars, samVars>>
  \/ /\ part = "acl" /\ AclNext
     /\ UNCHANGED <<part, domVars, lpVars, schVars, polVars, mapVars,
                    profVars, trapVars, hifVars, actVars, mirVars, samVars>>
  \/ /\ part = "aclactions" /\ ActNext
     /\ UNCHANGED <<part, domVars, lpVars, schVars, polVars, mapVars,
                    profVars, trapVars, hifVars, aclVars, mirVars, samVars>>
  \/ /\ part = "mirror" /\ MirNext
     /\ UNCHANGED <<part, domVars, lpVars, schVars, polVars, mapVars,
                    profVars, trapVars, hifVars, aclVars, actVars, samVars>>
  \/ /\ part = "sampling" /\ SamNext
     /\ UNCHANGED <<part, domVars, lpVars, schVars, polVars, mapVars,
                    profVars, trapVars, hifVars, aclVars, actVars, mirVars>>

PlatformSpec ==
  /\ PlatformInit
  /\ [][PlatformNext]_<<part, domVars, lpVars, schVars, polVars, mapVars,
                        profVars, trapVars, hifVars, aclVars, actVars,
                        mirVars, samVars>>

(* The paths of packets to the CPU and back: the traps' entries and queues as *)
(* create_hostif_trap and set_trap_property leave them, and each packet handed to *)
(* the interface of the port or LAG it came from. *)
CpuPathExact ==
  /\ TrapsExact
  /\ HostIfsExact

(* ACLs: bind_point_set, the group member and the entry calls install at a port *)
(* what it is bound to, and set_acl_entry_info makes it do what is recorded. *)
AclsExact ==
  /\ AclExact
  /\ ActionsExact

(* Mirroring and sampling: set_port_mirr, set_acl_mirr and set_port_samplepacket *)
(* leave in the chip what the sessions' and the objects' records say. *)
MonitoringExact ==
  /\ MirrorsExact
  /\ SamplingExact

(* VLANs, bridges and STP instances: no instance in use is removed *)
(* (remove_stp), and the chip floods or drops unknown packets as the *)
(* switch's miss action and the VLAN's flood control say. *)
BridgingExact ==
  /\ DomainsExact
  /\ FloodExact

(* Quality of service: the chip schedules, polices, classifies and drops as the *)
(* records of schedulers, policers, maps and profiles say, and none in use is *)
(* removed (scheduler_queue_set_scheduler, policer_port_set_policer, *)
(* qos_map_port_set_map, wred_queue_set_wred and buffer_queue_set_profile). *)
QosExact ==
  /\ SchedulingExact
  /\ PolicersExact
  /\ ClassifiesByMaps
  /\ ProfilesExact
=============================================================================
