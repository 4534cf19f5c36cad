# A TLA+ model of the Centec SAI implementation

The repository implements the Switch Abstraction Interface (SAI) on the Centec
SDK. A caller (SONiC's orchestration agent, the thrift tests) creates, changes
and removes objects: virtual routers, router interfaces, neighbors, next hops,
routes, VLANs, ACL entries, OAM sessions and so on. The code keeps a database of
the objects and a pool of hardware ids of each kind, and drives the SDK
(`ctcs_*` functions) with them. The models are about what keeps these three
together: the record of an object, the ids it holds, and what the SDK was told;
and about the threads, restarts and failures that pull them apart.

Contents: [inventory](#inventory), [modules](#modules-and-the-code),
[runs](#runs), [proofs](#proofs), [what the models show](#what-the-models-show-of-the-code),
[not modelled](#not-modelled), [plan](#plan).

## Inventory

### How the system runs

* **Object database** (`ctc_sai_db.c`, `ctc_sai_oid.c`). Per chip: a hash table
  of objects by 64-bit object id, tables of entries by key (routes, neighbors,
  FDB), an id pool per object kind, and one mutex.
  `ctc_sai_db_alloc_id` returns a free id or a failure; an object id packs the
  type, a sub type and up to two ids, so a handler reads ids back from it.
* **Handlers.** An API function takes the mutex, looks objects up, allocates
  ids, calls the SDK, writes the database, and releases the mutex. Failures go
  through `goto error<n>` labels that undo the earlier steps in reverse order.
  A handler is therefore one atomic step, except where it
  - reads state before it takes the lock (`create_rif`, `create_es`,
    `create_y1731_remote_mep`, `create_tunnel_term_table_entry`),
  - goes on after it has released it (`remove_group` of an isolation group),
  - takes it more than once (`sai_get_object_count` and `sai_get_object_key`),
  - never takes it (a warm `remove_switch`, the host interface's packet paths),
  - returns without releasing it (`remove_counter`, `create_nh_grp`,
    `create_ptp_domain`, `remove_es` and others).
* **Callbacks.** The SDK calls the learning, aging, link and OAM handlers of
  `ctc_sai_switch.c` from its own threads; a polling thread of `ctc_sai_port.c`
  looks for lost link interrupts; the host interfaces have a receive callback
  and a thread. Between modules, a LAG's members are told through callbacks that
  bridge and host interfaces register.
* **Restart.** A warm `remove_switch` writes the objects to Redis, a warm
  `create_switch` reads them back and reserves their ids.
* **The SDK** is external: it may refuse any call.

### Components

| Component | State | Operations | Interacts with | What makes it correct | Module |
|---|---|---|---|---|---|
| Virtual router, router interface | VRF, L3IF, VIF and statistics ids, port modes, router MACs | create (checked before the lock), remove, set (propagated), bridge update | routes, neighbors, next hops, bridge | pools, SDK table, counters and port modes match the objects; a failed create leaves nothing | `L3Interface` |
| Neighbor, IP next hop | a record shared by both, ARP and next hop ids, host route | create, remove, remove all, set, FDB update | FDB, switch, routes | the record lives as long as a user; the adjacency follows the FDB; ids are never shared | `Neighbor` |
| Next hop group, route, counter | paths, members, action, statistics ids | create, remove, set, bulk | neighbors | the SDK has what is recorded; a counter in use owns a live id; the lock is released | `Routing` |
| FDB and switch events | SDK FDB, flush; learning, aging and link reports | create, remove, flush, three callbacks, polling | neighbors, client | the client's copy follows; the port state converges | `SwitchEvents`, `FdbClient` |
| VLAN, bridge, STP | fids, instances, flood controls, counters | create, remove, set | ports, switch | membership is exact on both sides; no instance in use goes | `L2Domain` |
| LAG, bridge port, VLAN member, STP port | configuration copied to the members | create, remove, join, leave, set | VLAN, STP | a member has its LAG's configuration whatever came first | `L2Ports` |
| Scheduler and group, queue | classes, shapes, child lists, counts | create, remove, set, attach | port | the chip schedules as recorded; none in use goes | `QosSched` |
| Policer | mode, rate, user | create, remove, set, attach | ports, storm control, ACL | the user polices at the recorded rate | `Policing` |
| QoS map | shared domains with counts | create, remove, set | ports, switch | a port's domain has its two maps | `QosMaps` |
| WRED, buffer, priority group | counts, the drop scheme | create, remove, set | queues | a profile in use stays; the scheme is the profile's | `QosProfiles` |
| Host interface | descriptors, epoll set, trapping | create, remove, two packet paths | LAG, kernel | a packet goes to the interface it is for | `HostIfs` |
| Traps | counts, entries, queues | create, remove, set, user-defined traps | ACL, CPU queues | what reaches the CPU, and on which queue | `Traps` |
| ACL | tables, groups, entries, bindings | create, remove, bind, set | ports, counters | a bound port has exactly what is recorded; an entry does what is recorded | `Acl`, `AclActions` |
| Mirror, sampling | session slots, lists, rates | create, remove, set, attach | ports, ACL, next hops | who mirrors where; rates | `Mirror`, `Sampling` |
| BFD, Y.1731, TWAMP | sessions, MEPs, routes, next hops | create, remove, set | next hops, OAM engine | each holds what it needs and no more | `Bfd`, `Y1731`, `Twamp` |
| OAM events | batches of the engine | callback | BFD, Y.1731, client | told in the right name | `OamEvents` |
| Tunnel | maps, terminations, next hops, logic ports, counters | create, remove, set | next hops, MPLS | installed as soon as it can be, in any order | `Tunnel` |
| MPLS, ethernet segment | labels, counts | create, remove, set | tunnels, ports | a label has one owner and does what it says | `Mpls` |
| Multicast | groups, entries, bindings | create, remove, set | VLAN, interfaces | layer 3 replicates where layer 2 does | `Mcast`, `Rpf` |
| NAT | rules, next hops, counts | create, remove, bulk | neighbors | rules and next hops match the entries | `Nat` |
| Isolation group | ids, members | create, remove | ports | isolated ports are the group's | `Isolation` |
| Port | record, frame sizes, flow control | set, get | interfaces | what was set stays, whatever the others are | `PortConfig` |
| UDF, hash | slots, masks, counts | create, remove, set | ECMP, LAG | hashes use the bytes the groups name | `UdfHash` |
| Debug counter | indexes, reasons | create, remove, set, read, clear | ports | counts what it is read for | `DropCounter` |
| PTP, SyncE | domain, frame, clocks | create, remove, set | ports | the hardware has the domain's values | `TimeSync` |
| Attributes | tables of functions, the headers' flags | set, get | every object | behave as the headers declare | `AttrContract`, `AttrTables`, `AttrApi` |
| API table | g_api_master | initialise, count, list, judge | every object | a client is told of what is there | `ApiTable` |
| Database, warm boot | tables, pools, the store | save, reload, crash | every object | what was there comes back with its ids | `WarmBoot` |
| Telemetry, profiles, SDK | | | | see [not modelled](#not-modelled) | |

### What is hard

Every handler has many failure points after its first effect; objects of
different kinds share records, ids and counters; removal functions seldom ask
for users; the same hardware register is written for several attributes; a
change must reach every user of an object, whatever the order in which they came;
and the chip changes the FDB on its own. `PROJECT.json` lists the forty
hazards that matter most at their lines with the properties that cover them;
[the list below](#other-departures-by-line) has the others that were met.

## Modules and the code

Proofs are in modules of their own, named after the module they are about;
`QosProofs` and `PlatformProofs` are about the parts of `Platform`, `ServicesProofs`
about those of `Services` that deliver frames and that watch the paths.

The modules keep the source's names for records and functions where TLA+ allows
it. A few conventions hold in all of them:

* a record of the database is a function from the ids alive (or a record with an
  explicit empty value), a pool is the set of ids taken, and a new id is the
  lowest free one where the choice does not matter;
* variables with `hw` or named for the chip are the SDK's tables, written where
  the code calls a `ctcs_*` function;
* a handler under the mutex is one action, one with a gap is two with a variable
  for what it knows in between;
* a *history* variable is written and never read by an action's guard. It
  records that the code has left the path on which its promise holds (a failing
  call after which database and SDK differ, an object removed in use, ...). A
  property excepts exactly the objects in it, so that what is claimed of the
  others stays exact, and the exception is a statement of its own: it says where
  the code breaks the promise.

### L3Interface

`ctc_sai_virtual_router.c` and `ctc_sai_router_interface.c`. `vr` and `rif` are
the objects, `vrfPool`, `l3ifPool` and `vifPool` the ids taken, `hw` and `stats`
the SDK's interfaces and statistics, `subIfRef`, `sclEn` and `phyIfEn` the port
fields, `pending` the `create_rif` calls between their check and the lock.
`create_rif` is therefore two actions, `RifAttrCheck` and `CreateRif`, whose
branches are `CreateVif`, `CreateVirtual` and `CreateL3if`; `Error1` ... `Error6`
are its labels, composed as the code falls through them. `RemoveRif`,
`SetRifAttr`, `SetVrV4`, `SetVrMac` and `UpdateBridgeRif` are the other handlers.
`SetAttrHw` is the function that rewrites the SDK's interface after each change.

### Neighbor

`ctc_sai_neighbor.c`, the IP paths of `ctc_sai_next_hop.c` and the places of
`ctc_sai_fdb.c` and `ctc_sai_switch.c` that call `ctc_sai_neighbor_update_arp`.
`nb` maps an interface and an address to the shared record (`exists`, `ref`,
`arp`, `nh`, MAC, action); `nhObj` the next hop objects; `hwArp`, `hwNh` and the
host routes the SDK's tables; the FDB and the queue of events not yet handled
are there because the chip may write the first before the code hears of it.
Helpers such as `AddArpEntry` and `RemoveNexthop` work on a record
of the parts of the state they touch and say whether they succeeded, as the C
functions do; an action runs them and writes the result with `Become`.

### Routing

`ctc_sai_next_hop_group.c`, `ctc_sai_route.c` and `ctc_sai_counter.c`. The
object id of a group (type, APS id and next hop id) is kept in members and routes,
which find a group again by it: a member that outlives its group is attached to
the next one with that id. `locked` is the mutex left taken by an early return;
every action needs it free. `orderly` is a history variable: it is TRUE until a
failure after which the code leaves database and SDK apart, a counter with two
users, or a group removed in use.

### SwitchEvents and FdbClient

`SwitchEvents` has the switch's own threads: the learning, aging and link
callbacks of `ctc_sai_switch.c`, the polling thread of `ctc_sai_port.c` and the
FDB calls of `ctc_sai_fdb.c`. The link callback reads the link before it takes
the mutex and is two actions; reports wait in queues and link interrupts may be
lost. `FdbClient` is the abstract specification: a client with a copy of the
FDB, to which every change is told as one event. `FollowsFdb` says that
`SwitchEvents` implements it, under the mapping `Client` of the module.

### Platform: layer 2, quality of service, CPU, ACL, monitoring

`Platform` runs twelve modules, one per behaviour.

* `L2Domain`: VLANs, 802.1D bridges and spanning tree instances
  (`ctc_sai_vlan.c`, `ctc_sai_bridge.c`, `ctc_sai_stp.c`) with the switch's miss
  action. VLANs and bridges share the fids; an instance counts its VLANs.
* `L2Ports`: `ctc_sai_lag.c` with the bridge ports, VLAN members and STP ports
  of LAGs. The chip has no configuration of a LAG, so `hwMem` has one per
  member port, and the join and leave callback copies the records or resets it.
  `skew` (history) has what is written without a record, per attribute, VLAN or
  STP instance of a LAG, `stray` the ports whose removal the SDK refused.
* `QosSched`: `ctc_sai_scheduler.c`, `ctc_sai_scheduler_group.c` and the queues;
  DWRR queues share the class of the lowest.
* `Policing`: `ctc_sai_policer.c` with ports, storm controls and ACL entries; the
  policer knows its user in a union of a port and an entry number.
* `QosMaps`: `ctc_sai_qosmap.c`; a port that gets or gives up a map moves to the
  domain that has its two maps, one it may extend, or an empty one.
* `QosProfiles`: `ctc_sai_wred.c`, `ctc_sai_buffer.c`; two kinds of profile write
  one drop scheme.
* `Traps` and `HostIfs`: the two halves of `ctc_sai_hostif.c`. `HostIfs` has the
  packet paths, which look an interface up without the lock and use it later,
  with the kernel reusing descriptors.
* `Acl` and `AclActions`: `ctc_sai_acl.c`. `Acl` has tables, groups, members and
  entries and what of them is installed at a bound port; `AclActions` what one
  entry does, as recorded and at each SDK entry of it.
* `Mirror`, `Sampling`: `ctc_sai_mirror.c`, `ctc_sai_samplepacket.c`; the slots
  of sessions with their counts, next hops and multicast groups.

### Services: OAM, overlays, delivery, system

`Services` runs eighteen parts in the same way, `L3Interface` with its interfaces
without a port among them.

* `Bfd`, `Y1731`, `Twamp`: `ctc_sai_bfd.c`, `ctc_sai_y1731.c`, `ctc_sai_twamp.c`;
  `OamEvents`: the OAM callback of `ctc_sai_switch.c` with the loop that carries
  the owner from one entry of a batch to the next.
* `AttrContract` holds the `@flags` of the headers in `src/inc`, `AttrTables` the
  tables of attribute functions of each object type and how the functions treat
  attributes they do not simply store and read; `AttrApi` sets and gets one attribute
  per behaviour (`ctc_sai_set_attribute`, `ctc_sai_get_attribute`), any of any
  registered type.
* `Tunnel`: `ctc_sai_tunnel.c` and the tunnel next hops of `ctc_sai_next_hop.c`.
  A VXLAN termination waits (`not_finished`) until a map entry gives it a VNI.
* `Mpls`: `ctc_sai_mpls.c`, `ctc_sai_es.c` and their fields in tunnels and ports.
* `Mcast`, `Rpf`: `ctc_sai_mcast.c`. Over a VLAN interface an IPMC entry must
  replicate where layer 2 would; bindings keep that in step.
* `Nat`, `Isolation`: `ctc_sai_nat.c`, `ctc_sai_isolation_group.c`.
* `WarmBoot`: `ctc_sai_warmboot.c`, `ctc_sai_warmboot_func.c`, `ctc_sai_db.c` and
  the start and end of a switch. Four types stand for the kinds of types that
  the modules register. The process may die between any two steps of a save
  or a reload, a write may fail, and the store keeps what it had.
* `ApiTable`: `ctc_sai.c`: initialisation and the two-step listing of objects.
* `TimeSync`: `ctc_sai_ptp.c`, `ctc_sai_synce.c`. `UdfHash`: `ctc_sai_udf.c`,
  `ctc_sai_ld_hash.c`. `DropCounter`: `ctc_sai_debug_counter.c`. `PortConfig`:
  `ctc_sai_port.c`.

**Why one part at a time.** The parts of a composite share no variable: no action
of one reads or writes what another has. Where two touch the same hardware
table, as a route and a group's counter do, they are in one module. Some id pools
the code shares (next hops, the common and the interface ids): a part then has a
share of its own, and that another part takes the last id is not modelled but
as the refusal of an allocation. The product of their states would repeat
each part's under every state of the others. A behaviour therefore
picks its part, and the state spaces add up. What the parts of the code share,
the mutex and its early returns, is in `Routing` and wherever a call returns
with it taken.

## Runs

TLC explores each run in full, with two workers in at most two to three minutes.

| Run | Properties | Shows |
|---|---|---|
| `l3if` | `TypeOK PoolsExact HwMatchesDb StatsExact PortModeExact CreatedInLiveVr FailedCreateUndone` | PORT, SUB_PORT and BRIDGE interfaces, sub-ports on two VLANs of a port, with failing allocation, statistics, mode and attribute calls |
| `l3if_stats_default` | `StatsDefaultOn` (violated) | the header's default of CUSTOM_STATS_STATE is not what a new interface does |
| `neighbor` | `PoolsExact RefExact NextHopKept AdjacencyFresh HostRouteExact CountsExact NeighborKept` | a VLAN and a bridge interface, the chip learning by itself, refused ARP entries |
| `neighbor_faults` | `TypeOK IdsUnique` | every SDK failure, remove-all, an interface removed under its neighbors, pools at their limit |
| `neighbor_create_status` | `FailedCreateUndone` (violated) | `create_neighbor` returns a failure for a neighbor it created |
| `routing_groups` | `EcmpExact ProtectionBacked PoolsExact` | ECMP and protection groups over IP and MPLS next hops |
| `routing_routes` | `TypeOK RouteHwExact StatsOwned` | routes, an ECMP group and counters in any sharing |
| `routing_lock` | `CallReturns` (violated) | a refused `remove_counter` keeps the lock |
| `events` | `TypeOK PortStateTold FollowsFdb LinkConverges DownPortForgotten` | the learning, aging and link threads with lost interrupts: the client's copy refines `FdbClient`, the port state converges, a port that stays down is forgotten |
| `events_aging` | `CopyExact` (violated) | an aging report of two MACs is told as one |
| `platform` | `MembersFollow AggregationExact CpuPathExact AclsExact MonitoringExact BridgingExact QosExact` | the twelve parts of `Platform` |
| `services` | `VifPoolExact TunnelExact OamExact SystemExact SettingsExact DeliveryExact` | the eighteen parts of `Services` |

The properties of the two composites are conjunctions of the parts' own, one
name for each question that several parts answer:

| Property | Parts |
|---|---|
| `MembersFollow`, `AggregationExact` | `L2Ports` |
| `BridgingExact` | `DomainsExact` and `FloodExact` of `L2Domain` |
| `QosExact` | `SchedulingExact` (`QosSched`), `PolicersExact` (`Policing`), `ClassifiesByMaps` (`QosMaps`), `ProfilesExact` (`QosProfiles`) |
| `CpuPathExact` | `TrapsExact` (`Traps`), `HostIfsExact` (`HostIfs`) |
| `AclsExact` | `AclExact` (`Acl`), `ActionsExact` (`AclActions`) |
| `MonitoringExact` | `MirrorsExact` (`Mirror`), `SamplingExact` (`Sampling`) |
| `OamExact` | `BfdExact`, `Y1731Exact`, `OamToldExact` (`OamEvents`), `TwampExact` |
| `SystemExact` | `AttributesExact` (`AttrApi`), `WarmExact` (`WarmBoot`), `QueriesExact` (`ApiTable`), `HashExact` (`UdfHash`), `DropsExact` (`DropCounter`) |
| `SettingsExact` | `TimeSyncExact` (`TimeSync`), `PortsExact` (`PortConfig`) |
| `TunnelExact` | `Tunnel` |
| `DeliveryExact` | `McastExact`, `RpfExact`, `NatExact`, `IsolationExact`, `MplsExact` (`Mpls`) |
| `VifPoolExact` | `L3Interface` with its virtual, loopback, bridge and VLAN interfaces, whose ids come from two pools with the same numbers |

### Bounds

Pools have one to four ids, so that exhaustion and the reuse of a freed id
happen in every run; two objects of a kind suffice for sharing and for one to
disturb another, three where two share and one does not (members on two paths,
tables in a group, sessions over two slots). An attribute has as many values as
its consequences: two for one that is copied, three where a table of two
entries must overflow (`PoSizes`), one below and one above a byte where a setter
is narrower than the attribute (`AttrVals`).

| Bound | What it stands for |
|---|---|
| `MaxPending = 1` | `create_rif` calls between check and lock: one lets a `remove_vr` run in between, and creations disturb one another only through the handlers, which are atomic |
| `MaxEvents = 1` | FDB changes the code has not heard of: one is unhandled while the FDB changes again |
| `MaxNeighbors`, `CntWrap` | 2^32, so that the counter's wrap is reached |
| `LearnBatch`, `AgingBatch`, `MaxQueue` | MACs in a report and waiting for one: two make a batch. `events` ages one at a time, as `events_aging` shows what two do |
| `MaxFlips = 3`, `MaxCalls = 1` | link changes (down, up, down across both threads) and calls of the client that may race the reports |
| `MaxSchRef`, `MaxUsed`, `MaxActRef` | the code's reference counts; where a second user exists the bound lets it count, and `MaxUsed = 2` is the double count of one queue |
| `MaxBinds = 2`, `MaxTrapRef = 2` | times VLANs are put in one instance, and creations of one trap: one and one more |
| `MaxSkew = 1` | kinds of settings of a LAG's objects that the records do not have, at a time: after one the property says no more of that kind |
| `MaxChilds`, `AclTableSize`, `BlockNum`, `SlotNum`, `NhNum`, `NumDomains`, `UgSlots`, `DcIndexes`, `PoEntries` | the chip's tables at their limit with the objects of the run |
| `MaxOamBatch = 2` | entries of a batch: the owner is carried from the first to the second |
| `MaxAttempts = 2` | creations of termination entries over a tunnel's life, each of which counts: two let one disturb the other's counter |
| `MaxBulk = 1` | bulk calls, which do not count |
| `QPage = 1` | MACs in a page of the FDB dump, so that a list spans several pages |
| `DcMaxDrops = 1` | frames dropped per port and reason between two reads |
| `PoIfs`, `PoClasses` | one interface and one priority class, as the code treats each alike |
| `PoSizes`, `PoEntries` | three frame sizes for a table of two |

`Faults` (and `BfdFaults`) name the SDK calls that may be refused at any time; in
the other parts the calls that can be refused after an effect are separate
actions or disjuncts named for what is left behind.

### Faults, restarts and threads

* *Failing calls*: allocation, statistics, mode and attribute writes of
  interfaces, ARP and next hop writes, groups, routes, sessions, mirror slots,
  LAG members, ACL bindings and actions, PTP and SyncE, hash masks, frame sizes.
* *Restart*: in `WarmBoot` the process may die between any two steps of a save
  or a reload. The store keeps what it had, the memory and the chip start again,
  and the next start may be warm or cold.
* *Lost and late reports*: `SwitchEvents` loses link interrupts at will and lets
  a report wait while the FDB changes. The OAM batches of `OamEvents` may name
  MEPs that are gone.
* *Threads*: where a call reads before it locks, goes on after it has unlocked or
  locks twice, other calls run in the gap.

**Deadlock** is checked, except in the `Routing` runs, where the system really
stops when the lock stays taken, and in the two of `SwitchEvents`, whose link
changes and client calls are bounded: when they are used up and every
report is handled the switch rests.

**Fairness.** Only `SwitchEvents` assumes any: weak fairness of the learning,
aging and link threads when they have something to handle, of the polling
thread, which wakes up every second (`ctc_sai_port.c:3608`), and of the chip's
aging scan of each MAC, which `ctc_sai_fdb_db_init` starts. The first three are the
SDK's threads, which call what the code has registered; the code creates the
polling thread and never stops it. Hosts, links and the client get none.
`LinkConverges` needs the polling thread, as an interrupt may be lost;
`DownPortForgotten` needs the aging scan, as a learning report handled after the
flush of its port puts the MAC back. Everywhere else a handler runs to its end
under the lock and the caller decides when it is called, so that there is no
liveness to state; the one thing that should always come, the end of a call, is
the violated `CallReturns`.

### The attributes' contract

`AttrContract` is translated from the `@flags` of the headers in `src/inc` (which
attributes are CREATE_ONLY, CREATE_AND_SET or READ_ONLY) and `AttrTables` from the
`attr_fn_entry` tables and the functions in them. `AttributesExact` compares the
two through the code that serves a call: a set of an attribute that may be set is
read back, one that may not be set is refused. Where the code departs, the
attribute is in one of the named sets of `AttrApi` (`LooseAttrs`, `BentAttrs`,
`MuteAttrs`), each with the reason at its lines, and the property demands that no
attribute outside of them does.

## Proofs

Each proof module EXTENDS the module it is about and ends in theorems
`Spec => []P`, by an inductive invariant: it holds initially, every action keeps it
(one lemma per action or per kind of action), and it gives `P`. TLC checked every
invariant on small instances before it was proved. The theorems hold for all
values of the constants that satisfy the module's named assumption.

### Neighbor (`NeighborProofs`)

With every failure, remove-all and interface removal allowed:

* `TypeCorrect`: `Spec => []TypeOK`;
* `IdsAreUnique`: `Spec => []IdsUnique`, no two records share an ARP or a next
  hop id and no id of a record is free in its pool.

`IdsUnique` is not inductive: a record with no ids could be taken for one that
has them, and `remove_all` or a removal could give back an id still in use. The
inductive invariant is

    IdsInv == TypeOK /\ IdsUnique /\ RecordInv /\ UserInv

`RecordInv`: a record in the database has its next hop id and, except on a bridge
interface, its ARP id, and one not there is empty; `UserInv`: a record has a user and its
`ref` is 1, or 2 when neighbor and next hop both use it. The helpers have lemmas
that say what they do to the ids (`AddArpFact` ... `RemoveNexthopFact`);
`BecomeFits` shows that a handler whose result `Fits` the other
records keeps `IdsUnique`; one lemma per action follows; `RemoveAllIds` is the
only action that writes many records. `NextIds` combines them.

The second half of the module adds what holds when callers and SDK keep to the rules, which
are assumptions on constants:

    SoundCalls == /\ MacAttrs \subseteq {TRUE} /\ CreateActs \subseteq Supported
                  /\ MissActs \subseteq Supported /\ ~BusyRifRemoved
                  /\ Faults \subseteq {"add_arp", "add_nh"}

Without the first two a rejected `create_neighbor` removes a record that a next hop
uses; without the third the ids of an interface's neighbors are lost; and a refused
*update* leaves SDK and record apart. The run `neighbor` checks
the same properties under these values and `neighbor_faults` shows what is left without them.
`ExactInv`, inductive on top of `IdsInv`, says for every record who uses it
(`UsersInv`), that its action is one the SDK takes (`ActsInv`), that bridge
interfaces have no ARP (`BridgeInv`) and what the SDK has for it (`HwInv`). A handler
leaves a record `Provided`, `Released` or `Refused`; each part of the
invariant is shown once for these three outcomes, and each action to have one of them.

* `RefsAreExact`, `NextHopsStand`, `AdjacenciesAreFresh`, `NeighborsAreKept` under
  `SoundCalls` alone;
* `CountsAreExact` also needs `~RemoveAllUsed`, since `remove_all` counts next hops
  as neighbors;
* `HostRoutesAreExact` needs `RoutesApart`, that no two neighbors of one virtual
  router have the same address: they would share a host route;
* `PoolsAreExact` needs `RoomForAll`, that the SDK refuses no next hop and there is
  an id for each possible record: a create that fails half-way leaks. That an id is
  left for a record that has none is the pigeonhole principle (`RoomFact`).

### Routing (`RoutingProofs`)

No hypothesis but `RoutingAssumption`: every failure, sharing and
removal in use is allowed. `RoutingInv` consists of `TypeOK`, `StatsInv`,
`PoolInv`, `UsersInv`, `MemberInv`, `PathInv` and `RouteInv`. The first three hold
always; the others while `orderly` does, which is the history variable of the
properties themselves. `RouteHwExact` is not inductive: that the SDK's entry of
a route stays right needs that its counter has no other user and its
group is not removed under it (`UsersInv`, `RouteOk`), and
`EcmpExact` that no member outlives its group, or the next group with that
id would get it (`MemberInv`). Frame lemmas (`StatsFrame` ... `RouteFrame`) say what a
handler must leave alone to keep a part, so an action's lemma is only about what it
writes. The theorems are `RoutingTypeCorrect`, `StatsAreOwned`, `RoutingPoolsExact`,
`RoutesAreExact`, `EcmpIsExact` and `ProtectionIsBacked`.

### SwitchEvents (`SwitchEventsProofs`)

`EventsInv == TypeOK /\ CopyCovers`: the client's copy is right about every
entry there is. It holds for any length of aging reports
(`CopyCoversTable`) and is needed for the types, since a call of the client on an
entry reads the copy. `PortStateAgrees` is `PortStateTold`.

`SwitchImplementsClient` is the safety part of the refinement, `Spec =>
Client!Init /\ [][Client!Next]_<<fdb, copy>>` under the mapping of the module: a
learning report is a sequence of events of which the last on each MAC counts, a flush
one event for many MACs, and link, polling and queueing steps stutter. It, and
`CopyIsTable` (`CopyExact`), are for `AgingBatch = 1`: an aging report of more MACs is
told as one, which the run `events_aging` shows. That a report has a last entry for
each of its MACs (`LastOf` is a CHOOSE) rests on the well-foundedness of the natural
numbers (`SmallestFact`, `LargestFact`).

### L2Ports (`L2PortsProofs`)

`LpInv` says of each LAG and bridge port record that the callback is registered and
the disabled members are members (`LagOk`), of each member what `MembersFollow` does
(`MemberOk`), of a port in no LAG that it is as new (`OnItsOwn`), and that a port is
in one LAG. That a port that leaves carries nothing over (`AggregationExact`) needs
the `MemberOk` of the moment it leaves: the callback resets what the records
name, so nothing but that may have been set. `LagStep` (a handler writes one LAG's
records and its members) and `PortStep` (one port joins, leaves or changes) reduce
every action to its own LAG; `CfgWritten`, `VlanWritten` and `StpWritten` are about
one write. The bound `MaxSkew` plays no part: `LpCallsKeep` is about `LpSteps`. The theorems are
`MembersInStep` and `AggregationIsExact`.

### L3Interface (`L3InterfaceProofs`)

With every type of interface and every failure:

* `InterfacesTyped`: `Spec => []TypeOK`. Above all `sub_if_ref_cnt` never passes zero, though
  `remove_rif` and `error6` take from it without looking: `TypeInv` bounds the
  sub-port interfaces of a port by its count.
* `VifPoolSound`: `VifPoolExact`, if `BuildsVifs`. Where memory runs out in the creation of an
  interface without hardware, `error1` gives its id back to the wrong pool.

The second half of the module is about the rest, under

    Clean == /\ VirtualVals \subseteq {FALSE} /\ RifTypes \subseteq L3ifTypes
             /\ StatsAttrs \subseteq {"on", "off"} /\ "BRIDGE" \notin StatsTypes
             /\ "stats" \notin RifAttrs /\ Faults \cap {"scl", "set_hw"} = {}

which are the values of the run `l3if` and leave out what the code gets wrong. Virtual
interfaces lose their MACs to `set_attr_hw` (`ctc_sai_router_interface.c:329`) and then
cannot be removed, so that their ids come back too soon; a type without hardware is in
the first theorems only. Statistics left to the default, on a bridge interface or
changed later are made or ended without their ids being kept (`:298`, `:305`). An
SCL write that fails is counted but not counted back (`:1599`), and
a property write that fails leaves object and hardware apart. Every other
call may fail, at any point of `create_rif`.

The inductive invariant is `Sound`: each interface has two statistics ids or none, and no
one else's (`Plain`, `Owning`); the pool has one id for each (`Pooled`); the hardware says
what the object says, under a key of its own (`Matched`, `Keyed`); and the ports are in
the modes their interfaces need (`Modes`). `Owning` must say who owns an id, as
`remove_rif` destroys what the record names; `Pooled` that ids differ, or one removal
would end two hardware interfaces. `Grown` says how far a creation has got:
`UndoGrown` and `UndoEnabled` show that each label leads back to the very state it
began in, and `CompleteSound` that the last stage keeps `Sound`. Removals (`ShrunkSound`),
attributes of an interface or its virtual router (`RewrittenSound`) and the bridge port's
call (`BridgeSound`) follow. The theorems are `PoolsSound`, `HwSound`, `StatsSound`,
`ModesSound` and, of steps, `BornInLiveVr` and `FailuresUndone`.

### Platform (`PlatformProofs`, `QosProofs`)

`Platform` runs parts that share no state, so each of its steps is a step of one part that
leaves the others alone (`PartSteps`), and a composite property follows from the
invariants of its parts. Each part has its own: `XInitially`, one lemma per call,
`XCallsKeep` and `XGives` (X is `Dom`, `Trap`, `Hif`, `Acl`, `Act`, `Mir` or `Sam`, and in `QosProofs` `Sch`, `Pol`, `Map` or `Prof`). Why the
properties are not inductive by themselves, part by part:

* `DomInv` (`BridgingExact`): an STP instance counts at least the VLANs that are in it.
  It may count more (a VLAN that moves stays counted), so the count is a bound and the
  removal of an instance in use is excluded by it. The two chip bits of each unknown
  packet type are those of the fid's owner, or quiet when it has none.
* `TrapInv` and `HifInv` (`CpuPathExact`): an ACL entry of the traps has exactly one
  owner, an id in the pool, so that a trap that is removed takes no other's reasons with it
  (`OneOwner`), or none when an unfinished creation left it (`abandoned`); a descriptor that is watched is the descriptor of one interface, and a
  packet between two steps of the receive or transmit thread carries what it looked up.
* `AclInv` and `ActInv` (`AclsExact`): what is recorded on either side of a binding agrees
  (`ListsExact`), a member list has no table twice and fits its blocks (`ListOk`), and
  a port has no table and no entry but those of what it is bound to (`NothingElse`),
  which the property leaves open where the history says that something is
  missing. Nothing is claimed of a port once it was bound at both stages.
* `MirInv` and `SamInv` (`MonitoringExact`): a slot's count is the number of its users, a slot
  without users has no list and no next hop, and the sessions of a list have different
  monitor ports (`SlotOk`). Without the count a slot in use could be given to another
  list; that the next hops free, lost and in slots add up needs `NhChange`. Of
  sampling: an object has a node for exactly the ports that name it (`SamPortOk`).
* `SchInv`, `PolInv`, `MapInv` and `ProfInv` (`QosExact`). Schedulers and profiles count
  at least their users (`SchKept`, `WredCounted`, `BufCounted`), which is why one in use is not removed; the
  lemma behind the counts, `OneRenames`, says what one user that names another
  object changes. The traversal of `ctc_sai_scheduler_set_attr` maps one queue after the
  other on top of what the one before left: `RemapSteps` steps through it, and
  `RemapStrict` and `RemapDwrr` say in which class each queue is half-way. A port's
  policer serves that port and no other (`PolicerOk`), a storm policer may be named for several
  kinds, but of one port only (`StormOk`). A QoS map domain has
  the maps of all its ports and counts them once for each kind (`DomainOk`), and **no two
  domains have the same single map** (`HalfUnique`): without that, a port that gets its second map
  could be put into a domain where another port has only the first, as
  `_ctc_sai_qos_map_port_alloc_domain` takes any domain with one user of the other
  kind. `AllocFact` shows that the domain it finds is then the port's own.

The theorems are `BridgingIsExact`, `CpuPathIsExact`, `AclsAreExact`, `MonitoringIsExact` and
`QosIsExact`, with no hypothesis but the parts' assumptions; `QosProofs` also has
one for each of the four QoS modules on its own.

### Services (`ServicesProofs`)

In `Services` too the parts share no state. `DeliveryIsExact` (`DeliveryExact`),
`OamIsExact` (`OamExact`) and `SettingsAreExact` (`SettingsExact`) combine the invariants of
five, four and two of them, with no hypothesis but their assumptions. For `DeliveryExact`:

* `RpfInv`: a slot of a group is taken by one interface at most (`Apart`), and an entry whose group
  has not changed since (`rpfAged`) checks for the interfaces in the slots.
* `NatInv`: a destination's next hop is its own, so that a removal takes no other's, and
  each count is the number of translations of its kind.
* `IsoInv`: an isolation group that is being removed, while the lock is released, still
  has its id and the members it had; none of them is in another group.
* `McInv`, while no group is removed in use (`mcBroken`): an entry is in the list of its group and of
  no other (`L2Follows`), and unless a VLAN has an (S,G) and an (any,G) entry, the IPMC entry is
  *in step* (`InStep`): its bindings are one per VLAN interface of its group, each of the
  type that the lookup has now, and its replication is what those lookups say. `InStep` is a
  statement about a list built by appending and by leaving out, in an order that
  depends on the history; `BindsAre` says which set of bindings it is, `UnbindLists`
  and `BothList` what the two operations do to that set. `AddStep`, `SyncAddStep` and their companions
  say for each branch of `mcast_sync_output_id` that it leads from in step to in step.
  What makes it inductive is that the type in hand for a VLAN that is in the group is its own
  (`TypeInHand`): the last binding, which the code has in hand for one that is not, changes nothing.
* `MpInv`: an in-segment that was wired to a pseudo-wire is the label the tunnel
  remembers (`MpWired`). Without it a tunnel that changes its control word would write it to
  another label's entry and `ControlWordFollows` would not be kept.

For `OamExact`:

* `BfdInv`: an address that nobody else accounts for has a route only while the session that
  added it is there, which is the one whose removal takes it away, and the route
  has the flag unless a removal cleared it; a next hop that was not given back under its
  owner is taken exactly while a session names it. `BuiltFact` says what each branch of
  `build_ipbfd_nh` takes and names.
* `YInv`, until a creation uses a removed session's record: no two sessions have the same key, and
  the local MEP of a session's key has the session's group. The first makes the engine's
  MEPs as many as the sessions, by a bijection; the second makes the engine's refusal of a
  name in use (`remove_y1731_meg`) protect a live session.
* `TwInv`: an id is free, in use or lost; the index that is kept for the next session's entry
  is a MEP's while there is one; and a loop that nobody robbed has a next hop of its own.
* `OevInv`: an entry that waits names the owner its MEP has. Of a batch whose MEPs live,
  `Right` says after each round of the loop what has been told so far; `BatchRight` takes the
  first round after which it would fail.

For `SettingsExact`:

* `PtInv` and `PoInv` are the properties with their types and two facts more: an entry of the
  frame sizes that a port was given is taken and no taken entry is written (`FrHeld`), so a
  port keeps the size it asked for however others change theirs; and a port without a record
  has the same flow control in both directions, since its record will start combined.

### Only model-checked

Besides the four violated properties: `TunnelExact` and `SystemExact` of `Services`, and
the liveness properties (`LinkConverges`, `DownPortForgotten`) with the fairness part of the
refinement. The last two are out of the prover's reach. `TunnelExact` folds over
the terms and next hops that a new map entry or a set reaches, which needs induction over data.
`SystemExact` has parts that walk sequences (`SelectSeq`, `SetToSeq`) and parts, the
save and reload of `WarmBoot` first, for which no inductive invariant has been written.
What a recursive function
computes is in general too; the exceptions are the traversal of a scheduler's queues,
whose steps are bounded by `NumQ`, and the loop over a batch of events, where each round
is one step of `Right`.

## What the models show of the code

Four runs end in a violation; `PROJECT.json` quotes what each contradicts.

* `l3if_stats_default`: an interface created without CUSTOM_STATS_STATE destroys
  its counters at once and keeps the id of one (`ctc_sai_router_interface.c:298`),
  where the header's default is true.
* `neighbor_create_status`: `create_neighbor` returns ITEM_NOT_FOUND for a neighbor
  it has created (`ctc_sai_neighbor.c:1319`).
* `routing_lock`: `remove_counter` (`ctc_sai_counter.c:445`, `:450`) and
  `create_nh_grp` (`ctc_sai_next_hop_group.c:795`) return with the lock held, as do
  `create_nh`, `remove_bridge`, `create_ptp_domain`, `remove_es` and others listed
  below: the next call never returns.
* `events_aging`: an aging report of several MACs overwrites one event
  (`ctc_sai_switch.c:113`), so the client keeps entries that are gone.

### Other departures by line

Behaviours met while reading, beyond the hazards of `PROJECT.json`. A model has
the behaviour unless the remark says that it is left out; a name in
the remark is the history variable that follows the objects concerned, which the
property excepts.

**`ctc_sai.c`**

* `:544` The attributes of an IPMC group are read with the getter of its members. *A
  dispatch table, not modelled per type.*
* `:747` sai_api_initialize clears g_api_master before it looks at its arguments: a
  refused second call takes the running adapter down, and an availability query
  under way then calls through a null table. *Reachable (phase "dead").*
* `:790` ctc_sai_tam_api_init is not called: the telemetry objects have tables and
  functions and cannot be reached. *The telemetry types are outside Registered.*
* `:1635` sai_bulk_get_attribute writes the attributes over the client's array of
  pointers and compares the capacity with what it wrote itself, so that it never
  overflows; a success writes no status. *The layout of memory is not modelled.*
* `:1686` get_availability ignores the answer of sai_get_object_key: when an object
  was made since the count it judges a list that was never written. *The
  availability is promised only without a change.*
* `:1719` The comparison is inverted: an object counts when none of its attributes
  has the value given; and the client's count is added to, never set. *Modelled as
  the code does it.*

**`ctc_sai_acl.c`**

* `:268` The bind points of tables and of groups share one warm-boot sub type: the
  group reload takes a table's for a group's and writes into the table's key bitmap.
  *The reload of the ACL is not modelled.*
* `:2461` Entries installed by a binding, created while bound and updated get
  different high bits of their SDK priority: a later one of lower priority can win.
  *The model keeps the priority the client gave, not the high bits.*
* `:2846` A refused change of an action is ignored and recorded: the record says
  what the chip does not do. *Followed in partial until a full action makes them
  agree.*
* `:3990` The record of a port's binding has one place for both stages: binding an
  egress table to a port with an ingress one fails or installs a table that can no
  longer be unbound. *Followed in bothStages, excepted.*
* `:4489` An entry with IN_PORTS is eight SDK entries and an update reaches the
  first of them. *Followed in partial.*
* `:4526` A changed priority is not written to the table's list of entries: the next
  binding installs the entry with the old one. *The property excepts an entry
  installed by a binding after its priority changed.*
* `:6071` A member created in a bound group installs the whole group again: the
  second member finds the first in the chip, fails, and the error path tears the
  group down at the port, which stays bound. *Such ports are followed in stripped,
  which the property excepts.*
* `:6233` remove_acl_table_group_member and create_acl_table (7195) have returns
  with the database lock held. *The early returns of one call; the lock is the
  subject of routing_lock.*
* `:6566` create_acl_entry ignores the result of installing the entry at a bound
  port: the call succeeds, the entry is not in the chip, and a later set follows a
  null pointer (line 4489). *Followed in missing; the set of such an entry is left
  out.*
* `:6917` The counter of a removed entry is looked for among its keys: its reference
  is never given back and the counter can never be removed. *The property asks that
  a counter in use exists, not that an unused one can go.*

**`ctc_sai_bfd.c`**

* `:420` The next hop id of a single-hop session is not given back when the SDK
  refuses the next hop. *In the model; such ids are followed in bfdLeaked, which the
  property excepts.*
* `:530` A reroute loop of the session's own falls through the error labels: its
  next hop, interface and port ids are given back while the session uses them, and a
  later session takes and loses them. *Followed in bfdRobbed, excepted.*
* `:1204` The set of MIN_TX and MIN_RX reads an u8 where the creation reads an u32:
  an interval of 256 ms or more is cut. *In SetFn (odd) and BentAttrs.*
* `:2140` An update of the local MEP that fails removes the local MEP and the
  session and leaves the remote MEP in the engine. *The engine's MEPs of BFD are not
  modelled.*
* `:2149` A failed creation undoes the MEP and the record, and leaves the route and
  the next hop. *Followed in bfdLeaked, excepted.*

**`ctc_sai_bridge.c`**

* `:101` A port that leaves a LAG keeps what the callback does not reset.
* `:2041` A bridge port or a LAG is removed although VLAN members, STP ports or
  members refer to it. *The client of the model removes them first.*
* `:2618` remove_bridge of a bridge of another type, as the default 802.1Q bridge,
  returns OBJECT_IN_USE with the lock held (2526 and 2611 return so too, and
  ctc_sai_lag.c:835 for an unsupported mode). *The run routing_lock shows the same
  fault in another module; here every call releases the lock.*

**`ctc_sai_buffer.c`**

* `:187` Changing the XOFF or XON threshold of a profile in use gives the profile to
  every priority group with a record, of every port. *The counts and the chip follow
  the move, which is what the property asks; that the client asked for no such move
  is not stated.*
* `:1046` Removing a priority group neither counts its profile down nor resets the
  chip. *The property asks nothing of a group without a record.*

**`ctc_sai_counter.c`**

* `:227` hostif_trap_create writes counter_type and not ctc_sai_counter_type, so the
  in-use check of remove_counter does not see a trap's counter, and its queue shares
  a union with the statistics id. *Trap counters are not modelled.*
* `:314` A counter in use by a route and given to an ECMP group gets a second
  statistics id; the first is never destroyed and the route can no longer be
  removed. *The leak is in the model; StatsOwned claims no leak only for counters
  with one user.*

**`ctc_sai_db.c`**

* `:373` The pool of APS ids has the size of an enumerator,
  CTC_GLOBAL_CAPABILITY_APS_GROUP_NUM, and not of the capability it names. *The size
  of the pool is a constant of Routing.*

**`ctc_sai_debug_counter.c`**

* `:442` The hardware counts per port and reason: a read with clear of one counter
  takes the frames from every other that has the reason, and clear_port_all_stats
  from the switch's counters. *Followed in dcOff, excepted.*
* `:568` Of the 4096 indexes the last two are past the range of the statistics: such
  a counter cannot be read. *Modelled in Readable and ClearPort.*
* `:612` Reasons of 32 and more are looked for with a shift past the word
  (IS_BIT_SET of the second bitmap with the whole number): undefined. *Both outcomes
  are read; such counters are excepted.*
* `:614` A set takes reasons that the hardware has no name for: the read counts the
  reason before it again. *Modelled in ReadAs, excepted.*
* `:922` remove_debug_counter reads the record without asking whether there is one.
  *No object has that id: the call is no action.*

**`ctc_sai_es.c`**

* `:244` remove_es of a segment in use answers OBJECT_IN_USE with the database lock
  held, as does a refusal of the SDK (:252) and a chip without segments (:233):
  every later call waits for ever. *Modelled up to the refusal (mpStuck), but for
  the chip without segments, which has none to remove.*
* `:257` remove_es gives the id of the segment back after the unlock: a creation in
  between must take another one, and the id must be free once both are done. *In the
  model (mpGone).*

**`ctc_sai_fdb.c`**

* `:444` A flush of static or of all entries is notified with type DYNAMIC. *Flushes
  of dynamic entries only are modelled.*
* `:509` When the SDK refuses a flush, goto out skips the learning action reset of
  line 521: the chip treats the MAC table as full and learns nothing until the next
  flush. *The SDK's flush does not fail in the model.*
* `:590` The dump sleeps between two pages with the database lock held: every other
  call waits. *Time is not modelled; the lock is kept between the pages.*

**`ctc_sai_hostif.c`**

* `:867` A bad object id leaves create_hostif through roll_back_0 with the database
  lock held: every later call blocks. *A call with such an id is left out; the lock
  of the routing calls is the subject of routing_lock.*
* `:966` A second create_hostif for an object fails at the database, and its error
  path switches the trapping of the first one off and unregisters its LAG callback.
  *Such objects are followed in darkened, which the property excepts.*
* `:1050` Removing a LAG's interface, or a port from the LAG, switches the trapping
  of a member off although the member has an interface of its own. *Followed in
  darkened.*
* `:1447` Removing a table entry never returns its id. *The table entries are inputs
  of the model.*
* `:1676` A trap group can be removed while traps refer to it: they keep its queue
  and the next set of their attributes fails. *A client that removes the traps first
  is assumed.*
* `:2731` An entry's id is returned to the common pool: the pool of SDK entries runs
  out after enough creations, and the id of another object becomes free while it
  lives. *The pool's exhaustion and the lost ids are in the model; the property asks
  only that no live entry's id is free.*
* `:2992` create_hostif_trap without a packet action, or (:3032) with a mirror
  session, returns without destroying the trap it made: its entry stays in the
  control-plane ACL without an owner, and its record is lost. *In the model; such
  entries are followed in abandoned, which the property excepts, and the reload of
  the ids is modelled without them.*
* `:3005` The exclude list is copied with its count as a number of bytes: of eight
  ports one is copied and the rest is what the heap held. *The exclude list is not
  modelled.*
* `:3051` Creating a trap that exists leaves its record and moves its queue to the
  new call's group. *Such traps are followed in requeued, which the property
  excepts.*
* `:3202` set_trap_property records an action before the chip refuses it, and with
  it the next change of group leaves the trap on queue 0. *Followed in refused and
  requeued.*
* `:3590` A trap's table entry does not override the wildcard's met before it: the
  comparison is with its own type, so the channel depends on the order of a hash
  table. *Both outcomes are in the model; what the client expects is not stated in
  the code.*
* `:4128` The kernel thread reads a packet and only then looks the interface of the
  descriptor up: by then the descriptor may be another interface's, and the packet
  leaves at the wrong port. *Followed in raced.*
* `:4767` User-defined traps are not registered for warm boot: after it their
  entries are in the chip without a record, and their ids are free. *A client that
  removes them before the restart is assumed.*

**`ctc_sai_isolation_group.c`**

* `:155` remove_group frees the members with the group; their records stay, their
  ports stay isolated, and remove_member refuses them, or reads freed memory once
  the id is in use again. *Followed in isoOrphans, excepted.*
* `:549` The reload of a member reserves its port number in the pool of common ids.
  *Warm boot of isolation groups is not modelled.*

**`ctc_sai_lag.c`**

* `:134` create_lag_member leaves through out when a call between linkagg_add_port
  and the member bit fails: the port is in the SDK's group, or its disable bits are
  set, without a member. *Not modelled: a failure that reaches error1 to error4 puts
  everything back, one before them is left out.*
* `:387` Setting a tag drop that is already set computes the mode from 0 and writes
  ALLOW_ALL: the chip stops dropping while the record says it drops. *Followed in
  skew.*

**`ctc_sai_ld_hash.c`**

* `:689` A set of the UDF list forgets the native fields in the record: a get
  answers none, the hardware has them. *Followed in hashForgot, excepted.*
* `:749` A list that ends in an id that is no group is refused with the first masks
  written: the record gets the old list, the hardware does not. *Followed in
  hashOff, excepted.*
* `:852` The reload allocates id 0 of the COMMON pool, which starts at 1: the hashes
  do not come back. *Warm restart is modelled in WarmBoot for other objects.*

**`ctc_sai_mcast.c`**

* `:807` The search for a VLAN's binding leaves the last one in hand when there is
  none.
* `:836` A binding does not tell an (S,G) from an (any,G) L2MC entry: with both in a
  VLAN the members of the wrong one are added and removed. *Followed in mcMixed,
  excepted.*
* `:1616` remove_l2mc_group removes a group its entries still name; they cannot be
  removed after that. *Modelled up to the removal (mcBroken).*
* `:1877` A failed create_l2mc_group_member rolls back with the opcode that adds:
  the port stays in every entry, and is no member. *Failures of the SDK are not
  modelled here.*
* `:3601` The IPMC and RPF functions take no database lock: their traversals run
  while the L2MC functions change the same lists. *Modelled as atomic.*
* `:4126` create_rpf_group_member of a full group finds no slot and still returns
  success and a member id. *Followed in rpfLost, excepted.*
* `:4389` An IPMC entry copies the interfaces of its RPF group; members that come or
  go later are not checked until its action or group is set again. *Followed in
  rpfAged, excepted.*

**`ctc_sai_mirror.c`**

* `:151` The sort of the session list swaps 64-bit object ids through an int: an
  unsorted list loses the type of an id and the session is not found. *The lists are
  given sorted, as sets.*
* `:611` Setting any attribute of a bound session with a list of ports frees the
  list while the record points to it; at a second slot the freed list is read.
  *Followed in freedLists, excepted.*
* `:1303` free_sess_res_index removes element 0 of the vector, the first slot of the
  ingress ports, and frees the record of another element that stays in place. *The
  slots of the ports are not shared with Sampling's model: after this the code reads
  freed memory.*
* `:1326` alloc_sess_res_index has no end of its loop: it takes every free slot of
  the stage and answers the first, so that all sampling entries share one session
  and no mirror session fits any more. *In the model; the property asks only that an
  entry that samples has a session.*
* `:1530` A failed allocation of a slot frees its record and not the next hops it
  has taken.

**`ctc_sai_mpls.c`**

* `:281` remove_inseg_entry leaves the label in the tunnel: its next control-word
  set fails, or writes to the entry of whoever has the label now. *Followed in
  mpLoose, excepted.*

**`ctc_sai_nat.c`**

* `:134` A destination translation takes a next hop id that no path frees, neither
  its removal nor a create that fails later: the pool of all next hops runs dry.
  *Followed in natLeft, excepted.*
* `:213` The next hop of a destination translation keeps the neighbour's MAC of its
  creation; the neighbour may change or go. *Followed in natAged, excepted.*
* `:231` remove_nat_entry removes the next hop before the rule: if the rule's
  removal fails the entry can never be removed. *Followed in natStuck, excepted.*
* `:509` Setting HIT_BIT passes the hardware a key in the wrong byte order, in a
  record that was never cleared. *Hit bits are not modelled.*
* `:897` remove_nat_entry of an entry that does not exist reads its type through a
  null pointer. *An invalid call.*
* `:966` The bulk calls do not count: removing one by one what was created in bulk
  takes nat_cnt below zero. *Stated for behaviours without bulk calls.*

**`ctc_sai_neighbor.c`**

* `:278` A refused ARP add gives the id back while the record still names it: were
  the record kept, the next user of the id would share it.
* `:546` remove_nexthop gives up when the router interface is gone, and remove_rif
  does not refuse an interface in use: the ids of its neighbors are never freed. *In
  the run neighbor_faults; the exactness properties assume the caller removes the
  neighbors first.*
* `:906` ARP or NEXTHOP pool exhausted half-way through building a record.
* `:1320` no_host_route survives in a record that a next hop keeps alive between two
  neighbors.
* `:1343` A failed create_neighbor removes the record although a next hop uses it
  (ref_cnt 1): missing DST_MAC, an unsupported action or a refused update is enough.
  *RefExact is claimed without update failures and invalid input.*

**`ctc_sai_next_hop.c`**

* `:616` A get of MPLS_ENCAP_TUNNEL_ID or MPLS_DECAP_TUNNEL_ID answers with the
  next-level next hop: two cases lack a break. *In BentAttrs.*
* `:1053` create_nh returns with the database lock held when the encap tunnel has
  the wrong type: every later call of the API waits for ever. *The creations of
  Tunnel name a tunnel of the right type.*

**`ctc_sai_next_hop_group.c`**

* `:163` The MPLS branch of remove_aps_nh is empty: the next hop stays in the SDK
  under an id the pool gives away again, and the next group with that id is refused.
* `:282` When the database add of a member fails the hardware is undone but w_nh_oid
  and p_nh_oid of the group keep the member that was never created. *The behaviour
  is in the model; ProtectionBacked is claimed without it.*
* `:701` The warm-boot reload allocates the APS id of every group, id 0 of the ECMP
  ones too. *The reload of groups is not modelled.*
* `:795` create_next_hop_group with a counter that was removed, or with no
  statistics id left, returns with the lock held and the next hop id allocated.
* `:881` The SDK's ECMP group is removed before its counter: when the counter is
  refused the object stays and a second remove is refused by the SDK, for ever.
* `:1063` bulk_remove_members locks the database of chip 0 and removes members of
  whatever chip their ids name. *The models are of one chip.*

**`ctc_sai_policer.c`**

* `:242` The rate of a policer on an ACL entry is written to the SDK policer of the
  entry's number, while 583 set it up under the policer's own: another policer may
  get the rate. *Followed in astray, which the property excepts.*
* `:653` A trap group's policer is refused unless its type is COPP already, which
  only this function sets. *No policer ever reaches the state, so there is nothing
  to follow.*

**`ctc_sai_port.c`**

* `:109` The count of a frame size is never found zero (the array is compared):
  after as many sizes as the table has entries no other is taken, however many are
  in use. *Modelled as the code does it; that a size in use is not written over is
  checked.*
* `:118` A read of a removed port makes a record of it again. *GetPort.*
* `:993` A change of the flow control mode leaves the classes in the hardware: the
  combined value then answered is that of arriving frames only. *Followed in
  pfcMixed, excepted.*
* `:1020` The eight classes are written one by one: a refused write leaves the first
  ones. *SetPfc with done.*
* `:1399` A policer replaced on one storm kind of a port may still serve another
  kind: releasing it would let it be removed while the chip polices with it.
* `:1473` The mode and the delays of a port are looked up as if they were the id of
  a domain: each set is refused; the null id has no record either, so that a port is
  never taken out of PTP. *The refused sets are no actions; a port is only ever
  bound.*
* `:2326` create_port with a lane that no port has goes on with the id the caller
  left in its variable. *The client names lanes that are there.*
* `:2457` create_port records a segment without counting or writing it, remove_port
  does not count it down: the count is wrong from then on. *Followed in mpSkew,
  excepted.*
* `:2490` remove_port leaves the port's maps counted in their domain. *The client of
  the model takes the maps off first.*

**`ctc_sai_ptp.c`**

* `:224` Setting PPS_STATUS or PPS_ACCURACY writes the new value as the leap second
  too. *Followed in ptOff, excepted.*
* `:532` create_ptp_domain returns with the database lock held when the hardware
  refuses the frame, or when a read-only time stamp is given; create_synce when it
  refuses the clock (synce.c:144). *CreateReturnsLocked: no call ever answers after
  it.*
* `:601` A create that fails after the device type leaves it in the hardware without
  a domain. *Followed in ptHalf, excepted.*
* `:655` A domain is removed without a look at its ports: they keep running PTP, in
  a domain that is no more or in the next one of the same id. *Followed in
  ptOrphan.*

**`ctc_sai_qosmap.c`**

* `:517` A map's list replaced by one with fewer keys leaves the missing keys as
  they were in every domain, and giving the map up resets the present keys only.
  *The model's lists are values for the whole table.*

**`ctc_sai_queue.c`**

* `:505` create_queue sets WRED, scheduler, group and buffer in turn and gives
  nothing back when a later one fails.

**`ctc_sai_route.c`**

* `:323` Setting COUNTER_ID destroys the old counter's statistics before the new one
  or the SDK can refuse; the record then names a counter that no longer counts and
  the SDK's route a destroyed id. *RouteHwExact covers the order of the successful
  path and excludes this failure, which the model has.*

**`ctc_sai_router_interface.c`**

* `:329` set_attr_hw of an interface writes a router MAC list of one entry and so
  erases the MACs of the virtual interfaces on it; their removal then fails after
  their id was freed, and a second try frees an id that may be another interface's.
  *The model has the behaviour. The run with virtual interfaces checks the VIF pool
  only; the L3IF pool is claimed exact without them.*
* `:441` CREATE_ONLY attributes have a set function: a set of an interface's type,
  port or VLAN returns success and changes nothing; that of its virtual router
  changes the record of a live interface. *In LooseAttrs.*
* `:548` A get of BRIDGE_ID or IS_VIRTUAL runs through the cases below it and
  answers with the NAT zone, or with an error. *In BentAttrs.*
* `:590` The callback that sets a property on the interfaces of a port knows three
  properties; the DSCP rewriting (port.c:983) and the maps (qosmap.c:800) are none
  of them: the interfaces there keep what they were created with, contrary to the
  comment at port.c:973. *Followed in dscpLate, excepted.*
* `:1483` With the router MAC list full, a virtual interface's creation returns
  without its error labels: id and object stay. *The model has the behaviour; the
  exactness of the pools is only claimed without virtual interfaces.*
* `:1598` create_rif and (:1878) remove_rif of a sub-port return with the database
  lock held, and without unwinding, when the record of its port is gone: every later
  call waits for ever. *Not modelled: the ports of the model are never removed, so
  their records are found.*
* `:1599` sub_if_ref_cnt is counted before the SCL write that may fail, and error5
  does not count it back: the next sub-port interface finds the count at 1 and never
  switches the lookup on. *PortModeExact is claimed while the SCL writes succeed;
  the model has the failing one.*
* `:1741` error1 gives the id back to the L3IF pool even when it came from the VIF
  pool: a failed LOOPBACK creation can free the id of a live interface. *Only a
  failing memory allocation reaches it, which the run with VIF types leaves out.*

**`ctc_sai_samplepacket.c`**

* `:231` A samplepacket object can be removed while bound: the ports go on sampling
  and can no longer be switched off, as the object is not found. *Followed in
  samStray, excepted.*
* `:310` A new rate is written to the bound ports as it is, a binding writes
  MAX_RATE / rate: after the change a port samples another portion. *Followed in
  rerated, excepted.*
* `:493` The reload looks the object up by its number and not by its object id, and
  its list is a pointer of the old process: bindings are lost. *The reload of the
  sampling objects is not modelled.*
* `:752` A port whose object is replaced stays in the old object's list, whose rate
  then changes the port's. *Followed in samStray, excepted.*
* `:888` The session shared by the sampling entries is removed with the first entry
  that stops. *Followed in cutOff, excepted.*

**`ctc_sai_scheduler.c`**

* `:125` Taking the scheduler from the lowest DWRR queue leaves the others in its
  class, beside a queue that is no longer one of them. *The client of the model does
  so only for the last one.*
* `:274` A scheduler changes its type while several queues of a port use it: each is
  mapped again in turn, on top of what the one before left.
* `:784` A group's replaced scheduler is looked for under its object id as a number
  and never found: its count stays and it cannot be removed. *The property asks that
  no scheduler in use goes; the count that stays too high is in the model.*

**`ctc_sai_scheduler_group.c`**

* `:635` The chip gets a queue's group before the child list is found full: the call
  fails and the chip keeps the group. *Followed in torn, which the property
  excepts.*
* `:846` A group created with a scheduler does not count it, and removing a group
  (881) does not count down. *The client of the model creates groups without and
  removes them without a scheduler.*

**`ctc_sai_stp.c`**

* `:228` The STP state and the tagging mode (ctc_sai_vlan.c:680) set later are not
  recorded: a port that joins afterwards gets the first value. *Followed in skew,
  which the property excepts.*

**`ctc_sai_switch.c`**

* `:120` An aging report is handled after the MAC was learned again elsewhere, or
  was made static by the client: remove_fdb names only MAC and VLAN and removes the
  new entry. *The removal is told to the client; that a static entry can age away is
  in the model and not excluded by a property.*
* `:127` fdb_event_cb and port_state_change_cb run with the database mutex held
  (also 255 and 333): a client that calls the API from the callback waits for itself
  unless the mutex is recursive. *The mutex is the SDK's sal_mutex; whether it is
  recursive is not in the repository.*
* `:437` One MEP that was removed before the callback runs drops the whole batch of
  events. *The property asks it only of batches whose MEPs all live.*
* `:488` The list of five Y.1731 events and its length are never reset: later
  entries are told with earlier events and, past five, written behind the array.
  *The property asks for inclusion after the first entry; the overrun itself is
  memory.*
* `:1371` The hash seed can be set, is dropped and reads as a constant; the
  symmetric hash of ECMP and LAG is one flag, so that setting the one changes the
  other. *In BentAttrs.*
* `:2710` create_switch registers the callbacks without the mutex, after the
  interrupt callbacks and the polling thread have started: a link that came up in
  between is recorded and never told. *The model starts when create_switch has
  returned.*
* `:3327` The switch record is saved whole: its callback pointers and RESTART_WARM
  come back in the next process, so callbacks the client does not give again point
  into the old image and every later remove_switch is warm. *Pointers are not
  modelled; RESTART_WARM stays set in WarmCreated.*

**`ctc_sai_synce.c`**

* `:172` remove_synce keeps the id: two creates exhaust the pool for good.
* `:172` Every SyncE object drives clock 0: the removal of one stops the clock that
  another still has. *Modelled as the code does it; nothing says which object owns
  the clock.*

**`ctc_sai_tunnel.c`**

* `:204` A termination entry of a VXLAN tunnel may come before the map entries that
  give it its VNI: whichever comes last must install it.
* `:763` remove_tunnel_map frees a map whose node is in a tunnel's list: the next
  lookup of the tunnel reads freed memory. *Modelled up to the removal (tnBroken).*
* `:1315` Any set on a GRE tunnel, refused ones too, maps every next hop again with
  a new counter: the old ones are lost. *Followed in tnMixed, excepted for the
  counters.*
* `:2028` remove_tunnel never gives the logic port back, and an attribute out of
  range leaves it taken too: the pool only shrinks. *TunnelExact says that live
  tunnels never share one; the leak itself is modelled.*
* `:2657` decap_stats_id is one per tunnel, overwritten by every term and never
  cleared: with a second term the counter of another object is destroyed. *Followed
  in tnMixed, excepted for the counters.*
* `:2745` remove_ctc_tunnel computes the key from the maps as they are now: after
  the removal of a map entry or of the tunnel the hardware entry stays for ever.
  *Followed in tnBroken, excepted.*
* `:2851` create_tunnel_term_table_entry tries the hardware before it takes the lock
  and records the entry after it: a map entry created between is tried for every
  recorded term and not for this one, which waits for ever. *Followed in tnMissed,
  excepted; every other order installs the term.*
* `:2889` remove_tunnel_term_table_entry returns with the lock held on an id of
  another type. *Not reachable in the model, whose calls name terms.*

**`ctc_sai_twamp.c`**

* `:348` Where the port's MEP exists, the session takes the index of the MEP added
  last, of any port: its packets are counted at another port's MEP. *Excepted where
  MEPs of several ports exist.*
* `:377` The removal of a session's MEP uses a key without the VLAN of its creation,
  and its MAID is removed before it: the engine refuses, and the session keeps its
  record and its id. The ninth session of the system's life is refused. *Modelled as
  it is (RemoveTwamp); TwampExact says what is left of such a session.*
* `:806` Asked twice to remove a session, or to remove a reflector with hardware
  lookup that never took a loop, the code frees a next hop id that another session
  or object holds. *Followed in tRobbed, excepted.*
* `:1572` A failed creation frees its id in another pool (SAI_OBJECT_TYPE_TWAMP for
  the pool's number) and undoes nothing else. *Followed in tLost, excepted.*
* `:1893` Switching the transmission passes the bare session number to functions
  that take an object id: the ACL entry of session 0 is installed or removed.
  *Without effect in the model; the session's own entry stays installed.*
* `:2250` TWAMP and NPM register no reload callback: their ids, and the interface
  and next hop ids of their loopbacks, are handed out again after a warm start.
  *Followed in wbUnsure, excepted.*

**`ctc_sai_udf.c`**

* `:1043` The count of groups is compared with > and allows one more than there are
  entries. *The hardware's entries are not counted in the model.*
* `:1492` A UDF can join a group that a hash uses: nothing tells the hash of the new
  mask. *Followed in ugStale, excepted.*
* `:1546` When the hardware refuses the new entry the record says that the old one
  is there: no later create or remove in the group works. *CreateUdfRefused,
  excepted in udfFault.*
* `:1617` On Tsingma a remove leaves the entry of the hardware alone. *The model is
  of Duet2.*

**`ctc_sai_vlan.c`**

* `:88` A fid freed by a bridge and taken by a VLAN, or the reverse, must not keep
  the drop bit of its earlier owner.
* `:423` A get of a VLAN's PTP domain writes the property and then answers
  NOT_IMPLEMENTED. *In MuteAttrs.*
* `:1381` A create_vlan that fails in its attributes frees the record and leaves it
  in the database: the next create of that fid fails, and a traversal of all VLANs
  reads freed memory. *The undefined read itself is excluded by SetMissAction's
  guard.*

**`ctc_sai_warmboot.c`**

* `:166` A failed write leaves the tables saved so far freed and reception to the
  CPU off; the next call on such a type dereferences null, and a second
  remove_switch saves without them and succeeds. *Followed in wbFreed and wbWhole.*
* `:256` The reload leaves the store as it was: after a crash without a save, a warm
  start brings back the objects of the save before. *Such starts are reachable
  (wbSaved "stale"); the promise is stated for the others.*
* `:267` The reload does not reset the data pointer: an object of a type without
  data (a bridge) points at the last object's data, and a cold remove_switch frees
  it twice. *Followed in own, excepted for BRIDGE.*
* `:269` A reload without memory leaves g_wb_status RELOADING: every later cold
  start in the process skips the modules' defaults and fails.

**`ctc_sai_warmboot_func.c`**

* `:96` The search for a version entry counts in 8 bits: with 256 entries or more a
  missing key is looked for without end. *The version entries of this code are
  fewer.*

**`ctc_sai_wred.c`**

* `:102` The thresholds of a disabled colour stay those the chip had when a profile
  is attached, and become 0 when it is changed. *A profile is one value in the
  model.*
* `:288` Setting the WRED profile a queue has already counts it again: the profile
  can then never be removed. *The property asks that no profile in use goes; the
  count that stays too high is in the model.*

**`ctc_sai_y1731.c`**

* `:822` The case of the MEP id has no break: it writes the CCM period too; the case
  of RDI assigns the record's lm_en. *Followed in yBent, excepted.*
* `:1970` The check for a duplicate compares the session's id with those of the
  remote MEPs. *The engine refuses the duplicate; the check is without effect.*

## Not modelled

* **Telemetry** (`ctc_sai_tam.c`): its functions return success and do nothing,
  and `ctc_sai_tam_api_init` is never called. Its attribute tables are in `AttrTables`.
* **Profiles** (`ctc_sai_app_cfg*.c`): one pass over a file
  into structures of the SDK, with no state that another component reads.
* **The SDK** is not in the repository. Its tables are the hardware variables of
  the modules, written as the calls in `src/centec` imply.
* **The Thrift server and the tests** are client programs.
* **More than one chip**: the models are of one, on which the mutex is the only
  lock. `bulk_remove_members` and the like, which lock chip 0 for objects of any,
  are listed above.
* **Reads, dumps, logs**, the packing of an object id and the hash functions; the
  reads that change state are modelled (a read of a removed port, a read with clear).
* **Data that no rule of the code distinguishes**: match fields of ACL entries and
  UDF matches, packet headers, timers, addresses, weights and burst sizes, QoS
  values, the content of statistics.
* **Warm boot of single modules**: the callbacks with which a module saves and
  restores lists of its own. `WarmBoot` has the common save and reload with four
  types that stand for those that register.
* Inside the modelled components, what the notes of `PROJECT.json` name: the MPLS
  next hops of `ctc_sai_next_hop.c` with the neighbors' `nh_list`; a route's class
  id; the switch-over of a protection group; interfaces and sub-ports on a LAG; the
  trap settings at the end of `create_rif`; packet actions and static flushes of
  the FDB; ACL bindings to a LAG, a VLAN or the switch, which are the same
  functions with another key; egress QoS maps; the statistics of policers and
  queues; the variants of UDF and hash for other chips than Duet2.

Removing an object in use is refused by the code in few places. Where a module's
guard lets the client remove users first, the departure is in the list above.

## Plan

The modelling planned for this code is done; what remains is to prove more
of it, in this order:

* `SystemExact`, from the invariants of its parts: the save and reload of `WarmBoot` are worth
  most, then the domain tables of `UdfHash`.
* `TunnelExact`, once a loop over the waiting terms is stated round by round as that of
  `OamEvents` is, so that each round is one step of an invariant.
