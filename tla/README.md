# A TLA+ verification of ospfd

ospfd is an OSPFv2/OSPFv3 routing daemon in Rust that takes its interfaces from
VPP and hands its routes to ribd. This directory holds TLA+ models of it, the TLC
configurations that check them on small instances, and TLAPS proofs of what
matters most for every instance. Paths below are relative to the repository;
`PROJECT.json` maps every definition to the lines it models.

## Inventory

One tokio task per OSPFv2 instance (`run_v2_instance`, main.rs) selects over packets,
timers and signals, and one per OSPFv3 instance (daemon_v3.rs) does the same; the
enrollment task, the packet dispatcher and the control server share the instances
through mutexes. Every arm handles its event under one lock acquisition unless it
awaits VPP in between, and those gaps are where state goes stale.

| Component | State | Operations | What makes it correct |
|---|---|---|---|
| LSDB (lsdb.rs, packet/lsa.rs) | LSA per key, time of installation | install, bump_seq, originate, flush_max_age; recency order | recency is an order; a database only moves forward; sequence numbers survive their limits |
| Neighbor FSM (proto/neighbor.rs) | state, role, DD number, request and summary lists | handle_event | lists belong to the exchange that filled them |
| Packet handlers (instance.rs) | databases and neighbors | process_hello, _dd, _lsr, _lsu; emit_pending_dds, _lsrs; flooding | both sides agree on roles; Full means synchronized and advertised; flooding ends with everybody agreed; no state waits for ever |
| Interface FSM and DR election (proto/interface.rs, instance_v3.rs) | state, DR, Backup, neighbors' declarations | InterfaceUp/Down, WaitTimer, BackupSeen, NeighborChange; dr_election of version 3 | routers at rest agree, and the DR they name acts as DR |
| SPF throttling (instance.rs, main.rs) | last run, schedule, hold multiplier | schedule_spf, the SPF arm, run_spf | every request is served in time, runs are spaced |
| Aging, refresh, redistribution (instance.rs, main.rs) | LSA ages, the VPP prefixes | periodic_maintenance, refresh_external_lsas, flush_self_externals_outside | what we originate lives while it should, and disappears everywhere when withdrawn |
| Event loop (main.rs) | timers | the select arms | drives all of the above |
| Enrollment, interface refresh, dispatch (main.rs, io_punt.rs) | interface list and index maps, shared between tasks | resolve, bring up and wire interfaces when VPP reports them; follow their state | no lost or doubled interface, the interfaces come to agree with VPP |
| Reload (config.rs, instance.rs, main.rs) | configuration | reload_config on SIGHUP | the running state follows the new configuration |
| Areas, ABR (area.rs, instance.rs, daemon_v3.rs) | one LSDB per area | originate_summary_lsas, originate_inter_area_prefix_lsas, stub defaults | LSAs stay in their area, summaries follow routes and come to rest |
| SPF (proto/spf.rs, spf_v3.rs) | none | calculate_spf, calculate_spf_v3 | shortest paths, next hops on them |
| RIB (rib.rs, rib_v3.rs, rib_client.rs) | cache; what ribd was told | apply_routes, one Bulk per kind, withdraw | ribd ends up with the routes of the last run |
| OSPFv3 (instance_v3.rs, lsdb_v3.rs, daemon_v3.rs) | as OSPFv2; what is owed to a neighbor waits in it for the hello tick | as OSPFv2, with a database that compares nothing | as OSPFv2 |
| Authentication (packet/auth.rs) | outbound sequence number | apply_auth, verify_auth | - |
| Packets, I/O, control socket | none | parsing, sockets, formatting | - |

How they interact: Hellos move neighbors and trigger elections; neighbors reaching
or leaving Full re-originate Router- and Network-LSAs; every database change asks
for an SPF run; an SPF run feeds the RIB and the summaries; flooding ties the
databases of several routers together. What is hard: Hellos, DDs and floods of two
routers crossing; lost and repeated packets (LS acknowledgments are ignored and
updates are never retransmitted, so only DDs in ExStart and requests are repeated);
a restart with an old LSA of ours still around; dead timers that expire on one side
only; schedules read before a sleep and changed during it; VPP snapshots used after
an await; refresh, purge and withdrawal racing each other over hours.
`PROJECT.json` lists the hazards line by line.

## Modules

| Module | Models | State | Actions |
|---|---|---|---|
| `Lsdb` | recency and the database operations, as operators | - | - |
| `Neighbor` | the neighbor FSM of version 2, as an operator on a record | - | - |
| `Adjacency` (extends `Lsdb`, instantiates `Neighbor`) | two OSPFv2 routers on a point-to-point link | `db`, `nbr`, `chan`, `spf`, history of what was heard and offered, `budget` | Receive (all four handlers), SendHello, EmitPendingDds, EmitPendingLsrs, RunSpf, Lose, Duplicate, NeighborExpires, Restart, Learn |
| `AdjacencyV3` | two OSPFv3 routers on a point-to-point link | `mode`, `nbr`, `db`, `dirty` (needs_router_lsa_refresh), `chan`, `budget`; history in `offered`, `rejoined`, `crossed`, `lost` | RecvHello, RecvDd, RecvLsr, RecvLsu, HelloTick (with everything it emits), RefreshTick and ExpireTick (both arms of expire_tick), IfaceRefresh, RetransmitIntervalPasses, Lose, Learn, Stop, Start |
| `Flooding` | routers that are Full with each other, over links, broadcast networks (adjacent with DR and Backup, `hubs`) and areas, either version | `net`, `db`, `pending`, `wire`, `changed`, renewals left | Renew, Deliver (process_lsu with its flooding), EmitTick, SpfTick (with the summaries of an ABR) |
| `DrElection` (instantiates `Neighbor`) | several routers on a broadcast link, either version | `node[r]`: interface with its neighbors | HelloArrives, WaitTimer, DeadNeighborExpires, LiveNeighborExpires, ComesUp, GoesDown |
| `LsaRefresh` (extends `Lsdb`) | one router's LSAs over many refresh cycles, and a neighbor's copies | `db`, `since`, `due`, `ext`, `chan`, `prefix`; history in `told` (the Router-LSA we hold was sent) | OwnTick, PeerTick, RefreshExternals, RefreshUnanswered, PrefixChanges, NeighborReachesFull, OriginateUnsent (an expired neighbor, a changed or enrolled interface, a reload), Receive, TimePasses |
| `SpfThrottle` | throttling with two tasks | relative instants | ArmSchedules, TaskSchedules, OtherArm, RunSpf, Tick |
| `SpfTree` | both route computations | `nbr` (the neighbors run_spf collects, which may miss one our Router-LSA still has), `dist`, `nh`, `heap`, the node being expanded, `routes` | PopV2, PopV3, Relax, CollectV2, CollectV3 |
| `RibSync` | from a change of the database to the routes ribd holds, either version | the marks that make SPF run, `cache`, the Bulk under way, `conn`, `held` | LsaV2/V3, NeighborV2/V3, RouterLsaV3, IfaceRefreshV3, EnrollmentV2, RunSpfV2, SpfTickV3, Bulk, BulkFails, RetryFails, RibdStops, RibdStarts, ConnectionBreaks, ShutdownV2, ExitV3 |
| `Enrollment` | the interfaces of several instances and VPP | `vpp`, `ifs`, `lsa`, `wired`, `redist`, `ext`, and where each task is with what it read | VppCreate/Delete/Update, EnrollCollect ... EnrollWire, RefreshStart ... RefreshApply, Reload |
| `AdjacencyProofs`, `FloodingProofs`, `LsaRefreshProofs`, `EnrollmentProofs`, `DrElectionProofs`, `SpfThrottleProofs`, `SpfTreeProofs`, `RibSyncProofs` | theorems about the module of that name | | |
| `MC*` | values of the constants for TLC | | |

A handler is one action with everything it changes: `ProcessLsUpd`, for example,
installs, drains the request list, moves the neighbor to Full, re-originates,
floods and schedules SPF in one step, because process_lsu does so under one lock.
Where the code awaits VPP or ribd between two locks, the action is split there: the
enrollment task and the refresh of `Enrollment` carry what they read in `task` and
`loop`, and a push of `RibSync` is one step per Bulk.
An LSA is its sequence number, checksum, age and an abstract body; its encoding
computes the checksum. Sets stand for the lists in packets; which headers fit on a
page is chosen freely. VPP and ribd are external and modelled from how the daemon
uses them.

Left out of `Adjacency`: several interfaces and areas (news from elsewhere arrives
through `Learn`), acknowledgments (ignored by the code), ages (they belong to
`LsaRefresh`), authentication and packets that do not parse. `DrElection` stops at
ExStart, and a Hello is delivered with what its sender declares at that moment.
`AdjacencyV3` starts after the first expire_tick of both daemons, which comes at once
and originates the Router-LSA a second time. `Flooding` starts where the two adjacency
modules end: every adjacency stays Full and nothing is lost.

Definitions that a comment calls a mutant are not part of the system: each is a
plausible mistake in the definition that follows it, and some property of the runs
tells it from the real one.

## Runs

| Run | Instance | Shows |
|---|---|---|
| `adjacency_exchange` | two OSPFv2 routers, one foreign LSA in any instance on either side, pages and requests of one, DD numbers that wrap, and news of the foreign LSA; about 0.35 million states | `HeardIsPursued`, `FullIsSynchronized`, `SpfFollowsLsdb`, `LsdbNeverOlder` |
| `adjacency_faults` | one lost packet and one restart or expired dead timer, or one packet delivered twice | `OwnLsaPrevails`, `RolesAgree`, `DescribedBeforeDone`, `ListsFitState` |
| `adjacency_liveness` | one lost packet, fair | `LoadingEnds`, `Bidirectional` |
| `adjacency_v3` | two OSPFv3 routers; one lost packet with news of a foreign LSA, or a restart, an expiry, or an interface that flaps; fair; about 0.25 million states | `FullIsSynchronized`, `LinkComesUp` |
| `flooding` | three routers; version 2 over a triangle, parallel links, a broadcast network with DR and Backup and a link beside it; version 3 over a line, a broadcast network with one eligible router, and two areas with an ABR; sequence numbers that wrap; fair; about 40 thousand states | `QuietMeansAgreed`, `FloodingEnds` |
| `flooding_area` | version 2, a line of three routers over two areas | violates `AreaScope`: see below |
| `spf` | delay 1, hold 2 doubling to 11, fair | `RequestIsPromised`, `RunsAreSpaced`, `RequestIsServed` |
| `spf_tree` | every graph of a family of four routers around a square with a diagonal and one broadcast network, links present or not with costs up to 3, a Router-LSA missing, a neighbor not heard (not yet, or no longer), either version; about 0.33 million states | `CostsAreShortest`, `HopsOfShortestPaths`, `MultipathComplete` |
| `rib` | two neighbors, three databases, four changes, two failures, either version | `PushedIsHeld`, `ChangeIsNoticed`, `Converges` |
| `enroll` | two interfaces of two instances, two indices that are reused, three configurations, two outside events | `OneInterfacePerIndex`, `RouterLsaCurrent`, `FollowsVpp` |
| `refresh_steady` | refresh after 2 intervals, expiry after 5, two changes or failures of VPP, two re-originations of the Router-LSA, sent or not, 17 sequence numbers; about 1.2 million states | `PeerHoldsRouterLsa`, `ConnectedSurvives` |
| `dr_election` | three routers, two of them eligible, of either version, and the failure of one that is, or one unjustified expiry; about 0.46 million states | `SettledAgree`, `DrYieldsToDr` |

Each module but `SpfTree` has its type invariant checked in one of these runs.

### The finding

flood_lsas_to_others (instance.rs:916) goes through all interfaces and looks at areas for
Type 5 LSAs only, while the comment before its call (instance.rs:861) says "Flood
new/updated LSAs to all other neighbors in the same area." In `flooding_area` router 1
has links in area 0 only; the area border router 2 passes its Router-LSA on into area 1,
and router 3, which is in area 1 only, installs it in the database of that area.

### Configurations that reproduce other disagreements

These stay beside the runs. `tlc -config X.cfg MCmodule` ends with a counterexample
for each of them but `DrElection_failover_v3`; the property is the one the cfg names.

| Configuration | Property | What TLC shows, and what the code says |
|---|---|---|
| `Adjacency_master` | `MasterCompletes` | the slave enters Loading or Full with the master's last DD and sends no DD of its own (instance.rs:566), and nothing retransmits in Exchange: the master stays there for ever. proto/neighbor.rs:105: "The master completes the Database Exchange process when it has sent and received DD Packets with the M-bit clear." |
| `Adjacency_duplicate` | `FullIsSynchronized` | process_dd stores last_dd and never compares with it (instance.rs:546). After the master's dead timer expired the slave goes on with the old exchange, and a DD delivered twice makes the master Full without the slave's LSAs. proto/neighbor.rs:108: "Last received DD packet (for duplicate detection)." |
| `Adjacency_seed` | `FullIsSynchronized` | no fault, only an answer that takes longer than a second: in ExStart process_dd answers the peer's initial DD with one that carries number 0, for only emit_pending_dds sets the seed. The slave's first page echoes 0 and is ignored, the initial DD repeated with the seed draws the next page, and the master is Full without the headers of the first. instance.rs:1123: "Initial DD uses the seed sequence (set in emit_pending_dds)." |
| `Adjacency_advertised` | `FullIsAdvertised` | a neighbor with an empty request list goes to Full inside process_dd (instance.rs:539), where the Router-LSA is not re-originated. No fault is needed: both routers hold the same two foreign LSAs, and the slave requests and receives the master's Router-LSA while the exchange still goes on, so that nothing is left to load when the master's last DD comes. instance.rs:868: "If a neighbor just reached Full, re-originate our Router-LSAs in every area" |
| `Adjacency_stub` | `LoadingEnds` | in a stub area external LSAs are described and requested, then rejected before the request list is drained (instance.rs:733). instance.rs:619: "requires retransmission until the request list drains or the" |
| `AdjacencyV3_rejoin` | `RejoinedIsSynchronized` | a neighbor that fell back to 1-Way and rejoins keeps dd_peer_done, what it had received and what was queued for it (instance_v3.rs:1163). instance_v3.rs:90, of dd_peer_done: "we can advance to Loading/Full only once both sides have drained."  |
| `AdjacencyV3_expire` | `RouterLsaFollowsNeighbors` | expire_neighbors of version 3 does not mark the Router-LSA, which goes on advertising the lost neighbor |
| `Flooding_loop` | `FloodingEnds` | version 3 passes every LSA of an update on, known or not: on a triangle, and on a broadcast network of three routers, where DR and Backup are adjacent with everybody (instance_v3.rs:2490), one renewal circulates for ever. instance_v3.rs:945: "Flood newly installed LSAs to all OTHER Full neighbors." |
| `Flooding_abrs` | `FloodingEnds` | two OSPFv3 ABRs of the same areas make each other's database change with their summaries, once a second, for ever. daemon_v3.rs:490 says the generation is recorded late so as not to "busy-loop SPF" |
| `LsaRefresh_network` | `AreaLsasRefreshed` | a Network-LSA that is due only gets the Router-LSAs re-originated (instance.rs:2213), and expires. instance.rs:2200: "Refresh self-originated LSAs that have aged past LSRefreshTime (across all areas)." |
| `LsaRefresh_unsent` | `RouterLsaPropagates` | after a reload (instance.rs:2519), an expired neighbor (main.rs:1269), a change of an interface (main.rs:1376) or an enrollment the Router-LSA is originated and sent to nobody. instance.rs:2515: "Re-originate in every area we participate in so cost/passive changes propagate. originate_router_lsas bumps seq and updates LSDB; the caller is expected to schedule SPF + flood." |
| `DrElection_failover` | `SettledHasDr` | three eligible OSPFv2 routers: 2, DR with 1 as Backup, yields to 3, which outranks it, and 3 fails. 2 elects the declared Backup 1 as DR and itself as Backup; 1, which never heard 3, keeps 2 as DR and itself as Backup; no Hello brings news, and both rest as Backups (proto/interface.rs:415). instance.rs:2295: "Dropping a bidirectional relationship must trigger DR re-election; otherwise we can stay Backup with nobody left acting as DR." |
| `DrElection_failover_v3` | `SettledHasDr` | holds: the same instance in version 3, which elects with every Hello; `VersionThreeHasDr` proves it |
| `SpfTree_hops` | `HopsLieOnShortestPaths` | an edge without a next hop lowers a cost and keeps the hop of the dearer path (proto/spf.rs:186). A neighbor that fell back to 1-Way is left out by run_spf (instance.rs:2071), while our Router-LSA still has the link: with links of cost 1 to it and from it to router 3, and of cost 3 to router 3, the latter gets cost 2 and the hop of the direct link. proto/spf.rs:182: "Inherit next-hop from our path to router_id" |
| `SpfTree_paths` | `RoutesInheritHops` | calculate_spf_with_paths is a second copy of the algorithm, without the lookup of an address in a Router-LSA (proto/spf.rs:607), so inter-area and external routes behind a router of our broadcast network that we do not hear get its router id for a next hop. proto/spf.rs:387: "next-hop = inherited from the path to the ABR (advertising_router)" |
| `Enrollment_redistribute` | `RedistributeFollows` | after SIGHUP the external refresh works from the configuration read at startup (main.rs:1466). README.md:46: "`redistribute` and `summary_addresses` are replaced wholesale" |

`FullIsSynchronized` and `FloodingEnds` therefore hold in a run and fail
elsewhere, and the difference is what one learns from them. The first survives an expiry
or a duplicate, and not both, and only while an initial DD is not repeated before its
answer has come. `FloodingEnds` holds in version 2 on any of the networks and in version 3
without a cycle of adjacencies. `SettledHasDr` holds in version 3 and fails in version 2;
`SettledAgree` holds in version 2 while only two routers are eligible, one of which may
fail. Neither speaks about an OSPFv2 router that returns after a failure
(`NobodyReturned`), which may also leave two Backups. `PeerHoldsRouterLsa` speaks about
instances that were sent (`told`): a re-origination that was not restarts the age at the
owner while the copy at the neighbor grows older, and one just before the refresh lets
the copy expire. `HopsOfShortestPaths` excepts nodes with a shortest path that has no
next hop. `LoadingEnds` holds in a normal area. `FullIsSynchronized` of version 3 names
its two exceptions: a neighbor that has rejoined through 1-Way, and a DD of an earlier exchange that passed for the answer to
the master's first one (`crossed`). `LinkComesUp` promises equal Router-LSAs unless an
update was lost, for version 3 retransmits no update. `MultipathComplete` speaks about
graphs without transit links.

### Bounds

Pages of one make every exchange with two LSAs, a foreign one and a Router-LSA, a paged
one. For `FullIsAdvertised`, which holds of a first exchange with two pages, this is not
enough, as `Adjacency_advertised` shows with three; the
other properties of `adjacency_exchange` were also checked with two foreign LSAs and no
news, 2.9 million states, which is too slow to keep as a run. `ChanCap` stops a timer from
sending while its previous packet is in flight, which leaves retransmissions to
`Duplicate` and to answers: a round trip takes less than a retransmission interval,
as on any link that is not congested (`Adjacency_seed` shows what happens otherwise);
`backlog` keeps a router from sending more while its neighbor does not read. The
sequence-number range of `Adjacency` is just wide enough for every origination that fits in a behaviour, and the DD numbers start two below
their wrap. In `AdjacencyV3` a tick comes when the link has delivered what was sent and
at most one Hello is on its way; the events that take five seconds or more (a
retransmit interval, an expiry, the interface refresh, the start of a daemon) come when
the ticks of one second have sent what was owed (`Settled`). One kind of fault happens
in a behaviour; a lost DD is left out, because a slave whose master's last DD is lost
stays in Exchange, as observed below. In `Flooding` one router renews its LSAs twice
and another once, or each of them once, at any time, and four sequence numbers make
them wrap; an update arrives before the next tick of its sender.
In `SpfThrottle` time is unbounded: elapsed times beyond the longest hold are not told
apart by the code. The costs of `SpfTree` make a
direct link dearer than a path of two, and each of the routers 1 and 4 may be missing from
the neighbors. `LsaRefresh` ends a behaviour when a sequence number is used up
(`OutOfNumbers`), after about fifteen refreshes; ages are truncated to 16 bits as in
lsdb.rs (`U16Mod`). `RibSync` has two neighbors, the least with which one can be lost and
another gained between two ticks. `Enrollment` has as many indices as interfaces, so
that an interface created after another was deleted gets a used one.
Deadlock is checked except where the system may stop: a network at rest (`Flooding`),
a finished computation (`SpfTree`), a daemon that has shut down (`RibSync`), and
interfaces that all agree with VPP (`Enrollment`).

### Fairness

`Adjacency` assumes that the loop keeps reading packets and its intervals keep firing,
for each router and timer apart, which tokio's select and interval guarantee; faults
are not fair. `AdjacencyV3` assumes the same of receiving and of expire_tick (weak), and
strong fairness of the hello tick, of coming back and of the retransmit interval: their
guards are bounds of the model, which make them alternately possible and impossible,
while the timers themselves fire for ever. `Flooding` assumes that updates arrive and
both ticks of version 3 recur; renewals are not fair. `SpfThrottle` assumes that time
passes and that the loop polls a sleep that has ended. `RibSync` assumes that the event
loop serves its timers and that a Bulk ends in an answer or in the five seconds of
connect_with_retry, and nothing of ribd. `Enrollment` assumes that timers recur and
that VPP answers. `DrElection` and `SpfTree` have no fairness: their properties speak
about states in which nothing is left to do.

## Proofs

All theorems are for every value of the constants that satisfies the assumptions
of the modules: any two router ids, any set of foreign LSAs, any page sizes, any
sequence-number range, any budget of faults; any delay and hold times; any set of
graphs, with any metrics below the value that stands for unreached; any route
computation, neighbors and number of failures; any interfaces, indices, instances and
configurations; any finite set of routers on a broadcast link with any priorities; any
refresh time that leaves an interval before MaxAge, and any width of the age counter
that can hold MaxAge.

- `AdjacencyProofs`. The inductive invariant `IInv` is `TypeOK` and, for each
  router, `NbrInv`: its role fits the order of the ids from Exchange on, its lists
  are empty below Exchange and its request list in Full, and from Loading on it
  has announced its last page with an empty summary list. `RolesAgree`,
  `DescribedBeforeDone` and `ListsFitState` are consequences. None of them is
  inductive alone: that Full has no
  request outstanding rests on the lists being cleared on every way down, and
  typing is needed throughout because a packet in flight is data of the other
  router. The proof has one lemma per handler, timer and outside event and one per
  operator they share. From `IInv`, `LsdbNeverOlder` and `SpfFollowsLsdb` follow
  as step properties: every database operation is shown never to go backwards
  (`InstallNotOlder`, `BumpNotOlder`, `OriginateNotOlder`), the wrapping sequence
  number included, and every change of an area key to schedule SPF.
- `AdjacencyProofs` also has the facts about the operators of `Lsdb`. Recency is
  asymmetric and transitive. Transitivity holds although the rule on ages treats ages
  closer than 15 minutes as equal: a younger instance wins only by more than that, and
  such differences add up.
- `SpfThrottleProofs`. `IInv` joins `TypeOK`, `RequestIsPromised` and `NoIdleRun`
  with two strengthenings: the time since the last run and the time until the next
  together never undercut the hold time (`Spaced`), without which `RunsAreSpaced`
  is not a consequence, and a request is on record exactly while a run is scheduled
  (`Recorded`), without which `RequestIsPromised` is not inductive.
- `RibSyncProofs`. `PushedIsHeld` speaks about the end of a push and needs what holds
  half way (`Pushing`: the Bulks already sent are held). `ChangeIsNoticed` needs a
  reason why a comparison of numbers is enough: without another mark, the neighbors
  are among those of the last run (`Unmarked`), because only becoming Full adds one and
  that marks the Router-LSA; so the same number means the same set.
- `AdjacencyProofs`, second part. `HeardIsPursued` says that no update takes an LSA off the request
  list unless it brought at least the instance the neighbor had described.
  process_lsu compares the key of an update with the request and nothing else, so the
  claim rests on the order of packets: what a router says about an LSA never gets
  older, and the link keeps the order. The invariant `Pursuit` says so of every packet
  in flight (`Inbound`: an update is no older than any header ahead of it or already
  heard, and its sender still holds as much), of each router (`Local`: what it holds is
  genuine, its summary list is held, what it heard is requested or held), and of the
  Router-LSAs (`Behind`: nobody is ahead of the originator, which is also
  `NeverOvertaken`). Losses, repeated packets, expirations and news are arbitrary. Two
  hypotheses remain, and TLC refutes the property without either: no restart, after
  which a router starts its numbers over, and sequence numbers left (`SeqLeft`), for at
  the last one process_lsu floods a wrapped Router-LSA that install has refused.
- `FloodingProofs`. The types, in both versions and on any network. Then, for version 2,
  `FloodingIsReliable`: flood_lsas_to_others skips the interface an LSA came in on "on the
  assumption that the sender has already flooded to all its neighbors", and the theorem
  says that the assumption is sound, for any number of routers, over cycles, parallel links
  and broadcast networks whose routers are adjacent with DR and Backup: when nothing is under
  way everybody holds the last Router-LSA of everybody. The invariant (`Agreeing`) is
  about one link at a time. Whatever a router on it holds, each other router on it holds
  as well or better, or such an instance is on its way to it over this very link
  (`Shared`); what is under way on a link is held by its sender, and all on the link hold
  or will hear of it (`Backed`); and nobody is ahead of the originator (`Genuine`). A
  router that installs an LSA has three kinds of links: those it floods to; the one the
  LSA came in on, where `Backed` takes care of the others; and those it passes over
  because the only adjacent neighbor there sent the LSA, where `Shared` does, for that
  neighbor holds it. At rest the routers of a link hold the same, and the routers that
  hold the last instance cannot be cut off from the others. The hypotheses: one area
  (`OneArea`), for with two the property is false, as `flooding_area` shows; a connected
  network whose broadcast links have their DR and Backup on them; and sequence numbers left
  (`NumbersSuffice`), for install refuses what comes after the last one. TLC checked
  `Agreeing` on the networks of the run before.
- `LsaRefreshProofs`. That a neighbor never times out a Router-LSA that was sent to it takes three facts
  together, for any number of refresh cycles: every instance of it anywhere is one the
  owner originated and none is ahead of the owner's (`Genuine`), it is renewed before
  its age can matter (`Timely`), and the neighbor has the owner's instance, installed
  at the same time, or that instance is on its way (`Delivered`). The last one holds of an
  instance that was sent (`Told`): one that was not leaves the neighbor behind, and the next
  refresh makes up for it. The LSA of a
  connected prefix is kept in the same way while VPP answers and does not change
  (`VppKept`). Time stops in the model when a sequence number is used up, so the
  theorems speak about the time until then.
- `EnrollmentProofs`. `OneInterfacePerIndex` is not inductive: that a commit gives no
  index away twice rests on what the enrollment task found out under earlier locks
  being true still (`Enrolling`: the interface it works on is unresolved and its index
  not wired), whatever the refresh, a reload and VPP did meanwhile.
  `RouterLsaCurrent` follows for every task because each one that changes the
  interfaces originates under the same lock.
- `DrElectionProofs`. The election picks a maximum, which exists in every finite set of
  candidates (`BestExists`, by a smallest set without one). `DrYieldsToDr` needs that a
  router in state DR declares itself and can be elected (`Role`): then it is among the
  declarers of its own next election, and the first pass picks the best of these. With
  `OneRoleEach`, nobody takes one router for DR and Backup at once. In version 3 a settled
  network agrees (`VersionThreeAgrees`) on a DR that acts as one (`VersionThreeHasDr`), for
  any number of routers and priorities. Settled routers see each other and know what each
  declares (`SettledViews`), so they elect from the same candidates and declarations; what
  is left is that a router confirmed by its own election holds the result of the first
  pass (`Fixpoint`): the second pass could only confirm a role the first one took away or
  gave, and never does. That the DR is up needs that a router's DR is a candidate of its
  last election (`Grounded`). `NobodyReturned` is not used: version 3 needs no such
  exception. The argument fails in version 2 where a Hello that repeats what is known
  starts no election, so a router may rest on what an earlier one gave.
- `SpfTreeProofs`. `IInv` says what holds half way through the algorithm: nothing on the
  heap is cheaper than what was taken, so a cost is final when its node is taken
  (`Frontier`); a link of a node taken improves on nothing unless its edge still waits
  (`Relaxed`); every node reached is reached over a link from a node taken (`Reach`), and
  its next hops come over such links (`HopInv`, and `Multipath` for all of them). Two
  facts about the code carry the rest. Both ways of skipping a stale heap entry, by the
  set of visited nodes in version 2 and by comparing costs in version 3, expand a node
  exactly once (`PopTakes`). And only the links from a network to its routers are free:
  the next hops of a router taken may grow in version 3, those of a network or of the
  node being expanded may not (`RelaxRoots`, `RelaxKeepsSource`), so a hop once justified
  stays so. The three properties of the run follow when the heap is empty.
  `NoCostIsTooHigh` says shortest without the tree: of all assignments of costs that no
  link improves on, the computed one is the greatest; it is proved by a node of least
  rank that is too high, cost before kind of node. `HopsOnShortestPaths` assumes nothing
  of the neighbors: where an edge without a next hop lowers a cost, the path it belongs to
  is the exception the property names, and it stays one because costs of nodes taken and
  the lack of their next hops are final.

Only model-checked:

- everything about liveness, for the prover has no ENABLED;
- `FullIsSynchronized` of `Adjacency`, which holds in the runs' instances and not for
  every budget of faults, as the configurations above show, nor
  for every `ChanCap`: the attempt to prove it from `Pursuit` without faults ended
  with `Adjacency_seed`;
- `OwnLsaPrevails`, which is about a router that restarts and finds its former LSA with
  its neighbor; TLC checked it also with two restarts and a loss;
- `AdjacencyV3`, types included, and `QuietMeansAgreed` of `Flooding` in version 3, which
  compares nothing and agrees only on networks without a cycle;
- `SettledAgree` in version 2, which depends on how many routers are eligible;
- that `SpfTree` is not stopped before it has finished (it is deterministic up to ties,
  and each step takes an entry off the heap or an edge off the work).

## Observed, without a run of their own

These came up while modelling, by reading or in exploration with the same modules.

OSPFv2 exchange, flooding and refresh:

- A router that timed its neighbor out while the neighbor is in Loading or Full
  repeats its initial DD for ever; the neighbor ignores every DD in those states.
- The MaxAge instance of a withdrawn prefix is installed locally and never flooded
  (flush_self_externals_outside), so the neighbor uses the prefix for up to an hour.
- The default-route LSA is originated at startup only and expires after an hour.
- A DROther router does not leave 2-Way with a DR elected later, because AdjOk? is
  evaluated only when its own interface state changes.
- A Router-LSA at the last sequence number wraps when it is re-originated, and install
  refuses it as the older one; it is flooded nevertheless, and can take a request off
  the neighbor's list without bringing what was asked for.
- Summaries of version 2 are originated when a neighbor reaches Full, and never
  withdrawn.

OSPFv3:

- The DD sequence number starts at 1 in every exchange, so nothing tells two exchanges
  apart; a retransmitted DD carries no headers; a slave stays in Exchange when the
  master's last DD is lost; an update queued for an earlier request may answer a newer
  one; an LSA learned while a neighbor is in Exchange or Loading is never flooded to it.
- insert compares nothing, so an older instance, also of one's own LSA, replaces a
  newer one when it arrives later.
- Falling back to 1-Way and a reset do not mark the Router-LSA, as an expiry does not;
  dr_election does not either, and the Network-LSA is not renewed when the DR changes.
- Type 5 LSAs are described into stub areas.
- Inter-area routes are summarized again; the ids of Inter-Area-Prefix-LSAs start anew
  for each pair of areas, collide with three areas, and are never flushed.

SPF:

- Version 2 keeps one address per neighbor, also over parallel links; routes from
  one's own summaries and externals have next hop 0.0.0.0, and so has a
  router reached only through a neighbor that fell back to 1-Way.
- Version 3: an equal path found after its node was expanded is not inherited behind
  it, and two DROther routers get no next hop from each other, both on broadcast
  networks only, which is why `MultipathComplete` leaves these out. A network behind a
  router that has no next hop counts as one of ours, and what is on it as a neighbor.

RIB and tasks:

- The cache is updated and the marks are cleared before the push, and a failed push is
  only logged: ribd keeps old routes until the next change. A ribd that restarts
  between two Bulks loses the earlier ones although the push reports success
  (`PushedIsHeld` has to exclude it). withdraw_v6 is never called. A push that cannot
  connect keeps the event loop from everything else for five seconds.
- A daemon that resolves no interface at boot spawns neither dispatcher nor enrollment
  task (main.rs:2134). An interface created again keeps its stale index, and one that
  gets a reused index is not enrolled; `Settled` of `Enrollment` names both. A dump
  that fails is an empty one and takes all interfaces down until the next refresh.
- A Router-LSA stays as it was when the last interface goes down. When VPP gives the index
  of a deleted interface to one of another instance, the dispatcher's map still has the
  first owner, and packets go to the wrong instance; `OneInterfacePerIndex` speaks
  about the indices of resolved interfaces only, and this one is resolved by nobody.
- More than eight SIGHUPs during one await look like a closed channel to the receiver
  (main.rs:1421, daemon_v3.rs:373). The comment on reload says the distance is copied
  (instance.rs:2329), and it is not. One full channel blocks the dispatcher for all
  instances (main.rs:1755).

## Not modelled

Byte layout and parsing of packets and of the configuration, sockets, the digests of
authentication and the control socket's text are data or I/O: their errors show in unit
tests and not in interleavings. Summaries, stub defaults, Link-LSAs and externals of
version 3 are modelled as far as they are flooded, not in their contents. The exchange
on a broadcast link with several neighbors at once, aggregation and route maps, reload
of version 3, and packets waiting in the dispatcher's channels are left.

## Plan

1. Proofs: `OwnLsaPrevails`, with what is known about instances from before a restart;
   `FullIsSynchronized` with the seed set before the first answer, or with one DD in
   flight; the types of `AdjacencyV3`; `QuietMeansAgreed` in version 3 on networks
   without a cycle.
2. An abstract specification of an adjacency (unsynchronized, synchronizing,
   synchronized) that both adjacency modules implement.
3. Version 3: aging and refresh, externals, reload.
4. The broadcast exchange, composing `DrElection` with `Adjacency`.
