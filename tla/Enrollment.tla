----------------------------- MODULE Enrollment -----------------------------
(***************************************************************************)
(* The interfaces of the OSPFv2 instances and what VPP says of them: boot  *)
(* (build_v2_setup, run_daemon), the enrollment task that resolves late    *)
(* interfaces, the periodic interface refresh of each event loop, and      *)
(* reload by SIGHUP (main.rs, instance.rs, io_punt.rs).                    *)
(*                                                                         *)
(* The tasks run on several threads.  Each VPP dump is awaited with no     *)
(* lock held, so a task acts on what VPP said some time ago; the changes   *)
(* to an instance are made under its lock, one action here.                *)
(***************************************************************************)
EXTENDS Naturals, FiniteSets

CONSTANTS
  Names,      \* the configured interfaces
  Instances,  \* one per VRF
  Owner,      \* Owner[n]: the instance that has interface n
  Indices,    \* sw_if_index values VPP may assign, 0 is not one of them
  Addrs, NoAddr, Configured, \* addresses in VPP, none, the one of the configuration
  VppStates,  \* oper state and address VPP may report of an interface
  Configs,    \* configurations: settings [cost, passive, timers] of every interface, and
              \* what is redistributed; of the settings only the cost is in the
              \* Router-LSA; timers stands for the intervals and the priority
  Boot,       \* the configuration read at startup
  MaxEvents   \* bound on the changes in VPP, the dumps that fail and the reloads

ASSUME EnrollmentAssumption ==
  /\ Owner \in [Names -> Instances]
  /\ VppStates \subseteq [up : BOOLEAN, addr : Addrs \cup {NoAddr}]
  /\ Indices \subseteq Nat \ {0} /\ Boot \in Configs
  /\ {Configured, NoAddr} \cap Addrs = {} /\ Configured # NoAddr
  /\ MaxEvents \in Nat

VARIABLES
  vpp,      \* VPP: index (0 if the interface does not exist), oper state, address
  ifs,      \* instance.interfaces: index, state # Down, address, settings
  redist,   \* instance.redistribute of each instance
  ext,      \* what its AS-External-LSAs were made from
  lsa,      \* our Router-LSA in the database of each instance
  wired,    \* the interfaces of PuntSocketTx and iface_to_idx: index -> instance
  started,  \* dispatcher and enrollment task were spawned
  task,     \* the enrollment task
  loop,     \* the interface refresh of each event loop
  events

vars == <<vpp, ifs, redist, ext, lsa, wired, started, task, loop, events>>

Absent == [idx |-> 0, up |-> FALSE, addr |-> NoAddr]
Here(v, n) == v[n].idx # 0
Used(v) == {v[n].idx : n \in Names} \ {0}

Interfaces(i) == {n \in Names : Owner[n] = i}
UpOf(f, i) == {n \in Interfaces(i) : f[n].up}
\* The links, and the E flag of an AS boundary router.
Describe(f, r, i) ==
  [links |-> {[name |-> n, addr |-> f[n].addr, cost |-> f[n].set.cost] : n \in UpOf(f, i)},
   e |-> r[i] # {}]

\* originate_router_lsas leaves out an area without links: with every interface of
\* the instance down, the LSA of before stays in the database.
Originate(f, r, i) ==
  lsa' = [lsa EXCEPT ![i] = IF UpOf(f, i) = {} THEN @ ELSE Describe(f, r, i)]
-----------------------------------------------------------------------------
(***************************************************************************)
(* VPP (external): interfaces appear, disappear, change.  An index that is *)
(* free may be assigned again.                                             *)
(***************************************************************************)
VppChanges ==
  /\ events < MaxEvents
  /\ events' = events + 1
  /\ UNCHANGED <<redist, ext, ifs, lsa, wired, started, task, loop>>

VppCreate(n) ==
  /\ ~Here(vpp, n)
  /\ \E x \in Indices \ Used(vpp), s \in VppStates :
       vpp' = [vpp EXCEPT ![n] = [idx |-> x, up |-> s.up, addr |-> s.addr]]
  /\ VppChanges

VppDelete(n) ==
  /\ Here(vpp, n)
  /\ vpp' = [vpp EXCEPT ![n] = Absent]
  /\ VppChanges

VppUpdate(n) ==
  /\ Here(vpp, n)
  /\ \E s \in VppStates : vpp' = [vpp EXCEPT ![n].up = s.up, ![n].addr = s.addr]
  /\ vpp' # vpp
  /\ VppChanges
-----------------------------------------------------------------------------
(***************************************************************************)
(* The enrollment task, every 5 seconds: collect the unresolved names, ask *)
(* VPP for the interfaces, then for each one found and not wired yet ask   *)
(* for its address, bring it up and wire it.                               *)
(***************************************************************************)
Unresolved == {n \in Names : ifs[n].idx = 0}
IdleTask == [pc |-> "idle", todo |-> {}, snap |-> [n \in Names |-> 0], cur |-> {}, addr |-> NoAddr]

EnrollCollect ==
  /\ started /\ task.pc = "idle" /\ Unresolved # {}
  /\ task' = [task EXCEPT !.pc = "dump", !.todo = Unresolved]
  /\ UNCHANGED <<redist, ext, vpp, ifs, lsa, wired, started, loop, events>>

EnrollDump ==
  /\ task.pc = "dump"
  /\ task' = [task EXCEPT !.pc = "each", !.snap = [n \in Names |-> vpp[n].idx]]
  /\ UNCHANGED <<redist, ext, vpp, ifs, lsa, wired, started, loop, events>>

EnrollDumpFails ==
  /\ task.pc = "dump" /\ events < MaxEvents
  /\ events' = events + 1
  /\ task' = IdleTask
  /\ UNCHANGED <<redist, ext, vpp, ifs, lsa, wired, started, loop>>

\* Mutant: is_enrolled is not asked.
CandidatesMutant == {n \in task.todo : task.snap[n] # 0}

Candidates == {n \in task.todo : task.snap[n] # 0 /\ task.snap[n] \notin DOMAIN wired}

EnrollSkip ==
  /\ task.pc = "each" /\ Candidates = {}
  /\ task' = IdleTask
  /\ UNCHANGED <<redist, ext, vpp, ifs, lsa, wired, started, loop, events>>

\* The address of an index: that of the interface that has it now, if any.
AddressAt(x) ==
  LET owners == {n \in Names : vpp[n].idx = x}
  IN  IF owners = {} THEN NoAddr ELSE vpp[CHOOSE n \in owners : TRUE].addr

EnrollAddress ==
  /\ task.pc = "each"
  /\ \E n \in Candidates :
       task' = [task EXCEPT !.pc = "commit", !.cur = {n}, !.todo = @ \ {n},
                            !.addr = AddressAt(task.snap[n])]
  /\ UNCHANGED <<redist, ext, vpp, ifs, lsa, wired, started, loop, events>>

EnrollCommit ==
  /\ task.pc = "commit"
  /\ \E n \in task.cur :
       /\ ifs' = [ifs EXCEPT ![n].idx = task.snap[n], ![n].up = TRUE,
                             ![n].addr = IF task.addr = NoAddr THEN @ ELSE task.addr]
       /\ Originate(ifs', redist, Owner[n])
  /\ task' = [task EXCEPT !.pc = "wire"]
  /\ UNCHANGED <<redist, ext, vpp, wired, started, loop, events>>

\* Mutant: the interface wired stays the current one.
EnrollWireMutant ==
  /\ task.pc = "wire"
  /\ \E n \in task.cur :
       wired' = [x \in DOMAIN wired \cup {task.snap[n]} |->
                   IF x = task.snap[n] THEN Owner[n] ELSE wired[x]]
  /\ task' = [task EXCEPT !.pc = "each"]
  /\ UNCHANGED <<redist, ext, vpp, ifs, lsa, started, loop, events>>

EnrollWire ==
  /\ task.pc = "wire"
  /\ \E n \in task.cur :
       wired' = [x \in DOMAIN wired \cup {task.snap[n]} |->
                   IF x = task.snap[n] THEN Owner[n] ELSE wired[x]]
  /\ task' = [task EXCEPT !.pc = "each", !.cur = {}, !.addr = NoAddr]
  /\ UNCHANGED <<redist, ext, vpp, ifs, lsa, started, loop, events>>
-----------------------------------------------------------------------------
(***************************************************************************)
(* The interface refresh of an event loop, every 30 seconds.               *)
(***************************************************************************)
IdleLoop == [pc |-> "idle", todo |-> {}, up |-> {}, got |-> {}]

\* Mutant: interfaces that are down are not asked about.
WatchedMutant(i) == {ifs[n].idx : n \in UpOf(ifs, i)} \ {0}

Watched(i) == {ifs[n].idx : n \in Interfaces(i)} \ {0}

RefreshStart(i) ==
  /\ loop[i].pc = "idle"
  /\ loop' = [loop EXCEPT ![i].pc = "dump", ![i].todo = Watched(i)]
  /\ UNCHANGED <<redist, ext, vpp, ifs, lsa, wired, started, task, events>>

RefreshDump(i) ==
  /\ loop[i].pc = "dump"
  /\ loop' = [loop EXCEPT ![i].pc = "addr",
                          ![i].up = {vpp[n].idx : n \in {m \in Names : Here(vpp, m) /\ vpp[m].up}}]
  /\ UNCHANGED <<redist, ext, vpp, ifs, lsa, wired, started, task, events>>

\* A dump that fails is taken for an empty one.
RefreshDumpFails(i) ==
  /\ loop[i].pc = "dump" /\ events < MaxEvents
  /\ events' = events + 1
  /\ loop' = [loop EXCEPT ![i].pc = "addr", ![i].up = {}]
  /\ UNCHANGED <<redist, ext, vpp, ifs, lsa, wired, started, task>>

RefreshAddress(i) ==
  /\ loop[i].pc = "addr"
  /\ \E x \in loop[i].todo :
       loop' = [loop EXCEPT ![i].todo = @ \ {x},
                            ![i].got = @ \cup {[idx |-> x, addr |-> AddressAt(x)]}]
  /\ UNCHANGED <<redist, ext, vpp, ifs, lsa, wired, started, task, events>>

\* refresh_interface_state for every snapshot; without an address the interface is down.
Refreshed(i) ==
  [n \in Names |->
     IF Owner[n] = i /\ \E g \in loop[i].got : g.idx = ifs[n].idx
     THEN LET g == CHOOSE h \in loop[i].got : h.idx = ifs[n].idx
          IN  [ifs[n] EXCEPT !.addr = g.addr, !.up = g.addr # NoAddr /\ g.idx \in loop[i].up]
     ELSE ifs[n]]

\* Mutant: a changed address is taken over without a new Router-LSA.
RefreshApplyMutant(i) ==
  /\ loop[i].pc = "addr" /\ loop[i].todo = {}
  /\ ifs' = Refreshed(i)
  /\ IF \E n \in Names : ifs'[n].up # ifs[n].up THEN Originate(ifs', redist, i) ELSE UNCHANGED lsa
  /\ loop' = [loop EXCEPT ![i] = IdleLoop]
  /\ UNCHANGED <<redist, ext, vpp, wired, started, task, events>>

RefreshApply(i) ==
  /\ loop[i].pc = "addr" /\ loop[i].todo = {}
  /\ ifs' = Refreshed(i)
  /\ IF ifs' # ifs THEN Originate(ifs', redist, i) ELSE UNCHANGED lsa
  /\ loop' = [loop EXCEPT ![i] = IdleLoop]
  /\ UNCHANGED <<redist, ext, vpp, wired, started, task, events>>

\* reload_config patches the settings of the interfaces it finds by name.
Patched(i, c) ==
  [n \in Names |-> IF Owner[n] = i THEN [ifs[n] EXCEPT !.set = c.set[n]] ELSE ifs[n]]

\* reload_config originates if a cost or a passive flag changed or the instance became or
\* stopped being an AS boundary router.
RouterLsaDirty(i, f, r) ==
  \/ \E n \in Names : f[n].set.cost # ifs[n].set.cost \/ f[n].set.passive # ifs[n].set.passive
  \/ (redist[i] = {}) # (r[i] = {})

\* The SIGHUP arm, taken while the loop awaits nothing else.  After reload_config,
\* which replaces the list of what is redistributed, refresh_external_lsas works from
\* the configuration of startup.
Reload(i) ==
  /\ loop[i].pc = "idle" /\ events < MaxEvents
  /\ events' = events + 1
  /\ \E c \in Configs :
       /\ ifs' = Patched(i, c)
       /\ redist' = [redist EXCEPT ![i] = c.redist]
  /\ IF RouterLsaDirty(i, ifs', redist') THEN Originate(ifs', redist', i) ELSE UNCHANGED lsa
  /\ ext' = [ext EXCEPT ![i] = Boot.redist]
  /\ UNCHANGED <<vpp, wired, started, task, loop>>
-----------------------------------------------------------------------------
\* build_v2_setup: an interface VPP has is resolved and brought up whatever its state,
\* with the address VPP gives it or else the configured one.
Resolved(v) ==
  [n \in Names |->
     [idx |-> v[n].idx, up |-> v[n].idx # 0, set |-> Boot.set[n],
      addr |-> IF v[n].addr = NoAddr THEN Configured ELSE v[n].addr]]

\* The union of the interfaces of every instance, and the map of the dispatcher.
WiredAtBoot(v) == [x \in Used(v) |-> Owner[CHOOSE n \in Names : v[n].idx = x]]

\* run_daemon goes on with what VPP has after a wait of 30 seconds; without any
\* resolved interface neither dispatcher nor enrollment task is spawned.
Init ==
  /\ vpp \in [Names -> {Absent} \cup {[idx |-> x, up |-> s.up, addr |-> s.addr] :
                                        x \in Indices, s \in VppStates}]
  /\ \A m, n \in Names : m # n /\ vpp[m].idx = vpp[n].idx => vpp[m].idx = 0
  /\ ifs = Resolved(vpp)
  /\ redist = [i \in Instances |-> Boot.redist] /\ ext = redist
  /\ lsa = [i \in Instances |-> Describe(ifs, redist, i)]
  /\ wired = WiredAtBoot(vpp)
  /\ started = (Used(vpp) # {})
  /\ task = IdleTask
  /\ loop = [i \in Instances |-> IdleLoop]
  /\ events = 0

Next ==
  \/ \E n \in Names : VppCreate(n) \/ VppDelete(n) \/ VppUpdate(n)
  \/ EnrollCollect \/ EnrollDump \/ EnrollDumpFails \/ EnrollSkip
  \/ EnrollAddress \/ EnrollCommit \/ EnrollWire
  \/ \E i \in Instances : RefreshStart(i) \/ RefreshDump(i) \/ RefreshDumpFails(i)
                          \/ RefreshAddress(i) \/ RefreshApply(i) \/ Reload(i)

Spec == Init /\ [][Next]_vars

\* Timers recur and awaited answers come.
Fairness ==
  /\ WF_vars(EnrollCollect) /\ WF_vars(EnrollDump) /\ WF_vars(EnrollSkip)
  /\ WF_vars(EnrollAddress) /\ WF_vars(EnrollCommit) /\ WF_vars(EnrollWire)
  /\ \A i \in Instances :
       /\ WF_vars(RefreshStart(i)) /\ WF_vars(RefreshDump(i))
       /\ WF_vars(RefreshAddress(i)) /\ WF_vars(RefreshApply(i))

FairSpec == Spec /\ Fairness
-----------------------------------------------------------------------------
\* Every variable has its type, and the enrollment task is at an interface exactly
\* while it brings one up.
TypeOK ==
  /\ vpp \in [Names -> [idx : Indices \cup {0}, up : BOOLEAN, addr : Addrs \cup {NoAddr}]]
  /\ ifs \in [Names -> [idx : Indices \cup {0}, up : BOOLEAN,
                        set : UNION {{c.set[n] : n \in Names} : c \in Configs},
                        addr : Addrs \cup {NoAddr, Configured}]]
  /\ DOMAIN wired \subseteq Indices /\ \A x \in DOMAIN wired : wired[x] \in Instances
  /\ task.pc \in {"idle", "dump", "each", "commit", "wire"} /\ task.todo \subseteq Names
  /\ (task.pc \in {"commit", "wire"}) = (task.cur # {})
  /\ \A i \in Instances : loop[i].pc \in {"idle", "dump", "addr"}

\* No two interfaces are resolved to the same index, and the index of a resolved interface
\* leads to the instance that owns it (or is about to), although the enrollment task acts
\* on what it learned under earlier locks.  It says nothing about an index VPP has given
\* to an interface that is not resolved: such an index may still lead to the instance of
\* the deleted interface that had it, for nothing is ever unwired.
OneInterfacePerIndex ==
  \A n \in Names : ifs[n].idx # 0 =>
    /\ \A m \in Names \ {n} : ifs[m].idx # ifs[n].idx
    /\ \/ ifs[n].idx \in DOMAIN wired /\ wired[ifs[n].idx] = Owner[n]
       \/ task.pc = "wire" /\ task.cur = {n}

\* Whatever the enrollment task, the refresh and a reload change, and in whatever
\* order, the Router-LSA in the database describes the interfaces as they are (unless
\* all of them are down, when the last one remains).
RouterLsaCurrent ==
  \A i \in Instances : UpOf(ifs, i) # {} => lsa[i] = Describe(ifs, redist, i)

\* The interface follows VPP, or cannot: it has the index of an earlier incarnation,
\* or its index is wired for another one.
Settled(n) ==
  \/ ~Here(vpp, n)
  \/ ifs[n].idx \notin {0, vpp[n].idx}
  \/ ifs[n].idx = 0 /\ vpp[n].idx \in DOMAIN wired
  \/ /\ ifs[n].idx = vpp[n].idx
     /\ ifs[n].addr = vpp[n].addr
     /\ ifs[n].up = (vpp[n].up /\ vpp[n].addr # NoAddr)

\* When VPP stops changing, every interface comes to agree with it: a late one is
\* enrolled, and a state taken from an old snapshot is corrected (if some interface
\* was there at boot).
FollowsVpp == started => <>[](\A n \in Names : Settled(n))

\* What is redistributed is what the configuration in force says ("`redistribute` and
\* `summary_addresses` are replaced wholesale", README.md).
RedistributeFollows == \A i \in Instances : ext[i] = redist[i]
=============================================================================
