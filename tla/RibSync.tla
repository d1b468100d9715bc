------------------------------ MODULE RibSync ------------------------------
(***************************************************************************)
(* From a change of the database to the routes ribd holds: what makes an   *)
(* instance run SPF, the route cache (rib.rs, rib_v3.rs), the push of one  *)
(* Bulk per route kind with a single reconnect (rib_client.rs), and the    *)
(* withdrawal at shutdown.  One instance, of either protocol version.      *)
(*                                                                         *)
(* The instance's event loop is one task: while it awaits a Bulk it serves *)
(* nothing else.  Only the enrollment task of version 2 changes the        *)
(* instance meanwhile.  ribd is external: it keeps the routes of each kind *)
(* until a Bulk replaces them, and starts empty.                           *)
(***************************************************************************)
EXTENDS Naturals, FiniteSets, Sequences

CONSTANTS
  Neighbors,
  Databases,       \* what the link state database may say
  RoutesOf(_, _),  \* the SPF output for a database and a set of neighbors: records
                   \* with fields prefix, kind, cost and hops
  MaxChanges,      \* bound on the changes to the database and the neighbors
  MaxFaults        \* bound on the failures of ribd and of the connection

ASSUME RibAssumption ==
  /\ MaxChanges \in Nat /\ MaxFaults \in Nat
  /\ IsFiniteSet(Neighbors)

VARIABLES
  ver,        \* "v2" or "v3"
  db, nbrs,   \* the database, and the neighbors SPF may use as next hops
  due,        \* version 2: spf_scheduled is set
  bumped,     \* version 3: generation # last_lsdb_generation
  lastCount,  \* version 3: last_neighbor_count
  force,      \* version 3: force_spf
  dirty,      \* version 3: neighbors on whose interface needs_router_lsa_refresh is set
  batch,      \* the routes of the last SPF run, or of the withdrawal
  cache,      \* OspfRib.installed
  next,       \* number of the Bulk to push next, 0 if no push is under way
  result,     \* how the last push ended
  conn,       \* "none", "live" or "dead" (open here, gone at the other end)
  ribdUp, held,
  lost,       \* ribd has stopped since the last push began
  mode,       \* "running", "closing", "stopped"
  changes, faults

loopVars == <<due, bumped, lastCount, force, dirty>>
pushVars == <<batch, cache, next, result>>
ribdVars == <<conn, ribdUp, held, lost>>
vars == <<ver, db, nbrs, loopVars, pushVars, ribdVars, mode, changes, faults>>

Kinds == <<"Intra", "Inter", "External1", "External2">>
OfKind(routes, k) == {r \in routes : r.kind = Kinds[k]}
Split(routes) == [k \in 1..4 |-> OfKind(routes, k)]
Current == RoutesOf(db, nbrs)

\* apply_routes: the lowest cost wins whatever the kind; at equal cost the first one
\* of the list stays (version 2), or the next hops are merged (version 3).
Cheapest(routes, p) ==
  {r \in routes : r.prefix = p /\ \A q \in routes : q.prefix = p => r.cost <= q.cost}
Entry(p, cost, hops) == [prefix |-> p, cost |-> cost, hops |-> hops]

ApplyRoutesV2(routes) ==
  \E best \in [{r.prefix : r \in routes} -> routes] :
    /\ \A p \in DOMAIN best : best[p] \in Cheapest(routes, p)
    /\ cache' = {Entry(p, best[p].cost, best[p].hops) : p \in DOMAIN best}

ApplyRoutesV3(routes) ==
  cache' = {Entry(r.prefix, r.cost, UNION {q.hops : q \in Cheapest(routes, r.prefix)}) :
              r \in {q \in routes : q \in Cheapest(routes, q.prefix)}}

Idle == mode = "running" /\ next = 0
-----------------------------------------------------------------------------
(***************************************************************************)
(* What the packets and timers of the instance change.  Version 2          *)
(* schedules SPF except for Type 4 and 5 LSAs that arrive; version 3 bumps *)
(* the generation with every new instance of an LSA.                       *)
(***************************************************************************)
Change ==
  /\ Idle /\ changes < MaxChanges
  /\ changes' = changes + 1
  /\ UNCHANGED <<ver, lastCount, force, pushVars, ribdVars, mode, faults>>

LsaV2 ==
  /\ ver = "v2" /\ Change
  /\ \E d \in Databases \ {db} : db' = d
  /\ due' \in {TRUE, due}
  /\ UNCHANGED <<nbrs, bumped, dirty>>

LsaV3 ==
  /\ ver = "v3" /\ Change
  /\ \E d \in Databases \ {db} : db' = d
  /\ bumped' = TRUE
  /\ UNCHANGED <<nbrs, due, dirty>>

NeighborV2 ==
  /\ ver = "v2" /\ Change
  /\ \E n \in Neighbors : nbrs' = IF n \in nbrs THEN nbrs \ {n} ELSE nbrs \cup {n}
  /\ due' = TRUE
  /\ UNCHANGED <<db, bumped, dirty>>

\* Mutant: the Router-LSA is not marked when a neighbor becomes Full.
FullV3Mutant(n) ==
  /\ nbrs' = nbrs \cup {n}
  /\ UNCHANGED dirty

FullV3(n) ==
  /\ nbrs' = nbrs \cup {n}
  /\ dirty' = dirty \cup {n}

\* expire_neighbors marks nothing.
ExpireV3(n) ==
  /\ nbrs' = nbrs \ {n}
  /\ UNCHANGED dirty

NeighborV3 ==
  /\ ver = "v3" /\ Change
  /\ \/ \E n \in Neighbors \ nbrs : FullV3(n)
     \/ \E n \in nbrs : ExpireV3(n)
  /\ UNCHANGED <<db, due, bumped>>

\* expire_tick: refresh_router_lsa_if_needed stops at the first mark it finds, clears
\* it and originates anew.
RouterLsaV3 ==
  /\ ver = "v3" /\ Idle
  /\ \E i \in dirty : dirty' = dirty \ {i}
  /\ bumped' = TRUE
  /\ UNCHANGED <<ver, db, nbrs, due, lastCount, force, pushVars, ribdVars, mode, changes, faults>>

\* iface_refresh of version 3: an interface or its addresses changed.
IfaceRefreshV3 ==
  /\ ver = "v3" /\ Idle /\ changes < MaxChanges
  /\ changes' = changes + 1
  /\ \E d \in Databases : db' = d
  /\ nbrs' \in SUBSET nbrs
  /\ \E i \in Neighbors : dirty' = (dirty \cup (nbrs \ nbrs')) \ {i}
  /\ bumped' = TRUE /\ force' = TRUE
  /\ UNCHANGED <<ver, due, lastCount, pushVars, ribdVars, mode, faults>>

\* The enrollment task, also while the event loop awaits ribd.
EnrollmentV2 ==
  /\ ver = "v2" /\ mode = "running" /\ changes < MaxChanges
  /\ changes' = changes + 1
  /\ \E d \in Databases \ {db} : db' = d
  /\ due' = TRUE
  /\ UNCHANGED <<ver, nbrs, bumped, lastCount, force, dirty, pushVars, ribdVars, mode, faults>>
-----------------------------------------------------------------------------
(***************************************************************************)
(* Running SPF: the marks are cleared before anything is pushed.           *)
(***************************************************************************)
StartPush(routes) ==
  /\ batch' = routes
  /\ next' = 1
  /\ result' = "none" /\ lost' = FALSE
  /\ UNCHANGED <<conn, ribdUp, held>>

RunSpfV2 ==
  /\ ver = "v2" /\ Idle /\ due
  /\ due' = FALSE
  /\ ApplyRoutesV2(Current)
  /\ StartPush(Current)
  /\ UNCHANGED <<ver, db, nbrs, bumped, lastCount, force, dirty, mode, changes, faults>>

\* Mutant: the number of neighbors is not compared.
NeededMutant == force \/ bumped

Needed == force \/ bumped \/ Cardinality(nbrs) # lastCount

\* The generation is read after originate_inter_area_prefix_lsas, under the lock.
SpfTickV3 ==
  /\ ver = "v3" /\ Idle /\ Needed
  /\ force' = FALSE /\ bumped' = FALSE /\ lastCount' = Cardinality(nbrs)
  /\ ApplyRoutesV3(Current)
  /\ StartPush(Current)
  /\ UNCHANGED <<ver, db, nbrs, due, dirty, mode, changes, faults>>
-----------------------------------------------------------------------------
(***************************************************************************)
(* The push.  Each step is one push_bulk: over the connection if it works, *)
(* after one reconnect if it does not; a second failure ends the push.     *)
(***************************************************************************)
\* Mutant: no Bulk is sent for a kind without routes.
StoreMutant(k) == IF OfKind(batch, k) = {} THEN held' = held
                  ELSE held' = [held EXCEPT ![k] = OfKind(batch, k)]

Store(k) == held' = [held EXCEPT ![k] = OfKind(batch, k)]

EndPush(r) ==
  /\ next' = 0 /\ result' = r
  /\ IF mode = "closing" THEN mode' = "stopped" /\ cache' = {} ELSE UNCHANGED <<mode, cache>>

\* Mutant: one Bulk too many.
LastBulkMutant == next = 5

LastBulk == next = 4

Bulk ==
  /\ next > 0 /\ ribdUp
  /\ conn' = "live"
  /\ Store(next)
  /\ IF LastBulk THEN EndPush("ok") ELSE next' = next + 1 /\ UNCHANGED <<result, mode, cache>>
  /\ UNCHANGED <<ver, db, nbrs, loopVars, batch, ribdUp, lost, changes, faults>>

BulkFails ==
  /\ next > 0 /\ ~ribdUp
  /\ conn' = "none"
  /\ EndPush("failed")
  /\ UNCHANGED <<ver, db, nbrs, loopVars, batch, ribdUp, held, lost, changes, faults>>

\* The connection made for the retry breaks before the retried Bulk is through.
RetryFails ==
  /\ next > 0 /\ conn # "live" /\ ribdUp /\ faults < MaxFaults
  /\ faults' = faults + 1
  /\ conn' = "dead"
  /\ EndPush("failed")
  /\ UNCHANGED <<ver, db, nbrs, loopVars, batch, ribdUp, held, lost, changes>>
-----------------------------------------------------------------------------
RibdStops ==
  /\ ribdUp /\ faults < MaxFaults
  /\ faults' = faults + 1
  /\ ribdUp' = FALSE /\ held' = [k \in 1..4 |-> {}] /\ lost' = TRUE
  /\ conn' = IF conn = "live" THEN "dead" ELSE conn
  /\ UNCHANGED <<ver, db, nbrs, loopVars, pushVars, mode, changes>>

RibdStarts ==
  /\ ~ribdUp
  /\ ribdUp' = TRUE
  /\ UNCHANGED <<ver, db, nbrs, loopVars, pushVars, conn, held, lost, mode, changes, faults>>

ConnectionBreaks ==
  /\ conn = "live" /\ faults < MaxFaults
  /\ faults' = faults + 1
  /\ conn' = "dead"
  /\ UNCHANGED <<ver, db, nbrs, loopVars, pushVars, ribdUp, held, lost, mode, changes>>

\* withdraw_v4 once the event loop has ended.
ShutdownV2 ==
  /\ ver = "v2" /\ Idle
  /\ mode' = "closing"
  /\ StartPush({})
  /\ UNCHANGED <<ver, db, nbrs, loopVars, cache, changes, faults>>

\* The version 3 task ends with the process, wherever it is, and withdraws nothing.
ExitV3 ==
  /\ ver = "v3" /\ mode = "running"
  /\ mode' = "stopped"
  /\ next' = 0 /\ result' = "none"
  /\ UNCHANGED <<ver, db, nbrs, loopVars, batch, cache, ribdVars, changes, faults>>
-----------------------------------------------------------------------------
Init ==
  /\ ver \in {"v2", "v3"}
  /\ db \in Databases /\ nbrs = {}
  /\ due = (ver = "v2") /\ bumped = (ver = "v3")
  /\ lastCount = 0 /\ force = FALSE /\ dirty = {}
  /\ batch = {} /\ cache = {} /\ next = 0 /\ result = "none"
  /\ ribdUp \in BOOLEAN /\ conn = (IF ribdUp THEN "live" ELSE "none")
  /\ held = [k \in 1..4 |-> {}] /\ lost = FALSE
  /\ mode = "running" /\ changes = 0 /\ faults = 0

Next ==
  \/ LsaV2 \/ LsaV3 \/ NeighborV2 \/ NeighborV3 \/ RouterLsaV3 \/ IfaceRefreshV3 \/ EnrollmentV2
  \/ RunSpfV2 \/ SpfTickV3 \/ Bulk \/ BulkFails \/ RetryFails
  \/ RibdStops \/ RibdStarts \/ ConnectionBreaks \/ ShutdownV2 \/ ExitV3

\* The event loop serves its timers, and a Bulk ends in an answer or in the 5 seconds
\* of connect_with_retry.  Nothing is assumed of ribd.
Fairness ==
  /\ WF_vars(Bulk) /\ WF_vars(BulkFails) /\ WF_vars(RunSpfV2) /\ WF_vars(SpfTickV3)
  /\ WF_vars(RouterLsaV3)

Spec == Init /\ [][Next]_vars
FairSpec == Spec /\ Fairness
-----------------------------------------------------------------------------
\* Every variable has its type; a connection that works has a ribd at its end, and an
\* instance that closes is withdrawing.
TypeOK ==
  /\ ver \in {"v2", "v3"} /\ mode \in {"running", "closing", "stopped"}
  /\ db \in Databases /\ nbrs \subseteq Neighbors /\ dirty \subseteq Neighbors
  /\ due \in BOOLEAN /\ bumped \in BOOLEAN /\ force \in BOOLEAN
  /\ ribdUp \in BOOLEAN /\ lost \in BOOLEAN
  /\ next \in 0..4 /\ result \in {"none", "ok", "failed"}
  /\ conn \in {"none", "live", "dead"} /\ (conn = "live" => ribdUp)
  /\ lastCount \in 0..Cardinality(Neighbors)
  /\ changes \in 0..MaxChanges /\ faults \in 0..MaxFaults
  /\ DOMAIN held = 1..4 /\ (mode = "closing" => next > 0)

\* After a push that succeeded ribd holds the routes of that SPF run and no others,
\* whatever earlier pushes left behind half way; after a withdrawal at shutdown it
\* holds none.  (Unless ribd itself was restarted since the push began: the Bulks
\* sent before the restart are not repeated, though the push reports success.)
PushedIsHeld ==
  next = 0 /\ result = "ok" /\ ~lost => held = Split(batch)

\* While the loop of version 3 waits, routes other than those of the last SPF run
\* are not forgotten: a mark remains that makes a tick run SPF again.  The tick
\* compares only the number of Full neighbors: one lost and one gained between two
\* ticks leave it as it was, and the pending Router-LSA makes up for it.
ChangeIsNoticed ==
  ver = "v3" /\ Idle /\ Current # batch =>
    force \/ bumped \/ dirty # {} \/ Cardinality(nbrs) # lastCount

\* Version 3 with a ribd that does not fail: what the database says comes to be what
\* ribd holds, and stays so.
Converges ==
  ver = "v3" /\ [](ribdUp /\ faults = 0 /\ mode = "running") => <>[](held = Split(Current))
=============================================================================
