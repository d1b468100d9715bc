----------------------------- MODULE LsaRefresh -----------------------------
(***************************************************************************)
(* How the LSAs a router originates stay alive over the hours: aging       *)
(* (LsdbEntry::current_age), the 30 s lsdb_tick arm of run_v2_instance     *)
(* with periodic_maintenance, the re-discovery of redistributed prefixes   *)
(* (refresh_external_lsas, originate_external_lsas), and the copies a      *)
(* fully adjacent router keeps.                                            *)
(* Source: src/src/lsdb.rs, src/src/instance.rs, src/src/main.rs.          *)
(*                                                                         *)
(* "own" is the router, the DR of its segment, and "peer" its neighbor.    *)
(* The LSAs are one of each kind the router originates: its Router-LSA     *)
(* and Network-LSA, the Type 5 of a connected prefix and of the default    *)
(* route.  One unit of time is one lsdb_tick interval; packets arrive      *)
(* within it.                                                              *)
(***************************************************************************)
EXTENDS Lsdb, Sequences

CONSTANTS
    RefreshTime,  \* LS_REFRESH_TIME, 60 intervals in the code
    U16Mod,       \* elapsed seconds are truncated to 16 bits
    Redistribute, \* is "connected" redistribution configured?
    Changes,      \* bound: how often VPP changes or fails to answer
    News          \* bound: how often neighbors, interfaces or settings change

Routers  == {"own", "peer"}
AreaKeys == {"router", "network"}
ExtKeys  == {"connected", "default"}
Keys     == AreaKeys \cup ExtKeys

ASSUME RefreshAssumption ==
    /\ RefreshTime \in Nat
    /\ RefreshTime + 1 < MaxAge
    /\ U16Mod \in Nat
    /\ MaxAge < U16Mod
    /\ Redistribute \in BOOLEAN
    /\ Changes \in Nat
    /\ News \in Nat
    /\ "lsa" \in Bodies

VARIABLES
    db,      \* db[r]: area and AS-external database of router r
    since,   \* since[r][k]: intervals since r installed its instance of k
    due,     \* due[r]: lsdb_tick has elapsed at r and was not handled yet
    ext,     \* refresh_external_lsas is to run at own
    chan,    \* chan[r]: LSAs on their way to r
    prefix,  \* has VPP the connected prefix?
    changes, \* changes of VPP that may still happen
    news,    \* changes of the links that may still happen
    told     \* history: the Router-LSA own has now was sent to the neighbor

vars == <<db, since, due, ext, chan, prefix, changes, news, told>>

-----------------------------------------------------------------------------
(* Aging.                                                                  *)

Aged(lsa, elapsed) ==
    IF lsa.age + (elapsed % U16Mod) < MaxAge THEN lsa.age + (elapsed % U16Mod) ELSE MaxAge

CurrentAge(r, k) == Aged(db[r][k], since[r][k])

Live(r, k) == db[r][k] # NoLsa /\ CurrentAge(r, k) < MaxAge

\* Mutant: only the area databases are looked at.
NeedsRefreshAreaOnly(r, k) ==
    r = "own" /\ k \in AreaKeys /\ db[r][k] # NoLsa /\ CurrentAge(r, k) >= RefreshTime

\* LsdbEntry::needs_refresh; every LSA here is self-originated at own.
NeedsRefresh(r, k) ==
    r = "own" /\ db[r][k] # NoLsa /\ CurrentAge(r, k) >= RefreshTime

-----------------------------------------------------------------------------
(* A database and its clock, changed together.                             *)

\* The clocks of r after its database changed from db[r] to d: install stamps
\* what it replaces.
Stamped(r, d) == [k \in Keys |-> IF d[k] = db[r][k] THEN since[r][k] ELSE 0]

Set(r, d) ==
    /\ db' = [db EXCEPT ![r] = d]
    /\ since' = [since EXCEPT ![r] = Stamped(r, d)]

Other(r) == IF r = "own" THEN "peer" ELSE "own"

Item(k, lsa) == [key |-> k, lsa |-> Encode(lsa)]

\* Mutant: re-originated and not flooded.
FloodNothing(items) == UNCHANGED chan

\* flood_lsas_to_others on the link to the neighbor.
Flood(items) == chan' = [chan EXCEPT !["peer"] = @ \o items]

\* What that makes of the history.
Tell(items) ==
    told' = \/ \E i \in DOMAIN items : items[i] = Item("router", db'["own"]["router"])
            \/ told /\ db'["own"]["router"] = db["own"]["router"]

\* Re-origination of the LSAs in a set of keys.
Renew(d, ks) ==
    [k \in Keys |-> IF k \in ks THEN Originate(d, k, "lsa")[k] ELSE d[k]]

Fresh(d, k) == Item(k, Originated(d, k, "lsa"))

-----------------------------------------------------------------------------
(* The lsdb_tick arm.                                                      *)

\* Flushing: entries at MaxAge leave the database.  An entry of d that was
\* just renewed is new.
Purge(r, d) ==
    [k \in Keys |->
        IF d[k] # NoLsa /\ Aged(d[k], Stamped(r, d)[k]) >= MaxAge THEN NoLsa ELSE d[k]]

\* If any area LSA of ours is due, every Router-LSA is originated again, and
\* nothing else.
RefreshArea(d) ==
    IF \E k \in AreaKeys : NeedsRefresh("own", k) THEN Renew(d, {"router"}) ELSE d

\* periodic_maintenance, then as_external_refresh_due under the same lock.
OwnTick ==
    LET d == RefreshArea(db["own"])
        p == Purge("own", d)
        items == IF d # db["own"] THEN <<Item("router", d["router"])>> ELSE <<>>
    IN  /\ due["own"]
        /\ due' = [due EXCEPT !["own"] = FALSE]
        /\ Set("own", p)
        /\ Flood(items) /\ Tell(items)
        /\ ext' = \E k \in ExtKeys : p[k] # NoLsa /\ NeedsRefresh("own", k)
        /\ UNCHANGED <<prefix, changes, news>>

PeerTick ==
    /\ due["peer"]
    /\ due' = [due EXCEPT !["peer"] = FALSE]
    /\ Set("peer", Purge("peer", db["peer"]))
    /\ UNCHANGED <<ext, chan, prefix, changes, news, told>>

-----------------------------------------------------------------------------
(* Redistribution.                                                         *)

\* flush_self_externals_outside: a MaxAge instance replaces the LSA in our
\* own database; nobody is told.
Flushed(d, keep) ==
    [k \in Keys |->
        IF k \in ExtKeys \ keep /\ Live("own", k)
        THEN Install(d, k, Encode([d[k] EXCEPT !.age = MaxAge, !.seq = WrappingSucc(@)]))[k]
        ELSE d[k]]

\* originate_external_lsas for the prefixes found in VPP.
Externals(found) ==
    LET kept == IF found THEN {"connected"} ELSE {}
        d    == IF Redistribute THEN Flushed(db["own"], kept \cup {"default"})
                ELSE Flushed(db["own"], {})
        new  == IF Redistribute THEN kept ELSE {}
    IN  /\ Set("own", Renew(d, new))
        /\ Flood(IF "connected" \in new THEN <<Fresh(d, "connected")>> ELSE <<>>)

\* refresh_external_lsas of the lsdb_tick arm.  The arm is still running, so
\* no other arm of this loop comes between.
RefreshExternals ==
    /\ ext
    /\ ext' = FALSE
    /\ Externals(prefix)
    /\ UNCHANGED <<due, prefix, changes, news, told>>

\* The VPP dump fails: unwrap_or_default makes that an empty answer.
RefreshUnanswered ==
    /\ ext /\ changes > 0
    /\ ext' = FALSE
    /\ changes' = changes - 1
    /\ Externals(FALSE)
    /\ UNCHANGED <<due, prefix, news, told>>

\* The prefix is added to or removed from VPP and SIGHUP follows; the
\* configuration itself did not change.
PrefixChanges ==
    /\ changes > 0 /\ ~ext
    /\ prefix' = ~prefix
    /\ changes' = changes - 1
    /\ ext' = TRUE
    /\ UNCHANGED <<db, since, due, chan, news, told>>

-----------------------------------------------------------------------------
(* The rest of the router and its neighbor.                                *)

\* A neighbor reaches Full: Router-LSA and, as DR, Network-LSA.
NeighborReachesFull ==
    LET items == <<Fresh(db["own"], "router"), Fresh(db["own"], "network")>>
    IN  /\ ~ext /\ news > 0
        /\ news' = news - 1
        /\ Set("own", Renew(db["own"], AreaKeys))
        /\ Flood(items) /\ Tell(items)
        /\ UNCHANGED <<due, ext, prefix, changes>>

\* A neighbor expires (the neighbor_check arm), an interface changes (iface_refresh), is
\* enrolled (enrollment_task, which runs beside the loop) or gets other settings
\* (reload_config): the Router-LSA is originated, and nobody sends it.
OriginateUnsent ==
    /\ news > 0
    /\ news' = news - 1
    /\ Set("own", Renew(db["own"], {"router"}))
    /\ Tell(<<>>)
    /\ UNCHANGED <<due, ext, chan, prefix, changes>>

\* process_lsu, for the oldest LSA on its way to r: what is older than ours
\* is answered with ours, from the area database only.
Receive(r) ==
    /\ chan[r] # <<>>
    /\ LET h     == Head(chan[r])
           older == InstallResult(db[r], h.key, h.lsa) = "Older"
           back  == IF older /\ h.key \in AreaKeys THEN <<Item(h.key, db[r][h.key])>> ELSE <<>>
       IN  /\ Set(r, Install(db[r], h.key, h.lsa))
           /\ chan' = [chan EXCEPT ![r] = Tail(@), ![Other(r)] = @ \o back]
    /\ UNCHANGED <<due, ext, prefix, changes, news, told>>

Quiet == chan = [r \in Routers |-> <<>>]

\* Bound: no LSA has used up its sequence numbers.
Room == \A r \in Routers, k \in Keys : db[r][k] # NoLsa => db[r][k].seq < MaxSeq

\* One interval passes.
TimePasses ==
    /\ Quiet /\ ~ext /\ Room
    /\ \A r \in Routers : ~due[r]
    /\ since' = [r \in Routers |-> [k \in Keys |->
                    IF db[r][k] # NoLsa THEN since[r][k] + 1 ELSE since[r][k]]]
    /\ due' = [r \in Routers |-> TRUE]
    /\ UNCHANGED <<db, ext, chan, prefix, changes, news, told>>

\* The bound is reached: nothing more is asked of this behaviour.
OutOfNumbers == ~Room /\ UNCHANGED vars

-----------------------------------------------------------------------------
FirstInstance == Encode([seq |-> InitialSequenceNumber, ck |-> 0, age |-> 0, body |-> "lsa"])

\* The adjacency has just become Full and both hold what own originated.
Init ==
    /\ db = [r \in Routers |-> [k \in Keys |->
                IF k = "connected" /\ ~Redistribute THEN NoLsa ELSE FirstInstance]]
    /\ since = [r \in Routers |-> [k \in Keys |-> 0]]
    /\ due = [r \in Routers |-> FALSE]
    /\ ext = FALSE
    /\ chan = [r \in Routers |-> <<>>]
    /\ prefix = TRUE
    /\ changes = Changes
    /\ news = News
    /\ told = TRUE

Next ==
    \/ OwnTick \/ PeerTick
    \/ RefreshExternals \/ RefreshUnanswered \/ PrefixChanges
    \/ NeighborReachesFull \/ OriginateUnsent
    \/ \E r \in Routers : Receive(r)
    \/ TimePasses \/ OutOfNumbers

Spec == Init /\ [][Next]_vars

-----------------------------------------------------------------------------
(* Properties.                                                             *)

\* Every variable has the type its comment gives it.
TypeOK ==
    /\ db \in [Routers -> [Keys -> Lsa \cup {NoLsa}]]
    /\ since \in [Routers -> [Keys -> Nat]]
    /\ due \in [Routers -> BOOLEAN]
    /\ ext \in BOOLEAN
    /\ chan \in [Routers -> Seq([key : Keys, lsa : Lsa])]
    /\ prefix \in BOOLEAN
    /\ changes \in Nat
    /\ news \in Nat
    /\ told \in BOOLEAN

\* Once nothing is in flight the neighbor holds a live Router-LSA of ours, if the one we
\* have was sent: the refresh of periodic_maintenance comes in time, whenever neighbors
\* reached Full and whatever the neighbor had timed out before.  What is originated and
\* not sent restarts our clock and not the neighbor's, which may time its copy out.
PeerHoldsRouterLsa == Quiet /\ told => Live("peer", "router")

\* "Re-originate in every area we participate in so cost/passive changes propagate"
\* (reload_config): once nothing is in flight the neighbor has the Router-LSA we have.
RouterLsaPropagates == Quiet => db["peer"]["router"] = db["own"]["router"]

\* As long as VPP answered and did not change, the redistributed prefix stays
\* alive here and at the neighbor, whatever happens to the links (refresh_external_lsas).
ConnectedSurvives ==
    Redistribute /\ changes = Changes => Live("own", "connected") /\ (Quiet => Live("peer", "connected"))

\* "Refresh self-originated LSAs that have aged past LSRefreshTime (across all
\* areas)" (periodic_maintenance): no area LSA of ours expires.
AreaLsasRefreshed == \A k \in AreaKeys : Live("own", k)
=============================================================================
