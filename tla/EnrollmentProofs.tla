-------------------------- MODULE EnrollmentProofs --------------------------
(***************************************************************************)
(* Proofs about Enrollment, for every set of interfaces, instances and     *)
(* indices, whatever VPP and the configurations say and however often they *)
(* change.                                                                 *)
(*                                                                         *)
(* OneInterfacePerIndex is not inductive: that a commit gives no index     *)
(* away twice rests on what the enrollment task found out earlier, under   *)
(* other locks, still being true (Enrolling): the interface it works on is *)
(* unresolved, and its index is not wired.                                 *)
(***************************************************************************)
EXTENDS Enrollment, TLAPS

Setting == UNION {{c.set[n] : n \in Names} : c \in Configs}
Interface ==
  [idx : Indices \cup {0}, up : BOOLEAN, set : Setting, addr : Addrs \cup {NoAddr, Configured}]
VppInterface == [idx : Indices \cup {0}, up : BOOLEAN, addr : Addrs \cup {NoAddr}]
Task ==
  [pc : {"idle", "dump", "each", "commit", "wire"}, todo : SUBSET Names,
   snap : [Names -> Indices \cup {0}], cur : SUBSET Names, addr : Addrs \cup {NoAddr}]
Answer == [idx : Indices, addr : Addrs \cup {NoAddr}]
Loop ==
  [pc : {"idle", "dump", "addr"}, todo : SUBSET Indices, up : SUBSET (Indices \cup {0}),
   got : SUBSET Answer]

\* The types in full: TypeOK leaves out the fields no property looks at.
TypeInv ==
  /\ vpp \in [Names -> VppInterface]
  /\ ifs \in [Names -> Interface]
  /\ DOMAIN wired \subseteq Indices /\ \A x \in DOMAIN wired : wired[x] \in Instances
  /\ task \in Task
  /\ loop \in [Instances -> Loop]
  /\ DOMAIN redist = Instances
  /\ DOMAIN lsa = Instances

\* What the enrollment task found out holds until it has acted on it.
Enrolling ==
  /\ task.pc \in {"commit", "wire"} =>
       \E n \in Names :
         /\ task.cur = {n} /\ n \notin task.todo
         /\ task.snap[n] # 0 /\ task.snap[n] \notin DOMAIN wired
         /\ ifs[n].idx = IF task.pc = "wire" THEN task.snap[n] ELSE 0
  /\ task.pc \notin {"commit", "wire"} => task.cur = {}
  /\ \A n \in task.todo : ifs[n].idx = 0

IInv == TypeInv /\ Enrolling /\ OneInterfacePerIndex /\ RouterLsaCurrent
-----------------------------------------------------------------------------

\* VPP answers with an address or none, whichever interface has the index by now.
LEMMA AddressType ==
  ASSUME TypeInv, NEW x
  PROVE  AddressAt(x) \in Addrs \cup {NoAddr}
<1>. DEFINE owners == {n \in Names : vpp[n].idx = x}
<1>1. CASE owners = {}
  BY <1>1 DEF AddressAt
<1>2. CASE owners # {}
  <2>1. (CHOOSE n \in owners : TRUE) \in owners
    BY <1>2
  <2>. QED
    BY <1>2, <2>1 DEF AddressAt, TypeInv, VppInterface
<1>. QED
  BY <1>1, <1>2

\* A refresh takes over address and state; index and settings stay.
LEMMA RefreshedType ==
  ASSUME TypeInv, NEW i \in Instances
  PROVE  /\ Refreshed(i) \in [Names -> Interface]
         /\ \A n \in Names : /\ Refreshed(i)[n].idx = ifs[n].idx
                             /\ Owner[n] # i => Refreshed(i)[n] = ifs[n]
<1>. SUFFICES ASSUME NEW n \in Names
              PROVE  /\ Refreshed(i)[n] \in Interface
                     /\ Refreshed(i)[n].idx = ifs[n].idx
                     /\ Owner[n] # i => Refreshed(i)[n] = ifs[n]
  BY DEF Refreshed
<1>. DEFINE found == Owner[n] = i /\ \E g \in loop[i].got : g.idx = ifs[n].idx
            g == CHOOSE h \in loop[i].got : h.idx = ifs[n].idx
            new == [ifs[n] EXCEPT !.addr = g.addr, !.up = g.addr # NoAddr /\ g.idx \in loop[i].up]
<1>1. Refreshed(i)[n] = IF found THEN new ELSE ifs[n]
  BY DEF Refreshed
<1>2. ifs[n] \in Interface
  BY DEF TypeInv
<1>3. ASSUME found
      PROVE  new \in Interface /\ new.idx = ifs[n].idx
  <2>1. g \in loop[i].got
    BY <1>3
  <2>2. loop[i].got \subseteq Answer
    BY DEF TypeInv, Loop
  <2>3. g.addr \in Addrs \cup {NoAddr, Configured}
    BY <2>1, <2>2 DEF Answer
  <2>4. (g.addr # NoAddr /\ g.idx \in loop[i].up) \in BOOLEAN
    OBVIOUS
  <2>. HIDE DEF g
  <2>. QED
    BY <1>2, <2>3, <2>4 DEF Interface
<1>. HIDE DEF new
<1>. QED
  BY <1>1, <1>2, <1>3

\* A reload takes over settings; index, state and address stay.
LEMMA PatchedType ==
  ASSUME TypeInv, NEW i \in Instances, NEW c \in Configs
  PROVE  /\ Patched(i, c) \in [Names -> Interface]
         /\ \A n \in Names : /\ Patched(i, c)[n].idx = ifs[n].idx
                             /\ Patched(i, c)[n].up = ifs[n].up
                             /\ Patched(i, c)[n].addr = ifs[n].addr
                             /\ Owner[n] # i => Patched(i, c)[n] = ifs[n]
<1>1. \A n \in Names : c.set[n] \in Setting
  BY DEF Setting
<1>2. \A n \in Names : ifs[n] \in Interface
  BY DEF TypeInv
<1>. QED
  BY <1>1, <1>2 DEF Patched, Interface

\* The Router-LSA of an instance depends on its own interfaces and on whether it
\* redistributes anything.
LEMMA DescribeLocal ==
  ASSUME NEW f, NEW g, NEW r, NEW q, NEW i \in Instances,
         \A n \in Names : Owner[n] = i => /\ f[n].up = g[n].up
                                          /\ f[n].addr = g[n].addr
                                          /\ f[n].set.cost = g[n].set.cost,
         (r[i] = {}) = (q[i] = {})
  PROVE  UpOf(f, i) = UpOf(g, i) /\ Describe(f, r, i) = Describe(g, q, i)
<1>1. UpOf(f, i) = UpOf(g, i)
  BY DEF UpOf, Interfaces
<1>2. \A n \in UpOf(f, i) : [name |-> n, addr |-> f[n].addr, cost |-> f[n].set.cost]
                              = [name |-> n, addr |-> g[n].addr, cost |-> g[n].set.cost]
  BY DEF UpOf, Interfaces
<1>3. {[name |-> n, addr |-> f[n].addr, cost |-> f[n].set.cost] : n \in UpOf(f, i)}
        = {[name |-> n, addr |-> g[n].addr, cost |-> g[n].set.cost] : n \in UpOf(g, i)}
  BY <1>1, <1>2
<1>4. (r[i] # {}) = (q[i] # {})
  OBVIOUS
<1>. QED
  BY <1>1, <1>3, <1>4 DEF Describe
-----------------------------------------------------------------------------
\* Boot: indices are distinct because VPP's are, and each is wired to its owner.
LEMMA InitInv == Init => IInv
<1>. SUFFICES ASSUME Init PROVE IInv
  OBVIOUS
<1>. USE EnrollmentAssumption DEF Init
<1>1. vpp \in [Names -> VppInterface]
  <2>1. Absent \in VppInterface
    BY DEF Absent, VppInterface
  <2>2. \A x \in Indices, s \in VppStates :
          [idx |-> x, up |-> s.up, addr |-> s.addr] \in VppInterface
    BY DEF VppInterface
  <2>. DEFINE S == {Absent} \cup {[idx |-> x, up |-> s.up, addr |-> s.addr] :
                                     x \in Indices, s \in VppStates}
  <2>3. S \subseteq VppInterface
    BY <2>1, <2>2
  <2>4. vpp \in [Names -> S]
    OBVIOUS
  <2>. HIDE DEF S
  <2>. QED
    BY <2>3, <2>4
<1>2. ifs \in [Names -> Interface]
  <2>. SUFFICES ASSUME NEW n \in Names PROVE Resolved(vpp)[n] \in Interface
    BY DEF Resolved
  <2>1. Boot.set[n] \in Setting
    BY DEF Setting
  <2>2. vpp[n].idx \in Indices \cup {0} /\ vpp[n].addr \in Addrs \cup {NoAddr}
    BY <1>1 DEF VppInterface
  <2>. QED
    BY <2>1, <2>2 DEF Resolved, Interface
<1>3. \A n \in Names : ifs[n].idx = vpp[n].idx
  BY DEF Resolved
<1>4. \A n \in Names : vpp[n].idx # 0 => /\ vpp[n].idx \in DOMAIN wired
                                         /\ wired[vpp[n].idx] = Owner[n]
  <2>. SUFFICES ASSUME NEW n \in Names, vpp[n].idx # 0
                PROVE  vpp[n].idx \in DOMAIN wired /\ wired[vpp[n].idx] = Owner[n]
    OBVIOUS
  <2>1. vpp[n].idx \in Used(vpp)
    BY DEF Used
  <2>2. (CHOOSE m \in Names : vpp[m].idx = vpp[n].idx) = n
    OBVIOUS
  <2>. QED
    BY <2>1, <2>2 DEF WiredAtBoot
<1>5. DOMAIN wired \subseteq Indices /\ \A x \in DOMAIN wired : wired[x] \in Instances
  <2>1. DOMAIN wired = Used(vpp)
    BY DEF WiredAtBoot
  <2>2. Used(vpp) \subseteq Indices
    BY <1>1 DEF Used, VppInterface
  <2>3. ASSUME NEW x \in Used(vpp)
        PROVE  wired[x] \in Instances
    <3>1. PICK n \in Names : vpp[n].idx = x /\ x # 0
      BY DEF Used
    <3>. QED
      BY <1>4, <3>1
  <2>. QED
    BY <2>1, <2>2, <2>3
<1>6. task \in Task /\ loop \in [Instances -> Loop]
  BY DEF IdleTask, IdleLoop, Task, Loop
<1>7. TypeInv
  BY <1>1, <1>2, <1>5, <1>6 DEF TypeInv
<1>8. Enrolling
  BY DEF Enrolling, IdleTask
<1>9. OneInterfacePerIndex
  BY <1>3, <1>4 DEF OneInterfacePerIndex
<1>10. RouterLsaCurrent
  BY DEF RouterLsaCurrent
<1>. QED
  BY <1>7, <1>8, <1>9, <1>10 DEF IInv
-----------------------------------------------------------------------------
\* VPP changes its own state only, and to values of its type.
LEMMA VppStep ==
  ASSUME IInv, NEW n \in Names, VppCreate(n) \/ VppDelete(n) \/ VppUpdate(n)
  PROVE  /\ vpp' \in [Names -> VppInterface]
         /\ UNCHANGED <<redist, ifs, lsa, wired, task, loop>>
<1>. USE EnrollmentAssumption DEF VppChanges
<1>1. vpp \in [Names -> VppInterface]
  BY DEF IInv, TypeInv
<1>2. CASE VppCreate(n)
  BY <1>1, <1>2 DEF VppCreate, VppInterface
<1>3. CASE VppDelete(n)
  BY <1>1, <1>3 DEF VppDelete, VppInterface, Absent
<1>4. CASE VppUpdate(n)
  <2>1. PICK s \in VppStates : vpp' = [vpp EXCEPT ![n].up = s.up, ![n].addr = s.addr]
    BY <1>4, Zenon DEF VppUpdate
  <2>2. [vpp[n] EXCEPT !.up = s.up, !.addr = s.addr] \in VppInterface
    BY <1>1 DEF VppInterface
  <2>3. vpp' = [vpp EXCEPT ![n] = [vpp[n] EXCEPT !.up = s.up, !.addr = s.addr]]
    BY <1>1, <2>1
  <2>4. vpp' \in [Names -> VppInterface]
    BY <1>1, <2>2, <2>3
  <2>. QED
    BY <1>4, <2>4 DEF VppUpdate
<1>. QED
  BY <1>2, <1>3, <1>4

\* The interface the task works on, and what a commit makes of it.
LEMMA Committed ==
  ASSUME IInv, EnrollCommit
  PROVE  \E n \in Names :
           /\ task.cur = {n} /\ n \notin task.todo
           /\ task.snap[n] \in Indices /\ task.snap[n] \notin DOMAIN wired
           /\ ifs' \in [Names -> Interface]
           /\ ifs'[n].idx = task.snap[n] /\ ifs[n].idx = 0
           /\ \A m \in Names \ {n} : ifs'[m] = ifs[m]
           /\ Originate(ifs', redist, Owner[n])
<1>1. PICK n \in Names : /\ task.cur = {n} /\ n \notin task.todo
                         /\ task.snap[n] # 0 /\ task.snap[n] \notin DOMAIN wired
                         /\ ifs[n].idx = 0
  BY DEF EnrollCommit, IInv, Enrolling
<1>2. task.snap[n] \in Indices /\ task.addr \in Addrs \cup {NoAddr}
  BY <1>1 DEF IInv, TypeInv, Task
<1>3. ifs \in [Names -> Interface] /\ ifs[n] \in Interface
  BY DEF IInv, TypeInv
<1>4. /\ ifs' = [ifs EXCEPT ![n].idx = task.snap[n], ![n].up = TRUE,
                            ![n].addr = IF task.addr = NoAddr THEN @ ELSE task.addr]
      /\ Originate(ifs', redist, Owner[n])
  BY <1>1 DEF EnrollCommit
<1>5. ifs' \in [Names -> Interface] /\ ifs'[n].idx = task.snap[n]
  BY <1>2, <1>3, <1>4 DEF Interface
<1>6. \A m \in Names \ {n} : ifs'[m] = ifs[m]
  BY <1>3, <1>4
<1>. QED
  BY <1>1, <1>2, <1>4, <1>5, <1>6

\* Wiring an interface adds its index and leaves the others alone.
LEMMA Wiring ==
  ASSUME IInv, EnrollWire
  PROVE  \E n \in Names :
           /\ task.cur = {n} /\ ifs[n].idx = task.snap[n]
           /\ task.snap[n] \in Indices /\ task.snap[n] \notin DOMAIN wired
           /\ DOMAIN wired' = DOMAIN wired \cup {task.snap[n]}
           /\ wired'[task.snap[n]] = Owner[n]
           /\ \A x \in DOMAIN wired : wired'[x] = wired[x]
<1>1. PICK n \in Names : /\ task.cur = {n}
                         /\ task.snap[n] # 0 /\ task.snap[n] \notin DOMAIN wired
                         /\ ifs[n].idx = task.snap[n]
  BY DEF EnrollWire, IInv, Enrolling
<1>2. task.snap[n] \in Indices
  BY <1>1 DEF IInv, TypeInv, Task
<1>3. wired' = [x \in DOMAIN wired \cup {task.snap[n]} |->
                  IF x = task.snap[n] THEN Owner[n] ELSE wired[x]]
  BY <1>1 DEF EnrollWire
<1>. QED
  BY <1>1, <1>2, <1>3

\* The steps of a refresh keep the type of its record.
LEMMA LoopUpdate ==
  ASSUME NEW l \in Loop
  PROVE  /\ \A t \in SUBSET Indices : [l EXCEPT !.pc = "dump", !.todo = t] \in Loop
         /\ \A u \in SUBSET (Indices \cup {0}) : [l EXCEPT !.pc = "addr", !.up = u] \in Loop
         /\ \A t \in SUBSET Indices, g \in SUBSET Answer :
              [l EXCEPT !.todo = t, !.got = g] \in Loop
<1>. DEFINE U == SUBSET (Indices \cup {0})
            I == SUBSET Indices
            A == SUBSET Answer
<1>1. Loop = [pc : {"idle", "dump", "addr"}, todo : I, up : U, got : A]
  BY DEF Loop
<1>. HIDE DEF U, I, A
<1>2. /\ \A t \in I : [l EXCEPT !.pc = "dump", !.todo = t] \in Loop
      /\ \A u \in U : [l EXCEPT !.pc = "addr", !.up = u] \in Loop
      /\ \A t \in I, g \in A : [l EXCEPT !.todo = t, !.got = g] \in Loop
  BY <1>1
<1>. QED
  BY <1>2 DEF U, I, A

\* Every action keeps the types.
LEMMA TypeStep ==
  ASSUME IInv, [Next]_vars
  PROVE  TypeInv'
<1>. USE EnrollmentAssumption
<1>0. TypeInv
  BY DEF IInv
<1>1. CASE \E n \in Names : VppCreate(n) \/ VppDelete(n) \/ VppUpdate(n)
  BY <1>1, <1>0, VppStep DEF TypeInv
<1>2. CASE EnrollCollect
  BY <1>2, <1>0 DEF EnrollCollect, Unresolved, TypeInv, Task
<1>3. CASE EnrollDump
  <2>1. [n \in Names |-> vpp[n].idx] \in [Names -> Indices \cup {0}]
    BY <1>0 DEF TypeInv, VppInterface
  <2>. QED
    BY <1>3, <1>0, <2>1 DEF EnrollDump, TypeInv, Task
<1>4. CASE EnrollDumpFails
  BY <1>4, <1>0 DEF EnrollDumpFails, IdleTask, TypeInv, Task
<1>5. CASE EnrollSkip
  BY <1>5, <1>0 DEF EnrollSkip, IdleTask, TypeInv, Task
<1>6. CASE EnrollAddress
  <2>1. PICK n \in Candidates :
          task' = [task EXCEPT !.pc = "commit", !.cur = {n}, !.todo = @ \ {n},
                               !.addr = AddressAt(task.snap[n])]
    BY <1>6, Zenon DEF EnrollAddress
  <2>2. n \in Names
    BY <1>0 DEF Candidates, TypeInv, Task
  <2>3. AddressAt(task.snap[n]) \in Addrs \cup {NoAddr}
    BY <1>0, AddressType
  <2>4. task' \in Task
    BY <1>0, <2>1, <2>2, <2>3 DEF TypeInv, Task
  <2>. QED
    BY <1>6, <1>0, <2>4 DEF EnrollAddress, TypeInv
<1>7. CASE EnrollCommit
  <2>1. ifs' \in [Names -> Interface] /\ DOMAIN lsa' = Instances
    BY <1>7, <1>0, Committed DEF Originate, TypeInv
  <2>2. task' \in Task
    BY <1>7, <1>0 DEF EnrollCommit, TypeInv, Task
  <2>. QED
    BY <1>7, <1>0, <2>1, <2>2 DEF EnrollCommit, TypeInv
<1>8. CASE EnrollWire
  <2>1. DOMAIN wired' \subseteq Indices /\ \A x \in DOMAIN wired' : wired'[x] \in Instances
    BY <1>8, <1>0, Wiring DEF TypeInv
  <2>2. task' \in Task
    BY <1>8, <1>0 DEF EnrollWire, TypeInv, Task
  <2>. QED
    BY <1>8, <1>0, <2>1, <2>2 DEF EnrollWire, TypeInv
<1>9. ASSUME NEW i \in Instances, RefreshStart(i) PROVE TypeInv'
  <2>1. Watched(i) \subseteq Indices
    BY <1>0 DEF Watched, Interfaces, TypeInv, Interface
  <2>2. loop' \in [Instances -> Loop]
    <3>1. [loop[i] EXCEPT !.pc = "dump", !.todo = Watched(i)] \in Loop
      BY <1>0, <2>1, LoopUpdate DEF TypeInv
    <3>2. loop' = [loop EXCEPT ![i] = [loop[i] EXCEPT !.pc = "dump", !.todo = Watched(i)]]
      BY <1>9, <1>0 DEF RefreshStart, TypeInv
    <3>. QED
      BY <1>0, <3>1, <3>2 DEF TypeInv
  <2>. QED
    BY <1>9, <1>0, <2>2 DEF RefreshStart, TypeInv
<1>10. ASSUME NEW i \in Instances, RefreshDump(i) PROVE TypeInv'
  <2>1. {vpp[n].idx : n \in {m \in Names : Here(vpp, m) /\ vpp[m].up}} \subseteq Indices \cup {0}
    BY <1>0 DEF TypeInv, VppInterface
  <2>2. loop' \in [Instances -> Loop]
    <3>. DEFINE up == {vpp[n].idx : n \in {m \in Names : Here(vpp, m) /\ vpp[m].up}}
    <3>1. [loop[i] EXCEPT !.pc = "addr", !.up = up] \in Loop
      <4>. HIDE DEF up
      <4>. QED
        BY <1>0, <2>1, LoopUpdate DEF up, TypeInv
    <3>2. loop' = [loop EXCEPT ![i] = [loop[i] EXCEPT !.pc = "addr", !.up = up]]
      BY <1>10, <1>0 DEF RefreshDump, TypeInv
    <3>. HIDE DEF up
    <3>. QED
      BY <1>0, <3>1, <3>2 DEF TypeInv
  <2>. QED
    BY <1>10, <1>0, <2>2 DEF RefreshDump, TypeInv
<1>11. ASSUME NEW i \in Instances, RefreshDumpFails(i) PROVE TypeInv'
  <2>1. [loop[i] EXCEPT !.pc = "addr", !.up = {}] \in Loop
    BY <1>0, LoopUpdate DEF TypeInv
  <2>2. loop' = [loop EXCEPT ![i] = [loop[i] EXCEPT !.pc = "addr", !.up = {}]]
    BY <1>11, <1>0 DEF RefreshDumpFails, TypeInv
  <2>. QED
    BY <1>11, <1>0, <2>1, <2>2 DEF RefreshDumpFails, TypeInv
<1>12. ASSUME NEW i \in Instances, RefreshAddress(i) PROVE TypeInv'
  <2>1. PICK x \in loop[i].todo :
          loop' = [loop EXCEPT ![i].todo = @ \ {x},
                               ![i].got = @ \cup {[idx |-> x, addr |-> AddressAt(x)]}]
    BY <1>12, Zenon DEF RefreshAddress
  <2>2. AddressAt(x) \in Addrs \cup {NoAddr}
    BY <1>0, AddressType
  <2>3. loop' \in [Instances -> Loop]
    <3>. DEFINE ans == [idx |-> x, addr |-> AddressAt(x)]
                new == [loop[i] EXCEPT !.todo = @ \ {x}, !.got = @ \cup {ans}]
    <3>1. x \in Indices
      BY <1>0 DEF TypeInv, Loop
    <3>2. ans \in Answer
      BY <2>2, <3>1 DEF Answer
    <3>. HIDE DEF ans
    <3>3. loop' = [loop EXCEPT ![i] = new]
      BY <1>0, <2>1 DEF TypeInv, ans
    <3>4. new \in Loop
      <4>1. loop[i] \in Loop
        BY <1>0 DEF TypeInv
      <4>2. loop[i].todo \ {x} \in SUBSET Indices /\ loop[i].got \cup {ans} \in SUBSET Answer
        BY <3>2, <4>1 DEF Loop
      <4>. QED
        BY <4>1, <4>2, LoopUpdate, Zenon
    <3>. HIDE DEF new
    <3>. QED
      BY <1>0, <3>3, <3>4 DEF TypeInv
  <2>. QED
    BY <1>12, <1>0, <2>3 DEF RefreshAddress, TypeInv
<1>13. ASSUME NEW i \in Instances, RefreshApply(i) PROVE TypeInv'
  <2>1. ifs' \in [Names -> Interface]
    BY <1>13, <1>0, RefreshedType DEF RefreshApply
  <2>2. DOMAIN lsa' = Instances /\ loop' \in [Instances -> Loop]
    BY <1>13, <1>0 DEF RefreshApply, Originate, TypeInv, IdleLoop, Loop
  <2>. QED
    BY <1>13, <1>0, <2>1, <2>2 DEF RefreshApply, TypeInv
<1>14. ASSUME NEW i \in Instances, Reload(i) PROVE TypeInv'
  <2>1. ifs' \in [Names -> Interface]
    BY <1>14, <1>0, PatchedType DEF Reload
  <2>2. DOMAIN lsa' = Instances /\ DOMAIN redist' = Instances
    BY <1>14, <1>0 DEF Reload, Originate, TypeInv
  <2>. QED
    BY <1>14, <1>0, <2>1, <2>2 DEF Reload, TypeInv
<1>15. CASE UNCHANGED vars
  BY <1>15, <1>0 DEF vars, TypeInv
<1>. QED
  BY <1>1, <1>2, <1>3, <1>4, <1>5, <1>6, <1>7, <1>8, <1>9, <1>10, <1>11, <1>12,
     <1>13, <1>14, <1>15 DEF Next

\* A refresh and a reload change no index.
LEMMA IndexKept ==
  ASSUME IInv, NEW i \in Instances, RefreshApply(i) \/ Reload(i)
  PROVE  /\ \A n \in Names : ifs'[n].idx = ifs[n].idx
         /\ UNCHANGED <<wired, task>>
<1>1. TypeInv
  BY DEF IInv
<1>2. CASE RefreshApply(i)
  BY <1>1, <1>2, RefreshedType DEF RefreshApply
<1>3. CASE Reload(i)
  BY <1>1, <1>3, PatchedType DEF Reload
<1>. QED
  BY <1>2, <1>3

\* What the enrollment task found out stays true until it has acted on it: nobody
\* else resolves an interface, and nobody else wires one.
LEMMA EnrollingStep ==
  ASSUME IInv, [Next]_vars
  PROVE  Enrolling'
<1>0. Enrolling /\ TypeInv
  BY DEF IInv
<1>1. CASE \E n \in Names : VppCreate(n) \/ VppDelete(n) \/ VppUpdate(n)
  BY <1>1, <1>0, VppStep DEF Enrolling
<1>2. CASE EnrollCollect
  BY <1>2, <1>0 DEF EnrollCollect, Unresolved, Enrolling, TypeInv, Task
<1>3. CASE EnrollDump
  BY <1>3, <1>0 DEF EnrollDump, Enrolling, TypeInv, Task
<1>4. CASE EnrollDumpFails
  BY <1>4, <1>0 DEF EnrollDumpFails, IdleTask, Enrolling
<1>5. CASE EnrollSkip
  BY <1>5, <1>0 DEF EnrollSkip, IdleTask, Enrolling
<1>6. CASE EnrollAddress
  <2>1. PICK n \in Candidates :
          task' = [task EXCEPT !.pc = "commit", !.cur = {n}, !.todo = @ \ {n},
                               !.addr = AddressAt(task.snap[n])]
    BY <1>6, Zenon DEF EnrollAddress
  <2>2. /\ task'.pc = "commit" /\ task'.cur = {n} /\ task'.todo = task.todo \ {n}
        /\ task'.snap = task.snap
    BY <1>0, <2>1 DEF TypeInv, Task
  <2>3. n \in Names /\ n \in task.todo /\ task.snap[n] # 0 /\ task.snap[n] \notin DOMAIN wired
    BY <1>0 DEF Candidates, TypeInv, Task
  <2>. QED
    BY <1>6, <1>0, <2>2, <2>3 DEF EnrollAddress, Enrolling
<1>7. CASE EnrollCommit
  <2>1. /\ task'.pc = "wire" /\ task'.cur = task.cur /\ task'.todo = task.todo
        /\ task'.snap = task.snap /\ wired' = wired
    BY <1>7, <1>0 DEF EnrollCommit, TypeInv, Task
  <2>2. task.todo \subseteq Names
    BY <1>0 DEF TypeInv, Task
  <2>. QED
    BY <1>7, <1>0, <2>1, <2>2, Committed DEF Enrolling
<1>8. CASE EnrollWire
  <2>1. /\ task'.pc = "each" /\ task'.cur = {} /\ task'.todo = task.todo /\ ifs' = ifs
    BY <1>8, <1>0 DEF EnrollWire, TypeInv, Task
  <2>. QED
    BY <1>0, <2>1 DEF Enrolling
<1>9. ASSUME NEW i \in Instances, RefreshStart(i) PROVE Enrolling'
  BY <1>9, <1>0 DEF RefreshStart, Enrolling
<1>10. ASSUME NEW i \in Instances, RefreshDump(i) PROVE Enrolling'
  BY <1>10, <1>0 DEF RefreshDump, Enrolling
<1>11. ASSUME NEW i \in Instances, RefreshDumpFails(i) PROVE Enrolling'
  BY <1>11, <1>0 DEF RefreshDumpFails, Enrolling
<1>12. ASSUME NEW i \in Instances, RefreshAddress(i) PROVE Enrolling'
  BY <1>12, <1>0 DEF RefreshAddress, Enrolling
<1>13. ASSUME NEW i \in Instances, RefreshApply(i) PROVE Enrolling'
  BY <1>13, <1>0, IndexKept DEF Enrolling, TypeInv, Task
<1>14. ASSUME NEW i \in Instances, Reload(i) PROVE Enrolling'
  BY <1>14, <1>0, IndexKept DEF Enrolling, TypeInv, Task
<1>15. CASE UNCHANGED vars
  BY <1>15, <1>0 DEF vars, Enrolling
<1>. QED
  BY <1>1, <1>2, <1>3, <1>4, <1>5, <1>6, <1>7, <1>8, <1>9, <1>10, <1>11, <1>12,
     <1>13, <1>14, <1>15 DEF Next

\* A commit gives an index to an interface whose index is not wired, while those of
\* all other resolved interfaces are; wiring it completes the invariant.
LEMMA IndexStep ==
  ASSUME IInv, [Next]_vars
  PROVE  OneInterfacePerIndex'
<1>0. OneInterfacePerIndex /\ Enrolling /\ TypeInv
  BY DEF IInv
<1>1. CASE \E n \in Names : VppCreate(n) \/ VppDelete(n) \/ VppUpdate(n)
  BY <1>1, <1>0, VppStep DEF OneInterfacePerIndex
<1>2. CASE EnrollCollect
  BY <1>2, <1>0 DEF EnrollCollect, OneInterfacePerIndex, TypeInv, Task
<1>3. CASE EnrollDump
  BY <1>3, <1>0 DEF EnrollDump, OneInterfacePerIndex, TypeInv, Task
<1>4. CASE EnrollDumpFails
  BY <1>4, <1>0 DEF EnrollDumpFails, IdleTask, OneInterfacePerIndex, TypeInv, Task
<1>5. CASE EnrollSkip
  BY <1>5, <1>0 DEF EnrollSkip, IdleTask, OneInterfacePerIndex, TypeInv, Task
<1>6. CASE EnrollAddress
  BY <1>6, <1>0 DEF EnrollAddress, OneInterfacePerIndex, TypeInv, Task
<1>7. CASE EnrollCommit
  <2>1. /\ task.pc = "commit" /\ task'.pc = "wire" /\ task'.cur = task.cur /\ wired' = wired
    BY <1>7, <1>0 DEF EnrollCommit, TypeInv, Task
  <2>2. PICK n \in Names :
          /\ task.cur = {n} /\ task.snap[n] \in Indices /\ task.snap[n] \notin DOMAIN wired
          /\ ifs'[n].idx = task.snap[n] /\ ifs[n].idx = 0
          /\ \A m \in Names \ {n} : ifs'[m] = ifs[m]
    BY <1>7, Committed
  <2>3. \A m \in Names \ {n} : ifs[m].idx # 0 => /\ ifs[m].idx \in DOMAIN wired
                                                 /\ wired[ifs[m].idx] = Owner[m]
                                                 /\ ifs[m].idx # task.snap[n]
    BY <1>0, <2>1, <2>2 DEF OneInterfacePerIndex
  <2>4. task.snap[n] # 0
    BY <2>2, EnrollmentAssumption
  <2>. QED
    BY <1>0, <2>1, <2>2, <2>3, <2>4 DEF OneInterfacePerIndex
<1>8. CASE EnrollWire
  <2>1. /\ task.pc = "wire" /\ ifs' = ifs
    BY <1>8 DEF EnrollWire
  <2>. QED
    BY <1>8, <1>0, <2>1, Wiring DEF OneInterfacePerIndex
<1>9. ASSUME NEW i \in Instances, RefreshStart(i) PROVE OneInterfacePerIndex'
  BY <1>9, <1>0 DEF RefreshStart, OneInterfacePerIndex
<1>10. ASSUME NEW i \in Instances, RefreshDump(i) PROVE OneInterfacePerIndex'
  BY <1>10, <1>0 DEF RefreshDump, OneInterfacePerIndex
<1>11. ASSUME NEW i \in Instances, RefreshDumpFails(i) PROVE OneInterfacePerIndex'
  BY <1>11, <1>0 DEF RefreshDumpFails, OneInterfacePerIndex
<1>12. ASSUME NEW i \in Instances, RefreshAddress(i) PROVE OneInterfacePerIndex'
  BY <1>12, <1>0 DEF RefreshAddress, OneInterfacePerIndex
<1>13. ASSUME NEW i \in Instances, RefreshApply(i) PROVE OneInterfacePerIndex'
  BY <1>13, <1>0, IndexKept DEF OneInterfacePerIndex
<1>14. ASSUME NEW i \in Instances, Reload(i) PROVE OneInterfacePerIndex'
  BY <1>14, <1>0, IndexKept DEF OneInterfacePerIndex
<1>15. CASE UNCHANGED vars
  BY <1>15, <1>0 DEF vars, OneInterfacePerIndex
<1>. QED
  BY <1>1, <1>2, <1>3, <1>4, <1>5, <1>6, <1>7, <1>8, <1>9, <1>10, <1>11, <1>12,
     <1>13, <1>14, <1>15 DEF Next

\* Originating for an instance whose interfaces alone changed keeps every Router-LSA
\* current; so does not originating when nothing the LSA shows has changed.
LEMMA OriginateCurrent ==
  ASSUME TypeInv, RouterLsaCurrent, NEW i \in Instances, NEW r, DOMAIN r = Instances,
         \A n \in Names : Owner[n] # i => ifs'[n] = ifs[n],
         \A j \in Instances \ {i} : r[j] = redist[j],
         Originate(ifs', r, i)
  PROVE  \A j \in Instances : UpOf(ifs', j) # {} => lsa'[j] = Describe(ifs', r, j)
<1>. SUFFICES ASSUME NEW j \in Instances, UpOf(ifs', j) # {}
              PROVE  lsa'[j] = Describe(ifs', r, j)
  OBVIOUS
<1>1. CASE j = i
  BY <1>1 DEF Originate, TypeInv
<1>2. CASE j # i
  <2>1. lsa'[j] = lsa[j]
    BY <1>2 DEF Originate, TypeInv
  <2>2. UpOf(ifs', j) = UpOf(ifs, j) /\ Describe(ifs', r, j) = Describe(ifs, redist, j)
    BY <1>2, DescribeLocal
  <2>. QED
    BY <2>1, <2>2 DEF RouterLsaCurrent
<1>. QED
  BY <1>1, <1>2

\* Every action that changes what a Router-LSA shows originates it in the same step.
LEMMA LsaStep ==
  ASSUME IInv, [Next]_vars
  PROVE  RouterLsaCurrent'
<1>0. RouterLsaCurrent /\ TypeInv
  BY DEF IInv
<1>1. CASE \E n \in Names : VppCreate(n) \/ VppDelete(n) \/ VppUpdate(n)
  BY <1>1, <1>0, VppStep DEF RouterLsaCurrent, UpOf, Describe, Interfaces
<1>2. CASE EnrollCollect
  BY <1>2, <1>0 DEF EnrollCollect, RouterLsaCurrent
<1>3. CASE EnrollDump
  BY <1>3, <1>0 DEF EnrollDump, RouterLsaCurrent
<1>4. CASE EnrollDumpFails
  BY <1>4, <1>0 DEF EnrollDumpFails, IdleTask, RouterLsaCurrent
<1>5. CASE EnrollSkip
  BY <1>5, <1>0 DEF EnrollSkip, IdleTask, RouterLsaCurrent
<1>6. CASE EnrollAddress
  BY <1>6, <1>0 DEF EnrollAddress, RouterLsaCurrent
<1>7. CASE EnrollCommit
  <2>1. PICK n \in Names : /\ \A m \in Names \ {n} : ifs'[m] = ifs[m]
                           /\ Originate(ifs', redist, Owner[n])
    BY <1>7, Committed
  <2>2. Owner[n] \in Instances /\ redist' = redist /\ DOMAIN redist = Instances
    BY <1>7, <1>0, EnrollmentAssumption DEF EnrollCommit, TypeInv
  <2>3. \A j \in Instances : UpOf(ifs', j) # {} => lsa'[j] = Describe(ifs', redist, j)
    BY <1>0, <2>1, <2>2, OriginateCurrent
  <2>. QED
    BY <2>2, <2>3 DEF RouterLsaCurrent
<1>8. CASE EnrollWire
  BY <1>8, <1>0 DEF EnrollWire, RouterLsaCurrent
<1>9. ASSUME NEW i \in Instances, RefreshStart(i) PROVE RouterLsaCurrent'
  BY <1>9, <1>0 DEF RefreshStart, RouterLsaCurrent
<1>10. ASSUME NEW i \in Instances, RefreshDump(i) PROVE RouterLsaCurrent'
  BY <1>10, <1>0 DEF RefreshDump, RouterLsaCurrent
<1>11. ASSUME NEW i \in Instances, RefreshDumpFails(i) PROVE RouterLsaCurrent'
  BY <1>11, <1>0 DEF RefreshDumpFails, RouterLsaCurrent
<1>12. ASSUME NEW i \in Instances, RefreshAddress(i) PROVE RouterLsaCurrent'
  BY <1>12, <1>0 DEF RefreshAddress, RouterLsaCurrent
<1>13. ASSUME NEW i \in Instances, RefreshApply(i) PROVE RouterLsaCurrent'
  <2>1. /\ \A n \in Names : Owner[n] # i => ifs'[n] = ifs[n]
        /\ redist' = redist /\ DOMAIN redist = Instances
    BY <1>13, <1>0, RefreshedType DEF RefreshApply, TypeInv
  <2>2. CASE ifs' # ifs
    <3>1. Originate(ifs', redist, i)
      BY <1>13, <2>2 DEF RefreshApply
    <3>2. \A j \in Instances : UpOf(ifs', j) # {} => lsa'[j] = Describe(ifs', redist, j)
      BY <1>0, <2>1, <3>1, OriginateCurrent
    <3>. QED
      BY <2>1, <3>2 DEF RouterLsaCurrent
  <2>3. CASE ifs' = ifs
    <3>1. UNCHANGED lsa
      BY <1>13, <2>3 DEF RefreshApply
    <3>. QED
      BY <1>0, <2>1, <2>3, <3>1 DEF RouterLsaCurrent
  <2>. QED
    BY <2>2, <2>3
<1>14. ASSUME NEW i \in Instances, Reload(i) PROVE RouterLsaCurrent'
  <2>1. PICK c \in Configs : /\ ifs' = Patched(i, c)
                             /\ redist' = [redist EXCEPT ![i] = c.redist]
    BY <1>14 DEF Reload
  <2>2. \A n \in Names : /\ Owner[n] # i => ifs'[n] = ifs[n]
                         /\ ifs'[n].up = ifs[n].up /\ ifs'[n].addr = ifs[n].addr
    BY <1>0, <2>1, PatchedType
  <2>3. DOMAIN redist' = Instances /\ \A j \in Instances \ {i} : redist'[j] = redist[j]
    BY <1>0, <2>1 DEF TypeInv
  <2>4. CASE RouterLsaDirty(i, ifs', redist')
    <3>1. Originate(ifs', redist', i)
      BY <1>14, <2>4 DEF Reload
    <3>2. \A j \in Instances : UpOf(ifs', j) # {} => lsa'[j] = Describe(ifs', redist', j)
      BY <1>0, <2>2, <2>3, <3>1, OriginateCurrent
    <3>. QED
      BY <3>2 DEF RouterLsaCurrent
  <2>5. CASE ~RouterLsaDirty(i, ifs', redist')
    <3>1. UNCHANGED lsa
      BY <1>14, <2>5 DEF Reload
    <3>2. /\ \A n \in Names : ifs'[n].set.cost = ifs[n].set.cost
          /\ (redist[i] = {}) = (redist'[i] = {})
      BY <2>5 DEF RouterLsaDirty
    <3>3. ASSUME NEW j \in Instances
          PROVE  UpOf(ifs', j) = UpOf(ifs, j) /\ Describe(ifs', redist', j) = Describe(ifs, redist, j)
      <4>1. (redist'[j] = {}) = (redist[j] = {})
        BY <2>3, <3>2
      <4>. QED
        BY <2>2, <3>2, <4>1, DescribeLocal
    <3>. QED
      BY <1>0, <3>1, <3>3 DEF RouterLsaCurrent
  <2>. QED
    BY <2>4, <2>5
<1>15. CASE UNCHANGED vars
  BY <1>15, <1>0 DEF vars, RouterLsaCurrent, UpOf, Describe, Interfaces
<1>. QED
  BY <1>1, <1>2, <1>3, <1>4, <1>5, <1>6, <1>7, <1>8, <1>9, <1>10, <1>11, <1>12,
     <1>13, <1>14, <1>15 DEF Next
-----------------------------------------------------------------------------
\* The invariant holds in every behaviour: of boot, of the enrollment task, of the
\* refreshes and of the reloads, in every order.
LEMMA Invariant == Spec => []IInv
<1>1. IInv /\ [Next]_vars => IInv'
  BY TypeStep, EnrollingStep, IndexStep, LsaStep DEF IInv
<1>. QED
  BY <1>1, InitInv, PTL DEF Spec

\* The variables keep their types, and the enrollment task of main.rs is at an
\* interface exactly while it brings one up.
THEOREM TypeCorrect == Spec => []TypeOK
<1>1. IInv => TypeOK
  <2>. SUFFICES ASSUME IInv PROVE TypeOK
    OBVIOUS
  <2>1. TypeInv /\ Enrolling
    BY DEF IInv
  <2>2. (task.pc \in {"commit", "wire"}) = (task.cur # {})
    BY <2>1 DEF Enrolling
  <2>3. /\ task.pc \in {"idle", "dump", "each", "commit", "wire"} /\ task.todo \subseteq Names
        /\ \A i \in Instances : loop[i].pc \in {"idle", "dump", "addr"}
    BY <2>1 DEF TypeInv, Task, Loop
  <2>. QED
    BY <2>1, <2>2, <2>3 DEF TypeOK, TypeInv, VppInterface, Interface, Setting
<1>. QED
  BY <1>1, Invariant, PTL

\* The enrollment task looks at VPP, at the wired indices and at the interfaces at
\* different times, and VPP reuses indices; yet no two interfaces are ever resolved
\* to the same index, and the index of a resolved interface is wired to the instance that
\* owns it (or is about to be).
THEOREM IndicesAreUnique == Spec => []OneInterfacePerIndex
<1>1. IInv => OneInterfacePerIndex
  BY DEF IInv
<1>. QED
  BY <1>1, Invariant, PTL

\* Whatever enrollment, refresh and reload change and in whatever order, the
\* Router-LSA of an instance describes its interfaces, unless all of them are down.
THEOREM RouterLsaIsCurrent == Spec => []RouterLsaCurrent
<1>1. IInv => RouterLsaCurrent
  BY DEF IInv
<1>. QED
  BY <1>1, Invariant, PTL
=============================================================================
