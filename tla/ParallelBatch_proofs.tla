------------------------ MODULE ParallelBatch_proofs ------------------------
(***************************************************************************)
(* Proofs about SlotAllocator and about ParallelBatch, which extends it,   *)
(* for every number of slots and of units and every window.                *)
(***************************************************************************)
EXTENDS ParallelBatch, FiniteSetTheorems, SequenceTheorems, TLAPS

-----------------------------------------------------------------------------
(***************************************************************************)
(* The allocator.                                                          *)
(***************************************************************************)

\* A task holds a slot exactly as long as it owns a lease.
LeaseHoldsSlot == \A t \in Tasks : stage[t] = "leased" <=> held[t] \in Slots

\* acquire() has not failed: what PermitMeansSlot adds to Conservation.
NoneRefused == \A t \in Tasks : stage[t] # "refused"

\* The inductive invariant. Exclusivity alone is not inductive: pop_front must
\* find a slot, which is a matter of counting permits and leases.
Inv ==
    /\ AllocTypeOK
    /\ LeaseHoldsSlot
    /\ NoneRefused
    /\ SlotExclusive
    /\ Conservation

-----------------------------------------------------------------------------
\* The sets of tasks the invariant counts are finite.
LEMMA FiniteTasks ==
    /\ IsFiniteSet(Tasks)
    /\ IsFiniteSet(Permitted) /\ IsFiniteSet(Leased)
    /\ Cardinality(Permitted) \in Nat /\ Cardinality(Leased) \in Nat
<1>1. IsFiniteSet(Tasks)
    BY FS_Interval, TasksAssumption DEF Tasks
<1>2. Permitted \in SUBSET Tasks /\ Leased \in SUBSET Tasks
    BY DEF Permitted, Leased
<1>3. IsFiniteSet(Permitted) /\ IsFiniteSet(Leased)
    BY <1>1, <1>2, FS_Subset
<1> QED
    BY <1>1, <1>3, FS_CardinalityType

\* A slot is an integer, and "no slot" is not one.
LEMMA NoSlotIsNoSlot == NoSlot \notin Slots /\ Slots \subseteq Nat
    BY NoSlotAssumption, SlotsAssumption DEF Slots

\* Counting: a task that has its permit and no slot yet is one by which the
\* permits granted exceed the slots leased, so a slot is left.
LEMMA PermitLeavesSlot ==
    ASSUME Inv, NEW t \in Tasks, stage[t] = "permitted"
    PROVE  available # <<>>
<1>1. Leased \in SUBSET (Permitted \ {t})
    BY DEF Leased, Permitted
<1>2. Cardinality(Leased) <= Cardinality(Permitted \ {t})
    BY <1>1, FiniteTasks, FS_RemoveElement, FS_Subset
<1>3. Cardinality(Permitted \ {t}) = Cardinality(Permitted) - 1
  <2>1. t \in Permitted
      BY DEF Permitted
  <2> QED
      BY <2>1, FiniteTasks, FS_RemoveElement
<1>4. permits \in Nat /\ permits + Cardinality(Permitted) = NumSlots
    BY SlotsAssumption DEF Inv, AllocTypeOK, Conservation
<1>5. Cardinality(Leased) < NumSlots
    BY <1>2, <1>3, <1>4, FiniteTasks, SlotsAssumption
<1>6. Len(available) # 0
    BY <1>5, FiniteTasks, SlotsAssumption DEF Inv, Conservation
<1> QED
    BY <1>6, EmptySeq DEF Inv, AllocTypeOK

\* Every permit that was granted has a slot behind it.
LEMMA InvImpliesPermitMeansSlot == Inv => PermitMeansSlot
    BY PermitLeavesSlot DEF Inv, NoneRefused, PermitMeansSlot

-----------------------------------------------------------------------------
LEMMA InitInv == AllocInit => Inv
<1> SUFFICES ASSUME AllocInit PROVE Inv
    OBVIOUS
<1> USE SlotsAssumption
<1>1. available \in Seq(Slots) /\ Len(available) = NumSlots
  <2>1. available \in [1 .. NumSlots -> Slots]
      BY DEF AllocInit, Slots
  <2> QED
      BY <2>1 DEF AllocInit
<1>2. AllocTypeOK
    BY <1>1 DEF AllocInit, AllocTypeOK, Stages
<1>3. LeaseHoldsSlot /\ NoneRefused
    BY NoSlotIsNoSlot DEF AllocInit, LeaseHoldsSlot, NoneRefused
<1>4. Permitted = {} /\ Leased = {}
    BY DEF AllocInit, Permitted, Leased
<1>5. SlotExclusive
    BY <1>1, <1>4 DEF AllocInit, SlotExclusive
<1>6. Conservation
    BY <1>1, <1>4, FS_EmptySet DEF AllocInit, Conservation
<1> QED
    BY <1>2, <1>3, <1>5, <1>6 DEF Inv

-----------------------------------------------------------------------------
LEMMA RequestInv ==
    ASSUME Inv, NEW t \in Tasks, Request(t) PROVE Inv'
<1>1. AllocTypeOK' /\ LeaseHoldsSlot' /\ NoneRefused'
    BY NoSlotIsNoSlot DEF Inv, Request, AllocTypeOK, LeaseHoldsSlot, NoneRefused, Stages
<1>2. Permitted' = Permitted /\ Leased' = Leased
    BY DEF Inv, AllocTypeOK, Request, Permitted, Leased
<1> QED
    BY <1>1, <1>2 DEF Inv, Request, SlotExclusive, Conservation

LEMMA TakePermitInv ==
    ASSUME Inv, NEW t \in Tasks, TakePermit(t) PROVE Inv'
<1> USE SlotsAssumption
<1>1. AllocTypeOK' /\ LeaseHoldsSlot' /\ NoneRefused'
    BY NoSlotIsNoSlot DEF Inv, TakePermit, AllocTypeOK, LeaseHoldsSlot, NoneRefused, Stages
<1>2. Permitted' = Permitted \cup {t} /\ t \notin Permitted /\ Leased' = Leased
    BY DEF Inv, AllocTypeOK, TakePermit, Permitted, Leased
<1>3. Cardinality(Permitted') = Cardinality(Permitted) + 1
    BY <1>2, FiniteTasks, FS_AddElement
<1>4. Conservation'
    BY <1>2, <1>3, FiniteTasks DEF Inv, AllocTypeOK, TakePermit, Conservation
<1> QED
    BY <1>1, <1>2, <1>4 DEF Inv, TakePermit, SlotExclusive

LEMMA PopSlotInv ==
    ASSUME Inv, NEW t \in Tasks, PopSlot(t) PROVE Inv'
<1> USE SlotsAssumption
<1>1. available # <<>>
    BY PermitLeavesSlot DEF PopSlot
<1>2. /\ held' = [held EXCEPT ![t] = Head(available)]
      /\ available' = Tail(available)
      /\ stage' = [stage EXCEPT ![t] = "leased"]
      /\ permits' = permits
      /\ stage[t] = "permitted"
    BY <1>1 DEF PopSlot
<1>3. available \in Seq(Slots)
    BY DEF Inv, AllocTypeOK
<1>4. /\ Head(available) \in Slots
      /\ Tail(available) \in Seq(Slots)
      /\ Len(Tail(available)) = Len(available) - 1
      /\ \A i \in 1 .. Len(Tail(available)) : Tail(available)[i] = available[i + 1]
    BY <1>1, <1>3, HeadTailProperties
<1>5. Len(available) \in Nat \ {0} /\ Head(available) = available[1]
    BY <1>1, <1>3, EmptySeq
<1>6. AllocTypeOK' /\ LeaseHoldsSlot' /\ NoneRefused'
    BY <1>2, <1>4 DEF Inv, AllocTypeOK, LeaseHoldsSlot, NoneRefused, Stages
<1>7. Permitted' = Permitted /\ Leased' = Leased \cup {t} /\ t \notin Leased
    BY <1>2 DEF Inv, AllocTypeOK, Permitted, Leased
<1>8. Cardinality(Leased') = Cardinality(Leased) + 1
    BY <1>7, FiniteTasks, FS_AddElement
<1>9. Conservation'
    BY <1>2, <1>4, <1>5, <1>7, <1>8, FiniteTasks DEF Inv, Conservation
<1>10. \A u \in Leased : held'[u] = held[u] /\ held[u] # Head(available)
    BY <1>2, <1>5, <1>7 DEF Inv, AllocTypeOK, SlotExclusive, Leased
<1>11. held'[t] = Head(available)
    BY <1>2 DEF Inv, AllocTypeOK
<1>12. \A u, v \in Leased' : held'[u] = held'[v] => u = v
    BY <1>7, <1>10, <1>11 DEF Inv, SlotExclusive
<1>13. \A i \in 1 .. Len(available') :
          /\ i + 1 \in 1 .. Len(available) /\ i + 1 # 1
          /\ available'[i] = available[i + 1]
    BY <1>2, <1>4, <1>5
<1>14. \A u \in Leased' : \A i \in 1 .. Len(available') : available'[i] # held'[u]
    BY <1>5, <1>7, <1>10, <1>11, <1>13 DEF Inv, SlotExclusive
<1>15. \A i, j \in 1 .. Len(available') : available'[i] = available'[j] => i = j
    BY <1>2, <1>4, <1>5, <1>13 DEF Inv, SlotExclusive
<1> QED
    BY <1>6, <1>9, <1>12, <1>14, <1>15 DEF Inv, SlotExclusive

LEMMA ReturnSlotInv ==
    ASSUME Inv, NEW t \in Tasks, ReturnSlot(t) PROVE Inv'
<1> USE SlotsAssumption
<1>1. /\ available' = Append(available, held[t])
      /\ held' = [held EXCEPT ![t] = NoSlot]
      /\ stage' = [stage EXCEPT ![t] = "returned"]
      /\ permits' = permits
      /\ stage[t] = "leased" /\ t \in Leased
    BY DEF ReturnSlot, Leased
<1>2. available \in Seq(Slots) /\ held[t] \in Slots
    BY <1>1 DEF Inv, AllocTypeOK, LeaseHoldsSlot
<1>3. /\ available' \in Seq(Slots)
      /\ Len(available') = Len(available) + 1
      /\ \A i \in 1 .. Len(available) : available'[i] = available[i]
      /\ available'[Len(available) + 1] = held[t]
      /\ Len(available) \in Nat
    BY <1>1, <1>2, AppendProperties, LenProperties
<1>4. AllocTypeOK' /\ LeaseHoldsSlot' /\ NoneRefused'
    BY <1>1, <1>3, NoSlotIsNoSlot
    DEF Inv, AllocTypeOK, LeaseHoldsSlot, NoneRefused, Stages
<1>5. Permitted' = Permitted /\ Leased' = Leased \ {t}
    BY <1>1 DEF Inv, AllocTypeOK, Permitted, Leased
<1>6. Cardinality(Leased') = Cardinality(Leased) - 1
    BY <1>1, <1>5, FiniteTasks, FS_RemoveElement
<1>7. Conservation'
    BY <1>1, <1>3, <1>5, <1>6, FiniteTasks DEF Inv, Conservation
<1>8. \A u \in Leased' : held'[u] = held[u] /\ held[u] # held[t] /\ u \in Leased
    BY <1>1, <1>5 DEF Inv, AllocTypeOK, SlotExclusive, Leased
<1>9. \A i \in 1 .. Len(available') :
          i \in 1 .. Len(available) \/ i = Len(available) + 1
    BY <1>3
<1>10. \A i \in 1 .. Len(available) : available[i] # held[t]
    BY <1>1 DEF Inv, SlotExclusive
<1>11. \A u, v \in Leased' : held'[u] = held'[v] => u = v
    BY <1>8 DEF Inv, SlotExclusive
<1>12. \A u \in Leased' : \A i \in 1 .. Len(available') : available'[i] # held'[u]
    BY <1>3, <1>8, <1>9 DEF Inv, SlotExclusive
<1>13. \A i, j \in 1 .. Len(available') : available'[i] = available'[j] => i = j
    BY <1>3, <1>9, <1>10 DEF Inv, SlotExclusive
<1> QED
    BY <1>4, <1>7, <1>11, <1>12, <1>13 DEF Inv, SlotExclusive

LEMMA ReleasePermitInv ==
    ASSUME Inv, NEW t \in Tasks, ReleasePermit(t) PROVE Inv'
<1> USE SlotsAssumption
<1>1. Permitted' = Permitted \ {t} /\ t \in Permitted /\ Leased' = Leased
    BY DEF Inv, AllocTypeOK, ReleasePermit, Permitted, Leased
<1>2. Cardinality(Permitted') = Cardinality(Permitted) - 1
    BY <1>1, FiniteTasks, FS_RemoveElement
<1>3. Conservation'
    BY <1>1, <1>2, FiniteTasks DEF Inv, AllocTypeOK, ReleasePermit, Conservation
<1>4. permits' \in 0 .. NumSlots
  <2>1. Cardinality(Permitted') \in Nat
      BY <1>1, <1>2, FiniteTasks, FS_RemoveElement, FS_CardinalityType
  <2> QED
      BY <1>3, <2>1 DEF Inv, AllocTypeOK, ReleasePermit, Conservation
<1>5. AllocTypeOK' /\ LeaseHoldsSlot' /\ NoneRefused'
    BY <1>4, NoSlotIsNoSlot
    DEF Inv, ReleasePermit, AllocTypeOK, LeaseHoldsSlot, NoneRefused, Stages
<1> QED
    BY <1>1, <1>3, <1>5 DEF Inv, ReleasePermit, SlotExclusive

LEMMA AbandonInv ==
    ASSUME Inv, NEW t \in Tasks, Abandon(t) PROVE Inv'
<1>1. AllocTypeOK' /\ LeaseHoldsSlot' /\ NoneRefused'
    BY NoSlotIsNoSlot DEF Inv, Abandon, AllocTypeOK, LeaseHoldsSlot, NoneRefused, Stages
<1>2. Permitted' = Permitted /\ Leased' = Leased
    BY DEF Inv, AllocTypeOK, Abandon, Permitted, Leased
<1> QED
    BY <1>1, <1>2 DEF Inv, Abandon, SlotExclusive, Conservation

\* Every step of the allocator, stutters included, keeps the invariant.
LEMMA NextInv == Inv /\ [AllocNext]_allocVars => Inv'
<1> SUFFICES ASSUME Inv, [AllocNext]_allocVars PROVE Inv'
    OBVIOUS
<1>1. CASE UNCHANGED allocVars
    BY <1>1 DEF Inv, allocVars, AllocTypeOK, LeaseHoldsSlot, NoneRefused,
                SlotExclusive, Conservation, Permitted, Leased
<1>2. CASE AllocNext
  <2> PICK t \in Tasks : \/ Request(t) \/ TakePermit(t) \/ PopSlot(t)
                         \/ ReturnSlot(t) \/ ReleasePermit(t) \/ Abandon(t)
      BY <1>2 DEF AllocNext
  <2> QED
      BY RequestInv, TakePermitInv, PopSlotInv, ReturnSlotInv, ReleasePermitInv,
         AbandonInv
<1> QED
    BY <1>1, <1>2

\* The inductive invariant holds throughout.
THEOREM AllocatorInv == AllocSpec => []Inv
<1> QED
    BY InitInv, NextInv, PTL DEF AllocSpec

\* The state of the allocator is well formed (SlotAllocator, SlotLease).
THEOREM AllocatorTypeCorrect == AllocSpec => []AllocTypeOK
<1>1. Inv => AllocTypeOK
    BY DEF Inv
<1> QED
    BY <1>1, AllocatorInv, PTL

\* No two tasks ever run on one slot, whatever the number of slots and tasks.
THEOREM AllocatorExclusive == AllocSpec => []SlotExclusive
<1>1. Inv => SlotExclusive
    BY DEF Inv
<1> QED
    BY <1>1, AllocatorInv, PTL

\* acquire() never takes its "no slot available" branch.
THEOREM AllocatorPermitMeansSlot == AllocSpec => []PermitMeansSlot
<1> QED
    BY InvImpliesPermitMeansSlot, AllocatorInv, PTL

\* No permit and no slot is ever created or lost.
THEOREM AllocatorConserves == AllocSpec => []Conservation
<1>1. Inv => Conservation
    BY DEF Inv
<1> QED
    BY <1>1, AllocatorInv, PTL

-----------------------------------------------------------------------------
(* The refinement of SlotPool.                                             *)

\* The owner that the leases give a slot is the task that leases it.
LEMMA OwnerOfSlot ==
    ASSUME Inv, NEW s \in Slots
    PROVE  /\ \A t \in Tasks : Owner(s) = t <=> t \in Leased /\ held[t] = s
           /\ Owner(s) = NoSlot <=> ~ \E t \in Leased : held[t] = s
<1>1. NoSlot \notin Tasks
    BY NoSlotAssumption, TasksAssumption DEF Tasks
<1>2. Leased \subseteq Tasks
    BY DEF Leased
<1>3. CASE \E t \in Leased : held[t] = s
  <2>1. PICK u \in Leased : held[u] = s
      BY <1>3
  <2>2. \A t \in Leased : held[t] = s => t = u
      BY <2>1 DEF Inv, SlotExclusive
  <2>3. Owner(s) = u
      BY <2>1, <2>2 DEF Owner
  <2> QED
      BY <1>1, <1>2, <2>1, <2>2, <2>3
<1>4. CASE ~ \E t \in Leased : held[t] = s
  <2>1. Owner(s) = NoSlot
      BY <1>4 DEF Owner
  <2> QED
      BY <1>1, <1>4, <2>1
<1> QED
    BY <1>3, <1>4

\* Nobody owns a slot at the start.
LEMMA InitImplementsPool == AllocInit => Pool!Init
    BY DEF AllocInit, Owner, Leased, Pool!Init

\* A step that changes no lease changes no owner.
LEMMA SameLeasesSamePool ==
    ASSUME Leased' = Leased, \A t \in Leased : held'[t] = held[t]
    PROVE  [s \in Slots |-> Owner(s)]' = [s \in Slots |-> Owner(s)]
<1>1. \A s \in Slots : Owner(s)' = Owner(s)
    BY DEF Owner
<1> QED
    BY <1>1

\* pop_front is the Take of the pool.
LEMMA PopSlotImplementsTake ==
    ASSUME Inv, Inv', NEW t \in Tasks, PopSlot(t)
    PROVE  \E s \in Slots : Pool!Take(t, s)
<1>0. Head(available) \in Slots
    BY PermitLeavesSlot, HeadTailProperties DEF PopSlot, Inv, AllocTypeOK
<1> PICK s \in Slots : s = Head(available)
    BY <1>0
<1>1. /\ available # <<>> /\ available \in Seq(Slots)
      /\ stage[t] = "permitted"
      /\ held' = [held EXCEPT ![t] = s]
      /\ stage' = [stage EXCEPT ![t] = "leased"]
    BY PermitLeavesSlot DEF PopSlot, Inv, AllocTypeOK
<1>2. s \in Slots /\ Len(available) \in Nat \ {0} /\ s = available[1]
    BY <1>1, HeadTailProperties, EmptySeq
<1>3. Leased' = Leased \cup {t} /\ t \notin Leased /\ held'[t] = s
    BY <1>1 DEF Inv, AllocTypeOK, Leased
<1>4. \A u \in Leased : held'[u] = held[u] /\ held[u] # s
    BY <1>1, <1>2, <1>3 DEF Inv, AllocTypeOK, SlotExclusive, Leased
<1>5. Owner(s) = NoSlot /\ \A r \in Slots : Owner(r) # t
    BY <1>2, <1>3, <1>4, OwnerOfSlot
<1>6. Owner(s)' = t
  <2>1. \A u \in Leased' : held'[u] = s => u = t
      BY <1>3, <1>4
  <2> QED
      BY <1>3, <2>1 DEF Owner
<1>7. \A r \in Slots \ {s} : Owner(r)' = Owner(r)
  <2> SUFFICES ASSUME NEW r \in Slots \ {s} PROVE Owner(r)' = Owner(r)
      OBVIOUS
  <2>1. \A u : u \in Leased' /\ held'[u] = r <=> u \in Leased /\ held[u] = r
      BY <1>3, <1>4
  <2> QED
      BY <2>1 DEF Owner
<1>8. [r \in Slots |-> Owner(r)]' = [[r \in Slots |-> Owner(r)] EXCEPT ![s] = t]
    BY <1>2, <1>6, <1>7
<1> QED
    BY <1>2, <1>5, <1>8 DEF Pool!Take

\* push_back in drop() is the GiveBack of the pool.
LEMMA ReturnSlotImplementsGiveBack ==
    ASSUME Inv, Inv', NEW t \in Tasks, ReturnSlot(t)
    PROVE  \E s \in Slots : Pool!GiveBack(t, s)
<1>0. held[t] \in Slots
    BY DEF ReturnSlot, Inv, LeaseHoldsSlot
<1> PICK s \in Slots : s = held[t]
    BY <1>0
<1>1. /\ t \in Leased
      /\ held' = [held EXCEPT ![t] = NoSlot]
      /\ stage' = [stage EXCEPT ![t] = "returned"]
    BY DEF ReturnSlot, Inv, LeaseHoldsSlot, Leased
<1>2. Leased' = Leased \ {t}
    BY <1>1 DEF Inv, AllocTypeOK, Leased
<1>3. \A u \in Leased' : held'[u] = held[u] /\ held[u] # s
    BY <1>1, <1>2 DEF Inv, AllocTypeOK, SlotExclusive, Leased
<1>4. Owner(s) = t
    BY <1>1, OwnerOfSlot
<1>5. Owner(s)' = NoSlot
    BY <1>3 DEF Owner
<1>6. \A r \in Slots \ {s} : Owner(r)' = Owner(r)
  <2> SUFFICES ASSUME NEW r \in Slots \ {s} PROVE Owner(r)' = Owner(r)
      OBVIOUS
  <2>1. \A u : u \in Leased' /\ held'[u] = r <=> u \in Leased /\ held[u] = r
      BY <1>1, <1>2, <1>3
  <2> QED
      BY <2>1 DEF Owner
<1>7. [r \in Slots |-> Owner(r)]' = [[r \in Slots |-> Owner(r)] EXCEPT ![s] = NoSlot]
    BY <1>1, <1>5, <1>6
<1> QED
    BY <1>1, <1>4, <1>7 DEF Pool!GiveBack

\* Every step of the allocator is a step of the pool or leaves it alone.
LEMMA NextImplementsPool ==
    ASSUME Inv, Inv', [AllocNext]_allocVars
    PROVE  [Pool!Next]_([s \in Slots |-> Owner(s)])
<1>1. CASE UNCHANGED allocVars
    BY <1>1, SameLeasesSamePool DEF allocVars, Leased
<1>2. CASE AllocNext
  <2> PICK t \in Tasks : \/ Request(t) \/ TakePermit(t) \/ PopSlot(t)
                         \/ ReturnSlot(t) \/ ReleasePermit(t) \/ Abandon(t)
      BY <1>2 DEF AllocNext
  <2>1. CASE Request(t) \/ TakePermit(t) \/ ReleasePermit(t) \/ Abandon(t)
    <3>1. Leased' = Leased /\ held' = held
        BY <2>1 DEF Inv, AllocTypeOK, Leased, Request, TakePermit, ReleasePermit, Abandon
    <3> QED
        BY <3>1, SameLeasesSamePool
  <2>2. CASE PopSlot(t)
      BY <2>2, PopSlotImplementsTake DEF Pool!Next
  <2>3. CASE ReturnSlot(t)
      BY <2>3, ReturnSlotImplementsGiveBack DEF Pool!Next
  <2> QED
      BY <2>1, <2>2, <2>3
<1> QED
    BY <1>1, <1>2

\* The allocator implements the pool: whatever the interleaving, its leases are
\* the exclusive ownership that execute_cases_parallel and
\* execute_workflows_parallel rely on.
THEOREM AllocatorImplementsPool == AllocSpec => ImplementsPool
<1> QED
    BY InitImplementsPool, NextImplementsPool, AllocatorInv, PTL
    DEF AllocSpec, ImplementsPool, Pool!Spec

-----------------------------------------------------------------------------
(***************************************************************************)
(* The executor.                                                           *)
(***************************************************************************)

\* The first window is filled before anything is joined.
NothingJoinedYet == executor = "filling" => Recorded = {}

\* The cancel flag says that a failure was joined under --fail-fast.
CancelMeansFailure == cancel <=> failFast /\ Failed # {}

\* The window, as the flag sees it.
WindowByFlag ==
    /\ Cardinality(inflight) <= Jobs
    /\ executor = "joining" /\ next < NumTasks /\ ~cancel
        => Cardinality(inflight) = Jobs

\* The inductive invariant of the executor: the allocator's, and how the
\* window, the flag and the reports go together. That a unit is skipped only
\* under --fail-fast follows from the window: an empty JoinSet with units left
\* would be a window left short.
BatchInv ==
    /\ Inv
    /\ TypeOK
    /\ NothingJoinedYet
    /\ CancelMeansFailure
    /\ NoUnitLost
    /\ WindowByFlag

-----------------------------------------------------------------------------
LEMMA FiniteInflight ==
    ASSUME TypeOK
    PROVE  IsFiniteSet(inflight) /\ Cardinality(inflight) \in Nat
    BY FiniteTasks, FS_Subset, FS_CardinalityType DEF TypeOK

\* The next unit, while there is one, is a task.
LEMMA NextIsTask ==
    ASSUME TypeOK, next < NumTasks
    PROVE  next \in Tasks /\ next \in Nat /\ next + 1 \in 0 .. NumTasks
    BY TasksAssumption DEF TypeOK, Tasks

LEMMA TaskIsNat == \A t \in Tasks : t \in Nat
    BY TasksAssumption DEF Tasks

\* The units below n + 1 are those below n, and n.
LEMMA OneMoreUnit ==
    ASSUME NEW n \in Tasks
    PROVE  {t \in Tasks : t < n + 1} = {t \in Tasks : t < n} \cup {n}
<1>1. \A t \in Tasks : t < n + 1 <=> t < n \/ t = n
    BY TaskIsNat
<1>2. ~(n < n) /\ n \in Tasks
    BY TaskIsNat
<1> QED
    BY <1>1, <1>2

\* Whatever the executor and the tasks do, to the allocator it is one of its
\* own steps: run() gives no task another way to a slot.
LEMMA NextIsAllocNext ==
    ASSUME TypeOK, [Next]_vars PROVE [AllocNext]_allocVars
<1>1. CASE UNCHANGED vars
    BY <1>1 DEF vars
<1>2. CASE Fill
    BY <1>2, NextIsTask DEF Fill, AllocNext
<1>3. CASE Finish
    BY <1>3 DEF Finish
<1>4. ASSUME NEW t \in Tasks, JoinReport(t) PROVE [AllocNext]_allocVars
    BY <1>4, NextIsTask DEF JoinReport, Record, Refill, AllocNext
<1>5. ASSUME NEW t \in Tasks, JoinError(t) PROVE [AllocNext]_allocVars
    BY <1>5 DEF JoinError
<1>6. ASSUME NEW t \in Tasks, Task(t) PROVE [AllocNext]_allocVars
    BY <1>6 DEF Task, Acquire, Lease, RunUnit, DropLease, DropPermit,
                AbortWaiting, AllocNext
<1> QED
    BY <1>1, <1>2, <1>3, <1>4, <1>5, <1>6 DEF Next, Executor

-----------------------------------------------------------------------------
LEMMA InitBatchInv == Init => BatchInv
<1> SUFFICES ASSUME Init PROVE BatchInv
    OBVIOUS
<1> USE TasksAssumption, JobsAssumption
<1>1. Inv
    BY InitInv DEF Init
<1>2. TypeOK
  <2>1. failFast \in BOOLEAN /\ cancel \in BOOLEAN
      BY DEF Init
  <2>2. next \in 0 .. NumTasks /\ inflight \in SUBSET Tasks
      BY DEF Init
  <2>3. /\ outcome \in [Tasks -> Outcomes \cup {"none"}]
        /\ reports \in [Tasks -> {"none", "passed", "failed"}]
        /\ executor \in ExecutorStages
      BY DEF Init, ExecutorStages
  <2> QED
      BY <1>1, <2>1, <2>2, <2>3 DEF TypeOK, Inv
<1>3. Recorded = {} /\ Failed = {}
    BY DEF Init, Recorded, Failed
<1>4. \A t \in Tasks : stage[t] = "idle" /\ ~(t < next)
    BY TaskIsNat DEF Init, AllocInit
<1>5. NoUnitLost
    BY <1>3, <1>4 DEF NoUnitLost, Init
<1>6. WindowByFlag
    BY FS_EmptySet DEF WindowByFlag, Init
<1> QED
    BY <1>1, <1>2, <1>3, <1>5, <1>6
    DEF BatchInv, NothingJoinedYet, CancelMeansFailure, Init

\* The first window grows by one unit at a time.
LEMMA FillInv ==
    ASSUME BatchInv, Inv', Fill PROVE BatchInv'
<1> USE TasksAssumption, JobsAssumption
<1>1. TypeOK /\ executor = "filling" /\ Recorded = {} /\ Failed = {} /\ cancel = FALSE
    BY DEF BatchInv, Fill, NothingJoinedYet, CancelMeansFailure, Recorded, Failed, TypeOK
<1>2. Recorded' = {} /\ Failed' = {} /\ cancel' = FALSE
    BY <1>1 DEF Fill, Recorded, Failed
<1>3. CASE next < NumTasks /\ Cardinality(inflight) < Jobs
  <2>1. /\ next' = next + 1 /\ inflight' = inflight \cup {next}
        /\ stage' = [stage EXCEPT ![next] = "waiting"]
        /\ executor' = "filling" /\ next \in Tasks /\ next \in Nat
        /\ next + 1 \in 0 .. NumTasks
        /\ UNCHANGED <<failFast, outcome, reports>>
      BY <1>1, <1>3, NextIsTask DEF Fill, Request
  <2>2. TypeOK'
      BY <1>1, <1>2, <2>1 DEF TypeOK, Inv
  <2>3. Cardinality(inflight') <= Jobs
    <3>1. Cardinality(inflight \cup {next}) <= Cardinality(inflight) + 1
        BY <1>1, FiniteInflight, FS_AddElement
    <3>2. Cardinality(inflight) \in Nat /\ Cardinality(inflight \cup {next}) \in Nat
        BY <1>1, FiniteInflight, FS_AddElement, FS_CardinalityType
    <3> QED
        BY <1>3, <2>1, <3>1, <3>2
  <2>4. \A t \in Tasks : stage'[t] # "idle" <=> t < next'
      BY <1>1, <2>1, TaskIsNat DEF BatchInv, NoUnitLost, TypeOK, AllocTypeOK
  <2>5. inflight' = {t \in Tasks : t < next'}
    <3>1. inflight = {t \in Tasks : t < next}
        BY <1>1 DEF BatchInv, NoUnitLost
    <3> QED
        BY <2>1, <3>1, OneMoreUnit
  <2> QED
      BY <1>2, <2>1, <2>2, <2>3, <2>4, <2>5
      DEF BatchInv, NothingJoinedYet, CancelMeansFailure, NoUnitLost, WindowByFlag
<1>4. CASE ~(next < NumTasks /\ Cardinality(inflight) < Jobs)
  <2>1. /\ executor' = "joining"
        /\ UNCHANGED <<allocVars, failFast, next, inflight, outcome, reports, cancel>>
      BY <1>4 DEF Fill
  <2>2. TypeOK'
      BY <1>1, <2>1 DEF TypeOK, Inv, ExecutorStages
  <2>3. next < NumTasks => Cardinality(inflight) = Jobs
      BY <1>1, <1>4, FiniteInflight DEF BatchInv, WindowByFlag
  <2> QED
      BY <1>1, <1>2, <2>1, <2>2, <2>3
      DEF BatchInv, NothingJoinedYet, CancelMeansFailure, NoUnitLost, WindowByFlag, allocVars
<1> QED
    BY <1>3, <1>4

\* A joined report goes under its own index, and the window is refilled.
LEMMA JoinReportInv ==
    ASSUME BatchInv, Inv', NEW t \in Tasks, JoinReport(t) PROVE BatchInv'
<1> USE TasksAssumption, JobsAssumption
<1>1. /\ TypeOK /\ executor = "joining" /\ t \in inflight
      /\ stage[t] = "over" /\ outcome[t] \in {"passed", "failed"}
      /\ reports' = [reports EXCEPT ![t] = outcome[t]]
      /\ cancel' = CancelAfter(t)
      /\ UNCHANGED <<failFast, outcome, executor>>
      /\ Refill(t, CancelAfter(t))
    BY DEF BatchInv, JoinReport, Record
<1>2. Recorded' = Recorded \cup {t} /\ t \notin Recorded
    BY <1>1 DEF Recorded, TypeOK, BatchInv, NoUnitLost
<1>3. Failed' = IF outcome[t] = "failed" THEN Failed \cup {t} ELSE Failed
    BY <1>1, <1>2 DEF Failed, Recorded, TypeOK
<1>4. CancelMeansFailure'
    BY <1>1, <1>3 DEF CancelMeansFailure, CancelAfter, BatchInv, TypeOK
<1>5. /\ IsFiniteSet(inflight \ {t})
      /\ Cardinality(inflight \ {t}) = Cardinality(inflight) - 1
      /\ Cardinality(inflight) \in Nat
    BY <1>1, FiniteInflight, FS_RemoveElement
<1>6. /\ \A u \in Tasks : stage[u] # "idle" <=> u < next
      /\ inflight \cap Recorded = {}
      /\ inflight \cup Recorded = {u \in Tasks : u < next}
      /\ \A u \in Recorded : reports[u] = outcome[u] /\ stage[u] = "over"
    BY <1>1 DEF BatchInv, NoUnitLost
<1>7. CASE next < NumTasks /\ ~CancelAfter(t)
  <2>1. /\ next' = next + 1 /\ inflight' = (inflight \ {t}) \cup {next}
        /\ stage' = [stage EXCEPT ![next] = "waiting"] /\ stage[next] = "idle"
        /\ next \in Tasks /\ next \in Nat /\ next + 1 \in 0 .. NumTasks
      BY <1>1, <1>7, NextIsTask DEF Refill, Request
  <2>2. next \notin inflight /\ next \notin Recorded /\ next # t
      BY <1>1, <1>6, <2>1
  <2>3. TypeOK'
      BY <1>1, <1>4, <2>1 DEF TypeOK, Inv, CancelAfter, Outcomes
  <2>4. Cardinality(inflight') = Cardinality(inflight)
    <3>1. Cardinality((inflight \ {t}) \cup {next}) = Cardinality(inflight \ {t}) + 1
        BY <1>5, <2>2, FS_AddElement
    <3> QED
        BY <1>5, <2>1, <3>1
  <2>5. \A u \in Tasks : stage'[u] # "idle" <=> u < next'
      BY <1>1, <1>6, <2>1, TaskIsNat DEF TypeOK, AllocTypeOK
  <2>6. inflight' \cap Recorded' = {}
      BY <1>2, <1>6, <2>1, <2>2
  <2>7. inflight' \cup Recorded' = {u \in Tasks : u < next'}
    <3>1. inflight' \cup Recorded' = (inflight \cup Recorded) \cup {next}
        BY <1>1, <1>2, <2>1
    <3> QED
        BY <1>6, <2>1, <3>1, OneMoreUnit
  <2>8. \A u \in Recorded' : reports'[u] = outcome'[u] /\ stage'[u] = "over"
      BY <1>1, <1>2, <1>6, <2>1, <2>2 DEF TypeOK, AllocTypeOK, Recorded
  <2>9. WindowByFlag'
      BY <1>1, <1>7, <2>1, <2>4 DEF BatchInv, WindowByFlag, CancelAfter
  <2> QED
      BY <1>1, <1>4, <2>3, <2>5, <2>6, <2>7, <2>8, <2>9
      DEF BatchInv, NothingJoinedYet, NoUnitLost
<1>8. CASE ~(next < NumTasks /\ ~CancelAfter(t))
  <2>1. inflight' = inflight \ {t} /\ UNCHANGED <<allocVars, next>>
      BY <1>1, <1>8 DEF Refill
  <2>2. TypeOK'
      BY <1>1, <1>4, <2>1 DEF TypeOK, Inv, CancelAfter, Outcomes
  <2>3. inflight' \cap Recorded' = {} /\ inflight' \cup Recorded' = {u \in Tasks : u < next'}
      BY <1>1, <1>2, <1>6, <2>1
  <2>4. \A u \in Recorded' : reports'[u] = outcome'[u] /\ stage'[u] = "over"
      BY <1>1, <1>2, <1>6, <2>1 DEF TypeOK, Recorded, allocVars
  <2>5. WindowByFlag'
      BY <1>1, <1>5, <1>8, <2>1 DEF BatchInv, WindowByFlag
  <2> QED
      BY <1>1, <1>4, <1>6, <2>1, <2>2, <2>3, <2>4, <2>5
      DEF BatchInv, NothingJoinedYet, NoUnitLost, allocVars
<1> QED
    BY <1>7, <1>8

\* The batch ends with Err: nothing is recorded of the task that failed.
LEMMA JoinErrorInv ==
    ASSUME BatchInv, Inv', NEW t \in Tasks, JoinError(t) PROVE BatchInv'
<1> USE JobsAssumption
<1>1. /\ executor' = "err" /\ inflight' = {}
      /\ UNCHANGED <<allocVars, failFast, next, outcome, reports, cancel>>
    BY DEF JoinError
<1>2. TypeOK'
    BY <1>1 DEF BatchInv, TypeOK, Inv, ExecutorStages
<1>3. WindowByFlag'
    BY <1>1, FS_EmptySet DEF WindowByFlag
<1> QED
    BY <1>1, <1>2, <1>3
    DEF BatchInv, NothingJoinedYet, CancelMeansFailure, NoUnitLost, Recorded, Failed, allocVars

\* The batch ends with Ok: the JoinSet is empty, and so were the units left to
\* spawn, or a failure under --fail-fast had closed the window.
LEMMA FinishInv ==
    ASSUME BatchInv, Inv', Finish PROVE BatchInv'
<1> USE JobsAssumption, TasksAssumption
<1>1. /\ executor = "joining" /\ executor' = "ok" /\ inflight = {}
      /\ UNCHANGED <<allocVars, failFast, next, inflight, outcome, reports, cancel>>
    BY DEF Finish
<1>2. TypeOK'
    BY <1>1 DEF BatchInv, TypeOK, Inv, ExecutorStages
<1>3. Cardinality(inflight) # Jobs
    BY <1>1, FS_EmptySet
<1>4. cancel \/ ~(next < NumTasks)
    BY <1>1, <1>3 DEF BatchInv, WindowByFlag
<1>5. ~(next < NumTasks) => Recorded = Tasks
  <2>1. next \in 0 .. NumTasks /\ Recorded = {t \in Tasks : t < next}
      BY <1>1 DEF BatchInv, TypeOK, NoUnitLost
  <2> QED
      BY <2>1 DEF Tasks
<1> QED
    BY <1>1, <1>2, <1>4, <1>5
    DEF BatchInv, NothingJoinedYet, CancelMeansFailure, NoUnitLost, WindowByFlag,
        Recorded, Failed, allocVars

\* A step of a task leaves the executor alone, and a task that has been
\* recorded takes no step.
LEMMA TaskInv ==
    ASSUME BatchInv, Inv', NEW t \in Tasks, Task(t) PROVE BatchInv'
<1>1. /\ stage[t] # "idle" /\ stage[t] # "over" /\ t \notin Recorded
      /\ stage'[t] # "idle"
      /\ \A u \in Tasks \ {t} : stage'[u] = stage[u] /\ outcome'[u] = outcome[u]
      /\ UNCHANGED <<failFast, next, inflight, reports, cancel, executor>>
      /\ outcome' \in [Tasks -> Outcomes \cup {"none"}]
    BY DEF Task, Acquire, Lease, RunUnit, DropLease, DropPermit, AbortWaiting,
           TakePermit, PopSlot, ReturnSlot, ReleasePermit, Abandon, batchVars,
           allocVars, BatchInv, TypeOK, AllocTypeOK, NoUnitLost
<1>2. TypeOK'
    BY <1>1 DEF BatchInv, TypeOK, Inv
<1>3. Recorded' = Recorded /\ Failed' = Failed /\ Recorded \subseteq Tasks
    BY <1>1 DEF Recorded, Failed
<1>4. \A u \in Recorded : u # t /\ u \in Tasks
    BY <1>1 DEF Recorded
<1>5. NoUnitLost'
    BY <1>1, <1>3, <1>4 DEF BatchInv, NoUnitLost
<1> QED
    BY <1>1, <1>2, <1>3, <1>5
    DEF BatchInv, NothingJoinedYet, CancelMeansFailure, WindowByFlag

LEMMA NextBatchInv == BatchInv /\ [Next]_vars => BatchInv'
<1> SUFFICES ASSUME BatchInv, [Next]_vars PROVE BatchInv'
    OBVIOUS
<1>1. Inv'
    BY NextInv, NextIsAllocNext DEF BatchInv
<1>2. CASE UNCHANGED vars
    BY <1>1, <1>2 DEF vars, batchVars, allocVars, BatchInv, TypeOK, Inv,
       NothingJoinedYet, CancelMeansFailure, NoUnitLost, WindowByFlag, Recorded, Failed
<1>3. CASE Next
    BY <1>1, <1>3, FillInv, FinishInv, JoinReportInv, JoinErrorInv, TaskInv
    DEF Next, Executor
<1> QED
    BY <1>2, <1>3

\* The inductive invariant holds throughout.
THEOREM BatchInvHolds == Spec => []BatchInv
<1> QED
    BY InitBatchInv, NextBatchInv, PTL DEF Spec

-----------------------------------------------------------------------------
\* The parallel executors use the allocator as SlotAllocator says, so that all
\* that is proved of AllocSpec holds of a run.
THEOREM BatchUsesAllocator == Spec => AllocSpec
<1>1. Init => AllocInit
    BY DEF Init
<1>2. BatchInv => TypeOK
    BY DEF BatchInv
<1> QED
    BY <1>1, <1>2, BatchInvHolds, NextIsAllocNext, PTL DEF Spec, AllocSpec

\* The state of execute_cases_parallel is well formed.
THEOREM BatchTypeCorrect == Spec => []TypeOK
<1>1. BatchInv => TypeOK
    BY DEF BatchInv
<1> QED
    BY <1>1, BatchInvHolds, PTL

\* No unit is skipped, run twice or recorded under another's index.
THEOREM BatchLosesNoUnit == Spec => []NoUnitLost
<1>1. BatchInv => NoUnitLost
    BY DEF BatchInv
<1> QED
    BY <1>1, BatchInvHolds, PTL

\* At most Jobs units run, and Jobs of them as long as units are left.
THEOREM BatchKeepsWindow == Spec => []WindowKept
<1>1. BatchInv => WindowKept
    BY DEF BatchInv, CancelMeansFailure, WindowByFlag, WindowKept
<1> QED
    BY <1>1, BatchInvHolds, PTL

\* Every task that owns a permit is one the executor has not joined yet; with a
\* waiting task among those, a permit is left.
LEMMA InvImpliesNeverStarved == BatchInv => NeverStarved
<1> SUFFICES ASSUME BatchInv, NumSlots = Jobs, executor # "err",
                    NEW t \in Tasks, stage[t] = "waiting"
             PROVE  permits > 0
    BY DEF NeverStarved
<1> USE JobsAssumption
<1>1. \A u \in Tasks : stage[u] \notin {"idle", "over"} => u \in inflight
    BY DEF BatchInv, NoUnitLost
<1>2. Permitted \in SUBSET (inflight \ {t}) /\ t \in inflight
    BY <1>1 DEF Permitted
<1>3. /\ IsFiniteSet(inflight \ {t})
      /\ Cardinality(inflight \ {t}) = Cardinality(inflight) - 1
    BY <1>2, FiniteInflight, FS_RemoveElement DEF BatchInv
<1>4. Cardinality(Permitted) <= Cardinality(inflight) - 1
    BY <1>2, <1>3, FS_Subset
<1>5. Cardinality(inflight) <= Jobs /\ Cardinality(inflight) \in Nat
    BY FiniteInflight DEF BatchInv, WindowByFlag
<1>6. permits \in Nat /\ permits + Cardinality(Permitted) = Jobs
    BY DEF BatchInv, Inv, AllocTypeOK, Conservation
<1> QED
    BY <1>4, <1>5, <1>6, FiniteTasks

\* With a slot per job no task of the run ever waits for another's slot.
THEOREM BatchNeverStarves == Spec => []NeverStarved
<1> QED
    BY InvImpliesNeverStarved, BatchInvHolds, PTL

\* No unit is spawned by a step that leaves a failure under --fail-fast behind.
LEMMA NextFailFastStops ==
    ASSUME BatchInv, [Next]_vars, failFast, Failed' # {}
    PROVE  next' = next
<1>1. CASE Fill
  <2>1. Failed' = {}
      BY <1>1 DEF Fill, BatchInv, NothingJoinedYet, Recorded, Failed
  <2> QED
      BY <2>1
<1>2. ASSUME NEW t \in Tasks, JoinReport(t) PROVE next' = next
  <2>1. reports' = [reports EXCEPT ![t] = outcome[t]] /\ Refill(t, CancelAfter(t))
      BY <1>2 DEF JoinReport, Record
  <2>2. CancelAfter(t)
      BY <2>1 DEF Failed, CancelAfter, BatchInv, CancelMeansFailure, TypeOK
  <2> QED
      BY <2>1, <2>2 DEF Refill
<1>3. CASE Finish \/ UNCHANGED vars
    BY <1>3 DEF Finish, vars, batchVars
<1>4. ASSUME NEW t \in Tasks, JoinError(t) \/ Task(t) PROVE next' = next
    BY <1>4 DEF JoinError, Task, Acquire, Lease, RunUnit, DropLease, DropPermit,
                AbortWaiting, batchVars
<1> QED
    BY <1>1, <1>2, <1>3, <1>4 DEF Next, Executor

\* --fail-fast: once a failure is joined, no unit is spawned, whatever the jobs.
THEOREM BatchFailFastStops == Spec => FailFastStops
<1>1. BatchInv /\ [Next]_vars => [failFast /\ Failed' # {} => next' = next]_vars
    BY NextFailFastStops
<1> QED
    BY <1>1, BatchInvHolds, PTL DEF Spec, FailFastStops
=============================================================================
