---------------------------- MODULE SlotAllocator ----------------------------
(***************************************************************************)
(* SlotAllocator and SlotLease of cli/src/runner.rs: a tokio semaphore     *)
(* with one permit per slot guards a mutex-protected deque of free slot    *)
(* ids. Getting a slot is two steps (permit, then pop_front), and so is    *)
(* giving it back: SlotLease::drop pushes the id, and only then are the    *)
(* fields of the lease dropped, the permit among them. Tasks on other      *)
(* threads run between the two.                                            *)
(*                                                                         *)
(* The module says what the tasks may do to the allocator; ParallelBatch   *)
(* says when the tasks of a run do it.                                     *)
(***************************************************************************)
EXTENDS Naturals, Sequences, FiniteSets

CONSTANTS
    NumSlots,   \* how many slots the environment session prepared
    NumTasks,   \* how many units (cases or workflows) the run holds
    NoSlot      \* what a task that leases nothing holds

ASSUME SlotsAssumption == NumSlots \in Nat \ {0}
ASSUME TasksAssumption == NumTasks \in Nat
ASSUME NoSlotAssumption == NoSlot \notin Nat

Slots == 0 .. NumSlots - 1
Tasks == 0 .. NumTasks - 1

VARIABLES
    available,  \* the deque of free slot ids
    permits,    \* the permits left in the semaphore
    stage,      \* stage[t]: how far task t has come through its lease
    held        \* held[t]: the slot in the lease of task t

allocVars == <<available, permits, stage, held>>

Stages == {
    "idle",      \* the task has not been spawned
    "waiting",   \* in acquire(), before the semaphore
    "permitted", \* in acquire(), the permit taken and no slot popped yet
    "leased",    \* owns a SlotLease
    "returned",  \* the slot is pushed back, the permit not released yet
    "over",      \* the task has ended and owns nothing
    "refused" }  \* acquire() failed: no slot was available

\* The tasks that own a permit, and those that own a slot as well.
Permitted == {t \in Tasks : stage[t] \in {"permitted", "leased", "returned"}}
Leased == {t \in Tasks : stage[t] = "leased"}

-----------------------------------------------------------------------------
\* A deque that is one slot short of the permits.
AllocInitShort ==
    /\ available = [i \in 1 .. NumSlots - 1 |-> i - 1]
    /\ permits = NumSlots
    /\ stage = [t \in Tasks |-> "idle"]
    /\ held = [t \in Tasks |-> NoSlot]

\* SlotAllocator::new: every slot is in the deque, in order, with its permit.
AllocInit ==
    /\ available = [i \in 1 .. NumSlots |-> i - 1]
    /\ permits = NumSlots
    /\ stage = [t \in Tasks |-> "idle"]
    /\ held = [t \in Tasks |-> NoSlot]

\* A spawned task calls acquire() and waits for a permit.
Request(t) ==
    /\ stage[t] = "idle"
    /\ stage' = [stage EXCEPT ![t] = "waiting"]
    /\ UNCHANGED <<available, permits, held>>

\* acquire_owned().await returns a permit.
TakePermit(t) ==
    /\ stage[t] = "waiting"
    /\ permits > 0
    /\ permits' = permits - 1
    /\ stage' = [stage EXCEPT ![t] = "permitted"]
    /\ UNCHANGED <<available, held>>

\* Under the mutex: pop_front, or an error that drops the permit again.
PopSlot(t) ==
    /\ stage[t] = "permitted"
    /\ IF available = <<>>
       THEN /\ stage' = [stage EXCEPT ![t] = "refused"]
            /\ permits' = permits + 1
            /\ UNCHANGED <<available, held>>
       ELSE /\ held' = [held EXCEPT ![t] = Head(available)]
            /\ available' = Tail(available)
            /\ stage' = [stage EXCEPT ![t] = "leased"]
            /\ UNCHANGED permits

\* An explicit give-back besides the one in drop().
ReturnSlotTwice(t) ==
    /\ stage[t] = "leased"
    /\ available' = available \o <<held[t], held[t]>>
    /\ held' = [held EXCEPT ![t] = NoSlot]
    /\ stage' = [stage EXCEPT ![t] = "returned"]
    /\ UNCHANGED permits

\* SlotLease::drop: push_back the slot id.
ReturnSlot(t) ==
    /\ stage[t] = "leased"
    /\ available' = Append(available, held[t])
    /\ held' = [held EXCEPT ![t] = NoSlot]
    /\ stage' = [stage EXCEPT ![t] = "returned"]
    /\ UNCHANGED permits

\* The permit is forgotten (OwnedSemaphorePermit::forget).
ForgetPermit(t) ==
    /\ stage[t] = "returned"
    /\ stage' = [stage EXCEPT ![t] = "over"]
    /\ UNCHANGED <<available, permits, held>>

\* The fields of the lease are dropped: the permit goes back.
ReleasePermit(t) ==
    /\ stage[t] = "returned"
    /\ permits' = permits + 1
    /\ stage' = [stage EXCEPT ![t] = "over"]
    /\ UNCHANGED <<available, held>>

\* The future of a task still waiting for its permit is dropped.
Abandon(t) ==
    /\ stage[t] = "waiting"
    /\ stage' = [stage EXCEPT ![t] = "over"]
    /\ UNCHANGED <<available, permits, held>>

AllocNext ==
    \E t \in Tasks :
        \/ Request(t)
        \/ TakePermit(t)
        \/ PopSlot(t)
        \/ ReturnSlot(t)
        \/ ReleasePermit(t)
        \/ Abandon(t)

AllocSpec == AllocInit /\ [][AllocNext]_allocVars

-----------------------------------------------------------------------------
AllocTypeOK ==
    /\ available \in Seq(Slots)
    /\ permits \in 0 .. NumSlots
    /\ stage \in [Tasks -> Stages]
    /\ held \in [Tasks -> Slots \cup {NoSlot}]

\* Two tasks never run on the same slot: each slot's containers, callback
\* runtime and mock server serve one unit at a time. It takes the deque, the
\* permits and every lease together: no slot may be free and leased, or free
\* twice, or lost.
SlotExclusive ==
    /\ \A t, u \in Leased : held[t] = held[u] => t = u
    /\ \A t \in Leased : \A i \in 1 .. Len(available) : available[i] # held[t]
    /\ \A i, j \in 1 .. Len(available) : available[i] = available[j] => i = j

\* acquire() never fails with "no slot available after acquiring permit":
\* drop() pushes the slot before the permit it guards is released, so every
\* permit that was granted has a slot behind it.
PermitMeansSlot ==
    /\ \A t \in Tasks : stage[t] # "refused"
    /\ \A t \in Tasks : stage[t] = "permitted" => available # <<>>

\* The permits and the deque agree on what is out, through the windows in
\* which a task owns one of the two only.
Conservation ==
    /\ permits + Cardinality(Permitted) = NumSlots
    /\ Len(available) + Cardinality(Leased) = NumSlots

\* The pool of owned slots that the deque and the leases amount to.
Owner(s) ==
    IF \E t \in Leased : held[t] = s
    THEN CHOOSE t \in Leased : held[t] = s
    ELSE NoSlot

Pool == INSTANCE SlotPool WITH
            Slots <- Slots, Users <- Tasks, Nobody <- NoSlot,
            owner <- [s \in Slots |-> Owner(s)]

\* Every step of the allocator is a Take, a GiveBack or nothing to the pool.
ImplementsPool == Pool!Spec
=============================================================================
