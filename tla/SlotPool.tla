------------------------------ MODULE SlotPool ------------------------------
(***************************************************************************)
(* What the slot allocator of runner.rs promises to the tasks that run     *)
(* cases or workflows: a slot (one isolated environment with its own       *)
(* containers, callback runtime and mock server) belongs to at most one    *)
(* task, a task takes a slot nobody owns, and gives back the one it took.  *)
(* How permits and the deque of free slots achieve it is not said here.    *)
(***************************************************************************)
CONSTANTS
    Slots,      \* the slots of the pool
    Users,      \* the tasks that lease them
    Nobody      \* the owner of a free slot, no member of Users

VARIABLE owner  \* owner[s]: the task that leases slot s, or Nobody

Init == owner = [s \in Slots |-> Nobody]

\* User u becomes the owner of a free slot; it owned none.
Take(u, s) ==
    /\ owner[s] = Nobody
    /\ \A r \in Slots : owner[r] # u
    /\ owner' = [owner EXCEPT ![s] = u]

\* User u gives the slot back.
GiveBack(u, s) ==
    /\ owner[s] = u
    /\ owner' = [owner EXCEPT ![s] = Nobody]

Next == \E u \in Users, s \in Slots : Take(u, s) \/ GiveBack(u, s)

Spec == Init /\ [][Next]_owner
=============================================================================
