---------------------------- MODULE ParallelBatch ----------------------------
(***************************************************************************)
(* execute_cases_parallel and execute_workflows_parallel of                *)
(* cli/src/runner.rs: a window of at most Jobs tokio tasks in a JoinSet,   *)
(* one unit (case or workflow) per task, each task on a slot it leases.    *)
(* The executor joins the tasks in the order they end, refills the window, *)
(* stops refilling after a failure under --fail-fast, and returns at once  *)
(* when a task could not be joined or returned an error: the JoinSet is    *)
(* dropped, and every task still in it is told to abort.                   *)
(*                                                                         *)
(* Every spawned task runs by itself: its steps interleave with those of   *)
(* the executor and of the other tasks.                                    *)
(***************************************************************************)
EXTENDS SlotAllocator

CONSTANT
    Jobs        \* the window: `jobs` of resolve_parallel_jobs

ASSUME JobsAssumption == Jobs \in Nat \ {0}

VARIABLES
    failFast,   \* --fail-fast, fixed for the run
    next,       \* next_index: the first unit that has not been spawned
    inflight,   \* the tasks in the JoinSet
    outcome,    \* outcome[t]: how the unit of task t ended
    reports,    \* reports[t]: what the executor has recorded of unit t
    cancel,     \* the cancel flag
    executor    \* where the executor is

batchVars == <<failFast, next, inflight, outcome, reports, cancel, executor>>
vars == <<allocVars, batchVars>>

\* "error" is a unit that returned Err or panicked: it has no report.
Outcomes == {"passed", "failed", "error"}
ExecutorStages == {"filling", "joining", "ok", "err"}

Recorded == {t \in Tasks : reports[t] # "none"}
Failed == {t \in Tasks : reports[t] = "failed"}

\* What is left for an aborted task to do is to drop what it owns.
Aborted(t) == executor = "err" /\ stage[t] \in {"waiting", "leased"}

-----------------------------------------------------------------------------
Init ==
    /\ AllocInit
    /\ failFast \in BOOLEAN
    /\ next = 0
    /\ inflight = {}
    /\ outcome = [t \in Tasks |-> "none"]
    /\ reports = [t \in Tasks |-> "none"]
    /\ cancel = FALSE
    /\ executor = "filling"

\* The first window: one spawn at a time, while earlier tasks already run.
Fill ==
    /\ executor = "filling"
    /\ IF next < NumTasks /\ Cardinality(inflight) < Jobs
       THEN /\ Request(next)
            /\ next' = next + 1
            /\ inflight' = inflight \cup {next}
            /\ UNCHANGED executor
       ELSE /\ executor' = "joining"
            /\ UNCHANGED <<allocVars, next, inflight>>
    /\ UNCHANGED <<failFast, outcome, reports, cancel>>

\* What join_next() makes of the report of task t: the next unit is spawned
\* in its place unless none is left or `stop` says that the run is cancelled.
Refill(t, stop) ==
    IF next < NumTasks /\ ~stop
    THEN /\ Request(next)
         /\ next' = next + 1
         /\ inflight' = (inflight \ {t}) \cup {next}
    ELSE /\ inflight' = inflight \ {t}
         /\ UNCHANGED <<allocVars, next>>

\* The report of task t is put at index i, `flag` becomes the cancel flag.
Record(t, i, flag, stop) ==
    /\ executor = "joining"
    /\ t \in inflight /\ outcome[t] \in {"passed", "failed"}
    /\ reports' = [reports EXCEPT ![i] = outcome[t]]
    /\ cancel' = flag
    /\ Refill(t, stop)
    /\ UNCHANGED <<failFast, outcome, executor>>

CancelAfter(t) == cancel \/ (outcome[t] = "failed" /\ failFast)

\* Mutations: the flag is read before the joined report sets it; any failure
\* sets it; the report goes where the count of completed units points; the
\* result leaves the task before its lease is dropped.
JoinReportStaleFlag(t) ==
    stage[t] = "over" /\ Record(t, t, CancelAfter(t), cancel)
JoinReportCancels(t) ==
    stage[t] = "over" /\ Record(t, t, outcome[t] = "failed", outcome[t] = "failed")
JoinReportByCompletion(t) ==
    stage[t] = "over" /\ Record(t, Cardinality(Recorded), CancelAfter(t), CancelAfter(t))
JoinReportBeforeDrop(t) ==
    Record(t, t, CancelAfter(t), CancelAfter(t))

\* join_next() yields the report of task t, which has dropped all it owned.
JoinReport(t) ==
    stage[t] = "over" /\ Record(t, t, CancelAfter(t), CancelAfter(t))

\* join_next() yields an error: `??` leaves the function and drops the JoinSet.
JoinError(t) ==
    /\ executor = "joining"
    /\ t \in inflight
    /\ \/ stage[t] = "refused"
       \/ stage[t] = "over" /\ outcome[t] = "error"
    /\ executor' = "err"
    /\ inflight' = {}
    /\ UNCHANGED <<allocVars, failFast, next, outcome, reports, cancel>>

\* join_next() yields None: the report is aggregated and returned.
Finish ==
    /\ executor = "joining"
    /\ inflight = {}
    /\ executor' = "ok"
    /\ UNCHANGED <<allocVars, failFast, next, inflight, outcome, reports, cancel>>

-----------------------------------------------------------------------------
\* The steps of task t. An aborted task can still complete the unit it is in
\* the middle of: abort takes effect at an await.
Acquire(t) == TakePermit(t) /\ UNCHANGED batchVars

Lease(t) == PopSlot(t) /\ UNCHANGED batchVars

\* The unit runs to its end on the leased slot (Runner::execute of one case,
\* or execute_workflow).
RunUnit(t) ==
    /\ stage[t] = "leased"
    /\ outcome[t] = "none"
    /\ \E o \in Outcomes : outcome' = [outcome EXCEPT ![t] = o]
    /\ UNCHANGED <<allocVars, failFast, next, inflight, reports, cancel, executor>>

\* The unit has ended, or the abort cuts it: its lease is dropped.
DropLease(t) ==
    /\ outcome[t] # "none" \/ Aborted(t)
    /\ ReturnSlot(t)
    /\ UNCHANGED batchVars

DropPermit(t) == ReleasePermit(t) /\ UNCHANGED batchVars

\* The abort reaches a task that waits for its permit.
AbortWaiting(t) == Aborted(t) /\ Abandon(t) /\ UNCHANGED batchVars

Executor == Fill \/ Finish \/ \E t \in Tasks : JoinReport(t) \/ JoinError(t)

Task(t) ==
    \/ Acquire(t)
    \/ Lease(t)
    \/ RunUnit(t)
    \/ DropLease(t)
    \/ DropPermit(t)
    \/ AbortWaiting(t)

Next == Executor \/ \E t \in Tasks : Task(t)

\* tokio polls the executor and every task that can run; a unit ends (its
\* requests have a timeout, and a query or an exec is assumed to return).
Fairness == WF_vars(Executor) /\ \A t \in Tasks : WF_vars(Task(t))

Spec == Init /\ [][Next]_vars
FairSpec == Spec /\ Fairness

-----------------------------------------------------------------------------
TypeOK ==
    /\ AllocTypeOK
    /\ failFast \in BOOLEAN
    /\ next \in 0 .. NumTasks
    /\ inflight \in SUBSET Tasks
    /\ outcome \in [Tasks -> Outcomes \cup {"none"}]
    /\ reports \in [Tasks -> {"none", "passed", "failed"}]
    /\ cancel \in BOOLEAN
    /\ executor \in ExecutorStages

\* No unit is run twice or skipped: the units spawned are the first ones in
\* order; each of them is in the JoinSet or recorded under its own index with
\* the outcome its task returned, unless the executor left with an error; and
\* when it returns Ok, a unit without a report means a failure under
\* --fail-fast.
NoUnitLost ==
    /\ \A t \in Tasks : stage[t] # "idle" <=> t < next
    /\ executor # "err" =>
        /\ inflight \cap Recorded = {}
        /\ inflight \cup Recorded = {t \in Tasks : t < next}
    /\ \A t \in Recorded : reports[t] = outcome[t] /\ stage[t] = "over"
    /\ executor = "ok" => Recorded = Tasks \/ (failFast /\ Failed # {})

\* The window is never exceeded, and never left short while units remain: as
\* long as nothing failed under --fail-fast, a task that is joined is replaced
\* by the next unit, whatever became of its own.
WindowKept ==
    /\ Cardinality(inflight) <= Jobs
    /\ executor = "joining" /\ next < NumTasks /\ ~(failFast /\ Failed # {})
        => Cardinality(inflight) = Jobs

\* With as many slots as jobs, which is how run() calls the executor, a task
\* never waits for the slot of another: the lease of a task is dropped before
\* the executor can join it, so the pool has a permit for each one it spawns.
NeverStarved ==
    NumSlots = Jobs /\ executor # "err" =>
        \A t \in Tasks : stage[t] = "waiting" => permits > 0

\* --fail-fast: no unit is spawned once the executor has seen a failure, not
\* even in place of the unit that failed.
FailFastStops ==
    [][failFast /\ Failed' # {} => next' = next]_vars

\* The executor returns, and every slot and permit comes back, those of the
\* tasks it aborted included.
EverySlotComesBack ==
    <>[](executor \in {"ok", "err"} /\ permits = NumSlots /\ Len(available) = NumSlots)
=============================================================================
