------------------------------ MODULE Callbacks ------------------------------
(***************************************************************************)
(* CallbackRuntime of cli/src/callback.rs, as the units that share it and  *)
(* the mock server on the same slot use it. A callback is scheduled in two *)
(* steps (an id is drawn from an atomic counter and its task is spawned;   *)
(* the task's handle is pushed under the mutex), by the step list of the   *)
(* unit that runs or by a handler of the mock server. When a unit ends,    *)
(* flush() takes the handles pushed so far, awaits them in that order and  *)
(* sorts their reports by id. The mock server answers all the while: the   *)
(* application calls it when a callback reaches it, or by itself.          *)
(*                                                                         *)
(* A unit is a case or workflow on a leased slot, a workflow of a serial   *)
(* batch, or a whole serial case run: each ends in one flush().            *)
(***************************************************************************)
EXTENDS Naturals, Sequences, FiniteSets, SequencesExt

CONSTANTS
    Runner,         \* the task that runs the units
    Handlers,       \* the mock server's handlers
    NumUnits,       \* the units that run on this runtime, one after another
    MaxCallbacks    \* the bound on the ids that are drawn

ASSUME RunnerAssumption == Runner \notin Handlers
ASSUME UnitsAssumption == NumUnits \in Nat \ {0} /\ MaxCallbacks \in Nat

VARIABLES
    nextId,     \* next_id, counted from 1
    drawn,      \* drawn[a]: the id actor a has in schedule(), or 0
    job,        \* job[c]: the task of callback c
    source,     \* source[c]: who scheduled it, and while which unit ran
    pending,    \* the handles that are pushed
    taken,      \* the handles that flush() has still to await
    collected,  \* the reports of the ones it has awaited
    reports,    \* reports[u]: the `callbacks` of unit u's report
    unit,       \* the unit that runs
    phase       \* where the runner is

vars == <<nextId, drawn, job, source, pending, taken, collected, reports, unit, phase>>

Actors == Handlers \cup {Runner}
Units == 1 .. NumUnits
Ids == 1 .. MaxCallbacks
Drawn == 1 .. nextId - 1

Phases == {
    "steps",    \* the steps of the unit run
    "flushing", \* its flush() is awaiting
    "finished", \* the last report is made, the environment is torn down
    "down" }    \* the mock server is shut down and the process exits

\* A callback's task ends in Ok (delivered, or failed to), or panics.
Ended == {"passed", "failed", "panicked"}

\* What flush() reports of callback c: a join error is a failed callback.
ReportOf(c) == [id |-> c, status |-> IF job[c] = "passed" THEN "passed" ELSE "failed"]

\* The ids are distinct, so a report stands where as many are smaller.
Smaller(s, id) == {j \in DOMAIN s : s[j].id < id}
SortById(s) ==
    [i \in DOMAIN s |-> CHOOSE r \in ToSet(s) : Cardinality(Smaller(s, r.id)) = i - 1]

-----------------------------------------------------------------------------
Init ==
    /\ nextId = 1
    /\ drawn = [a \in Actors |-> 0]
    /\ job = [c \in Ids |-> "none"]
    /\ source = [c \in Ids |-> [actor |-> Runner, unit |-> 0]]
    /\ pending = <<>> /\ taken = <<>> /\ collected = <<>>
    /\ reports = [u \in Units |-> <<>>]
    /\ unit = 1
    /\ phase = "steps"

\* schedule(): fetch_add and spawn. The runner does so in a callback step; a
\* handler of the mock server whenever the application calls it.
Draw(a) ==
    /\ drawn[a] = 0 /\ nextId <= MaxCallbacks
    /\ IF a = Runner THEN phase = "steps" ELSE phase # "down"
    /\ nextId' = nextId + 1
    /\ drawn' = [drawn EXCEPT ![a] = nextId]
    /\ job' = [job EXCEPT ![nextId] = "running"]
    /\ source' = [source EXCEPT ![nextId] = [actor |-> a, unit |-> unit]]
    /\ UNCHANGED <<pending, taken, collected, reports, unit, phase>>

\* Mutation: the handle of the last callback replaces the others.
PushOver(a) ==
    /\ drawn[a] # 0
    /\ pending' = <<drawn[a]>>
    /\ drawn' = [drawn EXCEPT ![a] = 0]
    /\ UNCHANGED <<nextId, job, source, taken, collected, reports, unit, phase>>

\* schedule(): the handle is pushed under the mutex.
Push(a) ==
    /\ drawn[a] # 0
    /\ pending' = Append(pending, drawn[a])
    /\ drawn' = [drawn EXCEPT ![a] = 0]
    /\ UNCHANGED <<nextId, job, source, taken, collected, reports, unit, phase>>

\* execute_callback: after its delay the request is sent and answered, or the
\* client's timeout ends it, or the task panics.
Deliver(c) ==
    /\ job[c] = "running" /\ phase # "down"
    /\ \E outcome \in Ended : job' = [job EXCEPT ![c] = outcome]
    /\ UNCHANGED <<nextId, drawn, source, pending, taken, collected, reports, unit, phase>>

-----------------------------------------------------------------------------
\* Mutation: pending.clone() for mem::take.
TakePendingClone ==
    /\ phase = "steps" /\ drawn[Runner] = 0
    /\ taken' = pending
    /\ phase' = "flushing"
    /\ UNCHANGED <<nextId, drawn, job, source, pending, collected, reports, unit>>

\* flush(): the unit's steps are over; the handles are taken under the mutex.
TakePending ==
    /\ phase = "steps" /\ drawn[Runner] = 0
    /\ taken' = pending
    /\ pending' = <<>>
    /\ phase' = "flushing"
    /\ UNCHANGED <<nextId, drawn, job, source, collected, reports, unit>>

\* Mutation: only a task that has not panicked has something to report.
AwaitOk ==
    /\ phase = "flushing" /\ taken # <<>>
    /\ job[Head(taken)] \in {"passed", "failed"}
    /\ collected' = Append(collected, ReportOf(Head(taken)))
    /\ taken' = Tail(taken)
    /\ UNCHANGED <<nextId, drawn, job, source, pending, reports, unit, phase>>

\* flush(): the next handle is awaited.
Await ==
    /\ phase = "flushing" /\ taken # <<>>
    /\ job[Head(taken)] \in Ended
    /\ collected' = Append(collected, ReportOf(Head(taken)))
    /\ taken' = Tail(taken)
    /\ UNCHANGED <<nextId, drawn, job, source, pending, reports, unit, phase>>

\* What a unit's report is made of, and what comes after it: another unit, or
\* the end (the last unit, or a failure under --fail-fast).
Report(s) ==
    /\ phase = "flushing" /\ taken = <<>>
    /\ reports' = [reports EXCEPT ![unit] = s]
    /\ collected' = <<>>
    /\ \/ unit < NumUnits /\ unit' = unit + 1 /\ phase' = "steps"
       \/ unit' = unit /\ phase' = "finished"
    /\ UNCHANGED <<nextId, drawn, job, source, pending, taken>>

\* Mutation: the reports stay in the order of the handles.
FlushReturnUnsorted == Report(collected)

\* flush() returns the reports sorted by id.
FlushReturn == Report(SortById(collected))

\* MockServerHandle::shutdown, then the process exits: the handlers that were
\* answering have ended, and the tasks that still run are dropped.
Shutdown ==
    /\ phase = "finished"
    /\ \A h \in Handlers : drawn[h] = 0
    /\ phase' = "down"
    /\ job' = [c \in Ids |-> IF job[c] = "running" THEN "dropped" ELSE job[c]]
    /\ UNCHANGED <<nextId, drawn, source, pending, taken, collected, reports, unit>>

Flush == TakePending \/ Await \/ FlushReturn \/ Shutdown

Next ==
    \/ \E a \in Actors : Draw(a) \/ Push(a)
    \/ \E c \in Ids : Deliver(c)
    \/ Flush

Spec == Init /\ [][Next]_vars

\* The runner and the handlers go on; a delivery ends, if only by the client's
\* timeout. Nothing obliges the application to call a mock.
Fairness ==
    /\ WF_vars(Flush)
    /\ \A a \in Actors : WF_vars(Push(a))
    /\ \A c \in Ids : WF_vars(Deliver(c))

FairSpec == Spec /\ Fairness

-----------------------------------------------------------------------------
TypeOK ==
    /\ nextId \in 1 .. MaxCallbacks + 1
    /\ drawn \in [Actors -> Ids \cup {0}]
    /\ job \in [Ids -> Ended \cup {"none", "running", "dropped"}]
    /\ source \in [Ids -> [actor : Actors, unit : 0 .. NumUnits]]
    /\ {pending, taken} \subseteq Seq(Ids)
    /\ reports \in [Units -> Seq([id : Ids, status : {"passed", "failed"}])]
    /\ collected \in Seq([id : Ids, status : {"passed", "failed"}])
    /\ unit \in Units
    /\ phase \in Phases

IdsOf(s) == {s[i].id : i \in DOMAIN s}

\* The reports made so far, those flush() has in hand among them.
Reported(c) == c \in IdsOf(collected) \/ \E u \in Units : c \in IdsOf(reports[u])

\* Where callback c is: with an actor in schedule(), among the handles, the reports
\* that flush() has in hand, or in the report of a unit.
PlacesOf(c) ==
    ({"schedule"} \X {a \in Actors : drawn[a] = c})
        \cup ({"pending"} \X {i \in DOMAIN pending : pending[i] = c})
        \cup ({"taken"} \X {i \in DOMAIN taken : taken[i] = c})
        \cup ({"collected"} \X {i \in DOMAIN collected : collected[i].id = c})
        \cup ({"report"} \X {u \in Units : c \in IdsOf(reports[u])})

\* A callback that has been spawned is never lost or doubled inside the
\* runtime: its handle is in one place of schedule(), pending, the running
\* flush() and the reports, and no two reports name it.
OnePlace == \A c \in Ids : Cardinality(PlacesOf(c)) = IF c \in Drawn THEN 1 ELSE 0

\* The callbacks that a unit's own steps scheduled are in that unit's report,
\* and what else is there was scheduled by the mock server.
OwnCallbacksReported ==
    \A c \in Drawn : source[c].actor = Runner =>
        /\ source[c].unit < unit \/ phase \in {"finished", "down"}
               => c \in IdsOf(reports[source[c].unit])
        /\ \A u \in Units : c \in IdsOf(reports[u]) => u = source[c].unit

\* A report lists its callbacks by id, whatever the order of the pushes, and
\* says "passed" of those whose delivery was answered with success only.
ReportsFaithful ==
    \A u \in Units :
        /\ \A i, j \in DOMAIN reports[u] : i < j => reports[u][i].id < reports[u][j].id
        /\ \A i \in DOMAIN reports[u] :
               reports[u][i].status = "passed" <=> job[reports[u][i].id] = "passed"

\* flush() ends and so does the run, though the mock server goes on scheduling.
RunEnds == <>(phase = "down")

\* "The real delivery result appears in the `callbacks` list of the final
\* report" (docs/guide/callbacks.md), of a callback scheduled by a mock route as
\* of a case's: one that was scheduled and delivered by the time the last report
\* is made is in a report.
DeliveredIsReported ==
    [][phase' = "finished" /\ phase # "finished" =>
         \A c \in Drawn \ {drawn[a] : a \in Actors} :
             job[c] = "passed" => Reported(c)]_vars
=============================================================================
