---------------------------- MODULE RunLifecycle ----------------------------
(***************************************************************************)
(* run and run_workflow of cli/src/runner.rs over the EnvironmentSession   *)
(* of cli/src/environment.rs: the containers and networks of every slot    *)
(* are created one by one, readiness is checked, the log captures and the  *)
(* mock servers are started, the units run, and the session is finished:   *)
(* logs are collected, then everything is removed as the cleanup policy    *)
(* says, and the report decides the exit code. Every step of it may fail.  *)
(*                                                                         *)
(* The units are one step here with one of their outcomes; ParallelBatch   *)
(* and WorkflowRun say what happens in it. Docker is external: what exists *)
(* in it is a set of resources. Polling says how a check waits.            *)
(***************************************************************************)
EXTENDS Polling, Sequences, FiniteSets, SequencesExt

CONSTANTS
    MaxJobs,        \* the most slots requested of the session
    NumServices,    \* the services of environment.runtime, one container each
    Commands        \* what is run: a subset of {"cases", "workflow", "batch"}

ASSUME SizesAssumption == MaxJobs \in Nat \ {0} /\ NumServices \in Nat
ASSUME CommandsAssumption == Commands \subseteq {"cases", "workflow", "batch"}

VARIABLES
    jobs,       \* the slots of the session: the parallel jobs that were resolved
    command,    \* cases, one workflow, or a batch of workflows
    runtime,    \* environment.runtime.kind, or "none"
    policy,     \* its cleanup policy
    withMock,   \* is the embedded mock server to be started?
    earlier,    \* what an earlier run under the same network_name left in Docker
    exists,     \* what exists in Docker under the names of this run
    made,       \* how many of Plan start_containers has made
    known,      \* the resources the session knows, in the order it made them
    invoked,    \* runtime_invoked
    ready,      \* the slots whose readiness checks passed
    monitors,   \* the slots with a log capture running (active_logs)
    mocks,      \* the slots whose mock server runs
    logs,       \* how collect_logs fared with the slots so far
    stuck,      \* what Docker would not remove
    verdict,    \* how the execution ended
    stage,      \* where run or run_workflow is
    exit        \* the exit code

Slots == 0 .. jobs - 1

\* Service 0 stands for the network of the slot.
Resources == Slots \X (0 .. NumServices)

\* The order in which start_containers makes the resources.
Plan == [i \in 1 .. jobs * (NumServices + 1) |->
            <<(i - 1) \div (NumServices + 1), (i - 1) % (NumServices + 1)>>]

config == <<jobs, command, runtime, policy, withMock, earlier>>
runVars == <<config, exists, made, known, invoked, ready, monitors, mocks, logs, stuck,
             verdict, stage, exit>>
vars == <<poll, runVars>>

Policies == {"always", "on_success", "never"}

Stages == {"starting", "waiting", "readiness", "captures", "mocks", "executing", "collect", "shutdown",
           "removing", "finalize", "report", "exited"}

\* "failed" is a run with failed units or, of cases, failed callbacks only;
\* "error" one without a report.
Verdicts == {"none", "passed", "failed", "error"}

Networks == Slots \X {0}

\* What stop_containers may have left: a network outlasts its containers.
Leftovers == {left \in SUBSET Resources : \A r \in left : <<r[1], 0>> \in left}

\* The resources that the run is meant to have.
Wanted == IF runtime = "none" THEN {} ELSE Resources

-----------------------------------------------------------------------------
Init ==
    /\ command \in Commands
    /\ runtime \in {"containers", "docker_compose", "none"}
    /\ jobs \in 1 .. MaxJobs
    /\ jobs > 1 => runtime = "containers" /\ command # "workflow"
    /\ policy \in Policies
    /\ withMock \in BOOLEAN
    /\ earlier \in (IF runtime = "containers" THEN Leftovers ELSE {{}})
    /\ exists = earlier /\ made = 0 /\ known = <<>> /\ invoked = FALSE
    /\ ready = {} /\ monitors = {} /\ mocks = {} /\ logs = <<>> /\ stuck = {}
    /\ verdict = "none"
    /\ stage = "starting"
    /\ exit = "none"
    /\ poll = Idle

\* prepare(), or what comes after it, fails: the session is finished.
Fail == verdict' = "error" /\ stage' = "collect"

\* start_containers: the image of the next service, its name, or Docker itself
\* is not to be had; there is nothing new.
CreateFails ==
    /\ stage = "starting" /\ runtime = "containers"
    /\ made < Len(Plan)
    /\ Fail
    /\ UNCHANGED <<config, exists, made, known, invoked, ready, monitors, mocks, logs,
                   stuck, exit>>

\* start_containers: the next network or container is there from now on. `taken`
\* says whether one that is there already may be taken for it.
Start(taken) ==
    /\ stage = "starting" /\ runtime = "containers"
    /\ made < Len(Plan)
    /\ Plan[made + 1] \in exists => taken
    /\ exists' = exists \cup {Plan[made + 1]}
    /\ made' = made + 1
    /\ stage' = IF Plan[made + 1][2] = 0 THEN "starting" ELSE "waiting"
    /\ UNCHANGED <<config, known, invoked, ready, monitors, mocks, logs, stuck, verdict,
                   exit>>

\* Mutation: a container of an earlier run is used again.
StartNextAnyhow == Start(TRUE)

\* A network that exists is used as it is, while create_container fails when
\* its name is taken.
StartNext == Start(Plan[made + 1] \in Networks)

\* start_containers: the container is started, and waited for if it has a
\* wait_for; then it is inspected. Any of this may fail, a followed log may end
\* or break, and a check may fail: the container stays as it is.
WaitFor ==
    /\ stage = "waiting"
    /\ \/ StartPoll({"http", "tcp", "log"}) /\ UNCHANGED <<verdict, stage>>
       \/ /\ poll.at \in {"idle", "passed"}
          /\ stage' = "starting" /\ UNCHANGED verdict
          /\ poll' = Idle
       \/ /\ poll.at \in {"idle", "passed", "failed"} \/ (poll.at = "attempt" /\ poll.kind = "log")
          /\ Fail
          /\ poll' = Idle
    /\ UNCHANGED <<config, exists, made, known, invoked, ready, monitors, mocks, logs,
                   stuck, exit>>

\* prepare(): start_containers returned the slots.
Started ==
    /\ stage = "starting" /\ runtime = "containers"
    /\ made = Len(Plan)
    /\ known' = Plan
    /\ invoked' = TRUE
    /\ stage' = "readiness"
    /\ UNCHANGED <<config, exists, made, ready, monitors, mocks, logs, stuck, verdict, exit>>

\* prepare(): `docker compose up`, which is invoked whether it succeeds or not,
\* unless it cannot be run at all.
ComposeUp ==
    /\ stage = "starting" /\ runtime = "docker_compose"
    /\ \/ exists' = Resources /\ invoked' = TRUE /\ stage' = "readiness" /\ UNCHANGED verdict
       \/ exists' \in SUBSET Resources /\ invoked' = TRUE /\ Fail
       \/ UNCHANGED <<exists, invoked>> /\ Fail
    /\ UNCHANGED <<config, made, known, ready, monitors, mocks, logs, stuck, exit>>

NoRuntime ==
    /\ stage = "starting" /\ runtime = "none"
    /\ stage' = "readiness"
    /\ UNCHANGED <<config, exists, made, known, invoked, ready, monitors, mocks, logs,
                   stuck, verdict, exit>>

-----------------------------------------------------------------------------
\* run_readiness_checks goes from slot to slot; one check of the next slot stands
\* for its checks.
BeginCheck ==
    /\ stage = "readiness" /\ ready # Slots
    /\ StartPoll({"http", "tcp"})
    /\ UNCHANGED <<config, exists, made, known, invoked, ready, monitors, mocks, logs,
                   stuck, verdict, stage, exit>>

CheckReadiness ==
    /\ stage = "readiness" /\ poll.at = "passed"
    /\ \E s \in Slots :
        /\ ready = 0 .. s - 1
        /\ ready' = ready \cup {s}
    /\ poll' = Idle
    /\ UNCHANGED <<config, exists, made, known, invoked, monitors, mocks, logs, stuck,
                   verdict, stage, exit>>

CheckFails ==
    /\ stage = "readiness" /\ poll.at = "failed"
    /\ Fail
    /\ poll' = Idle
    /\ UNCHANGED <<config, exists, made, known, invoked, ready, monitors, mocks, logs,
                   stuck, exit>>

\* start_active_logs: a capture that does not start is only reported.
StartCaptures ==
    /\ stage = "readiness" /\ ready = Slots
    /\ IF runtime = "none" THEN UNCHANGED monitors ELSE monitors' \in SUBSET Slots
    /\ stage' = "captures"
    /\ UNCHANGED <<config, exists, made, known, invoked, ready, mocks, logs, stuck,
                   verdict, exit>>

\* start_live_logs: one that does not start is an error of prepare().
StartLiveLogs ==
    /\ stage = "captures"
    /\ \/ stage' = "mocks" /\ UNCHANGED verdict
       \/ runtime # "none" /\ Fail
    /\ UNCHANGED <<config, exists, made, known, invoked, ready, monitors, mocks, logs,
                   stuck, exit>>

\* build_slot_execution_contexts: a mock server per slot; when one does not
\* start those that did are shut down.
StartMock ==
    /\ stage = "mocks" /\ withMock /\ mocks # Slots
    /\ \/ \E s \in Slots :
            /\ mocks = 0 .. s - 1
            /\ mocks' = mocks \cup {s}
            /\ UNCHANGED <<verdict, stage>>
       \/ mocks' = {} /\ Fail
    /\ UNCHANGED <<config, exists, made, known, invoked, ready, monitors, logs, stuck, exit>>

BeginExecution ==
    /\ stage = "mocks" /\ (withMock => mocks = Slots)
    /\ stage' = "executing"
    /\ UNCHANGED <<config, exists, made, known, invoked, ready, monitors, mocks, logs,
                   stuck, verdict, exit>>

-----------------------------------------------------------------------------
\* The units run. When they end in an error, run and the single workflow carry
\* it to the end of the function, while the `?` on a batch leaves run_workflow
\* there and then; its mock servers stop as their handles are dropped.
Execute ==
    /\ stage = "executing"
    /\ \E v \in {"passed", "failed", "error"} :
        /\ verdict' = v
        /\ IF v = "error" /\ command = "batch"
           THEN stage' = "exited" /\ exit' = "1" /\ mocks' = {}
           ELSE stage' = "collect" /\ UNCHANGED <<exit, mocks>>
    /\ UNCHANGED <<config, exists, made, known, invoked, ready, monitors, logs, stuck>>

\* How the collection of a slot's logs fares: the files are written, or a
\* container, a file in it or the output path is not to be had.
Outcomes == {"saved", "failed"}

\* collect_logs: the declared logs of the next slot are copied out of its
\* containers, or one of them is not, which is reported and no more.
CollectSlot ==
    /\ stage = "collect" /\ invoked /\ Len(logs) < jobs
    /\ \E outcome \in Outcomes : logs' = Append(logs, outcome)
    /\ UNCHANGED <<config, exists, made, known, invoked, ready, monitors, mocks, stuck,
                   verdict, stage, exit>>

EndCollection(over) ==
    /\ stage = "collect" /\ over
    /\ stage' = "shutdown"
    /\ UNCHANGED <<config, exists, made, known, invoked, ready, monitors, mocks, logs,
                   stuck, verdict, exit>>

\* Mutation: a log that cannot be collected ends the collection.
CollectLogsUntilError == EndCollection(Len(logs) = jobs \/ "failed" \in ToSet(logs) \/ ~invoked)

\* finish(): the logs are collected of a runtime that was invoked, of every slot.
CollectLogs == EndCollection(invoked => Len(logs) = jobs)

\* shutdown(): is the policy to remove the runtime?
Cleanup == policy = "always" \/ (policy = "on_success" /\ verdict = "passed")

Shutdown ==
    /\ stage = "shutdown"
    /\ stage' = IF Cleanup /\ invoked THEN "removing" ELSE "finalize"
    /\ UNCHANGED <<config, exists, made, known, invoked, ready, monitors, mocks, logs,
                   stuck, verdict, exit>>

\* Docker removes a resource or fails to; the network of a slot is not removed
\* while a container is attached to it.
Removable(r) == r[2] # 0 \/ ~ \E q \in exists : q[1] = r[1] /\ q[2] # 0

\* The last resource the session knows is removed, or it is stuck; `rest` is
\* what is left to remove then.
RemoveLast(rest) ==
    /\ stage = "removing" /\ runtime = "containers" /\ known # <<>>
    /\ \/ /\ Removable(Last(known))
          /\ exists' = exists \ {Last(known)}
          /\ known' = Front(known)
          /\ UNCHANGED stuck
       \/ /\ stuck' = stuck \cup {Last(known)}
          /\ known' = rest
          /\ UNCHANGED exists
    /\ UNCHANGED <<config, made, invoked, ready, monitors, mocks, logs, verdict, stage, exit>>

\* Mutations: the first error ends the removal; a network is tried again.
RemoveNextStops == RemoveLast(<<>>)
RemoveNextRetries == RemoveLast(IF Last(known)[2] = 0 THEN known ELSE Front(known))

\* stop_containers: in the reverse order, going on after an error.
RemoveNext == RemoveLast(Front(known))

Removed ==
    /\ stage = "removing" /\ runtime = "containers" /\ known = <<>>
    /\ stage' = "finalize"
    /\ UNCHANGED <<config, exists, made, known, invoked, ready, monitors, mocks, logs,
                   stuck, verdict, exit>>

\* stop_containers finds no Docker to talk to.
RemoveNothing ==
    /\ stage = "removing" /\ runtime = "containers"
    /\ known = Plan /\ exists = Resources
    /\ stuck' = exists
    /\ stage' = "finalize"
    /\ UNCHANGED <<config, exists, made, known, invoked, ready, monitors, mocks, logs,
                   verdict, exit>>

\* `docker compose down`, whole or not.
ComposeDown ==
    /\ stage = "removing" /\ runtime = "docker_compose"
    /\ exists' \in SUBSET exists
    /\ stuck' = exists'
    /\ stage' = "finalize"
    /\ UNCHANGED <<config, made, known, invoked, ready, monitors, mocks, logs, verdict, exit>>

\* finish() ends with the captures; then the mock servers are shut down.
Finalize ==
    /\ stage = "finalize"
    /\ monitors' = {}
    /\ mocks' = {}
    /\ stage' = "report"
    /\ UNCHANGED <<config, exists, made, known, invoked, ready, logs, stuck, verdict, exit>>

\* The report of an execution that made one is written, which may fail, and the
\* run succeeds as `success` says.
Exit(success) ==
    /\ stage = "report"
    /\ stage' = "exited"
    /\ \/ exit' = IF success THEN "0" ELSE "1"
       \/ exit' = "1"
    /\ UNCHANGED <<config, exists, made, known, invoked, ready, monitors, mocks, logs,
                   stuck, verdict>>

\* Mutation: a run that has a report to show has done its work.
ReportIsSuccess == Exit(verdict # "error")

Report == Exit(verdict = "passed")

Next ==
    \/ WaitFor \/ BeginCheck \/ CheckReadiness \/ CheckFails
    \/ PollStep /\ UNCHANGED runVars
    \/ /\ \/ CreateFails \/ StartNext \/ Started \/ ComposeUp \/ NoRuntime
          \/ StartCaptures \/ StartLiveLogs \/ StartMock \/ BeginExecution
          \/ Execute
          \/ CollectSlot \/ CollectLogs \/ Shutdown \/ RemoveNext \/ Removed \/ RemoveNothing
          \/ ComposeDown \/ Finalize \/ Report
       /\ UNCHANGED poll

Spec == Init /\ [][Next]_vars

\* Docker is assumed to answer. Whether the target of an HTTP check does is free.
FairSpec == Spec /\ WF_vars(Next)

-----------------------------------------------------------------------------
TypeOK ==
    /\ jobs \in 1 .. MaxJobs /\ command \in Commands
    /\ runtime \in {"containers", "docker_compose", "none"} /\ policy \in Policies
    /\ withMock \in BOOLEAN /\ earlier \subseteq Resources
    /\ exists \subseteq Resources /\ stuck \subseteq Resources
    /\ made \in 0 .. Len(Plan)
    /\ known \in Seq(Resources)
    /\ invoked \in BOOLEAN
    /\ {ready, monitors, mocks} \subseteq SUBSET Slots
    /\ logs \in Seq(Outcomes) /\ Len(logs) <= jobs
    /\ verdict \in Verdicts
    /\ stage \in Stages
    /\ poll \in Checks
    /\ exit \in {"none", "0", "1"}

\* No unit runs before every slot has its network and containers, has passed
\* its readiness checks and, where there are mocks, has its mock server. None of
\* the containers has been through an earlier run.
UnitsNeedEnvironment ==
    stage = "executing" =>
        /\ exists = Wanted /\ earlier \subseteq Networks
        /\ ready = Slots
        /\ mocks = (IF withMock THEN Slots ELSE {})

\* Once finish() has shut a started runtime down, the policy was kept, for runs
\* of every outcome: what is to go is gone but for what Docker would not remove,
\* and what is to be kept is all there; the verdict of on_success is the one of
\* the report.
PolicyKept ==
    invoked /\ stage \in {"finalize", "report"} =>
        IF policy = "always" \/ (policy = "on_success" /\ verdict = "passed")
        THEN exists \subseteq stuck
        ELSE stuck = {} /\ (verdict # "error" => exists = Wanted)

\* Nothing is removed before the declared logs were collected from every slot, or
\* tried to, after runs that failed at whatever point.
LogsBeforeTeardown ==
    [][exists' \subseteq exists /\ exists' # exists => Len(logs) = jobs]_vars

\* The exit code is zero only for a run whose every unit and callback passed, in
\* an environment that came up whole.
ExitFaithful ==
    exit = "0" => verdict = "passed" /\ ready = Slots /\ (invoked => Len(logs) = jobs)

\* A run ends, whatever Docker refuses and whichever target does not come up: only
\* an HTTP check that is never answered can hold it (its client has no timeout).
RunExits == <>(stage = "exited" \/ poll.at = "hung")

\* "After the tests it is cleaned up by the `cleanup` policy"
\* (docs/guide/environment-dsl.md): with `always`, a run leaves nothing behind
\* of what it made but what Docker would not remove.
AlwaysCleansUp ==
    stage = "exited" /\ policy = "always" => exists \subseteq stuck \cup earlier

\* The same promise of the runs whose runtime came up.
StartedIsCleanedUp ==
    stage = "exited" /\ policy = "always" /\ ready = Slots => exists \subseteq stuck
=============================================================================
