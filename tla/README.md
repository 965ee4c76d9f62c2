# A formal model of test-runner

test-runner (Rust, `cli/src/`) runs YAML test cases and workflows against an
application that it starts in containers, with an embedded mock server and
delayed callbacks; a sample application, an order service (`sample-projects/src/`), is
what its own cases test. This directory holds TLA+ specifications of both, the TLC
runs that check them on small instances, and proofs, checked by TLAPS, that the safety
properties the runs check hold for every value of the constants: any number of slots,
units, callbacks, services, lines and requests, any case and any workflow. All paths
below are relative to the root of the repository.

## 1. Inventory

| Component | Code | State | Operations | What makes it correct |
| --- | --- | --- | --- | --- |
| Slot allocator | `runner.rs` `SlotAllocator`, `SlotLease` | deque of free slot ids (mutex), semaphore, leases | `new`, `acquire`, drop of a lease, an `acquire` that is abandoned | one task per slot; a permit means a slot; nothing is lost |
| Parallel executor | `runner.rs` `execute_cases_parallel`, `execute_workflows_parallel`, `spawn_*_task` | window of tasks (`JoinSet`), `next_index`, reports by index, cancel flag | fill, join and refill, error, return; the tasks' own steps | every unit accounted for once, window kept, fail-fast, no leak on abort |
| Workflow engine | `runner.rs` `execute_workflow`, `execute_workflow_steps`, `run_case_in_workflow`, `run_deferred_teardown`; `workflow.rs` | `state.steps`, step reports, deferred teardowns, `stop_execution`, flags | hooks, steps, conditionals, compensation, report | compensation last-in first-out and exactly once, hooks paired, status faithful |
| Callback runtime | `callback.rs` | id counter, pending handles (mutex), spawned deliveries | `schedule`, delivery, `flush` | no callback lost or doubled, each in the right report |
| Mock server | `mock.rs` | routes, variables of a request | `handle_request`, `shutdown` | first matching route in order; its callbacks use the slot's runtime |
| Run lifecycle | `runner.rs` `run`, `run_workflow`, `build_slot_execution_contexts` | session, mock servers, execution result | prepare, execute, finish, report | units only in a whole environment; always finished; exit code faithful |
| Environment session | `environment.rs` `EnvironmentSession`, `start_containers`, `stop_containers` | runtime, slots, `runtime_invoked`, log tasks | `prepare`, `finish` and what they call | cleanup policy kept through partial failures; logs before removal |
| Log captures | `environment.rs` `start_active_logs`, `start_live_logs` and what they spawn, `finalize_active_logs`, `stop_live_logs` | tasks that stream from Docker, their handles, the output files, reports | start per entry and slot, stream, abort after two seconds | a true report for every capture, no task left, no gaps in what a file keeps |
| Case engine | `runner.rs` `execute_case`, `run_case_in_workflow`, `execute_step_list` and the step kinds | variables, saved variables, reports, connection pools | three lists, `if`, `foreach`, the leaves, the deferred teardown | teardown after a setup that succeeded; loops are scopes; the verdict is faithful |
| Web UI | `web.rs` | runs, the event log and channel of each | `start_run`, `push_event`, `stream_run_events` | output in order, the end always seen |
| Sample order service | `sample-projects/src/main.rs` | two tables of orders and one of users (MySQL); codes, tokens, payment statuses (Redis) | start with retries; orders: create, get, update, list; accounts: register, login, me, code; payments: create, callback | orders are atomic and priced as they are; a code admits one login; a token is earned |
| Project loading | `config.rs`, `workflow.rs`, `dsl.rs` | none (files to values) | load, validate | references resolve, names are unique |
| Expressions | `runtime.rs` | variables of a context | paths, templates, conditions, assertions | pure |
| CLI, init, schema, URL rewriting | `cli.rs`, `init.rs`, `schema.rs`, `url_rewrite.rs` | none | parsing, templates | not modelled |

How they interact: `run` and `run_workflow` prepare one environment session of
`jobs` slots, start a mock server and a callback runtime per slot, and hand the
slots to the executor. Each task of the executor leases a slot and runs one unit
(a case or a workflow) on it; the unit schedules callbacks on the slot's runtime
and so does the slot's mock server, whenever the application calls it. At the end
of a unit the runtime is flushed. Then the session is finished and the report
written. The web UI starts the same program as a child process and relays its
output. The order service is a program of its own, which the runner starts as a
container and calls; it shares nothing with the runner but HTTP. Both binaries run on
tokio's multi-thread runtime, so tasks interleave at every step that is not under one
lock, and the handlers of the service at every call to MySQL, Redis or a provider.

What is hard: the interleavings of permits and slots, of draw, store and send in
the web log, of `schedule` and `flush`, of statements of concurrent requests that are
not in one transaction; failure of any one step of a sequence of
effects (start, remove, teardown); and agreement between several records of one
fact (reports, `state.steps`, flags, exit code). `PROJECT.json` lists the hazards
at their lines.

## 2. Modules

| Module | Models | Notes |
| --- | --- | --- |
| `SlotPool` | abstract: slots with owners | what the allocator promises |
| `SlotAllocator` | the allocator | implements `SlotPool` (`ImplementsPool`) |
| `ParallelBatch` | the executor and its tasks | extends `SlotAllocator`: its actions are conjoined with the allocator's |
| `Callbacks` | callback runtime, runner and mock handlers | one slot |
| `CaseOutcomes` | how a case ends for its workflow | shared by the next two |
| `CaseRun` | one case, with its teardown at once or deferred | `EndsAsWorkflowSees` justifies `CaseOutcomes` |
| `WorkflowRun` | one workflow | recursion of step lists as a stack; a case is its outcome |
| `Polling` | one readiness check or `wait_for`, in ticks | extended by the next |
| `RunLifecycle` | `run`/`run_workflow` over the session | the units are one step with an outcome |
| `RunEvents` | the web log of a run | one connection |
| `LogCaptures` | the log tasks of a session, from `prepare` to `finish` | beside `RunLifecycle`, which has their start and stop as one step |
| `OrderPricing` | the pure part of the orders | operators |
| `SampleRequests` | the requests being served, their guards and answers | shared by the next two |
| `SampleOrders`, `SampleAccounts` | the handlers of orders; of accounts and payments | one action per call |
| `SampleService` | `main` and its router | composes the two; implements `AtomicOrders` |
| `AtomicOrders` | abstract: each order request takes effect at one moment | what clients are promised |
| `ParallelBatch_proofs` | theorems about `SlotAllocator` and `ParallelBatch` | section 5, as are the next |
| `CaseRun_proofs`, `WorkflowRun_proofs`, `Callbacks_proofs`, `RunLifecycle_proofs`, `RunEvents_proofs`, `LogCaptures_proofs`, `SampleService_proofs` | theorems about the module of that name | `RunLifecycle_proofs` has those of `Polling`, `SampleService_proofs` those of the modules it composes |
| `MC*` | instances for TLC | |

State and actions follow the code's names (`available`, `next`, `pending`,
`deferred`, ...); `PROJECT.json` maps each definition to its lines. A definition
whose comment says "Mutation" is not used by any specification: it is a plausible
bug of the action beside it, kept to show that the properties can fail.

**SlotAllocator.** `acquire` is two steps (`TakePermit`, `PopSlot`) and so is the
drop of a lease (`ReturnSlot` in `Drop::drop`, `ReleasePermit` when the fields go).
The `stage` of a task says which of the two it owns. `Abandon` is the drop of an
`acquire` that waits, which happens to an aborted task. An `acquire` that is
refused (no slot behind the permit) is in the model, and shown never to happen.

**ParallelBatch.** `Fill` is the first loop, `JoinReport` and `JoinError` the body
of the second one, `Finish` the return. The tasks take their allocator steps by
themselves. `RunUnit` chooses the outcome of a unit: passed, failed, or an error or
panic. After `JoinError` the tasks still in the `JoinSet` are aborted: one that waits
abandons its `acquire`, one that runs drops its lease at once or, if the abort comes
too late, after its unit.

**Callbacks.** `Draw` is `fetch_add` and `spawn`, `Push` the push under the mutex;
`TakePending`, `Await` and `FlushReturn` are `flush`. The runner does this unit by
unit; the handlers of the mock server may schedule in any phase but the last, also
while a flush awaits, since a delivered callback may make the application call a mock.
The sort at the end of a flush puts a report at the place of its rank (`Smaller`).

**CaseRun.** `stack` holds the lists and loops that the recursion of
`execute_step_list` is in, innermost first; a loop keeps the items that are left and
the value its binding had. A leaf is the variables it writes, `set` and extracts
alike. `RunLeaf` is one that succeeds; `EffectFails`, `ChecksFail`, `ExecFails` and
`ControlFails` are the places where a step fails, and `Unwind` is what `?` then does.
`ResolveVars`, `EndSetup`, `EndSteps` and `EndTeardown` are what `execute_case_inner`
does between the lists, `RunDeferred` the teardown that the workflow runs later in the
saved context. `scopes`, `base` and `leaked` are history: what a variable would be if
each loop were a scope, entry by entry of the stack, which `Scoped` compares with the
flat `vars` of the code.

**WorkflowRun.** `stack` holds the step lists that the recursion is in. A case ends in
one of four ways (`CaseEnds`), with its immediate teardown succeeding or not. `Setup`,
`StepError`, `RunDeferred`, `Teardown` and `FlushAndReport` may each fail; a hook with a
request in it always does (`HookRuns`). `wrong` records what did, for the property that compares it with the status.

The code keeps a second record of each outcome in `state.steps`, here `seen`. While steps
run it agrees with the reports (`BranchesSeeReports`). A deferred teardown that fails
changes the report alone, so the workflow's teardown hook, which runs after it, decides
on the older value.

**RunLifecycle.** `StartNext` makes one network or container, or fails with or without
having made it (`CreateFails`); `WaitFor` is the start of a container, `BeginCheck`,
`CheckReadiness` and `CheckFails` the readiness checks of a slot, both over a `poll`. `known` is what the session gets only when `start_containers` returns. `finish`
collects the logs slot by slot (`CollectSlot`) before anything is removed.
`Execute` is the whole of the units' execution. An error of a batch of workflows leaves
`run_workflow` from there, as its `?` does. `RemoveNext` is one iteration of
`stop_containers`. `earlier` is what an earlier run with the same `network_name` left
behind: a network is taken as it is (and later removed), a container name that is taken
fails `create_container`. Reserving the mock endpoints, before anything exists, is left
out.

**Polling.** `poll` is the check that is under way: its own clock, and the target, which
may come and go at every `Tick`. An attempt takes up to `Slow` ticks and is answered as
the target was at some moment of it (`Succeed`, `Retry`); then the loop sleeps (`WakeUp`)
and looks at the time (`Again`). `Hang` is an HTTP request that is never answered.

**LogCaptures.** `stage` and `turn` walk through `start_active_logs` (`Skip`, `Truncate`,
`StartCapture` for each entry and slot), `start_live_logs` (`StartLive`, or `LiveFails`,
the `?` that leaves earlier tasks running, `lost`), the units, and `finish`:
`stop_active_log_handles` takes a task that is over (`Join`) or, two seconds later
(`Timeout`), aborts it. The tasks run beside all of this: they open their file, write
lines, end, fail, or are cancelled at an await. `file` is a set of lines per output, which
slots share.

**The sample service.** `SampleRequests` keeps for every request what it asks, where its
handler is, what the handler has read (`seen`) and the answer. A handler is cut at each
await: `Insert` and `Commit` are the transaction of `persist_order`; `SelectOrder` and
`AnswerGet` or `PrepareUpdate` the two statements of `find_order_by_id`; `WriteUpdate` the
conditional `UPDATE`; `CountOrders` and `SelectPage` those of `find_orders`; `FindUser`,
`ReadCode`, `DeleteCode`, `StoreToken` a login; `CallSms`, `StoreCode` and `CallPayment`,
`StorePending` a call to a provider and what is stored after it. Any call may fail, and one
that fails may have taken effect. `KeyExpires` is Redis at work. `SampleService` adds
`main`: connecting with retries, the schema, the listener. An order id and a code are any
of a small set, so that two requests may meet in one. Field normalisation is `valid`.
`Baskets` are the items that clients order, from which the prices that there are follow;
`settled` has for a payment the status of the last callback that is to stay. The
refinement (`WholeOrders`, `OrdersAsked`, `OrdersDecided`, `OrdersAnswered`) maps an order
to the row with its items; the answer of a `get` or of an update that will be refused is
decided (`Determined`) when the row is read, since items never change, and everything else
when it is written or answered.

**RunEvents.** `push_event` is `Draw`, `Store`, `Send`. `received` is the receiver's
position in what was sent; `Lag` is tokio's `RecvError::Lagged`. `raced` and `lagged`
are history variables for the premise of `NothingBetween`.

## 3. Runs

| Run | Bounds | Shows |
| --- | --- | --- |
| `parallel_batch` | 2 slots, 2 jobs, 4 units, fail-fast or not | a slot behind each permit, refinement of `SlotPool`, units, window, fail-fast, no starvation, all slots come back |
| `callbacks` | 2 units, 2 handlers, 3 callbacks | none lost inside the runtime, own callbacks reported, the run ends |
| `callbacks_lost` | the same | *violation*: a callback scheduled during the last flush is in no report |
| `case` | 5 cases, 2 variables, arrays of up to 2 items, every policy | loops are scopes, the verdict, the outcome a workflow sees, the case ends |
| `workflow` | two workflows: nested conditionals, every policy; fail-fast or not | compensation, hooks, verdict, fail-fast |
| `lifecycle` | 1 or 2 slots, 2 services, every command, runtime, policy | order of the phases over what an earlier run left, policy, exit code, what a check may miss, the run ends |
| `partial_start` | 1 slot, 2 services | *violation*: a partial start is never removed |
| `batch_error` | 1 slot, 1 service | *violation*: an error of a batch skips `finish` |
| `run_events` | 2 streams of a line each, log of 3, channel of 2 | the end comes last and is seen, no gap between log and channel |
| `log_captures` | 1 or 2 slots, 1 captured and 1 followed log, 2 lines | a report for each capture, faithful; no task left; what a file keeps; `finish` returns |
| `sample_service` | 3 requests, 2 order ids, a user, a phone, 2 codes, 2 seconds, a payment, 2 attempts | orders are atomic, pricing, pages, logins, tokens, payment status |
| `output_lost` | 2 streams of a line each, no trimming | *violation*: an overtaken line is not shown |

The four violations are disagreements between the code and its documentation;
`PROJECT.json` quotes the sentences. In each the trace is short and can be followed
in the code. Other places where the code does not do what one reads or expects, which
are in the models without a run of their own:

- An error inside a `foreach` leaves the binding of the loop to the teardown
  (`runner.rs:2136`), though `docs/guide/dsl.md:76` says that it is restored. `Scoped`
  exempts exactly those cases (`leaked`).
- The `redis_monitor` captures of several slots write to one file, which each start
  truncates (`environment.rs:2858`), though `docs/guide/project-structure.md:150-164`
  wants a file per slot. `CapturesKept` says what is kept.
- A `start_live_logs` that fails half-way loses the tasks it has started
  (`environment.rs:700`). `TasksEnd` exempts exactly those (`lost`).
- A `request` in a workflow hook fails even when it names its API (`runner.rs:2191`),
  though `docs/workflow/index.md:139` asks for just that and shows one. `HookRuns`.
- An HTTP readiness check or `wait_for` has no timeout of its own beside the loop's, so
  that a server that accepts and does not answer holds the run (`environment.rs:1627`,
  `:2468`). `RunExits` exempts exactly that (`hung`).
- A payment callback that overtakes the create it belongs to is replaced by `PENDING`.
  `SettledStays` is about the callbacks that come when every accepted create is stored.
- A duplicate order id is answered 409 with the message about an e-mail
  (`map_database_error`); and a database error after a commit is a 500 for an order
  that exists, which `AtomicOrders` allows.

Why the bounds are enough: the hazards are about pairs. Two slots and four tasks let
a slot be given back, taken again and be contended; four units over a window of two
make it slide and leave units unspawned after a failure. Two handlers and the runner
give every order of draw and push of three ids, and two units the report that a stray
callback lands in. The cases have a loop in a loop over the same name and over another
one, steps that write the name a loop binds, branches with loops in them, a loop in a
teardown, and execs, which are skipped or run, in all three lists. The workflows contain every policy, a conditional in a conditional
with a step after each, and a case without a teardown. Two services on each of two
slots let a removal fail in the middle. The log of three and the channel of two are
smaller than a run of at least four events, so that trimming and lagging happen. Two
slots with one captured entry are two writers of one file. Three requests of the service
are two writers and a reader, or two logins and a code: every conflict in it is between
two, and the third sees or causes it. The interval of a check (2) is longer than a slow
attempt (1) and half its timeout (4), so that the last sleep goes past it or ends at it. The order ids collide, a basket overflows
`MaxU64` (100000 here), tiers and coupons are such that one update can take away what
another needs; two seconds let two logins of a user have one token or two. The earlier
order is there from the start, so that updates need no create before them.

`MaxCallbacks`, `MaxLines`, `MaxStored`, `Capacity`, `Retries`, `MaxU64` and the times of
`Polling` are the only caps. `sample_service` uses the symmetry of the requests (its temporal property is a
refinement without fairness, so this is sound) and the constraint `OneKind`: the requests
of a behaviour are all about orders or all about accounts and payments, which share no
state.

`CHECK_DEADLOCK FALSE` is in the other configurations because those programs end; the
liveness properties say that they end where they should. `LogCaptures` and
`SampleService` state their ends as a step (`Over`, `Rest`), and deadlock is checked.

## 4. Fairness

- `ParallelBatch`: weak fairness of the executor and of each task. tokio polls what
  can run, and a unit ends: HTTP requests have the client's timeout
  (`build_http_client`); that a query or a container exec returns is an assumption.
- `Callbacks`: of the runner's flush, of pushes that were begun and of deliveries,
  which the client's timeout ends. Nothing obliges the application to call a mock.
- `CaseRun`, `WorkflowRun`, `RunLifecycle`: of `Next`, one task that runs to its end.
  For `CaseRun` this includes that its workflow runs every deferred teardown, which
  `WorkflowRun` shows (`Compensation`); leaves end by the timeouts above. For
  `RunLifecycle` this assumes that Docker answers and that time goes on; a target need
  not answer.
- `LogCaptures`: of the session, whose loops and timeout go on, and of the end of a task
  that was aborted, which tokio stops at its next await. No stream has to end, so
  `FinishReturns` does not rest on the containers going away.
- `SampleService`: none; everything said of it is safety.
- `RunEvents`: of the supervisor, the pushes, the ends of the streams (the child
  ends) and the reader.

## 5. What is proved

`ParallelBatch_proofs` begins with the allocator, for every number of slots and tasks. The
exclusivity of slots is not inductive. The invariant `Inv` adds to the type: a leased task holds a slot and no
other does (`LeaseHoldsSlot`), no task was refused, and `Conservation`, which counts
permits and slots separately. From the two counts it follows that whenever a task
stands between permit and slot the deque is not empty, which is `PermitMeansSlot`, and
that in turn keeps `NoneRefused`. The proof has a step per action and under it one per
conjunct. The refinement theorem maps `PopSlot` to `Take`, `ReturnSlot` to `GiveBack`
and everything else to a stutter, using exclusivity for the choice in `Owner`.

Then the executor, for every number of slots, jobs and units. `BatchUsesAllocator`
shows that every step of a batch is a step of the allocator, so `Inv` holds in it. The
batch's own invariant `BatchInv` adds `NothingJoinedYet` (no report before the first
join), `CancelMeansFailure` (the flag is set exactly by a recorded failure under
fail-fast) and the window in terms of the flag (`WindowByFlag`). `WindowKept`,
`NoUnitLost`, `NeverStarved` (by counting: every holder of a permit is in flight) and
the action property `FailFastStops` follow from it.

`CaseRun_proofs`, for every set of cases, with lists of any length and nesting. The
verdict is not inductive: while a list runs, nothing in the state says that it will be
judged rightly. The invariant `ControlInv` says for each phase what may have gone wrong
so far and what `failed` and `cleaned` are, and for the time between two lists that
`listError` says whether the list just left went wrong (`ListErrorMeansWrong`). The
last needs the shape of the stack: a loop is never at its bottom (`BottomIsList`), so
the last thing to return is a list. Every step inside a list is `Quiet` or `Noisy`
(`StepInList`), and each kind keeps the invariant; the boundary actions are proved one
by one. That an empty teardown cannot fail (`NothingToTearDown`) is what
`EndsAsWorkflowSees` needs besides.

That loops are scopes (`Scoped`) is a statement about the history `scopes`, which has one
entry per list or loop of the stack. `ScopesInv` says that the two have the same `Shape`:
an entry binds a name exactly if its list is the body of a loop over that name. It gives
each loop's saved value a meaning (`Kept`): what a loop will restore is what the entries
from its own on say of its binding (`WorthAt`), which is what the step after the loop sees.
So popping a list and restoring agree with dropping its entry, at any nesting. An error
that leaves a loop (`leaked`) ends the claim, as in the code.

`WorkflowRun_proofs`, for every set of workflows with conditionals of any nesting.
`ControlInv` says what is known in each phase: the hooks that ran (`HooksByPhase`), that
the two error flags are raised exactly if something went wrong (`TroubleShows`), that
`state.steps` is what the reports say (`SeenIsReported`), and that a case that did not pass
has stopped the steps (`FailureStops`). `CleanupInv` says while steps run that what was
cleaned up at once and what is deferred are the opened cases of each policy, in order
(`CleanedSoFar`), from which `Compensation` follows when the deferred ones have run in
reverse. The list of the opened cases of one policy (`WithPolicy`) is a recursive
function; that one more case adds one more id is proved by induction over its length.

`Callbacks_proofs`, for every number of handlers, units and callbacks. `OnePlace` counts
the places of an id; the invariant has it as a partition of the drawn ids into five sets
(`WhereIds`), each of which has an id once (`NoneTwice`). `ByPhase` says that a flush starts and ends with empty
hands, `OwnOnTheirWay` where a callback of a unit's steps is in each phase until it is in
the unit's report, `StatusKept` that what is collected is over and is reported as it is.
That the reports are sorted (`InOrder`) needs that the ranks of reports with distinct ids
are a permutation of `1 .. n`, which is proved by counting.

`RunLifecycle_proofs`, for every number of slots and services, timeout and interval.
`PollInv` keeps for a check when its target must have come up, relative to the end of the
attempt or the sleep (`DuringAttempt`, `DuringSleep`, `DuringLog`); `GivesUpForAReason`
follows when the time is up. `LifecycleInv` says what is there at each stage: what
`start_containers` has made so far and of which earlier run's (`WhileStarting`,
`OwnContainers`, `NothingEarlier`), that nothing is missing from the readiness checks to
the end of the units (`WhileUp`, `AfterUnits`), that all slots are ready and their mock
servers up before units run, that the session knows what it has to remove
(`SessionKnows`, `WhileRemoving`), and that logs come first (`LogsFirst`). The plan of
resources is a sequence over slots and services; what stands at which place is proved by
division with remainder (`PlanFacts`).

`RunEvents_proofs`, for every number of lines, capacity and size of the log. `FinalInv`:
the end of a run is drawn after everything else because the supervisor has joined the
forwarders by then (`TasksRun`, `FinalIsLatest`), so it is at the end of the log, the
channel and the page. `OrderInv` is about runs whose pushes have not overlapped: the
channel has the events one by one, the log the latest of them, and the page goes on where
its copy of the log ends (`PageInOrder`). The log keeps at least two events
(`BoundsAssumption`; `MAX_STORED_EVENTS` is 10000), because the model has the two pushes of
`start_run`, before anyone else has the handle, as one step that trims nothing.

`LogCaptures_proofs`, for every number of slots, entries and lines. `AccountInv`: every
capture that `start_active_logs` is through with has a task whose handle will be joined or
one report, not both (`Accounted`), a task that runs is one whose handle is still there
(`TasksOwned`), or one report stands for all (`OneForAll`). From that each capture has
one report when `finish` returns and none runs. `FilesInv` is `CapturesKept` itself and
that a capture without a task has written nothing: what a start truncates belongs to
earlier slots (`LastSlot`, by division) or is nothing.

`SampleService_proofs`, for every set of requests, payloads and earlier orders.
`ServiceInv` has a part for each thing that a handler carries across an await. `OrdersInv`:
the row that was read is an earlier version or the one that is there (`ReadOK`), and what
will be written follows from the version that the client has named (`WriteOK`), so an
update that finds its version is right however late it comes. `PagesInv`: orders are never
removed, so what was counted is still there. `LoginsInv`: whoever holds a token or is
about to has been admitted with the password. `CodesInv` counts: logins admitted, codes on
the way to the store and codes stored are together at most the codes sent. `PaymentsInv`:
nothing is settled while a create is not stored. `HandlersAreAtomic` is the refinement of
`AtomicOrders`, a step of a handler being one abstract step or a stutter; `ServiceInv`
gives the guards of the abstract steps. `DiscountNeverExceeds` shows by induction over a
basket that the last check of `build_order_pricing` never fails, which is why no model has
its error. `AmountsAddUp` is what follows of every stored order: its amounts add up, none is
below zero, and its total is a u64, as `PricingFollows` says that the pricing is `Ok` still.

What is assumed of the constants, in the modules that declare them (TLC evaluates all of it in
the runs):

- `SlotAllocator`, `ParallelBatch`: `NumSlots` and `Jobs` are positive naturals, `NumTasks`
  a natural, `NoSlot` is none.
- `CaseRun`, `WorkflowRun`: steps, arrays, cases and workflows are well formed: a body is a
  list of steps, a binding a name, a policy one of the three (`StepsAssumption`,
  `ArraysAssumption`, `CasesAssumption`, `WorkflowsAssumption`).
- `Callbacks`: the runner is not a mock handler; there is a unit (`RunnerAssumption`,
  `UnitsAssumption`).
- `Polling`, `RunLifecycle`: timeout and interval are naturals, 0 included, and the bound
  on an answer is at least a tick (`TimesAssumption`); there is a slot, and commands are
  among the three (`SizesAssumption`, `CommandsAssumption`).
- `RunEvents`: the supervisor and the two outputs are distinct; the log keeps two events
  and the channel one (`WritersAssumption`, `BoundsAssumption`).
- `LogCaptures`: there is a slot; entries and lines are naturals (`CountsAssumption`).
- `SampleService`: one attempt to connect; finitely many order ids, which are u128; items,
  versions, limits and offsets are unsigned; payloads that pass the normalisation have the
  fields of their kind; an earlier life has priced its orders as this one does; `Absent`
  is nothing else (`RetriesAssumption`, `IdsAssumption`, `BasketsAssumption`,
  `PayloadsAssumption`, `EarlierAssumption`, `AbsentAssumption`, `MaxU64Assumption`).

Only model-checked: liveness (`EverySlotComesBack`, `RunEnds`, `CaseEndsAtLast`, `RunExits`,
`PageSeesFinished`, `FinishReturns`), which TLAPS does not reach, and the four violations,
which are counterexamples. Every invariant, every action property and both refinements of
the runs are proved. `SlotExclusive`, `Conservation` and the type invariants are proved and
in no run. Induction over naturals is by the least element that does not hold (`WFMin` with
`NatLessThanWellFounded`), since the induction theorems of the library take an operator;
where a definition of the community modules is beyond the prover (`SortSeq`, folds with an
operator), the models have a recursive function or a rank instead.

## 6. Plan

Done: the runner (allocator, executor, case, workflow, callbacks, lifecycle, log captures,
web log), the sample service, and theorems for all of them. In this order, next:

1. Left to model: the variables that hooks write back to `workflow.vars`; pure algorithms
   (selection of cases, route order and matching, validation of workflow ids, port
   mappings).
2. Theorems that relate components: that the outcome of `CaseRun` is one that `WorkflowRun`
   takes (`EndsAsWorkflowSees` is one half).

Not modelled: parsing, templates and assertions, SQL and Redis steps of a case as such,
log decoding, console and report layout, `init` and schemas, URL rewriting. They are
functions of data with no interleaving, or I/O. Of the sample service: `/health`, the
normalisation of fields, the hash of a password, the filters of a list and the projection
of a `get`.
