----------------------------- MODULE WorkflowRun -----------------------------
(***************************************************************************)
(* Runner::execute_workflow of cli/src/runner.rs: one workflow from its    *)
(* variables to its status. The setup hook, the tree of run_case steps and *)
(* conditionals, the compensation stack of deferred case teardowns, the    *)
(* teardown hook and the flush of the callbacks, with the ways in which    *)
(* each of them ends.                                                      *)
(*                                                                         *)
(* What a case does is left to CaseRun: here a case is how far it came     *)
(* (CaseOutcomes), which is what decides its report and its cleanup. The   *)
(* value of a condition is either, since it may depend on anything.        *)
(***************************************************************************)
EXTENDS Naturals, Sequences, SequencesExt, CaseOutcomes

CONSTANTS
    Workflows,  \* the workflow definitions: [setup, steps, teardown], see below
    Steps       \* the steps of their lists, and of the lists in these

\* A hook is the set of the kinds of the steps that it runs. A step is a run_case
\* [id, cleanup, hasTeardown] or a conditional [then, else] of two lists of
\* steps. Ids are unique in a workflow (validate_workflow_definition).
IsCase(step) == "id" \in DOMAIN step

ASSUME StepsAssumption ==
    \A step \in Steps :
        IF IsCase(step) THEN step.cleanup \in Policies /\ step.hasTeardown \in BOOLEAN
        ELSE {step.then, step.else} \subseteq Seq(Steps)

ASSUME WorkflowsAssumption == \A w \in Workflows : w.steps \in Seq(Steps)

VARIABLES
    failFast,   \* --fail-fast
    workflow,   \* the definition that is run
    stack,      \* the lists execute_workflow_steps is in, innermost first
    stop,       \* stop_execution
    seen,       \* state.steps: what conditions and inputs see as `passed`
    reports,    \* step_reports
    opened,     \* the cases that came past their setup, in order
    deferred,   \* deferred_teardowns
    cleaned,    \* the steps whose case teardown was run, in order
    hooks,      \* the workflow hooks that were run to their end
    wrong,      \* what went wrong so far
    anyFailed,  \* any_case_failed
    error,      \* workflow_error is set
    phase,      \* where execute_workflow is
    status      \* the status of the report

vars == <<failFast, workflow, stack, stop, seen, reports, opened, deferred, cleaned, hooks,
          wrong, anyFailed, error, phase, status>>

Phases == {"vars", "setup", "steps", "deferred", "teardown", "flush", "done", "err"}

Troubles == {"setup", "case", "step", "deferred", "teardown", "callback"}

CaseSteps == {step \in Steps : IsCase(step)}
Ids == {step.id : step \in CaseSteps}
StepReports == [id : Ids, passed : BOOLEAN]

-----------------------------------------------------------------------------
Init ==
    /\ failFast \in BOOLEAN
    /\ workflow \in Workflows
    /\ stack = <<workflow.steps>>
    /\ stop = FALSE /\ anyFailed = FALSE /\ error = FALSE
    /\ seen = <<>> /\ reports = <<>>
    /\ opened = <<>> /\ deferred = <<>> /\ cleaned = <<>>
    /\ hooks = {} /\ wrong = {}
    /\ phase = "vars"
    /\ status = "none"

\* The workflow's variables are resolved; one that is not ends in Err, and
\* nothing else of the workflow is run or reported.
ResolveVars ==
    /\ phase = "vars"
    /\ phase' \in {"setup", "err"}
    /\ UNCHANGED <<failFast, workflow, stack, stop, seen, reports, opened, deferred, cleaned,
                   hooks, wrong, anyFailed, error, status>>

\* May a hook be run to its end? execute_request wants the default API of a case,
\* also for a request that names its own API, and a workflow has none.
HookRuns(hook) == "request" \notin hook

\* The setup hook: when it fails neither the steps nor the teardown are run.
Setup ==
    /\ phase = "setup"
    /\ \/ /\ HookRuns(workflow.setup)
          /\ hooks' = {"setup"} /\ phase' = "steps"
          /\ UNCHANGED <<wrong, error>>
       \/ wrong' = {"setup"} /\ error' = TRUE /\ phase' = "deferred" /\ UNCHANGED hooks
    /\ UNCHANGED <<failFast, workflow, stack, stop, seen, reports, opened, deferred, cleaned,
                   anyFailed, status>>

\* The step about to run.
Current == Head(Head(stack))
Running == phase = "steps" /\ stack # <<>> /\ Head(stack) # <<>> /\ ~stop

\* `?` in execute_workflow_steps: an input that does not resolve or a condition
\* that does not evaluate leaves every list.
StepError ==
    /\ Running
    /\ stack' = <<>>
    /\ error' = TRUE
    /\ wrong' = wrong \cup {"step"}
    /\ phase' = "deferred"
    /\ UNCHANGED <<failFast, workflow, stop, seen, reports, opened, deferred, cleaned, hooks,
                   anyFailed, status>>

\* Mutation: state.steps is filled in before the immediate teardown.
SeenBeforeTeardown(step, end, tidy) == end = "passed"

\* What state.steps says of the step.
SeenAs(step, end, tidy) == Passed(step, end, tidy)

\* run_case_in_workflow, and what execute_workflow_steps does with its outcome.
RunCase ==
    /\ Running /\ IsCase(Current)
    /\ \E end \in CaseEnds, tidy \in BOOLEAN :
        LET step == Current
            passed == Passed(step, end, tidy)
            If(b, s) == IF b THEN Append(s, step.id) ELSE s
        IN  /\ reports' = Append(reports, [id |-> step.id, passed |-> passed])
            /\ seen' = Append(seen, [id |-> step.id, passed |-> SeenAs(step, end, tidy)])
            /\ opened' = IF Ran(end) THEN Append(opened, step) ELSE opened
            /\ cleaned' = If(Immediate(step, end), cleaned)
            /\ deferred' = If(Defers(step, end), deferred)
            /\ anyFailed' = (anyFailed \/ ~passed)
            /\ stop' = (stop \/ (~passed /\ failFast))
            /\ wrong' = IF passed THEN wrong ELSE wrong \cup {"case"}
    /\ stack' = <<Tail(Head(stack))>> \o Tail(stack)
    /\ UNCHANGED <<failFast, workflow, hooks, error, phase, status>>

\* A conditional: one of its branches is run before the rest of its list.
Branch ==
    /\ Running /\ ~IsCase(Current)
    /\ \E branch \in {Current.then, Current.else} :
        stack' = <<branch, Tail(Head(stack))>> \o Tail(stack)
    /\ UNCHANGED <<failFast, workflow, stop, seen, reports, opened, deferred, cleaned, hooks,
                   wrong, anyFailed, error, phase, status>>

\* The innermost list is over, or stopped; with it, maybe, the outermost one.
Leave ==
    /\ phase = "steps" /\ stack # <<>>
    /\ Head(stack) = <<>> \/ stop
    /\ stack' = Tail(stack)
    /\ phase' = IF Tail(stack) = <<>> THEN "deferred" ELSE "steps"
    /\ UNCHANGED <<failFast, workflow, seen, reports, opened, deferred, cleaned, hooks, wrong,
                   anyFailed, error, status>>

\* Mutation: stop_execution is a value of each call and not shared by them.
ReturnForgetsStop == Leave /\ stop' = FALSE

\* execute_workflow_steps returns.
Return == Leave /\ UNCHANGED stop

-----------------------------------------------------------------------------
\* The reports with a failure put into the one of that step.
FailStep(s, id) ==
    [i \in DOMAIN s |-> IF s[i].id = id THEN [s[i] EXCEPT !.passed = FALSE] ELSE s[i]]

\* run_deferred_teardown of one entry of the stack; a failure is put into the
\* report of its step. `failed` is what becomes of any_case_failed.
Compensate(id, rest, failed) ==
    /\ phase = "deferred" /\ deferred # <<>>
    /\ deferred' = rest
    /\ cleaned' = Append(cleaned, id)
    /\ \/ UNCHANGED <<reports, wrong, anyFailed>>
       \/ /\ reports' = FailStep(reports, id)
          /\ wrong' = wrong \cup {"deferred"}
          /\ anyFailed' = failed
    /\ UNCHANGED <<failFast, workflow, stack, stop, seen, opened, hooks, error, phase, status>>

\* Mutations: in the order of the steps; a failure that only the step shows.
RunDeferredInOrder == Compensate(Head(deferred), Tail(deferred), TRUE)
RunDeferredQuietly == Compensate(Last(deferred), Front(deferred), anyFailed)

\* The deferred teardowns, the last one first, every one of them.
RunDeferred == Compensate(Last(deferred), Front(deferred), TRUE)

\* All have run.
AfterDeferred(runTeardown) ==
    /\ phase = "deferred" /\ deferred = <<>>
    /\ phase' = IF runTeardown THEN "teardown" ELSE "flush"
    /\ UNCHANGED <<failFast, workflow, stack, stop, seen, reports, opened, deferred, cleaned,
                   hooks, wrong, anyFailed, error, status>>

\* Mutation: an error of the steps skips the teardown hook.
EndDeferredUnlessError == AfterDeferred("setup" \in hooks /\ ~error)

\* The teardown hook is for a setup that succeeded.
EndDeferred == AfterDeferred("setup" \in hooks)

\* The teardown hook; its error is added to the workflow's.
Teardown ==
    /\ phase = "teardown"
    /\ hooks' = hooks \cup {"teardown"}
    /\ \/ HookRuns(workflow.teardown) /\ UNCHANGED <<wrong, error>>
       \/ wrong' = wrong \cup {"teardown"} /\ error' = TRUE
    /\ phase' = "flush"
    /\ UNCHANGED <<failFast, workflow, stack, stop, seen, reports, opened, deferred, cleaned,
                   anyFailed, status>>

\* The callbacks are flushed, and the report is made.
FlushAndReport ==
    /\ phase = "flush"
    /\ \/ UNCHANGED <<wrong, anyFailed>>
       \/ wrong' = wrong \cup {"callback"} /\ anyFailed' = TRUE
    /\ status' = IF error \/ anyFailed' THEN "failed" ELSE "passed"
    /\ phase' = "done"
    /\ UNCHANGED <<failFast, workflow, stack, stop, seen, reports, opened, deferred, cleaned,
                   hooks, error>>

Next ==
    \/ ResolveVars \/ Setup
    \/ StepError \/ RunCase \/ Branch \/ Return
    \/ RunDeferred \/ EndDeferred \/ Teardown \/ FlushAndReport

\* One task runs the workflow from its start to its end.
Spec == Init /\ [][Next]_vars /\ WF_vars(Next)

-----------------------------------------------------------------------------
TypeOK ==
    /\ {failFast, stop, anyFailed, error} \subseteq BOOLEAN
    /\ workflow \in Workflows
    /\ stack \in Seq(Seq(Steps))
    /\ {seen, reports} \subseteq Seq(StepReports)
    /\ opened \in Seq(CaseSteps)
    /\ {deferred, cleaned} \subseteq Seq(Ids)
    /\ hooks \subseteq {"setup", "teardown"}
    /\ wrong \subseteq Troubles
    /\ phase \in Phases
    /\ status \in {"none", "passed", "failed"}

\* The steps of a list whose case has a teardown with that policy, by id.
WithPolicy(s, policy) ==
    LET ids[n \in 0 .. Len(s)] ==
            IF n = 0 THEN <<>>
            ELSE IF s[n].hasTeardown /\ s[n].cleanup = policy THEN Append(ids[n - 1], s[n].id)
            ELSE ids[n - 1]
    IN  ids[Len(s)]

\* Every case that came past its setup is cleaned up as its policy says, once,
\* whatever failed in between: at once and in order, or after the steps and in
\* the reverse order, and nothing else is cleaned up. It holds at every moment
\* of what is done together with what is still on the stack.
Compensation ==
    /\ cleaned \o Reverse(deferred)
           = WithPolicy(opened, "immediate") \o Reverse(WithPolicy(opened, "defer"))
    /\ phase \in {"teardown", "flush", "done"} => deferred = <<>>

\* A setup that succeeded is followed by the teardown hook, also when the steps
\* ended in an error; one that failed is not, and no step is run after it.
HooksPaired ==
    /\ phase = "done" => ("teardown" \in hooks <=> "setup" \in hooks)
    /\ "setup" \notin hooks => reports = <<>> /\ cleaned = <<>>

\* The workflow passes if and only if nothing went wrong in any of its parts,
\* its deferred teardowns and its callbacks included.
VerdictFaithful ==
    phase = "done" => (status = "passed" <=> wrong = {})

\* Conditions and inputs see of each earlier step what its report says, as long
\* as steps are run. Afterwards they need not: a deferred teardown that fails
\* changes the report and not state.steps, which the teardown hook then sees.
BranchesSeeReports == phase = "steps" => seen = reports

\* --fail-fast: after a step that did not pass no further case is started, in
\* whatever list of steps it would be.
FailFastStops ==
    [][failFast /\ (\E i \in DOMAIN reports : ~reports[i].passed)
         => Len(reports') = Len(reports)]_vars
=============================================================================
