------------------------------ MODULE CaseRun -------------------------------
(***************************************************************************)
(* One case of cli/src/runner.rs: execute_case and its counterpart in a    *)
(* workflow, run_case_in_workflow with run_deferred_teardown. The setup,   *)
(* steps and teardown lists, the recursion of execute_step_list through    *)
(* `if` and `foreach`, the variables of the context, and every point at    *)
(* which a step may fail.                                                  *)
(*                                                                         *)
(* execute_case is the case with the cleanup "immediate", no inputs and no *)
(* exports. A leaf (sql, redis, request, callback, sleep, query_db,        *)
(* query_redis, use_data, set, exec) is the variables it writes: by `set`  *)
(* or by its extracts. Values of other roots of the context, conditions    *)
(* and effects on the application are left out.                            *)
(***************************************************************************)
EXTENDS Naturals, Sequences, SequencesExt, CaseOutcomes

CONSTANTS
    Cases,      \* cases with their cleanup and exports
    Steps,      \* the steps of their lists, and of the lists in these
    Names,      \* the variables
    Items,      \* the elements of arrays
    Arrays,     \* what the expression of a foreach may yield
    Written,    \* the value of a variable that a step, `vars` or an input set
    Unset       \* the value of a variable that is not there

\* A step is [kind, writes] for a leaf (kind "leaf" or "exec", `writes` the
\* sequence of variables), [kind |-> "if", then, else] or
\* [kind |-> "foreach", bind, body].
IsLeaf(step) == step.kind \in {"leaf", "exec"}

ASSUME StepsAssumption ==
    \A step \in Steps :
        \/ IsLeaf(step) /\ step.writes \in Seq(Names)
        \/ step.kind = "if" /\ {step.then, step.else} \subseteq Seq(Steps)
        \/ step.kind = "foreach" /\ step.bind \in Names /\ step.body \in Seq(Steps)

ASSUME ArraysAssumption == Arrays \subseteq Seq(Items)

ASSUME CasesAssumption ==
    \A c \in Cases :
        /\ {c.setup, c.steps, c.teardown} \subseteq Seq(Steps)
        /\ c.vars \subseteq Names /\ c.cleanup \in Policies /\ c.exports \in BOOLEAN

VARIABLES
    case,       \* the case
    target,     \* environment_exec_target is there
    phase,      \* where execute_case_inner is
    stack,      \* the lists and loops execute_step_list is in, innermost first
    vars,       \* `vars` of the context
    saved,      \* saved_root, as far as it is `vars`
    reports,    \* the reports of the steps, each with its phase and status
    listError,  \* the list that was run last ended in an error
    failed,     \* case_error is set
    cleaned,    \* the teardown list was begun
    scopes,     \* history: what each entry of the stack binds, with its value
    base,       \* history: what was written outside the loops that bind it
    leaked,     \* history: an error left a loop
    wrong       \* history: what went wrong so far

caseVars == <<case, target, phase, stack, vars, saved, reports, listError, failed,
              cleaned, scopes, base, leaked, wrong>>

history == <<scopes, base, leaked>>
Phases == {"vars", "setup", "steps", "teardown", "waiting", "done"}
Troubles == {"vars", "setup", "steps", "exports", "teardown"}
Values == {Written, Unset} \cup Items
Frames == [kind : {"list"}, rest : Seq(Steps)]
          \cup [kind : {"loop"}, bind : Names, body : Seq(Steps), items : Seq(Items),
                previous : Values]

\* A scope binds one name, if the entry is the list of an iteration, or none.
Scopes == [names : SUBSET Names, value : Values]
Plain == [names |-> {}, value |-> Unset]

List(steps) == [kind |-> "list", rest |-> steps]
Loop(step, items) == [kind |-> "loop", bind |-> step.bind, body |-> step.body,
                      items |-> items, previous |-> vars[step.bind]]

\* The list of a phase is begun.
Begin(steps) == stack' = <<List(steps)>> /\ scopes' = <<Plain>>

Init ==
    /\ case \in Cases /\ target \in BOOLEAN
    /\ phase = "vars" /\ stack = <<>> /\ scopes = <<>>
    /\ vars = [n \in Names |-> Unset] /\ saved = vars /\ base = vars
    /\ reports = <<>>
    /\ listError = FALSE /\ failed = FALSE /\ cleaned = FALSE /\ leaked = FALSE
    /\ wrong = {}

-----------------------------------------------------------------------------
\* The API is looked up, the context built, the inputs set and the case's own
\* variables resolved: any of them may fail, and then nothing is run.
ResolveVars ==
    /\ phase = "vars"
    /\ \/ /\ vars' = [n \in Names |-> IF n \in case.vars THEN Written ELSE Unset]
          /\ base' = vars'
          /\ phase' = "setup" /\ Begin(case.setup)
          /\ UNCHANGED <<failed, wrong>>
       \/ /\ failed' = TRUE /\ wrong' = {"vars"} /\ phase' = "done"
          /\ UNCHANGED <<vars, base, stack, scopes>>
    /\ UNCHANGED <<case, target, saved, reports, listError, cleaned, leaked>>

\* execute_step_list is about to run a step.
Running == stack # <<>> /\ Head(stack).kind = "list" /\ Head(stack).rest # <<>>
Current == Head(Head(stack).rest)
Advance == <<List(Tail(Head(stack).rest))>> \o Tail(stack)

Report(status) == reports' = Append(reports, [phase |-> phase, status |-> status])

\* The i-th entry of the stack is the innermost one that binds the name.
Innermost(i, n) ==
    n \in scopes[i].names /\ \A j \in 1..(i - 1) : n \notin scopes[j].names

\* Writes of the names: to `vars`, which is flat; in the history each goes to
\* the innermost entry that binds the name, or to the base.
Set(names) == vars' = [n \in Names |-> IF n \in names THEN Written ELSE vars[n]]
SetBase(names) ==
    base' = [n \in Names |->
                IF n \in names /\ \A i \in DOMAIN scopes : n \notin scopes[i].names
                THEN Written ELSE base[n]]
SetScopes(names) ==
    scopes' = [i \in DOMAIN scopes |->
                IF \E n \in names : Innermost(i, n)
                THEN [scopes[i] EXCEPT !.value = Written] ELSE scopes[i]]

\* A leaf that succeeds: set_result, the extracts, the assertions, the report.
RunLeaf ==
    /\ Running /\ IsLeaf(Current)
    /\ Current.kind = "exec" => target
    /\ Set(ToSet(Current.writes)) /\ SetBase(ToSet(Current.writes))
    /\ SetScopes(ToSet(Current.writes))
    /\ Report("passed")
    /\ stack' = Advance
    /\ UNCHANGED <<case, target, phase, saved, listError, failed, cleaned, leaked, wrong>>

\* An exec without a managed runtime: reported as skipped, and neither its
\* extracts nor its assertions are evaluated.
SkipExec ==
    /\ Running /\ Current.kind = "exec" /\ ~target
    /\ Report("skipped")
    /\ stack' = Advance
    /\ UNCHANGED <<case, target, phase, vars, saved, listError, failed, cleaned, wrong,
                   history>>

\* `?` leaves every list and loop at once; their bindings are not restored.
Unwind ==
    /\ stack' = <<>> /\ scopes' = <<>>
    /\ listError' = TRUE
    /\ leaked' = (leaked \/ \E i \in DOMAIN scopes : scopes[i].names # {})
    /\ wrong' = wrong \cup {phase}
    /\ UNCHANGED <<case, target, phase, saved, failed, cleaned>>

\* The command of an exec fails: the only failure that has a report of its own.
ExecFails ==
    /\ Running /\ Current.kind = "exec" /\ target
    /\ Report("failed")
    /\ Unwind
    /\ UNCHANGED <<vars, base>>

\* A leaf fails before or in its effect (its arguments do not resolve, the
\* datasource, the server or the file does not answer), without a report.
EffectFails ==
    /\ Running /\ IsLeaf(Current)
    /\ Unwind
    /\ UNCHANGED <<vars, base, reports>>

\* A leaf fails after its effect, in an extract or an assertion, or a `set` in
\* one of its values: some of its writes are done, and there is no report.
ChecksFail ==
    /\ Running /\ IsLeaf(Current)
    /\ Current.kind = "exec" => target
    /\ \E k \in 0..Len(Current.writes) :
        LET names == ToSet(SubSeq(Current.writes, 1, k))
        IN  Set(names) /\ SetBase(names)
    /\ Unwind
    /\ UNCHANGED reports

\* The condition of an `if` or the expression of a `foreach` does not evaluate,
\* or the latter not to an array.
ControlFails ==
    /\ Running /\ ~IsLeaf(Current)
    /\ Unwind
    /\ UNCHANGED <<vars, base, reports>>

\* run_conditional_step: reported before the branch is run.
Branch ==
    /\ Running /\ Current.kind = "if"
    /\ Report("passed")
    /\ \E steps \in {Current.then, Current.else} : stack' = <<List(steps)>> \o Advance
    /\ scopes' = <<Plain>> \o scopes
    /\ UNCHANGED <<case, target, phase, vars, saved, listError, failed, cleaned, base,
                   leaked, wrong>>

\* run_foreach_step up to its loop: it is reported, and the value that the
\* binding has is kept.
EnterLoop ==
    /\ Running /\ Current.kind = "foreach"
    /\ Report("passed")
    /\ \E items \in Arrays : stack' = <<Loop(Current, items)>> \o Advance
    /\ scopes' = <<Plain>> \o scopes
    /\ UNCHANGED <<case, target, phase, vars, saved, listError, failed, cleaned, base,
                   leaked, wrong>>

InLoop == stack # <<>> /\ Head(stack).kind = "loop"

\* The binding becomes `value` and the body is run for the next item.
Iterate(value) ==
    /\ InLoop /\ Head(stack).items # <<>>
    /\ vars' = [vars EXCEPT ![Head(stack).bind] = value]
    /\ scopes' = <<[names |-> {Head(stack).bind}, value |-> Head(Head(stack).items)]>>
                     \o scopes
    /\ stack' = <<List(Head(stack).body), [Head(stack) EXCEPT !.items = Tail(@)]>>
                    \o Tail(stack)
    /\ UNCHANGED <<case, target, phase, saved, reports, listError, failed, cleaned, base,
                   leaked, wrong>>

\* The next item is bound.
NextItem == Iterate(Head(Head(stack).items))

\* The loop is over and its binding becomes `value`.
LeaveLoop(value) ==
    /\ InLoop /\ Head(stack).items = <<>>
    /\ vars' = [vars EXCEPT ![Head(stack).bind] = value]
    /\ stack' = Tail(stack) /\ scopes' = Tail(scopes)
    /\ UNCHANGED <<case, target, phase, saved, reports, listError, failed, cleaned, base,
                   leaked, wrong>>

\* Mutation: the binding is removed when the loop ends.
EndLoopUnbound == LeaveLoop(Unset)

\* The loop is over: its binding is restored.
EndLoop == LeaveLoop(Head(stack).previous)

\* execute_step_list returns Ok: to an `if`, a loop or the case.
Return ==
    /\ stack # <<>> /\ Head(stack).kind = "list" /\ Head(stack).rest = <<>>
    /\ stack' = Tail(stack) /\ scopes' = Tail(scopes)
    /\ listError' = FALSE
    /\ UNCHANGED <<case, target, phase, vars, saved, reports, failed, cleaned, base,
                   leaked, wrong>>

-----------------------------------------------------------------------------
\* The list of the phase has ended: what execute_case_inner does next.
Ended(p) == phase = p /\ stack = <<>>

\* Mutation: the steps are run whatever became of the setup.
EndSetupAnyway ==
    /\ Ended("setup")
    /\ failed' = (failed \/ listError)
    /\ phase' = "steps" /\ Begin(case.steps)
    /\ UNCHANGED <<case, target, vars, saved, reports, listError, cleaned, base, leaked,
                   wrong>>

\* After a setup that failed nothing else of the case is run.
EndSetup ==
    /\ Ended("setup")
    /\ \/ listError /\ failed' = TRUE /\ phase' = "done" /\ UNCHANGED <<stack, scopes>>
       \/ ~listError /\ phase' = "steps" /\ Begin(case.steps) /\ UNCHANGED failed
    /\ UNCHANGED <<case, target, vars, saved, reports, listError, cleaned, base, leaked,
                   wrong>>

\* The steps are over, in an error or not: the context is saved, the exports are
\* evaluated, and the teardown is run, put off or skipped. A teardown that is
\* put off has only the saved context left.
EndSteps ==
    /\ Ended("steps")
    /\ \/ failed' = listError /\ UNCHANGED wrong
       \/ case.exports /\ ~listError /\ failed' = TRUE /\ wrong' = wrong \cup {"exports"}
    /\ saved' = vars
    /\ \/ /\ case.cleanup = "immediate"
          /\ phase' = "teardown" /\ cleaned' = TRUE /\ Begin(case.teardown)
          /\ UNCHANGED vars
       \/ /\ case.cleanup # "immediate"
          /\ phase' = IF case.cleanup = "defer" /\ case.teardown # <<>>
                      THEN "waiting" ELSE "done"
          /\ vars' = [n \in Names |-> Unset]
          /\ UNCHANGED <<cleaned, stack, scopes>>
    /\ UNCHANGED <<case, target, reports, listError, base, leaked>>

\* run_deferred_teardown, begun in some context.
Resume(context) ==
    /\ phase = "waiting"
    /\ vars' = context
    /\ phase' = "teardown" /\ cleaned' = TRUE /\ Begin(case.teardown)
    /\ UNCHANGED <<case, target, saved, reports, listError, failed, base, leaked, wrong>>

\* Mutation: a new context with the variables of the case.
RunDeferredAfresh == Resume([n \in Names |-> IF n \in case.vars THEN Written ELSE Unset])

\* Mutation: only what passed is worth cleaning up.
RunDeferredIfPassed == ~failed /\ Resume(saved)

\* run_deferred_teardown, in the context that was saved.
RunDeferred == Resume(saved)

\* Mutation: an error of a deferred teardown stays in the report of that list.
EndTeardownQuietly ==
    /\ Ended("teardown")
    /\ failed' = (failed \/ (listError /\ case.cleanup = "immediate"))
    /\ phase' = "done"
    /\ UNCHANGED <<case, target, stack, vars, saved, reports, listError, cleaned, wrong,
                   history>>

\* The error of the teardown is added to that of the steps; of a deferred one it
\* goes to the report of the workflow's step.
EndTeardown ==
    /\ Ended("teardown")
    /\ failed' = (failed \/ listError)
    /\ phase' = "done"
    /\ UNCHANGED <<case, target, stack, vars, saved, reports, listError, cleaned, wrong,
                   history>>

Next ==
    \/ ResolveVars \/ EndSetup \/ EndSteps \/ RunDeferred \/ EndTeardown
    \/ RunLeaf \/ SkipExec \/ ExecFails \/ EffectFails \/ ChecksFail
    \/ ControlFails
    \/ Branch \/ EnterLoop \/ NextItem \/ EndLoop \/ Return

\* One task runs the case, and its workflow runs every deferred teardown.
Spec == Init /\ [][Next]_caseVars /\ WF_caseVars(Next)

-----------------------------------------------------------------------------
TypeOK ==
    /\ case \in Cases /\ phase \in Phases /\ wrong \subseteq Troubles
    /\ {target, listError, failed, cleaned, leaked} \subseteq BOOLEAN
    /\ stack \in Seq(Frames)
    /\ {vars, saved, base} \subseteq [Names -> Values]
    /\ scopes \in Seq(Scopes)
    /\ reports \in Seq([phase : Phases, status : {"passed", "failed", "skipped"}])

\* What a variable is worth when a loop binds it for the loop only.
Worth(n, value) ==
    \/ \E i \in DOMAIN scopes : Innermost(i, n) /\ value = scopes[i].value
    \/ (\A i \in DOMAIN scopes : n \notin scopes[i].names) /\ value = base[n]

AboutToRun == stack # <<>> /\ Head(stack).kind = "list"

\* Keeping one value per loop and restoring it makes loops scopes: whatever
\* loops and branches are nested, also over the same name and over names that
\* steps write, a step sees of every variable the innermost binding, as long as
\* no error has left a loop: the `?` on its body skips restore_var, and the
\* teardown then sees the binding. A deferred teardown sees what the steps left.
Scoped == AboutToRun /\ ~leaked => \A n \in Names : Worth(n, vars[n])

\* The case failed exactly if something of it went wrong, in whatever list.
VerdictFaithful == phase = "done" => (failed <=> wrong # {})

\* How far the case came, from what went wrong.
End ==
    IF {"vars", "setup"} \cap wrong # {} THEN "unopened"
    ELSE IF "steps" \in wrong THEN "steps failed"
    ELSE IF "exports" \in wrong THEN "exports failed"
    ELSE "passed"

\* The case has returned to its workflow, which has not yet run its deferred
\* teardown.
Returned == phase = "waiting" \/ (phase = "done" /\ ~(case.cleanup = "defer" /\ cleaned))

\* A case is for its workflow what CaseOutcomes says: its outcome, its teardown
\* begun at once or put off, or neither, follow from how far it came.
EndsAsWorkflowSees ==
    LET step == [cleanup |-> case.cleanup, hasTeardown |-> case.teardown # <<>>]
    IN  Returned =>
        /\ failed <=> ~Passed(step, End, "teardown" \notin wrong)
        /\ step.hasTeardown => (cleaned <=> Immediate(step, End))
        /\ phase = "waiting" <=> Defers(step, End)

\* Every case ends: loops are finite and the deferred teardown is run.
CaseEndsAtLast == <>(phase = "done")
=============================================================================
