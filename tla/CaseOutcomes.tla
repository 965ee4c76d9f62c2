---------------------------- MODULE CaseOutcomes ----------------------------
(***************************************************************************)
(* How a case inside a workflow ends, in the terms of run_case_in_workflow *)
(* of cli/src/runner.rs, and what its cleanup policy makes of it. A step   *)
(* is any record with the fields `cleanup` and `hasTeardown`.              *)
(***************************************************************************)

Policies == {"immediate", "defer", "skip"}

\* How far a case comes: it does not open (unknown API, context, variables or
\* setup), its steps fail, its exports fail, or nothing does.
CaseEnds == {"unopened", "steps failed", "exports failed", "passed"}

Ran(end) == end # "unopened"

\* Is the teardown of the case run at once?
Immediate(step, end) == Ran(end) /\ step.cleanup = "immediate" /\ step.hasTeardown

\* `tidy`: the teardown that is run at once, if one is, succeeds.
Passed(step, end, tidy) == end = "passed" /\ (Immediate(step, end) => tidy)

\* Mutation: only a case that passed is worth cleaning up.
DefersIfPassed(step, end) == end = "passed" /\ step.cleanup = "defer" /\ step.hasTeardown

\* Is the teardown of the case put off?
Defers(step, end) == Ran(end) /\ step.cleanup = "defer" /\ step.hasTeardown
=============================================================================
