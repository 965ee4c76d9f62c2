---------------------------- MODULE MCWorkflowRun ----------------------------
(* Workflows with every cleanup policy, conditionals in conditionals and a   *)
(* step after each of them; hooks with and without a request.                *)
EXTENDS WorkflowRun

Case(id, cleanup) == [id |-> id, cleanup |-> cleanup, hasTeardown |-> TRUE]
Bare(id, cleanup) == [id |-> id, cleanup |-> cleanup, hasTeardown |-> FALSE]
Cond(then, else) == [then |-> then, else |-> else]

Workflow(setup, steps, teardown) == [setup |-> setup, steps |-> steps, teardown |-> teardown]

MCWorkflows == {
    Workflow({"set"},
        <<Case(1, "defer"),
          Cond(<<Cond(<<Case(2, "defer")>>, <<>>), Case(3, "immediate")>>, <<Case(4, "skip")>>),
          Case(5, "defer")>>,
        {"exec"}),
    Workflow({}, <<Bare(1, "defer"), Case(2, "immediate"), Bare(3, "immediate")>>, {"request"}),
    Workflow({"set", "request"}, <<Case(1, "defer")>>, {"set"}) }

\* The steps of a list with those inside them.
RECURSIVE Within(_)
Within(steps) ==
    UNION {{step} \cup IF IsCase(step) THEN {} ELSE Within(step.then) \cup Within(step.else)
           : step \in ToSet(steps)}

MCSteps == UNION {Within(w.steps) : w \in MCWorkflows}
=============================================================================
