----------------------------- MODULE MCCaseRun ------------------------------
(* Cases whose loops bind one name twice, write their own binding and bind a *)
(* name that other steps write, under every cleanup policy.                  *)
EXTENDS CaseRun

Leaf(writes) == [kind |-> "leaf", writes |-> writes]
Exec(writes) == [kind |-> "exec", writes |-> writes]
If(then, else) == [kind |-> "if", then |-> then, else |-> else]
Foreach(bind, body) == [kind |-> "foreach", bind |-> bind, body |-> body]

Case(cleanup, exports, set, setup, steps, teardown) ==
    [cleanup |-> cleanup, exports |-> exports, vars |-> set,
     setup |-> setup, steps |-> steps, teardown |-> teardown]

MCCases == {
    Case("immediate", FALSE, {"x"},
         <<Exec(<<"y">>)>>,
         <<Foreach("x", <<Foreach("x", <<Exec(<<"x">>)>>), Leaf(<<"y">>)>>), Leaf(<<>>)>>,
         <<Foreach("y", <<Leaf(<<>>)>>), Leaf(<<>>)>>),
    Case("defer", TRUE, {},
         <<Leaf(<<"x">>)>>,
         <<If(<<Foreach("y", <<If(<<Leaf(<<"y", "x">>)>>, <<>>)>>)>>,
              <<Foreach("x", <<Foreach("y", <<Leaf(<<"x">>)>>), Exec(<<"y">>)>>)>>),
           Exec(<<>>)>>,
         <<Leaf(<<"y">>), Exec(<<>>)>>),
    Case("skip", TRUE, {"y"}, <<>>, <<Leaf(<<"x">>)>>, <<Leaf(<<>>)>>),
    Case("immediate", TRUE, {}, <<>>, <<Leaf(<<"x", "y">>)>>, <<>>),
    Case("defer", FALSE, {}, <<>>, <<Leaf(<<>>)>>, <<>>) }

\* The steps of a list with those inside them.
RECURSIVE Within(_)
Within(steps) ==
    UNION {{step} \cup CASE step.kind = "if" -> Within(step.then) \cup Within(step.else)
                         [] step.kind = "foreach" -> Within(step.body)
                         [] OTHER -> {} : step \in ToSet(steps)}

MCSteps == UNION {Within(c.setup) \cup Within(c.steps) \cup Within(c.teardown) : c \in MCCases}

MCArrays == {<<>>, <<"one">>, <<"one", "two">>}
=============================================================================
