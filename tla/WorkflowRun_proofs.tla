------------------------- MODULE WorkflowRun_proofs -------------------------
(***************************************************************************)
(* For every set of workflows, whatever conditionals they have, wherever   *)
(* they fail: every case that was opened is cleaned up as its policy says, *)
(* the hooks are paired, and the status and what conditions see are right. *)
(***************************************************************************)
EXTENDS WorkflowRun, SequenceTheorems, WellFoundedInduction, TLAPS

\* The hooks that were run, by where execute_workflow is; nothing is run
\* before the setup hook.
HooksByPhase ==
    /\ phase \in {"vars", "setup", "err"} => hooks = {}
    /\ phase \in {"steps", "teardown"} => hooks = {"setup"}
    /\ phase = "deferred" => hooks \subseteq {"setup"}
    /\ phase \in {"flush", "done"} => ("teardown" \in hooks <=> "setup" \in hooks)
    /\ "setup" \notin hooks =>
           reports = <<>> /\ opened = <<>> /\ cleaned = <<>> /\ deferred = <<>>

\* Whatever goes wrong is remembered for the status.
TroubleShows == (error \/ anyFailed) <=> wrong # {}

SeenIsReported == phase \in {"vars", "setup", "steps"} => seen = reports

\* A case that did not pass stops the steps under --fail-fast.
FailureStops ==
    phase = "steps" /\ failFast /\ (\E i \in DOMAIN reports : ~reports[i].passed) => stop

\* As long as steps are run, what was cleaned up and what is deferred are each
\* what the policies say.
CleanedSoFar ==
    phase \in {"vars", "setup", "steps"} =>
        /\ cleaned = WithPolicy(opened, "immediate")
        /\ deferred = WithPolicy(opened, "defer")

ControlInv ==
    /\ HooksByPhase /\ TroubleShows /\ SeenIsReported /\ FailureStops
    /\ VerdictFaithful

CleanupInv == CleanedSoFar /\ Compensation

-----------------------------------------------------------------------------
(***************************************************************************)
(* Induction over the natural numbers, and the sequence that WithPolicy    *)
(* builds.                                                                 *)
(***************************************************************************)

\* A set of natural numbers that is not empty has a least element.
LEMMA LeastElement ==
    ASSUME NEW T, T \subseteq Nat, T # {}
    PROVE  \E m \in T : \A n \in T : m <= n
<1> DEFINE R == {pair \in Nat \X Nat : pair[1] < pair[2]}
<1>1. IsWellFoundedOn(R, Nat)
    BY NatLessThanWellFounded DEF OpToRel
<1> HIDE DEF R
<1>2. PICK m \in T : \A n \in T : <<n, m>> \notin R
    BY <1>1, WFMin
<1>3. \A n \in T : ~ (n < m)
    BY <1>2 DEF R
<1> QED
    BY <1>3

\* Induction, for a set of numbers.
LEMMA Induction ==
    ASSUME NEW T, 0 \in T, \A n \in Nat : n \in T => n + 1 \in T
    PROVE  \A n \in Nat : n \in T
<1> SUFFICES ASSUME Nat \ T # {} PROVE FALSE
    OBVIOUS
<1>1. PICK m \in Nat \ T : \A n \in Nat \ T : m <= n
    BY LeastElement
<1>2. m # 0 /\ m - 1 \in Nat /\ m - 1 \notin Nat \ T
    BY <1>1
<1> QED
    BY <1>1, <1>2

\* The recursion of WithPolicy: what it adds to the ids of the steps before.
NextIds(before, step, policy) ==
    IF step.hasTeardown /\ step.cleanup = policy THEN Append(before, step.id) ELSE before

IsTable(f, s, m, policy) ==
    f = [n \in 0 .. m |-> IF n = 0 THEN <<>> ELSE NextIds(f[n - 1], s[n], policy)]

LEMMA TableExists ==
    ASSUME NEW s, NEW policy, NEW m \in Nat
    PROVE  \E f : IsTable(f, s, m, policy)
<1> DEFINE T == {n \in Nat : \E f : IsTable(f, s, n, policy)}
<1>1. 0 \in T
    <2>1. IsTable([n \in 0 .. 0 |-> <<>>], s, 0, policy)
        BY DEF IsTable
    <2> QED
        BY <2>1
<1>2. ASSUME NEW n \in Nat, n \in T PROVE n + 1 \in T
    <2>1. PICK f : IsTable(f, s, n, policy)
        BY <1>2
    <2> DEFINE g == [k \in 0 .. n + 1 |->
                        IF k = n + 1 THEN NextIds(f[n], s[n + 1], policy) ELSE f[k]]
    <2>2. IsTable(g, s, n + 1, policy)
        <3>1. \A k \in 0 .. n + 1 :
                  g[k] = IF k = 0 THEN <<>> ELSE NextIds(g[k - 1], s[k], policy)
            <4> TAKE k \in 0 .. n + 1
            <4>1. CASE k = n + 1
                BY <4>1
            <4>2. CASE k \in 0 .. n
                BY <2>1, <4>2 DEF IsTable
            <4> QED
                BY <4>1, <4>2
        <3> HIDE DEF g
        <3>2. g = [k \in 0 .. n + 1 |-> g[k]]
            BY DEF g
        <3> QED
            BY <3>1, <3>2 DEF IsTable
    <2> QED
        BY <2>2
<1> HIDE DEF T
<1>3. m \in T
    BY <1>1, <1>2, Induction
<1> QED
    BY <1>3 DEF T

\* The tables of a list and of a longer one agree.
LEMMA TablesAgree ==
    ASSUME NEW s, NEW t, NEW policy, NEW m \in Nat, NEW n \in Nat, NEW f, NEW g,
           m <= n, \A k \in 1 .. m : s[k] = t[k],
           IsTable(f, s, m, policy), IsTable(g, t, n, policy)
    PROVE  \A k \in 0 .. m : f[k] = g[k]
<1> DEFINE T == {k \in Nat : k <= m => f[k] = g[k]}
<1>1. 0 \in T
    BY DEF IsTable
<1>2. ASSUME NEW k \in Nat, k \in T PROVE k + 1 \in T
    BY <1>2 DEF IsTable
<1> HIDE DEF T
<1>3. \A k \in Nat : k \in T
    BY <1>1, <1>2, Induction
<1> QED
    BY <1>3 DEF T

LEMMA WithPolicyTable ==
    ASSUME NEW s, NEW policy, Len(s) \in Nat
    PROVE  \E f : IsTable(f, s, Len(s), policy) /\ WithPolicy(s, policy) = f[Len(s)]
<1> DEFINE f == CHOOSE f : IsTable(f, s, Len(s), policy)
<1>1. IsTable(f, s, Len(s), policy)
    BY TableExists
<1>2. WithPolicy(s, policy) = f[Len(s)]
    BY DEF WithPolicy, IsTable, NextIds
<1> QED
    BY <1>1, <1>2

LEMMA WithPolicyEmpty == ASSUME NEW policy PROVE WithPolicy(<<>>, policy) = <<>>
<1>1. Len(<<>>) = 0
    OBVIOUS
<1>2. PICK f : IsTable(f, <<>>, Len(<<>>), policy) /\ WithPolicy(<<>>, policy) = f[Len(<<>>)]
    BY <1>1, WithPolicyTable
<1> QED
    BY <1>1, <1>2 DEF IsTable

\* One more case adds its id if it has that policy.
LEMMA WithPolicyAppend ==
    ASSUME NEW S, NEW s \in Seq(S), NEW x \in S, NEW policy
    PROVE  WithPolicy(Append(s, x), policy) = NextIds(WithPolicy(s, policy), x, policy)
<1> DEFINE t == Append(s, x)
           m == Len(s)
<1>1. m \in Nat /\ Len(t) = m + 1 /\ t[m + 1] = x /\ \A k \in 1 .. m : s[k] = t[k]
    OBVIOUS
<1>0. WithPolicy(t, policy) = WithPolicy(Append(s, x), policy)
    OBVIOUS
<1> HIDE DEF t
<1>2. PICK f : IsTable(f, s, m, policy) /\ WithPolicy(s, policy) = f[m]
    BY <1>1, WithPolicyTable
<1>3. PICK g : IsTable(g, t, m + 1, policy) /\ WithPolicy(t, policy) = g[m + 1]
    <2>1. Len(t) \in Nat
        BY <1>1
    <2> QED
        BY <1>1, <2>1, WithPolicyTable
<1>4. f[m] = g[m]
    <2> DEFINE n == m + 1
    <2>1. m \in Nat /\ n \in Nat /\ m <= n /\ m \in 0 .. m
        BY <1>1
    <2>2. IsTable(f, s, m, policy) /\ IsTable(g, t, n, policy)
        BY <1>2, <1>3
    <2>3. \A k \in 1 .. m : s[k] = t[k]
        BY <1>1
    <2> HIDE DEF m, n
    <2>4. \A k \in 0 .. m : f[k] = g[k]
        BY <2>1, <2>2, <2>3, TablesAgree
    <2> QED
        BY <2>1, <2>4
<1>5. g[m + 1] = NextIds(g[m], x, policy)
    BY <1>1, <1>3 DEF IsTable
<1> QED
    BY <1>0, <1>2, <1>3, <1>4, <1>5

LEMMA WithPolicyTyped ==
    ASSUME NEW s \in Seq(CaseSteps), NEW policy
    PROVE  WithPolicy(s, policy) \in Seq(Ids)
<1>1. PICK f : IsTable(f, s, Len(s), policy) /\ WithPolicy(s, policy) = f[Len(s)]
    BY WithPolicyTable
<1> DEFINE T == {k \in Nat : k <= Len(s) => f[k] \in Seq(Ids)}
<1>2. 0 \in T
    BY <1>1 DEF IsTable
<1>3. ASSUME NEW k \in Nat, k \in T PROVE k + 1 \in T
    <2>1. CASE k + 1 <= Len(s)
        <3>1. f[k + 1] = NextIds(f[k], s[k + 1], policy) /\ s[k + 1] \in CaseSteps
            BY <1>1, <2>1 DEF IsTable
        <3>2. s[k + 1].id \in Ids
            BY <3>1 DEF Ids
        <3>3. f[k] \in Seq(Ids)
            BY <1>3, <2>1
        <3>4. f[k + 1] \in Seq(Ids)
            BY <3>1, <3>2, <3>3 DEF NextIds
        <3> QED
            BY <3>4
    <2> QED
        BY <2>1
<1> HIDE DEF T
<1>4. Len(s) \in T
    BY <1>2, <1>3, Induction
<1> QED
    BY <1>1, <1>4 DEF T

\* What is on the stack is run next: reversing a stack and popping it agree.
LEMMA PopReversed ==
    ASSUME NEW S, NEW c \in Seq(S), NEW d \in Seq(S), d # <<>>
    PROVE  Append(c, Last(d)) \o Reverse(Front(d)) = c \o Reverse(d)
<1> USE DEF Last, Front, Reverse
<1>1. Len(Append(c, Last(d)) \o Reverse(Front(d))) = Len(c \o Reverse(d))
    OBVIOUS
<1>2. \A i \in 1 .. Len(c \o Reverse(d)) :
          (Append(c, Last(d)) \o Reverse(Front(d)))[i] = (c \o Reverse(d))[i]
    OBVIOUS
<1> QED
    BY <1>1, <1>2

LEMMA PopTyped ==
    ASSUME NEW S, NEW d \in Seq(S), d # <<>>
    PROVE  Last(d) \in S /\ Front(d) \in Seq(S)
BY DEF Last, Front

-----------------------------------------------------------------------------
(***************************************************************************)
(* Types.                                                                  *)
(***************************************************************************)

LEMMA InitType == Init => TypeOK
<1> SUFFICES ASSUME Init PROVE TypeOK
    OBVIOUS
<1>1. workflow.steps \in Seq(Steps)
    BY WorkflowsAssumption DEF Init
<1>2. stack \in Seq(Seq(Steps))
    BY <1>1 DEF Init
<1>3. {seen, reports} \subseteq Seq(StepReports) /\ opened \in Seq(CaseSteps)
      /\ {deferred, cleaned} \subseteq Seq(Ids)
    BY DEF Init
<1>4. {failFast, stop, anyFailed, error} \subseteq BOOLEAN
    BY DEF Init
<1> QED
    BY <1>2, <1>3, <1>4 DEF Init, TypeOK, Phases

\* The failure of a deferred teardown is put into the report of its step.
LEMMA FailStepTyped ==
    ASSUME NEW s \in Seq(StepReports), NEW id
    PROVE  FailStep(s, id) \in Seq(StepReports) /\ Len(FailStep(s, id)) = Len(s)
<1> DEFINE m(i) == IF s[i].id = id THEN [s[i] EXCEPT !.passed = FALSE] ELSE s[i]
<1>1. \A i \in 1 .. Len(s) : m(i) \in StepReports
    <2> TAKE i \in 1 .. Len(s)
    <2>1. s[i] \in StepReports
        OBVIOUS
    <2>2. [s[i] EXCEPT !.passed = FALSE] \in StepReports
        BY <2>1 DEF StepReports
    <2> QED
        BY <2>1, <2>2
<1>2. FailStep(s, id) = [i \in 1 .. Len(s) |-> m(i)] /\ Len(s) \in Nat
    BY DEF FailStep
<1> HIDE DEF m
<1> QED
    BY <1>1, <1>2

\* The step about to run is one of the steps, and passing over it leaves a stack.
LEMMA CurrentTyped ==
    ASSUME TypeOK, Running
    PROVE  /\ Current \in Steps
           /\ Tail(Head(stack)) \in Seq(Steps) /\ Tail(stack) \in Seq(Seq(Steps))
<1>1. stack \in Seq(Seq(Steps)) /\ stack # <<>> /\ Head(stack) # <<>>
    BY DEF TypeOK, Running
<1>2. Head(stack) \in Seq(Steps) /\ Tail(stack) \in Seq(Seq(Steps))
    BY <1>1
<1> QED
    BY <1>1, <1>2 DEF Current

LEMMA NextType == TypeOK /\ [Next]_vars => TypeOK'
<1> SUFFICES ASSUME TypeOK, [Next]_vars PROVE TypeOK'
    OBVIOUS
<1> USE DEF TypeOK
<1>1. CASE ResolveVars
    BY <1>1 DEF ResolveVars, Phases
<1>2. CASE Setup
    BY <1>2 DEF Setup, Phases, Troubles
<1>3. CASE StepError
    BY <1>3 DEF StepError, Phases, Troubles
<1>4. CASE RunCase
    <2>1. Current \in CaseSteps /\ Current.id \in Ids
        BY <1>4, CurrentTyped DEF RunCase, CaseSteps, Ids
    <2>2. stack' \in Seq(Seq(Steps))
        BY <1>4, CurrentTyped DEF RunCase
    <2>3. PICK end \in CaseEnds, tidy \in BOOLEAN :
            /\ reports' = Append(reports, [id |-> Current.id, passed |-> Passed(Current, end, tidy)])
            /\ seen' = Append(seen, [id |-> Current.id, passed |-> Passed(Current, end, tidy)])
            /\ opened' = IF Ran(end) THEN Append(opened, Current) ELSE opened
            /\ cleaned' = IF Immediate(Current, end) THEN Append(cleaned, Current.id) ELSE cleaned
            /\ deferred' = IF Defers(Current, end) THEN Append(deferred, Current.id) ELSE deferred
            /\ anyFailed' = (anyFailed \/ ~Passed(Current, end, tidy))
            /\ stop' = (stop \/ (~Passed(Current, end, tidy) /\ failFast))
            /\ wrong' = IF Passed(Current, end, tidy) THEN wrong ELSE wrong \cup {"case"}
        BY <1>4 DEF RunCase, SeenAs
    <2>4. Passed(Current, end, tidy) \in BOOLEAN
        BY DEF Passed
    <2>5. [id |-> Current.id, passed |-> Passed(Current, end, tidy)] \in StepReports
        BY <2>1, <2>4 DEF StepReports
    <2>6. {seen', reports'} \subseteq Seq(StepReports) /\ opened' \in Seq(CaseSteps)
        BY <2>1, <2>3, <2>5
    <2>7. {deferred', cleaned'} \subseteq Seq(Ids)
        BY <2>1, <2>3
    <2>8. {stop', anyFailed'} \subseteq BOOLEAN /\ wrong' \subseteq Troubles
        BY <2>3, <2>4 DEF Troubles
    <2> QED
        BY <1>4, <2>2, <2>6, <2>7, <2>8 DEF RunCase
<1>5. CASE Branch
    <2>1. {Current.then, Current.else} \subseteq Seq(Steps)
        BY <1>5, CurrentTyped, StepsAssumption DEF Branch
    <2>2. stack' \in Seq(Seq(Steps))
        BY <1>5, <2>1, CurrentTyped DEF Branch
    <2> QED
        BY <1>5, <2>2 DEF Branch
<1>6. CASE Return
    BY <1>6 DEF Return, Leave, Phases
<1>7. CASE RunDeferred
    <2>1. Last(deferred) \in Ids /\ Front(deferred) \in Seq(Ids)
        BY <1>7, PopTyped DEF RunDeferred, Compensate
    <2>2. reports' \in Seq(StepReports)
        BY <1>7, FailStepTyped DEF RunDeferred, Compensate
    <2>3. {deferred', cleaned'} \subseteq Seq(Ids)
        BY <1>7, <2>1 DEF RunDeferred, Compensate
    <2>4. anyFailed' \in BOOLEAN /\ wrong' \subseteq Troubles
        BY <1>7 DEF RunDeferred, Compensate, Troubles
    <2> QED
        BY <1>7, <2>2, <2>3, <2>4 DEF RunDeferred, Compensate
<1>8. CASE EndDeferred
    BY <1>8 DEF EndDeferred, AfterDeferred, Phases
<1>9. CASE Teardown
    BY <1>9 DEF Teardown, Phases, Troubles
<1>10. CASE FlushAndReport
    BY <1>10 DEF FlushAndReport, Phases, Troubles
<1>11. CASE UNCHANGED vars
    BY <1>11 DEF vars
<1> QED
    BY <1>1, <1>2, <1>3, <1>4, <1>5, <1>6, <1>7, <1>8, <1>9, <1>10, <1>11 DEF Next

-----------------------------------------------------------------------------
(***************************************************************************)
(* Control: hooks, status, fail-fast and what conditions see.              *)
(***************************************************************************)

LEMMA InitControl == Init => ControlInv
BY DEF Init, ControlInv, HooksByPhase, TroubleShows, SeenIsReported, FailureStops,
       VerdictFaithful

\* What RunCase adds to the reports, and what comes of it.
LEMMA CaseReported ==
    ASSUME TypeOK, RunCase
    PROVE  \E report \in StepReports :
               /\ reports' = Append(reports, report) /\ seen' = Append(seen, report)
               /\ anyFailed' = (anyFailed \/ ~report.passed)
               /\ stop' = (stop \/ (~report.passed /\ failFast))
               /\ wrong' = IF report.passed THEN wrong ELSE wrong \cup {"case"}
<1>1. Current.id \in Ids
    BY CurrentTyped DEF RunCase, CaseSteps, Ids
<1>2. PICK end \in CaseEnds, tidy \in BOOLEAN :
        LET report == [id |-> Current.id, passed |-> Passed(Current, end, tidy)]
        IN  /\ reports' = Append(reports, report) /\ seen' = Append(seen, report)
            /\ anyFailed' = (anyFailed \/ ~report.passed)
            /\ stop' = (stop \/ (~report.passed /\ failFast))
            /\ wrong' = IF report.passed THEN wrong ELSE wrong \cup {"case"}
    BY DEF RunCase, SeenAs
<1>3. Passed(Current, end, tidy) \in BOOLEAN
    BY DEF Passed
<1>4. [id |-> Current.id, passed |-> Passed(Current, end, tidy)] \in StepReports
    BY <1>1, <1>3 DEF StepReports
<1> QED
    BY <1>2, <1>4

LEMMA NextControl ==
    ASSUME TypeOK, ControlInv, [Next]_vars
    PROVE  ControlInv'
<1> USE DEF HooksByPhase, TroubleShows, SeenIsReported, FailureStops, VerdictFaithful
<1>0. /\ phase \in Phases /\ hooks \subseteq {"setup", "teardown"}
      /\ {failFast, stop, anyFailed, error} \subseteq BOOLEAN
      /\ reports \in Seq(StepReports)
    BY DEF TypeOK
<1>1. CASE ResolveVars
    BY <1>0, <1>1 DEF ResolveVars, ControlInv
<1>2. CASE Setup
    <2>1. /\ hooks = {} /\ reports = <<>> /\ seen = reports
          /\ opened = <<>> /\ cleaned = <<>> /\ deferred = <<>>
          /\ UNCHANGED <<failFast, seen, reports, opened, deferred, cleaned, stop, anyFailed, status>>
        BY <1>2 DEF Setup, ControlInv
    <2>2. CASE hooks' = {"setup"} /\ phase' = "steps" /\ UNCHANGED <<wrong, error>>
        BY <2>1, <2>2 DEF ControlInv
    <2>3. CASE wrong' = {"setup"} /\ error' = TRUE /\ phase' = "deferred" /\ UNCHANGED hooks
        BY <2>1, <2>3 DEF ControlInv
    <2> QED
        BY <1>2, <2>2, <2>3 DEF Setup
<1>3. CASE StepError
    BY <1>0, <1>3 DEF StepError, Running, ControlInv
<1>4. CASE RunCase
    <2>1. PICK report \in StepReports :
            /\ reports' = Append(reports, report) /\ seen' = Append(seen, report)
            /\ anyFailed' = (anyFailed \/ ~report.passed)
            /\ stop' = (stop \/ (~report.passed /\ failFast))
            /\ wrong' = IF report.passed THEN wrong ELSE wrong \cup {"case"}
        BY <1>4, CaseReported
    <2>2. /\ phase = "steps" /\ ~stop /\ hooks = {"setup"} /\ seen = reports
          /\ UNCHANGED <<failFast, hooks, error, phase, status>>
        BY <1>4 DEF RunCase, Running, ControlInv
    <2>3. HooksByPhase' /\ SeenIsReported' /\ VerdictFaithful'
        BY <2>1, <2>2
    <2>4. TroubleShows'
        BY <2>1, <2>2 DEF ControlInv
    <2>5. FailureStops'
        <3>1. failFast => \A i \in 1 .. Len(reports) : reports[i].passed
            BY <1>0, <2>2 DEF ControlInv
        <3>2. failFast /\ report.passed => \A i \in 1 .. Len(reports') : reports'[i].passed
            BY <1>0, <2>1, <3>1
        <3>3. DOMAIN reports' = 1 .. Len(reports')
            BY <1>0, <2>1
        <3> QED
            BY <1>0, <2>1, <2>2, <3>2, <3>3
    <2> QED
        BY <2>3, <2>4, <2>5 DEF ControlInv
<1>5. CASE Branch
    BY <1>0, <1>5 DEF Branch, Running, ControlInv
<1>6. CASE Return
    BY <1>0, <1>6 DEF Return, Leave, ControlInv
<1>7. CASE RunDeferred
    <2>1. /\ phase = "deferred" /\ phase' = phase /\ hooks' = hooks /\ "setup" \in hooks
        BY <1>7 DEF RunDeferred, Compensate, ControlInv
    <2>2. HooksByPhase' /\ SeenIsReported' /\ VerdictFaithful' /\ FailureStops'
        BY <2>1 DEF ControlInv
    <2>3. TroubleShows'
        BY <1>7 DEF RunDeferred, Compensate, ControlInv
    <2> QED
        BY <2>2, <2>3 DEF ControlInv
<1>8. CASE EndDeferred
    BY <1>0, <1>8 DEF EndDeferred, AfterDeferred, ControlInv
<1>9. CASE Teardown
    BY <1>0, <1>9 DEF Teardown, ControlInv
<1>10. CASE FlushAndReport
    BY <1>0, <1>10 DEF FlushAndReport, ControlInv
<1>11. CASE UNCHANGED vars
    BY <1>11 DEF vars, ControlInv
<1> QED
    BY <1>1, <1>2, <1>3, <1>4, <1>5, <1>6, <1>7, <1>8, <1>9, <1>10, <1>11 DEF Next

-----------------------------------------------------------------------------
(***************************************************************************)
(* Cleanup: what was done together with what is on the stack.              *)
(***************************************************************************)

\* Nothing to clean up, and nothing cleaned up.
LEMMA NothingOpened ==
    ASSUME opened = <<>>, cleaned = <<>>, deferred = <<>>
    PROVE  CleanupInv
<1>1. Reverse(<<>>) = <<>>
    BY DEF Reverse
<1> QED
    BY <1>1, WithPolicyEmpty DEF CleanupInv, CleanedSoFar, Compensation

LEMMA NextCleanup ==
    ASSUME TypeOK, TypeOK', HooksByPhase, CleanupInv, [Next]_vars
    PROVE  CleanupInv'
<1>1. CASE ResolveVars
    BY <1>1 DEF ResolveVars, CleanupInv, CleanedSoFar, Compensation
<1>2. CASE Setup
    BY <1>2 DEF Setup, CleanupInv, CleanedSoFar, Compensation
<1>3. CASE StepError
    BY <1>3 DEF StepError, CleanupInv, CleanedSoFar, Compensation
<1>4. CASE RunCase
    <2>1. PICK end \in CaseEnds :
            /\ opened' = IF Ran(end) THEN Append(opened, Current) ELSE opened
            /\ cleaned' = IF Immediate(Current, end) THEN Append(cleaned, Current.id) ELSE cleaned
            /\ deferred' = IF Defers(Current, end) THEN Append(deferred, Current.id) ELSE deferred
        BY <1>4 DEF RunCase
    <2>2. Current \in CaseSteps /\ opened \in Seq(CaseSteps)
        BY <1>4, CurrentTyped DEF RunCase, CaseSteps, TypeOK
    <2>3. /\ phase = "steps" /\ phase' = phase
          /\ cleaned = WithPolicy(opened, "immediate") /\ deferred = WithPolicy(opened, "defer")
        BY <1>4 DEF RunCase, Running, CleanupInv, CleanedSoFar
    <2>4. CASE Ran(end)
        <3>1. /\ WithPolicy(opened', "immediate")
                     = NextIds(WithPolicy(opened, "immediate"), Current, "immediate")
              /\ WithPolicy(opened', "defer") = NextIds(WithPolicy(opened, "defer"), Current, "defer")
            BY <2>1, <2>2, <2>4, WithPolicyAppend
        <3>2. CleanedSoFar'
            BY <2>1, <2>3, <2>4, <3>1 DEF CleanedSoFar, Immediate, Defers, NextIds
        <3> QED
            BY <2>3, <3>2 DEF CleanupInv, CleanedSoFar, Compensation
    <2>5. CASE ~Ran(end)
        BY <2>1, <2>3, <2>5 DEF Immediate, Defers, CleanupInv, CleanedSoFar, Compensation
    <2> QED
        BY <2>4, <2>5
<1>5. CASE Branch
    BY <1>5 DEF Branch, CleanupInv, CleanedSoFar, Compensation
<1>6. CASE Return
    BY <1>6 DEF Return, Leave, CleanupInv, CleanedSoFar, Compensation
<1>7. CASE RunDeferred
    <2>1. /\ deferred # <<>> /\ deferred' = Front(deferred) /\ cleaned' = Append(cleaned, Last(deferred))
          /\ opened' = opened /\ phase = "deferred" /\ phase' = phase
        BY <1>7 DEF RunDeferred, Compensate
    <2>2. cleaned' \o Reverse(deferred') = cleaned \o Reverse(deferred)
        BY <2>1, PopReversed DEF TypeOK
    <2> QED
        BY <2>1, <2>2 DEF CleanupInv, CleanedSoFar, Compensation
<1>8. CASE EndDeferred
    BY <1>8 DEF EndDeferred, AfterDeferred, CleanupInv, CleanedSoFar, Compensation
<1>9. CASE Teardown
    BY <1>9 DEF Teardown, CleanupInv, CleanedSoFar, Compensation
<1>10. CASE FlushAndReport
    BY <1>10 DEF FlushAndReport, CleanupInv, CleanedSoFar, Compensation
<1>11. CASE UNCHANGED vars
    BY <1>11 DEF vars, CleanupInv, CleanedSoFar, Compensation
<1> QED
    BY <1>1, <1>2, <1>3, <1>4, <1>5, <1>6, <1>7, <1>8, <1>9, <1>10, <1>11 DEF Next

-----------------------------------------------------------------------------
(***************************************************************************)
(* The theorems.                                                           *)
(***************************************************************************)
WorkflowInv == TypeOK /\ ControlInv /\ CleanupInv

LEMMA WorkflowInvariant == Spec => []WorkflowInv
<1>1. Init => WorkflowInv
    BY InitType, InitControl, NothingOpened DEF Init, WorkflowInv
<1>2. WorkflowInv /\ [Next]_vars => WorkflowInv'
    BY NextType, NextControl, NextCleanup DEF WorkflowInv, ControlInv
<1> QED
    BY <1>1, <1>2, PTL DEF Spec

\* The stack of execute_workflow_steps, the reports and the deferred teardowns
\* have their types in every state of every workflow.
THEOREM WorkflowTypeCorrect == Spec => []TypeOK
<1>1. WorkflowInv => TypeOK
    BY DEF WorkflowInv
<1> QED
    BY <1>1, WorkflowInvariant, PTL

\* Every case that came past its setup is cleaned up as its policy says, once, in
\* order or in the reverse order, whatever the workflow is and however it fails.
THEOREM CompensationHolds == Spec => []Compensation
<1>1. WorkflowInv => Compensation
    BY DEF WorkflowInv, CleanupInv
<1> QED
    BY <1>1, WorkflowInvariant, PTL

\* The teardown hook is run exactly if the setup hook succeeded.
THEOREM HooksArePaired == Spec => []HooksPaired
<1>1. WorkflowInv => HooksPaired
    BY DEF WorkflowInv, ControlInv, HooksByPhase, HooksPaired
<1> QED
    BY <1>1, WorkflowInvariant, PTL

\* The status of the report is "passed" exactly if nothing went wrong.
THEOREM WorkflowVerdictFaithful == Spec => []VerdictFaithful
<1>1. WorkflowInv => VerdictFaithful
    BY DEF WorkflowInv, ControlInv
<1> QED
    BY <1>1, WorkflowInvariant, PTL

\* While steps are run, conditions and inputs see what the reports say.
THEOREM BranchesSeeTheReports == Spec => []BranchesSeeReports
<1>1. WorkflowInv => BranchesSeeReports
    BY DEF WorkflowInv, ControlInv, SeenIsReported, BranchesSeeReports
<1> QED
    BY <1>1, WorkflowInvariant, PTL

\* Under --fail-fast no case is started after one that did not pass, however
\* deep in conditionals either of them is.
THEOREM FailFastAlwaysStops == Spec => FailFastStops
<1> DEFINE Failed == failFast /\ \E i \in DOMAIN reports : ~reports[i].passed
<1>1. ASSUME WorkflowInv, [Next]_vars PROVE [Failed => Len(reports') = Len(reports)]_vars
    <2>1. SUFFICES ASSUME Next, Failed PROVE Len(reports') = Len(reports)
        BY <1>1
    <2>2. reports \in Seq(StepReports)
        BY <1>1 DEF WorkflowInv, TypeOK
    <2>3. CASE RunCase
        BY <1>1, <2>1, <2>3 DEF RunCase, Running, WorkflowInv, ControlInv, FailureStops
    <2>4. CASE RunDeferred
        BY <2>2, <2>4, FailStepTyped DEF RunDeferred, Compensate
    <2>5. CASE ~RunCase /\ ~RunDeferred
        BY <2>1, <2>5 DEF Next, ResolveVars, Setup, StepError, Branch, Return, Leave,
                          EndDeferred, AfterDeferred, Teardown, FlushAndReport
    <2> QED
        BY <2>3, <2>4, <2>5
<1> QED
    BY <1>1, WorkflowInvariant, PTL DEF Spec, FailFastStops
=============================================================================
