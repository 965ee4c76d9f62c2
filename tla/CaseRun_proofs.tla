--------------------------- MODULE CaseRun_proofs ---------------------------
(***************************************************************************)
(* For every set of cases: the verdict of a case is right, a case is for   *)
(* its workflow what CaseOutcomes says, and its loops are scopes. The      *)
(* first two follow from an invariant of the control of a case, whatever   *)
(* its steps do to the variables; the last from one of what each loop      *)
(* keeps.                                                                  *)
(***************************************************************************)
EXTENDS CaseRun, TLAPS

Opened == {"vars", "setup"} \cap wrong = {}

\* Lists are run in three of the phases.
ListsInPhase == stack # <<>> => phase \in {"setup", "steps", "teardown"}

\* Every entry of the stack has its scope in the history.
Aligned == Len(scopes) = Len(stack)

\* Every loop is run by a step of a list.
BottomIsList == stack # <<>> => stack[Len(stack)].kind = "list"

\* What went wrong in the list of a phase is known when the list is left, and
\* execute_step_list has then returned an error.
ListErrorMeansWrong ==
    phase \in {"setup", "steps", "teardown"} =>
        IF stack = <<>> THEN listError <=> phase \in wrong ELSE phase \notin wrong

BeforeTeardown ==
    phase \in {"vars", "setup", "steps"} =>
        wrong \subseteq ({phase} \ {"vars"}) /\ ~failed /\ ~cleaned

DuringTeardown ==
    phase = "teardown" =>
        /\ cleaned /\ case.cleanup # "skip" /\ Opened
        /\ case.cleanup = "defer" => case.teardown # <<>>
        /\ failed <=> wrong \ {"teardown"} # {}

WhileWaiting ==
    phase = "waiting" =>
        /\ case.cleanup = "defer" /\ case.teardown # <<>>
        /\ ~cleaned /\ Opened /\ "teardown" \notin wrong
        /\ failed <=> wrong # {}

AtTheEnd ==
    phase = "done" =>
        /\ failed <=> wrong # {}
        /\ cleaned => Opened /\ case.cleanup # "skip"
        /\ ~cleaned => /\ "teardown" \notin wrong
                       /\ Opened => /\ case.cleanup # "immediate"
                                    /\ case.cleanup = "defer" => case.teardown = <<>>

\* A teardown list without steps does not go wrong.
NothingToTearDown ==
    case.teardown = <<>> =>
        /\ "teardown" \notin wrong
        /\ phase = "teardown" => stack \in {<<>>, <<List(<<>>)>>}

ControlInv ==
    /\ Aligned /\ BottomIsList /\ ListsInPhase /\ ListErrorMeansWrong
    /\ BeforeTeardown /\ DuringTeardown /\ WhileWaiting /\ AtTheEnd

-----------------------------------------------------------------------------
\* Sequences used as stacks: what is pushed on one and popped from it.
LEMMA PushTyped ==
    ASSUME NEW S, NEW s \in Seq(S), NEW x \in S
    PROVE  <<x>> \o s \in Seq(S) /\ <<x>> \o s # <<>>
OBVIOUS

LEMMA PopTyped ==
    ASSUME NEW S, NEW s \in Seq(S), s # <<>>
    PROVE  Head(s) \in S /\ Tail(s) \in Seq(S)
OBVIOUS

LEMMA SetTyped ==
    ASSUME NEW S, NEW s \in Seq(S)
    PROVE  ToSet(s) \subseteq S
BY DEF ToSet

LEMMA ListTyped ==
    ASSUME NEW steps \in Seq(Steps)
    PROVE  List(steps) \in Frames /\ <<List(steps)>> \in Seq(Frames)
BY DEF List, Frames

\* The step about to run is one of the steps, and passing over it leaves a stack.
LEMMA CurrentTyped ==
    ASSUME TypeOK, Running
    PROVE  /\ stack # <<>> /\ Head(stack) \in Frames
           /\ Current \in Steps
           /\ Advance \in Seq(Frames) /\ Advance # <<>>
<1>1. stack \in Seq(Frames) /\ stack # <<>> /\ Head(stack).kind = "list" /\ Head(stack).rest # <<>>
    BY DEF TypeOK, Running
<1>2. Head(stack) \in Frames /\ Tail(stack) \in Seq(Frames)
    BY <1>1, PopTyped
<1>3. Head(stack).rest \in Seq(Steps)
    BY <1>1, <1>2 DEF Frames
<1>4. Head(Head(stack).rest) \in Steps /\ Tail(Head(stack).rest) \in Seq(Steps)
    BY <1>1, <1>3, PopTyped
<1>5. List(Tail(Head(stack).rest)) \in Frames
    BY <1>4, ListTyped
<1> QED
    BY <1>1, <1>2, <1>4, <1>5, PushTyped DEF Current, Advance

LEMMA ReportTyped ==
    ASSUME TypeOK, NEW status \in {"passed", "failed", "skipped"}, Report(status)
    PROVE  reports' \in Seq([phase : Phases, status : {"passed", "failed", "skipped"}])
BY DEF TypeOK, Report

\* A loop on top of the stack is one.
LEMMA LoopTyped ==
    ASSUME TypeOK, InLoop
    PROVE  /\ stack \in Seq(Frames) /\ stack # <<>>
           /\ Head(stack) \in [kind : {"loop"}, bind : Names, body : Seq(Steps),
                               items : Seq(Items), previous : Values]
           /\ Tail(stack) \in Seq(Frames)
<1>1. stack \in Seq(Frames) /\ stack # <<>> /\ Head(stack).kind = "loop"
    BY DEF TypeOK, InLoop
<1>2. Head(stack) \in Frames /\ Tail(stack) \in Seq(Frames)
    BY <1>1, PopTyped
<1> QED
    BY <1>1, <1>2 DEF Frames

-----------------------------------------------------------------------------
(***************************************************************************)
(* Type correctness.                                                       *)
(***************************************************************************)
LEMMA InitType == Init => TypeOK
<1>1. SUFFICES ASSUME Init PROVE TypeOK
    OBVIOUS
<1>2. [n \in Names |-> Unset] \in [Names -> Values]
    BY DEF Values
<1>3. {vars, saved, base} \subseteq [Names -> Values]
    BY <1>1, <1>2 DEF Init
<1>4. stack \in Seq(Frames) /\ scopes \in Seq(Scopes)
        /\ reports \in Seq([phase : Phases, status : {"passed", "failed", "skipped"}])
    BY <1>1 DEF Init
<1> QED
    BY <1>1, <1>3, <1>4 DEF Init, TypeOK, Phases

\* A list that is begun is a stack of one entry.
LEMMA BeginTyped ==
    ASSUME NEW steps \in Seq(Steps), Begin(steps)
    PROVE  stack' \in Seq(Frames) /\ stack' # <<>> /\ scopes' \in Seq(Scopes)
<1>1. <<List(steps)>> \in Seq(Frames)
    BY ListTyped
<1>2. <<Plain>> \in Seq(Scopes)
    BY DEF Plain, Scopes, Values
<1> QED
    BY <1>1, <1>2 DEF Begin

\* Writes keep the types.
LEMMA SetsTyped ==
    ASSUME TypeOK, NEW names
    PROVE  /\ Set(names) => vars' \in [Names -> Values]
           /\ SetBase(names) => base' \in [Names -> Values]
           /\ SetScopes(names) => scopes' \in Seq(Scopes)
<1>1. vars \in [Names -> Values] /\ base \in [Names -> Values] /\ Written \in Values
    BY DEF TypeOK, Values
<1>2. ASSUME SetScopes(names) PROVE scopes' \in Seq(Scopes)
    <2>1. \A i \in DOMAIN scopes : scopes[i] \in Scopes
        BY DEF TypeOK
    <2>2. \A i \in DOMAIN scopes : [scopes[i] EXCEPT !.value = Written] \in Scopes
        BY <1>1, <2>1 DEF Scopes
    <2>3. DOMAIN scopes = 1..Len(scopes) /\ Len(scopes) \in Nat
        BY DEF TypeOK
    <2> QED
        BY <1>2, <2>1, <2>2, <2>3 DEF SetScopes
<1> QED
    BY <1>1, <1>2 DEF Set, SetBase

LEMMA UnwindTyped ==
    ASSUME TypeOK, Unwind, phase \in {"setup", "steps", "teardown"},
           vars' \in [Names -> Values], base' \in [Names -> Values],
           reports' \in Seq([phase : Phases, status : {"passed", "failed", "skipped"}])
    PROVE  TypeOK'
BY DEF TypeOK, Unwind, Troubles

\* One step of each action keeps the types.
LEMMA NextType ==
    ASSUME TypeOK, Aligned, ListsInPhase, [Next]_caseVars
    PROVE  TypeOK'
<1> DEFINE ReportSeq == Seq([phase : Phases, status : {"passed", "failed", "skipped"}])
<1> USE StepsAssumption, ArraysAssumption, CasesAssumption
<1>0. /\ case \in Cases /\ {case.setup, case.steps, case.teardown} \subseteq Seq(Steps)
      /\ stack \in Seq(Frames) /\ scopes \in Seq(Scopes)
      /\ vars \in [Names -> Values] /\ base \in [Names -> Values]
      /\ Written \in Values /\ Unset \in Values /\ reports \in ReportSeq
    BY DEF TypeOK, Values
<1>1. CASE ResolveVars
    <2>1. vars' \in [Names -> Values] /\ base' \in [Names -> Values]
        BY <1>0, <1>1 DEF ResolveVars
    <2>2. stack' \in Seq(Frames) /\ scopes' \in Seq(Scopes)
        BY <1>0, <1>1, BeginTyped DEF ResolveVars
    <2> QED
        BY <1>1, <2>1, <2>2 DEF ResolveVars, TypeOK, Phases, Troubles
<1>2. CASE EndSetup
    <2>1. stack' \in Seq(Frames) /\ scopes' \in Seq(Scopes)
        BY <1>0, <1>2, BeginTyped DEF EndSetup
    <2> QED
        BY <1>2, <2>1 DEF EndSetup, TypeOK, Phases
<1>3. CASE EndSteps
    <2>1. stack' \in Seq(Frames) /\ scopes' \in Seq(Scopes)
        BY <1>0, <1>3, BeginTyped DEF EndSteps
    <2>2. vars' \in [Names -> Values]
        BY <1>0, <1>3 DEF EndSteps
    <2>3. wrong' \subseteq Troubles
        BY <1>3 DEF EndSteps, TypeOK, Troubles
    <2> QED
        BY <1>3, <2>1, <2>2, <2>3 DEF EndSteps, TypeOK, Phases
<1>4. CASE RunDeferred
    <2>1. stack' \in Seq(Frames) /\ scopes' \in Seq(Scopes)
        BY <1>0, <1>4, BeginTyped DEF RunDeferred, Resume
    <2> QED
        BY <1>4, <2>1 DEF RunDeferred, Resume, TypeOK, Phases
<1>5. CASE EndTeardown
    BY <1>5 DEF EndTeardown, TypeOK, Phases, history
<1>6. CASE RunLeaf
    <2>1. stack' \in Seq(Frames)
        BY <1>6, CurrentTyped DEF RunLeaf
    <2>2. /\ vars' \in [Names -> Values] /\ base' \in [Names -> Values]
          /\ scopes' \in Seq(Scopes)
        BY <1>6, SetsTyped DEF RunLeaf
    <2>3. reports' \in ReportSeq
        BY <1>6, ReportTyped DEF RunLeaf
    <2> QED
        BY <1>6, <2>1, <2>2, <2>3 DEF RunLeaf, TypeOK
<1>7. CASE SkipExec
    <2>1. stack' \in Seq(Frames) /\ reports' \in ReportSeq
        BY <1>7, CurrentTyped, ReportTyped DEF SkipExec
    <2> QED
        BY <1>7, <2>1 DEF SkipExec, TypeOK, history
<1>8. ASSUME Unwind, stack # <<>>, vars' \in [Names -> Values], base' \in [Names -> Values],
             reports' \in ReportSeq
      PROVE  TypeOK'
    BY <1>8, UnwindTyped DEF ListsInPhase
<1>9. CASE ExecFails
    <2>1. reports' \in ReportSeq /\ stack # <<>>
        BY <1>9, ReportTyped DEF ExecFails, Running
    <2> QED
        BY <1>0, <1>8, <1>9, <2>1 DEF ExecFails
<1>10. CASE EffectFails
    BY <1>0, <1>8, <1>10 DEF EffectFails, Running
<1>11. CASE ChecksFail
    <2>1. vars' \in [Names -> Values] /\ base' \in [Names -> Values]
        BY <1>11, SetsTyped DEF ChecksFail
    <2> QED
        BY <1>0, <1>8, <1>11, <2>1 DEF ChecksFail, Running
<1>12. CASE ControlFails
    BY <1>0, <1>8, <1>12 DEF ControlFails, Running
<1>13. scopes \in Seq(Scopes) /\ <<Plain>> \o scopes \in Seq(Scopes)
    BY <1>0 DEF Plain, Scopes
<1>14. CASE Branch
    <2>1. Current \in Steps /\ Current.kind = "if" /\ Advance \in Seq(Frames)
        BY <1>14, CurrentTyped DEF Branch
    <2>2. {Current.then, Current.else} \subseteq Seq(Steps)
        BY <2>1 DEF IsLeaf
    <2>3. stack' \in Seq(Frames)
        BY <1>14, <2>1, <2>2, ListTyped, PushTyped DEF Branch
    <2>4. reports' \in ReportSeq
        BY <1>14, ReportTyped DEF Branch
    <2> QED
        BY <1>13, <1>14, <2>3, <2>4 DEF Branch, TypeOK
<1>15. CASE EnterLoop
    <2>1. Current \in Steps /\ Current.kind = "foreach" /\ Advance \in Seq(Frames)
        BY <1>15, CurrentTyped DEF EnterLoop
    <2>2. Current.bind \in Names /\ Current.body \in Seq(Steps)
        BY <2>1 DEF IsLeaf
    <2>3. \A items \in Arrays : Loop(Current, items) \in Frames
        BY <1>0, <2>2 DEF Loop, Frames
    <2>4. stack' \in Seq(Frames)
        BY <1>15, <2>1, <2>3, PushTyped DEF EnterLoop
    <2>5. reports' \in ReportSeq
        BY <1>15, ReportTyped DEF EnterLoop
    <2> QED
        BY <1>13, <1>15, <2>4, <2>5 DEF EnterLoop, TypeOK
<1>16. CASE NextItem
    <2> DEFINE loop == Head(stack)
               popped == [loop EXCEPT !.items = Tail(@)]
    <2>1. /\ loop \in [kind : {"loop"}, bind : Names, body : Seq(Steps), items : Seq(Items),
                       previous : Values]
          /\ Tail(stack) \in Seq(Frames) /\ loop.items # <<>>
        BY <1>16, LoopTyped DEF NextItem, Iterate
    <2>2. Head(loop.items) \in Items /\ Tail(loop.items) \in Seq(Items)
        BY <2>1, PopTyped
    <2>3. popped \in Frames
        BY <2>1, <2>2 DEF Frames
    <2>4. List(loop.body) \in Frames
        BY <2>1, ListTyped
    <2>5. <<List(loop.body), popped>> \o Tail(stack) \in Seq(Frames)
        BY <2>1, <2>3, <2>4
    <2>6. [names |-> {loop.bind}, value |-> Head(loop.items)] \in Scopes
        BY <2>1, <2>2 DEF Scopes, Values
    <2>7. scopes' \in Seq(Scopes)
        BY <1>0, <1>16, <2>6, PushTyped DEF NextItem, Iterate
    <2>8. vars' \in [Names -> Values]
        BY <1>0, <1>16, <2>1, <2>2 DEF NextItem, Iterate, Values
    <2>9. stack' \in Seq(Frames)
        BY <1>16, <2>5 DEF NextItem, Iterate
    <2> QED
        BY <1>16, <2>7, <2>8, <2>9 DEF NextItem, Iterate, TypeOK
<1>17. CASE EndLoop
    <2>1. Tail(stack) \in Seq(Frames) /\ Head(stack).previous \in Values
        BY <1>17, LoopTyped DEF EndLoop, LeaveLoop
    <2>2. vars' \in [Names -> Values]
        BY <1>0, <1>17, <2>1 DEF EndLoop, LeaveLoop
    <2>3. scopes # <<>> /\ Tail(scopes) \in Seq(Scopes)
        BY <1>0, <1>17, LoopTyped DEF EndLoop, LeaveLoop, Aligned
    <2> QED
        BY <1>17, <2>1, <2>2, <2>3 DEF EndLoop, LeaveLoop, TypeOK
<1>18. CASE Return
    <2>1. scopes # <<>>
        BY <1>0, <1>18 DEF Return, Aligned
    <2>2. Tail(stack) \in Seq(Frames) /\ Tail(scopes) \in Seq(Scopes)
        BY <1>0, <1>18, <2>1, PopTyped DEF Return
    <2> QED
        BY <1>18, <2>2 DEF Return, TypeOK
<1>19. CASE UNCHANGED caseVars
    BY <1>19 DEF caseVars, TypeOK
<1> QED
    BY <1>1, <1>2, <1>3, <1>4, <1>5, <1>6, <1>7, <1>9, <1>10, <1>11, <1>12, <1>14, <1>15,
       <1>16, <1>17, <1>18, <1>19 DEF Next

-----------------------------------------------------------------------------
(***************************************************************************)
(* The control of a case. A step inside a list is quiet, or it is an error *)
(* that leaves the list; the other steps are between the lists.            *)
(***************************************************************************)
StackShape == Aligned /\ BottomIsList

Quiet ==
    /\ stack # <<>>
    /\ UNCHANGED <<case, phase, failed, cleaned, wrong>>
    /\ stack' = <<>> => ~listError'

Noisy == stack # <<>> /\ Unwind

LEMMA InitControl == Init => ControlInv
BY DEF Init, ControlInv, Aligned, BottomIsList, ListsInPhase, ListErrorMeansWrong,
       BeforeTeardown, DuringTeardown, WhileWaiting, AtTheEnd

\* A list or a loop that is not at the bottom of the stack has one below it.
LEMMA TailShape ==
    ASSUME TypeOK, StackShape, stack # <<>>
    PROVE  /\ scopes # <<>>
           /\ Len(Tail(scopes)) = Len(Tail(stack))
           /\ Tail(stack) # <<>> => Tail(stack)[Len(Tail(stack))].kind = "list"
           /\ Head(stack).kind = "loop" => Tail(stack) # <<>>
<1>1. stack \in Seq(Frames) /\ scopes \in Seq(Scopes)
    BY DEF TypeOK
<1> QED
    BY <1>1 DEF StackShape, Aligned, BottomIsList

\* What is pushed on a stack is not at its bottom.
LEMMA PushShape ==
    ASSUME NEW S, NEW s \in Seq(S), NEW x
    PROVE  /\ Len(<<x>> \o s) = Len(s) + 1
           /\ <<x>> \o s # <<>>
           /\ s # <<>> => (<<x>> \o s)[Len(s) + 1] = s[Len(s)]
           /\ s = <<>> => (<<x>> \o s)[Len(s) + 1] = x
<1>1. s # <<>> => Len(s) \in 1..Len(s) /\ Len(s) \in Nat
    OBVIOUS
<1> QED
    BY <1>1

LEMMA AdvanceShape ==
    ASSUME TypeOK, StackShape, Running
    PROVE  /\ Advance \in Seq(Frames) /\ Len(Advance) = Len(stack)
           /\ Advance # <<>> /\ Advance[Len(Advance)].kind = "list"
<1>1. Advance \in Seq(Frames) /\ Advance # <<>> /\ stack # <<>> /\ stack \in Seq(Frames)
    BY CurrentTyped DEF TypeOK
<1>2. Tail(stack) \in Seq(Frames) /\ Len(Tail(stack)) + 1 = Len(stack)
    BY <1>1
<1>3. Len(Advance) = Len(stack)
    BY <1>2, PushShape DEF Advance
<1>4. CASE Tail(stack) = <<>>
    <2>1. Advance[Len(Tail(stack)) + 1] = List(Tail(Head(stack).rest))
        BY <1>2, <1>4, PushShape DEF Advance
    <2> QED
        BY <1>1, <1>2, <1>3, <2>1 DEF List
<1>5. CASE Tail(stack) # <<>>
    BY <1>1, <1>2, <1>3, <1>5, PushShape, TailShape DEF Advance
<1> QED
    BY <1>1, <1>3, <1>4, <1>5

\* Inside a list: the shape of the stack is kept, and no step ends the list in an
\* error but by leaving every list and loop.
LEMMA StepInList ==
    ASSUME TypeOK, StackShape,
           \/ RunLeaf \/ SkipExec \/ ExecFails \/ EffectFails \/ ChecksFail
           \/ ControlFails
           \/ Branch \/ EnterLoop \/ NextItem \/ EndLoop \/ Return
    PROVE  StackShape' /\ (Quiet \/ Noisy)
<1>0. stack \in Seq(Frames) /\ scopes \in Seq(Scopes) /\ Len(scopes) = Len(stack)
    BY DEF TypeOK, StackShape, Aligned
<1>1. CASE RunLeaf
    <2>1. Len(scopes') = Len(scopes)
        BY <1>0, <1>1 DEF RunLeaf, SetScopes
    <2> QED
        BY <1>0, <1>1, <2>1, AdvanceShape DEF RunLeaf, Quiet, Running, StackShape, Aligned, BottomIsList
<1>2. CASE SkipExec
    BY <1>0, <1>2, AdvanceShape
       DEF SkipExec, history, Quiet, Running, StackShape, Aligned, BottomIsList
<1>3. CASE ExecFails \/ EffectFails \/ ChecksFail \/ ControlFails
    <2>1. Noisy
        BY <1>3 DEF ExecFails, EffectFails, ChecksFail, ControlFails, Running, Noisy
    <2> QED
        BY <2>1 DEF Noisy, Unwind, StackShape, Aligned, BottomIsList
<1>4. CASE Branch \/ EnterLoop
    <2>1. PICK x : stack' = <<x>> \o Advance
        BY <1>4 DEF Branch, EnterLoop
    <2>2. Running /\ scopes' = <<Plain>> \o scopes
        BY <1>4 DEF Branch, EnterLoop
    <2>3. /\ stack' # <<>> /\ Len(stack') = Len(stack) + 1
          /\ stack'[Len(stack')].kind = "list"
        BY <1>0, <2>1, <2>2, AdvanceShape, PushShape
    <2>4. Len(scopes') = Len(scopes) + 1
        BY <1>0, <2>2, PushShape
    <2> QED
        BY <1>0, <1>4, <2>2, <2>3, <2>4
        DEF Branch, EnterLoop, Quiet, Running, StackShape, Aligned, BottomIsList
<1>5. CASE NextItem
    <2>1. PICK x, y : stack' = <<x, y>> \o Tail(stack)
        BY <1>5 DEF NextItem, Iterate
    <2>2. PICK z : scopes' = <<z>> \o scopes
        BY <1>5 DEF NextItem, Iterate
    <2>3. stack # <<>> /\ Tail(stack) # <<>> /\ Tail(stack) \in Seq(Frames)
        BY <1>0, <1>5, TailShape DEF NextItem, Iterate, InLoop
    <2>4. /\ stack' # <<>> /\ Len(stack') = Len(stack) + 1
          /\ stack'[Len(stack')] = Tail(stack)[Len(Tail(stack))]
        BY <1>0, <2>1, <2>3
    <2>5. Len(scopes') = Len(scopes) + 1
        BY <1>0, <2>2, PushShape
    <2> QED
        BY <1>0, <1>5, <2>3, <2>4, <2>5, TailShape
        DEF NextItem, Iterate, Quiet, StackShape, Aligned, BottomIsList
<1>6. CASE EndLoop
    BY <1>0, <1>6, TailShape
    DEF EndLoop, LeaveLoop, InLoop, Quiet, StackShape, Aligned, BottomIsList
<1>7. CASE Return
    BY <1>0, <1>7, TailShape DEF Return, Quiet, StackShape, Aligned, BottomIsList
<1> QED
    BY <1>1, <1>2, <1>3, <1>4, <1>5, <1>6, <1>7

\* A list goes on, or ends without an error.
LEMMA QuietKeepsControl ==
    ASSUME ControlInv, Quiet, StackShape'
    PROVE  ControlInv'
BY DEF Quiet, StackShape, ControlInv, ListsInPhase, ListErrorMeansWrong, BeforeTeardown,
       DuringTeardown, WhileWaiting, AtTheEnd, Opened

\* A list ends in an error.
LEMMA NoisyKeepsControl ==
    ASSUME ControlInv, Noisy, StackShape'
    PROVE  ControlInv'
BY DEF Noisy, Unwind, StackShape, ControlInv, ListsInPhase, ListErrorMeansWrong,
       BeforeTeardown, DuringTeardown, WhileWaiting, AtTheEnd, Opened

\* A list is begun with a stack of the right shape.
LEMMA BeginShape ==
    ASSUME NEW steps, Begin(steps)
    PROVE  StackShape' /\ stack' # <<>>
BY DEF Begin, List, StackShape, Aligned, BottomIsList

\* One step of each action keeps the control of a case.
LEMMA NextControl ==
    ASSUME TypeOK, ControlInv, [Next]_caseVars
    PROVE  ControlInv'
<1> USE DEF ListsInPhase, ListErrorMeansWrong, BeforeTeardown, DuringTeardown, WhileWaiting,
            AtTheEnd, Opened
<1>0. /\ StackShape
      /\ wrong \subseteq Troubles /\ phase \in Phases
      /\ listError \in BOOLEAN /\ failed \in BOOLEAN /\ cleaned \in BOOLEAN
      /\ case.cleanup \in Policies /\ case.exports \in BOOLEAN
    BY CasesAssumption DEF ControlInv, StackShape, TypeOK
<1>1. CASE ResolveVars
    <2>1. CASE phase' = "setup" /\ Begin(case.setup) /\ UNCHANGED <<failed, wrong>>
        BY <1>0, <1>1, <2>1, BeginShape DEF ResolveVars, ControlInv, StackShape
    <2>2. CASE failed' = TRUE /\ wrong' = {"vars"} /\ phase' = "done"
                  /\ UNCHANGED <<stack, scopes>>
        <3>1. stack = <<>> /\ ~cleaned /\ cleaned' = cleaned
            BY <1>1, <2>2 DEF ResolveVars, ControlInv
        <3>2. Aligned' /\ BottomIsList'
            BY <1>0, <2>2 DEF StackShape, Aligned, BottomIsList
        <3> QED
            BY <2>2, <3>1, <3>2 DEF ControlInv
    <2> QED
        BY <1>1, <2>1, <2>2 DEF ResolveVars
<1>2. CASE EndSetup
    <2>1. CASE listError
        BY <1>0, <1>2, <2>1 DEF EndSetup, Ended, ControlInv, Aligned, BottomIsList
    <2>2. CASE ~listError
        BY <1>0, <1>2, <2>2, BeginShape DEF EndSetup, Ended, ControlInv, StackShape
    <2> QED
        BY <2>1, <2>2
<1>3. CASE EndSteps
    <2>1. /\ Opened /\ ~failed /\ ~cleaned /\ wrong \subseteq {"steps"}
          /\ stack = <<>> /\ (listError <=> "steps" \in wrong)
        BY <1>3 DEF EndSteps, Ended, ControlInv
    <2>2. /\ wrong' \subseteq {"steps", "exports"} /\ failed' \in BOOLEAN
          /\ failed' <=> wrong' # {}
        <3>1. CASE failed' = listError /\ UNCHANGED wrong
            BY <1>0, <2>1, <3>1
        <3>2. CASE failed' = TRUE /\ wrong' = wrong \cup {"exports"}
            BY <2>1, <3>2
        <3> QED
            BY <1>3, <3>1, <3>2 DEF EndSteps
    <2>3. CASE case.cleanup = "immediate"
        BY <1>0, <1>3, <2>2, <2>3, BeginShape DEF EndSteps, ControlInv, StackShape
    <2>4. CASE case.cleanup # "immediate"
        BY <1>0, <1>3, <2>1, <2>2, <2>4
        DEF EndSteps, ControlInv, StackShape, Aligned, BottomIsList
    <2> QED
        BY <2>3, <2>4
<1>4. CASE RunDeferred
    BY <1>0, <1>4, BeginShape DEF RunDeferred, Resume, ControlInv, StackShape
<1>5. CASE EndTeardown
    BY <1>0, <1>5 DEF EndTeardown, Ended, ControlInv, history, Aligned, BottomIsList
<1>6. CASE \/ RunLeaf \/ SkipExec \/ ExecFails \/ EffectFails \/ ChecksFail
           \/ ControlFails
           \/ Branch \/ EnterLoop \/ NextItem \/ EndLoop \/ Return
    BY <1>0, <1>6, StepInList, QuietKeepsControl, NoisyKeepsControl
<1>7. CASE UNCHANGED caseVars
    BY <1>7 DEF caseVars, ControlInv, Aligned, BottomIsList
<1> QED
    BY <1>1, <1>2, <1>3, <1>4, <1>5, <1>6, <1>7 DEF Next

\* A list without steps is only returned from.
LEMMA NextNothing ==
    ASSUME TypeOK, ControlInv, NothingToTearDown, [Next]_caseVars
    PROVE  NothingToTearDown'
<1>0. /\ wrong \subseteq Troubles
      /\ BeforeTeardown /\ ListsInPhase
    BY DEF TypeOK, ControlInv
<1>1. CASE ResolveVars \/ EndSetup
    BY <1>0, <1>1 DEF ResolveVars, EndSetup, Ended, NothingToTearDown, BeforeTeardown
<1>2. CASE EndSteps \/ RunDeferred
    <2>1. "teardown" \notin wrong' \/ "teardown" \in wrong
        BY <1>2 DEF EndSteps, RunDeferred, Resume
    <2>2. case' = case /\ (phase' = "teardown" => stack' = <<List(case.teardown)>>)
        BY <1>2 DEF EndSteps, RunDeferred, Resume, Begin
    <2> QED
        BY <2>1, <2>2 DEF NothingToTearDown
<1>3. CASE EndTeardown
    BY <1>3 DEF EndTeardown, NothingToTearDown
<1>4. CASE \/ RunLeaf \/ SkipExec \/ ExecFails \/ EffectFails \/ ChecksFail
           \/ ControlFails
           \/ Branch \/ EnterLoop \/ NextItem \/ EndLoop \/ Return
    <2>0. case' = case /\ phase' = phase /\ (Quiet \/ Noisy)
        BY <1>4, StepInList DEF ControlInv, StackShape, Quiet, Noisy, Unwind
    <2>1. CASE phase # "teardown"
        BY <1>0, <2>0, <2>1 DEF NothingToTearDown, Quiet, Noisy, Unwind
    <2>2. CASE phase = "teardown" /\ case.teardown = <<>>
        <3>1. stack = <<List(<<>>)>>
            BY <2>0, <2>2 DEF NothingToTearDown, Quiet, Noisy
        <3>2. stack # <<>> /\ Head(stack).kind = "list" /\ Head(stack).rest = <<>>
            BY <3>1 DEF List
        <3>3. ~Running /\ ~InLoop
            BY <3>2 DEF Running, InLoop
        <3>4. Return
            BY <1>4, <3>3 DEF RunLeaf, SkipExec, ExecFails, EffectFails, ChecksFail, ControlFails,
                              Branch, EnterLoop, NextItem, Iterate, EndLoop, LeaveLoop
        <3>5. stack' = <<>> /\ wrong' = wrong
            BY <3>1, <3>4 DEF Return
        <3> QED
            BY <2>0, <3>5 DEF NothingToTearDown
    <2>3. CASE case.teardown # <<>>
        BY <2>0, <2>3 DEF NothingToTearDown
    <2> QED
        BY <2>1, <2>2, <2>3
<1>5. CASE UNCHANGED caseVars
    BY <1>5 DEF caseVars, NothingToTearDown
<1> QED
    BY <1>1, <1>2, <1>3, <1>4, <1>5 DEF Next

-----------------------------------------------------------------------------
(***************************************************************************)
(* Scopes. What a variable is worth from the k-th entry of the stack on is *)
(* what it will be when the entries above are gone; this is what a loop    *)
(* keeps of its binding.                                                   *)
(***************************************************************************)
WorthAt(s, b, k, n, value) ==
    \/ \E i \in DOMAIN s :
        /\ k <= i /\ n \in s[i].names /\ value = s[i].value
        /\ \A j \in k .. (i - 1) : n \notin s[j].names
    \/ (\A i \in DOMAIN s : k <= i => n \notin s[i].names) /\ value = b[n]

\* An entry binds a name exactly if it is the list of an iteration.
Below(st) == IF st # <<>> /\ Head(st).kind = "loop" THEN {Head(st).bind} ELSE {}
BoundAt(st, i) == IF i < Len(st) /\ st[i + 1].kind = "loop" THEN {st[i + 1].bind} ELSE {}

Shape(st, s) ==
    /\ Len(s) = Len(st)
    /\ \A i \in DOMAIN st :
        /\ s[i].names = BoundAt(st, i)
        /\ st[i].kind = "loop" => i < Len(st) /\ st[i + 1].kind = "list"

Kept(st, s, b) ==
    \A k \in DOMAIN st :
        st[k].kind = "loop" => WorthAt(s, b, k, st[k].bind, st[k].previous)

\* Between two iterations the binding of the loop is that of the last one.
Restoring(n) == InLoop /\ n = Head(stack).bind

VarsWorth ==
    phase \in {"vars", "setup", "steps", "teardown"} =>
        \A n \in Names : Restoring(n) \/ WorthAt(scopes, base, 1, n, vars[n])

ScopesInv ==
    /\ Shape(stack, scopes)
    /\ ~leaked => /\ VarsWorth /\ Kept(stack, scopes, base)
                  /\ phase = "waiting" => saved = base

\* What is pushed on a sequence moves the others by one place.
LEMMA Pushed ==
    ASSUME NEW S, NEW s \in Seq(S), NEW x \in S
    PROVE  /\ <<x>> \o s \in Seq(S)
           /\ Len(<<x>> \o s) = Len(s) + 1
           /\ DOMAIN (<<x>> \o s) = 1 .. (Len(s) + 1)
           /\ Head(<<x>> \o s) = x /\ Tail(<<x>> \o s) = s /\ <<x>> \o s # <<>>
           /\ (<<x>> \o s)[1] = x
           /\ \A i \in DOMAIN s : i \in 1 .. Len(s) /\ (<<x>> \o s)[i + 1] = s[i]
OBVIOUS

LEMMA Popped ==
    ASSUME NEW S, NEW s \in Seq(S), s # <<>>
    PROVE  /\ s = <<Head(s)>> \o Tail(s) /\ Head(s) \in S /\ Tail(s) \in Seq(S)
           /\ Head(s) = s[1] /\ 1 \in DOMAIN s
           /\ Len(Tail(s)) \in Nat /\ Len(s) = Len(Tail(s)) + 1
           /\ \A i \in DOMAIN Tail(s) : i + 1 \in DOMAIN s /\ Tail(s)[i] = s[i + 1]
OBVIOUS

LEMMA WorthPush ==
    ASSUME NEW s \in Seq(Scopes), NEW x \in Scopes, NEW b, NEW n, NEW value,
           NEW k \in Nat \ {0}
    PROVE  WorthAt(<<x>> \o s, b, k + 1, n, value) <=> WorthAt(s, b, k, n, value)
<1> DEFINE t == <<x>> \o s
<1>1. /\ DOMAIN t = 1 .. (Len(s) + 1) /\ DOMAIN s = 1 .. Len(s) /\ Len(s) \in Nat
      /\ \A i \in DOMAIN s : t[i + 1] = s[i]
    BY Pushed
<1>2. \A i \in DOMAIN t : k + 1 <= i =>
        /\ i - 1 \in DOMAIN s /\ k <= i - 1 /\ t[i] = s[i - 1]
    BY <1>1
<1>3. \A i \in DOMAIN s : k <= i => i + 1 \in DOMAIN t /\ k + 1 <= i + 1 /\ t[i + 1] = s[i]
    BY <1>1
<1> HIDE DEF t
<1>4. ASSUME NEW i \in DOMAIN s, k <= i
      PROVE  (\A j \in k .. (i - 1) : n \notin s[j].names)
                <=> (\A j \in (k + 1) .. i : n \notin t[j].names)
    <2>1. ASSUME \A j \in k .. (i - 1) : n \notin s[j].names, NEW j \in (k + 1) .. i
          PROVE  n \notin t[j].names
        <3>1. j - 1 \in k .. (i - 1) /\ j \in DOMAIN t /\ k + 1 <= j
            BY <1>1, <1>4
        <3> QED
            BY <1>2, <2>1, <3>1
    <2>2. ASSUME \A j \in (k + 1) .. i : n \notin t[j].names, NEW j \in k .. (i - 1)
          PROVE  n \notin s[j].names
        <3>1. j + 1 \in (k + 1) .. i /\ j \in DOMAIN s
            BY <1>1, <1>4
        <3> QED
            BY <1>1, <2>2, <3>1
    <2> QED
        BY <2>1, <2>2
<1>5. (\E i \in DOMAIN t : /\ k + 1 <= i /\ n \in t[i].names /\ value = t[i].value
                           /\ \A j \in (k + 1) .. (i - 1) : n \notin t[j].names)
      <=> (\E i \in DOMAIN s : /\ k <= i /\ n \in s[i].names /\ value = s[i].value
                               /\ \A j \in k .. (i - 1) : n \notin s[j].names)
    <2>1. ASSUME NEW i \in DOMAIN t, k + 1 <= i, n \in t[i].names, value = t[i].value,
                 \A j \in (k + 1) .. (i - 1) : n \notin t[j].names
          PROVE  \E h \in DOMAIN s : /\ k <= h /\ n \in s[h].names /\ value = s[h].value
                                     /\ \A j \in k .. (h - 1) : n \notin s[j].names
        BY <1>2, <1>4, <2>1
    <2>2. ASSUME NEW i \in DOMAIN s, k <= i, n \in s[i].names, value = s[i].value,
                 \A j \in k .. (i - 1) : n \notin s[j].names
          PROVE  \E h \in DOMAIN t : /\ k + 1 <= h /\ n \in t[h].names /\ value = t[h].value
                                     /\ \A j \in (k + 1) .. (h - 1) : n \notin t[j].names
        <3>1. /\ i + 1 \in DOMAIN t /\ k + 1 <= i + 1 /\ t[i + 1] = s[i] /\ (i + 1) - 1 = i
            BY <1>1, <1>3, <2>2
        <3> QED
            BY <1>4, <2>2, <3>1
    <2> QED
        BY <2>1, <2>2
<1>6. (\A i \in DOMAIN t : k + 1 <= i => n \notin t[i].names)
      <=> (\A i \in DOMAIN s : k <= i => n \notin s[i].names)
    BY <1>2, <1>3
<1> QED
    BY <1>5, <1>6 DEF WorthAt, t

LEMMA WorthTop ==
    ASSUME NEW s \in Seq(Scopes), NEW x \in Scopes, NEW b, NEW n, NEW value
    PROVE  WorthAt(<<x>> \o s, b, 1, n, value)
              <=> IF n \in x.names THEN value = x.value ELSE WorthAt(s, b, 1, n, value)
<1> DEFINE t == <<x>> \o s
<1>1. /\ DOMAIN t = 1 .. (Len(s) + 1) /\ Len(s) \in Nat /\ t[1] = x
    BY Pushed
<1> HIDE DEF t
<1>2. CASE n \in x.names
    <2>1. \A i \in DOMAIN t : i # 1 => 1 \in 1 .. (i - 1)
        BY <1>1
    <2>2. 1 \in DOMAIN t /\ 1 .. (1 - 1) = {}
        BY <1>1
    <2> QED
        BY <1>1, <1>2, <2>1, <2>2 DEF WorthAt, t
<1>3. CASE n \notin x.names
    <2>1. \A i \in DOMAIN t : (1 <= i /\ n \in t[i].names) <=> (2 <= i /\ n \in t[i].names)
        BY <1>1, <1>3
    <2>2. \A i \in DOMAIN t : (\A j \in 1 .. (i - 1) : n \notin t[j].names)
                <=> (\A j \in 2 .. (i - 1) : n \notin t[j].names)
        BY <1>1, <1>3
    <2>3. WorthAt(t, b, 1, n, value) <=> WorthAt(t, b, 2, n, value)
        BY <2>1, <2>2 DEF WorthAt
    <2>4. WorthAt(t, b, 1 + 1, n, value) <=> WorthAt(s, b, 1, n, value)
        BY WorthPush DEF t
    <2> QED
        BY <1>3, <2>3, <2>4 DEF t
<1> QED
    BY <1>2, <1>3

\* Entries that are pushed or popped.
LEMMA ShapePush ==
    ASSUME NEW st \in Seq(Frames), NEW s \in Seq(Scopes), Shape(st, s),
           NEW x \in Frames, NEW z \in Scopes, z.names = Below(st),
           x.kind = "loop" => st # <<>> /\ Head(st).kind = "list"
    PROVE  Shape(<<x>> \o st, <<z>> \o s)
<1> DEFINE tx == <<x>> \o st
           tz == <<z>> \o s
<1>1. /\ Len(tx) = Len(st) + 1 /\ DOMAIN tx = 1 .. (Len(st) + 1) /\ tx[1] = x
      /\ \A i \in DOMAIN st : i \in 1 .. Len(st) /\ tx[i + 1] = st[i]
    BY Pushed
<1>2. /\ Len(tz) = Len(s) + 1 /\ tz[1] = z
      /\ \A i \in DOMAIN s : tz[i + 1] = s[i]
    BY Pushed
<1>3. /\ Len(s) = Len(st) /\ Len(st) \in Nat /\ DOMAIN st = 1 .. Len(st)
      /\ DOMAIN s = 1 .. Len(st) /\ (st # <<>> <=> Len(st) > 0)
      /\ st # <<>> => Head(st) = st[1]
    BY DEF Shape
<1> HIDE DEF tx, tz
<1>4. tz[1].names = BoundAt(tx, 1)
    <2>1. CASE st = <<>>
        <3>1. ~(1 < Len(tx)) /\ z.names = {}
            BY <1>1, <1>3, <2>1 DEF Below
        <3> QED
            BY <1>2, <3>1 DEF BoundAt
    <2>2. CASE st # <<>>
        <3>1. 1 < Len(tx) /\ 1 \in DOMAIN st /\ tx[1 + 1] = Head(st)
            BY <1>1, <1>3, <2>2
        <3>2. BoundAt(tx, 1) = Below(st)
            BY <2>2, <3>1 DEF BoundAt, Below
        <3> QED
            BY <1>2, <3>2
    <2> QED
        BY <2>1, <2>2
<1>5. x.kind = "loop" => 1 < Len(tx) /\ tx[2].kind = "list"
    BY <1>1, <1>3
<1>6. ASSUME NEW i \in DOMAIN st
      PROVE  /\ tz[i + 1].names = BoundAt(tx, i + 1)
             /\ tx[i + 1].kind = "loop" => i + 1 < Len(tx) /\ tx[i + 2].kind = "list"
    <2>1. /\ s[i].names = BoundAt(st, i)
          /\ st[i].kind = "loop" => i < Len(st) /\ st[i + 1].kind = "list"
        BY DEF Shape
    <2>2. i \in 1 .. Len(st) /\ tx[i + 1] = st[i] /\ tz[i + 1] = s[i]
        BY <1>1, <1>2, <1>3
    <2>3. /\ i < Len(st) <=> i + 1 < Len(tx)
          /\ i < Len(st) => i + 1 \in DOMAIN st /\ tx[(i + 1) + 1] = st[i + 1]
          /\ i + 2 = (i + 1) + 1
        BY <1>1, <1>3
    <2> QED
        BY <2>1, <2>2, <2>3 DEF BoundAt
<1>7. ASSUME NEW i \in DOMAIN tx
      PROVE  /\ tz[i].names = BoundAt(tx, i)
             /\ tx[i].kind = "loop" => i < Len(tx) /\ tx[i + 1].kind = "list"
    <2>1. CASE i = 1
        BY <1>4, <1>1, <1>5, <2>1
    <2>2. CASE i # 1
        <3>1. i - 1 \in DOMAIN st /\ (i - 1) + 1 = i /\ (i - 1) + 2 = i + 1
            BY <1>1, <1>3, <2>2
        <3> QED
            BY <1>6, <3>1
    <2> QED
        BY <2>1, <2>2
<1> QED
    BY <1>1, <1>2, <1>3, <1>7 DEF Shape, tx, tz

LEMMA ShapePop ==
    ASSUME NEW st \in Seq(Frames), NEW s \in Seq(Scopes), Shape(st, s), st # <<>>
    PROVE  /\ s # <<>> /\ Head(s).names = Below(Tail(st))
           /\ Shape(Tail(st), Tail(s))
           /\ Head(st).kind = "loop" => Tail(st) # <<>> /\ Head(Tail(st)).kind = "list"
<1>1. /\ Len(st) \in Nat \ {0} /\ Len(s) = Len(st) /\ s # <<>> /\ Head(s) = s[1]
      /\ Len(Tail(st)) = Len(st) - 1 /\ Len(Tail(s)) = Len(st) - 1
      /\ DOMAIN Tail(st) = 1 .. (Len(st) - 1) /\ DOMAIN st = 1 .. Len(st)
      /\ (Tail(st) # <<>> <=> 1 < Len(st))
      /\ Head(st) = st[1]
    BY DEF Shape
<1>2. /\ \A i \in 1 .. (Len(st) - 1) : Tail(st)[i] = st[i + 1] /\ Tail(s)[i] = s[i + 1]
      /\ Tail(st) # <<>> => Head(Tail(st)) = st[2]
    BY <1>1
<1>3. s[1].names = BoundAt(st, 1) /\ (st[1].kind = "loop" => 1 < Len(st) /\ st[2].kind = "list")
    BY <1>1 DEF Shape
<1>4. ASSUME NEW i \in 1 .. (Len(st) - 1)
      PROVE  /\ Tail(s)[i].names = BoundAt(Tail(st), i)
             /\ Tail(st)[i].kind = "loop" => i < Len(Tail(st)) /\ Tail(st)[i + 1].kind = "list"
    <2>1. i + 1 \in DOMAIN st
        BY <1>1
    <2>2. /\ s[i + 1].names = BoundAt(st, i + 1)
          /\ st[i + 1].kind = "loop" => i + 1 < Len(st) /\ st[(i + 1) + 1].kind = "list"
        BY <2>1 DEF Shape
    <2>3. /\ i + 1 < Len(st) <=> i < Len(Tail(st))
          /\ i + 1 < Len(st) => Tail(st)[i + 1] = st[(i + 1) + 1]
        BY <1>1, <1>2
    <2> QED
        BY <1>2, <2>2, <2>3 DEF BoundAt
<1>5. BoundAt(st, 1) = Below(Tail(st))
    <2>1. CASE Tail(st) = <<>>
        BY <1>1, <2>1 DEF Below, BoundAt
    <2>2. CASE Tail(st) # <<>>
        <3>1. 1 < Len(st) /\ st[1 + 1] = Head(Tail(st))
            BY <1>1, <1>2, <2>2
        <3> QED
            BY <2>2, <3>1 DEF Below, BoundAt
    <2> QED
        BY <2>1, <2>2
<1> QED
    BY <1>1, <1>2, <1>3, <1>4, <1>5 DEF Shape

\* What the loops keep is about the entries below them.
LEMMA KeptPush ==
    ASSUME NEW st \in Seq(Frames), NEW s \in Seq(Scopes), NEW b, Kept(st, s, b),
           NEW x \in Frames, NEW z \in Scopes,
           x.kind = "loop" => WorthAt(<<z>> \o s, b, 1, x.bind, x.previous)
    PROVE  Kept(<<x>> \o st, <<z>> \o s, b)
<1> DEFINE tx == <<x>> \o st
           tz == <<z>> \o s
<1>1. /\ DOMAIN tx = 1 .. (Len(st) + 1) /\ tx[1] = x /\ Len(st) \in Nat
      /\ DOMAIN st = 1 .. Len(st) /\ \A i \in DOMAIN st : tx[i + 1] = st[i]
    BY Pushed
<1>2. x.kind = "loop" => WorthAt(tz, b, 1, x.bind, x.previous)
    OBVIOUS
<1>3. \A n, value : \A k \in Nat \ {0} :
        WorthAt(tz, b, k + 1, n, value) <=> WorthAt(s, b, k, n, value)
    BY WorthPush
<1> HIDE DEF tx, tz
<1>4. ASSUME NEW k \in DOMAIN tx, tx[k].kind = "loop"
      PROVE  WorthAt(tz, b, k, tx[k].bind, tx[k].previous)
    <2>1. CASE k = 1
        BY <1>1, <1>2, <1>4, <2>1
    <2>2. CASE k # 1
        <3>1. k - 1 \in DOMAIN st /\ k - 1 \in Nat \ {0} /\ (k - 1) + 1 = k /\ tx[k] = st[k - 1]
            BY <1>1, <2>2
        <3>2. WorthAt(s, b, k - 1, tx[k].bind, tx[k].previous)
            BY <1>4, <3>1 DEF Kept
        <3> QED
            BY <1>3, <3>1, <3>2
    <2> QED
        BY <2>1, <2>2
<1> QED
    BY <1>4 DEF Kept, tx, tz

LEMMA KeptPop ==
    ASSUME NEW st \in Seq(Frames), NEW s \in Seq(Scopes), NEW b, Kept(st, s, b),
           st # <<>>, s # <<>>
    PROVE  Kept(Tail(st), Tail(s), b)
<1>1. /\ s = <<Head(s)>> \o Tail(s) /\ Head(s) \in Scopes /\ Tail(s) \in Seq(Scopes)
      /\ \A i \in DOMAIN Tail(st) : i + 1 \in DOMAIN st /\ Tail(st)[i] = st[i + 1]
    BY Popped
<1>2. DOMAIN Tail(st) \subseteq Nat \ {0}
    OBVIOUS
<1>3. ASSUME NEW k \in DOMAIN Tail(st), Tail(st)[k].kind = "loop"
      PROVE  WorthAt(Tail(s), b, k, Tail(st)[k].bind, Tail(st)[k].previous)
    <2>1. WorthAt(s, b, k + 1, Tail(st)[k].bind, Tail(st)[k].previous)
        BY <1>1, <1>3 DEF Kept
    <2>2. WorthAt(<<Head(s)>> \o Tail(s), b, k + 1, Tail(st)[k].bind, Tail(st)[k].previous)
        BY <1>1, <2>1
    <2>3. k \in Nat \ {0}
        BY <1>2
    <2> QED
        BY <1>1, <2>2, <2>3, WorthPush
<1> QED
    BY <1>3 DEF Kept

\* The list or loop on top goes on.
LEMMA GoesOn ==
    ASSUME NEW st \in Seq(Frames), NEW s \in Seq(Scopes), NEW b, Shape(st, s), st # <<>>,
           NEW y \in Frames, y.kind = Head(st).kind,
           y.kind = "loop" => y.bind = Head(st).bind /\ y.previous = Head(st).previous
    PROVE  /\ Shape(<<y>> \o Tail(st), s)
           /\ Kept(st, s, b) => Kept(<<y>> \o Tail(st), s, b)
<1>1. /\ s # <<>> /\ Head(s).names = Below(Tail(st)) /\ Shape(Tail(st), Tail(s))
      /\ Head(st).kind = "loop" => Tail(st) # <<>> /\ Head(Tail(st)).kind = "list"
    BY ShapePop
<1>2. /\ s = <<Head(s)>> \o Tail(s) /\ Head(s) \in Scopes /\ Tail(s) \in Seq(Scopes)
      /\ Tail(st) \in Seq(Frames) /\ Head(st) = st[1] /\ 1 \in DOMAIN st
    BY <1>1, Popped
<1>3. Shape(<<y>> \o Tail(st), <<Head(s)>> \o Tail(s))
    BY <1>1, <1>2, ShapePush
<1>4. ASSUME Kept(st, s, b) PROVE Kept(<<y>> \o Tail(st), <<Head(s)>> \o Tail(s), b)
    <2>1. y.kind = "loop" => WorthAt(s, b, 1, y.bind, y.previous)
        BY <1>2, <1>4 DEF Kept
    <2>2. Kept(Tail(st), Tail(s), b)
        BY <1>1, <1>4, KeptPop
    <2> QED
        BY <1>2, <2>1, <2>2, KeptPush
<1> QED
    BY <1>2, <1>3, <1>4

\* A step sees of each variable what it is worth on top of the stack.
LEMMA StepSees ==
    ASSUME ScopesInv, ListsInPhase, ~leaked, stack # <<>>, Head(stack).kind = "list"
    PROVE  \A n \in Names : WorthAt(scopes, base, 1, n, vars[n])
BY DEF ScopesInv, VarsWorth, Restoring, InLoop, ListsInPhase

\* A step may see no loop's binding when no entry binds a name.
LEMMA NothingBound ==
    ASSUME NEW s \in Seq(Scopes), NEW b, NEW n, NEW value, WorthAt(s, b, 1, n, value),
           \A i \in DOMAIN s : s[i].names = {}
    PROVE  value = b[n]
BY DEF WorthAt

LEMMA WorthEmpty ==
    ASSUME NEW b, NEW n, NEW value, NEW k
    PROVE  WorthAt(<<>>, b, k, n, value) <=> value = b[n]
BY DEF WorthAt

LEMMA EmptyFits ==
    ASSUME NEW b
    PROVE  Shape(<<>>, <<>>) /\ Kept(<<>>, <<>>, b)
BY DEF Shape, Kept

\* Writes go to the innermost binding, which is what a step sees afterwards; what is
\* kept below is of names that are bound above.
LEMMA WritesScoped ==
    ASSUME TypeOK, ScopesInv, ListsInPhase, ~leaked, stack # <<>>, Head(stack).kind = "list",
           NEW names, Set(names), SetBase(names), SetScopes(names)
    PROVE  /\ Shape(stack, scopes') /\ Kept(stack, scopes', base')
           /\ \A n \in Names : WorthAt(scopes', base', 1, n, vars'[n])
<1>1. /\ scopes \in Seq(Scopes) /\ stack \in Seq(Frames) /\ Len(scopes) = Len(stack)
      /\ DOMAIN scopes = 1 .. Len(stack) /\ DOMAIN stack = 1 .. Len(stack)
      /\ Len(stack) \in Nat /\ stack[1] = Head(stack)
    BY DEF TypeOK, ScopesInv, Shape
<1>2. /\ DOMAIN scopes' = DOMAIN scopes
      /\ \A i \in DOMAIN scopes : scopes'[i] =
            IF \E n \in names : Innermost(i, n)
            THEN [scopes[i] EXCEPT !.value = Written] ELSE scopes[i]
    BY DEF SetScopes
<1>3. Len(scopes') = Len(stack)
    BY <1>1 DEF SetScopes
<1>4. \A i \in DOMAIN scopes :
        /\ scopes[i] \in Scopes /\ scopes[i].names = BoundAt(stack, i)
        /\ \A m, n \in scopes[i].names : m = n
    <2>1. ASSUME NEW i \in DOMAIN scopes
          PROVE  scopes[i] \in Scopes /\ scopes[i].names = BoundAt(stack, i)
        BY <1>1 DEF ScopesInv, Shape
    <2>2. ASSUME NEW i, NEW m \in BoundAt(stack, i), NEW n \in BoundAt(stack, i) PROVE m = n
        BY <2>2 DEF BoundAt
    <2> QED
        BY <2>1, <2>2
<1>5. ASSUME NEW i \in DOMAIN scopes
      PROVE  /\ scopes'[i].names = scopes[i].names
             /\ \A n \in scopes[i].names : scopes'[i].value =
                    IF n \in names /\ Innermost(i, n) THEN Written ELSE scopes[i].value
    <2>1. scopes[i] = [names |-> scopes[i].names, value |-> scopes[i].value]
        BY <1>4 DEF Scopes
    <2>2. [scopes[i] EXCEPT !.value = Written] = [names |-> scopes[i].names, value |-> Written]
        BY <2>1
    <2>3. ASSUME NEW n \in scopes[i].names
          PROVE  (\E m \in names : Innermost(i, m)) <=> n \in names /\ Innermost(i, n)
        BY <1>4 DEF Innermost
    <2> QED
        BY <1>2, <2>1, <2>2, <2>3
<1>6. Shape(stack, scopes')
    BY <1>1, <1>3, <1>5 DEF ScopesInv, Shape
<1>7. ASSUME NEW n \in Names PROVE WorthAt(scopes', base', 1, n, vars'[n])
    <2>1. vars'[n] = IF n \in names THEN Written ELSE vars[n]
        BY DEF Set
    <2>2. WorthAt(scopes, base, 1, n, vars[n])
        BY StepSees
    <2>3. ASSUME NEW i \in DOMAIN scopes, n \in scopes[i].names, vars[n] = scopes[i].value,
                 \A j \in 1 .. (i - 1) : n \notin scopes[j].names
          PROVE  WorthAt(scopes', base', 1, n, vars'[n])
        <3>1. Innermost(i, n)
            BY <2>3 DEF Innermost
        <3>2. n \in scopes'[i].names /\ scopes'[i].value = vars'[n]
            BY <1>5, <2>1, <2>3, <3>1
        <3>3. \A j \in 1 .. (i - 1) : j \in DOMAIN scopes /\ n \notin scopes'[j].names
            BY <1>1, <1>5, <2>3
        <3>4. i \in DOMAIN scopes' /\ 1 <= i
            BY <1>1, <1>2
        <3> QED
            BY <3>2, <3>3, <3>4 DEF WorthAt
    <2>4. ASSUME \A i \in DOMAIN scopes : 1 <= i => n \notin scopes[i].names, vars[n] = base[n]
          PROVE  WorthAt(scopes', base', 1, n, vars'[n])
        <3>1. \A i \in DOMAIN scopes : n \notin scopes[i].names
            BY <1>1, <2>4
        <3>2. base'[n] = vars'[n]
            BY <2>1, <2>4, <3>1 DEF SetBase
        <3> QED
            BY <1>2, <1>5, <3>1, <3>2 DEF WorthAt
    <2> QED
        BY <2>2, <2>3, <2>4 DEF WorthAt
<1>8. ASSUME NEW k \in DOMAIN stack, stack[k].kind = "loop"
      PROVE  WorthAt(scopes', base', k, stack[k].bind, stack[k].previous)
    <2> DEFINE n == stack[k].bind
               value == stack[k].previous
    <2>1. n \in Names
        BY <1>1, <1>8 DEF Frames
    <2>2. k # 1 /\ k - 1 \in DOMAIN scopes /\ k - 1 < Len(stack) /\ (k - 1) + 1 = k /\ 1 <= k - 1
        BY <1>1, <1>8
    <2>3. n \in scopes[k - 1].names
        BY <1>4, <1>8, <2>2 DEF BoundAt
    <2>4. WorthAt(scopes, base, k, n, value)
        BY <1>8 DEF ScopesInv, Kept
    <2> HIDE DEF n, value
    <2>5. ASSUME NEW i \in DOMAIN scopes, k <= i, n \in scopes[i].names, value = scopes[i].value,
                 \A j \in k .. (i - 1) : n \notin scopes[j].names
          PROVE  WorthAt(scopes', base', k, n, value)
        <3>1. k - 1 \in 1 .. (i - 1)
            BY <1>1, <2>2, <2>5
        <3>2. ~Innermost(i, n)
            BY <2>3, <3>1 DEF Innermost
        <3>3. n \in scopes'[i].names /\ scopes'[i].value = value
            BY <1>5, <2>5, <3>2
        <3>4. \A j \in k .. (i - 1) : j \in DOMAIN scopes /\ n \notin scopes'[j].names
            BY <1>1, <1>5, <2>5
        <3> QED
            BY <1>2, <2>5, <3>3, <3>4 DEF WorthAt
    <2>6. ASSUME \A i \in DOMAIN scopes : k <= i => n \notin scopes[i].names, value = base[n]
          PROVE  WorthAt(scopes', base', k, n, value)
        <3>1. base'[n] = base[n]
            BY <2>1, <2>2, <2>3 DEF SetBase
        <3> QED
            BY <1>2, <1>5, <2>6, <3>1 DEF WorthAt
    <2> QED
        BY <2>4, <2>5, <2>6 DEF WorthAt, n, value
<1> QED
    BY <1>6, <1>7, <1>8 DEF Kept

\* A list that is begun in a context whose variables are those of the base.
LEMMA BeginScoped ==
    ASSUME NEW steps \in Seq(Steps), Begin(steps), ~leaked' => vars' = base', phase' # "waiting"
    PROVE  ScopesInv'
<1>1. stack' = <<List(steps)>> /\ scopes' = <<Plain>>
    BY DEF Begin
<1>2. Shape(<<List(steps)>>, <<Plain>>) /\ Kept(<<List(steps)>>, <<Plain>>, base')
    <2>1. List(steps).kind = "list" /\ Plain.names = {}
        BY DEF List, Plain
    <2>2. /\ Len(<<List(steps)>>) = 1 /\ Len(<<Plain>>) = 1 /\ DOMAIN <<List(steps)>> = {1}
          /\ <<List(steps)>>[1] = List(steps) /\ <<Plain>>[1] = Plain
        OBVIOUS
    <2>3. BoundAt(<<List(steps)>>, 1) = {}
        BY <2>2 DEF BoundAt
    <2> QED
        BY <2>1, <2>2, <2>3 DEF Shape, Kept
<1>3. \A n \in Names : WorthAt(<<Plain>>, base', 1, n, base'[n])
    BY DEF WorthAt, Plain
<1> QED
    BY <1>1, <1>2, <1>3 DEF ScopesInv, VarsWorth

\* An error leaves all at once; if no loop was left, nothing is bound.
LEMMA UnwindScoped ==
    ASSUME TypeOK, ScopesInv, ListsInPhase, Running, Unwind,
           \/ UNCHANGED <<vars, base>>
           \/ \E names : Set(names) /\ SetBase(names)
    PROVE  ScopesInv'
<1>1. stack' = <<>> /\ scopes' = <<>> /\ phase' = phase /\ phase # "waiting"
    BY DEF Unwind, Running, ListsInPhase
<1>2. ASSUME ~leaked', NEW n \in Names PROVE vars'[n] = base'[n]
    <2>1. ~leaked /\ \A i \in DOMAIN scopes : scopes[i].names = {}
        BY <1>2 DEF Unwind
    <2>2. vars[n] = base[n]
        <3>1. WorthAt(scopes, base, 1, n, vars[n])
            BY <2>1, StepSees DEF Running
        <3> QED
            BY <2>1, <3>1, NothingBound DEF TypeOK
    <2> QED
        BY <2>1, <2>2 DEF Set, SetBase
<1> QED
    BY <1>1, <1>2, EmptyFits, WorthEmpty DEF ScopesInv, VarsWorth

\* One step of each action keeps the scopes.
LEMMA NextScopes ==
    ASSUME TypeOK, ControlInv, ScopesInv, [Next]_caseVars
    PROVE  ScopesInv'
<1>0. /\ ListsInPhase /\ stack \in Seq(Frames) /\ scopes \in Seq(Scopes)
      /\ vars \in [Names -> Values] /\ base \in [Names -> Values] /\ saved \in [Names -> Values]
      /\ {case.setup, case.steps, case.teardown} \subseteq Seq(Steps)
    BY CasesAssumption DEF ControlInv, TypeOK
<1>a. ASSUME stack = <<>>, ~leaked, phase \in {"vars", "setup", "steps", "teardown"}
      PROVE  vars = base
    <2>1. scopes = <<>>
        BY <1>0, <1>a DEF ScopesInv, Shape
    <2>2. \A n \in Names : vars[n] = base[n]
        BY <1>a, <2>1, WorthEmpty DEF ScopesInv, VarsWorth, Restoring, InLoop
    <2> QED
        BY <1>0, <2>2
<1>b. ASSUME UNCHANGED <<stack, scopes>>, stack = <<>>,
             ~leaked' => phase' \notin {"vars", "setup", "steps", "teardown"} \/ vars' = base',
             ~leaked' /\ phase' = "waiting" => saved' = base'
      PROVE  ScopesInv'
    <2>1. stack' = <<>> /\ scopes' = <<>>
        BY <1>0, <1>b DEF ScopesInv, Shape
    <2> QED
        BY <1>b, <2>1, EmptyFits, WorthEmpty DEF ScopesInv, VarsWorth
<1>c. stack # <<>> => phase # "waiting"
    BY <1>0 DEF ListsInPhase
<1>1. CASE ResolveVars
    <2>1. CASE vars' = base' /\ phase' = "setup" /\ Begin(case.setup)
        BY <1>0, <2>1, BeginScoped
    <2>2. CASE phase' = "done" /\ UNCHANGED <<stack, scopes>>
        <3>1. stack = <<>>
            BY <1>0, <1>1 DEF ResolveVars, ListsInPhase
        <3> QED
            BY <1>b, <2>2, <3>1
    <2> QED
        BY <1>1, <2>1, <2>2 DEF ResolveVars
<1>2. CASE EndSetup
    <2>1. /\ stack = <<>> /\ phase = "setup" /\ UNCHANGED <<vars, base, leaked>>
        BY <1>2 DEF EndSetup, Ended
    <2>2. ~leaked => vars' = base'
        BY <1>a, <2>1
    <2>3. CASE phase' = "done" /\ UNCHANGED <<stack, scopes>>
        BY <1>b, <2>1, <2>3
    <2>4. CASE phase' = "steps" /\ Begin(case.steps)
        BY <1>0, <2>1, <2>2, <2>4, BeginScoped
    <2> QED
        BY <1>2, <2>3, <2>4 DEF EndSetup
<1>3. CASE EndSteps
    <2>1. /\ stack = <<>> /\ phase = "steps" /\ UNCHANGED <<base, leaked>> /\ saved' = vars
        BY <1>3 DEF EndSteps, Ended
    <2>2. ~leaked => vars = base'
        BY <1>a, <2>1
    <2>3. CASE phase' = "teardown" /\ Begin(case.teardown) /\ UNCHANGED vars
        BY <1>0, <2>1, <2>2, <2>3, BeginScoped
    <2>4. CASE phase' \in {"waiting", "done"} /\ UNCHANGED <<stack, scopes>>
        BY <1>b, <2>1, <2>2, <2>4
    <2> QED
        BY <1>3, <2>3, <2>4 DEF EndSteps
<1>4. CASE RunDeferred
    <2>1. /\ phase = "waiting" /\ vars' = saved /\ phase' = "teardown" /\ Begin(case.teardown)
          /\ UNCHANGED <<base, leaked>>
        BY <1>4 DEF RunDeferred, Resume
    <2>2. ~leaked' => vars' = base'
        BY <2>1 DEF ScopesInv
    <2> QED
        BY <1>0, <2>1, <2>2, BeginScoped
<1>5. CASE EndTeardown
    <2>1. stack = <<>> /\ phase' = "done" /\ UNCHANGED <<stack, scopes>>
        BY <1>5 DEF EndTeardown, Ended, history
    <2> QED
        BY <1>b, <2>1
<1>6. ASSUME Running
      PROVE  /\ stack # <<>> /\ Head(stack).kind = "list"
             /\ Advance = <<List(Tail(Head(stack).rest))>> \o Tail(stack)
             /\ Advance \in Seq(Frames) /\ Advance # <<>> /\ Head(Advance).kind = "list"
             /\ \A s \in Seq(Scopes) : \A b :
                    /\ Shape(stack, s) => Shape(Advance, s)
                    /\ Shape(stack, s) /\ Kept(stack, s, b) => Kept(Advance, s, b)
    <2>1. /\ stack # <<>> /\ Head(stack).kind = "list"
          /\ Head(stack).rest \in Seq(Steps) /\ Head(stack).rest # <<>>
        <3>1. stack # <<>> /\ Head(stack).kind = "list" /\ Head(stack).rest # <<>>
            BY <1>6 DEF Running
        <3>2. Head(stack) \in Frames
            BY <1>0, <3>1, PopTyped
        <3> QED
            BY <3>1, <3>2 DEF Frames
    <2>2. List(Tail(Head(stack).rest)) \in Frames /\ List(Tail(Head(stack).rest)).kind = "list"
        <3>1. Tail(Head(stack).rest) \in Seq(Steps)
            BY <2>1, PopTyped
        <3> QED
            BY <3>1, ListTyped DEF List
    <2>3. Advance = <<List(Tail(Head(stack).rest))>> \o Tail(stack)
        BY DEF Advance
    <2>4. Advance \in Seq(Frames) /\ Advance # <<>>
        BY <1>6, CurrentTyped
    <2>5. Head(Advance).kind = "list"
        BY <1>0, <2>1, <2>2, <2>3
    <2>6. ASSUME NEW s \in Seq(Scopes), NEW b
          PROVE  /\ Shape(stack, s) => Shape(Advance, s)
                 /\ Shape(stack, s) /\ Kept(stack, s, b) => Kept(Advance, s, b)
        BY <1>0, <2>1, <2>2, <2>3, GoesOn
    <2> QED
        BY <2>1, <2>3, <2>4, <2>5, <2>6
<1>7. ASSUME UNCHANGED <<vars, base, scopes, leaked, phase, saved>>, stack' = Advance, Running
      PROVE  ScopesInv'
    <2>1. ~leaked => \A n \in Names : WorthAt(scopes, base, 1, n, vars[n])
        BY <1>0, <1>6, <1>7, StepSees
    <2>2. Shape(Advance, scopes) /\ (Kept(stack, scopes, base) => Kept(Advance, scopes, base))
        BY <1>0, <1>6, <1>7 DEF ScopesInv
    <2> QED
        BY <1>7, <2>1, <2>2 DEF ScopesInv, VarsWorth
<1>8. CASE RunLeaf
    <2> DEFINE names == ToSet(Current.writes)
    <2>1. /\ Running /\ Set(names) /\ SetBase(names) /\ SetScopes(names)
          /\ stack' = Advance /\ UNCHANGED <<leaked, phase, saved>>
        BY <1>8 DEF RunLeaf
    <2> HIDE DEF names
    <2>2. scopes' \in Seq(Scopes)
        BY <2>1, SetsTyped
    <2>3. CASE ~leaked
        <3>1. /\ Shape(stack, scopes') /\ Kept(stack, scopes', base')
              /\ \A n \in Names : WorthAt(scopes', base', 1, n, vars'[n])
            BY <1>0, <1>6, <2>1, <2>3, WritesScoped
        <3>2. Shape(Advance, scopes') /\ Kept(Advance, scopes', base')
            BY <1>6, <2>1, <2>2, <3>1
        <3> QED
            BY <1>6, <1>c, <2>1, <3>1, <3>2 DEF ScopesInv, VarsWorth
    <2>4. CASE leaked
        <3>1. Len(scopes') = Len(scopes) /\ DOMAIN scopes' = DOMAIN scopes
            BY <1>0, <2>1 DEF SetScopes
        <3>2. \A i \in DOMAIN scopes : scopes'[i].names = scopes[i].names
            <4>1. \A i \in DOMAIN scopes : scopes[i] \in Scopes
                BY <1>0
            <4> QED
                BY <2>1, <4>1 DEF SetScopes, Scopes
        <3>3. Len(scopes) = Len(stack) /\ DOMAIN scopes = DOMAIN stack
            BY <1>0 DEF ScopesInv, Shape
        <3>4. Shape(stack, scopes')
            BY <3>1, <3>2, <3>3 DEF ScopesInv, Shape
        <3>5. Shape(Advance, scopes')
            BY <1>6, <2>1, <2>2, <3>4
        <3> QED
            BY <2>1, <2>4, <3>5 DEF ScopesInv
    <2> QED
        BY <2>3, <2>4
<1>9. CASE SkipExec
    BY <1>7, <1>9 DEF SkipExec, history
<1>10. CASE ExecFails \/ EffectFails \/ ControlFails
    BY <1>0, <1>10, UnwindScoped DEF ExecFails, EffectFails, ControlFails
<1>11. CASE ChecksFail
    BY <1>0, <1>11, UnwindScoped DEF ChecksFail
<1>12. ASSUME NEW x \in Frames, Running, stack' = <<x>> \o Advance, scopes' = <<Plain>> \o scopes,
             UNCHANGED <<vars, base, leaked, phase, saved>>,
             x.kind = "loop" => x.bind \in Names /\ x.previous = vars[x.bind]
      PROVE  ScopesInv'
    <2>1. Plain \in Scopes /\ Plain.names = {}
        BY DEF Plain, Scopes, Values
    <2>2. Shape(Advance, scopes) /\ (Kept(stack, scopes, base) => Kept(Advance, scopes, base))
        BY <1>0, <1>6, <1>12 DEF ScopesInv
    <2>3. Below(Advance) = {}
        BY <1>6, <1>12 DEF Below
    <2>4. Shape(stack', scopes')
        BY <1>0, <1>6, <1>12, <2>1, <2>2, <2>3, ShapePush
    <2>5. ASSUME ~leaked
          PROVE  /\ \A n \in Names : WorthAt(scopes', base', 1, n, vars'[n])
                 /\ Kept(stack', scopes', base')
        <3>1. \A n \in Names : WorthAt(scopes, base, 1, n, vars[n])
            BY <1>0, <1>6, <1>12, <2>5, StepSees
        <3>2. \A n \in Names : WorthAt(<<Plain>> \o scopes, base, 1, n, vars[n])
            BY <1>0, <2>1, <3>1, WorthTop
        <3>3. x.kind = "loop" => WorthAt(<<Plain>> \o scopes, base, 1, x.bind, x.previous)
            BY <1>12, <3>2
        <3>4. Kept(<<x>> \o Advance, <<Plain>> \o scopes, base)
            BY <1>0, <1>6, <1>12, <2>1, <2>2, <2>5, <3>3, KeptPush DEF ScopesInv
        <3> QED
            BY <1>12, <3>2, <3>4
    <2> QED
        BY <1>6, <1>c, <1>12, <2>4, <2>5 DEF ScopesInv, VarsWorth
<1>13. CASE Branch
    <2>1. Running /\ Current.kind = "if" /\ Current \in Steps
        BY <1>13, CurrentTyped DEF Branch
    <2>2. {Current.then, Current.else} \subseteq Seq(Steps)
        BY <2>1, StepsAssumption DEF IsLeaf
    <2>3. PICK steps \in {Current.then, Current.else} : stack' = <<List(steps)>> \o Advance
        BY <1>13 DEF Branch
    <2>4. List(steps) \in Frames /\ List(steps).kind = "list"
        BY <2>2, <2>3, ListTyped DEF List
    <2> QED
        BY <1>12, <1>13, <2>3, <2>4 DEF Branch
<1>14. CASE EnterLoop
    <2>1. Running /\ Current.kind = "foreach" /\ Current \in Steps
        BY <1>14, CurrentTyped DEF EnterLoop
    <2>2. Current.bind \in Names /\ Current.body \in Seq(Steps)
        BY <2>1, StepsAssumption DEF IsLeaf
    <2>3. PICK items \in Arrays : stack' = <<Loop(Current, items)>> \o Advance
        BY <1>14 DEF EnterLoop
    <2>4. /\ Loop(Current, items) \in Frames
          /\ Loop(Current, items).bind \in Names
          /\ Loop(Current, items).previous = vars[Loop(Current, items).bind]
        BY <1>0, <2>2, ArraysAssumption DEF Loop, Frames
    <2> QED
        BY <1>12, <1>14, <2>3, <2>4 DEF EnterLoop
<1>15. CASE NextItem
    <2> DEFINE loop == Head(stack)
               popped == [loop EXCEPT !.items = Tail(@)]
               item == Head(loop.items)
               scope == [names |-> {loop.bind}, value |-> item]
    <2>1. /\ loop \in [kind : {"loop"}, bind : Names, body : Seq(Steps), items : Seq(Items),
                       previous : Values]
          /\ stack # <<>> /\ Tail(stack) \in Seq(Frames) /\ loop.items # <<>> /\ InLoop
        BY <1>15, LoopTyped DEF NextItem, Iterate
    <2>2. item \in Items /\ Tail(loop.items) \in Seq(Items)
        BY <2>1, PopTyped
    <2>3. /\ popped \in Frames /\ popped.kind = "loop" /\ loop.kind = "loop"
          /\ popped.bind = loop.bind /\ popped.previous = loop.previous
        BY <2>1, <2>2 DEF Frames
    <2>4. List(loop.body) \in Frames /\ List(loop.body).kind = "list"
        BY <2>1, ListTyped DEF List
    <2>5. scope \in Scopes /\ scope.names = {loop.bind} /\ scope.value = item
        BY <2>1, <2>2 DEF Scopes, Values
    <2>6. /\ vars' = [vars EXCEPT ![loop.bind] = item]
          /\ scopes' = <<scope>> \o scopes
          /\ stack' = <<List(loop.body), popped>> \o Tail(stack)
          /\ UNCHANGED <<base, leaked, phase, saved>>
        BY <1>15 DEF NextItem, Iterate
    <2> HIDE DEF popped, item, scope
    <2> DEFINE lower == <<popped>> \o Tail(stack)
    <2>7. /\ lower \in Seq(Frames) /\ lower # <<>> /\ Head(lower) = popped
          /\ <<List(loop.body), popped>> \o Tail(stack) = <<List(loop.body)>> \o lower
        BY <2>1, <2>3, <2>4
    <2>8. /\ Shape(lower, scopes)
          /\ Kept(stack, scopes, base) => Kept(lower, scopes, base)
        BY <1>0, <2>1, <2>3, GoesOn DEF ScopesInv
    <2> HIDE DEF lower
    <2>9. Below(lower) = {loop.bind}
        BY <2>3, <2>7 DEF Below
    <2>10. Shape(stack', scopes')
        BY <1>0, <2>4, <2>5, <2>6, <2>7, <2>8, <2>9, ShapePush
    <2>11. ASSUME ~leaked
           PROVE  /\ \A n \in Names : WorthAt(scopes', base', 1, n, vars'[n])
                  /\ Kept(stack', scopes', base')
        <3>1. \A n \in Names : n # loop.bind => WorthAt(scopes, base, 1, n, vars[n])
            BY <1>0, <2>1, <2>11 DEF ScopesInv, VarsWorth, Restoring, ListsInPhase
        <3>2. ASSUME NEW n \in Names PROVE WorthAt(<<scope>> \o scopes, base, 1, n, vars'[n])
            BY <1>0, <2>5, <2>6, <3>1, <3>2, WorthTop
        <3>3. Kept(<<List(loop.body)>> \o lower, <<scope>> \o scopes, base)
            BY <1>0, <2>4, <2>5, <2>7, <2>8, <2>11, KeptPush DEF ScopesInv
        <3> QED
            BY <2>6, <2>7, <3>2, <3>3
    <2> QED
        BY <1>c, <2>1, <2>6, <2>10, <2>11 DEF ScopesInv, VarsWorth
<1>16. CASE EndLoop
    <2> DEFINE loop == Head(stack)
    <2>1. /\ loop \in [kind : {"loop"}, bind : Names, body : Seq(Steps), items : Seq(Items),
                       previous : Values]
          /\ stack # <<>> /\ Tail(stack) \in Seq(Frames) /\ InLoop
        BY <1>16, LoopTyped DEF EndLoop, LeaveLoop
    <2>2. /\ vars' = [vars EXCEPT ![loop.bind] = loop.previous]
          /\ stack' = Tail(stack) /\ scopes' = Tail(scopes)
          /\ UNCHANGED <<base, leaked, phase, saved>>
        BY <1>16 DEF EndLoop, LeaveLoop
    <2>3. /\ scopes # <<>> /\ Head(scopes).names = Below(Tail(stack))
          /\ Shape(Tail(stack), Tail(scopes))
          /\ Tail(stack) # <<>> /\ Head(Tail(stack)).kind = "list"
        BY <1>0, <2>1, ShapePop DEF ScopesInv
    <2>4. /\ scopes = <<Head(scopes)>> \o Tail(scopes) /\ Head(scopes) \in Scopes
          /\ Tail(scopes) \in Seq(Scopes)
          /\ 1 \in DOMAIN stack /\ stack[1] = loop
        BY <1>0, <2>1, <2>3, Popped
    <2>5. Head(scopes).names = {}
        BY <2>3 DEF Below
    <2>6. ASSUME ~leaked
          PROVE  /\ \A n \in Names : WorthAt(scopes', base', 1, n, vars'[n])
                 /\ Kept(stack', scopes', base')
        <3>1. WorthAt(scopes, base, 1, loop.bind, loop.previous)
            BY <2>1, <2>4, <2>6 DEF ScopesInv, Kept
        <3>2. ASSUME NEW n \in Names PROVE WorthAt(scopes, base, 1, n, vars'[n])
            <4>1. n # loop.bind => WorthAt(scopes, base, 1, n, vars[n])
                BY <1>0, <2>1, <2>6 DEF ScopesInv, VarsWorth, Restoring, ListsInPhase
            <4> QED
                BY <1>0, <2>2, <3>1, <4>1
        <3>3. ASSUME NEW n \in Names PROVE WorthAt(Tail(scopes), base, 1, n, vars'[n])
            <4>1. WorthAt(<<Head(scopes)>> \o Tail(scopes), base, 1, n, vars'[n])
                BY <2>4, <3>2
            <4> QED
                BY <2>4, <2>5, <4>1, WorthTop
        <3>4. Kept(Tail(stack), Tail(scopes), base)
            BY <1>0, <2>1, <2>3, <2>6, KeptPop DEF ScopesInv
        <3> QED
            BY <2>2, <3>3, <3>4
    <2> QED
        BY <1>c, <2>1, <2>2, <2>3, <2>6 DEF ScopesInv, VarsWorth
<1>17. CASE Return
    <2>1. /\ stack # <<>> /\ Head(stack).kind = "list" /\ Tail(stack) \in Seq(Frames)
          /\ stack' = Tail(stack) /\ scopes' = Tail(scopes)
          /\ UNCHANGED <<vars, base, leaked, phase, saved>>
        BY <1>0, <1>17, PopTyped DEF Return
    <2>2. /\ scopes # <<>> /\ Head(scopes).names = Below(Tail(stack))
          /\ Shape(Tail(stack), Tail(scopes))
        BY <1>0, <2>1, ShapePop DEF ScopesInv
    <2>3. /\ scopes = <<Head(scopes)>> \o Tail(scopes) /\ Head(scopes) \in Scopes
          /\ Tail(scopes) \in Seq(Scopes)
        BY <1>0, <2>2, Popped
    <2>4. ASSUME ~leaked
          PROVE  /\ \A n \in Names : Restoring(n)' \/ WorthAt(scopes', base', 1, n, vars'[n])
                 /\ Kept(stack', scopes', base')
        <3>1. \A n \in Names : WorthAt(scopes, base, 1, n, vars[n])
            BY <1>0, <2>1, <2>4, StepSees
        <3>2. ASSUME NEW n \in Names, n \notin Below(Tail(stack))
              PROVE  WorthAt(Tail(scopes), base, 1, n, vars[n])
            <4>1. WorthAt(<<Head(scopes)>> \o Tail(scopes), base, 1, n, vars[n])
                BY <2>3, <3>1
            <4>2. n \notin Head(scopes).names
                BY <2>2, <3>2
            <4> QED
                BY <2>3, <4>1, <4>2, WorthTop
        <3>3. \A n \in Below(Tail(stack)) : Restoring(n)'
            BY <2>1 DEF Below, Restoring, InLoop
        <3>4. Kept(Tail(stack), Tail(scopes), base)
            BY <1>0, <2>1, <2>2, <2>4, KeptPop DEF ScopesInv
        <3> QED
            BY <2>1, <3>2, <3>3, <3>4
    <2> QED
        BY <1>c, <2>1, <2>2, <2>4 DEF ScopesInv, VarsWorth
<1>18. CASE UNCHANGED caseVars
    BY <1>18 DEF caseVars, ScopesInv, VarsWorth, Restoring, InLoop
<1> QED
    BY <1>1, <1>2, <1>3, <1>4, <1>5, <1>8, <1>9, <1>10, <1>11, <1>13, <1>14, <1>15, <1>16,
       <1>17, <1>18 DEF Next
-----------------------------------------------------------------------------
(***************************************************************************)
(* The theorems.                                                           *)
(***************************************************************************)
CaseInv == TypeOK /\ ControlInv /\ NothingToTearDown /\ ScopesInv

LEMMA InitScopes == Init => ScopesInv
BY EmptyFits, WorthEmpty DEF Init, ScopesInv, VarsWorth

LEMMA CaseInvariant == Spec => []CaseInv
<1>1. Init => CaseInv
    BY InitType, InitControl, InitScopes DEF CaseInv, Init, NothingToTearDown
<1>2. CaseInv /\ [Next]_caseVars => CaseInv'
    BY NextType, NextControl, NextNothing, NextScopes DEF CaseInv, ControlInv
<1> QED
    BY <1>1, <1>2, PTL DEF Spec

\* The context, the stack of execute_step_list and the reports have their types
\* in every state of every case.
THEOREM CaseTypeCorrect == Spec => []TypeOK
<1>1. CaseInv => TypeOK
    BY DEF CaseInv
<1> QED
    BY <1>1, CaseInvariant, PTL

\* Whatever the steps of a case are, however they are nested and wherever they
\* fail, execute_case_inner returns an error exactly if something went wrong.
THEOREM CaseVerdictFaithful == Spec => []VerdictFaithful
<1>1. CaseInv => VerdictFaithful
    BY DEF CaseInv, ControlInv, AtTheEnd, VerdictFaithful
<1> QED
    BY <1>1, CaseInvariant, PTL

\* A loop is a scope: what run_foreach_step keeps and restores of one flat binding
\* gives a step the innermost value of every variable, however loops and branches are
\* nested and whatever steps write, unless an error has left a loop (restore_var).
THEOREM LoopsAreScopes == Spec => []Scoped
<1>1. ASSUME CaseInv PROVE Scoped
    <2>1. SUFFICES ASSUME AboutToRun, ~leaked, NEW n \in Names PROVE Worth(n, vars[n])
        BY DEF Scoped
    <2>2. WorthAt(scopes, base, 1, n, vars[n])
        BY <1>1, <2>1, StepSees DEF AboutToRun, CaseInv, ControlInv
    <2>3. \A i \in DOMAIN scopes : 1 <= i
        BY <1>1 DEF CaseInv, TypeOK
    <2> QED
        BY <2>2, <2>3 DEF WorthAt, Worth, Innermost
<1> QED
    BY <1>1, CaseInvariant, PTL

\* How far a case came, as it is read off what went wrong.
LEMMA EndMeans ==
    ASSUME wrong \subseteq Troubles
    PROVE  /\ End = "unopened" <=> ~Opened
           /\ End = "passed" <=> wrong \subseteq {"teardown"}
<1>1. CASE ~Opened
    <2>1. End = "unopened"
        BY <1>1 DEF End, Opened
    <2>2. "vars" \in wrong \/ "setup" \in wrong
        BY <1>1 DEF Opened
    <2> QED
        BY <1>1, <2>1, <2>2
<1>2. CASE Opened /\ "steps" \in wrong
    BY <1>2 DEF End, Opened
<1>3. CASE Opened /\ "steps" \notin wrong /\ "exports" \in wrong
    BY <1>3 DEF End, Opened
<1>4. CASE Opened /\ "steps" \notin wrong /\ "exports" \notin wrong
    BY <1>4 DEF End, Opened, Troubles
<1> QED
    BY <1>1, <1>2, <1>3, <1>4

\* A case is for its workflow what CaseOutcomes says, which WorkflowRun builds on:
\* its outcome and what becomes of its teardown follow from how far it came.
THEOREM CaseEndsAsWorkflowSees == Spec => []EndsAsWorkflowSees
<1>1. ASSUME CaseInv PROVE EndsAsWorkflowSees
    <2> DEFINE step == [cleanup |-> case.cleanup, hasTeardown |-> case.teardown # <<>>]
    <2> USE DEF Ran, Immediate, Passed, Defers
    <2>1. case.cleanup \in Policies /\ wrong \subseteq Troubles
        BY <1>1, CasesAssumption DEF CaseInv, TypeOK
    <2>2. CASE phase = "waiting"
        <3>1. /\ case.cleanup = "defer" /\ case.teardown # <<>>
              /\ ~cleaned /\ Opened /\ "teardown" \notin wrong /\ (failed <=> wrong # {})
            BY <1>1, <2>2 DEF CaseInv, ControlInv, WhileWaiting
        <3>2. step.cleanup = "defer" /\ step.hasTeardown
            BY <3>1
        <3>3. End # "unopened" /\ (End = "passed" <=> wrong = {})
            BY <2>1, <3>1, EndMeans
        <3> QED
            BY <2>2, <3>1, <3>2, <3>3 DEF EndsAsWorkflowSees
    <2>3. CASE phase = "done" /\ ~(case.cleanup = "defer" /\ cleaned)
        <3>1. /\ failed <=> wrong # {}
              /\ case.teardown = <<>> => "teardown" \notin wrong
              /\ cleaned => Opened /\ case.cleanup = "immediate"
              /\ ~cleaned => /\ "teardown" \notin wrong
                             /\ Opened => /\ case.cleanup # "immediate"
                                          /\ case.cleanup = "defer" => case.teardown = <<>>
            BY <1>1, <2>1, <2>3 DEF CaseInv, ControlInv, AtTheEnd, NothingToTearDown, Policies
        <3>2. /\ End = "unopened" <=> ~Opened
              /\ End = "passed" <=> wrong \subseteq {"teardown"}
            BY <2>1, EndMeans
        <3>3. step.cleanup = case.cleanup /\ (step.hasTeardown <=> case.teardown # <<>>)
            OBVIOUS
        <3>4. CASE cleaned
            <4>1. Opened /\ case.cleanup = "immediate" /\ End # "unopened"
                BY <3>1, <3>2, <3>4
            <4>2. failed <=> ~Passed(step, End, "teardown" \notin wrong)
                <5>1. CASE step.hasTeardown
                    BY <2>1, <3>1, <3>2, <3>3, <4>1, <5>1
                <5>2. CASE ~step.hasTeardown
                    BY <2>1, <3>1, <3>2, <3>3, <4>1, <5>2
                <5> QED
                    BY <5>1, <5>2
            <4> QED
                BY <2>3, <3>3, <3>4, <4>1, <4>2 DEF EndsAsWorkflowSees
        <3>5. CASE ~cleaned
            BY <2>1, <2>3, <3>1, <3>2, <3>3, <3>5 DEF EndsAsWorkflowSees
        <3> QED
            BY <2>1, <2>3, <3>1, <3>2, <3>3, <3>4, <3>5 DEF EndsAsWorkflowSees
    <2> QED
        BY <2>2, <2>3 DEF EndsAsWorkflowSees, Returned
<1> QED
    BY <1>1, CaseInvariant, PTL
=============================================================================
