------------------------ MODULE RunLifecycle_proofs -------------------------
(***************************************************************************)
(* For every number of slots and services, every timeout and interval: a   *)
(* check gives up for a reason, units run in a whole environment only, it  *)
(* is cleaned up as the policy says and not before the logs are collected, *)
(* and the exit code is right.                                             *)
(***************************************************************************)
EXTENDS RunLifecycle, TLAPS

(***************************************************************************)
(* Polling: what an attempt or a sleep knows of its target.                *)
(***************************************************************************)

\* An attempt of a readiness check or wait_for began Slow before its `until`,
\* and before the timeout. If the target was down in it, it came up since.
DuringAttempt ==
    poll.at = "attempt" /\ poll.kind # "log" =>
        /\ poll.until < Timeout + Slow
        /\ poll.clock <= poll.until /\ poll.until <= poll.clock + Slow
        /\ poll.up \in poll.met
        /\ poll.up /\ FALSE \in poll.met => poll.since + Slow > poll.until

\* It was down in the last attempt before a sleep.
DuringSleep ==
    poll.at = "sleep" =>
        /\ poll.kind # "log"
        /\ poll.until < Timeout + Interval + Slow
        /\ poll.clock <= poll.until /\ poll.until <= poll.clock + Interval
        /\ poll.up => poll.since + Interval + Slow > poll.until

\* A line that was written comes within Slow ticks.
DuringLog ==
    poll.at = "attempt" /\ poll.kind = "log" /\ poll.up => poll.clock <= poll.since + Slow

PollInv == poll \in Checks /\ DuringAttempt /\ DuringSleep /\ DuringLog /\ GivesUpForAReason

LEMMA CheckTyped ==
    ASSUME NEW check \in Checks
    PROVE  /\ check.clock \in Nat /\ check.until \in Nat /\ check.since \in Nat
           /\ check.up \in BOOLEAN /\ check.met \in SUBSET BOOLEAN
BY DEF Checks

LEMMA IdleKeeps ==
    ASSUME poll' = Idle
    PROVE  PollInv'
BY DEF PollInv, Idle, Checks, Places, Kinds, DuringAttempt, DuringSleep, DuringLog,
       GivesUpForAReason

\* Another attempt, of a check that is not of a log or has just begun.
LEMMA AgainKeeps ==
    ASSUME NEW check \in Checks, check.kind = "log" => check.clock = 0 /\ check.since = 0,
           poll' = Again(check),
           check.clock = 0 \/ check.clock < Timeout + Interval + Slow,
           check.up /\ check.clock > 0 => check.since + Interval + Slow > check.clock
    PROVE  PollInv'
<1> USE TimesAssumption
<1>1. CASE check.clock >= Timeout
    <2>1. poll' = [check EXCEPT !.at = "failed"]
        BY <1>1 DEF Again
    <2>2. poll' \in Checks /\ poll'.at = "failed"
        BY <2>1 DEF Checks, Places
    <2> QED
        BY <1>1, <2>1, <2>2
        DEF PollInv, Checks, DuringAttempt, DuringSleep, DuringLog, GivesUpForAReason
<1>2. CASE ~ (check.clock >= Timeout)
    <2> DEFINE end == IF check.kind = "log" THEN Timeout ELSE check.clock + Slow
    <2>1. poll' = [check EXCEPT !.at = "attempt", !.met = {check.up}, !.until = end]
        BY <1>2 DEF Again
    <2>2. end \in Nat
        BY DEF Checks
    <2> HIDE DEF end
    <2>3. poll'.at = "attempt" /\ poll'.kind = check.kind /\ poll'.met = {check.up}
        BY <2>1 DEF Checks
    <2>4. poll'.up = check.up
        BY <2>1 DEF Checks
    <2>5. poll'.since = check.since /\ poll'.clock = check.clock /\ poll'.until = end
        BY <2>1 DEF Checks
    <2>6. poll' \in Checks
        <3> DEFINE met == {check.up}
        <3>1. met \in SUBSET BOOLEAN
            BY DEF Checks
        <3> HIDE DEF met
        <3>2. poll' = [check EXCEPT !.at = "attempt", !.met = met, !.until = end]
            BY <2>1 DEF met
        <3> QED
            BY <2>2, <3>1, <3>2 DEF Checks, Places
    <2>7. poll'.up \in poll'.met /\ ~ (poll'.up /\ FALSE \in poll'.met)
        BY <2>3, <2>4, CheckTyped
    <2>8. DuringAttempt'
        <3>1. CASE check.kind = "log"
            BY <2>3, <3>1 DEF DuringAttempt
        <3>2. CASE check.kind # "log"
            <4>1. end = check.clock + Slow /\ check.clock < Timeout
                BY <1>2, <3>2, CheckTyped DEF end
            <4>2. /\ poll'.until < Timeout + Slow
                  /\ poll'.clock <= poll'.until /\ poll'.until <= poll'.clock + Slow
                BY <2>5, <4>1, CheckTyped
            <4> QED
                BY <2>7, <4>2 DEF DuringAttempt
        <3> QED
            BY <3>1, <3>2
    <2>9. DuringSleep' /\ GivesUpForAReason'
        BY <2>3 DEF DuringSleep, GivesUpForAReason
    <2>10. DuringLog'
        BY <2>3, <2>5 DEF DuringLog
    <2> QED
        BY <2>6, <2>8, <2>9, <2>10 DEF PollInv
<1> QED
    BY <1>1, <1>2

LEMMA StartKeeps ==
    ASSUME NEW kinds \in SUBSET {"http", "tcp", "log"}, StartPoll(kinds)
    PROVE  PollInv'
<1>1. PICK kind \in kinds, up \in BOOLEAN : poll' = Again([Idle EXCEPT !.kind = kind, !.up = up])
    BY DEF StartPoll
<1> DEFINE check == [Idle EXCEPT !.kind = kind, !.up = up]
<1>2. check \in Checks /\ check.clock = 0 /\ check.since = 0
    BY DEF Idle, Checks, Places, Kinds
<1> HIDE DEF check
<1>3. poll' = Again(check)
    BY <1>1 DEF check
<1> QED
    BY <1>2, <1>3, AgainKeeps

LEMMA PollStepKeeps ==
    ASSUME PollInv, PollStep
    PROVE  PollInv'
<1> USE TimesAssumption
<1>0. poll \in Checks
    BY DEF PollInv
<1>1. CASE Tick
    <2>1. PICK up \in BOOLEAN :
            /\ poll.kind = "log" /\ poll.up => up /\ poll.clock < poll.since + Slow
            /\ poll' = [poll EXCEPT
                            !.clock = @ + 1,
                            !.up = up, !.met = @ \cup {up},
                            !.since = IF up /\ ~poll.up THEN poll.clock + 1
                                      ELSE IF up THEN @ ELSE 0]
        BY <1>1 DEF Tick
    <2> DEFINE since == IF up /\ ~poll.up THEN poll.clock + 1
                        ELSE IF up THEN poll.since ELSE 0
               met == poll.met \cup {up}
    <2>2. since \in Nat /\ met \in SUBSET BOOLEAN /\ poll.clock + 1 \in Nat
        BY <1>0, CheckTyped
    <2>3. /\ up /\ ~poll.up => since = poll.clock + 1
          /\ up /\ poll.up => since = poll.since
          /\ met = poll.met \cup {up}
        OBVIOUS
    <2>4. poll' = [poll EXCEPT !.clock = poll.clock + 1, !.up = up, !.met = met, !.since = since]
        BY <1>0, <2>1 DEF Checks
    <2> HIDE DEF since, met
    <2>5. /\ poll'.at = poll.at /\ poll'.kind = poll.kind /\ poll'.until = poll.until
          /\ poll'.clock = poll.clock + 1 /\ poll'.since = since
        BY <1>0, <2>4 DEF Checks
    <2>6. poll'.up = up /\ poll'.met = met
        BY <1>0, <2>4 DEF Checks
    <2>7. poll' \in Checks
        BY <1>0, <2>2, <2>4 DEF Checks
    <2>8. poll.at \in {"attempt", "sleep"} /\ poll.clock < poll.until
        BY <1>1 DEF Tick
    <2>9. /\ poll.clock \in Nat /\ poll.until \in Nat /\ poll.since \in Nat
          /\ poll.up \in BOOLEAN /\ poll.met \in SUBSET BOOLEAN
        BY <1>0, CheckTyped
    <2>10. DuringAttempt'
        <3> SUFFICES ASSUME poll.at = "attempt", poll.kind # "log"
                     PROVE  /\ poll'.until < Timeout + Slow
                            /\ poll'.clock <= poll'.until /\ poll'.until <= poll'.clock + Slow
                            /\ poll'.up \in poll'.met
                            /\ poll'.up /\ FALSE \in poll'.met => poll'.since + Slow > poll'.until
            BY <2>5 DEF DuringAttempt
        <3>1. /\ poll.until < Timeout + Slow
              /\ poll.clock <= poll.until /\ poll.until <= poll.clock + Slow
              /\ poll.up \in poll.met
              /\ poll.up /\ FALSE \in poll.met => poll.since + Slow > poll.until
            BY DEF PollInv, DuringAttempt
        <3>2. /\ poll'.until < Timeout + Slow
              /\ poll'.clock <= poll'.until /\ poll'.until <= poll'.clock + Slow
            BY <2>5, <2>8, <2>9, <3>1
        <3>3. poll'.up \in poll'.met
            BY <2>3, <2>6
        <3>4. CASE up /\ poll.up /\ FALSE \in poll'.met
            <4>1. FALSE \in poll.met
                BY <2>3, <2>6, <3>4
            <4> QED
                BY <2>5, <2>3, <3>1, <3>2, <3>3, <3>4, <4>1
        <3>5. CASE up /\ ~poll.up
            <4>1. poll'.since + Slow > poll'.until
                BY <2>5, <2>3, <2>9, <3>1, <3>5
            <4> QED
                BY <3>2, <3>3, <4>1
        <3> QED
            BY <2>6, <3>2, <3>3, <3>4, <3>5
    <2>11. DuringSleep'
        <3> SUFFICES ASSUME poll.at = "sleep"
                     PROVE  /\ poll'.kind # "log"
                            /\ poll'.until < Timeout + Interval + Slow
                            /\ poll'.clock <= poll'.until /\ poll'.until <= poll'.clock + Interval
                            /\ poll'.up => poll'.since + Interval + Slow > poll'.until
            BY <2>5 DEF DuringSleep
        <3>1. /\ poll.kind # "log"
              /\ poll.until < Timeout + Interval + Slow
              /\ poll.clock <= poll.until /\ poll.until <= poll.clock + Interval
              /\ poll.up => poll.since + Interval + Slow > poll.until
            BY DEF PollInv, DuringSleep
        <3>2. /\ poll'.kind # "log"
              /\ poll'.until < Timeout + Interval + Slow
              /\ poll'.clock <= poll'.until /\ poll'.until <= poll'.clock + Interval
            BY <2>5, <2>8, <2>9, <3>1
        <3>3. CASE up /\ poll.up
            BY <2>5, <2>3, <3>1, <3>2, <3>3
        <3>4. CASE up /\ ~poll.up
            <4>1. poll'.since + Interval + Slow > poll'.until
                BY <2>5, <2>3, <2>9, <3>1, <3>4
            <4> QED
                BY <3>2, <4>1
        <3> QED
            BY <2>6, <3>2, <3>3, <3>4
    <2>12. DuringLog'
        <3> SUFFICES ASSUME poll.at = "attempt", poll.kind = "log", up
                     PROVE  poll'.clock <= poll'.since + Slow
            BY <2>5, <2>6 DEF DuringLog
        <3>1. CASE poll.up
            <4>1. poll.clock < poll.since + Slow /\ since = poll.since
                BY <2>1, <2>3, <3>1
            <4> QED
                BY <2>5, <2>9, <4>1
        <3>2. CASE ~poll.up
            <4>1. since = poll.clock + 1
                BY <2>3, <3>2
            <4> QED
                BY <2>5, <2>9, <4>1
        <3> QED
            BY <3>1, <3>2
    <2>13. GivesUpForAReason'
        BY <2>5, <2>8 DEF GivesUpForAReason
    <2> QED
        BY <2>7, <2>10, <2>11, <2>12, <2>13 DEF PollInv
<1>2. CASE Succeed \/ Hang
    <2>1. poll' \in Checks /\ poll'.at \in {"passed", "hung"}
        BY <1>0, <1>2 DEF Succeed, Hang, Checks, Places
    <2> QED
        BY <2>1 DEF PollInv, DuringAttempt, DuringSleep, DuringLog, GivesUpForAReason
<1>3. CASE Retry
    <2>1. poll.at = "attempt" /\ poll.kind # "log" /\ FALSE \in poll.met
        BY <1>3 DEF Retry
    <2> DEFINE end == poll.clock + Interval
    <2>2. poll' = [poll EXCEPT !.at = "sleep", !.until = end]
        BY <1>3 DEF Retry
    <2>3. /\ poll.clock \in Nat /\ poll.until \in Nat /\ poll.since \in Nat
          /\ poll.up \in BOOLEAN /\ end \in Nat
        BY <1>0, CheckTyped
    <2>4. end = poll.clock + Interval
        OBVIOUS
    <2> HIDE DEF end
    <2>5. /\ poll'.at = "sleep" /\ poll'.until = end /\ poll'.kind = poll.kind
          /\ poll'.clock = poll.clock /\ poll'.since = poll.since
        BY <1>0, <2>2 DEF Checks
    <2>6. poll'.up = poll.up
        BY <1>0, <2>2 DEF Checks
    <2>7. poll' \in Checks
        BY <1>0, <2>2, <2>3 DEF Checks, Places
    <2>8. DuringSleep'
        <3>1. /\ poll.until < Timeout + Slow
              /\ poll.clock <= poll.until /\ poll.until <= poll.clock + Slow
              /\ poll.up => poll.since + Slow > poll.until
            BY <2>1 DEF PollInv, DuringAttempt
        <3>2. /\ poll'.until < Timeout + Interval + Slow
              /\ poll'.clock <= poll'.until /\ poll'.until <= poll'.clock + Interval
            BY <2>3, <2>4, <2>5, <3>1
        <3>3. ASSUME poll.up PROVE poll'.since + Interval + Slow > poll'.until
            <4>1. poll.since + Slow > poll.until
                BY <3>1, <3>3
            <4> QED
                BY <2>3, <2>4, <2>5, <3>1, <4>1
        <3> QED
            BY <2>1, <2>5, <2>6, <3>2, <3>3 DEF DuringSleep
    <2> QED
        BY <2>5, <2>7, <2>8 DEF PollInv, DuringAttempt, DuringLog, GivesUpForAReason
<1>4. CASE WakeUp
    <2>1. poll.at = "sleep" /\ poll.clock = poll.until /\ poll' = Again(poll)
        BY <1>4 DEF WakeUp
    <2>2. /\ poll.kind # "log" /\ poll.clock < Timeout + Interval + Slow
          /\ poll.up => poll.since + Interval + Slow > poll.clock
        BY <2>1 DEF PollInv, DuringSleep
    <2> QED
        BY <1>0, <2>1, <2>2, AgainKeeps
<1>5. CASE LogTimesOut
    <2>1. /\ poll' \in Checks /\ poll'.at = "failed"
          /\ poll'.kind = poll.kind /\ poll'.clock = poll.clock
          /\ poll'.up = poll.up /\ poll'.since = poll.since
        BY <1>0, <1>5 DEF LogTimesOut, Checks, Places
    <2>2. poll.at = "attempt" /\ poll.kind = "log" /\ poll.clock = Timeout
        BY <1>5 DEF LogTimesOut
    <2>3. GivesUpForAReason'
        BY <1>0, <2>1, <2>2 DEF PollInv, DuringLog, GivesUpForAReason, Checks
    <2> QED
        BY <2>1, <2>3 DEF PollInv, DuringAttempt, DuringSleep, DuringLog
<1> QED
    BY <1>1, <1>2, <1>3, <1>4, <1>5 DEF PollStep

\* One check is under way in the run, and starts or ends in its actions.
LEMMA PollKeeps ==
    ASSUME PollInv, [Next]_vars
    PROVE  PollInv'
<1>1. CASE WaitFor
    BY <1>1, StartKeeps, IdleKeeps DEF WaitFor
<1>2. CASE BeginCheck
    BY <1>2, StartKeeps DEF BeginCheck
<1>3. CASE CheckReadiness \/ CheckFails
    BY <1>3, IdleKeeps DEF CheckReadiness, CheckFails
<1>4. CASE PollStep
    BY <1>4, PollStepKeeps
<1>5. CASE UNCHANGED poll
    BY <1>5 DEF PollInv, DuringAttempt, DuringSleep, DuringLog, GivesUpForAReason
<1> QED
    BY <1>1, <1>2, <1>3, <1>4, <1>5 DEF Next, vars

-----------------------------------------------------------------------------
(***************************************************************************)
(* The plan of start_containers: the slots one after the other, of each    *)
(* its network and its containers, and nothing else.                       *)
(***************************************************************************)

LEMMA DivMod ==
    ASSUME NEW a \in Nat, NEW n \in Nat \ {0}
    PROVE  a = n * (a \div n) + (a % n) /\ a % n \in 0 .. n - 1 /\ a \div n \in Nat
OBVIOUS

LEMMA DivUnique ==
    ASSUME NEW n \in Nat \ {0}, NEW q \in Nat, NEW s \in Nat,
           NEW r \in 0 .. n - 1, NEW k \in 0 .. n - 1, n * q + r = n * s + k
    PROVE  q = s /\ r = k
<1>1. n * (q - s) = k - r
    OBVIOUS
<1>2. ASSUME q - s >= 1 PROVE FALSE
    <2>1. n * (q - s) >= n
        BY <1>2
    <2> QED
        BY <1>1, <2>1
<1>3. ASSUME q - s <= -1 PROVE FALSE
    <2>1. n * (q - s) <= -n
        BY <1>3
    <2> QED
        BY <1>1, <2>1
<1>4. q = s
    BY <1>2, <1>3
<1> QED
    BY <1>4

LEMMA DivBound ==
    ASSUME NEW n \in Nat \ {0}, NEW j \in Nat, NEW a \in Nat, a < j * n
    PROVE  a \div n < j
<1> DEFINE q == a \div n
<1>1. a = n * q + (a % n) /\ a % n \in 0 .. n - 1 /\ q \in Nat
    BY DivMod
<1> HIDE DEF q
<1>2. ASSUME q >= j PROVE FALSE
    <2>1. q = j + (q - j) /\ q - j \in Nat
        BY <1>1, <1>2
    <2>2. n * q = n * j + n * (q - j) /\ n * (q - j) >= 0
        BY <1>1, <2>1
    <2> QED
        BY <1>1, <2>2
<1>3. q < j
    BY <1>1, <1>2
<1> QED
    BY <1>3 DEF q

LEMMA PlanFacts ==
    ASSUME jobs \in Nat \ {0}
    PROVE  /\ Plan \in Seq(Resources) /\ Len(Plan) \in Nat
           /\ Resources = {Plan[i] : i \in 1 .. Len(Plan)}
<1> DEFINE n == NumServices + 1
           size == jobs * n
           At(i) == <<(i - 1) \div n, (i - 1) % n>>
<1>1. n \in Nat \ {0} /\ n - 1 = NumServices
    BY SizesAssumption
<1>2. size \in Nat
    BY <1>1
<1>3. ASSUME NEW i \in 1 .. size PROVE At(i) \in Resources
    <2>1. i - 1 \in Nat /\ i - 1 < jobs * n
        BY <1>2
    <2> DEFINE q == (i - 1) \div n
               r == (i - 1) % n
    <2> HIDE DEF n
    <2>2. q \in Nat /\ r \in 0 .. n - 1 /\ q < jobs
        BY <1>1, <2>1, DivMod, DivBound
    <2> HIDE DEF q, r
    <2>3. q \in 0 .. jobs - 1 /\ r \in 0 .. NumServices
        BY <1>1, <2>2
    <2> QED
        BY <2>3 DEF Resources, Slots, q, r
<1>4. Plan = [i \in 1 .. size |-> At(i)]
    BY DEF Plan
<1>5. ASSUME NEW s \in Slots, NEW k \in 0 .. NumServices
      PROVE  \E i \in 1 .. size : At(i) = <<s, k>>
    <2> DEFINE a == n * s + k
    <2>1. s \in Nat /\ s <= jobs - 1 /\ k \in 0 .. n - 1
        BY <1>1 DEF Slots
    <2> HIDE DEF n
    <2>2. n * s <= n * (jobs - 1)
        <3>1. jobs - 1 - s \in Nat /\ jobs - 1 = s + (jobs - 1 - s)
            BY <2>1
        <3>2. n * (jobs - 1 - s) >= 0
            BY <1>1, <3>1
        <3> QED
            BY <1>1, <2>1, <3>2
    <2>3. n * (jobs - 1) = jobs * n - n
        BY <1>1
    <2>4. a \in Nat /\ a < jobs * n
        BY <1>1, <2>1, <2>2, <2>3
    <2>5. a = n * (a \div n) + (a % n) /\ a % n \in 0 .. n - 1 /\ a \div n \in Nat
        BY <1>1, <2>4, DivMod
    <2>6. a \div n = s /\ a % n = k
        BY <1>1, <2>1, <2>5, DivUnique
    <2>7. a + 1 \in 1 .. size /\ (a + 1) - 1 = a
        BY <1>2, <2>4
    <2> HIDE DEF a
    <2> QED
        BY <2>6, <2>7
<1> HIDE DEF At, size
<1>6. Plan \in Seq(Resources) /\ Len(Plan) = size
    BY <1>2, <1>3, <1>4
<1>7. Resources \subseteq {Plan[i] : i \in 1 .. size}
    BY <1>4, <1>5 DEF Resources
<1>8. {Plan[i] : i \in 1 .. size} \subseteq Resources
    BY <1>3, <1>4
<1> QED
    BY <1>2, <1>6, <1>7, <1>8

-----------------------------------------------------------------------------
(***************************************************************************)
(* The lifecycle: what is known at each of its stages.                     *)
(***************************************************************************)
Preparing == {"starting", "waiting", "readiness", "captures", "mocks", "executing"}

\* Only the containers of an earlier run can be there before this one.
NothingEarlier == runtime # "containers" => earlier = {}

\* start_containers has made the first `made` resources of the plan; a container
\* that it made is not one of an earlier run.
WhileStarting ==
    stage \in {"starting", "waiting"} =>
        /\ ~invoked
        /\ exists = earlier \cup {Plan[i] : i \in 1 .. made}
        /\ runtime # "containers" => made = 0

OwnContainers == \A i \in 1 .. made : Plan[i] \in earlier => Plan[i] \in Networks

\* From the readiness checks to the end of the units nothing is missing.
WhileUp ==
    stage \in {"readiness", "captures", "mocks", "executing"} =>
        /\ exists = Wanted /\ earlier \subseteq Networks

\* The session of a runtime that came up knows all of it until it is finished.
SessionKnows ==
    invoked /\ runtime = "containers"
            /\ stage \in Preparing \cup {"collect", "shutdown"} => known = Plan

ReadyBeforeUnits ==
    /\ stage \in {"captures", "mocks", "executing"} => ready = Slots
    /\ verdict = "passed" => ready = Slots

MocksBeforeUnits ==
    /\ stage \in Preparing => mocks \subseteq (IF withMock THEN Slots ELSE {})
    /\ stage = "executing" => mocks = (IF withMock THEN Slots ELSE {})

\* Units that ended with a report ran in an environment that is still there.
AfterUnits ==
    /\ stage \in Preparing => verdict = "none"
    /\ stage \in {"collect", "shutdown"} /\ verdict # "error" => exists = Wanted

NothingStuckYet == stage \in Preparing \cup {"collect", "shutdown"} => stuck = {}

LogsFirst ==
    invoked /\ stage \in {"shutdown", "removing", "finalize", "report"} => Len(logs) = jobs

\* What is left to be removed is known to the session.
WhileRemoving ==
    stage = "removing" =>
        /\ Cleanup /\ invoked
        /\ runtime = "containers" => exists \subseteq stuck \cup ToSet(known)

ExitAtTheEnd ==
    /\ stage # "exited" => exit = "none"
    /\ verdict = "passed" /\ stage = "exited" /\ invoked => Len(logs) = jobs

LifecycleInv ==
    /\ NothingEarlier /\ WhileStarting /\ OwnContainers /\ WhileUp /\ SessionKnows
    /\ ReadyBeforeUnits /\ MocksBeforeUnits /\ AfterUnits /\ NothingStuckYet /\ LogsFirst
    /\ WhileRemoving /\ PolicyKept /\ ExitAtTheEnd /\ ExitFaithful

-----------------------------------------------------------------------------
(***************************************************************************)
(* Types.                                                                  *)
(***************************************************************************)

LEMMA InitType == Init => TypeOK
<1> SUFFICES ASSUME Init PROVE TypeOK
    OBVIOUS
<1>1. earlier \subseteq Resources
    BY DEF Init, Leftovers
<1>2. jobs \in Nat \ {0}
    BY SizesAssumption DEF Init
<1>3. poll \in Checks
    BY DEF Init, Idle, Checks, Places, Kinds
<1>4. made \in 0 .. Len(Plan)
    BY <1>2, PlanFacts DEF Init
<1>5. /\ jobs \in 1 .. MaxJobs /\ command \in Commands /\ policy \in Policies
      /\ runtime \in {"containers", "docker_compose", "none"} /\ withMock \in BOOLEAN
    BY DEF Init
<1>6. /\ exists \subseteq Resources /\ stuck \subseteq Resources /\ known \in Seq(Resources)
      /\ {ready, monitors, mocks} \subseteq SUBSET Slots
    BY <1>1 DEF Init
<1>7. logs \in Seq(Outcomes) /\ Len(logs) <= jobs
    BY <1>2 DEF Init
<1>8. invoked \in BOOLEAN /\ verdict \in Verdicts /\ stage \in Stages /\ exit \in {"none", "0", "1"}
    BY DEF Init, Verdicts, Stages
<1> QED
    BY <1>1, <1>3, <1>4, <1>5, <1>6, <1>7, <1>8 DEF TypeOK

\* What was requested of the session stays as it is, and what follows from it.
LEMMA ConfigStays ==
    ASSUME [Next]_vars
    PROVE  /\ UNCHANGED config
           /\ Slots' = Slots /\ Resources' = Resources /\ Plan' = Plan
           /\ Networks' = Networks /\ Wanted' = Wanted
<1>1. UNCHANGED config
    BY DEF Next, WaitFor, BeginCheck, CheckReadiness, CheckFails, CreateFails, StartNext, Start,
           Started, ComposeUp, NoRuntime, StartCaptures, StartLiveLogs, StartMock, BeginExecution,
           Execute, CollectSlot, CollectLogs, EndCollection, Shutdown, RemoveNext, RemoveLast,
           Removed, RemoveNothing, ComposeDown, Finalize, Report, Exit, vars, runVars
<1> QED
    BY <1>1 DEF config, Slots, Resources, Plan, Networks, Wanted

LEMMA NextType == TypeOK /\ PollInv /\ [Next]_vars => TypeOK'
<1> SUFFICES ASSUME TypeOK, PollInv, [Next]_vars PROVE TypeOK'
    OBVIOUS
<1> DEFINE Config == /\ jobs \in 1 .. MaxJobs /\ command \in Commands
                     /\ runtime \in {"containers", "docker_compose", "none"} /\ policy \in Policies
                     /\ withMock \in BOOLEAN /\ earlier \subseteq Resources
           Rest == /\ exists \subseteq Resources /\ stuck \subseteq Resources
                   /\ made \in 0 .. Len(Plan)
                   /\ known \in Seq(Resources)
                   /\ invoked \in BOOLEAN
                   /\ {ready, monitors, mocks} \subseteq SUBSET Slots
                   /\ logs \in Seq(Outcomes) /\ Len(logs) <= jobs
                   /\ verdict \in Verdicts
                   /\ stage \in Stages
                   /\ exit \in {"none", "0", "1"}
<1>1. Config'
    BY ConfigStays DEF TypeOK, config
<1>2. poll' \in Checks
    BY PollKeeps DEF PollInv
<1>3. Rest'
    <2>0. Rest /\ UNCHANGED config /\ jobs' = jobs /\ Slots' = Slots /\ Resources' = Resources
          /\ Plan' = Plan /\ Plan \in Seq(Resources) /\ Len(Plan) \in Nat
        BY ConfigStays, PlanFacts, SizesAssumption DEF TypeOK, config
    <2> USE DEF Fail, Verdicts, Stages
    <2>1. CASE WaitFor \/ BeginCheck \/ CheckFails \/ CreateFails
        BY <2>0, <2>1 DEF WaitFor, BeginCheck, CheckFails, CreateFails
    <2>2. CASE CheckReadiness
        BY <2>0, <2>2 DEF CheckReadiness
    <2>3. CASE StartNext
        BY <2>0, <2>3 DEF StartNext, Start
    <2>4. CASE Started \/ ComposeUp \/ NoRuntime
        BY <2>0, <2>4 DEF Started, ComposeUp, NoRuntime
    <2>5. CASE StartCaptures \/ StartLiveLogs \/ StartMock \/ BeginExecution
        BY <2>0, <2>5 DEF StartCaptures, StartLiveLogs, StartMock, BeginExecution
    <2>6. CASE Execute
        BY <2>0, <2>6 DEF Execute
    <2>7. CASE CollectSlot
        BY <2>0, <2>7 DEF CollectSlot, TypeOK
    <2>8. CASE CollectLogs \/ Shutdown \/ Removed \/ RemoveNothing \/ ComposeDown
        BY <2>0, <2>8 DEF CollectLogs, EndCollection, Shutdown, Removed, RemoveNothing, ComposeDown
    <2>9. CASE RemoveNext
        <3>1. Last(known) \in Resources /\ Front(known) \in Seq(Resources)
            BY <2>0, <2>9 DEF RemoveNext, RemoveLast, Last, Front
        <3> QED
            BY <2>0, <2>9, <3>1 DEF RemoveNext, RemoveLast
    <2>10. CASE Finalize \/ Report
        BY <2>0, <2>10 DEF Finalize, Report, Exit
    <2>11. CASE UNCHANGED runVars
        BY <2>0, <2>11 DEF runVars
    <2> QED
        BY <2>1, <2>2, <2>3, <2>4, <2>5, <2>6, <2>7, <2>8, <2>9, <2>10, <2>11 DEF Next, vars
<1> QED
    BY <1>1, <1>2, <1>3 DEF TypeOK

-----------------------------------------------------------------------------
(***************************************************************************)
(* One step of each action.                                                *)
(***************************************************************************)

LEMMA InitLifecycle == Init => LifecycleInv
<1> SUFFICES ASSUME Init PROVE LifecycleInv
    OBVIOUS
<1>1. NothingEarlier /\ WhileStarting /\ OwnContainers
    BY DEF Init, NothingEarlier, WhileStarting, OwnContainers
<1>2. /\ WhileUp /\ SessionKnows /\ ReadyBeforeUnits /\ MocksBeforeUnits /\ AfterUnits
      /\ NothingStuckYet /\ LogsFirst /\ WhileRemoving /\ PolicyKept /\ ExitAtTheEnd
      /\ ExitFaithful
    BY DEF Init, Preparing, WhileUp, SessionKnows, ReadyBeforeUnits, MocksBeforeUnits,
           AfterUnits, NothingStuckYet, LogsFirst, WhileRemoving, PolicyKept, ExitAtTheEnd,
           ExitFaithful
<1> QED
    BY <1>1, <1>2 DEF LifecycleInv

\* What is on a sequence is its last element and what is before it.
LEMMA ToSetFront ==
    ASSUME NEW S, NEW s \in Seq(S), s # <<>>
    PROVE  ToSet(s) = ToSet(Front(s)) \cup {Last(s)}
<1>1. Len(s) \in Nat \ {0} /\ DOMAIN s = 1 .. Len(s)
    OBVIOUS
<1>2. Front(s) \in Seq(S) /\ Len(Front(s)) = Len(s) - 1 /\ Last(s) = s[Len(s)]
      /\ \A i \in 1 .. Len(s) - 1 : Front(s)[i] = s[i]
    BY <1>1 DEF Front, Last
<1>3. DOMAIN Front(s) = 1 .. Len(s) - 1
    BY <1>2
<1>4. \A n \in Nat \ {0} : 1 .. n = (1 .. n - 1) \cup {n}
    OBVIOUS
<1>5. 1 .. Len(s) = (1 .. Len(s) - 1) \cup {Len(s)}
    BY <1>1, <1>4
<1> QED
    BY <1>1, <1>2, <1>3, <1>4, <1>5 DEF ToSet

LEMMA NextLifecycle ==
    ASSUME TypeOK, LifecycleInv, [Next]_vars
    PROVE  LifecycleInv'
<1>0. /\ UNCHANGED config /\ UNCHANGED <<jobs, command, runtime, policy, withMock, earlier>>
      /\ Slots' = Slots /\ Resources' = Resources
      /\ Plan' = Plan /\ Networks' = Networks /\ Wanted' = Wanted
      /\ Plan \in Seq(Resources) /\ Len(Plan) \in Nat
      /\ Resources = {Plan[i] : i \in 1 .. Len(Plan)}
    BY ConfigStays, PlanFacts, SizesAssumption DEF TypeOK, config
<1> USE DEF NothingEarlier, WhileStarting, OwnContainers, WhileUp, SessionKnows,
            ReadyBeforeUnits, MocksBeforeUnits, AfterUnits, NothingStuckYet, LogsFirst,
            WhileRemoving, PolicyKept, ExitAtTheEnd, ExitFaithful, Preparing, Fail, Cleanup
<1>1. CASE WaitFor
    BY <1>0, <1>1 DEF WaitFor, LifecycleInv
<1>2. CASE BeginCheck
    BY <1>0, <1>2 DEF BeginCheck, LifecycleInv
<1>3. CASE CheckReadiness
    BY <1>0, <1>3 DEF CheckReadiness, LifecycleInv
<1>4. CASE CheckFails
    BY <1>0, <1>4 DEF CheckFails, LifecycleInv
<1>5. CASE CreateFails
    BY <1>0, <1>5 DEF CreateFails, LifecycleInv
<1>6. CASE StartNext
    <2>1. /\ stage = "starting" /\ runtime = "containers" /\ made < Len(Plan)
          /\ Plan[made + 1] \in exists => Plan[made + 1] \in Networks
          /\ exists' = exists \cup {Plan[made + 1]} /\ made' = made + 1
          /\ stage' \in {"starting", "waiting"}
          /\ UNCHANGED <<known, invoked, ready, monitors, mocks, logs, stuck, verdict, exit>>
        BY <1>6 DEF StartNext, Start
    <2>2. made \in Nat
        BY <1>0 DEF TypeOK
    <2>3. 1 .. made + 1 = (1 .. made) \cup {made + 1}
        BY <2>2
    <2>4. OwnContainers'
        BY <1>0, <2>1, <2>2, <2>3 DEF LifecycleInv
    <2>5. WhileStarting'
        BY <1>0, <2>1, <2>2, <2>3 DEF LifecycleInv
    <2> QED
        BY <1>0, <2>1, <2>4, <2>5 DEF LifecycleInv
<1>7. CASE Started
    <2>1. /\ exists = earlier \cup Resources /\ runtime = "containers"
          /\ earlier \subseteq Resources /\ made = Len(Plan)
        BY <1>0, <1>7 DEF Started, LifecycleInv, TypeOK
    <2>2. exists = Wanted
        BY <2>1 DEF Wanted
    <2>3. earlier \subseteq Networks
        BY <1>0, <2>1 DEF LifecycleInv
    <2> QED
        BY <1>0, <1>7, <2>2, <2>3 DEF Started, LifecycleInv
<1>8. CASE ComposeUp
    <2>1. earlier = {} /\ Wanted = Resources
        BY <1>8 DEF ComposeUp, LifecycleInv, Wanted
    <2> QED
        BY <1>0, <1>8, <2>1 DEF ComposeUp, LifecycleInv
<1>9. CASE NoRuntime
    <2>1. earlier = {} /\ Wanted = {} /\ exists = {}
        BY <1>9 DEF NoRuntime, LifecycleInv, Wanted
    <2> QED
        BY <1>0, <1>9, <2>1 DEF NoRuntime, LifecycleInv
<1>10. CASE StartCaptures
    BY <1>0, <1>10 DEF StartCaptures, LifecycleInv
<1>11. CASE StartLiveLogs
    BY <1>0, <1>11 DEF StartLiveLogs, LifecycleInv
<1>12. CASE StartMock
    BY <1>0, <1>12 DEF StartMock, LifecycleInv
<1>13. CASE BeginExecution
    BY <1>0, <1>13 DEF BeginExecution, LifecycleInv
<1>14. CASE Execute
    BY <1>0, <1>14 DEF Execute, LifecycleInv
<1>15. CASE CollectSlot
    BY <1>0, <1>15 DEF CollectSlot, LifecycleInv
<1>16. CASE CollectLogs
    BY <1>0, <1>16 DEF CollectLogs, EndCollection, LifecycleInv
<1>17. CASE Shutdown
    <2>1. Resources = ToSet(Plan)
        BY <1>0 DEF ToSet
    <2>2. exists \subseteq Resources
        BY DEF TypeOK
    <2>3. CASE Cleanup /\ invoked
        <3>1. stage' = "removing" /\ Cleanup' /\ invoked'
            BY <1>0, <1>17, <2>3 DEF Shutdown
        <3>2. runtime = "containers" => known = Plan
            BY <1>17, <2>3 DEF Shutdown, LifecycleInv
        <3>3. WhileRemoving'
            BY <1>0, <1>17, <2>1, <2>2, <3>1, <3>2 DEF Shutdown
        <3> QED
            BY <1>0, <1>17, <3>1, <3>3 DEF Shutdown, LifecycleInv
    <2>4. CASE ~ (Cleanup /\ invoked)
        <3>1. stage' = "finalize" /\ stage = "shutdown"
            BY <1>17, <2>4 DEF Shutdown
        <3>2. PolicyKept'
            BY <1>0, <1>17, <2>4 DEF Shutdown, LifecycleInv
        <3> QED
            BY <1>0, <1>17, <3>1, <3>2 DEF Shutdown, LifecycleInv
    <2> QED
        BY <2>3, <2>4
<1>18. CASE RemoveNext
    <2>1. /\ stage = "removing" /\ stage' = stage /\ runtime = "containers" /\ known # <<>>
          /\ known' = Front(known)
          /\ UNCHANGED <<made, invoked, ready, monitors, mocks, logs, verdict, exit>>
          /\ \/ exists' = exists \ {Last(known)} /\ stuck' = stuck
             \/ stuck' = stuck \cup {Last(known)} /\ exists' = exists
        BY <1>18 DEF RemoveNext, RemoveLast
    <2>2. ToSet(known) = ToSet(Front(known)) \cup {Last(known)}
        BY <2>1, ToSetFront DEF TypeOK
    <2>3. WhileRemoving'
        BY <1>0, <2>1, <2>2 DEF LifecycleInv
    <2> QED
        BY <1>0, <2>1, <2>3 DEF LifecycleInv
<1>19. CASE Removed
    <2>1. ToSet(known) = {}
        BY <1>19 DEF Removed, ToSet
    <2>2. exists \subseteq stuck /\ Cleanup
        BY <1>19, <2>1 DEF Removed, LifecycleInv
    <2> QED
        BY <1>0, <1>19, <2>2 DEF Removed, LifecycleInv
<1>20. CASE RemoveNothing
    BY <1>0, <1>20 DEF RemoveNothing, LifecycleInv
<1>21. CASE ComposeDown
    BY <1>0, <1>21 DEF ComposeDown, LifecycleInv
<1>22. CASE Finalize
    BY <1>0, <1>22 DEF Finalize, LifecycleInv
<1>23. CASE Report
    BY <1>0, <1>23 DEF Report, Exit, LifecycleInv
<1>24. CASE UNCHANGED runVars
    BY <1>0, <1>24 DEF runVars, LifecycleInv
<1> QED
    BY <1>1, <1>2, <1>3, <1>4, <1>5, <1>6, <1>7, <1>8, <1>9, <1>10, <1>11, <1>12, <1>13, <1>14,
       <1>15, <1>16, <1>17, <1>18, <1>19, <1>20, <1>21, <1>22, <1>23, <1>24 DEF Next, vars

-----------------------------------------------------------------------------
(***************************************************************************)
(* What holds of every run.                                                *)
(***************************************************************************)

LEMMA LifecycleInvariant == Spec => [](TypeOK /\ PollInv /\ LifecycleInv)
<1>1. Init => PollInv
    BY DEF Init, PollInv, Idle, Checks, Places, Kinds, DuringAttempt, DuringSleep, DuringLog,
           GivesUpForAReason
<1>2. Init => TypeOK /\ PollInv /\ LifecycleInv
    BY <1>1, InitType, InitLifecycle
<1>3. TypeOK /\ PollInv /\ LifecycleInv /\ [Next]_vars => (TypeOK /\ PollInv /\ LifecycleInv)'
    BY NextType, PollKeeps, NextLifecycle
<1> QED
    BY <1>2, <1>3, PTL DEF Spec

\* The session, what exists in Docker and the check under way have their types in
\* every state of every run.
THEOREM LifecycleTypeCorrect == Spec => []TypeOK
BY LifecycleInvariant, PTL

\* Whatever the timeout, the interval and the target are: a check that gives up
\* has used its time and no more than one interval and one slow attempt beyond it,
\* and did not overlook a target that came up in time and stayed up.
THEOREM ChecksGiveUpForAReason == Spec => []GivesUpForAReason
<1>1. PollInv => GivesUpForAReason
    BY DEF PollInv
<1> QED
    BY <1>1, LifecycleInvariant, PTL

\* However many slots and services there are, the units run only while all of it
\* is there, ready, and not of an earlier run.
THEOREM UnitsHaveTheirEnvironment == Spec => []UnitsNeedEnvironment
<1>1. LifecycleInv => UnitsNeedEnvironment
    BY DEF LifecycleInv, WhileUp, ReadyBeforeUnits, MocksBeforeUnits, UnitsNeedEnvironment
<1> QED
    BY <1>1, LifecycleInvariant, PTL

\* finish() leaves of a runtime that it shut down what the policy says, and what
\* Docker would not remove.
THEOREM PolicyIsKept == Spec => []PolicyKept
<1>1. LifecycleInv => PolicyKept
    BY DEF LifecycleInv
<1> QED
    BY <1>1, LifecycleInvariant, PTL

\* Exit code 0 is one of a run that passed in an environment that came up whole,
\* and whose logs were collected.
THEOREM ExitIsFaithful == Spec => []ExitFaithful
<1>1. LifecycleInv => ExitFaithful
    BY DEF LifecycleInv
<1> QED
    BY <1>1, LifecycleInvariant, PTL

\* No step removes a container or network before the logs of every slot were
\* collected, or tried to.
THEOREM LogsComeBeforeTeardown == Spec => LogsBeforeTeardown
<1> DEFINE Removes == exists' \subseteq exists /\ exists' # exists
<1>1. ASSUME TypeOK, LifecycleInv, [Next]_vars
      PROVE  [Removes => Len(logs) = jobs]_vars
    <2> SUFFICES ASSUME Next, Removes PROVE Len(logs) = jobs
        BY <1>1
    <2>1. CASE RemoveNext \/ ComposeDown
        BY <1>1, <2>1 DEF RemoveNext, RemoveLast, ComposeDown, LifecycleInv, LogsFirst,
                          WhileRemoving
    <2>2. CASE StartNext
        BY <2>2 DEF StartNext, Start
    <2>3. CASE ComposeUp
        <3>1. exists = {}
            <4>1. stage = "starting" /\ runtime = "docker_compose"
                BY <2>3 DEF ComposeUp
            <4>2. earlier = {} /\ made = 0
                BY <1>1, <4>1 DEF LifecycleInv, NothingEarlier, WhileStarting
            <4>3. exists = {Plan[i] : i \in 1 .. made}
                BY <1>1, <4>1, <4>2 DEF LifecycleInv, WhileStarting
            <4> QED
                BY <4>2, <4>3
        <3> QED
            BY <3>1
    <2>4. CASE ~ (RemoveNext \/ ComposeDown \/ StartNext \/ ComposeUp)
        BY <2>4 DEF Next, runVars, WaitFor, BeginCheck, CheckReadiness, CheckFails, CreateFails,
                    Started, NoRuntime, StartCaptures, StartLiveLogs, StartMock, BeginExecution,
                    Execute, CollectSlot, CollectLogs, EndCollection, Shutdown, Removed,
                    RemoveNothing, Finalize, Report, Exit
    <2> QED
        BY <2>1, <2>2, <2>3, <2>4
<1> QED
    BY <1>1, LifecycleInvariant, PTL DEF Spec, LogsBeforeTeardown
=============================================================================
