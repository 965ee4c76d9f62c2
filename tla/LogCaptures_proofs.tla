------------------------- MODULE LogCaptures_proofs -------------------------
(***************************************************************************)
(* For every number of slots, of entries and of lines: every capture has   *)
(* one report, and a true one; no task but a lost one is left when         *)
(* finish() returns; and what an output keeps has no gaps.                 *)
(***************************************************************************)
EXTENDS LogCaptures, FiniteSetTheorems, SequenceTheorems, TLAPS

\* The captures that start_active_logs is through with.
Begun ==
    IF stage = "resolve" THEN {}
    ELSE IF stage \in {"truncate", "exec"} THEN 1 .. (turn - 1) ELSE Captures

\* The captures whose tasks have still to be joined.
First == IF stage \in {"stop", "aborting"} THEN turn ELSE 1
Pending == {owned[i] : i \in First .. Len(owned)}

TurnIsCapture == stage \in {"truncate", "exec"} => turn \in Captures
OwnedOnce == \A i, j \in DOMAIN owned : owned[i] = owned[j] => i = j
OwnedAtFirst ==
    /\ stage = "resolve" => owned = <<>> /\ reports = <<>>
    /\ stage \in {"stop live", "over"} => owned = <<>>

\* A task that runs is one that is going to be joined; what was not begun has
\* no task.
TasksOwned ==
    /\ Pending \subseteq Begun
    /\ \A c \in Captures :
        /\ capture[c] \in Running => c \in Pending
        /\ c \in Pending => capture[c] # "none"
        /\ c \notin Begun => capture[c] = "none"

\* An error of the specs is reported once for all.
OneForAll ==
    /\ stage \notin {"resolve", "truncate", "exec"}
    /\ owned = <<>> /\ \A c \in Captures : capture[c] = "none"
    /\ Len(reports) = 1 /\ reports[1].capture = 0

\* Otherwise each capture that was begun has a task to be joined or a report.
Accounted ==
    /\ \A i \in DOMAIN reports : reports[i].capture \in Begun
    /\ \A c \in Begun :
        IF c \in Pending THEN ReportsOf(c) = {} ELSE \E i \in DOMAIN reports : ReportsOf(c) = {i}

LiveKnown ==
    /\ stage = "over" => liveOwned = {}
    /\ \A l \in Live : live[l] = "streaming" => stage = "live" \/ l \in liveOwned \cup lost
    /\ stage \in {"resolve", "truncate", "exec"} => \A l \in Live : live[l] = "none"

\* A line is written by a task that was started.
LinesOfTasks == \A c \in Captures : capture[c] = "none" => lines[c] = 0

AccountInv ==
    /\ TurnIsCapture /\ OwnedOnce /\ OwnedAtFirst /\ TasksOwned
    /\ OneForAll \/ Accounted
    /\ CaptureReportsFaithful

FilesInv == LinesOfTasks /\ CapturesKept

CapturesInv == TypeOK /\ AccountInv /\ LiveKnown /\ FilesInv

-----------------------------------------------------------------------------
(***************************************************************************)
(* Captures by slot and entry.                                             *)
(***************************************************************************)

LEMMA DivMod ==
    ASSUME NEW a \in Nat, NEW n \in Nat \ {0}
    PROVE  a = n * (a \div n) + (a % n) /\ a % n \in 0 .. n - 1 /\ a \div n \in Nat
OBVIOUS

LEMMA DivBound ==
    ASSUME NEW a \in Nat, NEW n \in Nat \ {0}, NEW j \in Nat, a < j * n
    PROVE  a \div n < j
<1> DEFINE q == a \div n
<1>1. a = n * q + (a % n) /\ a % n \in 0 .. n - 1 /\ q \in Nat
    BY DivMod
<1> HIDE DEF q
<1>2. ASSUME q >= j PROVE FALSE
    <2>1. q = j + (q - j) /\ q - j \in Nat
        BY <1>1, <1>2
    <2>2. n * q = n * j + n * (q - j) /\ n * (q - j) >= 0
        BY <1>1, <2>1
    <2> QED
        BY <1>1, <2>2
<1>3. q < j
    BY <1>1, <1>2
<1> QED
    BY <1>3 DEF q

\* The captures of the run are among those of the largest one.
LEMMA Counts ==
    ASSUME NEW n \in Nat, slots \in 1 .. MaxSlots
    PROVE  slots * n \in Nat /\ MaxSlots * n \in Nat /\ slots * n <= MaxSlots * n
<1>1. slots \in Nat /\ MaxSlots \in Nat /\ MaxSlots - slots \in Nat
    BY CountsAssumption
<1>2. (MaxSlots - slots) * n >= 0
    BY <1>1
<1>3. MaxSlots * n = slots * n + (MaxSlots - slots) * n
    BY <1>1
<1> QED
    BY <1>1, <1>2, <1>3

LEMMA Sizes ==
    ASSUME slots \in 1 .. MaxSlots
    PROVE  /\ slots * NumMonitors \in Nat /\ Captures = 1 .. slots * NumMonitors
           /\ Captures \subseteq AllCaptures /\ Captures \subseteq Nat \ {0}
           /\ slots * NumLive \in Nat /\ Live = 1 .. slots * NumLive
           /\ Live \subseteq AllLive
<1>1. NumMonitors \in Nat /\ NumLive \in Nat
    BY CountsAssumption
<1>2. /\ slots * NumMonitors \in Nat /\ MaxSlots * NumMonitors \in Nat
      /\ slots * NumMonitors <= MaxSlots * NumMonitors
    BY <1>1, Counts
<1>3. /\ slots * NumLive \in Nat /\ MaxSlots * NumLive \in Nat
      /\ slots * NumLive <= MaxSlots * NumLive
    BY <1>1, Counts
<1> QED
    BY <1>2, <1>3 DEF Captures, AllCaptures, Live, AllLive

LEMMA Places ==
    ASSUME slots \in 1 .. MaxSlots, NEW c \in Captures
    PROVE  /\ NumMonitors \in Nat \ {0} /\ SlotOf(c) \in 0 .. slots - 1
           /\ Output(c) \in Outputs
           /\ c - 1 = NumMonitors * SlotOf(c) + (Output(c) - 1)
<1> DEFINE n == NumMonitors
<1>1. n \in Nat /\ slots \in Nat /\ slots * n \in Nat /\ c \in 1 .. slots * n
    BY CountsAssumption, Sizes
<1>2. n # 0
    BY <1>1
<1>3. c - 1 \in Nat /\ c - 1 < slots * n
    BY <1>1
<1>4. /\ c - 1 = n * ((c - 1) \div n) + ((c - 1) % n) /\ (c - 1) % n \in 0 .. n - 1
      /\ (c - 1) \div n \in Nat
    BY <1>1, <1>2, <1>3, DivMod
<1>5. (c - 1) \div n < slots
    BY <1>1, <1>2, <1>3, DivBound
<1> QED
    BY <1>1, <1>2, <1>4, <1>5 DEF SlotOf, Output, Outputs

\* The last slot is the last to write to an output.
LEMMA LastSlot ==
    ASSUME slots \in 1 .. MaxSlots, NEW c \in Captures, NEW d \in Captures, c < d,
           Output(c) = Output(d)
    PROVE  SlotOf(c) # slots - 1
<1> DEFINE n == NumMonitors
           p == SlotOf(c)
           q == SlotOf(d)
<1>1. /\ n \in Nat \ {0} /\ slots \in Nat /\ p \in 0 .. slots - 1 /\ q \in 0 .. slots - 1
      /\ Output(c) \in Nat /\ c \in Nat /\ d \in Nat
      /\ c - 1 = n * p + (Output(c) - 1) /\ d - 1 = n * q + (Output(c) - 1)
    BY Places, Sizes DEF Outputs
<1> HIDE DEF n, p, q
<1>2. n * (q - p) = d - c
    BY <1>1
<1>3. ASSUME q <= p PROVE FALSE
    <2>1. p - q \in Nat /\ n * (p - q) >= 0 /\ n * (q - p) = -(n * (p - q))
        BY <1>1, <1>3
    <2> QED
        BY <1>1, <1>2, <2>1
<1>4. p < q
    BY <1>1, <1>3
<1> QED
    BY <1>1, <1>4 DEF p

LEMMA ReportTyped ==
    ASSUME slots \in 1 .. MaxSlots, NEW c \in Captures, NEW status \in {"passed", "failed"}
    PROVE  Report(c, status) \in [capture : Captures \cup {0}, slot : 0 .. slots - 1,
                                   status : {"passed", "failed"}]
BY Places DEF Report

-----------------------------------------------------------------------------
(***************************************************************************)
(* Types.                                                                  *)
(***************************************************************************)

LEMMA FunctionIsSeq ==
    ASSUME NEW S, NEW n \in Nat, NEW f \in [1 .. n -> S]
    PROVE  f \in Seq(S) /\ Len(f) = n
BY SeqDef

LEMMA InitType == Init => TypeOK
<1> SUFFICES ASSUME Init PROVE TypeOK
    OBVIOUS
<1>1. /\ slots \in 1 .. MaxSlots /\ follow \in BOOLEAN
      /\ stage \in Stages /\ turn \in Nat \ {0}
    BY DEF Init, Stages
<1>2. /\ capture \in [AllCaptures -> Running \cup {"none", "ended", "error", "cancelled"}]
      /\ live \in [AllLive -> {"none", "streaming", "ended"}]
    BY DEF Init
<1>3. owned = <<>> /\ reports = <<>> /\ liveOwned = {} /\ lost = {} /\ aborted = {}
    BY DEF Init
<1>4. lines \in [AllCaptures -> 0 .. MaxLines]
    BY CountsAssumption DEF Init
<1>5. file \in [Outputs -> SUBSET (AllCaptures \X (1 .. MaxLines))]
    BY DEF Init
<1> QED
    BY <1>1, <1>2, <1>3, <1>4, <1>5 DEF TypeOK

LEMMA NextType ==
    ASSUME TypeOK, TurnIsCapture, [Next]_vars
    PROVE  TypeOK'
<1> DEFINE ReportSeq == Seq([capture : Captures \cup {0}, slot : 0 .. slots - 1,
                            status : {"passed", "failed"}])
<1>0. /\ slots \in 1 .. MaxSlots /\ reports \in ReportSeq /\ turn \in Nat \ {0}
      /\ Captures \subseteq AllCaptures /\ Captures \subseteq Nat \ {0} /\ Live \subseteq AllLive
    BY Sizes DEF TypeOK
<1> HIDE DEF ReportSeq
<1>1. ASSUME slots' = slots PROVE Captures' = Captures /\ Live' = Live /\ ReportSeq' = ReportSeq
    BY <1>1 DEF Captures, Live, ReportSeq
<1>2. ASSUME NEW next \in Stages, NEW n \in Nat \ {0}, Go(next, n)
      PROVE  /\ slots' = slots /\ follow' = follow /\ stage' \in Stages /\ turn' \in Nat \ {0}
    BY <1>2 DEF Go
<1>3. ASSUME NextCapture
      PROVE  /\ slots' = slots /\ follow' = follow /\ stage' \in Stages /\ turn' \in Nat \ {0}
    <2>1. turn + 1 \in Nat \ {0} /\ {"truncate", "live"} \subseteq Stages /\ 1 \in Nat \ {0}
        BY <1>0 DEF Stages
    <2>2. Go("truncate", turn + 1) \/ Go("live", 1)
        BY <1>3 DEF NextCapture
    <2> QED
        BY <1>2, <2>1, <2>2
<1>4. ASSUME NEW c \in Captures, NEW status \in {"passed", "failed"}
      PROVE  /\ Append(reports, Report(c, status)) \in ReportSeq
    BY <1>0, <1>4, ReportTyped DEF ReportSeq
<1>5. CASE ResolveCaptures
    <2>1. slots' = slots /\ follow' = follow /\ stage' \in Stages /\ turn' \in Nat \ {0}
        <3>1. CASE Go("live", 1)
            BY <3>1 DEF Go, Stages
        <3>2. CASE Go(IF Captures = {} THEN "live" ELSE "truncate", 1)
            <4>1. CASE Captures = {}
                BY <3>2, <4>1 DEF Go, Stages
            <4>2. CASE Captures # {}
                BY <3>2, <4>2 DEF Go, Stages
            <4> QED
                BY <4>1, <4>2
        <3> QED
            BY <1>5, <3>1, <3>2 DEF ResolveCaptures
    <2>2. reports' \in ReportSeq
        <3>1. CASE reports' = <<[capture |-> 0, slot |-> 0, status |-> "failed"]>>
            <4>1. 0 \in 0 .. slots - 1
                BY <1>0, CountsAssumption
            <4> QED
                BY <3>1, <4>1 DEF ReportSeq
        <3>2. CASE reports' = [c \in Captures |-> Report(c, "failed")]
            <4>1. Captures = 1 .. slots * NumMonitors /\ slots * NumMonitors \in Nat
                BY <1>0, Sizes
            <4>2. \A c \in Captures : Report(c, "failed") \in
                    [capture : Captures \cup {0}, slot : 0 .. slots - 1, status : {"passed", "failed"}]
                BY <1>0, ReportTyped
            <4>3. reports' \in [1 .. slots * NumMonitors ->
                    [capture : Captures \cup {0}, slot : 0 .. slots - 1, status : {"passed", "failed"}]]
                BY <3>2, <4>1, <4>2
            <4> QED
                BY <4>1, <4>3, FunctionIsSeq DEF ReportSeq
        <3> QED
            BY <1>0, <1>5, <3>1, <3>2 DEF ResolveCaptures
    <2> QED
        BY <1>1, <1>5, <2>1, <2>2 DEF ResolveCaptures, liveVars, TypeOK, ReportSeq
<1>6. CASE Skip
    <2>1. reports' \in ReportSeq
        BY <1>4, <1>6 DEF Skip, TurnIsCapture
    <2> QED
        BY <1>1, <1>3, <1>6, <2>1 DEF Skip, liveVars, TypeOK, ReportSeq
<1>7. CASE Truncate
    BY <1>0, <1>1, <1>7 DEF Truncate, Go, liveVars, TypeOK, Stages
<1>8. CASE StartCapture
    <2>1. turn \in Captures
        BY <1>8 DEF StartCapture, TurnIsCapture
    <2>2. reports' \in ReportSeq
        BY <1>0, <1>4, <1>8, <2>1 DEF StartCapture
    <2>3. owned' \in Seq(Captures)
        <3>1. owned \in Seq(Captures) /\ Append(owned, turn) \in Seq(Captures)
            BY <2>1 DEF TypeOK
        <3> QED
            BY <1>8, <3>1 DEF StartCapture
    <2>4. capture' \in [AllCaptures -> Running \cup {"none", "ended", "error", "cancelled"}]
        BY <1>8 DEF StartCapture, TypeOK, Running
    <2> QED
        BY <1>1, <1>3, <1>8, <2>2, <2>3, <2>4 DEF StartCapture, liveVars, TypeOK, ReportSeq
<1>9. CASE StartLive
    <2>1. turn + 1 \in Nat \ {0} /\ "live" \in Stages
        BY <1>0 DEF Stages
    <2> QED
        BY <1>1, <1>2, <1>9, <2>1 DEF StartLive, capVars, TypeOK
<1>10. CASE LiveReady \/ LiveFails
    <2>1. {"units", "unprepared"} \subseteq Stages /\ 1 \in Nat \ {0}
        BY DEF Stages
    <2>2. slots' = slots /\ follow' = follow /\ stage' \in Stages /\ turn' \in Nat \ {0}
        BY <1>2, <1>10, <2>1 DEF LiveReady, LiveFails
    <2> QED
        BY <1>1, <1>10, <2>2 DEF LiveReady, LiveFails, capVars, TypeOK
<1>11. CASE Shutdown
    <2>1. "stop" \in Stages /\ 1 \in Nat \ {0}
        BY DEF Stages
    <2>2. slots' = slots /\ follow' = follow /\ stage' \in Stages /\ turn' \in Nat \ {0}
        BY <1>2, <1>11, <2>1 DEF Shutdown
    <2> QED
        BY <1>1, <1>11, <2>2 DEF Shutdown, capVars, liveVars, TypeOK
<1>12. CASE Join
    <2>1. owned[turn] \in Captures
        BY <1>0, <1>12 DEF Join, TypeOK
    <2>2. reports' \in ReportSeq
        BY <1>4, <1>12, <2>1 DEF Join, Verdict
    <2>3. turn + 1 \in Nat \ {0} /\ "stop" \in Stages
        BY <1>0 DEF Stages
    <2> QED
        BY <1>1, <1>2, <1>12, <2>2, <2>3 DEF Join, liveVars, TypeOK, ReportSeq
<1>13. CASE Timeout
    <2>1. owned[turn] \in Captures /\ "aborting" \in Stages
        BY <1>0, <1>13 DEF Timeout, TypeOK, Stages
    <2> QED
        BY <1>0, <1>1, <1>2, <1>13, <2>1 DEF Timeout, liveVars, TypeOK
<1>14. CASE CapturesStopped \/ StopLive
    <2>1. {"stop live", "over"} \subseteq Stages /\ 1 \in Nat \ {0}
        BY DEF Stages
    <2>2. slots' = slots /\ follow' = follow /\ stage' \in Stages /\ turn' \in Nat \ {0}
        BY <1>2, <1>14, <2>1 DEF CapturesStopped, StopLive
    <2>3. liveOwned' \subseteq Live /\ (owned' = <<>> \/ owned' = owned)
        BY <1>14 DEF CapturesStopped, StopLive, capVars, liveVars, TypeOK
    <2>5. owned' \in Seq(Captures)
        <3>1. <<>> \in Seq(Captures) /\ owned \in Seq(Captures)
            BY EmptySeq DEF TypeOK
        <3> QED
            BY <1>1, <2>2, <2>3, <3>1
    <2>4. live' \in [AllLive -> {"none", "streaming", "ended"}]
        BY <1>14 DEF CapturesStopped, StopLive, liveVars, TypeOK
    <2> QED
        BY <1>1, <1>14, <2>2, <2>3, <2>4, <2>5 DEF CapturesStopped, StopLive, capVars, liveVars, TypeOK
<1>15. ASSUME NEW c \in Captures, OpenFile(c) \/ EndStream(c) \/ Cancel(c) PROVE TypeOK'
    BY <1>0, <1>1, <1>15 DEF OpenFile, EndStream, Cancel, TaskGoes, liveVars, TypeOK, Running
<1>16. ASSUME NEW c \in Captures, WriteLine(c) PROVE TypeOK'
    <2>1. lines[c] \in 0 .. MaxLines /\ lines[c] + 1 \in 1 .. MaxLines /\ MaxLines \in Nat
        BY <1>0, <1>16, CountsAssumption DEF WriteLine, TypeOK
    <2>2. lines' \in [AllCaptures -> 0 .. MaxLines]
        <3>1. lines' = [lines EXCEPT ![c] = lines[c] + 1] /\ lines[c] + 1 \in 0 .. MaxLines
            BY <1>16, <2>1 DEF WriteLine
        <3> QED
            BY <3>1 DEF TypeOK
    <2>3. <<c, lines[c] + 1>> \in AllCaptures \X (1 .. MaxLines)
        BY <1>0, <2>1
    <2>4. file' \in [Outputs -> SUBSET (AllCaptures \X (1 .. MaxLines))]
        BY <1>16, <2>3 DEF WriteLine, TypeOK
    <2> QED
        BY <1>1, <1>16, <2>2, <2>4 DEF WriteLine, liveVars, TypeOK
<1>17. ASSUME NEW l \in Live, EndLive(l) PROVE TypeOK'
    BY <1>0, <1>1, <1>17 DEF EndLive, capVars, TypeOK
<1>18. CASE Over \/ UNCHANGED vars
    BY <1>1, <1>18 DEF Over, vars, capVars, liveVars, TypeOK
<1> QED
    BY <1>5, <1>6, <1>7, <1>8, <1>9, <1>10, <1>11, <1>12, <1>13, <1>14, <1>15, <1>16, <1>17,
       <1>18 DEF Next, Session

-----------------------------------------------------------------------------
(***************************************************************************)
(* Tasks and reports.                                                      *)
(***************************************************************************)

\* A report goes to the end of those that are there.
LEMMA OneReportMore ==
    ASSUME TypeOK, NEW t \in Captures, NEW status \in {"passed", "failed"},
           reports' = Append(reports, Report(t, status))
    PROVE  /\ DOMAIN reports' = DOMAIN reports \cup {Len(reports) + 1}
           /\ Len(reports) + 1 \notin DOMAIN reports
           /\ \A i \in DOMAIN reports : reports'[i] = reports[i]
           /\ reports'[Len(reports) + 1] = Report(t, status)
           /\ \A c \in Captures :
                ReportsOf(c)' = IF c = t THEN ReportsOf(c) \cup {Len(reports) + 1} ELSE ReportsOf(c)
<1> DEFINE S == [capture : Captures \cup {0}, slot : 0 .. slots - 1,
                 status : {"passed", "failed"}]
<1>1. reports \in Seq(S) /\ Report(t, status) \in S
    BY ReportTyped DEF TypeOK
<1> HIDE DEF S
<1>2. Len(reports) \in Nat /\ DOMAIN reports = 1 .. Len(reports)
    BY <1>1
<1>3. /\ Len(reports') = Len(reports) + 1 /\ DOMAIN reports' = 1 .. Len(reports')
      /\ \A i \in 1 .. Len(reports) : reports'[i] = reports[i]
      /\ reports'[Len(reports) + 1] = Report(t, status)
    BY <1>1, AppendProperties
<1>4. DOMAIN reports' = DOMAIN reports \cup {Len(reports) + 1} /\ Len(reports) + 1 \notin DOMAIN reports
    BY <1>2, <1>3
<1>5. Report(t, status).capture = t
    BY DEF Report
<1> QED
    BY <1>2, <1>3, <1>4, <1>5 DEF ReportsOf

\* While its specs are gone through, a step of start_active_logs begins one
\* capture.
LEMMA NextBegun ==
    ASSUME TypeOK, TurnIsCapture, stage \in {"truncate", "exec"}, NextCapture
    PROVE  /\ slots' = slots /\ turn \in Captures
           /\ Begun' = Begun \cup {turn} /\ turn \notin Begun
           /\ First = 1 /\ First' = 1
           /\ TurnIsCapture' /\ stage' \in {"truncate", "live"}
<1> DEFINE n == slots * NumMonitors
<1>1. n \in Nat /\ Captures = 1 .. n /\ turn \in 1 .. n
    BY Sizes DEF TypeOK, TurnIsCapture
<1>2. Begun = 1 .. (turn - 1) /\ First = 1
    BY DEF Begun, First
<1>3. CASE turn < n
    <2>1. slots' = slots /\ stage' = "truncate" /\ turn' = turn + 1
        BY <1>3 DEF NextCapture, Go
    <2>2. Begun' = 1 .. turn /\ First' = 1 /\ Captures' = Captures
        BY <1>1, <2>1 DEF Begun, First, Captures
    <2>3. turn + 1 \in 1 .. n
        BY <1>1, <1>3
    <2> HIDE DEF n
    <2>4. 1 .. turn = 1 .. (turn - 1) \cup {turn}
        BY <1>1
    <2>5. turn' \in Captures'
        BY <1>1, <2>1, <2>2, <2>3
    <2> QED
        BY <1>1, <1>2, <2>1, <2>2, <2>4, <2>5 DEF TurnIsCapture
<1>4. CASE ~ turn < n
    <2>1. slots' = slots /\ stage' = "live"
        BY <1>4 DEF NextCapture, Go
    <2>2. Begun' = Captures /\ First' = 1
        BY <2>1 DEF Begun, First, Captures
    <2> HIDE DEF n
    <2>3. turn = n /\ 1 .. n = 1 .. (turn - 1) \cup {turn}
        BY <1>1, <1>4
    <2> QED
        BY <1>1, <1>2, <2>1, <2>2, <2>3 DEF TurnIsCapture
<1> QED
    BY <1>3, <1>4

LEMMA BegunAreCaptures ==
    ASSUME TypeOK, TurnIsCapture
    PROVE  Begun \subseteq Captures
<1>1. slots * NumMonitors \in Nat /\ Captures = 1 .. slots * NumMonitors
    BY Sizes DEF TypeOK
<1>2. CASE stage \in {"truncate", "exec"}
    <2>1. Begun = 1 .. (turn - 1) /\ turn \in Captures
        BY <1>2 DEF Begun, TurnIsCapture
    <2> QED
        BY <1>1, <2>1
<1> QED
    BY <1>2 DEF Begun

\* A step of a task: it ran, and now it may have ended.
LEMMA TaskGoesOn ==
    ASSUME TypeOK, AccountInv, NEW c \in Captures, NEW after,
           capture[c] \in Running, after # "none", TaskGoes(c, after),
           UNCHANGED <<slots, stage, turn, owned, reports>>
    PROVE  AccountInv'
<1>1. c \in AllCaptures /\ Captures' = Captures /\ capture'[c] = after
      /\ \A d \in Captures : d # c => capture'[d] = capture[d]
    BY Sizes DEF TypeOK, TaskGoes, Captures
<1>2. Begun' = Begun /\ Pending' = Pending
    BY <1>1 DEF Begun, Pending, First
<1>3. TurnIsCapture' /\ OwnedOnce' /\ OwnedAtFirst'
    BY <1>1 DEF AccountInv, TurnIsCapture, OwnedOnce, OwnedAtFirst
<1>4. TasksOwned'
    BY <1>1, <1>2 DEF AccountInv, TasksOwned, Running
<1>5. Accounted
    BY DEF AccountInv, OneForAll, Running
<1>6. Accounted'
    BY <1>2, <1>5 DEF Accounted, ReportsOf
<1>7. CaptureReportsFaithful'
    <2> SUFFICES ASSUME NEW i \in DOMAIN reports, reports[i].capture # 0,
                        capture'[reports[i].capture] # "none"
                 PROVE  /\ capture'[reports[i].capture] \notin Running
                        /\ reports[i].status = "failed" <=> capture'[reports[i].capture] = "error"
        BY DEF CaptureReportsFaithful
    <2>1. reports[i].capture \in Captures
        BY <1>5, BegunAreCaptures DEF Accounted, AccountInv
    <2>2. reports[i].capture # c
        BY Sizes, <2>1 DEF AccountInv, CaptureReportsFaithful, Running, TypeOK
    <2> QED
        BY <1>1, <2>1, <2>2 DEF AccountInv, CaptureReportsFaithful
<1> QED
    BY <1>3, <1>4, <1>6, <1>7 DEF AccountInv

\* A step that changes no task and no report.
LEMMA NothingReported ==
    ASSUME TypeOK, AccountInv, UNCHANGED <<slots, capture, reports>>,
           Begun' = Begun, Pending' = Pending, owned' = owned \/ owned' = <<>>,
           TurnIsCapture', OwnedAtFirst',
           stage' \in {"resolve", "truncate", "exec"} => stage \in {"resolve", "truncate", "exec"}
    PROVE  AccountInv'
<1>1. Captures' = Captures
    BY DEF Captures
<1>2. OwnedOnce'
    BY DEF AccountInv, OwnedOnce
<1>3. TasksOwned' /\ CaptureReportsFaithful'
    BY <1>1 DEF AccountInv, TasksOwned, CaptureReportsFaithful
<1>4. OneForAll' \/ Accounted'
    BY <1>1 DEF AccountInv, OneForAll, Accounted, ReportsOf
<1> QED
    BY <1>2, <1>3, <1>4 DEF AccountInv

\* A capture is reported: one that could not start, or one that is joined.
LEMMA OneReported ==
    ASSUME TypeOK, AccountInv, Accounted, UNCHANGED <<slots, capture, owned>>,
           NEW t \in Captures, NEW status \in {"passed", "failed"},
           reports' = Append(reports, Report(t, status)), ReportsOf(t) = {},
           Begun' = Begun \cup {t}, Pending' = Pending \ {t},
           capture[t] \notin Running,
           capture[t] = "none" \/ (status = "failed" <=> capture[t] = "error"),
           TurnIsCapture', OwnedAtFirst'
    PROVE  AccountInv'
<1>1. Captures' = Captures
    BY DEF Captures
<1>2. OwnedOnce' /\ TasksOwned'
    BY <1>1 DEF AccountInv, OwnedOnce, TasksOwned
<1>3. /\ DOMAIN reports' = DOMAIN reports \cup {Len(reports) + 1}
      /\ Len(reports) + 1 \notin DOMAIN reports
      /\ \A i \in DOMAIN reports : reports'[i] = reports[i]
      /\ reports'[Len(reports) + 1] = Report(t, status)
      /\ \A c \in Captures :
            ReportsOf(c)' = IF c = t THEN ReportsOf(c) \cup {Len(reports) + 1} ELSE ReportsOf(c)
    BY OneReportMore
<1>4. Report(t, status).capture = t /\ Report(t, status).status = status
    BY DEF Report
<1>5. Begun \subseteq Captures
    BY BegunAreCaptures DEF AccountInv
<1>6. Accounted'
    <2>1. \A i \in DOMAIN reports' : reports'[i].capture \in Begun'
        BY <1>3, <1>4 DEF Accounted
    <2>2. ASSUME NEW c \in Begun'
          PROVE  IF c \in Pending' THEN ReportsOf(c)' = {}
                 ELSE \E i \in DOMAIN reports' : ReportsOf(c)' = {i}
        <3>1. CASE c = t
            BY <1>3, <3>1
        <3>2. CASE c # t
            <4>1. c \in Begun /\ ReportsOf(c)' = ReportsOf(c)
                BY <1>3, <1>5, <2>2, <3>2
            <4> QED
                BY <1>3, <3>2, <4>1 DEF Accounted
        <3> QED
            BY <3>1, <3>2
    <2> QED
        BY <2>1, <2>2 DEF Accounted
<1>7. CaptureReportsFaithful'
    BY <1>3, <1>4 DEF AccountInv, CaptureReportsFaithful
<1> QED
    BY <1>2, <1>6, <1>7 DEF AccountInv

-----------------------------------------------------------------------------
(***************************************************************************)
(* Every capture has a task or a report.                                   *)
(***************************************************************************)

LEMMA InitAccount == Init => AccountInv
<1> SUFFICES ASSUME Init PROVE AccountInv
    OBVIOUS
<1>1. /\ stage = "resolve" /\ owned = <<>> /\ reports = <<>>
      /\ \A c \in AllCaptures : capture[c] = "none"
    BY DEF Init
<1>2. Captures \subseteq AllCaptures
    BY Sizes DEF Init
<1>3. Begun = {} /\ Pending = {}
    BY <1>1 DEF Begun, Pending, First
<1>4. OwnedOnce /\ TurnIsCapture /\ OwnedAtFirst
    BY <1>1 DEF OwnedOnce, TurnIsCapture, OwnedAtFirst
<1>5. TasksOwned /\ Accounted /\ CaptureReportsFaithful
    BY <1>1, <1>2, <1>3 DEF TasksOwned, Accounted, CaptureReportsFaithful, Running
<1> QED
    BY <1>4, <1>5 DEF AccountInv

LEMMA ResolveAccount ==
    ASSUME TypeOK, AccountInv, ResolveCaptures
    PROVE  AccountInv'
<1>1. /\ stage = "resolve" /\ owned = <<>> /\ reports = <<>> /\ Begun = {} /\ Pending = {}
      /\ slots' = slots /\ turn' = 1 /\ capture' = capture /\ owned' = owned
      /\ Captures' = Captures
    BY DEF ResolveCaptures, Go, AccountInv, OwnedAtFirst, Begun, Pending, First, Captures
<1>2. \A c \in Captures : capture[c] = "none"
    BY <1>1 DEF AccountInv, TasksOwned
<1>3. First' = 1 /\ Pending' = {}
    BY <1>1 DEF ResolveCaptures, Go, First, Pending
<1>4. OwnedOnce' /\ OwnedAtFirst' /\ TasksOwned'
    <2>1. stage' # "resolve"
        BY DEF ResolveCaptures, Go
    <2> QED
        BY <1>1, <1>2, <1>3, <2>1 DEF OwnedOnce, OwnedAtFirst, TasksOwned, Running
<1>5. slots * NumMonitors \in Nat /\ Captures = 1 .. slots * NumMonitors
    BY Sizes DEF TypeOK
<1>6. TurnIsCapture'
    <2>1. CASE stage' = "truncate"
        <3>1. Captures # {}
            BY <2>1 DEF ResolveCaptures, Go
        <3>2. 1 \in Captures
            BY <1>5, <3>1
        <3> QED
            BY <1>1, <3>2 DEF TurnIsCapture
    <2>2. CASE stage' = "live"
        BY <2>2 DEF TurnIsCapture
    <2> QED
        BY <2>1, <2>2 DEF ResolveCaptures, Go
<1>7. CASE reports' = reports /\ Go(IF Captures = {} THEN "live" ELSE "truncate", 1)
    <2>1. Begun' = {}
        <3>1. CASE Captures = {}
            BY <1>1, <1>7, <3>1 DEF Begun, Go
        <3>2. CASE Captures # {}
            BY <1>7, <3>2 DEF Begun, Go
        <3> QED
            BY <3>1, <3>2
    <2>2. Accounted' /\ CaptureReportsFaithful'
        BY <1>1, <1>7, <2>1 DEF Accounted, CaptureReportsFaithful
    <2> QED
        BY <1>4, <1>6, <2>2 DEF AccountInv
<1>8. CASE stage' = "live" /\ reports' = <<[capture |-> 0, slot |-> 0, status |-> "failed"]>>
    <2>1. /\ Len(reports') = 1 /\ reports'[1].capture = 0
          /\ \A i \in DOMAIN reports' : reports'[i].capture = 0
        BY <1>8
    <2>2. OneForAll' /\ CaptureReportsFaithful'
        BY <1>1, <1>2, <1>8, <2>1 DEF OneForAll, CaptureReportsFaithful
    <2> QED
        BY <1>4, <1>6, <2>2 DEF AccountInv
<1>9. CASE stage' = "live" /\ reports' = [c \in Captures |-> Report(c, "failed")]
    <2>1. DOMAIN reports' = Captures /\ \A c \in Captures : reports'[c].capture = c
        BY <1>9 DEF Report
    <2>2. Begun' = Captures
        BY <1>1, <1>9 DEF Begun
    <2>3. \A c \in Captures : ReportsOf(c)' = {c}
        BY <2>1 DEF ReportsOf
    <2>4. Accounted' /\ CaptureReportsFaithful'
        BY <1>1, <1>2, <1>3, <2>1, <2>2, <2>3 DEF Accounted, CaptureReportsFaithful
    <2> QED
        BY <1>4, <1>6, <2>4 DEF AccountInv
<1> QED
    BY <1>7, <1>8, <1>9 DEF ResolveCaptures, Go

\* A capture that fails to start, in either of its two places.
LEMMA FailedAccount ==
    ASSUME TypeOK, AccountInv, stage \in {"truncate", "exec"}, NextCapture,
           reports' = Append(reports, Report(turn, "failed")),
           UNCHANGED <<capture, owned>>
    PROVE  AccountInv'
<1>1. /\ slots' = slots /\ turn \in Captures
      /\ Begun' = Begun \cup {turn} /\ turn \notin Begun
      /\ First = 1 /\ First' = 1
      /\ TurnIsCapture' /\ stage' \in {"truncate", "live"}
    BY NextBegun DEF AccountInv
<1>2. Pending' = Pending /\ turn \notin Pending /\ capture[turn] = "none"
    BY <1>1 DEF Pending, AccountInv, TasksOwned
<1>3. Accounted /\ ReportsOf(turn) = {}
    <2>1. Accounted
        BY DEF AccountInv, OneForAll
    <2> QED
        BY <1>1, <2>1 DEF Accounted, ReportsOf
<1>4. Pending' = Pending \ {turn} /\ capture[turn] \notin Running
    BY <1>2 DEF Running
<1>5. OwnedAtFirst'
    BY <1>1 DEF OwnedAtFirst
<1> QED
    BY <1>1, <1>2, <1>3, <1>4, <1>5, OneReported

LEMMA StartAccount ==
    ASSUME TypeOK, AccountInv, stage = "exec", NextCapture,
           capture' = [capture EXCEPT ![turn] = "opening"],
           owned' = Append(owned, turn), reports' = reports
    PROVE  AccountInv'
<1>1. /\ slots' = slots /\ turn \in Captures
      /\ Begun' = Begun \cup {turn} /\ turn \notin Begun
      /\ First = 1 /\ First' = 1
      /\ TurnIsCapture' /\ stage' \in {"truncate", "live"}
    BY NextBegun DEF AccountInv
<1>2. /\ Captures' = Captures /\ turn \in AllCaptures /\ capture'[turn] = "opening"
      /\ \A c \in Captures : c # turn => capture'[c] = capture[c]
    BY <1>1, Sizes DEF TypeOK, Captures
<1>3. /\ Len(owned) \in Nat /\ DOMAIN owned = 1 .. Len(owned)
      /\ Len(owned') = Len(owned) + 1 /\ DOMAIN owned' = 1 .. Len(owned')
      /\ \A i \in 1 .. Len(owned) : owned'[i] = owned[i]
      /\ owned'[Len(owned) + 1] = turn
    <2>1. owned \in Seq(Captures)
        BY DEF TypeOK
    <2> QED
        BY <1>1, <2>1, AppendProperties
<1>4. Pending = {owned[i] : i \in 1 .. Len(owned)} /\ Pending' = {owned'[i] : i \in 1 .. Len(owned')}
    BY <1>1 DEF Pending
<1>5. Pending' = Pending \cup {turn} /\ turn \notin Pending
    <2>1. Pending' = Pending \cup {turn}
        BY <1>3, <1>4
    <2> QED
        BY <1>1, <2>1 DEF AccountInv, TasksOwned
<1>6. OwnedOnce'
    <2>1. \A i \in 1 .. Len(owned) : owned[i] # turn
        BY <1>4, <1>5
    <2> QED
        BY <1>3, <2>1 DEF AccountInv, OwnedOnce
<1>7. OwnedAtFirst'
    BY <1>1 DEF OwnedAtFirst
<1>8. TasksOwned'
    BY <1>1, <1>2, <1>5 DEF AccountInv, TasksOwned
<1>9. Accounted /\ Begun \subseteq Captures
    BY BegunAreCaptures DEF AccountInv, OneForAll
<1>10. Accounted'
    <2>1. \A c : ReportsOf(c)' = ReportsOf(c)
        BY DEF ReportsOf
    <2>2. ReportsOf(turn) = {}
        BY <1>1, <1>9 DEF Accounted, ReportsOf
    <2>3. \A i \in DOMAIN reports' : reports'[i].capture \in Begun'
        BY <1>1, <1>9 DEF Accounted
    <2>4. \A c \in Begun' : IF c \in Pending' THEN ReportsOf(c)' = {}
                            ELSE \E i \in DOMAIN reports' : ReportsOf(c)' = {i}
        BY <1>1, <1>5, <1>9, <2>1, <2>2 DEF Accounted
    <2> QED
        BY <2>3, <2>4 DEF Accounted
<1>11. CaptureReportsFaithful'
    <2>1. \A i \in DOMAIN reports : reports[i].capture # turn /\ reports[i].capture \in Captures
        BY <1>1, <1>9 DEF Accounted
    <2> QED
        BY <1>2, <2>1 DEF AccountInv, CaptureReportsFaithful
<1> QED
    BY <1>1, <1>6, <1>7, <1>8, <1>10, <1>11 DEF AccountInv

LEMMA JoinAccount ==
    ASSUME TypeOK, AccountInv, Join
    PROVE  AccountInv'
<1> DEFINE t == owned[turn]
<1>1. /\ stage \in {"stop", "aborting"} /\ turn <= Len(owned) /\ turn \in Nat \ {0}
      /\ capture[t] \notin Running
      /\ reports' = Append(reports, Verdict(t))
      /\ slots' = slots /\ stage' = "stop" /\ turn' = turn + 1
      /\ capture' = capture /\ owned' = owned
    BY DEF Join, Go, TypeOK
<1>2. owned \in Seq(Captures) /\ Len(owned) \in Nat /\ DOMAIN owned = 1 .. Len(owned)
    BY DEF TypeOK
<1>3. t \in Captures /\ turn \in DOMAIN owned
    BY <1>1, <1>2
<1>4. /\ Pending = {owned[i] : i \in turn .. Len(owned)}
      /\ Pending' = {owned[i] : i \in (turn + 1) .. Len(owned)}
    BY <1>1 DEF Pending, First
<1>5. Begun = Captures /\ Begun' = Captures
    BY <1>1 DEF Begun, Captures
<1>6. t \in Pending /\ Pending' = Pending \ {t}
    <2>1. turn .. Len(owned) = (turn + 1) .. Len(owned) \cup {turn}
        BY <1>1, <1>2
    <2>2. \A i \in (turn + 1) .. Len(owned) : owned[i] # t
        BY <1>1, <1>2, <1>3 DEF AccountInv, OwnedOnce
    <2> HIDE DEF t
    <2>3. owned[turn] = t
        BY DEF t
    <2> QED
        BY <1>4, <2>1, <2>2, <2>3
<1>7. capture[t] # "none"
    BY <1>3, <1>6 DEF AccountInv, TasksOwned
<1>8. Accounted /\ ReportsOf(t) = {}
    <2>1. Accounted
        BY <1>3, <1>7 DEF AccountInv, OneForAll
    <2> QED
        BY <1>3, <1>5, <1>6, <2>1 DEF Accounted
<1>9. TurnIsCapture' /\ OwnedAtFirst'
    BY <1>1 DEF TurnIsCapture, OwnedAtFirst
<1> DEFINE status == IF capture[t] = "error" THEN "failed" ELSE "passed"
<1>10. /\ status \in {"passed", "failed"} /\ reports' = Append(reports, Report(t, status))
       /\ status = "failed" <=> capture[t] = "error"
    BY <1>1 DEF Verdict
<1>11. Begun' = Begun \cup {t}
    BY <1>3, <1>5
<1> HIDE DEF t, status
<1> QED
    BY <1>1, <1>3, <1>6, <1>8, <1>9, <1>10, <1>11, OneReported

LEMMA NextAccount ==
    ASSUME TypeOK, AccountInv, [Next]_vars
    PROVE  AccountInv'
<1>1. CASE ResolveCaptures
    BY <1>1, ResolveAccount
<1>2. CASE Skip
    BY <1>2, FailedAccount DEF Skip
<1>3. CASE StartCapture
    BY <1>3, FailedAccount, StartAccount DEF StartCapture
<1>4. CASE Truncate
    <2>1. /\ stage = "truncate" /\ stage' = "exec" /\ turn' = turn
          /\ UNCHANGED <<slots, capture, owned, reports>>
        BY <1>4 DEF Truncate, Go
    <2>2. Begun' = Begun /\ Pending' = Pending /\ TurnIsCapture' /\ OwnedAtFirst'
        BY <2>1 DEF Begun, Pending, First, TurnIsCapture, OwnedAtFirst, AccountInv, Captures
    <2> QED
        BY <2>1, <2>2, NothingReported
<1>5. CASE StartLive \/ LiveReady \/ LiveFails
    <2>1. /\ stage = "live" /\ stage' \in {"live", "units", "unprepared"}
          /\ UNCHANGED <<slots, capture, owned, reports>>
        BY <1>5 DEF StartLive, LiveReady, LiveFails, Go, capVars
    <2>2. Begun' = Begun /\ Pending' = Pending /\ TurnIsCapture' /\ OwnedAtFirst'
        BY <2>1 DEF Begun, Pending, First, TurnIsCapture, OwnedAtFirst, Captures
    <2> QED
        BY <2>1, <2>2, NothingReported
<1>6. CASE Shutdown
    <2>1. /\ stage \in {"units", "unprepared"} /\ stage' = "stop" /\ turn' = 1
          /\ UNCHANGED <<slots, capture, owned, reports>>
        BY <1>6 DEF Shutdown, Go, capVars
    <2>2. Begun' = Begun /\ Pending' = Pending /\ TurnIsCapture' /\ OwnedAtFirst'
        BY <2>1 DEF Begun, Pending, First, TurnIsCapture, OwnedAtFirst, Captures
    <2> QED
        BY <2>1, <2>2, NothingReported
<1>7. CASE Join
    BY <1>7, JoinAccount
<1>8. CASE Timeout
    <2>1. /\ stage = "stop" /\ stage' = "aborting" /\ turn' = turn
          /\ UNCHANGED <<slots, capture, owned, reports>>
        BY <1>8 DEF Timeout, Go
    <2>2. Begun' = Begun /\ Pending' = Pending /\ TurnIsCapture' /\ OwnedAtFirst'
        BY <2>1 DEF Begun, Pending, First, TurnIsCapture, OwnedAtFirst, Captures
    <2> QED
        BY <2>1, <2>2, NothingReported
<1>9. CASE CapturesStopped
    <2>1. /\ stage = "stop" /\ turn > Len(owned) /\ stage' = "stop live" /\ owned' = <<>>
          /\ UNCHANGED <<slots, capture, reports>>
        BY <1>9 DEF CapturesStopped, Go
    <2>2. turn \in Nat /\ Len(owned) \in Nat
        BY DEF TypeOK
    <2>3. Begun' = Begun /\ TurnIsCapture' /\ OwnedAtFirst'
        BY <2>1 DEF Begun, TurnIsCapture, OwnedAtFirst, Captures
    <2>4. Pending = {}
        <3>1. First = turn
            BY <2>1 DEF First
        <3>2. \A a, b \in Nat : a > b => a .. b = {}
            OBVIOUS
        <3>3. turn > Len(owned)
            BY <2>1
        <3>4. First .. Len(owned) = {}
            BY <2>2, <3>1, <3>2, <3>3
        <3> QED
            BY <3>4 DEF Pending
    <2>5. First' = 1 /\ Len(owned') = 0
        BY <2>1 DEF First
    <2>6. Pending' = {}
        BY <2>5 DEF Pending
    <2> QED
        BY <2>1, <2>3, <2>4, <2>6, NothingReported
<1>10. CASE StopLive
    <2>1. /\ stage = "stop live" /\ stage' = "over" /\ UNCHANGED <<slots, capture, owned, reports>>
        BY <1>10 DEF StopLive, Go, capVars
    <2>2. Begun' = Begun /\ Pending' = Pending /\ TurnIsCapture' /\ OwnedAtFirst'
        BY <2>1 DEF Begun, Pending, First, TurnIsCapture, OwnedAtFirst, AccountInv, Captures
    <2> QED
        BY <2>1, <2>2, NothingReported
<1>11. ASSUME NEW c \in Captures, OpenFile(c) \/ EndStream(c) \/ Cancel(c) PROVE AccountInv'
    <2>1. PICK after \in {"streaming", "error", "ended", "cancelled"} :
            TaskGoes(c, after) /\ capture[c] \in Running
        BY <1>11 DEF OpenFile, EndStream, Cancel, Running
    <2>2. UNCHANGED <<slots, stage, turn, owned, reports>>
        BY <1>11 DEF OpenFile, EndStream, Cancel
    <2> QED
        BY <2>1, <2>2, TaskGoesOn
<1>12. ASSUME UNCHANGED <<slots, stage, turn, capture, owned, reports>> PROVE AccountInv'
    <2>1. Begun' = Begun /\ Pending' = Pending /\ TurnIsCapture' /\ OwnedAtFirst'
        BY <1>12 DEF Begun, Pending, First, TurnIsCapture, OwnedAtFirst, AccountInv, Captures
    <2> QED
        BY <1>12, <2>1, NothingReported
<1>13. ASSUME NEW c \in Captures, WriteLine(c) PROVE AccountInv'
    BY <1>12, <1>13 DEF WriteLine
<1>14. ASSUME NEW l \in Live, EndLive(l) PROVE AccountInv'
    BY <1>12, <1>14 DEF EndLive, capVars
<1>15. CASE Over \/ UNCHANGED vars
    BY <1>12, <1>15 DEF Over, vars, capVars
<1> QED
    BY <1>1, <1>2, <1>3, <1>4, <1>5, <1>6, <1>7, <1>8, <1>9, <1>10, <1>11, <1>13, <1>14, <1>15
       DEF Next, Session

-----------------------------------------------------------------------------
(***************************************************************************)
(* Live logs.                                                              *)
(***************************************************************************)

LEMMA NextLive ==
    ASSUME TypeOK, LiveKnown, [Next]_vars
    PROVE  LiveKnown'
<1>0. Live \subseteq AllLive /\ live \in [AllLive -> {"none", "streaming", "ended"}]
    BY Sizes DEF TypeOK
<1>1. ASSUME UNCHANGED <<slots, liveVars>>, stage # "live",
             \/ stage' \notin {"resolve", "truncate", "exec", "over"}
             \/ stage \in {"resolve", "truncate", "exec"} /\ stage' \in {"truncate", "exec"}
      PROVE  LiveKnown'
    BY <1>1 DEF LiveKnown, liveVars, Live
<1>2. ASSUME NextCapture PROVE slots' = slots /\ stage' \in {"truncate", "live"}
    BY <1>2 DEF NextCapture, Go
<1>3. CASE ResolveCaptures \/ Skip \/ Truncate \/ StartCapture
    <2>1. /\ UNCHANGED <<slots, liveVars>> /\ stage \in {"resolve", "truncate", "exec"}
          /\ stage' \in {"truncate", "live"} \/ (stage = "truncate" /\ stage' = "exec")
        BY <1>2, <1>3 DEF ResolveCaptures, Skip, Truncate, StartCapture, Go
    <2> QED
        BY <1>1, <2>1
<1>4. CASE Shutdown \/ Join \/ Timeout \/ CapturesStopped
    <2>1. /\ UNCHANGED <<slots, liveVars>> /\ stage \in {"units", "unprepared", "stop", "aborting"}
          /\ stage' \in {"stop", "aborting", "stop live"}
        BY <1>4 DEF Shutdown, Join, Timeout, CapturesStopped, Go
    <2> QED
        BY <1>1, <2>1
<1>5. CASE StartLive
    BY <1>5 DEF StartLive, Go, LiveKnown
<1>6. CASE LiveReady \/ LiveFails
    BY <1>6 DEF LiveReady, LiveFails, Go, LiveKnown, Live
<1>7. CASE StopLive
    <2>1. /\ stage = "stop live" /\ stage' = "over" /\ slots' = slots /\ liveOwned' = {} /\ lost' = lost
          /\ \A l \in Live : live'[l] = IF l \in liveOwned THEN "ended" ELSE live[l]
        BY <1>0, <1>7 DEF StopLive, Go
    <2> QED
        BY <2>1 DEF LiveKnown, Live
<1>8. ASSUME NEW l \in Live, EndLive(l) PROVE LiveKnown'
    BY <1>0, <1>8 DEF EndLive, LiveKnown, Live
<1>9. ASSUME UNCHANGED <<slots, stage, liveVars>> PROVE LiveKnown'
    BY <1>9 DEF LiveKnown, liveVars, Live
<1>10. ASSUME NEW c \in Captures, OpenFile(c) \/ WriteLine(c) \/ EndStream(c) \/ Cancel(c)
       PROVE  LiveKnown'
    BY <1>9, <1>10 DEF OpenFile, WriteLine, EndStream, Cancel
<1>11. CASE Over \/ UNCHANGED vars
    BY <1>9, <1>11 DEF Over, vars
<1> QED
    BY <1>3, <1>4, <1>5, <1>6, <1>7, <1>8, <1>10, <1>11 DEF Next, Session

-----------------------------------------------------------------------------
(***************************************************************************)
(* What the outputs keep.                                                  *)
(***************************************************************************)

LEMMA WriteFiles ==
    ASSUME TypeOK, FilesInv, NEW c \in Captures, WriteLine(c)
    PROVE  FilesInv'
<1> DEFINE n == lines[c]
<1>1. /\ slots' = slots /\ Captures' = Captures /\ capture' = capture /\ capture[c] = "streaming"
      /\ lines' = [lines EXCEPT ![c] = n + 1]
      /\ file' = [file EXCEPT ![Output(c)] = @ \cup {<<c, n + 1>>}]
    BY DEF WriteLine, Captures
<1>2. /\ n \in Nat /\ c \in AllCaptures /\ Captures \subseteq AllCaptures
      /\ Output(c) \in Outputs /\ DOMAIN lines = AllCaptures /\ DOMAIN file = Outputs
    BY Sizes, Places, CountsAssumption DEF TypeOK
<1>3. lines'[c] = n + 1 /\ \A d \in Captures : d # c => lines'[d] = lines[d]
    BY <1>1, <1>2
<1>4. /\ file'[Output(c)] = file[Output(c)] \cup {<<c, n + 1>>}
      /\ \A o \in Outputs : o # Output(c) => file'[o] = file[o]
    BY <1>1, <1>2
<1> HIDE DEF n
<1>5. LinesOfTasks'
    BY <1>1, <1>3 DEF FilesInv, LinesOfTasks
<1>6. CapturesKept'
    <2> DEFINE kept(d) == {m \in 1 .. lines[d] : <<d, m>> \in file[Output(d)]}
               keptAfter(d) == {m \in 1 .. lines'[d] : <<d, m>> \in file'[Output(d)]}
    <2> SUFFICES ASSUME NEW d \in Captures
                 PROVE  /\ \A m \in keptAfter(d) : m .. lines'[d] \subseteq keptAfter(d)
                        /\ SlotOf(d) = slots - 1 => keptAfter(d) = 1 .. lines'[d]
        BY <1>1 DEF CapturesKept, Output, SlotOf
    <2>1. /\ \A m \in kept(d) : m .. lines[d] \subseteq kept(d)
          /\ SlotOf(d) = slots - 1 => kept(d) = 1 .. lines[d]
        BY DEF FilesInv, CapturesKept
    <2>2. Output(d) \in Outputs
        BY Places DEF TypeOK
    <2>3. CASE d # c
        <3>1. lines'[d] = lines[d]
            BY <1>3, <2>3
        <3>2. \A m : <<d, m>> \in file'[Output(d)] <=> <<d, m>> \in file[Output(d)]
            BY <1>4, <2>2, <2>3
        <3>3. keptAfter(d) = kept(d)
            BY <3>1, <3>2
        <3> HIDE DEF kept, keptAfter
        <3> QED
            BY <2>1, <3>1, <3>3
    <2>4. CASE d = c
        <3>1. lines[d] = n /\ lines'[d] = n + 1
            BY <1>3, <2>4 DEF n
        <3>2. \A m \in 1 .. n : <<d, m>> \in file'[Output(d)] <=> <<d, m>> \in file[Output(d)]
            BY <1>2, <1>4, <2>4
        <3>3. <<d, n + 1>> \in file'[Output(d)]
            BY <1>4, <2>4
        <3>4. 1 .. n + 1 = 1 .. n \cup {n + 1}
            BY <1>2
        <3>5. keptAfter(d) = kept(d) \cup {n + 1} /\ kept(d) \subseteq 1 .. n
            BY <3>1, <3>2, <3>3, <3>4
        <3> HIDE DEF kept, keptAfter
        <3>6. ASSUME NEW m \in keptAfter(d) PROVE m .. n + 1 \subseteq keptAfter(d)
            <4>1. CASE m = n + 1
                BY <1>2, <3>5, <4>1
            <4>2. CASE m \in kept(d)
                <5>1. m .. n \subseteq kept(d) /\ m \in 1 .. n
                    BY <2>1, <3>1, <3>5, <4>2
                <5>2. m .. n + 1 = m .. n \cup {n + 1}
                    BY <1>2, <5>1
                <5> QED
                    BY <3>5, <5>1, <5>2
            <4> QED
                BY <3>5, <3>6, <4>1, <4>2
        <3> QED
            BY <2>1, <3>1, <3>4, <3>5, <3>6
    <2> QED
        BY <2>3, <2>4
<1> QED
    BY <1>5, <1>6 DEF FilesInv

\* What an output loses when a capture starts is not of the last slot: the
\* captures of the last slot for this output are this one and none after it.
LEMMA TruncateFiles ==
    ASSUME TypeOK, AccountInv, FilesInv, Truncate
    PROVE  FilesInv'
<1>1. /\ slots' = slots /\ Captures' = Captures /\ capture' = capture /\ lines' = lines
      /\ file' = [file EXCEPT ![Output(turn)] = {}]
    BY DEF Truncate, Go, Captures
<1>2. turn \in Captures /\ Begun = 1 .. (turn - 1)
    BY DEF Truncate, AccountInv, TurnIsCapture, Begun
<1>3. DOMAIN file = Outputs /\ Captures \subseteq Nat \ {0}
    BY Sizes DEF TypeOK
<1>4. LinesOfTasks'
    BY <1>1 DEF FilesInv, LinesOfTasks
<1>5. CapturesKept'
    <2> DEFINE kept(d) == {m \in 1 .. lines[d] : <<d, m>> \in file[Output(d)]}
               keptAfter(d) == {m \in 1 .. lines[d] : <<d, m>> \in file'[Output(d)]}
    <2> SUFFICES ASSUME NEW d \in Captures
                 PROVE  /\ \A m \in keptAfter(d) : m .. lines[d] \subseteq keptAfter(d)
                        /\ SlotOf(d) = slots - 1 => keptAfter(d) = 1 .. lines[d]
        BY <1>1 DEF CapturesKept, Output, SlotOf
    <2>1. /\ \A m \in kept(d) : m .. lines[d] \subseteq kept(d)
          /\ SlotOf(d) = slots - 1 => kept(d) = 1 .. lines[d]
        BY DEF FilesInv, CapturesKept
    <2>2. Output(d) \in Outputs
        BY Places DEF TypeOK
    <2>3. CASE Output(d) # Output(turn)
        <3>1. keptAfter(d) = kept(d)
            BY <1>1, <1>3, <2>2, <2>3
        <3> HIDE DEF kept, keptAfter
        <3> QED
            BY <2>1, <3>1
    <2>4. CASE Output(d) = Output(turn)
        <3>1. file'[Output(d)] = {}
            BY <1>1, <1>3, <2>2, <2>4
        <3>2. keptAfter(d) = {}
            BY <3>1
        <3>3. ASSUME SlotOf(d) = slots - 1 PROVE lines[d] = 0
            <4>1. ~ d < turn
                BY <1>2, <2>4, <3>3, LastSlot DEF TypeOK
            <4>2. d \notin Begun
                BY <1>2, <1>3, <4>1
            <4>3. capture[d] = "none"
                BY <4>2 DEF AccountInv, TasksOwned
            <4> QED
                BY <4>3 DEF FilesInv, LinesOfTasks
        <3> HIDE DEF keptAfter
        <3>4. SlotOf(d) = slots - 1 => 1 .. lines[d] = {}
            BY <3>3
        <3> QED
            BY <3>2, <3>4
    <2> QED
        BY <2>3, <2>4
<1> QED
    BY <1>4, <1>5 DEF FilesInv

LEMMA NextFiles ==
    ASSUME TypeOK, AccountInv, FilesInv, [Next]_vars
    PROVE  FilesInv'
<1>1. ASSUME UNCHANGED <<slots, lines, file>>,
             \A c \in Captures : capture'[c] = "none" => capture[c] = "none"
      PROVE  FilesInv'
    <2>1. Captures' = Captures
        BY <1>1 DEF Captures
    <2>2. LinesOfTasks'
        BY <1>1, <2>1 DEF FilesInv, LinesOfTasks
    <2>3. CapturesKept'
        BY <1>1, <2>1 DEF FilesInv, CapturesKept, Output, SlotOf
    <2> QED
        BY <2>2, <2>3 DEF FilesInv
<1>2. ASSUME NextCapture PROVE slots' = slots
    BY <1>2 DEF NextCapture, Go
<1>3. CASE ResolveCaptures \/ Skip \/ Join \/ Timeout \/ CapturesStopped
    BY <1>1, <1>2, <1>3 DEF ResolveCaptures, Skip, Join, Timeout, CapturesStopped, Go
<1>4. CASE StartLive \/ LiveReady \/ LiveFails \/ Shutdown \/ StopLive
    BY <1>1, <1>4 DEF StartLive, LiveReady, LiveFails, Shutdown, StopLive, Go, capVars
<1>5. CASE StartCapture
    <2>1. UNCHANGED <<slots, lines, file>>
        BY <1>2, <1>5 DEF StartCapture
    <2>2. capture' = capture \/ capture' = [capture EXCEPT ![turn] = "opening"]
        BY <1>5 DEF StartCapture
    <2>3. DOMAIN capture = AllCaptures /\ Captures \subseteq AllCaptures
        BY Sizes DEF TypeOK
    <2> QED
        BY <1>1, <2>1, <2>2, <2>3
<1>6. ASSUME NEW c \in Captures, OpenFile(c) \/ EndStream(c) \/ Cancel(c) PROVE FilesInv'
    <2>1. UNCHANGED <<slots, lines, file>>
        BY <1>6 DEF OpenFile, EndStream, Cancel
    <2>2. PICK after \in {"streaming", "error", "ended", "cancelled"} :
            capture' = [capture EXCEPT ![c] = after]
        BY <1>6 DEF OpenFile, EndStream, Cancel, TaskGoes
    <2>3. DOMAIN capture = AllCaptures /\ Captures \subseteq AllCaptures
        BY Sizes DEF TypeOK
    <2> QED
        BY <1>1, <2>1, <2>2, <2>3
<1>7. ASSUME NEW l \in Live, EndLive(l) PROVE FilesInv'
    BY <1>1, <1>7 DEF EndLive, capVars
<1>8. CASE Over \/ UNCHANGED vars
    BY <1>1, <1>8 DEF Over, vars, capVars
<1> QED
    BY <1>3, <1>4, <1>5, <1>6, <1>7, <1>8, WriteFiles, TruncateFiles DEF Next, Session

-----------------------------------------------------------------------------
LEMMA InitCaptures == Init => CapturesInv
<1> SUFFICES ASSUME Init PROVE CapturesInv
    OBVIOUS
<1>1. TypeOK /\ AccountInv
    BY InitType, InitAccount
<1>2. Captures \subseteq AllCaptures /\ Live \subseteq AllLive
    BY Sizes DEF Init
<1>3. LiveKnown
    BY <1>2 DEF Init, LiveKnown
<1>4. \A c \in Captures : lines[c] = 0 /\ 1 .. lines[c] = {}
    BY <1>2 DEF Init
<1>5. LinesOfTasks /\ CapturesKept
    BY <1>4 DEF LinesOfTasks, CapturesKept
<1> QED
    BY <1>1, <1>3, <1>5 DEF CapturesInv, FilesInv

LEMMA CapturesInvariant == Spec => []CapturesInv
<1>1. Init => CapturesInv
    BY InitCaptures
<1>2. CapturesInv /\ [Next]_vars => CapturesInv'
    <2> SUFFICES ASSUME CapturesInv, [Next]_vars PROVE CapturesInv'
        OBVIOUS
    <2>1. TypeOK /\ AccountInv /\ LiveKnown /\ FilesInv /\ TurnIsCapture
        BY DEF CapturesInv, AccountInv
    <2> QED
        BY <2>1, NextType, NextAccount, NextLive, NextFiles DEF CapturesInv
<1> QED
    BY <1>1, <1>2, PTL DEF Spec

\* The state of the session and of its tasks keeps its type.
THEOREM LogTypesCorrect == Spec => []TypeOK
<1>1. CapturesInv => TypeOK
    BY DEF CapturesInv
<1> QED
    BY <1>1, CapturesInvariant, PTL

\* When finish() returns, start_active_logs and finalize_active_logs have
\* reported every capture once, however many there are and whichever of their
\* steps failed.
THEOREM CapturesAllReported == Spec => []EveryCaptureReported
<1>1. CapturesInv => EveryCaptureReported
    <2> SUFFICES ASSUME CapturesInv, stage = "over"
                 PROVE  \/ \A c \in Captures : Cardinality(ReportsOf(c)) = 1
                        \/ /\ Captures # {}
                           /\ [i \in DOMAIN reports |-> reports[i].capture] = <<0>>
        BY DEF EveryCaptureReported
    <2>1. CASE OneForAll
        <3>1. reports \in Seq([capture : Captures \cup {0}, slot : 0 .. slots - 1,
                               status : {"passed", "failed"}])
            BY DEF CapturesInv, TypeOK
        <3>2. DOMAIN reports = 1 .. 1 /\ reports[1].capture = 0
            BY <2>1, <3>1 DEF OneForAll
        <3>3. [i \in DOMAIN reports |-> reports[i].capture] = <<0>>
            BY <3>2
        <3> QED
            BY <3>3
    <2>2. CASE Accounted
        <3>1. Begun = Captures /\ Pending = {}
            BY DEF CapturesInv, AccountInv, OwnedAtFirst, Begun, Pending, First
        <3>2. \A c \in Captures : \E i \in DOMAIN reports : ReportsOf(c) = {i}
            BY <2>2, <3>1 DEF Accounted
        <3> QED
            BY <3>2, FS_Singleton
    <2> QED
        BY <2>1, <2>2 DEF CapturesInv, AccountInv
<1> QED
    BY <1>1, CapturesInvariant, PTL

\* A capture that was started is reported when its task is over, and as failed
\* exactly if the task ended in an error.
THEOREM CapturesReportedTruly == Spec => []CaptureReportsFaithful
<1>1. CapturesInv => CaptureReportsFaithful
    BY DEF CapturesInv, AccountInv
<1> QED
    BY <1>1, CapturesInvariant, PTL

\* No task outlives finish() but the live logs whose handles a failed
\* start_live_logs has dropped.
THEOREM LogTasksEnd == Spec => []TasksEnd
<1>1. CapturesInv => TasksEnd
    <2> SUFFICES ASSUME CapturesInv, stage = "over"
                 PROVE  /\ \A c \in Captures : capture[c] \notin Running
                        /\ \A l \in Live : live[l] = "streaming" => l \in lost
        BY DEF TasksEnd
    <2>1. Pending = {}
        BY DEF CapturesInv, AccountInv, OwnedAtFirst, Pending, First
    <2> QED
        BY <2>1 DEF CapturesInv, AccountInv, TasksOwned, LiveKnown
<1> QED
    BY <1>1, CapturesInvariant, PTL

\* An output has of each capture an end without gaps, and all of the captures
\* of the last slot.
THEOREM OutputsKeepTheEnd == Spec => []CapturesKept
<1>1. CapturesInv => CapturesKept
    BY DEF CapturesInv, FilesInv
<1> QED
    BY <1>1, CapturesInvariant, PTL
=============================================================================
