---------------------------- MODULE LogCaptures ------------------------------
(***************************************************************************)
(* The log tasks of an EnvironmentSession (cli/src/environment.rs): the    *)
(* captures of redis monitors, which write to files under                  *)
(* .testrunner/reports, and the live logs of --follow-logs, which print.   *)
(* prepare() starts them when the runtime is ready, the tasks run beside   *)
(* the units, and finish() stops them when it has removed the containers   *)
(* or kept them.                                                           *)
(*                                                                         *)
(* The session has a runtime: without one nothing is started. A line that  *)
(* is captured stands for itself. What is printed, the sizes of files and  *)
(* the wording of reports are left out, and so is a panic of a task. That  *)
(* prepare() fails earlier and how finish() collects and removes is        *)
(* RunLifecycle.                                                           *)
(***************************************************************************)
EXTENDS Naturals, Sequences, FiniteSets

CONSTANTS
    MaxSlots,       \* the slots of a run, at most
    NumMonitors,    \* the redis_monitor entries under `logs:`
    NumLive,        \* the other entries, which are followed
    MaxLines        \* bound: the commands that one redis reports

ASSUME CountsAssumption ==
    /\ MaxSlots \in Nat \ {0}
    /\ {NumMonitors, NumLive, MaxLines} \subseteq Nat

VARIABLES
    slots,      \* the number of slots
    follow,     \* --follow-logs
    stage,      \* where prepare() and finish() are
    turn,       \* the spec that a loop of theirs is at
    capture,    \* capture[c]: the task of the capture c
    live,       \* live[l]: the task of the live log l
    owned,      \* self.active_logs
    liveOwned,  \* self.live_logs
    reports,    \* the reports of captures, as pushed
    lines,      \* lines[c]: how many lines capture c has written
    file,       \* file[o]: the lines in output o
    aborted,    \* the tasks of captures that were told to abort
    lost        \* history: the live logs that ran when start_live_logs failed

capVars == <<capture, owned, reports, lines, file, aborted>>
liveVars == <<live, liveOwned, lost>>
vars == <<slots, follow, stage, turn, capVars, liveVars>>

\* resolve_active_log_specs and resolve_live_log_specs: for each slot, the
\* entries of the environment in order.
AllCaptures == 1 .. MaxSlots * NumMonitors
AllLive == 1 .. MaxSlots * NumLive
Captures == 1 .. slots * NumMonitors
Live == 1 .. slots * NumLive
SlotOf(c) == (c - 1) \div NumMonitors

\* The output of a capture is the one of its entry, for every slot.
Output(c) == ((c - 1) % NumMonitors) + 1

Outputs == 1 .. NumMonitors

Running == {"opening", "streaming"}
Stages == {"resolve", "truncate", "exec", "live", "units", "unprepared", "stop", "aborting",
           "stop live", "over"}

Report(c, status) == [capture |-> c, slot |-> SlotOf(c), status |-> status]

-----------------------------------------------------------------------------
Init ==
    /\ slots \in 1 .. MaxSlots
    /\ follow \in BOOLEAN
    /\ stage = "resolve" /\ turn = 1
    /\ capture = [c \in AllCaptures |-> "none"]
    /\ live = [l \in AllLive |-> "none"]
    /\ owned = <<>> /\ liveOwned = {}
    /\ reports = <<>>
    /\ lines = [c \in AllCaptures |-> 0]
    /\ file = [o \in Outputs |-> {}]
    /\ aborted = {}
    /\ lost = {}

Go(next, n) == stage' = next /\ turn' = n /\ UNCHANGED <<slots, follow>>

\* start_active_logs and start_live_logs go from spec to spec.
NextCapture == IF turn < slots * NumMonitors THEN Go("truncate", turn + 1) ELSE Go("live", 1)

\* start_active_logs up to its loop. An error of the specs is one report for
\* the environment, one of Docker a report for each capture.
ResolveCaptures ==
    /\ stage = "resolve"
    /\ \/ /\ Go(IF Captures = {} THEN "live" ELSE "truncate", 1)
          /\ UNCHANGED reports
       \/ /\ Go("live", 1)
          /\ reports' = <<[capture |-> 0, slot |-> 0, status |-> "failed"]>>
       \/ /\ Go("live", 1)
          /\ reports' = [c \in Captures |-> Report(c, "failed")]
    /\ UNCHANGED <<capture, owned, lines, file, aborted, liveVars>>

\* Mutation: a failure that is only logged.
SkipQuietly ==
    /\ stage = "truncate"
    /\ NextCapture
    /\ UNCHANGED <<capVars, liveVars>>

\* start_active_logs: no slot, no container or no output for the next spec.
Skip ==
    /\ stage = "truncate"
    /\ NextCapture
    /\ reports' = Append(reports, Report(turn, "failed"))
    /\ UNCHANGED <<capture, owned, lines, file, aborted, liveVars>>

\* prepare_active_output_path: the file is there and empty.
Truncate ==
    /\ stage = "truncate"
    /\ Go("exec", turn)
    /\ file' = [file EXCEPT ![Output(turn)] = {}]
    /\ UNCHANGED <<capture, owned, reports, lines, aborted, liveVars>>

\* start_redis_monitor_capture: docker_exec_stream, and the task.
StartCapture ==
    /\ stage = "exec"
    /\ NextCapture
    /\ \/ /\ capture' = [capture EXCEPT ![turn] = "opening"]
          /\ owned' = Append(owned, turn)
          /\ UNCHANGED reports
       \/ /\ reports' = Append(reports, Report(turn, "failed"))
          /\ UNCHANGED <<capture, owned>>
    /\ UNCHANGED <<lines, file, aborted, liveVars>>

\* start_live_logs: nothing to follow, or all are followed.
LiveReady ==
    /\ stage = "live"
    /\ ~follow \/ turn > slots * NumLive
    /\ Go("units", 1)
    /\ liveOwned' = {l \in Live : live[l] # "none"}
    /\ UNCHANGED <<capVars, live, lost>>

\* start_live_log_task, with await_live_tail_ready for a file.
StartLive ==
    /\ stage = "live" /\ follow /\ turn <= slots * NumLive
    /\ Go("live", turn + 1)
    /\ live' = [live EXCEPT ![turn] = "streaming"]
    /\ UNCHANGED <<capVars, liveOwned, lost>>

\* A `?` in start_live_logs returns at once. The handles so far are dropped,
\* and dropping the handle of a task leaves the task running. prepare() fails.
LiveFails ==
    /\ stage = "live" /\ follow
    /\ turn = 1 \/ turn <= slots * NumLive
    /\ Go("unprepared", 1)
    /\ lost' = {l \in Live : live[l] # "none"}
    /\ UNCHANGED <<capVars, live, liveOwned>>

-----------------------------------------------------------------------------
(* The tasks.                                                              *)

TaskGoes(c, next) == capture' = [capture EXCEPT ![c] = next]

\* Mutation: the file is opened without `append`.
OpenFileAnew(c) ==
    /\ capture[c] = "opening"
    /\ TaskGoes(c, "streaming")
    /\ file' = [file EXCEPT ![Output(c)] = {}]
    /\ UNCHANGED <<slots, follow, stage, turn, owned, reports, lines, aborted, liveVars>>

\* The file is opened for `append`.
OpenFile(c) ==
    /\ capture[c] = "opening"
    /\ TaskGoes(c, "streaming") \/ TaskGoes(c, "error")
    /\ UNCHANGED <<slots, follow, stage, turn, owned, reports, lines, file, aborted, liveVars>>

\* A line of the stream, at the end of the file.
WriteLine(c) ==
    /\ capture[c] = "streaming" /\ lines[c] < MaxLines
    /\ lines' = [lines EXCEPT ![c] = @ + 1]
    /\ file' = [file EXCEPT ![Output(c)] = @ \cup {<<c, lines[c] + 1>>}]
    /\ UNCHANGED <<slots, follow, stage, turn, capture, owned, reports, aborted, liveVars>>

\* The stream ends, as it does when its container is removed, and the file is
\* flushed; or the stream, a write or the flush fails.
EndStream(c) ==
    /\ capture[c] = "streaming"
    /\ TaskGoes(c, "ended") \/ TaskGoes(c, "error")
    /\ UNCHANGED <<slots, follow, stage, turn, owned, reports, lines, file, aborted, liveVars>>

\* A task that was told to abort stops at its next await, unless it ends first.
Cancel(c) ==
    /\ c \in aborted /\ capture[c] \in Running
    /\ TaskGoes(c, "cancelled")
    /\ UNCHANGED <<slots, follow, stage, turn, owned, reports, lines, file, aborted, liveVars>>

\* The stream of a live log ends or fails.
EndLive(l) ==
    /\ live[l] = "streaming"
    /\ live' = [live EXCEPT ![l] = "ended"]
    /\ UNCHANGED <<slots, follow, stage, turn, capVars, liveOwned, lost>>

-----------------------------------------------------------------------------
(* finish(), after the units or after a prepare() that failed.             *)

\* collect_logs and shutdown: the containers go or stay, which the tasks see
\* at most by the ends of their streams.
Shutdown ==
    /\ stage \in {"units", "unprepared"}
    /\ Go("stop", 1)
    /\ UNCHANGED <<capVars, liveVars>>

\* Mutation: whatever ends a capture that was told to abort counts as passed.
VerdictUnlessAborted(c) ==
    Report(c, IF capture[c] = "error" /\ c \notin aborted THEN "failed" ELSE "passed")

Verdict(c) == Report(c, IF capture[c] = "error" THEN "failed" ELSE "passed")

\* stop_active_log_handles: a task is over by itself within two seconds, or
\* after it was told to abort.
Join ==
    /\ stage \in {"stop", "aborting"} /\ turn <= Len(owned)
    /\ capture[owned[turn]] \notin Running
    /\ reports' = Append(reports, Verdict(owned[turn]))
    /\ Go("stop", turn + 1)
    /\ UNCHANGED <<capture, owned, lines, file, aborted, liveVars>>

\* Mutation: the two seconds are over, and the task is only waited for.
TimeoutWaits ==
    /\ stage = "stop" /\ turn <= Len(owned)
    /\ capture[owned[turn]] \in Running
    /\ Go("aborting", turn)
    /\ UNCHANGED <<capVars, liveVars>>

\* The two seconds are over and the task is not.
Timeout ==
    /\ stage = "stop" /\ turn <= Len(owned)
    /\ capture[owned[turn]] \in Running
    /\ aborted' = aborted \cup {owned[turn]}
    /\ Go("aborting", turn)
    /\ UNCHANGED <<capture, owned, reports, lines, file, liveVars>>

\* finalize_active_logs is done; the handles are taken.
CapturesStopped ==
    /\ stage = "stop" /\ turn > Len(owned)
    /\ Go("stop live", 1)
    /\ owned' = <<>>
    /\ UNCHANGED <<capture, reports, lines, file, aborted, liveVars>>

\* Mutation: the handles of live logs are dropped.
StopLiveLater ==
    /\ stage = "stop live"
    /\ Go("over", 1)
    /\ liveOwned' = {}
    /\ UNCHANGED <<capVars, live, lost>>

\* stop_live_log_handles: each is told to abort and awaited.
StopLive ==
    /\ stage = "stop live"
    /\ Go("over", 1)
    /\ live' = [l \in AllLive |-> IF l \in liveOwned THEN "ended" ELSE live[l]]
    /\ liveOwned' = {}
    /\ UNCHANGED <<capVars, lost>>

\* finish() has returned, and the process may go on for a while.
Over == stage = "over" /\ UNCHANGED vars

Session ==
    \/ ResolveCaptures \/ Skip \/ Truncate \/ StartCapture
    \/ StartLive \/ LiveReady \/ LiveFails
    \/ Shutdown \/ Join \/ Timeout \/ CapturesStopped \/ StopLive

Next ==
    \/ Session
    \/ \E c \in Captures : OpenFile(c) \/ WriteLine(c) \/ EndStream(c) \/ Cancel(c)
    \/ \E l \in Live : EndLive(l)
    \/ Over

Spec == Init /\ [][Next]_vars

\* The session goes on, and tokio stops a task that it was told to abort. No
\* stream has to end: a container that is kept goes on for ever.
FairSpec ==
    /\ Spec
    /\ WF_vars(Session)
    /\ \A c \in AllCaptures : WF_vars(c \in Captures /\ Cancel(c))

-----------------------------------------------------------------------------
TypeOK ==
    /\ slots \in 1 .. MaxSlots /\ follow \in BOOLEAN
    /\ stage \in Stages /\ turn \in Nat \ {0}
    /\ capture \in [AllCaptures -> Running \cup {"none", "ended", "error", "cancelled"}]
    /\ live \in [AllLive -> {"none", "streaming", "ended"}]
    /\ owned \in Seq(Captures) /\ aborted \subseteq Captures
    /\ liveOwned \subseteq Live /\ lost \subseteq Live
    /\ reports \in Seq([capture : Captures \cup {0}, slot : 0 .. slots - 1,
                        status : {"passed", "failed"}])
    /\ lines \in [AllCaptures -> 0 .. MaxLines]
    /\ file \in [Outputs -> SUBSET (AllCaptures \X (1 .. MaxLines))]

ReportsOf(c) == {i \in DOMAIN reports : reports[i].capture = c}

\* Every capture has one report when finish() returns, whichever of its steps
\* failed; only an error of the specs is one report for all.
EveryCaptureReported ==
    stage = "over" =>
        \/ \A c \in Captures : Cardinality(ReportsOf(c)) = 1
        \/ Captures # {} /\ [i \in DOMAIN reports |-> reports[i].capture] = <<0>>

\* The report of a capture that was started says failed exactly if its task
\* ended in an error, also when it did so while it was told to abort.
CaptureReportsFaithful ==
    \A i \in DOMAIN reports :
        LET c == reports[i].capture
        IN  c # 0 /\ capture[c] # "none" =>
                /\ capture[c] \notin Running
                /\ reports[i].status = "failed" <=> capture[c] = "error"

\* When finish() returns no capture runs any more, and no live log but those
\* that a failed start_live_logs has lost.
TasksEnd ==
    stage = "over" =>
        /\ \A c \in Captures : capture[c] \notin Running
        /\ \A l \in Live : live[l] = "streaming" => l \in lost

\* finish() returns though captures and live logs never end by themselves.
FinishReturns == stage \in {"units", "unprepared"} ~> stage = "over"

\* The slots write to one file (docs/guide/project-structure.md wants a file of
\* each slot), so what earlier slots have written goes when a later one is
\* started. Once the last one is, all that is written stays, and of each
\* capture the file holds an end without gaps.
CapturesKept ==
    \A c \in Captures :
        LET kept == {n \in 1 .. lines[c] : <<c, n>> \in file[Output(c)]}
        IN  /\ \A n \in kept : n .. lines[c] \subseteq kept
            /\ SlotOf(c) = slots - 1 => kept = 1 .. lines[c]
=============================================================================
