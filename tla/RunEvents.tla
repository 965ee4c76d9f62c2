------------------------------ MODULE RunEvents ------------------------------
(***************************************************************************)
(* The event log of one run of the web UI: RunHandle, start_run,           *)
(* execute_child_run and stream_run_events of cli/src/web.rs. The task     *)
(* that supervises the child process and the two tasks that forward its    *)
(* output push events; a push draws a sequence number, stores the event in *)
(* a bounded log under a mutex and sends it on a broadcast channel of      *)
(* bounded capacity, in three steps. A page that connects subscribes to    *)
(* the channel, copies the log, shows the copy and then what it receives.  *)
(*                                                                         *)
(* An event is its sequence number. One connection of the page is          *)
(* modelled; one that breaks and is made again is another that starts from *)
(* the log. The child process is external: how many lines it writes and    *)
(* how it ends is free.                                                    *)
(***************************************************************************)
EXTENDS Naturals, Sequences, FiniteSets, SequencesExt, FiniteSetsExt

CONSTANTS
    Supervisor,     \* the task of execute_child_run
    Stdout, Stderr, \* the outputs of the child, each with its forward_output
    MaxLines,       \* the bound on the lines of each
    MaxStored,      \* MAX_STORED_EVENTS
    Capacity        \* of the broadcast channel

ASSUME WritersAssumption == Cardinality({Supervisor, Stdout, Stderr}) = 3
ASSUME BoundsAssumption ==
    MaxLines \in Nat /\ MaxStored \in Nat \ {0, 1} /\ Capacity \in Nat \ {0}

VARIABLES
    nextSeq,    \* next_seq
    push,       \* push[w]: the push that w is in: its event and what comes next
    kind,       \* the kinds of the events drawn
    events,     \* the log
    sent,       \* what was sent on tx; the channel holds the last Capacity of it
    stage,      \* where the supervisor is
    forwarder,  \* forwarder[s]: the task of stream s
    lines,      \* the lines that are left in s, at most
    page,       \* the connection of the page
    backlog,    \* its copy of the log, as far as it is not shown
    received,   \* how much of `sent` its receiver has gone past
    lastSeq,    \* last_seq, 0 for None
    shown,      \* what was shown, in order
    raced,      \* history: two pushes overlapped
    lagged      \* history: the receiver lagged

log == <<nextSeq, kind, events, sent>>
child == <<stage, forwarder, lines>>
view == <<page, backlog, received, lastSeq, shown, lagged>>
vars == <<log, push, child, view, raced>>

Streams == {Stdout, Stderr}
Writers == Streams \cup {Supervisor}
Idle == [seq |-> 0, next |-> "draw"]

Stages == {"new", "spawn", "unspawned", "forward", "wait", "join", "error", "finished"}

\* The kinds of events that are told apart: "finished" ends the log of a run.
Kinds == {"line", "finished", "other"}

-----------------------------------------------------------------------------
Init ==
    /\ nextSeq = 1 /\ kind = <<>>
    /\ push = [w \in Writers |-> Idle]
    /\ events = <<>> /\ sent = <<>>
    /\ stage = "new"
    /\ forwarder = [s \in Streams |-> "none"]
    /\ lines = [s \in Streams |-> MaxLines]
    /\ page = "away" /\ backlog = <<>> /\ received = 0 /\ lastSeq = 0 /\ shown = <<>>
    /\ raced = FALSE /\ lagged = FALSE

\* start_run: the command and a status are pushed before anyone else has the
\* handle, then the run is put into state.runs.
StartRun ==
    /\ stage = "new"
    /\ nextSeq' = 3 /\ kind' = <<"other", "other">>
    /\ events' = <<1, 2>> /\ sent' = <<1, 2>>
    /\ stage' = "spawn"
    /\ UNCHANGED <<push, forwarder, lines, view, raced>>

\* push_event by w, first step: fetch_add.
Draw(w, k) ==
    /\ push[w] = Idle
    /\ push' = [push EXCEPT ![w] = [seq |-> nextSeq, next |-> "store"]]
    /\ nextSeq' = nextSeq + 1
    /\ kind' = Append(kind, k)
    /\ raced' = (raced \/ \E v \in Writers : push[v] # Idle)
    /\ UNCHANGED <<events, sent, view>>

\* The event is in the log: `kept` is the log then.
Stored(w, kept) ==
    /\ push[w].next = "store"
    /\ events' = kept
    /\ push' = [push EXCEPT ![w].next = "send"]
    /\ UNCHANGED <<nextSeq, kind, sent, child, view, raced>>

\* Second step: the event is pushed under the mutex, the oldest one drained.
Store(w) ==
    LET all == Append(events, push[w].seq)
    IN  Stored(w, IF Len(all) > MaxStored THEN Tail(all) ELSE all)

\* Last step: tx.send.
Send(w) ==
    /\ push[w].next = "send"
    /\ sent' = Append(sent, push[w].seq)
    /\ push' = [push EXCEPT ![w] = Idle]
    /\ UNCHANGED <<nextSeq, kind, events, child, view, raced>>

-----------------------------------------------------------------------------
\* execute_child_run: the child does not start and that is an error, or its
\* process id, if it has one, is a status.
Spawn ==
    /\ stage = "spawn"
    /\ \/ Draw(Supervisor, "other") /\ stage' \in {"unspawned", "forward"}
       \/ stage' = "forward" /\ UNCHANGED <<log, push, view, raced>>
    /\ UNCHANGED <<forwarder, lines>>

\* The outputs are forwarded, each by a task of its own.
Forward ==
    /\ stage = "forward" /\ push[Supervisor] = Idle
    /\ forwarder' = [s \in Streams |-> "running"]
    /\ stage' = "wait"
    /\ UNCHANGED <<log, push, lines, view, raced>>

\* forward_output: a line is pushed.
Line(s) ==
    /\ forwarder[s] = "running" /\ lines[s] > 0
    /\ Draw(s, "line")
    /\ lines' = [lines EXCEPT ![s] = @ - 1]
    /\ UNCHANGED <<stage, forwarder>>

\* The output is at its end, or cannot be read.
EndOfStream(s) ==
    /\ forwarder[s] = "running" /\ push[s] = Idle
    /\ forwarder' = [forwarder EXCEPT ![s] = "over"]
    /\ UNCHANGED <<log, push, stage, lines, view, raced>>

\* child.wait().
ChildExits ==
    /\ stage = "wait"
    /\ stage' = "join"
    /\ UNCHANGED <<log, push, forwarder, lines, view, raced>>

\* One of the output tasks is joined in its turn, which is an error when it
\* failed.
JoinOutput ==
    /\ stage = "join" /\ push[Supervisor] = Idle
    /\ \E s \in Streams :
        /\ forwarder[s] = "over"
        /\ s = Stderr => forwarder[Stdout] = "joined"
        /\ forwarder' = [forwarder EXCEPT ![s] = "joined"]
    /\ \/ Draw(Supervisor, "other")
       \/ UNCHANGED <<log, push, view, raced>>
    /\ UNCHANGED <<stage, lines>>

\* The wait itself failed.
WaitError ==
    /\ stage = "join"
    /\ \A s \in Streams : forwarder[s] = "joined"
    /\ Draw(Supervisor, "other")
    /\ stage' = "error"
    /\ UNCHANGED <<forwarder, lines>>

Finish ==
    /\ Draw(Supervisor, "finished")
    /\ stage' = "finished"
    /\ UNCHANGED <<forwarder, lines>>

\* Mutation: the exit of the child is the end of its output.
FinishedAtExit == stage \in {"join", "error", "unspawned"} /\ Finish

\* The end of the run is the last event to be pushed.
Finished ==
    /\ \/ stage \in {"error", "unspawned"}
       \/ stage = "join" /\ \A s \in Streams : forwarder[s] = "joined"
    /\ Finish

-----------------------------------------------------------------------------
\* snapshot_and_subscribe: first the receiver.
Subscribe ==
    /\ page = "away" /\ stage # "new"
    /\ page' = "subscribed"
    /\ received' = Len(sent)
    /\ UNCHANGED <<log, push, child, backlog, lastSeq, shown, lagged, raced>>

\* Then the copy, under the mutex.
Snapshot ==
    /\ page = "subscribed"
    /\ page' = "open"
    /\ backlog' = events
    /\ UNCHANGED <<log, push, child, received, lastSeq, shown, lagged, raced>>

\* The page shows an event, and closes the stream on "finished".
Show(e) ==
    /\ shown' = Append(shown, e)
    /\ lastSeq' = e
    /\ page' = IF kind[e] = "finished" THEN "closed" ELSE "open"

ShowBacklog ==
    /\ page = "open" /\ backlog # <<>>
    /\ Show(Head(backlog))
    /\ backlog' = Tail(backlog)
    /\ UNCHANGED <<log, push, child, received, lagged, raced>>

\* The receiver is at an event that the channel still holds.
InChannel == received < Len(sent) /\ Len(sent) - received <= Capacity

Upcoming == sent[received + 1]

ReceiveIf(wanted) ==
    /\ page = "open" /\ backlog = <<>> /\ InChannel
    /\ received' = received + 1
    /\ IF wanted THEN Show(Upcoming) ELSE UNCHANGED <<shown, lastSeq, page>>
    /\ UNCHANGED <<log, push, child, backlog, lagged, raced>>

\* Mutation: what was in the log is shown again.
ReceiveAgain == ReceiveIf(TRUE)

\* The next event of the channel; one that is not past last_seq is skipped.
Receive == ReceiveIf(Upcoming > lastSeq)

\* What becomes of a receiver that the channel has left behind.
Behind(then) ==
    /\ page = "open" /\ backlog = <<>>
    /\ Len(sent) - received > Capacity
    /\ lagged' = TRUE
    /\ page' = then
    /\ received' = Len(sent) - Capacity
    /\ UNCHANGED <<log, push, child, backlog, lastSeq, shown, raced>>

\* Mutation: the stream ends on any error of the receiver.
LagCloses == Behind("cut")

\* RecvError::Lagged: it goes on with the oldest event that the channel holds.
Lag == Behind("open")

Supervise ==
    \/ StartRun \/ Spawn \/ Forward \/ ChildExits \/ JoinOutput \/ WaitError \/ Finished

Read == Snapshot \/ ShowBacklog \/ Receive \/ Lag

Next ==
    \/ Supervise
    \/ \E w \in Writers : Store(w) \/ Send(w)
    \/ \E s \in Streams : Line(s) \/ EndOfStream(s)
    \/ Subscribe \/ Read

Spec == Init /\ [][Next]_vars

\* The tasks of the server go on, and the child ends: its run is bounded.
Fairness ==
    /\ WF_vars(Supervise)
    /\ \A w \in Writers : WF_vars(Store(w) \/ Send(w))
    /\ \A s \in Streams : WF_vars(EndOfStream(s))
    /\ WF_vars(Read)

FairSpec == Spec /\ Fairness

-----------------------------------------------------------------------------
Drawn == 1 .. nextSeq - 1

TypeOK ==
    /\ nextSeq \in Nat
    /\ kind \in Seq(Kinds) /\ Len(kind) = nextSeq - 1
    /\ push \in [Writers -> [seq : Drawn \cup {0}, next : {"draw", "store", "send"}]]
    /\ {events, sent, backlog, shown} \subseteq Seq(Drawn)
    /\ Len(events) <= MaxStored
    /\ stage \in Stages
    /\ forwarder \in [Streams -> {"none", "running", "over", "joined"}]
    /\ lines \in [Streams -> 0 .. MaxLines]
    /\ page \in {"away", "subscribed", "open", "closed"}
    /\ received \in 0 .. Len(sent)
    /\ lastSeq \in Drawn \cup {0}

\* The end of the run comes after every other event, in the log, in the channel
\* and on the page, which shows it once: no line of output follows it.
FinishedIsLast ==
    \A s \in {events, sent, shown} : \A i \in DOMAIN s :
        kind[s[i]] = "finished" => i = Len(s) /\ s[i] = nextSeq - 1

\* Where no two pushes overlapped and the receiver did not lag, the page shows
\* every event from the first one it has, each once and in order, whenever it
\* connected: nothing falls between the copy of the log and the channel.
NothingBetween ==
    ~raced /\ ~lagged =>
        \A i \in DOMAIN shown : i > 1 => shown[i] = shown[i - 1] + 1

\* A page that connects is told of the end of the run, however far it lags,
\* and its stream is closed only then.
PageSeesFinished ==
    page = "subscribed" ~> page = "closed"

\* The page shows the stdout and stderr of the child (docs/guide/cli.md): all of
\* it, for a page that connected before the first line and never lagged.
OutputShown ==
    page = "closed" /\ ~lagged /\ shown[1] = 1 =>
        \A e \in Drawn : kind[e] = "line" => e \in ToSet(shown)
=============================================================================
