-------------------------- MODULE RunEvents_proofs --------------------------
(***************************************************************************)
(* For every number of lines, size of the log and capacity of the channel: *)
(* the end of a run is its last event, and a page that was not left behind *)
(* shows the events without a gap.                                         *)
(***************************************************************************)
EXTENDS RunEvents, FiniteSetTheorems, TLAPS

Final(e) == kind[e] = "finished"

\* A push is of an event that was drawn.
PushesDrawn == \A w \in Writers :
    push[w] = Idle \/ (push[w].seq \in Drawn /\ push[w].next \in {"store", "send"})

\* An output is pushed by its running task, which runs between Forward and the end of
\* the run.
TasksRun ==
    /\ \A s \in Streams : forwarder[s] # "running" => push[s] = Idle
    /\ stage \in {"new", "spawn", "unspawned", "forward"} =>
            \A s \in Streams : forwarder[s] = "none"
    /\ stage = "error" => \A s \in Streams : forwarder[s] = "joined"
    /\ stage = "finished" => \A s \in Streams : forwarder[s] \in {"none", "joined"}

\* Before its start nobody has the run.
NewIsEmpty ==
    /\ stage = "new" => push[Supervisor] = Idle /\ nextSeq = 1 /\ page = "away"
    /\ stage # "new" => events # <<>>

\* What is pushed is not yet where it is going to.
PushedOnce ==
    /\ \A v, w \in Writers : v # w /\ push[v] # Idle /\ push[w] # Idle =>
            push[v].seq # push[w].seq
    /\ \A w \in Writers :
        /\ push[w].next = "store" => \A i \in DOMAIN events : events[i] # push[w].seq
        /\ push[w].next \in {"store", "send"} => \A i \in DOMAIN sent : sent[i] # push[w].seq

\* The end of the run is drawn once, after everything else.
FinalIsLatest ==
    /\ \A e \in Drawn : Final(e) => stage = "finished" /\ e = nextSeq - 1
    /\ stage = "finished" => push[Supervisor] = Idle \/ push[Supervisor].seq = nextSeq - 1

FinalAtEnd ==
    /\ \A i \in DOMAIN events : Final(events[i]) => i = Len(events)
    /\ \A i \in DOMAIN sent : Final(sent[i]) => i = Len(sent)
    /\ \A i \in DOMAIN shown : Final(shown[i]) => i = Len(shown) /\ page = "closed"

FinalInv ==
    /\ PushesDrawn /\ TasksRun /\ NewIsEmpty /\ PushedOnce /\ FinalIsLatest /\ FinalAtEnd

-----------------------------------------------------------------------------
(***************************************************************************)
(* What the steps of a push do.                                            *)
(***************************************************************************)

LEMMA Writing == Supervisor \in Writers /\ Supervisor \notin Streams /\ Streams \subseteq Writers
<1>1. ASSUME Supervisor \in Streams PROVE FALSE
    <2>1. {Supervisor, Stdout, Stderr} = {Stderr} \cup {Stdout}
        BY <1>1 DEF Streams
    <2>2. IsFiniteSet({Stderr}) /\ Cardinality({Stderr}) = 1
        BY FS_Singleton
    <2>3. Cardinality({Stderr} \cup {Stdout}) \in {1, 2}
        BY <2>2, FS_AddElement
    <2> QED
        BY <2>1, <2>3, WritersAssumption
<1> QED
    BY <1>1 DEF Writers

\* An event that is drawn is new, and the others stay what they are.
LEMMA DrawDoes ==
    ASSUME TypeOK, NEW w \in Writers, NEW k \in Kinds, Draw(w, k)
    PROVE  /\ nextSeq \in Nat \ {0} /\ nextSeq' = nextSeq + 1
           /\ Drawn' = Drawn \cup {nextSeq} /\ nextSeq \notin Drawn
           /\ kind' \in Seq(Kinds) /\ Len(kind') = nextSeq' - 1
           /\ kind'[nextSeq] = k /\ \A e \in Drawn : kind'[e] = kind[e]
           /\ push[w] = Idle /\ push'[w] = [seq |-> nextSeq, next |-> "store"]
           /\ \A v \in Writers : v # w => push'[v] = push[v]
           /\ push' \in [Writers -> [seq : Drawn' \cup {0}, next : {"draw", "store", "send"}]]
           /\ UNCHANGED <<events, sent, view>>
<1>1. /\ nextSeq' = nextSeq + 1 /\ kind' = Append(kind, k) /\ push[w] = Idle
      /\ push' = [push EXCEPT ![w] = [seq |-> nextSeq, next |-> "store"]]
      /\ UNCHANGED <<events, sent, view>>
    BY DEF Draw
<1>2. nextSeq \in Nat /\ kind \in Seq(Kinds) /\ Len(kind) = nextSeq - 1
    BY DEF TypeOK
<1>3. nextSeq \in Nat \ {0} /\ nextSeq = Len(kind) + 1
    BY <1>2
<1>4. Drawn = 1 .. Len(kind) /\ Drawn' = Drawn \cup {nextSeq} /\ nextSeq \notin Drawn
    BY <1>1, <1>3 DEF Drawn
<1>5. /\ kind' \in Seq(Kinds) /\ Len(kind') = nextSeq' - 1
      /\ kind'[nextSeq] = k /\ \A e \in Drawn : kind'[e] = kind[e]
    BY <1>1, <1>2, <1>3, <1>4
<1>6. push \in [Writers -> [seq : Drawn' \cup {0}, next : {"draw", "store", "send"}]]
    BY <1>4 DEF TypeOK
<1>7. [seq |-> nextSeq, next |-> "store"]
            \in [seq : Drawn' \cup {0}, next : {"draw", "store", "send"}]
    BY <1>4
<1> QED
    BY <1>1, <1>3, <1>4, <1>5, <1>6, <1>7

\* What stays typed as more is drawn.
LEMMA DrawnGrows ==
    ASSUME Drawn \subseteq Drawn', NEW s \in Seq(Drawn)
    PROVE  s \in Seq(Drawn')
<1>1. Len(s) \in Nat /\ s \in [1 .. Len(s) -> Drawn]
    OBVIOUS
<1>2. s \in [1 .. Len(s) -> Drawn']
    BY <1>1
<1> QED
    BY <1>1, <1>2

-----------------------------------------------------------------------------
(***************************************************************************)
(* Types.                                                                  *)
(***************************************************************************)

ChildTyped ==
    /\ stage \in Stages
    /\ forwarder \in [Streams -> {"none", "running", "over", "joined"}]
    /\ lines \in [Streams -> 0 .. MaxLines]

LogTyped ==
    /\ nextSeq \in Nat /\ kind \in Seq(Kinds) /\ Len(kind) = nextSeq - 1
    /\ push \in [Writers -> [seq : Drawn \cup {0}, next : {"draw", "store", "send"}]]
    /\ events \in Seq(Drawn) /\ Len(events) <= MaxStored
    /\ sent \in Seq(Drawn)

ViewTyped ==
    /\ backlog \in Seq(Drawn) /\ shown \in Seq(Drawn)
    /\ page \in {"away", "subscribed", "open", "closed"}
    /\ received \in 0 .. Len(sent)
    /\ lastSeq \in Drawn \cup {0}

LEMMA TypeParts == TypeOK <=> ChildTyped /\ LogTyped /\ ViewTyped
BY DEF TypeOK, ChildTyped, LogTyped, ViewTyped

LEMMA InitType == Init => TypeOK
<1> SUFFICES ASSUME Init PROVE TypeOK
    OBVIOUS
<1>1. ChildTyped
    BY BoundsAssumption DEF Init, ChildTyped, Stages
<1>2. LogTyped
    BY BoundsAssumption DEF Init, LogTyped, Idle, Drawn
<1>3. ViewTyped
    BY DEF Init, ViewTyped
<1> QED
    BY <1>1, <1>2, <1>3, TypeParts

LEMMA NextChildTyped ==
    ASSUME TypeOK, [Next]_vars
    PROVE  ChildTyped'
<1> USE DEF TypeOK, ChildTyped, Stages
<1>1. CASE StartRun \/ Spawn \/ Forward \/ ChildExits \/ WaitError \/ Finished
    BY <1>1 DEF StartRun, Spawn, Forward, ChildExits, WaitError, Finished, Finish, Streams
<1>2. CASE JoinOutput
    BY <1>2 DEF JoinOutput
<1>3. CASE \E s \in Streams : Line(s) \/ EndOfStream(s)
    <2>1. PICK s \in Streams : Line(s) \/ EndOfStream(s)
        BY <1>3
    <2>2. lines[s] > 0 => lines[s] - 1 \in 0 .. MaxLines
        BY BoundsAssumption
    <2> QED
        BY <2>1, <2>2 DEF Line, EndOfStream
<1>4. CASE UNCHANGED child
    BY <1>4 DEF child
<1> QED
    BY <1>1, <1>2, <1>3, <1>4 DEF Next, Supervise, Store, Stored, Send, Subscribe, Read,
            Snapshot, ShowBacklog, Receive, ReceiveIf, Lag, Behind, vars

\* The steps that change the log, a push of it, or neither.
LEMMA LogSteps ==
    ASSUME [Next]_vars
    PROVE  \/ StartRun
           \/ \E w \in Writers, k \in Kinds : Draw(w, k)
           \/ \E w \in Writers : Store(w)
           \/ \E w \in Writers : Send(w)
           \/ UNCHANGED <<log, push>>
BY Writing DEF Next, vars, Supervise, Spawn, Forward, ChildExits, JoinOutput, WaitError, Finished,
       Finish, Line, EndOfStream, Subscribe, Read, Snapshot, ShowBacklog, Receive, ReceiveIf, Lag,
       Behind, Kinds

LEMMA NextLogTyped ==
    ASSUME TypeOK, FinalInv, [Next]_vars
    PROVE  LogTyped' /\ Drawn \subseteq Drawn'
<1>0. LogTyped
    BY TypeParts
<1>1. CASE StartRun
    <2>1. nextSeq = 1
        BY <1>1 DEF StartRun, FinalInv, NewIsEmpty
    <2>2. Drawn = {} /\ Drawn' = {1, 2}
        BY <1>1, <2>1 DEF StartRun, Drawn
    <2>3. push' \in [Writers -> [seq : Drawn' \cup {0}, next : {"draw", "store", "send"}]]
        BY <1>0, <1>1, <2>2 DEF StartRun, LogTyped
    <2>4. kind' \in Seq(Kinds) /\ Len(kind') = nextSeq' - 1 /\ nextSeq' \in Nat
        BY <1>1 DEF StartRun, Kinds
    <2>5. events' \in Seq(Drawn') /\ Len(events') <= MaxStored /\ sent' \in Seq(Drawn')
        BY <1>1, <2>2, BoundsAssumption DEF StartRun
    <2> QED
        BY <2>2, <2>3, <2>4, <2>5 DEF LogTyped
<1>2. CASE \E w \in Writers, k \in Kinds : Draw(w, k)
    <2>1. PICK w \in Writers, k \in Kinds : Draw(w, k)
        BY <1>2
    <2>2. Drawn \subseteq Drawn' /\ nextSeq' \in Nat
        BY <2>1, DrawDoes
    <2>3. events' \in Seq(Drawn') /\ sent' \in Seq(Drawn')
        BY <1>0, <2>1, <2>2, DrawDoes, DrawnGrows DEF LogTyped
    <2> QED
        BY <1>0, <2>1, <2>2, <2>3, DrawDoes DEF LogTyped
<1>3. CASE \E w \in Writers : Store(w)
    <2>1. PICK w \in Writers : Store(w)
        BY <1>3
    <2> DEFINE all == Append(events, push[w].seq)
    <2>2. push[w].next = "store" /\ UNCHANGED <<nextSeq, kind, sent>>
          /\ push' = [push EXCEPT ![w].next = "send"]
          /\ events' = IF Len(all) > MaxStored THEN Tail(all) ELSE all
        BY <2>1 DEF Store, Stored
    <2>3. push[w].seq \in Drawn
        BY <2>2 DEF FinalInv, PushesDrawn, Idle
    <2>4. all \in Seq(Drawn) /\ Len(all) = Len(events) + 1 /\ Len(events) \in Nat
        BY <1>0, <2>3 DEF LogTyped
    <2> HIDE DEF all
    <2>5. events' \in Seq(Drawn) /\ Len(events') <= MaxStored
        BY <1>0, <2>2, <2>4, BoundsAssumption DEF LogTyped
    <2>6. Drawn' = Drawn
        BY <2>2 DEF Drawn
    <2> QED
        BY <1>0, <2>2, <2>5, <2>6 DEF LogTyped
<1>4. CASE \E w \in Writers : Send(w)
    <2>1. PICK w \in Writers : Send(w)
        BY <1>4
    <2>2. push[w].next = "send" /\ UNCHANGED <<nextSeq, kind, events>>
          /\ push' = [push EXCEPT ![w] = Idle] /\ sent' = Append(sent, push[w].seq)
        BY <2>1 DEF Send
    <2>3. push[w].seq \in Drawn
        BY <2>2 DEF FinalInv, PushesDrawn, Idle
    <2>4. Drawn' = Drawn
        BY <2>2 DEF Drawn
    <2> QED
        BY <1>0, <2>2, <2>3, <2>4 DEF LogTyped, Idle
<1>5. CASE UNCHANGED <<log, push>>
    BY <1>0, <1>5 DEF LogTyped, log, Drawn
<1> QED
    BY <1>1, <1>2, <1>3, <1>4, <1>5, LogSteps

LEMMA NextViewTyped ==
    ASSUME TypeOK, FinalInv, [Next]_vars
    PROVE  ViewTyped'
<1>0. ViewTyped /\ LogTyped /\ Drawn \subseteq Drawn'
    BY TypeParts, NextLogTyped
<1>1. CASE UNCHANGED view
    <2>1. backlog' \in Seq(Drawn') /\ shown' \in Seq(Drawn')
        BY <1>0, <1>1, DrawnGrows DEF ViewTyped, view
    <2>2. Len(sent) <= Len(sent') /\ Len(sent') \in Nat /\ Len(sent) \in Nat
        <3>1. CASE StartRun
            BY <1>0, <3>1 DEF StartRun, FinalInv, NewIsEmpty, LogTyped, Drawn
        <3>2. CASE sent' = sent
            BY <1>0, <3>2 DEF LogTyped
        <3>3. CASE \E w \in Writers : Send(w)
            BY <1>0, <3>3 DEF LogTyped, Send
        <3>4. CASE \E w \in Writers, k \in Kinds : Draw(w, k)
            BY <1>0, <3>4 DEF LogTyped, Draw
        <3> QED
            BY <3>1, <3>2, <3>3, <3>4, LogSteps DEF Store, Stored, log
    <2> QED
        BY <1>0, <1>1, <2>1, <2>2 DEF ViewTyped, view
<1>2. CASE UNCHANGED <<log, push>>
    <2>1. /\ UNCHANGED <<nextSeq, kind, events, sent>> /\ Drawn' = Drawn
          /\ Len(sent) \in Nat
        BY <1>0, <1>2 DEF log, Drawn, LogTyped
    <2>2. CASE Subscribe \/ Snapshot
        BY <1>0, <2>1, <2>2 DEF Subscribe, Snapshot, ViewTyped, LogTyped
    <2>3. CASE ShowBacklog
        BY <1>0, <2>1, <2>3 DEF ShowBacklog, Show, ViewTyped
    <2>4. CASE Receive
        <3>1. received < Len(sent) /\ received' = received + 1 /\ Upcoming \in Drawn
            BY <1>0, <2>1, <2>4 DEF Receive, ReceiveIf, InChannel, Upcoming, ViewTyped, LogTyped
        <3>2. received' \in 0 .. Len(sent)
            BY <1>0, <2>1, <3>1 DEF ViewTyped
        <3>3. \/ Show(Upcoming) /\ UNCHANGED backlog
              \/ UNCHANGED <<shown, lastSeq, page, backlog>>
            BY <2>4 DEF Receive, ReceiveIf
        <3>4. CASE Show(Upcoming) /\ UNCHANGED backlog
            <4>1. shown' \in Seq(Drawn) /\ lastSeq' \in Drawn /\ page' \in {"open", "closed"}
                BY <1>0, <3>1, <3>4 DEF Show, ViewTyped
            <4> QED
                BY <1>0, <2>1, <3>2, <3>4, <4>1 DEF ViewTyped
        <3> QED
            BY <1>0, <2>1, <3>2, <3>3, <3>4 DEF ViewTyped
    <2>5. CASE Lag
        <3>1. received' = Len(sent) - Capacity /\ received' > received
            BY <1>0, <2>1, <2>5, BoundsAssumption DEF Lag, Behind, ViewTyped
        <3>2. received' \in 0 .. Len(sent)
            BY <1>0, <2>1, <3>1, BoundsAssumption DEF ViewTyped
        <3> QED
            BY <1>0, <2>1, <2>5, <3>2 DEF Lag, Behind, ViewTyped
    <2> QED
        BY <1>1, <1>2, <2>2, <2>3, <2>4, <2>5 DEF Next, vars, log, Supervise, Spawn, Forward, ChildExits,
           JoinOutput, WaitError, Finished, Finish, Draw, Store, Stored, Send, StartRun, Line,
           EndOfStream, Read
<1> QED
    BY <1>1, <1>2 DEF Next, vars, Supervise, Spawn, Forward, ChildExits, JoinOutput, WaitError,
       Finished, Finish, Draw, Store, Stored, Send, StartRun, Line, EndOfStream, Read, Subscribe,
       Snapshot, ShowBacklog, Receive, ReceiveIf, Lag, Behind

-----------------------------------------------------------------------------
(***************************************************************************)
(* The end of the run.                                                     *)
(***************************************************************************)

LEMMA InitFinal == Init => FinalInv
<1> SUFFICES ASSUME Init PROVE FinalInv
    OBVIOUS
<1>1. PushesDrawn /\ TasksRun /\ NewIsEmpty
    BY Writing DEF Init, PushesDrawn, TasksRun, NewIsEmpty
<1>2. PushedOnce /\ FinalIsLatest /\ FinalAtEnd
    BY DEF Init, Drawn, Idle, PushedOnce, FinalIsLatest, FinalAtEnd
<1> QED
    BY <1>1, <1>2 DEF FinalInv

LEMMA NextTasks ==
    ASSUME TypeOK, FinalInv, [Next]_vars
    PROVE  TasksRun'
<1>0. TasksRun /\ TypeOK
    BY DEF FinalInv
<1>1. ASSUME NEW w \in Writers, Store(w) \/ Send(w) PROVE TasksRun'
    <2>1. push[w] # Idle /\ UNCHANGED <<stage, forwarder>>
          /\ \A v \in Writers : v # w => push'[v] = push[v]
        BY <1>0, <1>1 DEF Store, Stored, Send, Idle, child, TypeOK
    <2> QED
        BY <1>0, <2>1, Writing DEF TasksRun
<1>2. ASSUME NEW s \in Streams, Line(s) \/ EndOfStream(s) PROVE TasksRun'
    <2>1. CASE Line(s)
        BY <1>0, <2>1, Writing DEF Line, Draw, TasksRun, TypeOK
    <2>2. CASE EndOfStream(s)
        BY <1>0, <2>2, Writing DEF EndOfStream, TasksRun, TypeOK
    <2> QED
        BY <1>2, <2>1, <2>2
<1>3. CASE Supervise
    <2>1. \A s \in Streams : push'[s] = push[s]
        BY <1>0, <1>3, Writing DEF Supervise, StartRun, Spawn, Forward, ChildExits, JoinOutput, WaitError,
            Finished, Finish, Draw, TypeOK
    <2>2. CASE JoinOutput
        BY <1>0, <2>1, <2>2 DEF JoinOutput, TasksRun, TypeOK
    <2>3. CASE Forward \/ StartRun \/ Spawn
        BY <1>0, <2>1, <2>3 DEF Forward, StartRun, Spawn, TasksRun, TypeOK
    <2>4. CASE Finished
        BY <1>0, <2>1, <2>4 DEF Finished, Finish, TasksRun
    <2>5. CASE ChildExits \/ WaitError
        BY <1>0, <2>1, <2>5 DEF ChildExits, WaitError, TasksRun
    <2> QED
        BY <1>3, <2>2, <2>3, <2>4, <2>5 DEF Supervise
<1>4. CASE UNCHANGED <<child, push>>
    BY <1>0, <1>4 DEF child, TasksRun
<1> QED
    BY <1>1, <1>2, <1>3, <1>4 DEF Next, vars, log, Subscribe, Read, Snapshot, ShowBacklog, Receive,
       ReceiveIf, Lag, Behind

\* When an event is drawn, and by whom.
DrawnWhile(w, k) ==
    /\ stage # "new" /\ stage # "finished"
    /\ stage' = "finished" <=> k = "finished"
    /\ k = "finished" => w = Supervisor
    /\ stage' # "new"

LEMMA LogStages ==
    ASSUME TypeOK, FinalInv, [Next]_vars
    PROVE  \/ StartRun
           \/ \E w \in Writers, k \in Kinds : Draw(w, k) /\ DrawnWhile(w, k)
           \/ \E w \in Writers : Store(w)
           \/ \E w \in Writers : Send(w)
           \/ /\ UNCHANGED <<log, push>>
              /\ stage' = "finished" <=> stage = "finished"
              /\ stage' = "new" <=> stage = "new"
<1> USE Writing DEF DrawnWhile, Kinds
<1>1. ASSUME NEW s \in Streams, Line(s) PROVE Draw(s, "line") /\ DrawnWhile(s, "line")
    BY <1>1 DEF Line, FinalInv, TasksRun
<1>2. ASSUME NEW s \in Streams, EndOfStream(s) PROVE UNCHANGED <<log, push, stage>>
    BY <1>2 DEF EndOfStream
<1>3. CASE Spawn \/ JoinOutput
    BY <1>3 DEF Spawn, JoinOutput
<1>4. CASE WaitError \/ Finished
    BY <1>4 DEF WaitError, Finished, Finish
<1>5. CASE Forward \/ ChildExits
    BY <1>5 DEF Forward, ChildExits
<1>6. CASE Subscribe \/ Read \/ UNCHANGED vars
    BY <1>6 DEF Subscribe, Read, Snapshot, ShowBacklog, Receive, ReceiveIf, Lag, Behind, vars, log,
                child
<1> QED
    BY <1>1, <1>2, <1>3, <1>4, <1>5, <1>6 DEF Next, Supervise

LEMMA NextPushes ==
    ASSUME TypeOK, FinalInv, [Next]_vars
    PROVE  PushesDrawn' /\ PushedOnce' /\ FinalIsLatest'
<1>0. /\ LogTyped /\ PushesDrawn /\ PushedOnce /\ FinalIsLatest /\ TasksRun /\ NewIsEmpty
      /\ nextSeq \in Nat
    BY TypeParts DEF FinalInv, LogTyped
<1>1. CASE StartRun
    <2>1. /\ \A w \in Writers : push[w] = Idle
          /\ push' = push /\ kind' = <<"other", "other">> /\ nextSeq' = 3 /\ stage' = "spawn"
        BY <1>0, <1>1 DEF StartRun, NewIsEmpty, TasksRun, Writers
    <2> QED
        BY <2>1 DEF PushesDrawn, PushedOnce, FinalIsLatest, Final, Drawn, Idle
<1>2. CASE \E w \in Writers, k \in Kinds : Draw(w, k) /\ DrawnWhile(w, k)
    <2>1. PICK w \in Writers, k \in Kinds : Draw(w, k) /\ DrawnWhile(w, k)
        BY <1>2
    <2>2. /\ nextSeq' = nextSeq + 1 /\ Drawn' = Drawn \cup {nextSeq} /\ nextSeq \notin Drawn
          /\ kind'[nextSeq] = k /\ \A e \in Drawn : kind'[e] = kind[e]
          /\ push[w] = Idle /\ push'[w] = [seq |-> nextSeq, next |-> "store"]
          /\ \A v \in Writers : v # w => push'[v] = push[v]
          /\ events' = events /\ sent' = sent
        BY <2>1, DrawDoes
    <2>3. PushesDrawn'
        BY <1>0, <2>2 DEF PushesDrawn
    <2>4. /\ \A i \in DOMAIN events : events[i] \in Drawn
          /\ \A i \in DOMAIN sent : sent[i] \in Drawn
        BY <1>0 DEF LogTyped
    <2>5. \A v \in Writers : push[v] # Idle => push[v].seq # nextSeq
        BY <1>0, <2>2 DEF PushesDrawn
    <2>6. PushedOnce'
        <3>1. ASSUME NEW u \in Writers, NEW v \in Writers, u # v, push'[u] # Idle, push'[v] # Idle
              PROVE  push'[u].seq # push'[v].seq
            BY <1>0, <2>2, <2>5, <3>1 DEF PushedOnce
        <3>2. ASSUME NEW v \in Writers
              PROVE  /\ push'[v].next = "store" => \A i \in DOMAIN events : events[i] # push'[v].seq
                     /\ push'[v].next \in {"store", "send"} =>
                            \A i \in DOMAIN sent : sent[i] # push'[v].seq
            BY <1>0, <2>2, <2>4 DEF PushedOnce
        <3> QED
            BY <2>2, <3>1, <3>2 DEF PushedOnce
    <2>7. FinalIsLatest'
        <3>1. \A e \in Drawn : kind[e] # "finished"
            BY <1>0, <2>1 DEF FinalIsLatest, Final, DrawnWhile
        <3>2. \A e \in Drawn' : kind'[e] = "finished" => e = nextSeq /\ stage' = "finished"
            BY <2>1, <2>2, <3>1 DEF DrawnWhile
        <3>3. stage' = "finished" => w = Supervisor
            BY <2>1 DEF DrawnWhile
        <3>4. nextSeq' - 1 = nextSeq
            BY <1>0, <2>2
        <3> QED
            BY <2>2, <3>2, <3>3, <3>4 DEF FinalIsLatest, Final
    <2> QED
        BY <2>3, <2>6, <2>7
<1>3. CASE \E w \in Writers : Store(w)
    <2>1. PICK w \in Writers : Store(w)
        BY <1>3
    <2>2. /\ push[w].next = "store" /\ UNCHANGED <<nextSeq, kind, sent, stage>>
          /\ push'[w] = [push[w] EXCEPT !.next = "send"]
          /\ \A v \in Writers : v # w => push'[v] = push[v]
          /\ events' = IF Len(Append(events, push[w].seq)) > MaxStored
                       THEN Tail(Append(events, push[w].seq)) ELSE Append(events, push[w].seq)
        BY <1>0, <2>1 DEF Store, Stored, LogTyped, child
    <2>3. /\ push[w] # Idle /\ push'[w] # Idle /\ push'[w].seq = push[w].seq
          /\ push'[w].next = "send" /\ push[w].seq \in Drawn /\ Drawn' = Drawn
        BY <1>0, <2>2 DEF PushesDrawn, Idle, Drawn, LogTyped
    <2>4. \A i \in DOMAIN events' : events'[i] = push[w].seq \/ \E j \in DOMAIN events : events'[i] = events[j]
        BY <1>0, <2>2 DEF LogTyped
    <2>5. /\ PushesDrawn /\ FinalIsLatest
          /\ UNCHANGED <<nextSeq, kind, sent, stage>> /\ push[w].next = "store"
          /\ \A v \in Writers : v # w => push'[v] = push[v]
        BY <1>0, <2>2
    <2>6. PushesDrawn' /\ FinalIsLatest'
        <3>1. PushesDrawn'
            BY <2>3, <2>5 DEF PushesDrawn
        <3>2. \A e \in Drawn' : Final(e)' => stage' = "finished" /\ e = nextSeq' - 1
            BY <2>3, <2>5 DEF FinalIsLatest, Final
        <3>3. stage' = "finished" => push'[Supervisor] = Idle \/ push'[Supervisor].seq = nextSeq' - 1
            BY <2>3, <2>5, Writing DEF FinalIsLatest
        <3> QED
            BY <3>1, <3>2, <3>3 DEF FinalIsLatest
    <2>7. ASSUME NEW u \in Writers, NEW v \in Writers, u # v, push'[u] # Idle, push'[v] # Idle
          PROVE  push'[u].seq # push'[v].seq
        <3>1. push[u] # Idle /\ push[v] # Idle
            BY <2>3, <2>5, <2>7
        <3>2. push'[u].seq = push[u].seq /\ push'[v].seq = push[v].seq
            BY <2>3, <2>5
        <3> QED
            BY <1>0, <2>7, <3>1, <3>2 DEF PushedOnce
    <2>8. ASSUME NEW v \in Writers
          PROVE  /\ push'[v].next = "store" => \A i \in DOMAIN events' : events'[i] # push'[v].seq
                 /\ push'[v].next \in {"store", "send"} =>
                        \A i \in DOMAIN sent : sent[i] # push'[v].seq
        <3>1. CASE v = w
            <4>1. \A i \in DOMAIN sent : sent[i] # push[w].seq
                BY <1>0, <2>5 DEF PushedOnce
            <4> QED
                BY <2>3, <3>1, <4>1
        <3>2. CASE v # w
            <4>1. push'[v] = push[v]
                BY <2>5, <3>2
            <4>2. push[v].next = "store" => push[v].seq # push[w].seq
                BY <1>0, <2>3, <3>2 DEF PushedOnce, Idle
            <4> QED
                BY <1>0, <2>4, <4>1, <4>2 DEF PushedOnce
        <3> QED
            BY <3>1, <3>2
    <2>9. PushedOnce'
        BY <2>5, <2>7, <2>8 DEF PushedOnce
    <2> QED
        BY <2>6, <2>9
<1>4. CASE \E w \in Writers : Send(w)
    <2>1. PICK w \in Writers : Send(w)
        BY <1>4
    <2>2. /\ push[w].next = "send" /\ UNCHANGED <<nextSeq, kind, events, stage>>
          /\ push'[w] = Idle /\ \A v \in Writers : v # w => push'[v] = push[v]
          /\ sent' = Append(sent, push[w].seq)
        BY <1>0, <2>1 DEF Send, LogTyped, child
    <2>3. push[w] # Idle /\ push[w].seq \in Drawn /\ Drawn' = Drawn /\ Idle.next = "draw"
        BY <1>0, <2>2 DEF PushesDrawn, Idle, Drawn
    <2>4. \A i \in DOMAIN sent' : sent'[i] = push[w].seq \/ \E j \in DOMAIN sent : sent'[i] = sent[j]
        BY <1>0, <2>2 DEF LogTyped
    <2>5. PushesDrawn' /\ FinalIsLatest'
        <3>1. PushesDrawn'
            BY <1>0, <2>2, <2>3 DEF PushesDrawn
        <3>2. \A e \in Drawn' : Final(e)' => stage' = "finished" /\ e = nextSeq' - 1
            BY <1>0, <2>2, <2>3 DEF FinalIsLatest, Final
        <3>3. stage' = "finished" => push'[Supervisor] = Idle \/ push'[Supervisor].seq = nextSeq' - 1
            BY <1>0, <2>2, <2>3, Writing DEF FinalIsLatest
        <3> QED
            BY <3>1, <3>2, <3>3 DEF FinalIsLatest
    <2>6. ASSUME NEW v \in Writers, v # w, push[v].next \in {"store", "send"}
          PROVE  push[v].seq # push[w].seq
        BY <1>0, <2>3, <2>6 DEF PushedOnce, Idle
    <2>7. PushedOnce'
        BY <1>0, <2>2, <2>3, <2>4, <2>6 DEF PushedOnce
    <2> QED
        BY <2>5, <2>7
<1>5. CASE UNCHANGED <<log, push>> /\ (stage' = "finished" <=> stage = "finished")
    BY <1>0, <1>5 DEF PushesDrawn, PushedOnce, FinalIsLatest, Final, Drawn, log
<1> QED
    BY <1>1, <1>2, <1>3, <1>4, <1>5, LogStages

LEMMA NextNew ==
    ASSUME TypeOK, FinalInv, [Next]_vars
    PROVE  NewIsEmpty'
<1>0. /\ TypeOK /\ NewIsEmpty /\ TasksRun
      /\ stage = "new" => \A w \in Writers : push[w] = Idle
    BY DEF FinalInv, NewIsEmpty, TasksRun, Writers
<1>1. CASE StartRun
    BY <1>1 DEF StartRun, NewIsEmpty
<1>2. ASSUME NEW w \in Writers, Store(w) PROVE NewIsEmpty'
    <2>1. stage # "new" /\ stage' = stage
        BY <1>0, <1>2 DEF Store, Stored, Idle, child
    <2>2. events # <<>> /\ events \in Seq(Drawn)
        BY <1>0, <2>1 DEF NewIsEmpty, TypeOK
    <2>3. events' # <<>>
        BY <1>2, <2>2, BoundsAssumption DEF Store, Stored
    <2> QED
        BY <2>1, <2>3 DEF NewIsEmpty
<1>3. ASSUME ~StartRun, \A w \in Writers : ~Store(w) PROVE NewIsEmpty'
    <2>1. events' = events /\ (stage' = "new" <=> stage = "new")
        BY <1>0, <1>3 DEF NewIsEmpty, TasksRun, Next, Supervise, Spawn, Forward, ChildExits, JoinOutput,
           WaitError, Finished, Finish, Draw, Send, Line, EndOfStream, Subscribe, Read, Snapshot,
           ShowBacklog, Receive, ReceiveIf, Lag, Behind, vars, log, child
    <2>2. ASSUME stage = "new" PROVE UNCHANGED vars
        <3>1. \A s \in Streams : ~Line(s) /\ ~EndOfStream(s)
            BY <1>0, <2>2 DEF TasksRun, Line, EndOfStream
        <3>2. \A w \in Writers : ~Send(w)
            BY <1>0, <2>2 DEF Send, Idle
        <3>3. ~Supervise
            BY <1>3, <2>2 DEF Supervise, Spawn, Forward, ChildExits, JoinOutput, WaitError, Finished
        <3>4. ~Subscribe /\ ~Read
            BY <1>0, <2>2 DEF NewIsEmpty, Subscribe, Read, Snapshot, ShowBacklog, Receive, ReceiveIf,
                              Lag, Behind
        <3> QED
            BY <1>3, <3>1, <3>2, <3>3, <3>4 DEF Next
    <2> QED
        BY <1>0, <2>1, <2>2 DEF NewIsEmpty, vars, log, view
<1> QED
    BY <1>1, <1>2, <1>3

\* Before the push of the end of the run there is none in the log or the channel.
LEMMA FinalIsPushed ==
    ASSUME TypeOK, FinalInv, NEW w \in Writers, push[w] # Idle
    PROVE  /\ push[w].next = "store" => \A i \in DOMAIN events : ~Final(events[i])
           /\ push[w].next \in {"store", "send"} => \A i \in DOMAIN sent : ~Final(sent[i])
<1>1. /\ \A i \in DOMAIN events : events[i] \in Drawn
      /\ \A i \in DOMAIN sent : sent[i] \in Drawn
    BY DEF TypeOK
<1>2. ASSUME stage = "finished" PROVE w = Supervisor /\ push[w].seq = nextSeq - 1
    BY <1>2 DEF FinalInv, TasksRun, FinalIsLatest, Writers
<1> QED
    BY <1>1, <1>2 DEF FinalInv, FinalIsLatest, PushedOnce

LEMMA NextAtEnd ==
    ASSUME TypeOK, FinalInv, [Next]_vars
    PROVE  FinalAtEnd'
<1>0. /\ FinalAtEnd /\ events \in Seq(Drawn) /\ sent \in Seq(Drawn) /\ shown \in Seq(Drawn)
      /\ Len(events) \in Nat /\ Len(sent) \in Nat /\ Len(shown) \in Nat
      /\ backlog \in Seq(Drawn) /\ received \in 0 .. Len(sent)
    BY DEF FinalInv, TypeOK
<1>1. CASE StartRun
    <2>1. shown = <<>>
        <3>1. Drawn = {}
            BY <1>1 DEF StartRun, FinalInv, NewIsEmpty, Drawn
        <3>2. \A i \in 1 .. Len(shown) : shown[i] \in {}
            BY <1>0, <3>1
        <3> QED
            BY <1>0, <3>2
    <2> QED
        BY <1>1, <2>1 DEF StartRun, FinalAtEnd, Final, view
<1>2. CASE \E w \in Writers, k \in Kinds : Draw(w, k)
    <2>1. PICK w \in Writers, k \in Kinds : Draw(w, k)
        BY <1>2
    <2>2. UNCHANGED <<events, sent, shown, page>> /\ \A e \in Drawn : kind'[e] = kind[e]
        BY <2>1, DrawDoes DEF view
    <2>3. /\ \A i \in DOMAIN events : events[i] \in Drawn
          /\ \A i \in DOMAIN sent : sent[i] \in Drawn
          /\ \A i \in DOMAIN shown : shown[i] \in Drawn
        BY <1>0
    <2> QED
        BY <1>0, <2>2, <2>3 DEF FinalAtEnd, Final
<1>3. CASE \E w \in Writers : Store(w)
    <2>1. PICK w \in Writers : Store(w)
        BY <1>3
    <2> DEFINE n == push[w].seq
               all == Append(events, n)
    <2>2. /\ push[w].next = "store" /\ UNCHANGED <<kind, sent, shown, page>>
          /\ events' = IF Len(all) > MaxStored THEN Tail(all) ELSE all
        BY <2>1 DEF Store, Stored, view
    <2>3. \A i \in DOMAIN events : ~Final(events[i])
        BY <2>2, FinalIsPushed DEF Idle
    <2>4. n \in Drawn
        BY <2>2 DEF FinalInv, PushesDrawn, Idle
    <2> HIDE DEF n
    <2>5. all \in Seq(Drawn) /\ Len(all) = Len(events) + 1
          /\ \A i \in 1 .. Len(all) : i < Len(all) => ~Final(all[i])
        BY <1>0, <2>3, <2>4
    <2> HIDE DEF all
    <2>6. \A i \in 1 .. Len(all) - 1 : i + 1 \in 1 .. Len(all) /\ Tail(all)[i] = all[i + 1]
        BY <1>0, <2>5
    <2>7. Len(Tail(all)) = Len(all) - 1 /\ Tail(all) \in Seq(Drawn)
        BY <1>0, <2>5
    <2>8. \A i \in DOMAIN events' : Final(events'[i]) => i = Len(events')
        <3>1. CASE events' = all
            BY <2>5, <3>1
        <3>2. CASE events' = Tail(all)
            BY <1>0, <2>5, <2>6, <2>7, <3>2
        <3> QED
            BY <2>2, <3>1, <3>2
    <2> QED
        BY <1>0, <2>2, <2>8 DEF FinalAtEnd, Final
<1>4. CASE \E w \in Writers : Send(w)
    <2>1. PICK w \in Writers : Send(w)
        BY <1>4
    <2>2. /\ push[w].next = "send" /\ UNCHANGED <<kind, events, shown, page>>
          /\ sent' = Append(sent, push[w].seq)
        BY <2>1 DEF Send, view
    <2>3. \A i \in DOMAIN sent : ~Final(sent[i])
        BY <2>2, FinalIsPushed DEF Idle
    <2>4. \A i \in DOMAIN sent' : Final(sent'[i]) => i = Len(sent')
        BY <1>0, <2>2, <2>3
    <2> QED
        BY <1>0, <2>2, <2>4 DEF FinalAtEnd, Final
<1>5. CASE UNCHANGED <<log, push>>
    <2>1. UNCHANGED <<kind, events, sent>>
        BY <1>5 DEF log
    <2>2. ASSUME NEW e \in Drawn, Show(e), page = "open" PROVE FinalAtEnd'
        <3>1. shown' = Append(shown, e) /\ \A i \in DOMAIN shown : ~Final(shown[i])
            BY <1>0, <2>2 DEF Show, FinalAtEnd
        <3>2. \A i \in DOMAIN shown' : Final(shown'[i]) => i = Len(shown') /\ shown'[i] = e
            BY <1>0, <3>1
        <3>3. Final(e) => page' = "closed"
            BY <2>2 DEF Show, Final
        <3> QED
            BY <1>0, <2>1, <3>2, <3>3 DEF FinalAtEnd, Final
    <2>3. CASE ShowBacklog
        <3>1. Head(backlog) \in Drawn
            BY <1>0, <2>3 DEF ShowBacklog
        <3> QED
            BY <2>2, <2>3, <3>1 DEF ShowBacklog
    <2>4. CASE Receive
        <3>1. Upcoming \in Drawn
            BY <1>0, <2>4 DEF Receive, ReceiveIf, InChannel, Upcoming
        <3>2. CASE Upcoming > lastSeq
            BY <2>2, <2>4, <3>1, <3>2 DEF Receive, ReceiveIf
        <3>3. CASE ~(Upcoming > lastSeq)
            BY <1>0, <2>1, <2>4, <3>3 DEF Receive, ReceiveIf, FinalAtEnd, Final
        <3> QED
            BY <3>2, <3>3
    <2>5. CASE ~ (ShowBacklog \/ Receive)
        <3>1. shown' = shown /\ (page = "closed" => page' = "closed")
            BY <2>5 DEF Next, vars, view, Supervise, StartRun, Spawn, Forward, ChildExits, JoinOutput,
               WaitError, Finished, Finish, Draw, Store, Stored, Send, Line, EndOfStream, Subscribe,
               Read, Snapshot, Lag, Behind
        <3> QED
            BY <1>0, <2>1, <3>1 DEF FinalAtEnd, Final
    <2> QED
        BY <2>3, <2>4, <2>5
<1> QED
    BY <1>1, <1>2, <1>3, <1>4, <1>5, LogSteps

LEMMA FinalInvariant == Spec => [](TypeOK /\ FinalInv)
<1>1. TypeOK /\ FinalInv /\ [Next]_vars => (TypeOK /\ FinalInv)'
    <2> SUFFICES ASSUME TypeOK, FinalInv, [Next]_vars PROVE TypeOK' /\ FinalInv'
        OBVIOUS
    <2>1. TypeOK'
        BY NextChildTyped, NextLogTyped, NextViewTyped DEF TypeOK, ChildTyped, LogTyped, ViewTyped
    <2>2. FinalInv'
        BY NextTasks, NextPushes, NextNew, NextAtEnd DEF FinalInv
    <2> QED
        BY <2>1, <2>2
<1> QED
    BY <1>1, InitType, InitFinal, PTL DEF Spec

\* The log, the pushes and the connection have their types in every state of every
\* run.
THEOREM RunEventsTypeCorrect == Spec => []TypeOK
BY FinalInvariant, PTL

\* The end of a run is its last event in the log, in the channel and on the page,
\* however the pushes of the three tasks interleave.
THEOREM FinishedComesLast == Spec => []FinishedIsLast
<1>1. TypeOK /\ FinalInv => FinishedIsLast
    <2> SUFFICES ASSUME TypeOK, FinalInv,
                        NEW s \in {events, sent, shown}, NEW i \in DOMAIN s, Final(s[i])
                 PROVE  i = Len(s) /\ s[i] = nextSeq - 1
        BY DEF FinishedIsLast, Final
    <2>1. s[i] \in Drawn
        BY DEF TypeOK
    <2> QED
        BY <2>1 DEF FinalInv, FinalAtEnd, FinalIsLatest
<1> QED
    BY <1>1, FinalInvariant, PTL

-----------------------------------------------------------------------------
(***************************************************************************)
(* Nothing between the copy of the log and the channel.                    *)
(***************************************************************************)

Consecutive(s) == \A i \in DOMAIN s : i > 1 => s[i] = s[i - 1] + 1

\* Pushes that do not overlap: the channel has every event in order, up to the one
\* being pushed, and the log the latest of them.
OneAtATime ==
    ~raced =>
        /\ \A v, w \in Writers : push[v] # Idle /\ push[w] # Idle => v = w
        /\ \A w \in Writers : push[w] # Idle => push[w].seq = nextSeq - 1

ChannelInOrder ==
    ~raced =>
        /\ \A i \in DOMAIN sent : sent[i] = i
        /\ (\A w \in Writers : push[w] = Idle) => Len(sent) = nextSeq - 1
        /\ (\E w \in Writers : push[w] # Idle) => Len(sent) = nextSeq - 2

LogInOrder ==
    ~raced /\ events # <<>> =>
        /\ Consecutive(events)
        /\ (\A w \in Writers : push[w].next # "store") => events[Len(events)] = nextSeq - 1
        /\ (\E w \in Writers : push[w].next = "store") => events[Len(events)] = nextSeq - 2

\* The copy goes on where the page is, and reaches what was sent before it.
PageInOrder ==
    ~raced /\ ~lagged =>
        /\ Consecutive(shown)
        /\ shown # <<>> => lastSeq = shown[Len(shown)]
        /\ page \in {"away", "subscribed"} => shown = <<>>
        /\ page = "open" /\ backlog = <<>> => received <= lastSeq
        /\ page = "open" /\ backlog # <<>> =>
                /\ Consecutive(backlog) /\ received <= backlog[Len(backlog)]
                /\ shown # <<>> => backlog[1] = lastSeq + 1

OrderInv == OneAtATime /\ ChannelInOrder /\ LogInOrder /\ PageInOrder

LEMMA EmptyIsZero ==
    ASSUME NEW S, NEW s \in Seq(S)
    PROVE  s = <<>> <=> Len(s) = 0
OBVIOUS

LEMMA ConsecutiveAppend ==
    ASSUME NEW S \in SUBSET Nat, NEW s \in Seq(S), NEW e \in S, Consecutive(s),
           s # <<>> => e = s[Len(s)] + 1
    PROVE  /\ Append(s, e) \in Seq(S) /\ Append(s, e) # <<>>
           /\ Len(Append(s, e)) = Len(s) + 1
           /\ Append(s, e)[Len(Append(s, e))] = e
           /\ Consecutive(Append(s, e))
<1> DEFINE n == Len(s)
           t == Append(s, e)
<1>1. /\ t \in Seq(S) /\ Len(t) = n + 1 /\ n \in Nat /\ t[n + 1] = e
      /\ \A i \in 1 .. n : t[i] = s[i]
      /\ DOMAIN s = 1 .. n /\ DOMAIN t = 1 .. n + 1
    <2>1. t \in Seq(S) /\ Len(t) = n + 1 /\ n \in Nat /\ DOMAIN s = 1 .. n
        OBVIOUS
    <2>2. t[n + 1] = e /\ \A i \in 1 .. n : t[i] = s[i]
        OBVIOUS
    <2>3. DOMAIN t = 1 .. n + 1
        BY <2>1
    <2> QED
        BY <2>1, <2>2, <2>3
<1>2. /\ \A i \in 1 .. n : i > 1 => s[i] = s[i - 1] + 1
      /\ n > 0 => e = s[n] + 1
      /\ t # <<>>
    <2>1. \A i \in 1 .. n : i > 1 => s[i] = s[i - 1] + 1
        BY <1>1 DEF Consecutive
    <2>2. (n > 0 => s # <<>>) /\ t # <<>>
        BY <1>1, EmptyIsZero
    <2> QED
        BY <2>1, <2>2
<1> HIDE DEF n, t
<1>3. ASSUME NEW i \in 1 .. n + 1, i > 1 PROVE t[i] = t[i - 1] + 1
    <2>1. i - 1 \in 1 .. n
        BY <1>1, <1>3
    <2>2. CASE i = n + 1
        <3>1. i - 1 = n /\ n > 0
            BY <1>1, <2>1, <2>2
        <3>2. t[i] = e /\ t[i - 1] = s[n]
            BY <1>1, <2>1, <2>2, <3>1
        <3> QED
            BY <1>2, <3>1, <3>2
    <2>3. CASE i # n + 1
        <3>1. i \in 1 .. n
            BY <1>1, <1>3, <2>3
        <3>2. t[i] = s[i] /\ t[i - 1] = s[i - 1]
            BY <1>1, <2>1, <3>1
        <3> QED
            BY <1>2, <1>3, <3>1, <3>2
    <2> QED
        BY <2>2, <2>3
<1>4. Consecutive(t)
    BY <1>1, <1>3 DEF Consecutive
<1> QED
    BY <1>1, <1>2, <1>4 DEF n, t

LEMMA ConsecutiveTail ==
    ASSUME NEW S \in SUBSET Nat, NEW s \in Seq(S), s # <<>>, Consecutive(s)
    PROVE  /\ Tail(s) \in Seq(S) /\ Consecutive(Tail(s)) /\ Len(Tail(s)) = Len(s) - 1
           /\ Tail(s) # <<>> => Tail(s)[Len(Tail(s))] = s[Len(s)] /\ Tail(s)[1] = s[1] + 1
           /\ Tail(s) = <<>> => Len(s) = 1
<1> DEFINE n == Len(s)
           t == Tail(s)
<1>1. /\ t \in Seq(S) /\ Len(t) = n - 1 /\ n \in Nat \ {0}
      /\ \A i \in 1 .. n - 1 : t[i] = s[i + 1]
      /\ DOMAIN s = 1 .. n /\ DOMAIN t = 1 .. n - 1
    OBVIOUS
<1>2. \A i \in 1 .. n : i > 1 => s[i] = s[i - 1] + 1
    BY <1>1 DEF Consecutive
<1>3. t = <<>> <=> n = 1
    <2>1. t = <<>> <=> Len(t) = 0
        BY <1>1, EmptyIsZero
    <2> QED
        BY <1>1, <2>1
<1> HIDE DEF n, t
<1>4. ASSUME NEW i \in 1 .. n - 1, i > 1 PROVE t[i] = t[i - 1] + 1
    <2>1. i - 1 \in 1 .. n - 1 /\ i + 1 \in 1 .. n /\ i + 1 > 1 /\ (i + 1) - 1 = i /\ (i - 1) + 1 = i
        BY <1>1, <1>4
    <2>2. t[i] = s[i + 1] /\ t[i - 1] = s[i]
        BY <1>1, <2>1
    <2> QED
        BY <1>2, <2>1, <2>2
<1>5. Consecutive(t)
    BY <1>1, <1>4 DEF Consecutive
<1>6. ASSUME t # <<>> PROVE t[n - 1] = s[n] /\ t[1] = s[1] + 1
    <2>1. n > 1 /\ n - 1 \in 1 .. n - 1 /\ (n - 1) + 1 = n /\ 1 \in 1 .. n - 1 /\ 2 \in 1 .. n
        BY <1>1, <1>3, <1>6
    <2>2. t[n - 1] = s[n] /\ t[1] = s[2] /\ s[2] = s[1] + 1
        BY <1>1, <1>2, <2>1
    <2> QED
        BY <2>2
<1> QED
    BY <1>1, <1>3, <1>5, <1>6 DEF n, t

LEMMA InitOrder == Init => OrderInv
<1> SUFFICES ASSUME Init PROVE OrderInv
    OBVIOUS
<1>1. OneAtATime /\ ChannelInOrder /\ LogInOrder
    BY DEF Init, OneAtATime, ChannelInOrder, LogInOrder
<1>2. PageInOrder
    BY DEF Init, PageInOrder, Consecutive
<1> QED
    BY <1>1, <1>2 DEF OrderInv

LEMMA NextPushOrder ==
    ASSUME TypeOK, FinalInv, OrderInv, [Next]_vars
    PROVE  OneAtATime' /\ ChannelInOrder' /\ LogInOrder'
<1>0. /\ LogTyped /\ PushesDrawn /\ OneAtATime /\ ChannelInOrder /\ LogInOrder
      /\ nextSeq \in Nat \ {0} /\ events \in Seq(Drawn) /\ sent \in Seq(Drawn)
      /\ Len(sent) \in Nat /\ Drawn \subseteq Nat
    BY TypeParts DEF FinalInv, OrderInv, LogTyped, Drawn
<1>1. CASE StartRun
    <2>1. /\ \A w \in Writers : push'[w] = Idle
          /\ nextSeq' = 3 /\ events' = <<1, 2>> /\ sent' = <<1, 2>>
        BY <1>1 DEF StartRun, FinalInv, NewIsEmpty, TasksRun, Writers
    <2>2. OneAtATime'
        BY <2>1 DEF OneAtATime
    <2>3. ChannelInOrder'
        BY <2>1 DEF ChannelInOrder
    <2>4. LogInOrder'
        BY <2>1 DEF LogInOrder, Consecutive, Idle
    <2> QED
        BY <2>2, <2>3, <2>4
<1>2. CASE \E w \in Writers, k \in Kinds : Draw(w, k)
    <2>1. PICK w \in Writers, k \in Kinds : Draw(w, k)
        BY <1>2
    <2>2. /\ nextSeq' = nextSeq + 1 /\ push'[w] = [seq |-> nextSeq, next |-> "store"]
          /\ \A v \in Writers : v # w => push'[v] = push[v]
          /\ events' = events /\ sent' = sent
        BY <2>1, DrawDoes
    <2> SUFFICES ASSUME ~raced' PROVE OneAtATime' /\ ChannelInOrder' /\ LogInOrder'
        BY DEF OneAtATime, ChannelInOrder, LogInOrder
    <2>3. ~raced /\ \A v \in Writers : push[v] = Idle
        BY <2>1 DEF Draw
    <2>4. OneAtATime'
        BY <1>0, <2>2, <2>3 DEF OneAtATime
    <2>5. push'[w] # Idle /\ push'[w].next = "store" /\ (nextSeq + 1) - 2 = nextSeq - 1
        BY <1>0, <2>2 DEF Idle
    <2>6. Len(sent) = nextSeq - 1 /\ \A i \in DOMAIN sent : sent[i] = i
        BY <1>0, <2>3 DEF ChannelInOrder
    <2>7. ChannelInOrder'
        BY <2>2, <2>5, <2>6 DEF ChannelInOrder
    <2>8. events # <<>> => Consecutive(events) /\ events[Len(events)] = nextSeq - 1
        BY <1>0, <2>3 DEF LogInOrder, Idle
    <2>9. LogInOrder'
        BY <2>2, <2>5, <2>8 DEF LogInOrder, Consecutive
    <2> QED
        BY <2>4, <2>7, <2>9
<1>3. CASE \E w \in Writers : Store(w)
    <2>1. PICK w \in Writers : Store(w)
        BY <1>3
    <2> DEFINE n == push[w].seq
               all == Append(events, n)
    <2>2. /\ push[w].next = "store" /\ UNCHANGED <<nextSeq, sent, raced>>
          /\ push'[w].next = "send" /\ push'[w].seq = push[w].seq
          /\ \A v \in Writers : v # w => push'[v] = push[v]
          /\ events' = IF Len(all) > MaxStored THEN Tail(all) ELSE all
        BY <1>0, <2>1 DEF Store, Stored, LogTyped
    <2> SUFFICES ASSUME ~raced' PROVE OneAtATime' /\ ChannelInOrder' /\ LogInOrder'
        BY DEF OneAtATime, ChannelInOrder, LogInOrder
    <2>3. push[w] # Idle /\ push'[w] # Idle /\ n \in Drawn
        BY <1>0, <2>2 DEF PushesDrawn, Idle
    <2>4. n = nextSeq - 1 /\ \A v \in Writers : v # w => push[v] = Idle /\ push'[v] = Idle
        BY <1>0, <2>2, <2>3 DEF OneAtATime
    <2>5. OneAtATime'
        BY <2>2, <2>4 DEF OneAtATime
    <2>6. ChannelInOrder'
        BY <1>0, <2>2, <2>3 DEF ChannelInOrder
    <2> HIDE DEF n
    <2>7. events # <<>> => Consecutive(events) /\ n = events[Len(events)] + 1
        BY <1>0, <2>2, <2>4 DEF LogInOrder
    <2>8. /\ all \in Seq(Drawn) /\ all # <<>> /\ Consecutive(all) /\ all[Len(all)] = n
          /\ Len(all) = Len(events) + 1
        BY <1>0, <2>3, <2>7, ConsecutiveAppend DEF Consecutive
    <2> HIDE DEF all
    <2>9. events' # <<>> => Consecutive(events') /\ events'[Len(events')] = n
        BY <1>0, <2>2, <2>8, ConsecutiveTail
    <2>10. \A v \in Writers : push'[v].next # "store"
        BY <2>2, <2>4 DEF Idle
    <2>11. LogInOrder'
        BY <2>2, <2>4, <2>9, <2>10 DEF LogInOrder, Consecutive
    <2> QED
        BY <2>5, <2>6, <2>11
<1>4. CASE \E w \in Writers : Send(w)
    <2>1. PICK w \in Writers : Send(w)
        BY <1>4
    <2>2. /\ push[w].next = "send" /\ UNCHANGED <<nextSeq, events, raced>>
          /\ push'[w] = Idle /\ \A v \in Writers : v # w => push'[v] = push[v]
          /\ sent' = Append(sent, push[w].seq)
        BY <1>0, <2>1 DEF Send, LogTyped
    <2> SUFFICES ASSUME ~raced' PROVE OneAtATime' /\ ChannelInOrder' /\ LogInOrder'
        BY DEF OneAtATime, ChannelInOrder, LogInOrder
    <2>3. push[w] # Idle /\ push[w].seq = nextSeq - 1 /\ Len(sent) = nextSeq - 2
        BY <1>0, <2>2 DEF OneAtATime, ChannelInOrder, Idle
    <2>4. \A v \in Writers : push'[v] = Idle /\ (v # w => push[v] = Idle)
        BY <1>0, <2>2, <2>3 DEF OneAtATime
    <2>5. OneAtATime'
        BY <2>4 DEF OneAtATime
    <2>6. \A i \in DOMAIN sent : sent[i] = i
        BY <1>0, <2>2 DEF ChannelInOrder
    <2>7. Len(sent') = nextSeq - 1 /\ \A i \in DOMAIN sent' : sent'[i] = i
        BY <1>0, <2>2, <2>3, <2>6
    <2>8. ChannelInOrder'
        BY <2>2, <2>4, <2>7 DEF ChannelInOrder
    <2>9. LogInOrder'
        <3>1. \A v \in Writers : push[v].next # "store" /\ push'[v].next # "store"
            BY <2>2, <2>4 DEF Idle
        <3> QED
            BY <1>0, <2>2, <3>1 DEF LogInOrder, Consecutive
    <2> QED
        BY <2>5, <2>8, <2>9
<1>5. CASE UNCHANGED <<log, push>>
    <2>1. raced => raced'
        BY DEF Next, vars, Supervise, StartRun, Spawn, Forward, ChildExits, JoinOutput, WaitError, Finished,
           Finish, Draw, Store, Stored, Send, Line, EndOfStream, Subscribe, Read, Snapshot,
           ShowBacklog, Receive, ReceiveIf, Lag, Behind
    <2> QED
        BY <1>0, <1>5, <2>1 DEF log, OneAtATime, ChannelInOrder, LogInOrder, Consecutive
<1> QED
    BY <1>1, <1>2, <1>3, <1>4, <1>5, LogSteps

\* The page shows what comes next.
LEMMA ShowNext ==
    ASSUME shown \in Seq(Drawn), NEW e \in Drawn, Show(e), Consecutive(shown),
           shown # <<>> => lastSeq = shown[Len(shown)] /\ e = lastSeq + 1
    PROVE  /\ Consecutive(shown)' /\ shown' # <<>> /\ lastSeq' = e
           /\ lastSeq' = shown'[Len(shown')] /\ page' \in {"open", "closed"}
<1>1. Drawn \in SUBSET Nat
    BY DEF Drawn
<1>2. shown' = Append(shown, e) /\ lastSeq' = e /\ page' \in {"open", "closed"}
    BY DEF Show
<1>3. shown # <<>> => e = shown[Len(shown)] + 1
    OBVIOUS
<1>4. /\ Consecutive(Append(shown, e)) /\ Append(shown, e) # <<>>
      /\ Append(shown, e)[Len(Append(shown, e))] = e
    BY <1>1, <1>3, ConsecutiveAppend
<1> QED
    BY <1>2, <1>4 DEF Consecutive

LEMMA NextPageOrder ==
    ASSUME TypeOK, FinalInv, OrderInv, [Next]_vars
    PROVE  PageInOrder'
<1>0. /\ PageInOrder /\ ChannelInOrder /\ LogInOrder
      /\ events \in Seq(Drawn) /\ sent \in Seq(Drawn) /\ shown \in Seq(Drawn)
      /\ backlog \in Seq(Drawn) /\ received \in 0 .. Len(sent) /\ Len(sent) \in Nat
      /\ lastSeq \in Nat /\ nextSeq \in Nat \ {0} /\ Drawn \in SUBSET Nat
    BY DEF OrderInv, TypeOK, Drawn
<1>1. CASE UNCHANGED view
    <2>1. raced => raced'
        BY DEF Next, vars, Supervise, StartRun, Spawn, Forward, ChildExits, JoinOutput, WaitError, Finished,
           Finish, Draw, Store, Stored, Send, Line, EndOfStream, Subscribe, Read, Snapshot,
           ShowBacklog, Receive, ReceiveIf, Lag, Behind
    <2> QED
        BY <1>0, <1>1, <2>1 DEF view, PageInOrder, Consecutive
<1>2. CASE Subscribe
    BY <1>0, <1>2 DEF Subscribe, PageInOrder, Consecutive
<1>3. CASE Snapshot
    <2>1. /\ page = "subscribed" /\ page' = "open" /\ backlog' = events
          /\ UNCHANGED <<received, lastSeq, shown, lagged, raced>>
        BY <1>3 DEF Snapshot
    <2> SUFFICES ASSUME ~raced, ~lagged PROVE PageInOrder'
        BY <2>1 DEF PageInOrder
    <2>2. events # <<>>
        BY <2>1 DEF FinalInv, NewIsEmpty, TypeOK
    <2>3. Consecutive(events) /\ shown = <<>>
        BY <1>0, <2>1, <2>2 DEF LogInOrder, PageInOrder
    <2>4. events[Len(events)] >= Len(sent)
        <3>1. CASE \E w \in Writers : push[w].next = "store"
            <4>1. \E w \in Writers : push[w] # Idle
                BY <3>1 DEF Idle
            <4> QED
                BY <1>0, <2>2, <3>1, <4>1 DEF LogInOrder, ChannelInOrder
        <3>2. CASE \A w \in Writers : push[w].next # "store"
            <4>1. events[Len(events)] = nextSeq - 1
                BY <1>0, <2>2, <3>2 DEF LogInOrder
            <4>2. Len(sent) \in {nextSeq - 1, nextSeq - 2}
                BY <1>0 DEF ChannelInOrder
            <4> QED
                BY <1>0, <4>1, <4>2
        <3> QED
            BY <3>1, <3>2
    <2>5. events[Len(events)] \in Nat
        <3>1. Len(events) \in 1 .. Len(events) /\ DOMAIN events = 1 .. Len(events)
            BY <1>0, <2>2
        <3>2. events[Len(events)] \in Drawn
            BY <1>0, <3>1
        <3> QED
            BY <1>0, <3>2
    <2>6. received <= events[Len(events)]
        BY <1>0, <2>4, <2>5
    <2> QED
        BY <1>0, <2>1, <2>2, <2>3, <2>6 DEF PageInOrder, Consecutive
<1>4. CASE ShowBacklog
    <2>1. /\ page = "open" /\ backlog # <<>> /\ Show(Head(backlog)) /\ backlog' = Tail(backlog)
          /\ UNCHANGED <<received, lagged, raced>>
        BY <1>4 DEF ShowBacklog
    <2> SUFFICES ASSUME ~raced, ~lagged PROVE PageInOrder'
        BY <2>1 DEF PageInOrder
    <2> DEFINE e == Head(backlog)
    <2>2. e = backlog[1] /\ e \in Drawn
        BY <1>0, <2>1
    <2> HIDE DEF e
    <2>3. /\ Consecutive(shown) /\ Consecutive(backlog) /\ received <= backlog[Len(backlog)]
          /\ shown # <<>> => lastSeq = shown[Len(shown)] /\ e = lastSeq + 1
        BY <1>0, <2>1, <2>2 DEF PageInOrder
    <2>4. Show(e)
        BY <2>1 DEF e
    <2>5. /\ Consecutive(shown)' /\ shown' # <<>> /\ lastSeq' = e
          /\ lastSeq' = shown'[Len(shown')] /\ page' \in {"open", "closed"}
        BY <1>0, <2>2, <2>3, <2>4, ShowNext
    <2>6. /\ Consecutive(Tail(backlog))
          /\ Tail(backlog) # <<>> =>
                /\ Tail(backlog)[Len(Tail(backlog))] = backlog[Len(backlog)]
                /\ Tail(backlog)[1] = backlog[1] + 1
          /\ Tail(backlog) = <<>> => Len(backlog) = 1
        BY <1>0, <2>1, <2>3, ConsecutiveTail
    <2>7. backlog' = <<>> => received' <= lastSeq'
        BY <2>1, <2>2, <2>3, <2>5, <2>6
    <2>8. backlog' # <<>> => /\ Consecutive(backlog)' /\ received' <= backlog'[Len(backlog')]
                             /\ backlog'[1] = lastSeq' + 1
        BY <2>1, <2>2, <2>3, <2>5, <2>6 DEF Consecutive
    <2> QED
        BY <2>5, <2>7, <2>8 DEF PageInOrder
<1>5. CASE Receive
    <2>1. /\ page = "open" /\ backlog = <<>> /\ received < Len(sent) /\ received' = received + 1
          /\ UNCHANGED <<backlog, lagged, raced, sent>>
        BY <1>5 DEF Receive, ReceiveIf, InChannel, log
    <2> SUFFICES ASSUME ~raced, ~lagged PROVE PageInOrder'
        BY <2>1 DEF PageInOrder
    <2>2. received + 1 \in DOMAIN sent
        BY <1>0, <2>1
    <2>3. Upcoming = received + 1 /\ Upcoming \in Drawn
        BY <1>0, <2>2 DEF Upcoming, ChannelInOrder
    <2>4. /\ Consecutive(shown) /\ received <= lastSeq
          /\ shown # <<>> => lastSeq = shown[Len(shown)]
        BY <1>0, <2>1 DEF PageInOrder
    <2>5. CASE Upcoming > lastSeq
        <3>1. Show(Upcoming) /\ Upcoming = lastSeq + 1
            BY <1>0, <1>5, <2>3, <2>4, <2>5 DEF Receive, ReceiveIf
        <3>2. /\ Consecutive(shown)' /\ shown' # <<>> /\ lastSeq' = Upcoming
              /\ lastSeq' = shown'[Len(shown')] /\ page' \in {"open", "closed"}
            BY <1>0, <2>3, <2>4, <3>1, ShowNext
        <3>3. received' <= lastSeq'
            BY <1>0, <2>1, <2>3, <3>2
        <3> QED
            BY <2>1, <3>2, <3>3 DEF PageInOrder
    <2>6. CASE ~(Upcoming > lastSeq)
        <3>1. UNCHANGED <<shown, lastSeq, page>>
            BY <1>5, <2>6 DEF Receive, ReceiveIf
        <3>2. received' <= lastSeq'
            BY <1>0, <2>1, <2>3, <2>6, <3>1
        <3> QED
            BY <2>1, <2>4, <3>1, <3>2 DEF PageInOrder, Consecutive
    <2> QED
        BY <2>5, <2>6
<1>6. CASE Lag
    BY <1>6 DEF Lag, Behind, PageInOrder
<1> QED
    BY <1>1, <1>2, <1>3, <1>4, <1>5, <1>6 DEF Next, vars, Supervise, Spawn, Forward, ChildExits,
       JoinOutput, WaitError, Finished, Finish, Draw, Store, Stored, Send, StartRun, Line,
       EndOfStream, Read

LEMMA OrderInvariant == Spec => [](TypeOK /\ FinalInv /\ OrderInv)
<1>1. OrderInv /\ TypeOK /\ FinalInv /\ [Next]_vars => OrderInv'
    BY NextPushOrder, NextPageOrder DEF OrderInv
<1> QED
    BY <1>1, InitOrder, FinalInvariant, PTL DEF Spec

\* A page that connects at any moment, to a log and a channel of any size, shows
\* the events without a gap and without a repetition, unless two pushes
\* overlapped or it lagged.
THEOREM NothingFallsBetween == Spec => []NothingBetween
<1>1. OrderInv => NothingBetween
    BY DEF OrderInv, PageInOrder, Consecutive, NothingBetween
<1> QED
    BY <1>1, OrderInvariant, PTL
=============================================================================
