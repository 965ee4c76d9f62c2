-------------------------- MODULE Callbacks_proofs ---------------------------
(***************************************************************************)
(* For every number of mock handlers, units and callbacks: no callback is  *)
(* lost or doubled in the runtime, those of a unit are in its report, and  *)
(* the reports say what became of them, sorted by id.                      *)
(***************************************************************************)
EXTENDS Callbacks, FiniteSetTheorems, TLAPS

Reports == [id : Ids, status : {"passed", "failed"}]

InSchedule == {drawn[a] : a \in Actors} \ {0}
InReports == UNION {IdsOf(reports[u]) : u \in Units}

Once(s) == \A i, j \in DOMAIN s : s[i] = s[j] => i = j
IdsOnce(s) == \A i, j \in DOMAIN s : s[i].id = s[j].id => i = j

\* Every id that was drawn is in one of these sets, and in one only.
WhereIds ==
    /\ Drawn = InSchedule \cup ToSet(pending) \cup ToSet(taken) \cup IdsOf(collected)
                    \cup InReports
    /\ InSchedule \cap (ToSet(pending) \cup ToSet(taken) \cup IdsOf(collected) \cup InReports) = {}
    /\ ToSet(pending) \cap (ToSet(taken) \cup IdsOf(collected) \cup InReports) = {}
    /\ ToSet(taken) \cap (IdsOf(collected) \cup InReports) = {}
    /\ IdsOf(collected) \cap InReports = {}

\* And it is there once.
NoneTwice ==
    /\ \A a, b \in Actors : drawn[a] = drawn[b] /\ drawn[a] # 0 => a = b
    /\ Once(pending) /\ Once(taken) /\ IdsOnce(collected)
    /\ \A u, v \in Units : u # v => IdsOf(reports[u]) \cap IdsOf(reports[v]) = {}

\* flush() has nothing in hand while steps run; the reports are made unit by unit.
ByPhase ==
    /\ phase # "flushing" => taken = <<>> /\ collected = <<>>
    /\ phase # "steps" => drawn[Runner] = 0
    /\ phase \in {"steps", "flushing"} => reports[unit] = <<>>
    /\ \A u \in Units : u > unit => reports[u] = <<>>

\* A callback that the unit's steps scheduled is on its way to the unit's report.
Own(c) ==
    /\ source[c].unit \in Units /\ source[c].unit <= unit
    /\ source[c].unit < unit \/ phase \in {"finished", "down"} =>
            c \in IdsOf(reports[source[c].unit])
    /\ source[c].unit = unit /\ phase = "steps" => c = drawn[Runner] \/ c \in ToSet(pending)
    /\ source[c].unit = unit /\ phase = "flushing" => c \in ToSet(taken) \cup IdsOf(collected)

OwnOnTheirWay == \A c \in Drawn : source[c].actor = Runner => Own(c)

\* What is reported is over, and reported as it is.
Faithful(r) == job[r.id] \in Ended /\ (r.status = "passed" <=> job[r.id] = "passed")

StatusKept ==
    /\ \A i \in DOMAIN collected : Faithful(collected[i])
    /\ \A u \in Units : \A i \in DOMAIN reports[u] : Faithful(reports[u][i])

InOrder == \A u \in Units : \A i, j \in DOMAIN reports[u] : i < j => reports[u][i].id < reports[u][j].id

CallbacksInv == WhereIds /\ NoneTwice /\ ByPhase /\ OwnOnTheirWay /\ StatusKept /\ InOrder

-----------------------------------------------------------------------------
(***************************************************************************)
(* Sorting by id: among reports of distinct callbacks, one stands at each  *)
(* rank, for a rank is less than the number of reports and no two have the *)
(* same.                                                                   *)
(***************************************************************************)

RankOf(s, id) == Cardinality(Smaller(s, id))

LEMMA ReportsTyped ==
    ASSUME NEW s \in Seq(Reports)
    PROVE  /\ Len(s) \in Nat /\ DOMAIN s = 1 .. Len(s)
           /\ \A i \in DOMAIN s : s[i] \in Reports
           /\ \A i \in DOMAIN s : s[i].id \in Nat
<1>1. Len(s) \in Nat /\ DOMAIN s = 1 .. Len(s) /\ \A i \in DOMAIN s : s[i] \in Reports
    OBVIOUS
<1>2. \A r \in Reports : r.id \in Nat
    BY DEF Reports, Ids
<1> QED
    BY <1>1, <1>2

LEMMA UpTo ==
    ASSUME NEW n \in Nat
    PROVE  /\ IsFiniteSet(1 .. n) /\ Cardinality(1 .. n) = n
           /\ IsFiniteSet(0 .. n - 1) /\ Cardinality(0 .. n - 1) = n
<1>1. 0 \in Int /\ 1 \in Int /\ n \in Int /\ n - 1 \in Int
    OBVIOUS
<1>2. IsFiniteSet(1 .. n) /\ Cardinality(1 .. n) = IF 1 > n THEN 0 ELSE n - 1 + 1
    BY <1>1, FS_Interval
<1>3. IsFiniteSet(0 .. n - 1) /\ Cardinality(0 .. n - 1) = IF 0 > n - 1 THEN 0 ELSE n - 1 - 0 + 1
    BY <1>1, FS_Interval
<1> QED
    BY <1>2, <1>3

LEMMA RankIsRank ==
    ASSUME NEW s \in Seq(Reports), IdsOnce(s), NEW i \in DOMAIN s
    PROVE  /\ RankOf(s, s[i].id) \in 0 .. Len(s) - 1
           /\ \A j \in DOMAIN s : s[i].id < s[j].id => RankOf(s, s[i].id) < RankOf(s, s[j].id)
<1>1. /\ DOMAIN s = 1 .. Len(s) /\ Len(s) \in Nat
      /\ \A j \in DOMAIN s : s[j].id \in Nat
    BY ReportsTyped
<1>2. IsFiniteSet(DOMAIN s) /\ Cardinality(DOMAIN s) = Len(s)
    BY <1>1, UpTo
<1>3. \A id : Smaller(s, id) \subseteq DOMAIN s
    BY DEF Smaller
<1>4. \A id : IsFiniteSet(Smaller(s, id)) /\ RankOf(s, id) \in Nat
    BY <1>2, <1>3, FS_Subset, FS_CardinalityType DEF RankOf
<1>5. RankOf(s, s[i].id) <= Len(s) /\ RankOf(s, s[i].id) # Len(s)
    <2>1. i \notin Smaller(s, s[i].id)
        BY <1>1 DEF Smaller
    <2> QED
        BY <1>2, <1>3, <2>1, FS_Subset DEF RankOf
<1>6. ASSUME NEW j \in DOMAIN s, s[i].id < s[j].id
      PROVE  RankOf(s, s[i].id) < RankOf(s, s[j].id)
    <2>1. /\ Smaller(s, s[i].id) \subseteq Smaller(s, s[j].id)
          /\ i \in Smaller(s, s[j].id) /\ i \notin Smaller(s, s[i].id)
        BY <1>1, <1>6 DEF Smaller
    <2>2. /\ Cardinality(Smaller(s, s[i].id)) <= Cardinality(Smaller(s, s[j].id))
          /\ Cardinality(Smaller(s, s[i].id)) # Cardinality(Smaller(s, s[j].id))
        BY <1>4, <2>1, FS_Subset
    <2> QED
        BY <1>4, <2>2 DEF RankOf
<1> QED
    BY <1>1, <1>4, <1>5, <1>6

LEMMA RanksAreTaken ==
    ASSUME NEW s \in Seq(Reports), IdsOnce(s), NEW n \in 0 .. Len(s) - 1
    PROVE  \E i \in DOMAIN s : RankOf(s, s[i].id) = n
<1> DEFINE S == DOMAIN s
           T == 0 .. Len(s) - 1
           f == [i \in S |-> RankOf(s, s[i].id)]
<1>1. /\ S = 1 .. Len(s) /\ Len(s) \in Nat
      /\ \A j \in S : s[j].id \in Nat
    BY ReportsTyped
<1>2. /\ IsFiniteSet(S) /\ Cardinality(S) = Len(s)
      /\ IsFiniteSet(T) /\ Cardinality(T) = Len(s)
    BY <1>1, UpTo
<1>3. f \in [S -> T]
    BY RankIsRank
<1>4. ASSUME NEW i \in S, NEW j \in S, i # j PROVE f[i] # f[j]
    <2>1. s[i].id < s[j].id \/ s[j].id < s[i].id
        BY <1>1, <1>4 DEF IdsOnce
    <2>2. f[i] < f[j] \/ f[j] < f[i]
        BY <2>1, RankIsRank
    <2> QED
        BY <1>3, <2>2
<1>5. f \in Injection(S, T)
    BY <1>3, <1>4 DEF Injection, IsInjective
<1>6. f \in Surjection(S, T)
    BY <1>2, <1>5, FS_Injection
<1> QED
    BY <1>6 DEF Surjection

LEMMA Sorted ==
    ASSUME NEW s \in Seq(Reports), IdsOnce(s)
    PROVE  /\ SortById(s) \in Seq(Reports) /\ ToSet(SortById(s)) = ToSet(s)
           /\ \A i, j \in DOMAIN SortById(s) : i < j => SortById(s)[i].id < SortById(s)[j].id
<1> DEFINE t == SortById(s)
<1>1. /\ DOMAIN s = 1 .. Len(s) /\ Len(s) \in Nat
      /\ \A j \in DOMAIN s : s[j] \in Reports
      /\ \A j \in DOMAIN s : s[j].id \in Nat
    BY ReportsTyped
<1>2. ASSUME NEW i \in DOMAIN s
      PROVE  t[i] \in ToSet(s) /\ RankOf(s, t[i].id) = i - 1
    <2>1. \E r \in ToSet(s) : Cardinality(Smaller(s, r.id)) = i - 1
        <3>1. i - 1 \in 0 .. Len(s) - 1
            BY <1>1
        <3>2. PICK j \in DOMAIN s : RankOf(s, s[j].id) = i - 1
            BY <3>1, RanksAreTaken
        <3> QED
            BY <3>2 DEF RankOf, ToSet
    <2>2. t[i] = CHOOSE r \in ToSet(s) : Cardinality(Smaller(s, r.id)) = i - 1
        BY DEF SortById
    <2> QED
        BY <2>1, <2>2 DEF RankOf
<1>3. t = [i \in DOMAIN s |-> t[i]]
    BY DEF SortById
<1> HIDE DEF t
<1>4. t \in Seq(Reports) /\ DOMAIN t = DOMAIN s /\ ToSet(t) \subseteq ToSet(s)
    <2>1. \A i \in 1 .. Len(s) : t[i] \in Reports
        BY <1>1, <1>2 DEF ToSet
    <2>2. t \in [1 .. Len(s) -> Reports]
        BY <1>1, <1>3, <2>1
    <2>3. DOMAIN t = DOMAIN s
        BY <1>3
    <2>4. t \in Seq(Reports)
        BY <1>1, <2>2
    <2>5. ToSet(t) \subseteq ToSet(s)
        BY <1>2, <2>3 DEF ToSet
    <2> QED
        BY <2>3, <2>4, <2>5
<1>5. ASSUME NEW i \in DOMAIN s PROVE s[i] \in ToSet(t)
    <2> DEFINE n == RankOf(s, s[i].id)
    <2>1. n \in 0 .. Len(s) - 1
        BY RankIsRank
    <2>2. n + 1 \in DOMAIN s /\ (n + 1) - 1 = n
        BY <1>1, <2>1
    <2>3. PICK j \in DOMAIN s : t[n + 1] = s[j] /\ RankOf(s, s[j].id) = n
        BY <1>2, <2>2 DEF ToSet
    <2>4. s[i].id = s[j].id
        <3>1. ~ (s[i].id < s[j].id)
            BY <2>1, <2>3, RankIsRank
        <3>2. ~ (s[j].id < s[i].id)
            BY <2>1, <2>3, RankIsRank
        <3> QED
            BY <1>1, <3>1, <3>2
    <2>5. s[i] = t[n + 1]
        BY <2>3, <2>4 DEF IdsOnce
    <2> QED
        BY <1>4, <2>2, <2>5 DEF ToSet
<1>6. ASSUME NEW i \in DOMAIN s, NEW j \in DOMAIN s, i < j PROVE t[i].id < t[j].id
    <2>1. PICK a \in DOMAIN s : t[i] = s[a] /\ RankOf(s, s[a].id) = i - 1
        BY <1>2 DEF ToSet
    <2>2. PICK b \in DOMAIN s : t[j] = s[b] /\ RankOf(s, s[b].id) = j - 1
        BY <1>2 DEF ToSet
    <2>3. s[a].id # s[b].id
        BY <1>1, <1>6, <2>1, <2>2
    <2>4. ASSUME s[b].id < s[a].id PROVE FALSE
        <3>1. RankOf(s, s[b].id) < RankOf(s, s[a].id)
            BY <2>4, RankIsRank
        <3>2. j - 1 < i - 1
            BY <2>1, <2>2, <3>1
        <3> QED
            BY <1>1, <1>6, <3>2
    <2> QED
        BY <1>1, <2>1, <2>2, <2>3, <2>4
<1> QED
    BY <1>4, <1>5, <1>6 DEF t, ToSet

-----------------------------------------------------------------------------
(***************************************************************************)
(* What is in a sequence after an element came or went.                    *)
(***************************************************************************)

LEMMA Appended ==
    ASSUME NEW S, NEW s \in Seq(S), NEW e \in S
    PROVE  /\ Append(s, e) \in Seq(S) /\ ToSet(Append(s, e)) = ToSet(s) \cup {e}
           /\ Once(s) /\ e \notin ToSet(s) => Once(Append(s, e))
<1> DEFINE n == Len(s)
           t == Append(s, e)
<1>1. /\ t \in Seq(S) /\ n \in Nat /\ DOMAIN s = 1 .. n /\ DOMAIN t = 1 .. n + 1
    OBVIOUS
<1>2. t[n + 1] = e /\ \A i \in 1 .. n : t[i] = s[i]
    OBVIOUS
<1> HIDE DEF n, t
<1>3. 1 .. n + 1 = (1 .. n) \cup {n + 1}
    BY <1>1
<1>4. ToSet(t) = ToSet(s) \cup {e}
    BY <1>1, <1>2, <1>3 DEF ToSet
<1>5. ASSUME Once(s), e \notin ToSet(s) PROVE Once(t)
    BY <1>1, <1>2, <1>3, <1>5 DEF Once, ToSet
<1> QED
    BY <1>1, <1>4, <1>5 DEF t

LEMMA TakenOff ==
    ASSUME NEW S, NEW s \in Seq(S), s # <<>>, Once(s)
    PROVE  /\ Head(s) \in S /\ Head(s) \in ToSet(s)
           /\ Tail(s) \in Seq(S) /\ ToSet(Tail(s)) = ToSet(s) \ {Head(s)} /\ Once(Tail(s))
<1> DEFINE n == Len(s)
           t == Tail(s)
<1>1. /\ t \in Seq(S) /\ n \in Nat \ {0} /\ DOMAIN s = 1 .. n /\ DOMAIN t = 1 .. n - 1
      /\ Head(s) = s[1] /\ s[1] \in S
    OBVIOUS
<1>2. \A i \in 1 .. n - 1 : t[i] = s[i + 1]
    OBVIOUS
<1> HIDE DEF n, t
<1>3. /\ \A i \in 1 .. n - 1 : i + 1 \in 1 .. n /\ i + 1 # 1
      /\ \A i \in 1 .. n : i # 1 => i - 1 \in 1 .. n - 1 /\ (i - 1) + 1 = i
      /\ 1 \in 1 .. n
    BY <1>1
<1>4. ToSet(t) \subseteq ToSet(s) \ {s[1]}
    <2> SUFFICES ASSUME NEW i \in 1 .. n - 1 PROVE t[i] \in ToSet(s) /\ t[i] # s[1]
        BY <1>1 DEF ToSet
    <2>1. t[i] = s[i + 1] /\ i + 1 \in 1 .. n /\ i + 1 # 1 /\ 1 \in 1 .. n
        BY <1>2, <1>3
    <2> QED
        BY <1>1, <2>1 DEF ToSet, Once
<1>5. ToSet(s) \ {s[1]} \subseteq ToSet(t)
    <2> SUFFICES ASSUME NEW i \in 1 .. n, s[i] # s[1] PROVE s[i] \in ToSet(t)
        BY <1>1 DEF ToSet
    <2>1. i - 1 \in 1 .. n - 1 /\ t[i - 1] = s[i]
        BY <1>2, <1>3
    <2> QED
        BY <1>1, <2>1 DEF ToSet
<1>6. Once(t)
    <2> SUFFICES ASSUME NEW i \in 1 .. n - 1, NEW j \in 1 .. n - 1, t[i] = t[j] PROVE i = j
        BY <1>1 DEF Once
    <2>1. i + 1 = j + 1
        BY <1>1, <1>2, <1>3 DEF Once
    <2> QED
        BY <2>1
<1> QED
    BY <1>1, <1>3, <1>4, <1>5, <1>6 DEF t, ToSet

LEMMA ReportAppended ==
    ASSUME NEW s \in Seq(Reports), NEW r \in Reports
    PROVE  /\ Append(s, r) \in Seq(Reports) /\ IdsOf(Append(s, r)) = IdsOf(s) \cup {r.id}
           /\ ToSet(Append(s, r)) = ToSet(s) \cup {r}
           /\ IdsOnce(s) /\ r.id \notin IdsOf(s) => IdsOnce(Append(s, r))
<1> DEFINE n == Len(s)
           t == Append(s, r)
<1>1. /\ t \in Seq(Reports) /\ n \in Nat /\ DOMAIN s = 1 .. n /\ DOMAIN t = 1 .. n + 1
    OBVIOUS
<1>2. t[n + 1] = r /\ \A i \in 1 .. n : t[i] = s[i]
    OBVIOUS
<1> HIDE DEF n, t
<1>3. 1 .. n + 1 = (1 .. n) \cup {n + 1}
    BY <1>1
<1>4. IdsOf(t) = IdsOf(s) \cup {r.id}
    BY <1>1, <1>2, <1>3 DEF IdsOf
<1>5. ToSet(t) = ToSet(s) \cup {r}
    BY <1>1, <1>2, <1>3 DEF ToSet
<1>6. ASSUME IdsOnce(s), r.id \notin IdsOf(s) PROVE IdsOnce(t)
    BY <1>1, <1>2, <1>3, <1>6 DEF IdsOnce, IdsOf
<1> QED
    BY <1>1, <1>4, <1>5, <1>6 DEF t

\* The ids of reports are the ids of the set of them.
LEMMA IdsOfSet == \A s : IdsOf(s) = {r.id : r \in ToSet(s)}
BY DEF IdsOf, ToSet

LEMMA EmptyHasNone ==
    /\ ToSet(<<>>) = {} /\ IdsOf(<<>>) = {} /\ Once(<<>>) /\ IdsOnce(<<>>)
BY DEF ToSet, IdsOf, Once, IdsOnce

-----------------------------------------------------------------------------
(***************************************************************************)
(* Types.                                                                  *)
(***************************************************************************)

LEMMA Numbers ==
    /\ NumUnits \in Nat \ {0} /\ MaxCallbacks \in Nat /\ 0 \notin Ids
    /\ Runner \in Actors /\ 1 \in Units
BY UnitsAssumption DEF Ids, Actors, Units

LEMMA InitType == Init => TypeOK
<1> SUFFICES ASSUME Init PROVE TypeOK
    OBVIOUS
<1>1. nextId \in 1 .. MaxCallbacks + 1 /\ unit \in Units
    BY Numbers DEF Init
<1>2. /\ drawn \in [Actors -> Ids \cup {0}]
      /\ job \in [Ids -> Ended \cup {"none", "running", "dropped"}]
      /\ source \in [Ids -> [actor : Actors, unit : 0 .. NumUnits]]
    BY Numbers DEF Init
<1>3. /\ {pending, taken} \subseteq Seq(Ids) /\ phase \in Phases
      /\ reports \in [Units -> Seq([id : Ids, status : {"passed", "failed"}])]
      /\ collected \in Seq([id : Ids, status : {"passed", "failed"}])
    BY DEF Init, Phases
<1> QED
    BY <1>1, <1>2, <1>3 DEF TypeOK

LEMMA NextType ==
    ASSUME TypeOK, CallbacksInv, [Next]_vars
    PROVE  TypeOK'
<1>0. /\ nextId \in 1 .. MaxCallbacks + 1 /\ drawn \in [Actors -> Ids \cup {0}]
      /\ pending \in Seq(Ids) /\ taken \in Seq(Ids) /\ collected \in Seq(Reports)
      /\ reports \in [Units -> Seq(Reports)] /\ unit \in Units /\ NumUnits \in Nat
    BY Numbers DEF TypeOK, Reports
<1>1. ASSUME NEW a \in Actors, Draw(a) PROVE TypeOK'
    <2>1. nextId \in Ids /\ nextId' \in 1 .. MaxCallbacks + 1
        BY <1>0, <1>1, Numbers DEF Draw, Ids
    <2>2. source' \in [Ids -> [actor : Actors, unit : 0 .. NumUnits]]
        <3>1. [actor |-> a, unit |-> unit] \in [actor : Actors, unit : 0 .. NumUnits]
            BY <1>0 DEF Units
        <3> QED
            BY <1>1, <2>1, <3>1 DEF Draw, TypeOK
    <2>3. drawn' \in [Actors -> Ids \cup {0}]
        BY <1>0, <1>1, <2>1 DEF Draw
    <2>4. job' \in [Ids -> Ended \cup {"none", "running", "dropped"}]
        BY <1>1, <2>1 DEF Draw, TypeOK
    <2> QED
        BY <1>1, <2>1, <2>2, <2>3, <2>4 DEF Draw, TypeOK
<1>2. ASSUME NEW a \in Actors, Push(a) PROVE TypeOK'
    <2>1. drawn[a] \in Ids
        BY <1>0, <1>2 DEF Push
    <2>2. pending' \in Seq(Ids)
        BY <1>0, <1>2, <2>1 DEF Push
    <2>3. drawn' \in [Actors -> Ids \cup {0}]
        BY <1>0, <1>2 DEF Push
    <2> QED
        BY <1>2, <2>2, <2>3 DEF Push, TypeOK
<1>3. ASSUME NEW c \in Ids, Deliver(c) PROVE TypeOK'
    BY <1>3 DEF Deliver, TypeOK
<1>4. CASE TakePending
    <2>1. {pending', taken'} \subseteq Seq(Ids) /\ phase' \in Phases
        BY <1>0, <1>4 DEF TakePending, Phases
    <2> QED
        BY <1>4, <2>1 DEF TakePending, TypeOK
<1>5. CASE Await
    <2>1. Head(taken) \in Ids /\ Tail(taken) \in Seq(Ids)
        BY <1>0, <1>5 DEF Await
    <2>2. ReportOf(Head(taken)) \in Reports
        BY <2>1 DEF ReportOf, Reports
    <2>3. collected' \in Seq(Reports)
        BY <1>0, <1>5, <2>2 DEF Await
    <2> QED
        BY <1>5, <2>1, <2>3 DEF Await, TypeOK, Reports
<1>6. CASE FlushReturn
    <2>1. SortById(collected) \in Seq(Reports)
        BY <1>0, Sorted DEF CallbacksInv, NoneTwice
    <2>2. reports' \in [Units -> Seq(Reports)] /\ collected' \in Seq(Reports)
        BY <1>0, <1>6, <2>1 DEF FlushReturn, Report
    <2>3. unit' \in Units /\ phase' \in Phases
        BY <1>0, <1>6 DEF FlushReturn, Report, Units, Phases
    <2> QED
        BY <1>6, <2>2, <2>3 DEF FlushReturn, Report, TypeOK, Reports
<1>7. CASE Shutdown
    BY <1>7 DEF Shutdown, TypeOK, Phases
<1>8. CASE UNCHANGED vars
    BY <1>8 DEF vars, TypeOK
<1> QED
    BY <1>1, <1>2, <1>3, <1>4, <1>5, <1>6, <1>7, <1>8 DEF Next, Flush

-----------------------------------------------------------------------------
(***************************************************************************)
(* Where the callbacks are.                                                *)
(***************************************************************************)

LEMMA InitPlaces == Init => CallbacksInv
<1> SUFFICES ASSUME Init PROVE CallbacksInv
    OBVIOUS
<1>1. Drawn = {} /\ InSchedule = {} /\ InReports = {}
    BY EmptyHasNone DEF Init, Drawn, InSchedule, InReports
<1>2. WhereIds /\ NoneTwice
    BY <1>1, EmptyHasNone DEF Init, WhereIds, NoneTwice
<1>3. ByPhase
    BY Numbers DEF Init, ByPhase
<1>4. OwnOnTheirWay /\ StatusKept /\ InOrder
    BY <1>1 DEF Init, OwnOnTheirWay, StatusKept, InOrder
<1> QED
    BY <1>2, <1>3, <1>4 DEF CallbacksInv

LEMMA DrawKeeps ==
    ASSUME TypeOK, CallbacksInv, NEW a \in Actors, Draw(a)
    PROVE  CallbacksInv'
<1>0. /\ TypeOK /\ WhereIds /\ NoneTwice /\ ByPhase /\ OwnOnTheirWay /\ StatusKept /\ InOrder
      /\ drawn \in [Actors -> Ids \cup {0}] /\ nextId \in Nat \ {0}
    <2>1. nextId \in 1 .. MaxCallbacks + 1 /\ drawn \in [Actors -> Ids \cup {0}]
        BY DEF TypeOK
    <2> QED
        BY <2>1, Numbers DEF CallbacksInv
<1>1. /\ drawn[a] = 0 /\ drawn' = [drawn EXCEPT ![a] = nextId] /\ nextId' = nextId + 1
      /\ job' = [job EXCEPT ![nextId] = "running"]
      /\ source' = [source EXCEPT ![nextId] = [actor |-> a, unit |-> unit]]
      /\ UNCHANGED <<pending, taken, collected, reports, unit, phase>>
      /\ a = Runner => phase = "steps"
      /\ nextId \in Ids
    BY <1>0 DEF Draw, Ids
<1>2. Drawn' = Drawn \cup {nextId} /\ nextId \notin Drawn
    BY <1>0, <1>1 DEF Drawn
<1>3. InSchedule' = InSchedule \cup {nextId}
    BY <1>0, <1>1 DEF InSchedule
<1>4. InReports' = InReports
    BY <1>1 DEF InReports
<1>5. WhereIds'
    BY <1>0, <1>1, <1>2, <1>3, <1>4 DEF WhereIds
<1>6. NoneTwice'
    <2>1. \A b \in Actors : drawn[b] # nextId
        BY <1>0, <1>2 DEF WhereIds, InSchedule
    <2>2. \A b, c \in Actors : drawn'[b] = drawn'[c] /\ drawn'[b] # 0 => b = c
        BY <1>0, <1>1, <2>1 DEF NoneTwice
    <2> QED
        BY <1>0, <1>1, <2>2 DEF NoneTwice, Once, IdsOnce
<1>7. ByPhase'
    BY <1>0, <1>1 DEF ByPhase
<1>8. OwnOnTheirWay'
    <2> SUFFICES ASSUME NEW c \in Drawn', source'[c].actor = Runner PROVE Own(c)'
        BY DEF OwnOnTheirWay
    <2>1. CASE c = nextId
        <3>1. source'[c] = [actor |-> a, unit |-> unit]
            BY <1>0, <1>1, <2>1 DEF TypeOK
        <3>2. a = Runner /\ phase = "steps" /\ drawn'[Runner] = c
            BY <1>0, <1>1, <2>1, <3>1
        <3> QED
            BY <1>0, <1>1, <3>1, <3>2 DEF Own, TypeOK, Units
    <2>2. CASE c # nextId
        <3>1. c \in Drawn /\ source'[c] = source[c]
            BY <1>0, <1>1, <1>2, <2>2 DEF TypeOK
        <3>2. Own(c)
            BY <1>0, <3>1 DEF OwnOnTheirWay
        <3>3. c = drawn[Runner] => c = drawn'[Runner]
            <4>1. 0 \notin Drawn
                BY DEF Drawn
            <4> QED
                BY <1>0, <1>1, <3>1, <4>1, Numbers
        <3> QED
            BY <1>1, <3>1, <3>2, <3>3 DEF Own
    <2> QED
        BY <2>1, <2>2
<1>9. StatusKept'
    <2>1. ASSUME NEW r, r.id \in Drawn, Faithful(r) PROVE Faithful(r)'
        BY <1>0, <1>1, <1>2, <2>1 DEF Faithful, TypeOK, Ended
    <2>2. /\ \A i \in DOMAIN collected : collected[i].id \in Drawn
          /\ \A u \in Units : \A i \in DOMAIN reports[u] : reports[u][i].id \in Drawn
        BY <1>0 DEF WhereIds, InReports, IdsOf
    <2> QED
        BY <1>0, <1>1, <2>1, <2>2 DEF StatusKept
<1>10. InOrder'
    BY <1>0, <1>1 DEF InOrder
<1> QED
    BY <1>5, <1>6, <1>7, <1>8, <1>9, <1>10 DEF CallbacksInv

LEMMA PushKeeps ==
    ASSUME TypeOK, CallbacksInv, NEW a \in Actors, Push(a)
    PROVE  CallbacksInv'
<1>0. /\ TypeOK /\ WhereIds /\ NoneTwice /\ ByPhase /\ OwnOnTheirWay /\ StatusKept /\ InOrder
      /\ drawn \in [Actors -> Ids \cup {0}] /\ pending \in Seq(Ids)
    BY DEF CallbacksInv, TypeOK
<1>1. /\ drawn[a] # 0 /\ drawn' = [drawn EXCEPT ![a] = 0] /\ drawn[a] \in Ids
      /\ pending' = Append(pending, drawn[a])
      /\ UNCHANGED <<nextId, job, source, taken, collected, reports, unit, phase>>
    BY <1>0 DEF Push
<1>2. Drawn' = Drawn /\ InReports' = InReports
    BY <1>1 DEF Drawn, InReports
<1>3. InSchedule' = InSchedule \ {drawn[a]} /\ drawn[a] \in InSchedule
    <2>1. \A b \in Actors : drawn'[b] = (IF b = a THEN 0 ELSE drawn[b])
        BY <1>0, <1>1
    <2>2. \A b \in Actors : b # a => drawn[b] # drawn[a]
        BY <1>0, <1>1 DEF NoneTwice
    <2> QED
        BY <1>0, <1>1, <2>1, <2>2 DEF InSchedule
<1>4. /\ ToSet(pending') = ToSet(pending) \cup {drawn[a]} /\ Once(pending')
    BY <1>0, <1>1, <1>3, Appended DEF WhereIds, NoneTwice
<1>5. WhereIds'
    BY <1>0, <1>1, <1>2, <1>3, <1>4 DEF WhereIds
<1>6. NoneTwice'
    <2>1. \A b, c \in Actors : drawn'[b] = drawn'[c] /\ drawn'[b] # 0 => b = c
        BY <1>0, <1>1 DEF NoneTwice
    <2> QED
        BY <1>0, <1>1, <1>4, <2>1 DEF NoneTwice, Once, IdsOnce
<1>7. ByPhase'
    BY <1>0, <1>1, Numbers DEF ByPhase
<1>8. OwnOnTheirWay'
    <2>1. drawn[Runner] \notin {0, drawn'[Runner]} => drawn[Runner] = drawn[a]
        BY <1>0, <1>1, Numbers
    <2>2. 0 \notin Drawn
        BY DEF Drawn
    <2> QED
        BY <1>0, <1>1, <1>2, <1>4, <2>1, <2>2 DEF OwnOnTheirWay, Own
<1>9. StatusKept' /\ InOrder'
    BY <1>0, <1>1 DEF StatusKept, Faithful, InOrder
<1> QED
    BY <1>5, <1>6, <1>7, <1>8, <1>9 DEF CallbacksInv

\* A task that ends is not one that is reported.
LEMMA JobKeeps ==
    ASSUME TypeOK, CallbacksInv,
           UNCHANGED <<nextId, drawn, source, pending, taken, collected, reports, unit>>,
           phase' = phase \/ (phase = "finished" /\ phase' = "down"),
           \A c \in Ids : job[c] # "running" => job'[c] = job[c]
    PROVE  CallbacksInv'
<1>0. WhereIds /\ NoneTwice /\ ByPhase /\ OwnOnTheirWay /\ StatusKept /\ InOrder
    BY DEF CallbacksInv
<1>1. WhereIds' /\ NoneTwice' /\ ByPhase' /\ InOrder'
    <2>1. WhereIds'
        BY <1>0 DEF WhereIds, Drawn, InSchedule, InReports
    <2>2. NoneTwice'
        BY <1>0 DEF NoneTwice, Once, IdsOnce
    <2>3. ByPhase'
        BY <1>0 DEF ByPhase
    <2>4. InOrder'
        BY <1>0 DEF InOrder
    <2> QED
        BY <2>1, <2>2, <2>3, <2>4
<1>2. OwnOnTheirWay'
    BY <1>0 DEF OwnOnTheirWay, Own, Drawn
<1>3. StatusKept'
    <2>1. ASSUME NEW r, r.id \in Ids, Faithful(r) PROVE Faithful(r)'
        BY <2>1 DEF Faithful, Ended
    <2>2. /\ \A i \in DOMAIN collected : collected[i].id \in Ids
          /\ \A u \in Units : \A i \in DOMAIN reports[u] : reports[u][i].id \in Ids
        <3>1. collected \in Seq(Reports) /\ \A u \in Units : reports[u] \in Seq(Reports)
            BY DEF TypeOK, Reports
        <3>2. \A r \in Reports : r.id \in Ids
            BY DEF Reports
        <3> QED
            BY <3>1, <3>2, ReportsTyped
    <2> QED
        BY <1>0, <2>1, <2>2 DEF StatusKept
<1> QED
    BY <1>1, <1>2, <1>3 DEF CallbacksInv

LEMMA TakeKeeps ==
    ASSUME TypeOK, CallbacksInv, TakePending
    PROVE  CallbacksInv'
<1>0. WhereIds /\ NoneTwice /\ ByPhase /\ OwnOnTheirWay /\ StatusKept /\ InOrder
    BY DEF CallbacksInv
<1>1. /\ phase = "steps" /\ phase' = "flushing" /\ drawn[Runner] = 0
      /\ taken' = pending /\ pending' = <<>>
      /\ UNCHANGED <<nextId, drawn, job, source, collected, reports, unit>>
    BY DEF TakePending
<1>2. taken = <<>> /\ collected = <<>>
    BY <1>0, <1>1 DEF ByPhase
<1>3. Drawn' = Drawn /\ InSchedule' = InSchedule /\ InReports' = InReports
    BY <1>1 DEF Drawn, InSchedule, InReports
<1>4. WhereIds'
    BY <1>0, <1>1, <1>2, <1>3, EmptyHasNone DEF WhereIds
<1>5. NoneTwice'
    BY <1>0, <1>1, EmptyHasNone DEF NoneTwice, Once, IdsOnce
<1>6. ByPhase' /\ InOrder'
    BY <1>0, <1>1 DEF ByPhase, InOrder
<1>7. OwnOnTheirWay'
    <2>1. 0 \notin Drawn
        BY DEF Drawn
    <2> QED
        BY <1>0, <1>1, <1>3, <2>1 DEF OwnOnTheirWay, Own
<1>8. StatusKept'
    BY <1>0, <1>1 DEF StatusKept, Faithful
<1> QED
    BY <1>4, <1>5, <1>6, <1>7, <1>8 DEF CallbacksInv

LEMMA AwaitKeeps ==
    ASSUME TypeOK, CallbacksInv, Await
    PROVE  CallbacksInv'
<1> DEFINE c == Head(taken)
<1>0. /\ WhereIds /\ NoneTwice /\ ByPhase /\ OwnOnTheirWay /\ StatusKept /\ InOrder
      /\ taken \in Seq(Ids) /\ collected \in Seq(Reports)
    BY DEF CallbacksInv, TypeOK, Reports
<1>1. /\ phase = "flushing" /\ taken # <<>> /\ job[c] \in Ended
      /\ collected' = Append(collected, ReportOf(c)) /\ taken' = Tail(taken)
      /\ UNCHANGED <<nextId, drawn, job, source, pending, reports, unit, phase>>
    BY DEF Await
<1>2. c \in Ids /\ c \in ToSet(taken) /\ ToSet(taken') = ToSet(taken) \ {c} /\ Once(taken')
    BY <1>0, <1>1, TakenOff DEF NoneTwice
<1> HIDE DEF c
<1>3. ReportOf(c) \in Reports /\ ReportOf(c).id = c /\ Faithful(ReportOf(c))
    BY <1>1, <1>2 DEF ReportOf, Reports, Faithful
<1>4. c \notin IdsOf(collected)
    BY <1>0, <1>2 DEF WhereIds
<1>5. /\ IdsOf(collected') = IdsOf(collected) \cup {c} /\ IdsOnce(collected')
      /\ ToSet(collected') = ToSet(collected) \cup {ReportOf(c)}
    BY <1>0, <1>1, <1>3, <1>4, ReportAppended DEF NoneTwice
<1>6. Drawn' = Drawn /\ InSchedule' = InSchedule /\ InReports' = InReports
    BY <1>1 DEF Drawn, InSchedule, InReports
<1>7. WhereIds'
    BY <1>0, <1>1, <1>2, <1>5, <1>6 DEF WhereIds
<1>8. NoneTwice'
    BY <1>0, <1>1, <1>2, <1>5 DEF NoneTwice, Once
<1>9. ByPhase' /\ InOrder'
    BY <1>0, <1>1 DEF ByPhase, InOrder
<1>10. OwnOnTheirWay'
    BY <1>0, <1>1, <1>2, <1>5, <1>6 DEF OwnOnTheirWay, Own
<1>11. StatusKept'
    <2>1. \A r \in ToSet(collected') : Faithful(r)
        BY <1>0, <1>3, <1>5 DEF StatusKept, ToSet
    <2> QED
        BY <1>0, <1>1, <2>1 DEF StatusKept, Faithful, ToSet
<1> QED
    BY <1>7, <1>8, <1>9, <1>10, <1>11 DEF CallbacksInv

LEMMA ReportKeeps ==
    ASSUME TypeOK, CallbacksInv, FlushReturn
    PROVE  CallbacksInv'
<1> DEFINE t == SortById(collected)
<1>0. /\ WhereIds /\ NoneTwice /\ ByPhase /\ OwnOnTheirWay /\ StatusKept /\ InOrder
      /\ collected \in Seq(Reports) /\ unit \in Units /\ unit \in Nat
      /\ reports \in [Units -> Seq(Reports)]
    <2>1. collected \in Seq(Reports) /\ reports \in [Units -> Seq(Reports)] /\ unit \in Units
        BY DEF TypeOK, Reports
    <2>2. unit \in Nat
        BY <2>1, Numbers DEF Units
    <2> QED
        BY <2>1, <2>2 DEF CallbacksInv
<1>1. /\ phase = "flushing" /\ taken = <<>> /\ collected' = <<>>
      /\ reports' = [reports EXCEPT ![unit] = t]
      /\ \/ unit' = unit + 1 /\ phase' = "steps"
         \/ unit' = unit /\ phase' = "finished"
      /\ UNCHANGED <<nextId, drawn, job, source, pending, taken>>
    BY DEF FlushReturn, Report
<1>2. /\ ToSet(t) = ToSet(collected) /\ DOMAIN t = 1 .. Len(t)
      /\ \A i, j \in DOMAIN t : i < j => t[i].id < t[j].id
    BY <1>0, Sorted, ReportsTyped DEF NoneTwice
<1>3. IdsOf(t) = IdsOf(collected)
    BY <1>2, IdsOfSet
<1> HIDE DEF t
<1>4. reports'[unit] = t /\ \A u \in Units : u # unit => reports'[u] = reports[u]
    BY <1>0, <1>1
<1>5. reports[unit] = <<>> /\ \A u \in Units : u > unit => reports[u] = <<>>
    BY <1>0, <1>1 DEF ByPhase
<1>6. InReports' = InReports \cup IdsOf(collected)
    <2>1. \A u \in Units : u # unit => IdsOf(reports'[u]) = IdsOf(reports[u])
        BY <1>4
    <2>2. IdsOf(reports[unit]) = {} /\ IdsOf(reports'[unit]) = IdsOf(collected)
        BY <1>3, <1>4, <1>5, EmptyHasNone
    <2> QED
        BY <1>0, <2>1, <2>2 DEF InReports
<1>7. Drawn' = Drawn /\ InSchedule' = InSchedule
    BY <1>1 DEF Drawn, InSchedule
<1>8. WhereIds'
    <2>1. IdsOf(collected') = {} /\ ToSet(pending') = ToSet(pending) /\ ToSet(taken') = ToSet(taken)
        BY <1>1, EmptyHasNone
    <2> QED
        BY <1>0, <1>6, <1>7, <2>1 DEF WhereIds
<1>9. NoneTwice'
    <2>1. ASSUME NEW u \in Units, NEW v \in Units, u # v
          PROVE  IdsOf(reports'[u]) \cap IdsOf(reports'[v]) = {}
        <3>1. \A w \in Units : IdsOf(collected) \cap IdsOf(reports[w]) = {}
            BY <1>0 DEF WhereIds, InReports
        <3>2. CASE u = unit
            BY <1>3, <1>4, <2>1, <3>1, <3>2
        <3>3. CASE v = unit
            BY <1>3, <1>4, <2>1, <3>1, <3>3
        <3>4. CASE u # unit /\ v # unit
            BY <1>0, <1>4, <2>1, <3>4 DEF NoneTwice
        <3> QED
            BY <3>2, <3>3, <3>4
    <2>2. Once(pending') /\ Once(taken') /\ IdsOnce(collected')
        BY <1>0, <1>1, EmptyHasNone DEF NoneTwice
    <2> QED
        BY <1>0, <1>1, <2>1, <2>2 DEF NoneTwice
<1>10. ByPhase'
    <2>1. phase' = "steps" => reports'[unit'] = <<>> \/ unit' \notin Units
        BY <1>0, <1>1, <1>4, <1>5
    <2>2. unit' \in Units
        BY <1>0, Numbers DEF FlushReturn, Report, Units
    <2>3. \A u \in Units : u > unit' => reports'[u] = <<>>
        BY <1>0, <1>1, <1>4, <1>5 DEF Units
    <2> QED
        BY <1>0, <1>1, <2>1, <2>2, <2>3 DEF ByPhase
<1>11. OwnOnTheirWay'
    <2> SUFFICES ASSUME NEW c \in Drawn, source[c].actor = Runner PROVE Own(c)'
        BY <1>1, <1>7 DEF OwnOnTheirWay
    <2>1. Own(c) /\ source[c].unit \in Units /\ source[c].unit \in Nat /\ source[c].unit <= unit
        BY <1>0 DEF OwnOnTheirWay, Own, Units
    <2>2. CASE source[c].unit < unit
        <3>1. c \in IdsOf(reports'[source[c].unit])
            BY <1>0, <1>4, <2>1, <2>2 DEF Own
        <3> QED
            BY <1>0, <1>1, <2>1, <2>2, <3>1 DEF Own
    <2>3. CASE source[c].unit = unit
        <3>1. c \in IdsOf(collected)
            BY <1>1, <2>1, <2>3, EmptyHasNone DEF Own
        <3>2. c \in IdsOf(reports'[source[c].unit])
            BY <1>3, <1>4, <2>3, <3>1
        <3> QED
            BY <1>0, <1>1, <2>1, <2>3, <3>2 DEF Own
    <2> QED
        BY <1>0, <2>1, <2>2, <2>3
<1>12. StatusKept'
    <2>1. \A r \in ToSet(t) : Faithful(r)
        BY <1>0, <1>2 DEF StatusKept, ToSet
    <2>2. \A r : Faithful(r)' <=> Faithful(r)
        BY <1>1 DEF Faithful
    <2>3. \A u \in Units : \A i \in DOMAIN reports'[u] : Faithful(reports'[u][i])
        BY <1>0, <1>4, <2>1 DEF StatusKept, ToSet
    <2> QED
        BY <1>1, <2>3 DEF StatusKept, Faithful
<1>13. InOrder'
    BY <1>0, <1>2, <1>4 DEF InOrder
<1> QED
    BY <1>8, <1>9, <1>10, <1>11, <1>12, <1>13 DEF CallbacksInv

LEMMA CallbacksInvariant == Spec => [](TypeOK /\ CallbacksInv)
<1>1. ASSUME TypeOK, CallbacksInv, [Next]_vars PROVE CallbacksInv'
    <2>1. ASSUME NEW c \in Ids, Deliver(c) PROVE CallbacksInv'
        BY <1>1, <2>1, JobKeeps DEF Deliver, TypeOK
    <2>2. CASE Shutdown
        BY <1>1, <2>2, JobKeeps DEF Shutdown
    <2>3. CASE UNCHANGED vars
        BY <1>1, <2>3, JobKeeps DEF vars
    <2> QED
        BY <1>1, <2>1, <2>2, <2>3, DrawKeeps, PushKeeps, TakeKeeps, AwaitKeeps, ReportKeeps
           DEF Next, Flush
<1>2. TypeOK /\ CallbacksInv /\ [Next]_vars => (TypeOK /\ CallbacksInv)'
    BY <1>1, NextType
<1> QED
    BY <1>2, InitType, InitPlaces, PTL DEF Spec

-----------------------------------------------------------------------------
(***************************************************************************)
(* What holds of every run.                                                *)
(***************************************************************************)

\* schedule(), flush() and the reports have their types in every state.
THEOREM CallbacksTypeCorrect == Spec => []TypeOK
BY CallbacksInvariant, PTL

LEMMA OneOf ==
    ASSUME TypeOK, CallbacksInv, NEW c \in Drawn
    PROVE  \E p : PlacesOf(c) = {p}
<1> DEFINE A == {a \in Actors : drawn[a] = c}
           P == {i \in DOMAIN pending : pending[i] = c}
           T == {i \in DOMAIN taken : taken[i] = c}
           C == {i \in DOMAIN collected : collected[i].id = c}
           U == {u \in Units : c \in IdsOf(reports[u])}
<1>1. /\ \A x, y \in A : x = y
      /\ \A x, y \in P : x = y
      /\ \A x, y \in T : x = y
      /\ \A x, y \in C : x = y
      /\ \A x, y \in U : x = y
    BY DEF CallbacksInv, NoneTwice, Once, IdsOnce, Drawn
<1>2. /\ A # {} <=> c \in InSchedule
      /\ P # {} <=> c \in ToSet(pending)
      /\ T # {} <=> c \in ToSet(taken)
      /\ C # {} <=> c \in IdsOf(collected)
      /\ U # {} <=> c \in InReports
    BY DEF InSchedule, ToSet, IdsOf, InReports, Drawn
<1> HIDE DEF A, P, T, C, U
<1>3. \/ A # {} /\ P = {} /\ T = {} /\ C = {} /\ U = {}
      \/ A = {} /\ P # {} /\ T = {} /\ C = {} /\ U = {}
      \/ A = {} /\ P = {} /\ T # {} /\ C = {} /\ U = {}
      \/ A = {} /\ P = {} /\ T = {} /\ C # {} /\ U = {}
      \/ A = {} /\ P = {} /\ T = {} /\ C = {} /\ U # {}
    BY <1>2 DEF CallbacksInv, WhereIds
<1>4. PlacesOf(c) = ({"schedule"} \X A) \cup ({"pending"} \X P) \cup ({"taken"} \X T)
                        \cup ({"collected"} \X C) \cup ({"report"} \X U)
    BY DEF PlacesOf, A, P, T, C, U
<1>5. \A tag, S : S # {} /\ (\A x, y \in S : x = y) => \E p : {tag} \X S = {p}
    <2> SUFFICES ASSUME NEW tag, NEW S, NEW x \in S, \A y, z \in S : y = z
                 PROVE  \E p : {tag} \X S = {p}
        OBVIOUS
    <2>1. S = {x}
        OBVIOUS
    <2>2. {tag} \X {x} = {<<tag, x>>}
        OBVIOUS
    <2> QED
        BY <2>1, <2>2
<1>6. \A tag : {tag} \X {} = {}
    OBVIOUS
<1> DEFINE Q == PlacesOf(c)
<1>7. /\ A # {} => \E p : {"schedule"} \X A = {p}
      /\ P # {} => \E p : {"pending"} \X P = {p}
      /\ T # {} => \E p : {"taken"} \X T = {p}
      /\ C # {} => \E p : {"collected"} \X C = {p}
      /\ U # {} => \E p : {"report"} \X U = {p}
    BY <1>1, <1>5
<1>8. \/ A # {} /\ Q = {"schedule"} \X A
      \/ P # {} /\ Q = {"pending"} \X P
      \/ T # {} /\ Q = {"taken"} \X T
      \/ C # {} /\ Q = {"collected"} \X C
      \/ U # {} /\ Q = {"report"} \X U
    <2>1. CASE P = {} /\ T = {} /\ C = {} /\ U = {} /\ A # {}
        BY <1>4, <1>6, <2>1
    <2>2. CASE A = {} /\ T = {} /\ C = {} /\ U = {} /\ P # {}
        BY <1>4, <1>6, <2>2
    <2>3. CASE A = {} /\ P = {} /\ C = {} /\ U = {} /\ T # {}
        BY <1>4, <1>6, <2>3
    <2>4. CASE A = {} /\ P = {} /\ T = {} /\ U = {} /\ C # {}
        BY <1>4, <1>6, <2>4
    <2>5. CASE A = {} /\ P = {} /\ T = {} /\ C = {} /\ U # {}
        BY <1>4, <1>6, <2>5
    <2> QED
        BY <1>3, <2>1, <2>2, <2>3, <2>4, <2>5
<1> QED
    BY <1>7, <1>8

LEMMA NowhereElse ==
    ASSUME TypeOK, CallbacksInv, NEW c \in Ids \ Drawn
    PROVE  PlacesOf(c) = {}
<1>1. c \notin InSchedule /\ c \notin ToSet(pending) /\ c \notin ToSet(taken)
      /\ c \notin IdsOf(collected) /\ c \notin InReports
    BY DEF CallbacksInv, WhereIds
<1>2. /\ {a \in Actors : drawn[a] = c} = {} /\ {i \in DOMAIN pending : pending[i] = c} = {}
      /\ {i \in DOMAIN taken : taken[i] = c} = {}
      /\ {i \in DOMAIN collected : collected[i].id = c} = {}
      /\ {u \in Units : c \in IdsOf(reports[u])} = {}
    BY <1>1, Numbers DEF InSchedule, ToSet, IdsOf, InReports
<1> QED
    BY <1>2 DEF PlacesOf

\* A callback is in one place of the runtime from the moment it is spawned, however
\* the handlers of the mock server interleave with the steps and flushes of units.
THEOREM CallbacksHaveOnePlace == Spec => []OnePlace
<1>1. TypeOK /\ CallbacksInv => OnePlace
    BY OneOf, NowhereElse, FS_Singleton, FS_EmptySet DEF OnePlace
<1> QED
    BY <1>1, CallbacksInvariant, PTL

\* The callbacks of a unit's own steps are in its report, and in no other.
THEOREM OwnCallbacksAreReported == Spec => []OwnCallbacksReported
<1>1. TypeOK /\ CallbacksInv => OwnCallbacksReported
    <2> SUFFICES ASSUME TypeOK, CallbacksInv, NEW c \in Drawn, source[c].actor = Runner
                 PROVE  /\ source[c].unit < unit \/ phase \in {"finished", "down"}
                                => c \in IdsOf(reports[source[c].unit])
                        /\ \A u \in Units : c \in IdsOf(reports[u]) => u = source[c].unit
        BY DEF OwnCallbacksReported
    <2>1. Own(c) /\ source[c].unit \in Units /\ phase \in Phases
        BY DEF CallbacksInv, OwnOnTheirWay, Own, TypeOK
    <2>2. source[c].unit < unit \/ source[c].unit = unit
        BY <2>1 DEF Own, TypeOK, Units
    <2>3. ASSUME NEW u \in Units, c \in IdsOf(reports[u]) PROVE u = source[c].unit
        <3>1. c \in InReports
            BY <2>3 DEF InReports
        <3>2. c \notin InSchedule /\ c \notin ToSet(pending) /\ c \notin ToSet(taken)
              /\ c \notin IdsOf(collected)
            BY <3>1 DEF CallbacksInv, WhereIds
        <3>3. c # drawn[Runner]
            BY <3>2, Numbers DEF InSchedule, Drawn
        <3>4. source[c].unit < unit \/ phase \in {"finished", "down"}
            BY <2>1, <2>2, <3>2, <3>3 DEF Own, Phases
        <3>5. c \in IdsOf(reports[source[c].unit])
            BY <2>1, <3>4 DEF Own
        <3> QED
            BY <2>1, <2>3, <3>5 DEF CallbacksInv, NoneTwice
    <2> QED
        BY <2>1, <2>3 DEF Own
<1> QED
    BY <1>1, CallbacksInvariant, PTL

\* Every report lists its callbacks by id, with the status their delivery had.
THEOREM ReportsAreFaithful == Spec => []ReportsFaithful
<1>1. CallbacksInv => ReportsFaithful
    BY DEF CallbacksInv, InOrder, StatusKept, Faithful, ReportsFaithful
<1> QED
    BY <1>1, CallbacksInvariant, PTL
=============================================================================
