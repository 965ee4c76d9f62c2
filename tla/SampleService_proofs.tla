------------------------ MODULE SampleService_proofs -------------------------
(***************************************************************************)
(* For every set of requests, payloads and orders: the order handlers are  *)
(* atomic, what is charged follows from the order, a page says more only   *)
(* when there is, logins are paid for by codes, tokens are earned by       *)
(* logins, and the status of a payment stays.                              *)
(***************************************************************************)
EXTENDS SampleService, FiniteSetTheorems, SequenceTheorems, WellFoundedInduction, TLAPS

\* A create is about an order that can be priced, under an id that no other
\* transaction has and no row.
InsertOK(r) ==
    stage[r] = "insert" =>
        /\ database
        /\ seen[r].order = NewOrder(asked[r])
        /\ PricingStatus(asked[r].items, asked[r].coupon, asked[r].tier) = 200

CommitOK(r) ==
    stage[r] = "commit" =>
        /\ database
        /\ inserted[r].order = NewOrder(asked[r])
        /\ PricingStatus(asked[r].items, asked[r].coupon, asked[r].tier) = 200
        /\ orders[inserted[r].id] = Absent

KeysDiffer ==
    \A r, q \in Requests :
        r # q /\ stage[r] = "commit" /\ stage[q] = "commit" => inserted[r].id # inserted[q].id

\* The row that was read is an earlier version, or the one that is there.
ReadOK(r) ==
    stage[r] = "items" =>
        LET row == orders[asked[r].id]
        IN  /\ row # Absent /\ seen[r].version <= row.version
            /\ seen[r].version = row.version => seen[r] = row

\* What is going to be written follows from the version that the client has named.
WriteOK(r) ==
    stage[r] = "write" =>
        LET id == asked[r].id
            order == Whole(orders[id], items[id])
        IN  /\ orders[id] # Absent /\ asked[r].version <= orders[id].version
            /\ seen[r].version = asked[r].version + 1
            /\ asked[r].version = orders[id].version =>
                    UpdateStatus(order, asked[r]) = 200 /\ seen[r] = Updated(order, asked[r])

OrdersInv ==
    /\ \A r \in Requests : InsertOK(r) /\ CommitOK(r) /\ ReadOK(r) /\ WriteOK(r)
    /\ KeysDiffer
    /\ PricingFollows

\* Orders are never deleted, and a list that is answered with 200 has a page.
PageOK(r) ==
    /\ stage[r] = "page" => seen[r] <= Cardinality(Stored)
    /\ stage[r] = "answered" /\ asked[r].op = "list" /\ answer[r].status = 200 =>
            answer[r].body \in Pages
PagesInv == (\A r \in Requests : PageOK(r)) /\ MoreIsThere

\* A login has the password before it looks at the code, and is admitted before
\* it stores a token.
LoginOK(r) ==
    /\ stage[r] \in {"read code", "delete code", "store token"} => asked[r].password = Password
    /\ stage[r] = "store token" => r \in admitted
    /\ r \in admitted =>
        /\ stage[r] \in {"store token", "answered"}
        /\ asked[r].op = "login" /\ asked[r].password = Password

Earned(email) == \E r \in admitted : asked[r].email = email /\ asked[r].password = Password

\* Who a token has said that the client is has earned it.
MeOK(r) ==
    /\ stage[r] = "user" => Earned(seen[r])
    /\ stage[r] = "answered" /\ asked[r].op = "me" /\ answer[r].status = 200 =>
            Earned(answer[r].body)

LoginsInv ==
    /\ \A r \in Requests : LoginOK(r) /\ MeOK(r)
    /\ \A token \in Tokens : tokens[token] # Absent => Earned(tokens[token])

\* Each code that a provider has accepted is spent, on its way to the store, or
\* stored, or it is gone.
InHand(phone) == {r \in Requests : stage[r] = "store code" /\ asked[r].phone = phone}
Waiting(phone) == IF codes[phone] = Absent THEN 0 ELSE 1

CodesInv ==
    /\ IsFiniteSet(admitted)
    /\ \A phone \in Phones :
        /\ IsFiniteSet(InHand(phone))
        /\ Cardinality(AdmittedBy(phone)) + Cardinality(InHand(phone)) + Waiting(phone)
                <= sent[phone]

\* Nothing has been settled for a payment while a create of it is not stored.
PaymentsInv ==
    /\ \A o \in OrderNos : Paying(o) # {} => settled[o] = Absent
    /\ SettledStays

-----------------------------------------------------------------------------
(***************************************************************************)
(* Types: a step of a handler replies, or goes to a stage of the same      *)
(* handler with what is known there.                                       *)
(***************************************************************************)

Ops == OrderOps \cup OtherOps \cup {"me"}

Replies(r) ==
    \E status \in Nat, body \in Bodies(asked[r].op) \cup {Absent} : Reply(r, status, body)

Goes(r, next) ==
    /\ asked[r].valid /\ Available(asked[r].op) /\ asked[r].op \in HandlersAt(next)
    /\ \E known \in KnownAt(next) : GoTo(r, next, known)

Advances(r) == \E next \in Stages : Goes(r, next)

Inserts(r) ==
    /\ inserted' = [q \in Requests |-> inserted'[q]]
    /\ \A q \in Requests : q # r => inserted'[q] = inserted[q]
    /\ IF stage'[r] = "commit" THEN inserted'[r] \in NewOrders ELSE inserted'[r] = Absent

LEMMA OpsOfPayloads ==
    ASSUME RequestsOK, NEW r \in Requests, asked[r] # Absent
    PROVE  /\ asked[r].op \in Ops
           /\ asked[r].op \in OrderOps => asked[r] \in OrderPayloads
           /\ asked[r].op \in OtherOps => asked[r] \in OtherPayloads
           /\ asked[r].op = "me" => asked[r] \in MePayloads
<1>1. asked[r] \in OrderPayloads \cup OtherPayloads \cup MePayloads
    BY DEF RequestsOK
<1>2. \A p \in MePayloads : p.op = "me"
    BY DEF MePayloads
<1>3. /\ \A p \in OrderPayloads : p.op \in OrderOps
      /\ \A p \in OtherPayloads : p.op \in OtherOps
    BY PayloadsAssumption
<1>4. OrderOps \cap OtherOps = {} /\ "me" \notin OrderOps \cup OtherOps
    BY DEF OrderOps, OtherOps
<1> QED
    BY <1>1, <1>2, <1>3, <1>4 DEF Ops

LEMMA StagesOfHandlers ==
    /\ HandlersAt("idle") = {} /\ HandlersAt("asked") = {} /\ HandlersAt("answered") = {}
    /\ KnownAt("idle") = {Absent} /\ KnownAt("asked") = {Absent} /\ KnownAt("answered") = {Absent}
BY DEF HandlersAt, KnownAt

LEMMA ReplyTypes ==
    ASSUME RequestsOK, NEW r \in Requests, asked[r] # Absent, Replies(r), Inserts(r),
           UNCHANGED <<database, redis>>
    PROVE  RequestsOK'
<1>1. PICK status \in Nat, body \in Bodies(asked[r].op) \cup {Absent} : Reply(r, status, body)
    BY DEF Replies
<1>2. /\ asked' = asked /\ stage' = [stage EXCEPT ![r] = "answered"]
      /\ seen' = [seen EXCEPT ![r] = Absent]
      /\ answer' = [answer EXCEPT ![r] = [status |-> status, body |-> body]]
    BY <1>1 DEF Reply
<1>3. /\ asked' \in [Requests -> OrderPayloads \cup OtherPayloads \cup MePayloads \cup {Absent}]
      /\ stage' \in [Requests -> Stages]
      /\ seen' = [q \in Requests |-> seen'[q]]
      /\ answer' = [q \in Requests |-> answer'[q]]
    BY <1>2 DEF RequestsOK, Stages
<1>4. ASSUME NEW q \in Requests, q # r PROVE RequestOK(q)'
    <2>1. /\ asked'[q] = asked[q] /\ stage'[q] = stage[q] /\ seen'[q] = seen[q]
          /\ answer'[q] = answer[q] /\ inserted'[q] = inserted[q]
        BY <1>2, <1>4 DEF RequestsOK, Inserts
    <2> QED
        BY <2>1 DEF RequestsOK, RequestOK, Available, Needed
<1>5. RequestOK(r)'
    <2>1. /\ asked'[r] = asked[r] /\ stage'[r] = "answered" /\ seen'[r] = Absent
          /\ answer'[r] = [status |-> status, body |-> body]
        BY <1>2 DEF RequestsOK
    <2>2. answer'[r] \in Answers(asked'[r].op)
        BY <1>1, <2>1 DEF Answers
    <2>3. inserted'[r] = Absent
        BY <2>1 DEF Inserts
    <2> QED
        BY <2>1, <2>2, <2>3, StagesOfHandlers DEF RequestOK
<1> QED
    BY <1>3, <1>4, <1>5 DEF RequestsOK, Inserts

LEMMA AdvanceTypes ==
    ASSUME RequestsOK, NEW r \in Requests, asked[r] # Absent, stage[r] # "answered",
           Advances(r), Inserts(r), UNCHANGED <<database, redis>>
    PROVE  RequestsOK'
<1>1. PICK next \in Stages : /\ asked[r].op \in HandlersAt(next)
                             /\ \E known \in KnownAt(next) : GoTo(r, next, known)
    BY DEF Advances, Goes
<1>2. PICK known \in KnownAt(next) : GoTo(r, next, known)
    BY <1>1
<1>3. next \notin {"idle", "asked", "answered"}
    BY <1>1, StagesOfHandlers
<1>4. /\ asked' = asked /\ stage' = [stage EXCEPT ![r] = next]
      /\ seen' = [seen EXCEPT ![r] = known] /\ answer' = answer
    BY <1>2 DEF GoTo
<1>5. /\ asked' \in [Requests -> OrderPayloads \cup OtherPayloads \cup MePayloads \cup {Absent}]
      /\ stage' \in [Requests -> Stages]
      /\ seen' = [q \in Requests |-> seen'[q]]
      /\ answer' = [q \in Requests |-> answer'[q]]
    BY <1>4 DEF RequestsOK
<1>6. ASSUME NEW q \in Requests, q # r PROVE RequestOK(q)'
    <2>1. /\ asked'[q] = asked[q] /\ stage'[q] = stage[q] /\ seen'[q] = seen[q]
          /\ answer'[q] = answer[q] /\ inserted'[q] = inserted[q]
        BY <1>4, <1>6 DEF RequestsOK, Inserts
    <2> QED
        BY <2>1 DEF RequestsOK, RequestOK, Available, Needed
<1>7. RequestOK(r)'
    <2>1. asked'[r] = asked[r] /\ stage'[r] = next /\ seen'[r] = known /\ answer'[r] = answer[r]
        BY <1>4 DEF RequestsOK
    <2>2. answer[r] = Absent /\ asked[r].valid /\ Available(asked[r].op)
        BY DEF RequestsOK, RequestOK, Advances, Goes
    <2>3. Available(asked[r].op)'
        BY <1>4, <2>2 DEF Available, Needed
    <2> QED
        BY <1>1, <1>3, <2>1, <2>2, <2>3 DEF RequestOK, Inserts
<1> QED
    BY <1>5, <1>6, <1>7 DEF RequestsOK, Inserts

LEMMA StageTable ==
    /\ HandlersAt("insert") = {"create"} /\ KnownAt("insert") = NewOrders
    /\ HandlersAt("commit") = {"create"} /\ KnownAt("commit") = {Absent}
    /\ HandlersAt("select") = {"get", "update"} /\ KnownAt("select") = {Absent}
    /\ HandlersAt("items") = {"get", "update"} /\ KnownAt("items") = Rows
    /\ HandlersAt("write") = {"update"} /\ KnownAt("write") = Orders
    /\ HandlersAt("page") = {"list"} /\ KnownAt("page") = Nat
    /\ HandlersAt("read code") = {"login"} /\ KnownAt("read code") = {Absent}
    /\ HandlersAt("delete code") = {"login"} /\ KnownAt("delete code") = {Absent}
    /\ HandlersAt("store token") = {"login"} /\ KnownAt("store token") = {Absent}
    /\ HandlersAt("user") = {"me"} /\ KnownAt("user") = Emails
    /\ HandlersAt("store code") = {"sms"} /\ KnownAt("store code") = Codes
    /\ HandlersAt("store payment") = {"pay"} /\ KnownAt("store payment") = {Absent}
<1>1. /\ HandlersAt("insert") = {"create"} /\ HandlersAt("commit") = {"create"}
      /\ HandlersAt("select") = {"get", "update"} /\ HandlersAt("items") = {"get", "update"}
      /\ HandlersAt("write") = {"update"} /\ HandlersAt("page") = {"list"}
      /\ HandlersAt("read code") = {"login"} /\ HandlersAt("delete code") = {"login"}
      /\ HandlersAt("store token") = {"login"} /\ HandlersAt("user") = {"me"}
      /\ HandlersAt("store code") = {"sms"} /\ HandlersAt("store payment") = {"pay"}
    BY DEF HandlersAt
<1>2. /\ KnownAt("insert") = NewOrders /\ KnownAt("commit") = {Absent}
      /\ KnownAt("select") = {Absent} /\ KnownAt("items") = Rows
      /\ KnownAt("write") = Orders /\ KnownAt("page") = Nat
      /\ KnownAt("read code") = {Absent} /\ KnownAt("delete code") = {Absent}
      /\ KnownAt("store token") = {Absent} /\ KnownAt("user") = Emails
      /\ KnownAt("store code") = Codes /\ KnownAt("store payment") = {Absent}
    BY DEF KnownAt
<1> QED
    BY <1>1, <1>2

LEMMA BodyTable ==
    /\ Bodies("create") = Orders /\ Bodies("get") = Orders /\ Bodies("update") = Orders
    /\ Bodies("list") = Pages
    /\ Bodies("register") = Emails /\ Bodies("me") = Emails
    /\ Bodies("login") = Tokens /\ Bodies("sms") = Codes
    /\ Bodies("pay") = {Pending} /\ Bodies("callback") = {}
BY DEF Bodies

LEMMA StatusTyped ==
    ASSUME NEW basket, NEW coupon, NEW tier
    PROVE  PricingStatus(basket, coupon, tier) \in Nat
BY DEF PricingStatus

LEMMA OrdersTyped ==
    /\ \A order \in Orders :
        /\ RowOf(order) \in Rows /\ order.items \in Baskets
        /\ Whole(RowOf(order), order.items) = order
    /\ \A row \in Rows, basket \in Baskets :
        /\ Whole(row, basket) \in Orders
        /\ RowOf(Whole(row, basket)) = row /\ Whole(row, basket).items = basket
    /\ Absent \notin Rows /\ Absent \notin Orders /\ Absent \notin NewOrders /\ Absent \notin Baskets
<1>1. ASSUME NEW order \in Orders
      PROVE  /\ RowOf(order) \in Rows /\ order.items \in Baskets
             /\ Whole(RowOf(order), order.items) = order
    BY <1>1 DEF Orders, Rows, RowOf, Whole
<1>2. ASSUME NEW row \in Rows, NEW basket \in Baskets
      PROVE  /\ Whole(row, basket) \in Orders
             /\ RowOf(Whole(row, basket)) = row /\ Whole(row, basket).items = basket
    BY <1>2 DEF Orders, Rows, RowOf, Whole
<1> QED
    BY <1>1, <1>2, AbsentAssumption

LEMMA CreatesTyped ==
    ASSUME NEW p \in OrderPayloads, p.valid, p.op = "create"
    PROVE  NewOrder(p) \in Orders
<1>1. p.items \in Baskets /\ p.tier \in Tiers /\ p.coupon \in Coupons
    BY PayloadsAssumption
<1>2. Pricing(p.items, p.coupon) \in Prices
    BY <1>1 DEF Prices
<1> QED
    BY <1>1, <1>2 DEF NewOrder, Orders

LEMMA UpdatesTyped ==
    ASSUME NEW p \in OrderPayloads, p.valid, p.op = "update", NEW order \in Orders
    PROVE  /\ Updated(order, p) \in Orders
           /\ Updated(order, p).items = order.items
           /\ Updated(order, p).version = order.version + 1
           /\ Updated(order, p).pricing = Pricing(order.items, Updated(order, p).coupon)
           /\ UpdateStatus(order, p) \in Nat
           /\ UpdateStatus(order, p) = 200 =>
                PricingStatus(order.items, Updated(order, p).coupon, Updated(order, p).tier) = 200
<1> DEFINE coupon == Given(p.coupon, order.coupon)
           tier == Given(p.tier, order.tier)
<1>1. p.tier \in Tiers \cup {Kept} /\ p.coupon \in Coupons \cup {Kept}
    BY PayloadsAssumption
<1>2. /\ order.version \in Nat /\ order.items \in Baskets
      /\ order.tier \in Tiers /\ order.coupon \in Coupons
    BY DEF Orders
<1>3. coupon \in Coupons /\ tier \in Tiers
    BY <1>1, <1>2 DEF Given
<1>4. Pricing(order.items, coupon) \in Prices
    BY <1>2, <1>3 DEF Prices
<1>5. UpdateStatus(order, p) = PricingStatus(order.items, coupon, tier)
    BY DEF UpdateStatus
<1>6. Updated(order, p) = [order EXCEPT !.version = order.version + 1, !.tier = tier,
                                        !.coupon = coupon,
                                        !.pricing = Pricing(order.items, coupon)]
    BY DEF Updated
<1> HIDE DEF coupon, tier
<1> DEFINE price == Pricing(order.items, coupon)
<1>8. Updated(order, p) = [version |-> order.version + 1, items |-> order.items, tier |-> tier,
                           coupon |-> coupon, pricing |-> price]
    <2>1. order = [version |-> order.version, items |-> order.items, tier |-> order.tier,
                   coupon |-> order.coupon, pricing |-> order.pricing]
        BY DEF Orders
    <2> HIDE DEF price
    <2> QED
        BY <1>6, <2>1 DEF price
<1>7. /\ Updated(order, p) \in Orders
      /\ Updated(order, p).items = order.items
      /\ Updated(order, p).version = order.version + 1
      /\ Updated(order, p).coupon = coupon /\ Updated(order, p).tier = tier
      /\ Updated(order, p).pricing = Pricing(order.items, coupon)
    BY <1>2, <1>3, <1>4, <1>8 DEF Orders
<1> QED
    BY <1>5, <1>7, StatusTyped

LEMMA FieldsOfOrders ==
    ASSUME RequestsOK, NEW r \in Requests, asked[r] # Absent, asked[r].valid
    PROVE  /\ asked[r].op = "create" => NewOrder(asked[r]) \in Orders
           /\ asked[r].op \in {"get", "update"} => asked[r].id \in Ids
           /\ asked[r].op = "update" => asked[r].version \in Nat
           /\ asked[r].op = "list" => asked[r].limit \in Nat /\ asked[r].offset \in Nat
<1>1. asked[r].op \in OrderOps => asked[r] \in OrderPayloads
    BY OpsOfPayloads
<1>2. asked[r].op = "create" => NewOrder(asked[r]) \in Orders
    BY <1>1, CreatesTyped DEF OrderOps
<1>3. /\ asked[r].op \in {"get", "update"} => asked[r].id \in Ids
      /\ asked[r].op = "update" => asked[r].version \in Nat
      /\ asked[r].op = "list" => asked[r].limit \in Nat /\ asked[r].offset \in Nat
    BY <1>1, PayloadsAssumption DEF OrderOps
<1> QED
    BY <1>2, <1>3

LEMMA FieldsOfAccounts ==
    ASSUME RequestsOK, NEW r \in Requests, asked[r] # Absent, asked[r].valid
    PROVE  /\ asked[r].op \in {"register", "login"} => asked[r].email \in Emails
           /\ asked[r].op \in {"login", "sms"} => asked[r].phone \in Phones
           /\ asked[r].op \in {"pay", "callback"} => asked[r].order_no \in OrderNos
<1>1. asked[r].op \in OtherOps => asked[r] \in OtherPayloads
    BY OpsOfPayloads
<1> QED
    BY <1>1, PayloadsAssumption DEF OtherOps

LEMMA NextStage ==
    ASSUME RequestsOK, NEW r \in Requests
    PROVE  /\ \A status, body : Reply(r, status, body) => stage'[r] = "answered"
           /\ \A next, known : GoTo(r, next, known) => stage'[r] = next
BY DEF Reply, GoTo, RequestsOK

LEMMA InsertsNothing ==
    ASSUME RequestsOK, NEW r \in Requests, inserted' = inserted, stage[r] # "commit",
           \/ Replies(r)
           \/ \E next \in Stages \ {"commit"} : Goes(r, next)
    PROVE  (Replies(r) \/ Advances(r)) /\ Inserts(r)
<1>1. stage'[r] # "commit"
    BY NextStage DEF Replies, Goes
<1>2. Replies(r) \/ Advances(r)
    BY DEF Advances
<1>3. inserted[r] = Absent /\ inserted' = [q \in Requests |-> inserted'[q]]
    BY DEF RequestsOK, RequestOK
<1> QED
    BY <1>1, <1>2, <1>3 DEF Inserts

LEMMA Asking ==
    ASSUME RequestsOK, NEW r \in Requests, stage[r] # "idle"
    PROVE  /\ asked[r] # Absent /\ asked[r].op \in Ops
           /\ stage[r] \notin {"idle", "asked", "answered"} =>
                asked[r].op \in HandlersAt(stage[r]) /\ Available(asked[r].op) /\ asked[r].valid
           /\ seen[r] \in KnownAt(stage[r])
           /\ stage[r] = "commit" => inserted[r] \in NewOrders
           /\ stage[r] # "commit" => inserted[r] = Absent
BY OpsOfPayloads DEF RequestsOK, RequestOK

LEMMA Refusing ==
    ASSUME NEW r \in Requests
    PROVE  /\ \A status \in Nat : Refuse(r, status) => Replies(r)
           /\ Breaks(r) => Replies(r)
BY DEF Replies, Refuse, Breaks

Shaped(r) ==
    /\ asked[r] # Absent /\ stage[r] \notin {"idle", "answered"}
    /\ Replies(r) \/ Advances(r)
    /\ Inserts(r)

LEMMA CreateShapes ==
    ASSUME RequestsOK, NEW r \in Requests, CreateOrder(r) \/ Insert(r) \/ InsertFails(r) \/ Commit(r)
    PROVE  Shaped(r)
<1>1. /\ asked[r] # Absent /\ stage[r] \notin {"idle", "answered"} /\ asked[r].op = "create"
      /\ asked[r].valid /\ Available(asked[r].op)
      /\ NewOrder(asked[r]) \in Orders
    <2>1. /\ stage[r] \notin {"idle", "answered"} /\ asked[r].op = "create"
          /\ stage[r] = "asked" => asked[r].valid /\ Available(asked[r].op)
        <3>1. CASE CreateOrder(r)
            BY <3>1 DEF CreateOrder, At, Accepted
        <3>2. CASE Insert(r) \/ InsertFails(r)
            BY <3>2 DEF Insert, InsertFails, At
        <3>3. CASE Commit(r)
            BY <3>3 DEF Commit, At
        <3> QED
            BY <3>1, <3>2, <3>3
    <2>2. asked[r] # Absent /\ asked[r].valid /\ Available(asked[r].op)
        BY <2>1, Asking
    <2> QED
        BY <2>1, <2>2, FieldsOfOrders
<1>2. CASE CreateOrder(r)
    <2>1. inserted' = inserted /\ stage[r] # "commit"
        BY <1>2 DEF CreateOrder, Accepted, At, orderVars
    <2>2. Replies(r) \/ Goes(r, "insert")
        <3>1. ASSUME NEW id \in Ids PROVE [id |-> id, order |-> NewOrder(asked[r])] \in NewOrders
            BY <1>1 DEF NewOrders
        <3>2. Refuse(r, PricingStatus(asked[r].items, asked[r].coupon, asked[r].tier)) => Replies(r)
            BY StatusTyped, Refusing
        <3>3. Reply(r, 201, NewOrder(asked[r])) => Replies(r)
            BY <1>1, BodyTable DEF Replies
        <3>4. \A id \in Ids : GoTo(r, "insert", [id |-> id, order |-> NewOrder(asked[r])])
                    => Goes(r, "insert")
            BY <1>1, <3>1, StageTable DEF Goes
        <3> QED
            BY <1>2, <3>2, <3>3, <3>4 DEF CreateOrder
    <2> QED
        BY <1>1, <2>1, <2>2, InsertsNothing DEF Shaped, Stages
<1>3. CASE InsertFails(r)
    <2>1. Replies(r) /\ inserted' = inserted /\ stage[r] # "commit"
        BY <1>3, Refusing DEF InsertFails, At, orderVars
    <2> QED
        BY <1>1, <2>1, InsertsNothing DEF Shaped
<1>4. CASE Insert(r)
    <2>1. stage[r] = "insert" /\ seen[r] \in NewOrders
        BY <1>4, Asking, StageTable DEF Insert, At
    <2>2. CASE Refuse(r, 409) /\ UNCHANGED inserted
        <3>1. Replies(r)
            BY <2>2, Refusing
        <3> QED
            BY <1>1, <2>1, <2>2, <3>1, InsertsNothing DEF Shaped
    <2>3. CASE inserted' = [inserted EXCEPT ![r] = seen[r]] /\ GoTo(r, "commit", Absent)
        <3>1. Advances(r) /\ stage'[r] = "commit"
            BY <1>1, <2>3, NextStage, StageTable DEF Advances, Goes, Stages
        <3>2. Inserts(r)
            BY <2>1, <2>3, <3>1 DEF Inserts, RequestsOK
        <3> QED
            BY <1>1, <3>1, <3>2 DEF Shaped
    <2> QED
        BY <1>4, <2>2, <2>3 DEF Insert
<1>5. CASE Commit(r)
    <2>1. stage[r] = "commit" /\ inserted[r] \in NewOrders
        BY <1>5, Asking DEF Commit, At
    <2>2. inserted[r].order \in Orders
        BY <2>1 DEF NewOrders
    <2>3. Replies(r)
        <3>1. Reply(r, 201, inserted[r].order) => Replies(r)
            BY <1>1, <2>2, BodyTable DEF Replies
        <3> QED
            BY <1>5, <3>1, Refusing DEF Commit
    <2>4. Inserts(r)
        BY <1>5, <2>3, NextStage DEF Commit, Inserts, RequestsOK, Replies
    <2> QED
        BY <1>1, <2>3, <2>4 DEF Shaped
<1> QED
    BY <1>2, <1>3, <1>4, <1>5

LEMMA Plain ==
    ASSUME RequestsOK, NEW r \in Requests, inserted' = inserted,
           stage[r] \notin {"idle", "answered", "commit"},
           \/ Replies(r)
           \/ \E next \in Stages \ {"commit"} : Goes(r, next)
    PROVE  Shaped(r)
BY InsertsNothing, Asking DEF Shaped

LEMMA ReadShapes ==
    ASSUME RequestsOK, TablesOK, NEW r \in Requests, ReadOK(r),
           GetOrder(r) \/ UpdateOrder(r) \/ SelectOrder(r) \/ AnswerGet(r)
    PROVE  Shaped(r)
<1>1. CASE GetOrder(r)
    <2>1. stage[r] = "asked" /\ inserted' = inserted /\ Goes(r, "select")
        BY <1>1, StageTable DEF GetOrder, Accepted, At, Goes, orderVars
    <2> QED
        BY <2>1, Plain DEF Stages
<1>2. CASE UpdateOrder(r)
    <2>1. Goes(r, "select") \/ Replies(r)
        BY <1>2, StageTable, Refusing DEF UpdateOrder, Accepted, At, Goes
    <2>2. stage[r] = "asked" /\ inserted' = inserted
        BY <1>2 DEF UpdateOrder, Accepted, At, orderVars
    <2> QED
        BY <2>1, <2>2, Plain DEF Stages
<1>3. CASE SelectOrder(r)
    <2>1. stage[r] = "select" /\ inserted' = inserted
        BY <1>3 DEF SelectOrder, orderVars
    <2>2. /\ asked[r] # Absent /\ asked[r].valid /\ Available(asked[r].op)
          /\ asked[r].op \in {"get", "update"}
        BY <2>1, Asking, StageTable
    <2>3. orders[asked[r].id] \in Rows \cup {Absent}
        BY <2>2, FieldsOfOrders DEF TablesOK
    <2>4. orders[asked[r].id] # Absent /\ GoTo(r, "items", orders[asked[r].id]) => Goes(r, "items")
        BY <2>2, <2>3, StageTable DEF Goes
    <2>5. Replies(r) \/ Goes(r, "items")
        BY <1>3, <2>4, Refusing DEF SelectOrder
    <2> QED
        BY <2>1, <2>5, Plain DEF Stages
<1>4. CASE AnswerGet(r)
    <2>1. stage[r] = "items" /\ asked[r].op = "get" /\ inserted' = inserted
        BY <1>4 DEF AnswerGet, At, orderVars
    <2>2. asked[r] # Absent /\ asked[r].valid /\ seen[r] \in Rows
        BY <2>1, Asking, StageTable
    <2>3. items[asked[r].id] \in Baskets
        BY <2>1, <2>2, FieldsOfOrders DEF TablesOK, ReadOK
    <2>4. Whole(seen[r], items[asked[r].id]) \in Bodies(asked[r].op)
        BY <2>1, <2>2, <2>3, OrdersTyped, BodyTable
    <2>5. Replies(r)
        BY <1>4, <2>4, Refusing DEF AnswerGet, Replies
    <2> QED
        BY <2>1, <2>5, Plain
<1> QED
    BY <1>1, <1>2, <1>3, <1>4

LEMMA WriteShapes ==
    ASSUME RequestsOK, TablesOK, NEW r \in Requests, ReadOK(r), PrepareUpdate(r) \/ WriteUpdate(r)
    PROVE  Shaped(r)
<1>1. CASE PrepareUpdate(r)
    <2> DEFINE current == Whole(seen[r], items[asked[r].id])
    <2>1. stage[r] = "items" /\ asked[r].op = "update" /\ inserted' = inserted
        BY <1>1 DEF PrepareUpdate, At, orderVars
    <2>2. /\ asked[r] # Absent /\ asked[r].valid /\ Available(asked[r].op) /\ seen[r] \in Rows
          /\ asked[r] \in OrderPayloads
        BY <2>1, Asking, StageTable, OpsOfPayloads DEF OrderOps
    <2>3. items[asked[r].id] \in Baskets
        BY <2>1, <2>2, FieldsOfOrders DEF TablesOK, ReadOK
    <2>4. current \in Orders
        BY <2>2, <2>3, OrdersTyped
    <2>5. Updated(current, asked[r]) \in Orders /\ UpdateStatus(current, asked[r]) \in Nat
        BY <2>1, <2>2, <2>4, UpdatesTyped
    <2>6. GoTo(r, "write", Updated(current, asked[r])) => Goes(r, "write")
        BY <2>1, <2>2, <2>5, StageTable DEF Goes
    <2>7. Replies(r) \/ Goes(r, "write")
        BY <1>1, <2>5, <2>6, Refusing DEF PrepareUpdate
    <2> QED
        BY <2>1, <2>7, Plain DEF Stages
<1>2. CASE WriteUpdate(r)
    <2>1. stage[r] = "write" /\ asked[r].op = "update" /\ inserted' = inserted
        BY <1>2 DEF WriteUpdate, At
    <2>2. seen[r] \in Bodies(asked[r].op)
        <3>1. seen[r] \in Orders
            BY <2>1, Asking, StageTable
        <3> QED
            BY <2>1, <3>1, BodyTable
    <2>3. Reply(r, 200, seen[r]) \/ Refuse(r, 409) \/ Breaks(r)
        BY <1>2 DEF WriteUpdate
    <2>4. 200 \in Nat /\ 409 \in Nat
        OBVIOUS
    <2>5. Reply(r, 200, seen[r]) => Replies(r)
        BY <2>2, <2>4 DEF Replies
    <2> QED
        BY <2>1, <2>3, <2>4, <2>5, Refusing, Plain
<1> QED
    BY <1>1, <1>2

LEMMA StoredFinite == IsFiniteSet(Stored) /\ Cardinality(Stored) \in Nat
BY IdsAssumption, FS_Subset, FS_CardinalityType DEF Stored

LEMMA ListShapes ==
    ASSUME RequestsOK, NEW r \in Requests, CountOrders(r) \/ SelectPage(r)
    PROVE  Shaped(r)
<1>1. CASE CountOrders(r)
    <2>1. /\ stage[r] = "asked" /\ asked[r].op = "list" /\ inserted' = inserted
          /\ asked[r].valid /\ Available(asked[r].op)
        BY <1>1 DEF CountOrders, Accepted, At, orderVars
    <2>2. GoTo(r, "page", Cardinality(Stored)) => Goes(r, "page")
        BY <2>1, StageTable, StoredFinite DEF Goes
    <2>3. Replies(r) \/ Goes(r, "page")
        BY <1>1, <2>2, Refusing DEF CountOrders
    <2> QED
        BY <2>1, <2>3, Plain DEF Stages
<1>2. CASE SelectPage(r)
    <2>1. stage[r] = "page" /\ asked[r].op = "list" /\ inserted' = inserted
        BY <1>2 DEF SelectPage, At, orderVars
    <2>2. asked[r] # Absent /\ asked[r].valid /\ seen[r] \in Nat
        BY <2>1, Asking, StageTable
    <2>3. asked[r].limit \in Nat /\ asked[r].offset \in Nat
        BY <2>1, <2>2, FieldsOfOrders
    <2>4. PageSize(asked[r]) \in Nat
        BY <2>3, StoredFinite DEF PageSize
    <2>5. PageOf(asked[r], PageSize(asked[r]), seen[r]) \in Pages
        BY <2>2, <2>3, <2>4 DEF PageOf, Pages
    <2>6. Replies(r)
        BY <1>2, <2>1, <2>5, Refusing, BodyTable DEF SelectPage, Replies
    <2> QED
        BY <2>1, <2>6, Plain
<1> QED
    BY <1>1, <1>2

LEMMA Refusals ==
    ASSUME NEW r \in Requests
    PROVE  /\ Refuse(r, 401) \/ Refuse(r, 409) \/ Refuse(r, 502) \/ Refuse(r, 503) => Replies(r)
           /\ Breaks(r) => Replies(r)
<1>1. 401 \in Nat /\ 409 \in Nat /\ 502 \in Nat /\ 503 \in Nat
    OBVIOUS
<1> QED
    BY <1>1, Refusing

LEMMA LoginShapes ==
    ASSUME RequestsOK, NEW r \in Requests, inserted' = inserted,
           Register(r) \/ FindUser(r) \/ ReadCode(r) \/ DeleteCode(r) \/ StoreToken(r)
    PROVE  Shaped(r)
<1>1. CASE Register(r)
    <2>1. stage[r] = "asked" /\ asked[r].op = "register" /\ asked[r].valid
        BY <1>1 DEF Register, Accepted, At
    <2>2. asked[r].email \in Emails
        BY <2>1, Asking, FieldsOfAccounts
    <2>3. asked[r].email \in Bodies(asked[r].op)
        BY <2>1, <2>2, BodyTable
    <2>4. Replies(r)
        BY <1>1, <2>3, Refusals DEF Register, Replies
    <2> QED
        BY <2>1, <2>4, Plain
<1>2. CASE FindUser(r)
    <2>1. /\ stage[r] = "asked" /\ asked[r].op = "login"
          /\ asked[r].valid /\ Available(asked[r].op)
        BY <1>2 DEF FindUser, Accepted, At
    <2>2. GoTo(r, "read code", Absent) => Goes(r, "read code")
        BY <2>1, StageTable DEF Goes
    <2>3. Replies(r) \/ Goes(r, "read code")
        BY <1>2, <2>2, Refusals DEF FindUser
    <2> QED
        BY <2>1, <2>3, Plain DEF Stages
<1>3. CASE ReadCode(r)
    <2>1. stage[r] = "read code" /\ asked[r].op = "login"
        BY <1>3 DEF ReadCode, At
    <2>2. asked[r].valid /\ Available(asked[r].op)
        BY <2>1, Asking
    <2>3. GoTo(r, "delete code", Absent) => Goes(r, "delete code")
        BY <2>1, <2>2, StageTable DEF Goes
    <2>4. Replies(r) \/ Goes(r, "delete code")
        BY <1>3, <2>3, Refusals DEF ReadCode
    <2> QED
        BY <2>1, <2>4, Plain DEF Stages
<1>4. CASE DeleteCode(r)
    <2>1. stage[r] = "delete code" /\ asked[r].op = "login"
        BY <1>4 DEF DeleteCode, At
    <2>2. asked[r].valid /\ Available(asked[r].op)
        BY <2>1, Asking
    <2>3. GoTo(r, "store token", Absent) => Goes(r, "store token")
        BY <2>1, <2>2, StageTable DEF Goes
    <2>4. Replies(r) \/ Goes(r, "store token")
        BY <1>4, <2>3, Refusals DEF DeleteCode
    <2> QED
        BY <2>1, <2>4, Plain DEF Stages
<1>5. CASE StoreToken(r)
    <2>1. stage[r] = "store token" /\ asked[r].op = "login"
        BY <1>5 DEF StoreToken, At
    <2>2. asked[r].email \in Emails
        BY <2>1, Asking, FieldsOfAccounts
    <2>3. \A second \in Seconds : <<asked[r].email, second>> \in Bodies(asked[r].op)
        BY <2>1, <2>2, BodyTable DEF Tokens
    <2>4. \A second \in Seconds : Reply(r, 200, <<asked[r].email, second>>) => Replies(r)
        BY <2>3 DEF Replies
    <2>5. Replies(r)
        BY <1>5, <2>4, Refusals DEF StoreToken
    <2> QED
        BY <2>1, <2>5, Plain
<1> QED
    BY <1>1, <1>2, <1>3, <1>4, <1>5

LEMMA MeShapes ==
    ASSUME RequestsOK, AccountsOK, NEW r \in Requests, inserted' = inserted,
           FindToken(r) \/ AnswerMe(r)
    PROVE  Shaped(r)
<1>1. CASE FindToken(r)
    <2>1. /\ stage[r] = "asked" /\ asked[r].op = "me"
          /\ asked[r].valid /\ Available(asked[r].op)
        BY <1>1 DEF FindToken, Accepted, At
    <2>2. \A token \in Tokens : tokens[token] # Absent => tokens[token] \in Emails
        BY DEF AccountsOK
    <2>3. \A token \in Tokens : tokens[token] # Absent /\ GoTo(r, "user", tokens[token])
                => Goes(r, "user")
        BY <2>1, <2>2, StageTable DEF Goes
    <2>4. Replies(r) \/ Goes(r, "user")
        BY <1>1, <2>3, Refusals DEF FindToken
    <2> QED
        BY <2>1, <2>4, Plain DEF Stages
<1>2. CASE AnswerMe(r)
    <2>1. stage[r] = "user" /\ asked[r].op = "me"
        BY <1>2 DEF AnswerMe, At
    <2>2. seen[r] \in Emails
        BY <2>1, Asking, StageTable
    <2>3. seen[r] \in Bodies(asked[r].op)
        BY <2>1, <2>2, BodyTable
    <2>4. Reply(r, 200, seen[r]) \/ Refuse(r, 401) \/ Breaks(r)
        <3>1. (IF users[seen[r]] THEN Reply(r, 200, seen[r]) ELSE Refuse(r, 401)) \/ Breaks(r)
            BY <1>2 DEF AnswerMe
        <3> QED
            BY <3>1
    <2>5. Reply(r, 200, seen[r]) => Replies(r)
        BY <2>3 DEF Replies
    <2> QED
        BY <2>1, <2>4, <2>5, Refusals, Plain
<1> QED
    BY <1>1, <1>2

LEMMA ProviderShapes ==
    ASSUME RequestsOK, NEW r \in Requests, inserted' = inserted,
           CallSms(r) \/ StoreCode(r) \/ CallPayment(r) \/ StorePending(r) \/ ReceiveCallback(r)
    PROVE  Shaped(r)
<1>1. CASE CallSms(r)
    <2>1. /\ stage[r] = "asked" /\ asked[r].op = "sms"
          /\ asked[r].valid /\ Available(asked[r].op)
        BY <1>1 DEF CallSms, Accepted, At
    <2>2. \A code \in Codes : GoTo(r, "store code", code) => Goes(r, "store code")
        BY <2>1, StageTable DEF Goes
    <2>3. \/ Refuse(r, 502) \/ Refuse(r, 503)
          \/ \E code \in Codes : GoTo(r, "store code", code)
        BY <1>1 DEF CallSms
    <2>4. Refuse(r, 502) \/ Refuse(r, 503) => Replies(r)
        BY Refusals
    <2>5. Replies(r) \/ Goes(r, "store code")
        BY <2>2, <2>3, <2>4
    <2> QED
        BY <2>1, <2>5, Plain DEF Stages
<1>2. CASE StoreCode(r)
    <2>1. stage[r] = "store code" /\ asked[r].op = "sms"
        BY <1>2 DEF StoreCode, At
    <2>2. seen[r] \in Codes
        BY <2>1, Asking, StageTable
    <2>3. seen[r] \in Bodies(asked[r].op)
        BY <2>1, <2>2, BodyTable
    <2>4. Reply(r, 200, seen[r]) \/ Breaks(r)
        BY <1>2 DEF StoreCode
    <2>5. Reply(r, 200, seen[r]) => Replies(r)
        BY <2>3 DEF Replies
    <2> QED
        BY <2>1, <2>4, <2>5, Refusals, Plain
<1>3. CASE CallPayment(r)
    <2>1. /\ stage[r] = "asked" /\ asked[r].op = "pay"
          /\ asked[r].valid /\ Available(asked[r].op)
        BY <1>3 DEF CallPayment, Accepted, At
    <2>2. GoTo(r, "store payment", Absent) => Goes(r, "store payment")
        BY <2>1, StageTable DEF Goes
    <2>3. Refuse(r, 502) \/ Refuse(r, 503) \/ GoTo(r, "store payment", Absent)
        BY <1>3 DEF CallPayment
    <2>4. Refuse(r, 502) \/ Refuse(r, 503) => Replies(r)
        BY Refusals
    <2>5. Replies(r) \/ Goes(r, "store payment")
        BY <2>2, <2>3, <2>4
    <2> QED
        BY <2>1, <2>5, Plain DEF Stages
<1>4. CASE StorePending(r)
    <2>1. stage[r] = "store payment" /\ asked[r].op = "pay"
        BY <1>4 DEF StorePending, At
    <2>2. Pending \in Bodies(asked[r].op)
        BY <2>1, BodyTable
    <2>3. Reply(r, 202, Pending) \/ Breaks(r)
        BY <1>4 DEF StorePending
    <2>4. Reply(r, 202, Pending) => Replies(r)
        BY <2>2 DEF Replies
    <2> QED
        BY <2>1, <2>3, <2>4, Refusals, Plain
<1>5. CASE ReceiveCallback(r)
    <2>1. stage[r] = "asked"
        BY <1>5 DEF ReceiveCallback, Accepted, At
    <2>2. Replies(r)
        BY <1>5, Refusals DEF ReceiveCallback, Replies
    <2> QED
        BY <2>1, <2>2, Plain
<1> QED
    BY <1>1, <1>2, <1>3, <1>4, <1>5

LEMMA StepShapes ==
    ASSUME TypeOK, NEW r \in Requests, ReadOK(r),
           OrderStep(r) \/ (AccountStep(r) /\ UNCHANGED orderVars)
    PROVE  Shaped(r)
<1>1. CASE OrderStep(r)
    BY <1>1, CreateShapes, ReadShapes, WriteShapes, ListShapes DEF OrderStep, TypeOK
<1>2. CASE AccountStep(r) /\ UNCHANGED orderVars
    BY <1>2, LoginShapes, MeShapes, ProviderShapes DEF AccountStep, TypeOK, orderVars
<1> QED
    BY <1>1, <1>2

LEMMA EnterTypes ==
    ASSUME TypeOK, NEW r \in Requests, Enter(r), UNCHANGED <<database, redis>>
    PROVE  RequestsOK'
<1>1. PICK payload \in Payloads : Ask(r, payload)
    BY DEF Enter
<1>2. KnownTokens \subseteq Tokens \cup {Absent}
    <2> SUFFICES ASSUME NEW q \in Requests, stage[q] = "answered", asked[q].op = "login"
                 PROVE  answer[q].body \in Tokens \cup {Absent}
        BY DEF KnownTokens
    <2>1. answer[q] \in Answers("login")
        BY DEF TypeOK, RequestsOK, RequestOK
    <2> QED
        BY <2>1, BodyTable DEF Answers
<1>3. payload \in OrderPayloads \cup OtherPayloads \cup MePayloads
    BY <1>1, <1>2 DEF Payloads, MePayloads
<1>4. payload # Absent
    BY <1>3, AbsentAssumption
<1>5. /\ stage[r] = "idle" /\ asked' = [asked EXCEPT ![r] = payload]
      /\ stage' = [stage EXCEPT ![r] = "asked"] /\ seen' = seen /\ answer' = answer
      /\ inserted' = inserted
    BY <1>1 DEF Ask, Enter, orderVars
<1>6. /\ asked' \in [Requests -> OrderPayloads \cup OtherPayloads \cup MePayloads \cup {Absent}]
      /\ stage' \in [Requests -> Stages]
      /\ seen' = [q \in Requests |-> seen'[q]]
      /\ answer' = [q \in Requests |-> answer'[q]]
      /\ inserted' = [q \in Requests |-> inserted'[q]]
    BY <1>3, <1>5 DEF TypeOK, RequestsOK, Stages
<1>7. ASSUME NEW q \in Requests, q # r PROVE RequestOK(q)'
    <2>1. /\ asked'[q] = asked[q] /\ stage'[q] = stage[q] /\ seen'[q] = seen[q]
          /\ answer'[q] = answer[q] /\ inserted'[q] = inserted[q]
        BY <1>5, <1>7 DEF TypeOK, RequestsOK
    <2> QED
        BY <2>1 DEF TypeOK, RequestsOK, RequestOK, Available, Needed
<1>8. RequestOK(r)'
    <2>1. /\ asked'[r] = payload /\ stage'[r] = "asked" /\ seen'[r] = seen[r]
          /\ answer'[r] = answer[r] /\ inserted'[r] = inserted[r]
        BY <1>5 DEF TypeOK, RequestsOK
    <2>2. seen[r] \in KnownAt("idle") /\ answer[r] = Absent /\ inserted[r] = Absent
        BY <1>5 DEF TypeOK, RequestsOK, RequestOK
    <2> QED
        BY <1>4, <2>1, <2>2, StagesOfHandlers DEF RequestOK
<1> QED
    BY <1>6, <1>7, <1>8 DEF RequestsOK

LEMMA RequestsTyped ==
    ASSUME TypeOK, \A r \in Requests : ReadOK(r), [Next]_vars
    PROVE  RequestsOK'
<1>1. ASSUME UNCHANGED <<database, redis, reqVars, inserted>> PROVE RequestsOK'
    BY <1>1 DEF TypeOK, RequestsOK, RequestOK, Available, Needed, reqVars
<1>2. ASSUME NEW r \in Requests, Serve(r) PROVE RequestsOK'
    <2>1. UNCHANGED <<database, redis>>
        BY <1>2 DEF Serve, mainVars
    <2>2. CASE Enter(r)
        BY <2>1, <2>2, EnterTypes
    <2>3. CASE TurnAway(r)
        <3>1. stage[r] = "asked" /\ inserted' = inserted /\ Replies(r)
            BY <2>3, Refusing, 503 \in Nat, 400 \in Nat DEF TurnAway, Unavailable, BadRequest, orderVars
        <3>2. Shaped(r)
            BY <3>1, Plain DEF TypeOK
        <3> QED
            BY <2>1, <3>1, <3>2, ReplyTypes DEF Shaped, TypeOK
    <2>4. CASE OrderStep(r) \/ (AccountStep(r) /\ UNCHANGED orderVars)
        <3>1. Shaped(r)
            BY <1>2, <2>4, StepShapes
        <3> QED
            BY <2>1, <3>1, ReplyTypes, AdvanceTypes DEF Shaped, TypeOK
    <2> QED
        BY <1>2, <2>2, <2>3, <2>4 DEF Serve
<1>3. CASE ConfigureDatabase \/ EnsureSchema \/ ConfigureRedis \/ Bind
    BY <1>1, <1>3 DEF ConfigureDatabase, EnsureSchema, ConfigureRedis, Bind, Connect, Become, orderVars
<1>4. CASE KeyExpires
    BY <1>1, <1>4 DEF KeyExpires, Expire, mainVars, orderVars
<1>5. CASE Rest \/ UNCHANGED vars
    BY <1>1, <1>5 DEF Rest, vars, mainVars, orderVars
<1> QED
    BY <1>2, <1>3, <1>4, <1>5 DEF Next

LEMMA MainTyped == ASSUME TypeOK, [Next]_vars PROVE MainOK'
<1>1. CASE ConfigureDatabase \/ EnsureSchema \/ ConfigureRedis \/ Bind
    BY <1>1, RetriesAssumption
       DEF TypeOK, MainOK, ConfigureDatabase, EnsureSchema, ConfigureRedis, Bind, Connect, Become
<1>2. CASE UNCHANGED mainVars
    BY <1>2 DEF TypeOK, MainOK, mainVars
<1> QED
    BY <1>1, <1>2 DEF Next, Serve, KeyExpires, Rest, vars

-----------------------------------------------------------------------------
(***************************************************************************)
(* Orders: rows are never removed, and a row is replaced by a later        *)
(* version only.                                                           *)
(***************************************************************************)

Grow ==
    \A id \in Ids : orders[id] # Absent =>
        /\ orders'[id] # Absent /\ items'[id] = items[id]
        /\ orders'[id] = orders[id] \/ orders[id].version < orders'[id].version

Same(q) ==
    /\ asked'[q] = asked[q] /\ stage'[q] = stage[q] /\ seen'[q] = seen[q]
    /\ answer'[q] = answer[q] /\ inserted'[q] = inserted[q]

LEMMA Alone ==
    ASSUME TypeOK, OrdersInv, NEW r \in Requests, Serve(r)
    PROVE  \A q \in Requests : q # r => Same(q)
<1>1. CASE Enter(r)
    BY <1>1 DEF Enter, Ask, Same, TypeOK, RequestsOK, orderVars
<1>2. ASSUME Replies(r) \/ Advances(r), \A q \in Requests : q # r => inserted'[q] = inserted[q]
      PROVE  \A q \in Requests : q # r => Same(q)
    BY <1>2 DEF Replies, Advances, Goes, Reply, GoTo, Same, TypeOK, RequestsOK
<1>3. CASE TurnAway(r)
    <2>1. Replies(r) /\ inserted' = inserted
        BY <1>3, Refusing, 503 \in Nat, 400 \in Nat DEF TurnAway, Unavailable, BadRequest, orderVars
    <2> QED
        BY <1>2, <2>1
<1>4. CASE OrderStep(r) \/ (AccountStep(r) /\ UNCHANGED orderVars)
    BY <1>2, <1>4, StepShapes DEF Shaped, Inserts, OrdersInv
<1> QED
    BY <1>1, <1>3, <1>4 DEF Serve

\* What is read and written of the orders, and at which moment.
LEMMA CommitWrites ==
    ASSUME TypeOK, OrdersInv, NEW r \in Requests, Commit(r)
    PROVE  /\ stage[r] = "commit" /\ asked[r].op = "create" /\ asked[r] \in OrderPayloads
           /\ asked[r].valid /\ database
           /\ inserted[r].id \in Ids /\ inserted[r].order \in Orders
           /\ inserted[r].order = NewOrder(asked[r])
           /\ orders[inserted[r].id] = Absent /\ items[inserted[r].id] = Absent
           /\ PricingStatus(asked[r].items, asked[r].coupon, asked[r].tier) = 200
<1>1. stage[r] = "commit" /\ asked[r].op = "create"
    BY DEF Commit, At
<1>2. asked[r] \in OrderPayloads /\ asked[r].valid /\ inserted[r] \in NewOrders
    BY <1>1, Asking, OpsOfPayloads DEF TypeOK, OrderOps
<1>3. inserted[r].id \in Ids /\ inserted[r].order \in Orders
    BY <1>2 DEF NewOrders
<1>4. /\ database /\ inserted[r].order = NewOrder(asked[r])
      /\ PricingStatus(asked[r].items, asked[r].coupon, asked[r].tier) = 200
      /\ orders[inserted[r].id] = Absent
    BY <1>1 DEF OrdersInv, CommitOK
<1>5. items[inserted[r].id] = Absent
    BY <1>3, <1>4 DEF TypeOK, TablesOK
<1> QED
    BY <1>1, <1>2, <1>3, <1>4, <1>5

LEMMA UpdateWrites ==
    ASSUME TypeOK, OrdersInv, NEW r \in Requests, At(r, "update", "write")
    PROVE  LET id == asked[r].id
           IN  /\ asked[r] \in OrderPayloads /\ asked[r].valid /\ database
               /\ id \in Ids /\ orders[id] \in Rows /\ items[id] \in Baskets
               /\ asked[r].version \in Nat /\ asked[r].version <= orders[id].version
               /\ seen[r] \in Orders /\ seen[r].version = asked[r].version + 1
               /\ orders[id].version + 1 = seen[r].version =>
                    /\ asked[r].version = orders[id].version
                    /\ UpdateStatus(Whole(orders[id], items[id]), asked[r]) = 200
                    /\ seen[r] = Updated(Whole(orders[id], items[id]), asked[r])
<1>1. stage[r] = "write" /\ asked[r].op = "update"
    BY DEF At
<1>2. /\ asked[r] # Absent /\ asked[r].valid /\ Available(asked[r].op)
      /\ seen[r] \in Orders /\ asked[r] \in OrderPayloads
    BY <1>1, Asking, OpsOfPayloads, StageTable DEF TypeOK, OrderOps
<1>3. database
    BY <1>1, <1>2 DEF Available, Needed
<1>4. asked[r].id \in Ids /\ asked[r].version \in Nat
    BY <1>1, <1>2, FieldsOfOrders DEF TypeOK
<1>5. /\ orders[asked[r].id] # Absent /\ asked[r].version <= orders[asked[r].id].version
      /\ seen[r].version = asked[r].version + 1
      /\ asked[r].version = orders[asked[r].id].version =>
            /\ UpdateStatus(Whole(orders[asked[r].id], items[asked[r].id]), asked[r]) = 200
            /\ seen[r] = Updated(Whole(orders[asked[r].id], items[asked[r].id]), asked[r])
    BY <1>1 DEF OrdersInv, WriteOK
<1>6. orders[asked[r].id] \in Rows /\ items[asked[r].id] \in Baskets
    BY <1>4, <1>5 DEF TypeOK, TablesOK
<1>7. orders[asked[r].id].version \in Nat
    BY <1>6 DEF Rows
<1>8. orders[asked[r].id].version + 1 = seen[r].version =>
            asked[r].version = orders[asked[r].id].version
    BY <1>4, <1>5, <1>7
<1> QED
    BY <1>2, <1>3, <1>4, <1>5, <1>6, <1>8

LEMMA CommitGrows ==
    ASSUME TypeOK, OrdersInv, NEW r \in Requests, Commit(r)
    PROVE  TablesOK' /\ Grow /\ PricingFollows'
<1> DEFINE new == inserted[r].id
           order == inserted[r].order
<1>1. /\ new \in Ids /\ order \in Orders /\ order = NewOrder(asked[r])
      /\ orders[new] = Absent /\ items[new] = Absent
      /\ PricingStatus(asked[r].items, asked[r].coupon, asked[r].tier) = 200
    BY CommitWrites
<1>2. RowOf(order) \in Rows /\ order.items \in Baskets
    BY <1>1, OrdersTyped
<1>3. CASE UNCHANGED <<orders, items>>
    BY <1>3 DEF TypeOK, TablesOK, Grow, OrdersInv, PricingFollows, Stored
<1>4. CASE orders' = [orders EXCEPT ![new] = RowOf(order)] /\ items' = [items EXCEPT ![new] = order.items]
    <2> HIDE DEF new, order
    <2>1. /\ orders' \in [Ids -> Rows \cup {Absent}] /\ items' \in [Ids -> Baskets \cup {Absent}]
          /\ orders'[new] = RowOf(order) /\ items'[new] = order.items
          /\ \A id \in Ids : id # new => orders'[id] = orders[id] /\ items'[id] = items[id]
        BY <1>1, <1>2, <1>4 DEF TypeOK, TablesOK
    <2>2. RowOf(order) # Absent /\ order.items # Absent
        BY <1>2, OrdersTyped
    <2>3. TablesOK'
        BY <2>1, <2>2 DEF TypeOK, TablesOK
    <2>4. Grow
        BY <1>1, <2>1 DEF Grow
    <2>5. /\ PricingStatus(order.items, RowOf(order).coupon, RowOf(order).tier) = 200
          /\ RowOf(order).pricing = Pricing(order.items, RowOf(order).coupon)
        BY <1>1 DEF RowOf, NewOrder
    <2>6. \A id \in Ids : id # new /\ orders'[id] # Absent =>
                /\ PricingStatus(items'[id], orders'[id].coupon, orders'[id].tier) = 200
                /\ orders'[id].pricing = Pricing(items'[id], orders'[id].coupon)
        BY <2>1 DEF OrdersInv, PricingFollows, Stored
    <2> QED
        BY <2>1, <2>3, <2>4, <2>5, <2>6 DEF PricingFollows, Stored
<1> QED
    BY <1>3, <1>4 DEF Commit

LEMMA UpdateGrows ==
    ASSUME TypeOK, OrdersInv, NEW r \in Requests, WriteUpdate(r)
    PROVE  TablesOK' /\ Grow /\ PricingFollows'
<1> DEFINE id == asked[r].id
           order == Whole(orders[id], items[id])
<1>1. CASE UNCHANGED orders
    BY <1>1 DEF TypeOK, TablesOK, Grow, OrdersInv, PricingFollows, Stored, WriteUpdate
<1>2. CASE orders[id].version + 1 = seen[r].version /\ orders' = [orders EXCEPT ![id] = RowOf(seen[r])]
    <2>1. /\ asked[r] \in OrderPayloads /\ asked[r].valid /\ asked[r].op = "update"
          /\ id \in Ids /\ orders[id] \in Rows /\ items[id] \in Baskets
          /\ seen[r] \in Orders
          /\ UpdateStatus(order, asked[r]) = 200 /\ seen[r] = Updated(order, asked[r])
        BY <1>2, UpdateWrites DEF WriteUpdate, At
    <2>2. order \in Orders /\ order.items = items[id]
        BY <2>1, OrdersTyped
    <2> HIDE DEF order
    <2>3. /\ seen[r].pricing = Pricing(items[id], seen[r].coupon)
          /\ PricingStatus(items[id], seen[r].coupon, seen[r].tier) = 200
        BY <2>1, <2>2, UpdatesTyped
    <2>4. RowOf(seen[r]) \in Rows /\ RowOf(seen[r]) # Absent
        BY <2>1, OrdersTyped
    <2>5. /\ RowOf(seen[r]).version = orders[id].version + 1 /\ orders[id].version \in Nat
          /\ RowOf(seen[r]).pricing = seen[r].pricing
          /\ RowOf(seen[r]).coupon = seen[r].coupon /\ RowOf(seen[r]).tier = seen[r].tier
        BY <1>2, <2>1 DEF RowOf, Rows
    <2> DEFINE new == RowOf(seen[r])
    <2> HIDE DEF new, id
    <2>6. /\ orders' \in [Ids -> Rows \cup {Absent}] /\ items' = items
          /\ orders'[id] = new
          /\ \A other \in Ids : other # id => orders'[other] = orders[other]
        BY <1>2, <2>1, <2>4 DEF TypeOK, TablesOK, WriteUpdate, new, id
    <2>7. TablesOK'
        <3>1. orders[id] # Absent /\ orders'[id] # Absent
            BY <2>1, <2>4, <2>6, OrdersTyped DEF new
        <3> QED
            BY <2>1, <2>6, <3>1 DEF TypeOK, TablesOK
    <2>8. Grow
        <3>1. orders'[id] # Absent /\ orders[id].version < orders'[id].version
            BY <2>4, <2>5, <2>6 DEF new
        <3> QED
            BY <2>6, <3>1 DEF Grow
    <2>9. /\ PricingStatus(items'[id], orders'[id].coupon, orders'[id].tier) = 200
          /\ orders'[id].pricing = Pricing(items'[id], orders'[id].coupon)
        BY <2>3, <2>5, <2>6 DEF new
    <2>10. \A other \in Ids : other # id /\ orders'[other] # Absent =>
                /\ PricingStatus(items'[other], orders'[other].coupon, orders'[other].tier) = 200
                /\ orders'[other].pricing = Pricing(items'[other], orders'[other].coupon)
        BY <2>6 DEF OrdersInv, PricingFollows, Stored
    <2> QED
        BY <2>7, <2>8, <2>9, <2>10 DEF PricingFollows, Stored
<1> QED
    BY <1>1, <1>2 DEF WriteUpdate

LEMMA TablesGrow ==
    ASSUME TypeOK, OrdersInv, [Next]_vars
    PROVE  TablesOK' /\ Grow /\ PricingFollows'
<1>1. ASSUME UNCHANGED <<orders, items>> PROVE TablesOK' /\ Grow /\ PricingFollows'
    BY <1>1 DEF TypeOK, TablesOK, Grow, OrdersInv, PricingFollows, Stored
<1>2. ASSUME NEW r \in Requests, OrderStep(r) PROVE TablesOK' /\ Grow /\ PricingFollows'
    <2>1. CASE CreateOrder(r) \/ Insert(r) \/ InsertFails(r)
        BY <1>1, <2>1 DEF CreateOrder, Insert, InsertFails, orderVars
    <2>2. CASE GetOrder(r) \/ UpdateOrder(r) \/ SelectOrder(r) \/ AnswerGet(r) \/ PrepareUpdate(r)
                    \/ CountOrders(r) \/ SelectPage(r)
        BY <1>1, <2>2 DEF GetOrder, UpdateOrder, SelectOrder, AnswerGet, PrepareUpdate, CountOrders,
                          SelectPage, orderVars
    <2> QED
        BY <1>2, <2>1, <2>2, CommitGrows, UpdateGrows DEF OrderStep
<1>3. ASSUME NEW r \in Requests, Serve(r) PROVE TablesOK' /\ Grow /\ PricingFollows'
    BY <1>1, <1>2, <1>3 DEF Serve, Enter, TurnAway, orderVars
<1>4. CASE ConfigureDatabase \/ EnsureSchema \/ ConfigureRedis \/ Bind
    BY <1>1, <1>4 DEF ConfigureDatabase, EnsureSchema, ConfigureRedis, Bind, Connect, Become, orderVars
<1>5. CASE KeyExpires \/ Rest \/ UNCHANGED vars
    BY <1>1, <1>5 DEF KeyExpires, Rest, vars, orderVars
<1> QED
    BY <1>3, <1>4, <1>5 DEF Next

OrderOK(r) == InsertOK(r) /\ CommitOK(r) /\ ReadOK(r) /\ WriteOK(r)

LEMMA OthersKeep ==
    ASSUME TypeOK, OrdersInv, TablesOK', Grow, UNCHANGED database, NEW q \in Requests, Same(q),
           stage[q] = "commit" => orders'[inserted[q].id] = Absent
    PROVE  OrderOK(q)'
<1>1. InsertOK(q)' /\ CommitOK(q)'
    BY DEF Same, OrdersInv, InsertOK, CommitOK
<1>2. ASSUME stage[q] \in {"items", "write"}
      PROVE  /\ asked[q].id \in Ids
             /\ orders[asked[q].id] # Absent => orders[asked[q].id].version \in Nat
             /\ orders'[asked[q].id] # Absent => orders'[asked[q].id].version \in Nat
             /\ stage[q] = "items" => seen[q].version \in Nat
             /\ stage[q] = "write" => asked[q].version \in Nat
    <2>1. /\ asked[q] # Absent /\ asked[q].valid
          /\ stage[q] = "items" => asked[q].op \in {"get", "update"} /\ seen[q] \in Rows
          /\ stage[q] = "write" => asked[q].op = "update"
        BY <1>2, Asking, StageTable DEF TypeOK
    <2>2. asked[q].id \in Ids /\ (stage[q] = "write" => asked[q].version \in Nat)
        BY <1>2, <2>1, FieldsOfOrders DEF TypeOK
    <2>3. \A row \in Rows : row.version \in Nat
        BY DEF Rows
    <2>4. orders[asked[q].id] \in Rows \cup {Absent} /\ orders'[asked[q].id] \in Rows \cup {Absent}
        BY <2>2 DEF TypeOK, TablesOK
    <2> QED
        BY <2>1, <2>2, <2>3, <2>4
<1>3. ReadOK(q)'
    <2> SUFFICES ASSUME stage[q] = "items"
                 PROVE  /\ orders'[asked[q].id] # Absent
                        /\ seen[q].version <= orders'[asked[q].id].version
                        /\ seen[q].version = orders'[asked[q].id].version
                                => seen[q] = orders'[asked[q].id]
        BY DEF ReadOK, Same
    <2>1. /\ orders[asked[q].id] # Absent /\ seen[q].version <= orders[asked[q].id].version
          /\ seen[q].version = orders[asked[q].id].version => seen[q] = orders[asked[q].id]
        BY DEF OrdersInv, ReadOK
    <2> QED
        BY <1>2, <2>1 DEF Grow
<1>4. WriteOK(q)'
    <2> SUFFICES ASSUME stage[q] = "write" PROVE WriteOK(q)'
        BY DEF WriteOK, Same
    <2> DEFINE id == asked[q].id
               order == Whole(orders[id], items[id])
    <2>1. /\ orders[id] # Absent /\ asked[q].version <= orders[id].version
          /\ seen[q].version = asked[q].version + 1
          /\ asked[q].version = orders[id].version =>
                UpdateStatus(order, asked[q]) = 200 /\ seen[q] = Updated(order, asked[q])
        BY DEF OrdersInv, WriteOK
    <2>2. orders'[id] # Absent /\ items'[id] = items[id]
          /\ (orders'[id] = orders[id] \/ orders[id].version < orders'[id].version)
        BY <1>2, <2>1 DEF Grow
    <2>3. CASE orders'[id] = orders[id]
        BY <2>1, <2>2, <2>3 DEF WriteOK, Same
    <2>4. CASE orders[id].version < orders'[id].version
        <3>1. asked[q].version < orders'[id].version
            BY <1>2, <2>1, <2>2, <2>4
        <3>2. asked[q].version <= orders'[id].version /\ asked[q].version # orders'[id].version
            BY <1>2, <2>2, <3>1
        <3> QED
            BY <2>1, <2>2, <3>2 DEF WriteOK, Same
    <2> QED
        BY <2>2, <2>3, <2>4
<1> QED
    BY <1>1, <1>3, <1>4 DEF OrderOK

LEMMA Elsewhere ==
    ASSUME NEW r \in Requests, stage'[r] \notin {"insert", "commit", "items", "write"}
    PROVE  OrderOK(r)'
BY DEF OrderOK, InsertOK, CommitOK, ReadOK, WriteOK

LEMMA AccountMoves ==
    ASSUME TypeOK, NEW r \in Requests, ReadOK(r), AccountStep(r), UNCHANGED orderVars
    PROVE  stage'[r] \notin {"insert", "commit", "items", "write"}
<1>1. Replies(r) \/ Advances(r)
    BY StepShapes DEF Shaped
<1>2. asked[r].op \notin OrderOps
    <2>1. AccountStep(r) => asked[r].op \notin OrderOps
        BY DEF AccountStep, Register, FindUser, ReadCode, DeleteCode, StoreToken, FindToken, AnswerMe,
               CallSms, StoreCode, CallPayment, StorePending, ReceiveCallback, At, Accepted, OrderOps
    <2> QED
        BY <2>1
<1>3. \A next \in {"insert", "commit", "items", "write"} : ~Goes(r, next)
    BY <1>2, StageTable DEF Goes, OrderOps
<1>4. Replies(r) => stage'[r] = "answered"
    BY NextStage DEF Replies, TypeOK
<1>5. \A next : Goes(r, next) => stage'[r] = next
    BY NextStage DEF Goes, TypeOK
<1> QED
    BY <1>1, <1>3, <1>4, <1>5 DEF Advances

LEMMA OwnKeeps ==
    ASSUME TypeOK, OrdersInv, NEW r \in Requests, Serve(r)
    PROVE  OrderOK(r)'
<1>1. ASSUME Replies(r) PROVE OrderOK(r)'
    BY <1>1, NextStage, Elsewhere DEF Replies, TypeOK
<1>2. \A status \in Nat : Refuse(r, status) => OrderOK(r)'
    BY <1>1, Refusing
<1>3. Breaks(r) => OrderOK(r)'
    BY <1>1, Refusing
<1>4. ASSUME NEW next \in Stages \ {"insert", "commit", "items", "write"}, NEW known, GoTo(r, next, known)
      PROVE  OrderOK(r)'
    BY <1>4, NextStage, Elsewhere DEF TypeOK
<1>5. CASE Enter(r)
    BY <1>5, Elsewhere DEF Enter, Ask, TypeOK, RequestsOK
<1>6. CASE TurnAway(r)
    BY <1>2, <1>6, 503 \in Nat, 400 \in Nat DEF TurnAway, Unavailable, BadRequest
<1>7. CASE AccountStep(r) /\ UNCHANGED orderVars
    BY <1>7, AccountMoves, Elsewhere DEF OrdersInv
<1>8. CASE CreateOrder(r)
    <2>1. ASSUME NEW id \in Ids, GoTo(r, "insert", [id |-> id, order |-> NewOrder(asked[r])]),
                 PricingStatus(asked[r].items, asked[r].coupon, asked[r].tier) = 200, database
          PROVE  OrderOK(r)'
        <3>1. /\ stage'[r] = "insert" /\ asked' = asked
              /\ seen'[r] = [id |-> id, order |-> NewOrder(asked[r])]
            BY <2>1 DEF GoTo, TypeOK, RequestsOK
        <3>2. database' = database
            BY DEF Serve, mainVars
        <3> QED
            BY <2>1, <3>1, <3>2 DEF OrderOK, InsertOK, CommitOK, ReadOK, WriteOK
    <2>2. Refuse(r, PricingStatus(asked[r].items, asked[r].coupon, asked[r].tier)) => OrderOK(r)'
        BY <1>2, StatusTyped
    <2>3. Reply(r, 201, NewOrder(asked[r])) => OrderOK(r)'
        BY NextStage, Elsewhere DEF TypeOK
    <2> QED
        BY <1>8, <2>1, <2>2, <2>3 DEF CreateOrder
<1>9. CASE Insert(r) \/ InsertFails(r)
    <2>1. InsertFails(r) => OrderOK(r)'
        BY <1>3 DEF InsertFails
    <2>2. Refuse(r, 409) => OrderOK(r)'
        BY <1>2, 409 \in Nat
    <2>3. ASSUME stage[r] = "insert", orders[seen[r].id] = Absent, UNCHANGED <<orders, items>>,
                 inserted' = [inserted EXCEPT ![r] = seen[r]], GoTo(r, "commit", Absent)
          PROVE  OrderOK(r)'
        <3>1. stage'[r] = "commit" /\ asked' = asked /\ inserted'[r] = seen[r]
            BY <2>3 DEF GoTo, TypeOK, RequestsOK
        <3>2. database' = database
            BY DEF Serve, mainVars
        <3> QED
            BY <2>3, <3>1, <3>2 DEF OrderOK, InsertOK, CommitOK, ReadOK, WriteOK, OrdersInv
    <2> QED
        BY <1>9, <2>1, <2>2, <2>3 DEF Insert, At
<1>10. CASE Commit(r)
    BY <1>3, <1>10, NextStage, Elsewhere DEF Commit, TypeOK
<1>11. CASE SelectOrder(r)
    <2>1. ASSUME orders[asked[r].id] # Absent, GoTo(r, "items", orders[asked[r].id]),
                 stage[r] = "select", UNCHANGED orderVars
          PROVE  OrderOK(r)'
        <3>1. stage'[r] = "items" /\ asked' = asked /\ orders' = orders /\ seen'[r] = orders[asked[r].id]
            BY <2>1 DEF GoTo, TypeOK, RequestsOK, orderVars
        <3>2. asked[r] # Absent /\ asked[r].valid /\ asked[r].op \in {"get", "update"}
            BY <2>1, Asking, StageTable DEF TypeOK
        <3>3. orders[asked[r].id] \in Rows
            BY <2>1, <3>2, FieldsOfOrders DEF TypeOK, TablesOK
        <3>4. orders[asked[r].id].version \in Nat
            BY <3>3 DEF Rows
        <3> QED
            BY <2>1, <3>1, <3>4 DEF OrderOK, InsertOK, CommitOK, ReadOK, WriteOK
    <2>2. Refuse(r, 404) => OrderOK(r)'
        BY <1>2, 404 \in Nat
    <2> QED
        BY <1>3, <1>11, <2>1, <2>2 DEF SelectOrder
<1>12. CASE PrepareUpdate(r)
    <2> DEFINE id == asked[r].id
               current == Whole(seen[r], items[id])
    <2>1. /\ stage[r] = "items" /\ orders[id] # Absent /\ seen[r].version <= orders[id].version
          /\ seen[r].version = orders[id].version => seen[r] = orders[id]
        BY <1>12 DEF PrepareUpdate, At, OrdersInv, ReadOK
    <2>2. /\ seen[r] \in Rows /\ items[id] \in Baskets /\ asked[r] \in OrderPayloads
          /\ asked[r].op = "update" /\ asked[r].valid
        <3>1. /\ asked[r] # Absent /\ asked[r].valid /\ seen[r] \in Rows /\ asked[r].op = "update"
              /\ asked[r] \in OrderPayloads
            BY <1>12, <2>1, Asking, StageTable, OpsOfPayloads DEF TypeOK, PrepareUpdate, At, OrderOps
        <3>2. items[id] \in Baskets
            BY <2>1, <3>1, FieldsOfOrders DEF TypeOK, TablesOK
        <3> QED
            BY <3>1, <3>2
    <2>3. current \in Orders /\ current.version = seen[r].version
        BY <2>2, OrdersTyped DEF Whole
    <2>4. Updated(current, asked[r]).version = current.version + 1
          /\ UpdateStatus(current, asked[r]) \in Nat
        BY <2>2, <2>3, UpdatesTyped
    <2>5. ASSUME asked[r].version = current.version, UpdateStatus(current, asked[r]) = 200,
                 GoTo(r, "write", Updated(current, asked[r])), UNCHANGED orderVars
          PROVE  OrderOK(r)'
        <3>1. /\ stage'[r] = "write" /\ asked' = asked /\ orders' = orders /\ items' = items
              /\ seen'[r] = Updated(current, asked[r])
            BY <2>5 DEF GoTo, TypeOK, RequestsOK, orderVars
        <3>2. asked[r].version <= orders[id].version
              /\ (asked[r].version = orders[id].version => current = Whole(orders[id], items[id]))
            BY <2>1, <2>3, <2>5
        <3>3. WriteOK(r)'
            BY <2>1, <2>3, <2>4, <2>5, <3>1, <3>2 DEF WriteOK
        <3> QED
            BY <3>1, <3>3 DEF OrderOK, InsertOK, CommitOK, ReadOK
    <2>6. Refuse(r, 409) \/ Refuse(r, UpdateStatus(current, asked[r])) => OrderOK(r)'
        BY <1>2, <2>4, 409 \in Nat
    <2> QED
        BY <1>3, <1>12, <2>5, <2>6 DEF PrepareUpdate
<1>13. CASE GetOrder(r) \/ UpdateOrder(r) \/ CountOrders(r)
    <2>1. \A known : GoTo(r, "select", known) \/ GoTo(r, "page", known) => OrderOK(r)'
        BY <1>4 DEF Stages
    <2>2. Refuse(r, 400) => OrderOK(r)'
        BY <1>2, 400 \in Nat
    <2> QED
        BY <1>3, <1>13, <2>1, <2>2 DEF GetOrder, UpdateOrder, CountOrders
<1>14. CASE AnswerGet(r) \/ WriteUpdate(r) \/ SelectPage(r)
    <2>1. \A status, body : Reply(r, status, body) => OrderOK(r)'
        BY NextStage, Elsewhere DEF TypeOK
    <2> QED
        BY <1>3, <1>14, <2>1 DEF AnswerGet, WriteUpdate, SelectPage, Refuse
<1> QED
    BY <1>5, <1>6, <1>7, <1>8, <1>9, <1>10, <1>11, <1>12, <1>13, <1>14 DEF Serve, OrderStep

LEMMA KeysKept ==
    ASSUME TypeOK, OrdersInv, NEW r \in Requests, Serve(r)
    PROVE  KeysDiffer'
<1>1. \A q \in Requests : q # r => Same(q)
    BY Alone
<1>2. CASE stage'[r] # "commit"
    BY <1>1, <1>2 DEF Same, OrdersInv, KeysDiffer
<1>3. CASE stage'[r] = "commit" /\ Insert(r)
    <2>1. inserted' = [inserted EXCEPT ![r] = seen[r]]
        BY <1>3, NextStage DEF Insert, Refuse, TypeOK
    <2>2. \A q \in Requests : inserted[q] # Absent => inserted[q].id # seen[r].id
        BY <1>3 DEF Insert
    <2>3. \A q \in Requests : stage[q] = "commit" => inserted[q] # Absent
        BY OrdersTyped DEF TypeOK, RequestsOK, RequestOK
    <2>4. inserted'[r] = seen[r]
        BY <2>1 DEF TypeOK, RequestsOK
    <2> QED
        BY <1>1, <2>2, <2>3, <2>4 DEF Same, OrdersInv, KeysDiffer
<1>4. ASSUME stage'[r] = "commit" PROVE Insert(r)
    <2>1. \A status, body : Reply(r, status, body) => stage'[r] = "answered"
        BY NextStage DEF TypeOK
    <2>2. \A next, known : GoTo(r, next, known) => stage'[r] = next
        BY NextStage DEF TypeOK
    <2>3. ~Enter(r)
        BY <1>4 DEF Enter, Ask, TypeOK, RequestsOK
    <2>4. ~TurnAway(r)
        BY <1>4, <2>1 DEF TurnAway, Unavailable, BadRequest, Refuse
    <2>5. ~Breaks(r) /\ \A status : ~Refuse(r, status)
        BY <1>4, <2>1 DEF Refuse, Breaks
    <2>6. ~(CreateOrder(r) \/ InsertFails(r) \/ Commit(r))
        <3>1. ~CreateOrder(r)
            <4>1. \A known : ~GoTo(r, "insert", known)
                BY <1>4, <2>2
            <4>2. \A body : ~Reply(r, 201, body)
                BY <1>4, <2>1
            <4>3. CreateOrder(r) =>
                    \/ Refuse(r, PricingStatus(asked[r].items, asked[r].coupon, asked[r].tier))
                    \/ Reply(r, 201, NewOrder(asked[r]))
                    \/ \E id \in Ids :
                            GoTo(r, "insert", [id |-> id, order |-> NewOrder(asked[r])])
                BY DEF CreateOrder
            <4> QED
                BY <2>5, <4>1, <4>2, <4>3
        <3>2. ~InsertFails(r)
            BY <2>5 DEF InsertFails
        <3>3. ~Commit(r)
            BY <1>4, <2>1, <2>5 DEF Commit
        <3> QED
            BY <3>1, <3>2, <3>3
    <2>7. ~(GetOrder(r) \/ UpdateOrder(r) \/ SelectOrder(r) \/ AnswerGet(r))
        BY <1>4, <2>1, <2>2, <2>5 DEF GetOrder, UpdateOrder, SelectOrder, AnswerGet
    <2>8. ~(PrepareUpdate(r) \/ WriteUpdate(r))
        BY <1>4, <2>1, <2>2, <2>5 DEF PrepareUpdate, WriteUpdate
    <2>9. ~(CountOrders(r) \/ SelectPage(r))
        BY <1>4, <2>1, <2>2, <2>5 DEF CountOrders, SelectPage
    <2>10. ~(AccountStep(r) /\ UNCHANGED orderVars)
        BY <1>4, AccountMoves DEF OrdersInv
    <2> QED
        BY <2>3, <2>4, <2>6, <2>7, <2>8, <2>9, <2>10 DEF Serve, OrderStep
<1> QED
    BY <1>2, <1>3, <1>4

LEMMA OrdersKeep ==
    ASSUME TypeOK, OrdersInv, [Next]_vars
    PROVE  OrdersInv'
<1>1. TablesOK' /\ Grow /\ PricingFollows'
    BY TablesGrow
<1>2. ASSUME UNCHANGED <<database, reqVars, orderVars>> PROVE OrdersInv'
    BY <1>1, <1>2 DEF OrdersInv, InsertOK, CommitOK, ReadOK, WriteOK, KeysDiffer, reqVars, orderVars
<1>3. ASSUME NEW r \in Requests, Serve(r) PROVE OrdersInv'
    <2>1. \A q \in Requests : q # r => Same(q)
        BY <1>3, Alone
    <2>2. UNCHANGED database
        BY <1>3 DEF Serve, mainVars
    <2>3. ASSUME NEW q \in Requests, q # r, stage[q] = "commit"
          PROVE  orders'[inserted[q].id] = Absent
        <3>1. orders[inserted[q].id] = Absent
            BY <2>3 DEF OrdersInv, CommitOK
        <3>2. inserted[q].id \in Ids
            BY <2>3, Asking DEF TypeOK, NewOrders
        <3>3. CASE Commit(r)
            <4>1. stage[r] = "commit" /\ inserted[q].id # inserted[r].id
                BY <2>3, <3>3 DEF Commit, At, OrdersInv, KeysDiffer
            <4> QED
                BY <3>1, <3>2, <3>3, <4>1 DEF Commit, TypeOK, TablesOK
        <3>4. CASE WriteUpdate(r)
            <4>1. asked[r].id \in Ids /\ orders[asked[r].id] # Absent
                BY <3>4, UpdateWrites, OrdersTyped DEF WriteUpdate
            <4> QED
                BY <3>1, <3>2, <3>4, <4>1 DEF WriteUpdate, TypeOK, TablesOK
        <3>5. ASSUME ~Commit(r), ~WriteUpdate(r) PROVE orders' = orders
            <4>1. OrderStep(r) => orders' = orders
                BY <3>5 DEF OrderStep, CreateOrder, Insert, InsertFails, GetOrder, UpdateOrder,
                    SelectOrder, AnswerGet, PrepareUpdate, CountOrders, SelectPage, orderVars
            <4> QED
                BY <1>3, <4>1 DEF Serve, Enter, TurnAway, orderVars
        <3> QED
            BY <3>1, <3>3, <3>4, <3>5
    <2>4. \A q \in Requests : q # r => OrderOK(q)'
        BY <1>1, <2>1, <2>2, <2>3, OthersKeep
    <2>5. OrderOK(r)' /\ KeysDiffer'
        BY <1>3, OwnKeeps, KeysKept
    <2> QED
        BY <1>1, <2>4, <2>5 DEF OrdersInv, OrderOK
<1>4. CASE ConfigureDatabase \/ EnsureSchema \/ ConfigureRedis \/ Bind
    BY <1>2, <1>4 DEF ConfigureDatabase, EnsureSchema, ConfigureRedis, Bind, Connect, Become
<1>5. CASE KeyExpires \/ Rest \/ UNCHANGED vars
    BY <1>2, <1>5 DEF KeyExpires, Expire, Rest, vars, mainVars
<1> QED
    BY <1>3, <1>4, <1>5 DEF Next

-----------------------------------------------------------------------------
(***************************************************************************)
(* Pages: what was counted is still there.                                 *)
(***************************************************************************)

LEMMA MoreStored ==
    ASSUME TypeOK, OrdersInv, [Next]_vars
    PROVE  /\ Cardinality(Stored) \in Nat /\ Cardinality(Stored') \in Nat
           /\ Cardinality(Stored) <= Cardinality(Stored')
<1>1. Stored \subseteq Stored' /\ Stored' \subseteq Ids
    BY TablesGrow DEF Grow, Stored
<1>2. IsFiniteSet(Stored') /\ IsFiniteSet(Stored)
    BY <1>1, IdsAssumption, FS_Subset
<1> QED
    BY <1>1, <1>2, FS_Subset, FS_CardinalityType

Listed(q) ==
    stage[q] = "answered" /\ asked[q].op = "list" /\ answer[q].status = 200
        /\ answer[q].body.has_more =>
            asked[q].offset + answer[q].body.rows < Cardinality(Stored)

LEMMA ListKept ==
    ASSUME TypeOK, OrdersInv, [Next]_vars, NEW q \in Requests, PageOK(q), Listed(q), Same(q)
    PROVE  PageOK(q)' /\ Listed(q)'
<1>1. /\ Cardinality(Stored) \in Nat /\ Cardinality(Stored') \in Nat
      /\ Cardinality(Stored) <= Cardinality(Stored')
    BY MoreStored
<1>2. PageOK(q)'
    <2>1. stage[q] = "page" => seen[q] \in Nat /\ seen[q] <= Cardinality(Stored)
        BY Asking, StageTable DEF TypeOK, PageOK
    <2>2. stage[q] = "page" => seen[q] <= Cardinality(Stored')
        BY <1>1, <2>1
    <2> QED
        BY <2>2 DEF PageOK, Same
<1>3. Listed(q)'
    <2> SUFFICES ASSUME stage[q] = "answered", asked[q].op = "list", answer[q].status = 200,
                        answer[q].body.has_more
                 PROVE  asked[q].offset + answer[q].body.rows < Cardinality(Stored')
        BY DEF Listed, Same
    <2> DEFINE n == asked[q].offset + answer[q].body.rows
    <2>1. n < Cardinality(Stored)
        BY DEF Listed
    <2>2. asked[q].offset \in Nat
        BY Asking, OpsOfPayloads, PayloadsAssumption DEF TypeOK, OrderOps
    <2>3. answer[q].body.rows \in Nat
        BY DEF PageOK, Pages
    <2>4. n \in Nat
        BY <2>2, <2>3
    <2> HIDE DEF n
    <2>5. n < Cardinality(Stored')
        BY <1>1, <2>1, <2>4
    <2> QED
        BY <2>5 DEF n
<1> QED
    BY <1>2, <1>3

\* Which steps are the steps of a list.
LEMMA ListSteps ==
    ASSUME TypeOK, OrdersInv, NEW r \in Requests, Serve(r), asked[r].op = "list"
    PROVE  Enter(r) \/ TurnAway(r) \/ CountOrders(r) \/ SelectPage(r)
<1>1. ~SelectOrder(r)
    <2>1. stage[r] = "select" => asked[r].op \in {"get", "update"}
        BY Asking, StageTable DEF TypeOK
    <2> QED
        BY <2>1 DEF SelectOrder
<1>2. ~(CreateOrder(r) \/ Insert(r) \/ InsertFails(r) \/ Commit(r))
    BY DEF CreateOrder, Insert, InsertFails, Commit, Accepted, At
<1>3. ~(GetOrder(r) \/ UpdateOrder(r) \/ AnswerGet(r) \/ PrepareUpdate(r) \/ WriteUpdate(r))
    BY DEF GetOrder, UpdateOrder, AnswerGet, PrepareUpdate, WriteUpdate, Accepted, At
<1>4. ~AccountStep(r)
    BY DEF AccountStep, Register, FindUser, ReadCode, DeleteCode, StoreToken, FindToken, AnswerMe,
           CallSms, StoreCode, CallPayment, StorePending, ReceiveCallback, At, Accepted
<1> QED
    BY <1>1, <1>2, <1>3, <1>4 DEF Serve, OrderStep

LEMMA AskedStays ==
    ASSUME TypeOK, OrdersInv, NEW r \in Requests, Serve(r), ~Enter(r)
    PROVE  asked' = asked
<1>1. Replies(r) \/ Advances(r) => asked' = asked
    BY DEF Replies, Advances, Goes, Reply, GoTo
<1>2. TurnAway(r) => Replies(r)
    BY Refusing, 503 \in Nat, 400 \in Nat DEF TurnAway, Unavailable, BadRequest
<1> QED
    BY <1>1, <1>2, StepShapes DEF Serve, Shaped, OrdersInv

LEMMA ListOwn ==
    ASSUME TypeOK, OrdersInv, PagesInv, NEW r \in Requests, Serve(r), RequestsOK'
    PROVE  PageOK(r)' /\ Listed(r)'
<1>1. CASE Enter(r)
    <2>1. stage'[r] = "asked"
        BY <1>1 DEF Enter, Ask, TypeOK, RequestsOK
    <2> QED
        BY <2>1 DEF PageOK, Listed
<1>2. ASSUME NEW status, status # 200, Refuse(r, status) PROVE PageOK(r)' /\ Listed(r)'
    <2>1. stage'[r] = "answered" /\ answer'[r].status = status
        BY <1>2 DEF Refuse, Reply, TypeOK, RequestsOK
    <2> QED
        BY <1>2, <2>1 DEF PageOK, Listed
<1>3. CASE ~Enter(r) /\ asked[r].op # "list"
    <2>1. asked'[r].op # "list"
        BY <1>3, AskedStays
    <2>2. stage'[r] # "page"
        BY <2>1, StageTable DEF RequestsOK, RequestOK
    <2> QED
        BY <2>1, <2>2 DEF PageOK, Listed
<1>4. CASE TurnAway(r)
    BY <1>2, <1>4 DEF TurnAway, Unavailable, BadRequest
<1>5. CASE CountOrders(r)
    <2>1. CASE GoTo(r, "page", Cardinality(Stored)) /\ UNCHANGED orderVars
        <3>1. stage'[r] = "page" /\ seen'[r] = Cardinality(Stored) /\ Stored' = Stored
            BY <2>1 DEF GoTo, TypeOK, RequestsOK, orderVars, Stored
        <3>2. Cardinality(Stored) <= Cardinality(Stored)
            BY StoredFinite
        <3> QED
            BY <3>1, <3>2 DEF PageOK, Listed
    <2> QED
        BY <1>2, <1>5, <2>1 DEF CountOrders, Breaks
<1>6. CASE SelectPage(r)
    <2> DEFINE page == PageOf(asked[r], PageSize(asked[r]), seen[r])
    <2>1. stage[r] = "page" /\ asked[r].op = "list" /\ Stored' = Stored
        BY <1>6 DEF SelectPage, At, orderVars, Stored
    <2>2. seen[r] \in Nat /\ asked[r].valid /\ asked[r] # Absent
        BY <2>1, Asking, StageTable DEF TypeOK
    <2>3. asked[r].limit \in Nat /\ asked[r].offset \in Nat
        BY <2>1, <2>2, FieldsOfOrders DEF TypeOK
    <2>4. PageSize(asked[r]) \in Nat
        BY <2>3, StoredFinite DEF PageSize
    <2>5. page \in Pages /\ page.rows = PageSize(asked[r])
          /\ page.has_more = (asked[r].offset + PageSize(asked[r]) < seen[r])
        BY <2>2, <2>3, <2>4 DEF PageOf, Pages
    <2>6. seen[r] <= Cardinality(Stored)
        BY <2>1 DEF PagesInv, PageOK
    <2>7. asked[r].offset + PageSize(asked[r]) < seen[r] =>
            asked[r].offset + PageSize(asked[r]) < Cardinality(Stored)
        BY <2>2, <2>3, <2>4, <2>6, StoredFinite
    <2> HIDE DEF page
    <2>8. CASE Reply(r, 200, page)
        <3>1. stage'[r] = "answered" /\ answer'[r] = [status |-> 200, body |-> page] /\ asked' = asked
            BY <2>8 DEF Reply, TypeOK, RequestsOK
        <3>2. answer'[r].status = 200 /\ answer'[r].body = page
            BY <3>1
        <3>3. PageOK(r)'
            BY <2>5, <3>1, <3>2 DEF PageOK
        <3>4. page.has_more => asked[r].offset + page.rows < Cardinality(Stored)
            BY <2>5, <2>7
        <3>5. Listed(r)'
            BY <2>1, <3>1, <3>2, <3>4 DEF Listed
        <3> QED
            BY <3>3, <3>5
    <2> QED
        BY <1>2, <1>6, <2>8 DEF SelectPage, Breaks, page
<1> QED
    BY <1>1, <1>3, <1>4, <1>5, <1>6, ListSteps

LEMMA PagesKeep ==
    ASSUME TypeOK, OrdersInv, PagesInv, [Next]_vars, RequestsOK'
    PROVE  PagesInv'
<1>1. \A q \in Requests : PageOK(q) /\ Listed(q)
    BY DEF PagesInv, MoreIsThere, Listed
<1>2. ASSUME NEW q \in Requests PROVE PageOK(q)' /\ Listed(q)'
    <2>1. CASE Same(q)
        BY <1>1, <2>1, ListKept
    <2>2. ASSUME NEW r \in Requests, Serve(r) PROVE PageOK(q)' /\ Listed(q)'
        BY <2>1, <2>2, Alone, ListOwn
    <2>3. UNCHANGED <<reqVars, inserted>> => Same(q)
        BY DEF reqVars, Same
    <2>4. CASE ConfigureDatabase \/ EnsureSchema \/ ConfigureRedis \/ Bind
        BY <2>1, <2>3, <2>4
           DEF ConfigureDatabase, EnsureSchema, ConfigureRedis, Bind, Connect, Become, orderVars
    <2>5. CASE KeyExpires \/ Rest \/ UNCHANGED vars
        BY <2>1, <2>3, <2>5 DEF KeyExpires, Expire, Rest, vars, orderVars
    <2> QED
        BY <2>2, <2>4, <2>5 DEF Next
<1> QED
    BY <1>2 DEF PagesInv, MoreIsThere, Listed

-----------------------------------------------------------------------------
(***************************************************************************)
(* Accounts: codes, tokens and payments.                                   *)
(***************************************************************************)

LEMMA OrderMoves ==
    ASSUME TypeOK, OrdersInv, NEW r \in Requests, OrderStep(r)
    PROVE  /\ asked[r].op \in OrderOps /\ stage[r] \notin {"store code", "store payment"}
           /\ asked' = asked
           /\ stage'[r] \notin {"read code", "delete code", "store token", "user", "store code",
                                "store payment"}
<1>1. Replies(r) \/ Advances(r)
    BY StepShapes DEF Shaped, OrdersInv
<1>2. asked[r].op \in OrderOps
    <2>1. stage[r] = "select" => asked[r].op \in OrderOps
        BY Asking, StageTable DEF TypeOK, OrderOps
    <2>2. CreateOrder(r) \/ Insert(r) \/ InsertFails(r) \/ Commit(r) => asked[r].op = "create"
        BY DEF CreateOrder, Insert, InsertFails, Commit, At, Accepted
    <2>3. GetOrder(r) \/ AnswerGet(r) => asked[r].op = "get"
        BY DEF GetOrder, AnswerGet, At, Accepted
    <2>4. UpdateOrder(r) \/ PrepareUpdate(r) \/ WriteUpdate(r) => asked[r].op = "update"
        BY DEF UpdateOrder, PrepareUpdate, WriteUpdate, At, Accepted
    <2>5. CountOrders(r) \/ SelectPage(r) => asked[r].op = "list"
        BY DEF CountOrders, SelectPage, At, Accepted
    <2>6. SelectOrder(r) => stage[r] = "select"
        BY DEF SelectOrder
    <2> QED
        BY <2>1, <2>2, <2>3, <2>4, <2>5, <2>6 DEF OrderStep, OrderOps
<1>3. \A next \in {"read code", "delete code", "store token", "user", "store code", "store payment"} :
            ~Goes(r, next)
    BY <1>2, StageTable DEF Goes, OrderOps
<1>4. Replies(r) => stage'[r] = "answered" /\ asked' = asked
    BY NextStage DEF Replies, TypeOK, Reply
<1>5. \A next : Goes(r, next) => stage'[r] = next /\ asked' = asked
    BY NextStage DEF Goes, TypeOK, GoTo
<1>6. stage[r] \notin {"store code", "store payment"}
    <2>1. stage[r] \in {"store code", "store payment"} => asked[r].op \in {"sms", "pay"}
        BY Asking, StageTable DEF TypeOK
    <2> QED
        BY <1>2, <2>1 DEF OrderOps
<1> QED
    BY <1>1, <1>2, <1>3, <1>4, <1>5, <1>6 DEF Advances

LEMMA TurnedAway ==
    ASSUME TypeOK, NEW r \in Requests, TurnAway(r)
    PROVE  /\ stage[r] = "asked" /\ stage'[r] = "answered" /\ asked' = asked
           /\ answer'[r].status # 200 /\ UNCHANGED accountVars
BY DEF TurnAway, Unavailable, BadRequest, Refuse, Reply, TypeOK, RequestsOK

LEMMA AccountsTyped ==
    ASSUME TypeOK, [Next]_vars
    PROVE  AccountsOK'
<1>1. ASSUME UNCHANGED accountVars PROVE AccountsOK'
    BY <1>1 DEF TypeOK, AccountsOK, accountVars, redisVars, historyVars
<1>2. ASSUME NEW r \in Requests, AccountStep(r) PROVE AccountsOK'
    <2> USE DEF TypeOK, AccountsOK
    <2>1. CASE Register(r)
        BY <2>1 DEF Register, redisVars, historyVars
    <2>2. CASE FindUser(r) \/ ReadCode(r) \/ FindToken(r) \/ AnswerMe(r)
        BY <1>1, <2>2 DEF FindUser, ReadCode, FindToken, AnswerMe
    <2>3. CASE DeleteCode(r)
        BY <2>3 DEF DeleteCode
    <2>4. CASE StoreToken(r)
        <3>1. /\ UNCHANGED <<users, codes, payments, historyVars>>
              /\ \/ UNCHANGED tokens
                 \/ \E second \in Seconds :
                        tokens' = [tokens EXCEPT ![<<asked[r].email, second>>] = asked[r].email]
            BY <2>4 DEF StoreToken
        <3>2. stage[r] = "store token"
            BY <2>4 DEF StoreToken, At
        <3>3. asked[r].op = "login" /\ asked[r].valid /\ asked[r] # Absent
            BY <3>2, Asking, StageTable
        <3>4. asked[r].email \in Emails
            BY <3>3, FieldsOfAccounts
        <3>5. tokens' \in [Tokens -> Emails \cup {Absent}]
            BY <3>1, <3>4
        <3> QED
            BY <3>1, <3>5 DEF historyVars
    <2>5. CASE CallSms(r)
        <3>1. /\ UNCHANGED <<users, redisVars, admitted, settled>>
              /\ \/ UNCHANGED sent
                 \/ sent' = [sent EXCEPT ![asked[r].phone] = sent[asked[r].phone] + 1]
            BY <2>5 DEF CallSms
        <3>2. sent' \in [Phones -> Nat]
            BY <3>1
        <3> QED
            BY <3>1, <3>2 DEF redisVars
    <2>6. CASE StoreCode(r)
        <3>1. stage[r] = "store code"
            BY <2>6 DEF StoreCode, At
        <3>2. seen[r] \in Codes
            BY <3>1, Asking, StageTable
        <3> QED
            BY <2>6, <3>2 DEF StoreCode, historyVars
    <2>7. CASE CallPayment(r)
        BY <2>7 DEF CallPayment, redisVars
    <2>8. CASE StorePending(r)
        BY <2>8 DEF StorePending, historyVars
    <2>9. CASE ReceiveCallback(r)
        BY <2>9 DEF ReceiveCallback
    <2> QED
        BY <1>2, <2>1, <2>2, <2>3, <2>4, <2>5, <2>6, <2>7, <2>8, <2>9 DEF AccountStep
<1>3. ASSUME NEW r \in Requests, Serve(r) PROVE AccountsOK'
    BY <1>1, <1>2, <1>3 DEF Serve, Enter, TurnAway
<1>4. CASE KeyExpires
    BY <1>4 DEF KeyExpires, Expire, TypeOK, AccountsOK
<1>5. CASE ConfigureDatabase \/ EnsureSchema \/ ConfigureRedis \/ Bind
    BY <1>1, <1>5 DEF ConfigureDatabase, EnsureSchema, ConfigureRedis, Bind, Connect, Become
<1>6. CASE Rest \/ UNCHANGED vars
    BY <1>1, <1>6 DEF Rest, vars
<1> QED
    BY <1>3, <1>4, <1>5, <1>6 DEF Next

\* What has been earned stays so, as long as the logins that are admitted are the
\* same or more and no payload of theirs changes.
LEMMA EarnedStays ==
    ASSUME TypeOK, OrdersInv, LoginsInv, [Next]_vars
    PROVE  /\ admitted \subseteq admitted'
           /\ \A q \in admitted : q \in Requests /\ asked'[q] = asked[q]
           /\ \A email : Earned(email) => Earned(email)'
<1>1. admitted \subseteq admitted'
    <2>1. ASSUME NEW r \in Requests, AccountStep(r) PROVE admitted \subseteq admitted'
        <3>1. UNCHANGED historyVars => admitted' = admitted
            BY DEF historyVars
        <3>2. UNCHANGED accountVars => admitted' = admitted
            BY DEF accountVars, historyVars
        <3>3. CASE Register(r) \/ StoreToken(r) \/ StoreCode(r) \/ StorePending(r)
            BY <3>1, <3>3 DEF Register, StoreToken, StoreCode, StorePending
        <3>4. CASE FindUser(r) \/ ReadCode(r) \/ FindToken(r) \/ AnswerMe(r)
            BY <3>2, <3>4 DEF FindUser, ReadCode, FindToken, AnswerMe
        <3>5. CASE CallSms(r) \/ CallPayment(r) \/ ReceiveCallback(r)
            BY <3>5 DEF CallSms, CallPayment, ReceiveCallback
        <3>6. CASE DeleteCode(r)
            BY <3>6 DEF DeleteCode
        <3> QED
            BY <2>1, <3>3, <3>4, <3>5, <3>6 DEF AccountStep
    <2>2. ASSUME NEW r \in Requests, Serve(r) PROVE admitted \subseteq admitted'
        BY <2>1, <2>2 DEF Serve, Enter, TurnAway, accountVars, historyVars
    <2>3. CASE ConfigureDatabase \/ EnsureSchema \/ ConfigureRedis \/ Bind
        BY <2>3 DEF ConfigureDatabase, EnsureSchema, ConfigureRedis, Bind, Connect, Become,
                    accountVars, historyVars
    <2>4. CASE KeyExpires \/ Rest \/ UNCHANGED vars
        BY <2>4 DEF KeyExpires, Expire, Rest, vars, accountVars, historyVars
    <2> QED
        BY <2>2, <2>3, <2>4 DEF Next
<1>2. \A q \in admitted : q \in Requests /\ asked'[q] = asked[q]
    <2> SUFFICES ASSUME NEW q \in admitted PROVE q \in Requests /\ asked'[q] = asked[q]
        OBVIOUS
    <2>1. q \in Requests /\ stage[q] # "idle"
        BY DEF TypeOK, AccountsOK, LoginsInv, LoginOK
    <2>2. ASSUME NEW r \in Requests, Serve(r) PROVE asked'[q] = asked[q]
        <3>1. CASE q # r
            BY <2>1, <2>2, <3>1, Alone DEF Same
        <3>2. CASE q = r
            <4>1. ~Enter(r)
                BY <2>1, <3>2 DEF Enter, Ask
            <4> QED
                BY <2>2, <4>1, AskedStays
        <3> QED
            BY <3>1, <3>2
    <2>3. CASE ConfigureDatabase \/ EnsureSchema \/ ConfigureRedis \/ Bind
        BY <2>1, <2>3 DEF ConfigureDatabase, EnsureSchema, ConfigureRedis, Bind, Connect, Become, reqVars
    <2>4. CASE KeyExpires \/ Rest \/ UNCHANGED vars
        BY <2>1, <2>4 DEF KeyExpires, Expire, Rest, vars, reqVars
    <2> QED
        BY <2>1, <2>2, <2>3, <2>4 DEF Next
<1> QED
    BY <1>1, <1>2 DEF Earned

\* A request that another step leaves alone.
LEMMA LoginKept ==
    ASSUME TypeOK, OrdersInv, LoginsInv, [Next]_vars, NEW q \in Requests, Same(q),
           q \in admitted' => q \in admitted
    PROVE  LoginOK(q)' /\ MeOK(q)'
<1>1. LoginOK(q)'
    <2>1. q \in admitted => q \in admitted'
        BY EarnedStays
    <2> QED
        BY <2>1 DEF LoginsInv, LoginOK, Same
<1>2. MeOK(q)'
    <2>1. stage[q] = "user" => Earned(seen[q])'
        <3>1. \A email : Earned(email) => Earned(email)'
            BY EarnedStays
        <3>2. stage[q] = "user" => Earned(seen[q]) /\ seen'[q] = seen[q]
            BY DEF LoginsInv, MeOK, Same
        <3> QED
            BY <3>1, <3>2 DEF Earned
    <2>2. stage[q] = "answered" /\ asked[q].op = "me" /\ answer[q].status = 200 =>
                Earned(answer[q].body)'
        <3>1. \A email : Earned(email) => Earned(email)'
            BY EarnedStays
        <3>2. stage[q] = "answered" /\ asked[q].op = "me" /\ answer[q].status = 200 =>
                Earned(answer[q].body) /\ answer'[q] = answer[q]
            BY DEF LoginsInv, MeOK, Same
        <3> QED
            BY <3>1, <3>2 DEF Earned
    <2> QED
        BY <2>1, <2>2 DEF MeOK, Same
<1> QED
    BY <1>1, <1>2

LEMMA LoginOwn ==
    ASSUME TypeOK, OrdersInv, LoginsInv, [Next]_vars, NEW r \in Requests, Serve(r)
    PROVE  LoginOK(r)' /\ MeOK(r)'
<1>1. /\ LoginOK(r) /\ MeOK(r)
      /\ r \in admitted => stage[r] \in {"store token", "answered"}
    BY DEF LoginsInv, LoginOK
<1>2. \A email : Earned(email) => Earned(email)'
    BY EarnedStays
<1>3. ASSUME asked' = asked, stage'[r] = "answered", answer'[r].status # 200,
             r \in admitted' => r \in admitted
      PROVE  LoginOK(r)' /\ MeOK(r)'
    BY <1>1, <1>3 DEF LoginOK, MeOK
<1>4. ASSUME NEW status, status # 200, Refuse(r, status), r \in admitted' => r \in admitted
      PROVE  LoginOK(r)' /\ MeOK(r)'
    BY <1>3, <1>4 DEF Refuse, Reply, TypeOK, RequestsOK
<1>4a. ASSUME admitted' = admitted, Refuse(r, 401) \/ Refuse(r, 502) \/ Refuse(r, 503) \/ Breaks(r)
       PROVE  LoginOK(r)' /\ MeOK(r)'
    <2>1. Refuse(r, 401) => LoginOK(r)' /\ MeOK(r)'
        BY <1>4, <1>4a, 401 # 200
    <2>2. Refuse(r, 502) => LoginOK(r)' /\ MeOK(r)'
        BY <1>4, <1>4a, 502 # 200
    <2>3. Refuse(r, 503) => LoginOK(r)' /\ MeOK(r)'
        BY <1>4, <1>4a, 503 # 200
    <2>4. Breaks(r) => LoginOK(r)' /\ MeOK(r)'
        BY <1>4, <1>4a, 500 # 200 DEF Breaks
    <2> QED
        BY <1>4a, <2>1, <2>2, <2>3, <2>4
<1>5. ASSUME NEW status, NEW body, Reply(r, status, body), asked[r].op # "me",
             r \in admitted' => r \in admitted
      PROVE  LoginOK(r)' /\ MeOK(r)'
    <2>1. asked' = asked /\ stage'[r] = "answered"
        BY <1>5 DEF Reply, TypeOK, RequestsOK
    <2> QED
        BY <1>1, <1>5, <2>1 DEF LoginOK, MeOK
<1>6. ASSUME NEW next \in {"store code", "store payment"}, NEW known, GoTo(r, next, known), stage[r] = "asked",
             admitted' = admitted
      PROVE  LoginOK(r)' /\ MeOK(r)'
    <2>1. asked' = asked /\ stage'[r] = next
        BY <1>6 DEF GoTo, TypeOK, RequestsOK
    <2> QED
        BY <1>1, <1>6, <2>1 DEF LoginOK, MeOK
<1>7. CASE Enter(r)
    <2>1. stage'[r] = "asked" /\ stage[r] = "idle" /\ admitted' = admitted
        BY <1>7 DEF Enter, Ask, TypeOK, RequestsOK, accountVars, historyVars
    <2> QED
        BY <1>1, <2>1 DEF LoginOK, MeOK
<1>8. CASE TurnAway(r)
    BY <1>3, <1>8, TurnedAway DEF accountVars, historyVars
<1>9. CASE OrderStep(r) /\ UNCHANGED accountVars
    <2>1. /\ asked[r].op \in OrderOps /\ asked' = asked /\ admitted' = admitted
          /\ stage'[r] \notin {"read code", "delete code", "store token", "user"}
        BY <1>9, OrderMoves DEF accountVars, historyVars
    <2>2. r \notin admitted
        BY <2>1 DEF LoginsInv, LoginOK, OrderOps
    <2>3. asked[r].op # "me"
        BY <2>1 DEF OrderOps
    <2> QED
        BY <2>1, <2>2, <2>3 DEF LoginOK, MeOK
<1>10. CASE Register(r)
    <2>1. asked[r].op # "me" /\ admitted' = admitted
        BY <1>10 DEF Register, Accepted, At, historyVars
    <2> QED
        BY <1>5, <1>10, <2>1 DEF Register, Refuse, Breaks
<1>11. CASE FindUser(r)
    <2>1. stage[r] = "asked" /\ admitted' = admitted
        BY <1>11 DEF FindUser, Accepted, At, accountVars, historyVars
    <2>2. ASSUME asked[r].password = Password, GoTo(r, "read code", Absent)
          PROVE  LoginOK(r)' /\ MeOK(r)'
        <3>1. asked' = asked /\ stage'[r] = "read code"
            BY <2>2 DEF GoTo, TypeOK, RequestsOK
        <3> QED
            BY <1>1, <2>1, <2>2, <3>1 DEF LoginOK, MeOK
    <2>3. \/ asked[r].password = Password /\ GoTo(r, "read code", Absent)
          \/ Refuse(r, 401) \/ Breaks(r)
        BY <1>11 DEF FindUser
    <2> QED
        BY <1>4a, <2>1, <2>2, <2>3
<1>12. CASE ReadCode(r)
    <2>1. stage[r] = "read code" /\ admitted' = admitted
        BY <1>12 DEF ReadCode, At, accountVars, historyVars
    <2>2. ASSUME GoTo(r, "delete code", Absent)
          PROVE  LoginOK(r)' /\ MeOK(r)'
        <3>1. asked' = asked /\ stage'[r] = "delete code"
            BY <2>2 DEF GoTo, TypeOK, RequestsOK
        <3> QED
            BY <1>1, <2>1, <3>1 DEF LoginOK, MeOK
    <2>3. GoTo(r, "delete code", Absent) \/ Refuse(r, 401) \/ Breaks(r)
        BY <1>12 DEF ReadCode
    <2> QED
        BY <1>4a, <2>1, <2>2, <2>3
<1>13. CASE DeleteCode(r)
    <2>1. stage[r] = "delete code" /\ asked[r].op = "login"
        BY <1>13 DEF DeleteCode, At
    <2>2. ASSUME GoTo(r, "store token", Absent), admitted' = admitted \cup {r}
          PROVE  LoginOK(r)' /\ MeOK(r)'
        <3>1. asked' = asked /\ stage'[r] = "store token"
            BY <2>2 DEF GoTo, TypeOK, RequestsOK
        <3> QED
            BY <1>1, <2>1, <2>2, <3>1 DEF LoginOK, MeOK
    <2> QED
        BY <1>4a, <1>13, <2>2 DEF DeleteCode
<1>14. CASE StoreToken(r)
    <2>1. asked[r].op # "me" /\ admitted' = admitted
        BY <1>14 DEF StoreToken, At, historyVars
    <2> QED
        BY <1>5, <1>14, <2>1 DEF StoreToken, Refuse, Breaks
<1>15. CASE FindToken(r)
    <2>1. stage[r] = "asked" /\ admitted' = admitted
        BY <1>15 DEF FindToken, Accepted, At, accountVars, historyVars
    <2>2. ASSUME NEW token \in Tokens, tokens[token] # Absent, GoTo(r, "user", tokens[token])
          PROVE  LoginOK(r)' /\ MeOK(r)'
        <3>1. asked' = asked /\ stage'[r] = "user" /\ seen'[r] = tokens[token]
            BY <2>2 DEF GoTo, TypeOK, RequestsOK
        <3>2. Earned(tokens[token])
            BY <2>2 DEF LoginsInv
        <3>3. MeOK(r)'
            BY <3>1, <3>2, <2>1 DEF MeOK, Earned
        <3> QED
            BY <1>1, <2>1, <3>1, <3>3 DEF LoginOK
    <2> QED
        BY <1>4a, <1>15, <2>1, <2>2 DEF FindToken
<1>16. CASE AnswerMe(r)
    <2>1. stage[r] = "user" /\ admitted' = admitted
        BY <1>16 DEF AnswerMe, At, accountVars, historyVars
    <2>2. ASSUME Reply(r, 200, seen[r])
          PROVE  LoginOK(r)' /\ MeOK(r)'
        <3>1. asked' = asked /\ stage'[r] = "answered" /\ answer'[r].body = seen[r]
            BY <2>2 DEF Reply, TypeOK, RequestsOK
        <3>2. Earned(seen[r])
            BY <1>1, <2>1 DEF MeOK
        <3>3. MeOK(r)'
            BY <3>1, <3>2, <2>1 DEF MeOK, Earned
        <3> QED
            BY <1>1, <2>1, <3>1, <3>3 DEF LoginOK
    <2>3. Reply(r, 200, seen[r]) \/ Refuse(r, 401) \/ Breaks(r)
        BY <1>16 DEF AnswerMe
    <2> QED
        BY <1>4a, <2>1, <2>2, <2>3
<1>17. CASE CallSms(r)
    <2>1. stage[r] = "asked" /\ admitted' = admitted
        BY <1>17 DEF CallSms, Accepted, At
    <2>2. \/ Refuse(r, 502) \/ Refuse(r, 503)
          \/ \E code \in Codes : GoTo(r, "store code", code)
        BY <1>17 DEF CallSms
    <2> QED
        BY <1>4a, <1>6, <2>1, <2>2
<1>18. CASE StoreCode(r)
    <2>1. asked[r].op # "me" /\ admitted' = admitted
        BY <1>18 DEF StoreCode, At, historyVars
    <2> QED
        BY <1>5, <1>18, <2>1 DEF StoreCode, Refuse, Breaks
<1>19. CASE CallPayment(r)
    <2>1. stage[r] = "asked" /\ admitted' = admitted
        BY <1>19 DEF CallPayment, Accepted, At
    <2>2. Refuse(r, 502) \/ Refuse(r, 503) \/ GoTo(r, "store payment", Absent)
        BY <1>19 DEF CallPayment
    <2> QED
        BY <1>4a, <1>6, <2>1, <2>2
<1>20. CASE StorePending(r)
    <2>1. asked[r].op # "me" /\ admitted' = admitted
        BY <1>20 DEF StorePending, At, historyVars
    <2> QED
        BY <1>5, <1>20, <2>1 DEF StorePending, Refuse, Breaks
<1>21. CASE ReceiveCallback(r)
    <2>1. asked[r].op # "me" /\ admitted' = admitted
        BY <1>21 DEF ReceiveCallback, Accepted, At
    <2> QED
        BY <1>5, <1>21, <2>1 DEF ReceiveCallback, Refuse, Breaks
<1>22. CASE AccountStep(r)
    BY <1>10, <1>11, <1>12, <1>13, <1>14, <1>15, <1>16, <1>17, <1>18, <1>19, <1>20, <1>21, <1>22
       DEF AccountStep
<1> QED
    BY <1>7, <1>8, <1>9, <1>22 DEF Serve

\* A login is admitted by its own DEL only.
LEMMA AdmittedAlone ==
    ASSUME TypeOK, NEW r \in Requests, Serve(r)
    PROVE  admitted' \subseteq admitted \cup {r}
<1>1. UNCHANGED historyVars => admitted' = admitted
    BY DEF historyVars
<1>2. UNCHANGED accountVars => admitted' = admitted
    BY DEF accountVars, historyVars
<1>3. AccountStep(r) => admitted' \subseteq admitted \cup {r}
    <2>1. CASE Register(r) \/ StoreToken(r) \/ StoreCode(r) \/ StorePending(r)
        BY <1>1, <2>1 DEF Register, StoreToken, StoreCode, StorePending
    <2>2. CASE FindUser(r) \/ ReadCode(r) \/ FindToken(r) \/ AnswerMe(r)
        BY <1>2, <2>2 DEF FindUser, ReadCode, FindToken, AnswerMe
    <2>3. CASE CallSms(r) \/ CallPayment(r) \/ ReceiveCallback(r)
        BY <2>3 DEF CallSms, CallPayment, ReceiveCallback
    <2>4. CASE DeleteCode(r)
        BY <2>4 DEF DeleteCode
    <2> QED
        BY <2>1, <2>2, <2>3, <2>4 DEF AccountStep
<1> QED
    BY <1>2, <1>3 DEF Serve, Enter, TurnAway

LEMMA TokensKept ==
    ASSUME TypeOK, OrdersInv, LoginsInv, [Next]_vars
    PROVE  (\A token \in Tokens : tokens[token] # Absent => Earned(tokens[token]))'
<1>1. \A email : Earned(email) => Earned(email)'
    BY EarnedStays
<1>2. ASSUME NEW token \in Tokens, tokens'[token] \in {tokens[token], Absent}
      PROVE  (tokens[token] # Absent => Earned(tokens[token]))'
    <2>1. CASE tokens'[token] = Absent
        BY <2>1
    <2>2. CASE tokens'[token] = tokens[token]
        <3>1. tokens[token] # Absent => Earned(tokens[token])
            BY DEF LoginsInv
        <3> QED
            BY <1>1, <2>2, <3>1 DEF Earned
    <2> QED
        BY <1>2, <2>1, <2>2
<1>3. CASE UNCHANGED tokens
    BY <1>2, <1>3
<1>4. ASSUME NEW r \in Requests, StoreToken(r)
      PROVE  (\A token \in Tokens : tokens[token] # Absent => Earned(tokens[token]))'
    <2>1. stage[r] = "store token" /\ UNCHANGED historyVars
        BY <1>4 DEF StoreToken, At
    <2>2. r \in admitted /\ asked[r].op = "login" /\ asked[r].password = Password
          /\ asked[r].valid /\ asked[r] # Absent
        BY <2>1, Asking DEF TypeOK, LoginsInv, LoginOK
    <2>3. Earned(asked[r].email)
        BY <2>2 DEF Earned
    <2>4. CASE UNCHANGED tokens
        BY <1>3, <2>4
    <2>5. ASSUME NEW second \in Seconds,
                 tokens' = [tokens EXCEPT ![<<asked[r].email, second>>] = asked[r].email]
          PROVE  (\A token \in Tokens : tokens[token] # Absent => Earned(tokens[token]))'
        <3> PICK email : email = asked[r].email
            OBVIOUS
        <3>1. Earned(email)'
            BY <1>1, <2>3
        <3>2. ASSUME NEW token \in Tokens, token # <<asked[r].email, second>>
              PROVE  tokens'[token] = tokens[token]
            BY <2>5, <3>2 DEF TypeOK, AccountsOK
        <3>3. ASSUME NEW token \in Tokens, token = <<asked[r].email, second>>
              PROVE  tokens'[token] = asked[r].email
            BY <2>5, <3>3 DEF TypeOK, AccountsOK
        <3>4. ASSUME NEW token \in Tokens
              PROVE  (tokens[token] # Absent => Earned(tokens[token]))'
            <4>1. CASE token = <<asked[r].email, second>>
                <5>1. tokens'[token] = email
                    BY <3>3, <4>1
                <5> QED
                    BY <3>1, <5>1 DEF Earned
            <4>2. CASE token # <<asked[r].email, second>>
                BY <1>2, <3>2, <4>2
            <4> QED
                BY <4>1, <4>2
        <3> QED
            BY <3>4
    <2> QED
        BY <1>4, <2>4, <2>5 DEF StoreToken
<1>5. ASSUME NEW r \in Requests, AccountStep(r), ~StoreToken(r) PROVE UNCHANGED tokens
    <2>1. CASE Register(r) \/ CallSms(r) \/ CallPayment(r)
        BY <2>1 DEF Register, CallSms, CallPayment, redisVars
    <2>2. CASE FindUser(r) \/ ReadCode(r) \/ FindToken(r) \/ AnswerMe(r)
        BY <2>2 DEF FindUser, ReadCode, FindToken, AnswerMe, accountVars, redisVars
    <2>3. CASE DeleteCode(r) \/ StoreCode(r) \/ StorePending(r) \/ ReceiveCallback(r)
        BY <2>3 DEF DeleteCode, StoreCode, StorePending, ReceiveCallback
    <2> QED
        BY <1>5, <2>1, <2>2, <2>3 DEF AccountStep
<1>6. ASSUME NEW r \in Requests, Serve(r), ~StoreToken(r) PROVE UNCHANGED tokens
    BY <1>5, <1>6 DEF Serve, Enter, TurnAway, accountVars, redisVars
<1>7. CASE KeyExpires
    <2>1. ASSUME NEW token \in Tokens PROVE tokens'[token] \in {tokens[token], Absent}
        BY <1>7 DEF KeyExpires, Expire, TypeOK, AccountsOK
    <2> QED
        BY <1>2, <2>1
<1>8. CASE ConfigureDatabase \/ EnsureSchema \/ ConfigureRedis \/ Bind
    BY <1>3, <1>8 DEF ConfigureDatabase, EnsureSchema, ConfigureRedis, Bind, Connect, Become,
                      accountVars, redisVars
<1>9. CASE Rest \/ UNCHANGED vars
    BY <1>3, <1>9 DEF Rest, vars, accountVars, redisVars
<1> QED
    BY <1>3, <1>4, <1>6, <1>7, <1>8, <1>9 DEF Next

LEMMA LoginsKeep ==
    ASSUME TypeOK, OrdersInv, LoginsInv, [Next]_vars
    PROVE  LoginsInv'
<1>1. ASSUME UNCHANGED <<reqVars, inserted, admitted>>, NEW q \in Requests
      PROVE  LoginOK(q)' /\ MeOK(q)'
    BY <1>1, LoginKept DEF Same, reqVars
<1>2. ASSUME NEW r \in Requests, Serve(r), NEW q \in Requests
      PROVE  LoginOK(q)' /\ MeOK(q)'
    BY <1>2, Alone, LoginKept, LoginOwn, AdmittedAlone
<1>3. CASE ConfigureDatabase \/ EnsureSchema \/ ConfigureRedis \/ Bind
    <2>1. UNCHANGED <<reqVars, inserted, admitted>>
        BY <1>3 DEF ConfigureDatabase, EnsureSchema, ConfigureRedis, Bind, Connect, Become,
                    orderVars, accountVars, historyVars
    <2> QED
        BY <1>1, <2>1, TokensKept DEF LoginsInv
<1>4. CASE KeyExpires \/ Rest \/ UNCHANGED vars
    <2>1. UNCHANGED <<reqVars, inserted, admitted>>
        BY <1>4 DEF KeyExpires, Expire, Rest, vars, orderVars, accountVars, historyVars
    <2> QED
        BY <1>1, <2>1, TokensKept DEF LoginsInv
<1> QED
    BY <1>2, <1>3, <1>4, TokensKept DEF Next, LoginsInv

\* From where a request comes to a store of a code or of a payment.
LEMMA ToStore ==
    ASSUME TypeOK, OrdersInv, NEW r \in Requests, Serve(r)
    PROVE  /\ stage'[r] = "store code" => CallSms(r)
           /\ stage'[r] = "store payment" => CallPayment(r)
<1>1. \A status, body : Reply(r, status, body) => stage'[r] = "answered"
    BY NextStage DEF TypeOK
<1>2. \A next, known : GoTo(r, next, known) => stage'[r] = next
    BY NextStage DEF TypeOK
<1>3. (\A status : Refuse(r, status) => stage'[r] = "answered")
      /\ (Breaks(r) => stage'[r] = "answered")
    BY <1>1 DEF Refuse, Breaks
<1>4. Enter(r) => stage'[r] = "asked"
    BY DEF Enter, Ask, TypeOK, RequestsOK
<1>5. TurnAway(r) => stage'[r] = "answered"
    BY TurnedAway
<1>6. OrderStep(r) => stage'[r] \notin {"store code", "store payment"}
    BY OrderMoves
<1>7. Register(r) \/ StoreToken(r) => stage'[r] = "answered"
    BY <1>1, <1>3 DEF Register, StoreToken
<1>8. StoreCode(r) \/ StorePending(r) \/ ReceiveCallback(r) => stage'[r] = "answered"
    BY <1>1, <1>3 DEF StoreCode, StorePending, ReceiveCallback
<1>9. FindUser(r) \/ ReadCode(r) => stage'[r] \in {"answered", "read code", "delete code"}
    BY <1>2, <1>3 DEF FindUser, ReadCode
<1>10. DeleteCode(r) => stage'[r] \in {"answered", "store token"}
    BY <1>2, <1>3 DEF DeleteCode
<1>11. FindToken(r) \/ AnswerMe(r) => stage'[r] \in {"answered", "user"}
    <2>1. FindToken(r) => stage'[r] \in {"answered", "user"}
        BY <1>2, <1>3 DEF FindToken
    <2>2. AnswerMe(r) => stage'[r] = "answered"
        BY <1>1, <1>3 DEF AnswerMe
    <2> QED
        BY <2>1, <2>2
<1>12. CallSms(r) => stage'[r] \in {"answered", "store code"}
    BY <1>2, <1>3 DEF CallSms
<1>13. CallPayment(r) => stage'[r] \in {"answered", "store payment"}
    BY <1>2, <1>3 DEF CallPayment
<1>14. AccountStep(r) => /\ stage'[r] = "store code" => CallSms(r)
                         /\ stage'[r] = "store payment" => CallPayment(r)
    BY <1>7, <1>8, <1>9, <1>10, <1>11, <1>12, <1>13 DEF AccountStep
<1> QED
    BY <1>4, <1>5, <1>6, <1>14 DEF Serve

\* How the size of a finite set follows that of another.
LEMMA Sizes ==
    ASSUME NEW A, IsFiniteSet(A), NEW x, NEW B
    PROVE  /\ Cardinality(A) \in Nat
           /\ B \subseteq A => IsFiniteSet(B) /\ Cardinality(B) \in Nat /\ Cardinality(B) <= Cardinality(A)
           /\ B \subseteq A \cup {x} => IsFiniteSet(B) /\ Cardinality(B) \in Nat
                                            /\ Cardinality(B) <= Cardinality(A) + 1
           /\ B \subseteq A \ {x} /\ x \in A => Cardinality(B) + 1 <= Cardinality(A)
<1>1. Cardinality(A) \in Nat
    BY FS_CardinalityType
<1>2. ASSUME B \subseteq A
      PROVE  IsFiniteSet(B) /\ Cardinality(B) \in Nat /\ Cardinality(B) <= Cardinality(A)
    BY <1>2, FS_Subset, FS_CardinalityType
<1>3. ASSUME B \subseteq A \cup {x}
      PROVE  IsFiniteSet(B) /\ Cardinality(B) \in Nat /\ Cardinality(B) <= Cardinality(A) + 1
    <2>1. IsFiniteSet(A \cup {x})
          /\ (Cardinality(A \cup {x}) = Cardinality(A) \/ Cardinality(A \cup {x}) = Cardinality(A) + 1)
        BY FS_AddElement
    <2>2. IsFiniteSet(B) /\ Cardinality(B) <= Cardinality(A \cup {x}) /\ Cardinality(B) \in Nat
        BY <1>3, <2>1, FS_Subset, FS_CardinalityType
    <2> QED
        BY <1>1, <2>1, <2>2
<1>4. ASSUME B \subseteq A \ {x}, x \in A
      PROVE  Cardinality(B) + 1 <= Cardinality(A)
    <2>1. IsFiniteSet(A \ {x}) /\ Cardinality(A \ {x}) = Cardinality(A) - 1
        BY <1>4, FS_RemoveElement
    <2>2. Cardinality(B) <= Cardinality(A \ {x}) /\ Cardinality(B) \in Nat
        BY <1>4, <2>1, FS_Subset, FS_CardinalityType
    <2> QED
        BY <1>1, <2>1, <2>2
<1> QED
    BY <1>1, <1>2, <1>3, <1>4

Paid(phone) ==
    /\ IsFiniteSet(InHand(phone))
    /\ Cardinality(AdmittedBy(phone)) + Cardinality(InHand(phone)) + Waiting(phone) <= sent[phone]

\* The four ways in which the account of a phone changes.
LEMMA Balance ==
    ASSUME AccountsOK, AccountsOK', CodesInv, NEW phone \in Phones, NEW r,
           \/ /\ AdmittedBy(phone)' \subseteq AdmittedBy(phone)
              /\ InHand(phone)' \subseteq InHand(phone)
              /\ Waiting(phone)' <= Waiting(phone) /\ sent[phone] <= sent'[phone]
           \/ /\ AdmittedBy(phone)' \subseteq AdmittedBy(phone)
              /\ InHand(phone)' \subseteq InHand(phone) \cup {r}
              /\ Waiting(phone)' = Waiting(phone) /\ sent'[phone] = sent[phone] + 1
           \/ /\ AdmittedBy(phone)' \subseteq AdmittedBy(phone)
              /\ InHand(phone)' \subseteq InHand(phone) \ {r} /\ r \in InHand(phone)
              /\ sent'[phone] = sent[phone]
           \/ /\ AdmittedBy(phone)' \subseteq AdmittedBy(phone) \cup {r}
              /\ InHand(phone)' \subseteq InHand(phone)
              /\ Waiting(phone) = 1 /\ Waiting(phone)' = 0 /\ sent'[phone] = sent[phone]
    PROVE  Paid(phone)'
<1> DEFINE a == Cardinality(AdmittedBy(phone))
           h == Cardinality(InHand(phone))
           b == Cardinality(AdmittedBy(phone)')
           k == Cardinality(InHand(phone)')
<1>1. IsFiniteSet(AdmittedBy(phone)) /\ IsFiniteSet(InHand(phone))
    <2>1. AdmittedBy(phone) \subseteq admitted
        BY DEF AdmittedBy
    <2> QED
        BY <2>1, FS_Subset DEF CodesInv
<1>2. a + h + Waiting(phone) <= sent[phone]
    BY DEF CodesInv
<1>3. /\ sent[phone] \in Nat /\ sent'[phone] \in Nat
      /\ Waiting(phone) \in {0, 1} /\ Waiting(phone)' \in {0, 1}
    BY DEF AccountsOK, Waiting
<1>4. a \in Nat /\ h \in Nat
    BY <1>1, Sizes
<1>5. /\ AdmittedBy(phone)' \subseteq AdmittedBy(phone) => b \in Nat /\ b <= a
      /\ AdmittedBy(phone)' \subseteq AdmittedBy(phone) \cup {r} => b \in Nat /\ b <= a + 1
    BY <1>1, Sizes
<1>6. /\ InHand(phone)' \subseteq InHand(phone) =>
            IsFiniteSet(InHand(phone)') /\ k \in Nat /\ k <= h
      /\ InHand(phone)' \subseteq InHand(phone) \cup {r} =>
            IsFiniteSet(InHand(phone)') /\ k \in Nat /\ k <= h + 1
      /\ InHand(phone)' \subseteq InHand(phone) \ {r} /\ r \in InHand(phone) => k + 1 <= h
    BY <1>1, Sizes
<1>7. InHand(phone)' \subseteq InHand(phone) \ {r} => InHand(phone)' \subseteq InHand(phone)
    OBVIOUS
<1>8. IsFiniteSet(InHand(phone)')
    BY <1>6, <1>7
<1> HIDE DEF a, h, b, k
<1>9. b + k + Waiting(phone)' <= sent'[phone]
    BY <1>2, <1>3, <1>4, <1>5, <1>6, <1>7
<1> QED
    BY <1>8, <1>9 DEF Paid, b, k

\* Who is admitted and what is in hand after a step of request r.
LEMMA HandsMove ==
    ASSUME TypeOK, OrdersInv, LoginsInv, [Next]_vars, NEW r \in Requests, Serve(r),
           NEW phone \in Phones
    PROVE  /\ AdmittedBy(phone)' \subseteq AdmittedBy(phone) \cup {r}
           /\ admitted' = admitted => AdmittedBy(phone)' \subseteq AdmittedBy(phone)
           /\ InHand(phone)' \subseteq InHand(phone) \cup {r}
           /\ ~CallSms(r) => InHand(phone)' \subseteq InHand(phone) \ {r}
<1>1. /\ \A q \in admitted : asked'[q] = asked[q]
      /\ admitted' \subseteq admitted \cup {r}
    BY EarnedStays, AdmittedAlone
<1>2. \A q \in Requests : q # r => Same(q)
    BY Alone
<1>3. ~CallSms(r) => stage'[r] # "store code"
    BY ToStore
<1> QED
    BY <1>1, <1>2, <1>3 DEF AdmittedBy, InHand, Same

LEMMA CodesMove ==
    ASSUME TypeOK, AccountsOK', OrdersInv, LoginsInv, CodesInv, [Next]_vars,
           NEW r \in Requests, Serve(r), NEW phone \in Phones
    PROVE  Paid(phone)'
<1>1. /\ AdmittedBy(phone)' \subseteq AdmittedBy(phone) \cup {r}
      /\ admitted' = admitted => AdmittedBy(phone)' \subseteq AdmittedBy(phone)
      /\ InHand(phone)' \subseteq InHand(phone) \cup {r}
      /\ ~CallSms(r) => InHand(phone)' \subseteq InHand(phone) \ {r}
    BY HandsMove
<1>2. AccountsOK /\ sent[phone] \in Nat /\ Waiting(phone) \in {0, 1}
    BY DEF TypeOK, AccountsOK, Waiting
<1>3. ASSUME admitted' = admitted, sent' = sent, codes' = codes, InHand(phone)' \subseteq InHand(phone)
      PROVE  Paid(phone)'
    <2>1. Waiting(phone)' = Waiting(phone)
        BY <1>3 DEF Waiting
    <2>2. Waiting(phone)' <= Waiting(phone) /\ sent[phone] <= sent'[phone]
        BY <1>2, <1>3, <2>1
    <2> QED
        BY <1>1, <1>2, <1>3, <2>2, Balance
<1>4. CASE CallSms(r)
    <2>1. /\ codes' = codes /\ admitted' = admitted /\ stage[r] = "asked" /\ asked[r].op = "sms"
          /\ asked[r].valid
        BY <1>4 DEF CallSms, Accepted, At, redisVars
    <2>2. CASE UNCHANGED sent /\ (Refuse(r, 502) \/ Refuse(r, 503))
        <3>1. stage'[r] = "answered"
            BY <2>2, NextStage DEF Refuse, TypeOK
        <3>2. InHand(phone)' \subseteq InHand(phone)
            BY <1>1, <3>1 DEF InHand
        <3> QED
            BY <1>3, <2>1, <2>2, <3>2
    <2>3. CASE /\ sent' = [sent EXCEPT ![asked[r].phone] = sent[asked[r].phone] + 1]
               /\ (\E code \in Codes : GoTo(r, "store code", code) \/ Refuse(r, 502))
        <3>1. asked' = asked
            BY <2>3 DEF GoTo, Refuse, Reply
        <3>2. CASE phone = asked[r].phone
            <4>1. sent'[phone] = sent[phone] + 1 /\ Waiting(phone)' = Waiting(phone)
                BY <2>1, <2>3, <3>2 DEF TypeOK, AccountsOK, Waiting
            <4> QED
                BY <1>1, <1>2, <2>1, <4>1, Balance
        <3>3. CASE phone # asked[r].phone
            <4>1. sent'[phone] = sent[phone] /\ Waiting(phone)' = Waiting(phone)
                BY <2>1, <2>3, <3>3 DEF TypeOK, AccountsOK, Waiting
            <4>2. InHand(phone)' \subseteq InHand(phone)
                BY <1>1, <3>1, <3>3 DEF InHand
            <4>3. Waiting(phone)' <= Waiting(phone) /\ sent[phone] <= sent'[phone]
                BY <1>2, <4>1
            <4> QED
                BY <1>1, <1>2, <2>1, <4>2, <4>3, Balance
        <3> QED
            BY <3>2, <3>3
    <2> QED
        BY <1>4, <2>2, <2>3 DEF CallSms
<1>5. CASE StoreCode(r)
    <2>1. stage[r] = "store code" /\ asked[r].op = "sms" /\ UNCHANGED <<sent, admitted>>
        BY <1>5 DEF StoreCode, At, historyVars
    <2>2. InHand(phone)' \subseteq InHand(phone) \ {r}
        <3>1. ~CallSms(r)
            BY <2>1 DEF CallSms, Accepted, At
        <3> QED
            BY <1>1, <3>1
    <2>3. CASE phone = asked[r].phone
        <3>1. r \in InHand(phone)
            BY <2>1, <2>3 DEF InHand
        <3> QED
            BY <1>1, <1>2, <2>1, <2>2, <3>1, Balance
    <2>4. CASE phone # asked[r].phone
        <3>1. codes'[phone] = codes[phone]
            BY <1>5, <2>4 DEF StoreCode, TypeOK, AccountsOK
        <3>2. Waiting(phone)' <= Waiting(phone) /\ sent[phone] <= sent'[phone]
            <4>1. sent'[phone] = sent[phone] /\ Waiting(phone)' = Waiting(phone)
                BY <2>1, <3>1 DEF Waiting
            <4> QED
                BY <1>2, <4>1
        <3>3. InHand(phone)' \subseteq InHand(phone)
            BY <2>2
        <3> QED
            BY <1>1, <1>2, <2>1, <3>2, <3>3, Balance
    <2> QED
        BY <2>3, <2>4
<1>6. CASE DeleteCode(r)
    <2>1. stage[r] = "delete code" /\ asked[r].op = "login" /\ UNCHANGED sent
        BY <1>6 DEF DeleteCode, At
    <2>2. InHand(phone)' \subseteq InHand(phone)
        <3>1. ~CallSms(r)
            BY <2>1 DEF CallSms, Accepted, At
        <3> QED
            BY <1>1, <3>1
    <2>3. CASE UNCHANGED <<codes, admitted>>
        BY <1>3, <2>1, <2>2, <2>3
    <2>4. CASE codes[asked[r].phone] # Absent /\ codes' = [codes EXCEPT ![asked[r].phone] = Absent]
        <3>1. CASE phone = asked[r].phone
            <4>1. Waiting(phone) = 1 /\ Waiting(phone)' = 0
                BY <2>4, <3>1 DEF Waiting, TypeOK, AccountsOK
            <4> QED
                BY <1>1, <1>2, <2>1, <2>2, <4>1, Balance
        <3>2. CASE phone # asked[r].phone
            <4>1. Waiting(phone)' = Waiting(phone)
                BY <2>4, <3>2 DEF Waiting, TypeOK, AccountsOK
            <4>2. asked' = asked /\ admitted' \subseteq admitted \cup {r}
                BY <1>6 DEF DeleteCode, GoTo, Breaks, Refuse, Reply
            <4>3. AdmittedBy(phone)' \subseteq AdmittedBy(phone)
                BY <3>2, <4>2 DEF AdmittedBy
            <4>4. Waiting(phone)' <= Waiting(phone) /\ sent[phone] <= sent'[phone]
                <5>1. sent'[phone] = sent[phone]
                    BY <2>1
                <5> QED
                    BY <1>2, <4>1, <5>1
            <4> QED
                BY <1>2, <2>2, <4>3, <4>4, Balance
        <3> QED
            BY <3>1, <3>2
    <2> QED
        BY <1>6, <2>3, <2>4 DEF DeleteCode
<1>7. CASE ~CallSms(r) /\ ~StoreCode(r) /\ ~DeleteCode(r)
    <2>1. UNCHANGED accountVars => UNCHANGED <<codes, sent, admitted>>
        BY DEF accountVars, redisVars, historyVars
    <2>2. Register(r) \/ StoreToken(r) \/ StorePending(r) => UNCHANGED <<codes, sent, admitted>>
        BY DEF Register, StoreToken, StorePending, redisVars, historyVars
    <2>3. FindUser(r) \/ ReadCode(r) \/ FindToken(r) \/ AnswerMe(r) => UNCHANGED <<codes, sent, admitted>>
        BY <2>1 DEF FindUser, ReadCode, FindToken, AnswerMe
    <2>4. CallPayment(r) \/ ReceiveCallback(r) => UNCHANGED <<codes, sent, admitted>>
        BY DEF CallPayment, ReceiveCallback, redisVars
    <2>5. UNCHANGED <<codes, sent, admitted>>
        BY <1>7, <2>1, <2>2, <2>3, <2>4 DEF Serve, Enter, TurnAway, AccountStep
    <2> QED
        BY <1>1, <1>3, <1>7, <2>5
<1> QED
    BY <1>4, <1>5, <1>6, <1>7

LEMMA CodesKeep ==
    ASSUME TypeOK, AccountsOK', OrdersInv, LoginsInv, CodesInv, [Next]_vars
    PROVE  CodesInv'
<1>1. CodesInv <=> IsFiniteSet(admitted) /\ \A phone \in Phones : Paid(phone)
    BY DEF CodesInv, Paid
<1>2. CodesInv' <=> IsFiniteSet(admitted') /\ \A phone \in Phones : Paid(phone)'
    BY DEF CodesInv, Paid
<1>3. ASSUME UNCHANGED <<asked, stage, admitted, sent>>, NEW phone \in Phones,
             codes'[phone] \in {codes[phone], Absent}
      PROVE  Paid(phone)'
    <2>1. AdmittedBy(phone)' = AdmittedBy(phone) /\ InHand(phone)' = InHand(phone)
        BY <1>3 DEF AdmittedBy, InHand
    <2>2. Waiting(phone)' <= Waiting(phone)
        BY <1>3 DEF Waiting
    <2>3. sent[phone] <= sent'[phone]
        BY <1>3 DEF AccountsOK
    <2> QED
        BY <2>1, <2>2, <2>3, Balance DEF TypeOK
<1>4. ASSUME NEW r \in Requests, Serve(r) PROVE CodesInv'
    <2>1. IsFiniteSet(admitted')
        <3>1. IsFiniteSet(admitted \cup {r}) /\ admitted' \subseteq admitted \cup {r}
            BY <1>4, AdmittedAlone, FS_AddElement DEF CodesInv
        <3> QED
            BY <3>1, FS_Subset
    <2> QED
        BY <1>2, <1>4, <2>1, CodesMove
<1>5. CASE UNCHANGED <<asked, stage, admitted, sent, codes>>
    BY <1>1, <1>2, <1>3, <1>5
<1>6. CASE ConfigureDatabase \/ EnsureSchema \/ ConfigureRedis \/ Bind
    BY <1>5, <1>6 DEF ConfigureDatabase, EnsureSchema, ConfigureRedis, Bind, Connect, Become,
                reqVars, accountVars, redisVars, historyVars
<1>7. CASE KeyExpires
    <2>1. UNCHANGED <<asked, stage, admitted, sent>>
          /\ \A phone \in Phones : codes'[phone] \in {codes[phone], Absent}
        BY <1>7 DEF KeyExpires, Expire, reqVars, TypeOK, AccountsOK
    <2> QED
        BY <1>1, <1>2, <1>3, <2>1
<1>8. CASE Rest \/ UNCHANGED vars
    BY <1>5, <1>8 DEF Rest, vars, reqVars, accountVars, redisVars, historyVars
<1> QED
    BY <1>4, <1>6, <1>7, <1>8 DEF Next

Settles(o) ==
    /\ Paying(o) # {} => settled[o] = Absent
    /\ settled[o] # Absent => payments[o] = settled[o]

\* Payments and what has been settled are as they were, and no more creates wait.
LEMMA SettlesOn ==
    ASSUME NEW o \in OrderNos, Settles(o), payments'[o] = payments[o], settled'[o] = settled[o],
           Paying(o)' \subseteq Paying(o)
    PROVE  Settles(o)'
BY DEF Settles

LEMMA SettlesMove ==
    ASSUME TypeOK, OrdersInv, NEW r \in Requests, Serve(r), NEW o \in OrderNos, Settles(o)
    PROVE  Settles(o)'
<1>1. \A q \in Requests : q # r => Same(q)
    BY Alone
<1>2. ASSUME ~CallPayment(r) PROVE Paying(o)' \subseteq Paying(o)
    <2>1. stage'[r] # "store payment"
        BY <1>2, ToStore
    <2> QED
        BY <1>1, <2>1 DEF Paying, Same
<1>3. CASE CallPayment(r)
    <2>1. asked' = asked /\ payments' = payments
          /\ settled' = [settled EXCEPT ![asked[r].order_no] = Absent]
        BY <1>3 DEF CallPayment, Refuse, Reply, GoTo, redisVars
    <2>2. CASE o = asked[r].order_no
        <3>1. settled'[o] = Absent
            BY <2>1, <2>2 DEF TypeOK, AccountsOK
        <3> QED
            BY <3>1 DEF Settles
    <2>3. CASE o # asked[r].order_no
        <3>1. settled'[o] = settled[o] /\ payments'[o] = payments[o]
            BY <2>1, <2>3 DEF TypeOK, AccountsOK
        <3>2. Paying(o)' \subseteq Paying(o)
            BY <1>1, <2>1, <2>3 DEF Paying, Same
        <3> QED
            BY <3>1, <3>2, SettlesOn
    <2> QED
        BY <2>2, <2>3
<1>4. CASE StorePending(r)
    <2>1. /\ stage[r] = "store payment" /\ settled' = settled
          /\ payments' = payments \/ payments' = [payments EXCEPT ![asked[r].order_no] = Pending]
        BY <1>4 DEF StorePending, At, historyVars
    <2>2. Paying(o)' \subseteq Paying(o)
        <3>1. ~CallPayment(r)
            BY <2>1 DEF CallPayment, Accepted, At
        <3> QED
            BY <1>2, <3>1
    <2>3. CASE o = asked[r].order_no
        <3>1. r \in Paying(o)
            BY <2>1, <2>3 DEF Paying
        <3>2. settled'[o] = Absent
            BY <2>1, <3>1 DEF Settles
        <3> QED
            BY <3>2 DEF Settles
    <2>4. CASE o # asked[r].order_no
        <3>1. payments'[o] = payments[o]
            BY <2>1, <2>4 DEF TypeOK, AccountsOK
        <3> QED
            BY <2>1, <2>2, <3>1, SettlesOn
    <2> QED
        BY <2>3, <2>4
<1>5. CASE ReceiveCallback(r)
    <2> DEFINE n == asked[r].order_no
    <2>1. Paying(o)' \subseteq Paying(o)
        <3>1. ~CallPayment(r)
            BY <1>5 DEF ReceiveCallback, CallPayment, Accepted, At
        <3> QED
            BY <1>2, <3>1
    <2>2. CASE UNCHANGED <<payments, settled>>
        BY <2>1, <2>2, SettlesOn
    <2>3. CASE /\ payments' = [payments EXCEPT ![n] = asked[r].status]
               /\ settled' = IF Paying(n) = {} THEN [settled EXCEPT ![n] = asked[r].status] ELSE settled
        <3>1. CASE o # n
            <4>1. payments'[o] = payments[o] /\ settled'[o] = settled[o]
                BY <2>3, <3>1 DEF TypeOK, AccountsOK
            <4> QED
                BY <2>1, <4>1, SettlesOn
        <3>2. CASE o = n /\ Paying(n) = {}
            <4>1. payments'[o] = settled'[o] /\ Paying(o)' = {}
                BY <2>1, <2>3, <3>2 DEF TypeOK, AccountsOK
            <4> QED
                BY <4>1 DEF Settles
        <3>3. CASE o = n /\ Paying(n) # {}
            <4>1. settled'[o] = Absent
                BY <2>3, <3>3 DEF Settles
            <4> QED
                BY <4>1 DEF Settles
        <3> QED
            BY <3>1, <3>2, <3>3
    <2> QED
        BY <1>5, <2>2, <2>3 DEF ReceiveCallback
<1>6. CASE ~CallPayment(r) /\ ~StorePending(r) /\ ~ReceiveCallback(r)
    <2>1. UNCHANGED accountVars => UNCHANGED <<payments, settled>>
        BY DEF accountVars, redisVars, historyVars
    <2>2. Register(r) \/ DeleteCode(r) \/ StoreToken(r) => UNCHANGED <<payments, settled>>
        BY DEF Register, DeleteCode, StoreToken, redisVars, historyVars
    <2>3. FindUser(r) \/ ReadCode(r) \/ FindToken(r) \/ AnswerMe(r) => UNCHANGED <<payments, settled>>
        BY <2>1 DEF FindUser, ReadCode, FindToken, AnswerMe
    <2>4. CallSms(r) \/ StoreCode(r) => UNCHANGED <<payments, settled>>
        BY DEF CallSms, StoreCode, redisVars, historyVars
    <2>5. UNCHANGED <<payments, settled>>
        BY <1>6, <2>1, <2>2, <2>3, <2>4 DEF Serve, Enter, TurnAway, AccountStep
    <2> QED
        BY <1>2, <1>6, <2>5, SettlesOn
<1> QED
    BY <1>3, <1>4, <1>5, <1>6

LEMMA PaymentsKeep ==
    ASSUME TypeOK, OrdersInv, PaymentsInv, [Next]_vars
    PROVE  PaymentsInv'
<1>1. (\A o \in OrderNos : Settles(o)) <=> PaymentsInv
    BY DEF PaymentsInv, SettledStays, Settles
<1>2. (\A o \in OrderNos : Settles(o))' <=> PaymentsInv'
    BY DEF PaymentsInv, SettledStays, Settles
<1>3. ASSUME UNCHANGED <<asked, stage, payments, settled>>, NEW o \in OrderNos PROVE Settles(o)'
    BY <1>1, <1>3 DEF Settles, Paying
<1>4. ASSUME NEW r \in Requests, Serve(r) PROVE PaymentsInv'
    BY <1>1, <1>2, <1>4, SettlesMove
<1>5. CASE ConfigureDatabase \/ EnsureSchema \/ ConfigureRedis \/ Bind
    <2>1. UNCHANGED <<asked, stage, payments, settled>>
        BY <1>5 DEF ConfigureDatabase, EnsureSchema, ConfigureRedis, Bind, Connect, Become,
                    reqVars, accountVars, redisVars, historyVars
    <2> QED
        BY <1>2, <1>3, <2>1
<1>6. CASE KeyExpires
    <2>1. UNCHANGED <<asked, stage>>
          /\ \A o \in OrderNos :
                \/ settled'[o] = Absent
                \/ payments'[o] = payments[o] /\ settled'[o] = settled[o]
        BY <1>6 DEF KeyExpires, Expire, reqVars, TypeOK, AccountsOK
    <2>2. ASSUME NEW o \in OrderNos PROVE Settles(o)'
        <3>1. Paying(o)' = Paying(o)
            BY <2>1 DEF Paying
        <3>2. CASE settled'[o] = Absent
            BY <3>2 DEF Settles
        <3>3. CASE payments'[o] = payments[o] /\ settled'[o] = settled[o]
            BY <1>1, <3>1, <3>3, SettlesOn
        <3> QED
            BY <2>1, <3>2, <3>3
    <2> QED
        BY <1>2, <2>2
<1>7. CASE Rest \/ UNCHANGED vars
    <2>1. UNCHANGED <<asked, stage, payments, settled>>
        BY <1>7 DEF Rest, vars, reqVars, accountVars, redisVars, historyVars
    <2> QED
        BY <1>2, <1>3, <2>1
<1> QED
    BY <1>4, <1>5, <1>6, <1>7 DEF Next

-----------------------------------------------------------------------------
(***************************************************************************)
(* The inductive invariant of the service.                                 *)
(***************************************************************************)

ServiceInv ==
    TypeOK /\ OrdersInv /\ PagesInv /\ LoginsInv /\ CodesInv /\ PaymentsInv

LEMMA InitTables ==
    ASSUME Init
    PROVE  TablesOK /\ PricingFollows
<1>1. PICK earlier \in EarlierOrders :
            /\ orders = [id \in Ids |-> IF earlier[id] = Absent THEN Absent ELSE RowOf(earlier[id])]
            /\ items = [id \in Ids |-> IF earlier[id] = Absent THEN Absent ELSE earlier[id].items]
    BY DEF Init
<1>2. ASSUME NEW id \in Ids, earlier[id] # Absent
      PROVE  /\ earlier[id] \in Orders
             /\ PricingStatus(earlier[id].items, earlier[id].coupon, earlier[id].tier) = 200
             /\ earlier[id].pricing = Pricing(earlier[id].items, earlier[id].coupon)
    BY <1>2, EarlierAssumption
<1>3. ASSUME NEW id \in Ids, earlier[id] # Absent
      PROVE  /\ orders[id] \in Rows /\ items[id] \in Baskets
             /\ orders[id] # Absent /\ items[id] # Absent
             /\ PricingStatus(items[id], orders[id].coupon, orders[id].tier) = 200
             /\ orders[id].pricing = Pricing(items[id], orders[id].coupon)
    <2>1. orders[id] = RowOf(earlier[id]) /\ items[id] = earlier[id].items
        BY <1>1, <1>3
    <2>2. RowOf(earlier[id]) \in Rows /\ earlier[id].items \in Baskets
        BY <1>2, <1>3, OrdersTyped
    <2>3. /\ RowOf(earlier[id]).coupon = earlier[id].coupon
          /\ RowOf(earlier[id]).tier = earlier[id].tier
          /\ RowOf(earlier[id]).pricing = earlier[id].pricing
        BY DEF RowOf
    <2>4. orders[id] # Absent /\ items[id] # Absent
        BY <2>1, <2>2, OrdersTyped
    <2> QED
        BY <1>2, <1>3, <2>1, <2>2, <2>3, <2>4
<1>4. ASSUME NEW id \in Ids, earlier[id] = Absent
      PROVE  orders[id] = Absent /\ items[id] = Absent
    BY <1>1, <1>4
<1>5. TablesOK
    <2>1. \A id \in Ids : /\ orders[id] \in Rows \cup {Absent} /\ items[id] \in Baskets \cup {Absent}
                          /\ orders[id] = Absent <=> items[id] = Absent
        BY <1>3, <1>4
    <2>2. orders = [id \in Ids |-> orders[id]] /\ items = [id \in Ids |-> items[id]]
        BY <1>1
    <2> HIDE <1>1
    <2> QED
        BY <2>1, <2>2 DEF TablesOK
<1>6. PricingFollows
    BY <1>3, <1>4 DEF PricingFollows, Stored
<1> QED
    BY <1>5, <1>6

LEMMA InitInv == Init => ServiceInv
<1> SUFFICES ASSUME Init PROVE ServiceInv
    OBVIOUS
<1>1. \A r \in Requests : /\ stage[r] = "idle" /\ asked[r] = Absent /\ seen[r] = Absent
                          /\ answer[r] = Absent /\ inserted[r] = Absent
    BY DEF Init, RequestsInit
<1>2. MainOK
    BY RetriesAssumption DEF Init, MainOK
<1>3. RequestsOK
    BY <1>1, StagesOfHandlers DEF Init, RequestsInit, RequestsOK, RequestOK, Stages
<1>4. AccountsOK
    BY DEF Init, AccountsOK
<1>5. OrdersInv
    BY <1>1, InitTables DEF OrdersInv, InsertOK, CommitOK, ReadOK, WriteOK, KeysDiffer
<1>6. PagesInv
    BY <1>1 DEF PagesInv, PageOK, MoreIsThere
<1>7. LoginsInv
    BY <1>1 DEF Init, LoginsInv, LoginOK, MeOK
<1>8. CodesInv
    <2>1. admitted = {}
        BY DEF Init
    <2>2. \A phone \in Phones : /\ AdmittedBy(phone) = {} /\ InHand(phone) = {}
                                /\ Waiting(phone) = 0 /\ sent[phone] = 0
        BY <1>1, <2>1 DEF Init, AdmittedBy, InHand, Waiting
    <2> QED
        BY <2>1, <2>2, FS_EmptySet DEF CodesInv
<1>9. PaymentsInv
    BY <1>1 DEF Init, PaymentsInv, SettledStays, Paying
<1> QED
    BY <1>2, <1>3, <1>4, <1>5, <1>6, <1>7, <1>8, <1>9, InitTables DEF ServiceInv, TypeOK

LEMMA StepInv == ServiceInv /\ [Next]_vars => ServiceInv'
<1> SUFFICES ASSUME ServiceInv, [Next]_vars PROVE ServiceInv'
    OBVIOUS
<1> USE DEF ServiceInv
<1>1. TypeOK'
    <2>1. RequestsOK'
        BY RequestsTyped DEF OrdersInv
    <2> QED
        BY <2>1, MainTyped, TablesGrow, AccountsTyped DEF TypeOK
<1> QED
    BY <1>1, OrdersKeep, PagesKeep, LoginsKeep, CodesKeep, PaymentsKeep DEF TypeOK

LEMMA ServiceIsInvariant == Spec => []ServiceInv
BY InitInv, StepInv, PTL DEF Spec

\* Every variable has its type: a handler is where its op has a stage, knows what
\* it has read there, and has a transaction open exactly before its commit.
THEOREM TypeCorrect == Spec => []TypeOK
BY ServiceIsInvariant, PTL DEF ServiceInv

\* Whichever updates of an order interleave (update_order_record), what is charged
\* for it belongs to its items, its coupon and its tier.
THEOREM ChargesFollow == Spec => []PricingFollows
<1>1. ServiceInv => PricingFollows
    BY DEF ServiceInv, OrdersInv
<1> QED
    BY <1>1, ServiceIsInvariant, PTL

\* find_orders never promises more orders than there are.
THEOREM PagesKeepTheirWord == Spec => []MoreIsThere
<1>1. ServiceInv => MoreIsThere
    BY DEF ServiceInv, PagesInv
<1> QED
    BY <1>1, ServiceIsInvariant, PTL

\* A code lets at most one login pass (consume_verification_code).
THEOREM CodesAreSpentOnce == Spec => []LoginsArePaid
<1>1. ServiceInv => LoginsArePaid
    <2> SUFFICES ASSUME ServiceInv, NEW phone \in Phones
                 PROVE  Cardinality(AdmittedBy(phone)) <= sent[phone]
        BY DEF LoginsArePaid
    <2>1. IsFiniteSet(AdmittedBy(phone)) /\ IsFiniteSet(InHand(phone))
        <3>1. AdmittedBy(phone) \subseteq admitted
            BY DEF AdmittedBy
        <3> QED
            BY <3>1, FS_Subset DEF ServiceInv, CodesInv
    <2>2. Cardinality(AdmittedBy(phone)) \in Nat /\ Cardinality(InHand(phone)) \in Nat
        BY <2>1, FS_CardinalityType
    <2>3. Cardinality(AdmittedBy(phone)) + Cardinality(InHand(phone)) + Waiting(phone) <= sent[phone]
        BY DEF ServiceInv, CodesInv
    <2>4. sent[phone] \in Nat /\ Waiting(phone) \in {0, 1}
        BY DEF ServiceInv, TypeOK, AccountsOK, Waiting
    <2> QED
        BY <2>2, <2>3, <2>4
<1> QED
    BY <1>1, ServiceIsInvariant, PTL

\* No token and no answer of get_me without a login that has the password and a code.
THEOREM TokensGoBackToLogins == Spec => []TokensAreEarned
<1>1. ServiceInv => TokensAreEarned
    BY DEF ServiceInv, LoginsInv, MeOK, Earned, TokensAreEarned
<1> QED
    BY <1>1, ServiceIsInvariant, PTL

\* The status that a callback has set when no create is under way stays
\* (receive_payment_status_callback, create_payment_via_provider).
THEOREM CallbacksStay == Spec => []SettledStays
<1>1. ServiceInv => SettledStays
    BY DEF ServiceInv, PaymentsInv
<1> QED
    BY <1>1, ServiceIsInvariant, PTL

-----------------------------------------------------------------------------
(***************************************************************************)
(* The order handlers are atomic: every step of the service is a step of   *)
(* AtomicOrders, or one that no client can tell from nothing.              *)
(***************************************************************************)

\* AtomicOrders prices as the service does.
LEMMA SamePricing ==
    /\ \A basket, coupon, tier :
            Atomic!PricingStatus(basket, coupon, tier) = PricingStatus(basket, coupon, tier)
    /\ \A basket, coupon : Atomic!Pricing(basket, coupon) = Pricing(basket, coupon)
    /\ \A order, p : /\ Atomic!UpdateStatus(order, p) = UpdateStatus(order, p)
                     /\ Atomic!Updated(order, p) = Updated(order, p)
    /\ \A p : Atomic!NothingGiven(p) = NothingGiven(p)
<1>1. \A s : Atomic!Total(s) = Total(s)
    BY DEF Atomic!Total, Total
<1>2. \A basket, coupon : Atomic!Pricing(basket, coupon) = Pricing(basket, coupon)
    BY <1>1 DEF Atomic!Pricing, Pricing, Atomic!Subtotal, Subtotal, Atomic!Discount, Discount,
                Atomic!ItemCount, ItemCount, Atomic!ShippingFee, ShippingFee
<1>3. \A basket, coupon, tier :
            Atomic!PricingStatus(basket, coupon, tier) = PricingStatus(basket, coupon, tier)
    BY <1>1, <1>2 DEF Atomic!PricingStatus, PricingStatus, Atomic!Orderable, Orderable,
                      Atomic!CouponApplies, CouponApplies, Atomic!Subtotal, Subtotal
<1>4. \A order, p : /\ Atomic!UpdateStatus(order, p) = UpdateStatus(order, p)
                    /\ Atomic!Updated(order, p) = Updated(order, p)
    BY <1>2, <1>3 DEF Atomic!UpdateStatus, UpdateStatus, Atomic!Updated, Updated,
                      Atomic!Given, Given, Atomic!Kept, Kept
<1>5. \A p : Atomic!NothingGiven(p) = NothingGiven(p)
    BY DEF Atomic!NothingGiven, NothingGiven, Atomic!Kept, Kept
<1> QED
    BY <1>2, <1>3, <1>4, <1>5

\* What a step of r decides, in terms of AtomicOrders.
Decides(r, status, body) ==
    /\ OrdersDecided[r] = Absent
    /\ OrdersDecided' = [OrdersDecided EXCEPT ![r] = [status |-> status, body |-> body]]
    /\ OrdersAnswered' \in {OrdersAnswered, OrdersAnswered \cup {r}}
    /\ OrdersAsked' = OrdersAsked /\ database' = database

LEMMA Rejecting ==
    ASSUME NEW r \in Requests, OrdersAsked[r] # Absent, NEW status, status # 200,
           status \in Atomic!Rejections(OrdersAsked[r]) \cup Atomic!Refusals(OrdersAsked[r]),
           Decides(r, status, Absent), WholeOrders' = WholeOrders
    PROVE  Atomic!Next
<1>1. Atomic!Decide(r, Atomic!Says(status, Absent))
    BY DEF Decides, Atomic!Decide, Atomic!Says
<1>2. Atomic!Reject(r)
    BY <1>1 DEF Atomic!Reject
<1> QED
    BY <1>2 DEF Atomic!Next

LEMMA Delivering ==
    ASSUME NEW r \in Requests, OrdersDecided[r] # Absent, r \notin OrdersAnswered,
           \/ OrdersDecided' = OrdersDecided
           \/ OrdersDecided' = [OrdersDecided EXCEPT ![r] = [status |-> 500, body |-> Absent]],
           OrdersAnswered' = OrdersAnswered \cup {r},
           UNCHANGED <<WholeOrders, database, OrdersAsked>>
    PROVE  Atomic!Next
<1>1. Atomic!Deliver(r)
    BY DEF Atomic!Deliver, Atomic!Says
<1> QED
    BY <1>1 DEF Atomic!Next

LEMMA Deciding ==
    ASSUME NEW r \in Requests, NEW status, NEW body, Decides(r, status, body)
    PROVE  Atomic!Decide(r, Atomic!Says(status, body)) \/ OrdersAsked[r] = Absent
BY DEF Decides, Atomic!Decide, Atomic!Says

\* Request r takes effect on the order with this id, which becomes `order`.
Creates(r, p, id, order) ==
    /\ OrdersAsked[r] = p /\ p # Absent /\ database /\ p.op = "create" /\ p.valid
    /\ PricingStatus(p.items, p.coupon, p.tier) = 200
    /\ id \in Ids /\ WholeOrders[id] = Absent /\ order = NewOrder(p)
    /\ WholeOrders' = [WholeOrders EXCEPT ![id] = order]
    /\ Decides(r, 201, order) \/ Decides(r, 500, Absent)

Updates(r, p, id, order) ==
    /\ OrdersAsked[r] = p /\ p # Absent /\ database /\ p.op = "update" /\ p.valid
    /\ id \in Ids /\ p.id = id /\ WholeOrders[id] # Absent
    /\ p.version = WholeOrders[id].version /\ UpdateStatus(WholeOrders[id], p) = 200
    /\ order = Updated(WholeOrders[id], p)
    /\ WholeOrders' = [WholeOrders EXCEPT ![id] = order]
    /\ Decides(r, 200, order) \/ Decides(r, 500, Absent)

LEMMA Creating ==
    ASSUME NEW r \in Requests, NEW p, NEW id, NEW order, Creates(r, p, id, order)
    PROVE  Atomic!Next
<1> USE DEF Creates
<1>1. Atomic!Ordered(p) = order
    BY SamePricing DEF Atomic!Ordered, NewOrder
<1>2. Atomic!Orderly(p)
    BY SamePricing DEF Atomic!Orderly
<1>3. WholeOrders'[id] = order
    BY DEF WholeOrders
<1>4. Atomic!Effect(p, id)
    BY <1>1, <1>2 DEF Atomic!Effect
<1>5. \/ Atomic!Decide(r, Atomic!Says(201, WholeOrders'[id]))
      \/ Atomic!Decide(r, Atomic!Says(500, Absent))
    BY <1>3, Deciding
<1>6. Atomic!Succeed(r, id)
    BY <1>4, <1>5 DEF Atomic!Succeed, Atomic!Success
<1> QED
    BY <1>6 DEF Atomic!Next

LEMMA Updating ==
    ASSUME NEW r \in Requests, NEW p, NEW id, NEW order, Updates(r, p, id, order)
    PROVE  Atomic!Next
<1> USE DEF Updates
<1>1. Atomic!Writes(id, p)
    BY SamePricing DEF Atomic!Writes
<1>2. WholeOrders'[id] = order
    BY DEF WholeOrders
<1>3. Atomic!Effect(p, id)
    BY <1>1, SamePricing DEF Atomic!Effect
<1>4. \/ Atomic!Decide(r, Atomic!Says(200, WholeOrders'[id]))
      \/ Atomic!Decide(r, Atomic!Says(500, Absent))
    BY <1>2, Deciding
<1>5. Atomic!Succeed(r, id)
    BY <1>3, <1>4 DEF Atomic!Succeed, Atomic!Success
<1> QED
    BY <1>5 DEF Atomic!Next

LEMMA Undecided ==
    ASSUME TypeOK, NEW r \in Requests
    PROVE  /\ OfOrders(r) => asked[r] # Absent /\ OrdersAsked[r] = asked[r]
           /\ stage[r] \notin {"answered", "items"} => OrdersDecided[r] = Absent
           /\ OfOrders(r) => (r \in OrdersAnswered <=> stage[r] = "answered")
<1>1. Absent \notin AtomicPayloads
    BY AbsentAssumption DEF AtomicPayloads
<1> QED
    BY <1>1 DEF OfOrders, OrdersAsked, OrdersDecided, OrdersAnswered, Determined

\* A request that a step leaves alone has decided what it had decided.
LEMMA OthersDecided ==
    ASSUME TypeOK, OrdersInv, [Next]_vars, NEW q \in Requests, Same(q)
    PROVE  /\ OrdersAsked'[q] = OrdersAsked[q] /\ OrdersDecided'[q] = OrdersDecided[q]
           /\ q \in OrdersAnswered' <=> q \in OrdersAnswered
<1>1. OfOrders(q)' = OfOrders(q)
    BY DEF OfOrders, Same
<1>2. ASSUME OfOrders(q) PROVE Determined(q)' = Determined(q)
    <2>1. CASE stage[q] # "items"
        BY <2>1 DEF Determined, Same
    <2>2. CASE stage[q] = "items"
        <3>1. asked[q].op \in {"get", "update"} /\ asked[q].valid /\ asked[q] # Absent
            BY <2>2, Asking, StageTable DEF TypeOK
        <3>2. asked[q].id \in Ids
            BY <3>1, FieldsOfOrders DEF TypeOK
        <3>3. orders[asked[q].id] # Absent
            BY <2>2 DEF OrdersInv, ReadOK
        <3>4. items'[asked[q].id] = items[asked[q].id]
            BY <3>2, <3>3, TablesGrow DEF Grow
        <3> QED
            BY <3>4 DEF Determined, Same
    <2> QED
        BY <2>1, <2>2
<1> QED
    BY <1>1, <1>2 DEF OrdersAsked, OrdersDecided, OrdersAnswered, Same

LEMMA Acting ==
    ASSUME TypeOK, OrdersInv, [Next]_vars, NEW r \in Requests, Serve(r), ~Enter(r)
    PROVE  /\ OrdersAsked' = OrdersAsked /\ database' = database
           /\ OrdersDecided' = [OrdersDecided EXCEPT ![r] = OrdersDecided'[r]]
           /\ OrdersDecided'[r] = IF OfOrders(r) THEN Determined(r)' ELSE Absent
           /\ OrdersAnswered' = IF OfOrders(r) /\ stage'[r] = "answered"
                                THEN OrdersAnswered \cup {r} ELSE OrdersAnswered
           /\ r \notin OrdersAnswered /\ stage[r] \notin {"idle", "answered"}
           /\ OfOrders(r)' = OfOrders(r)
<1>1. asked' = asked /\ database' = database
    BY AskedStays DEF Serve, mainVars
<1>2. stage[r] \notin {"idle", "answered"}
    <2>1. TurnAway(r) => stage[r] = "asked"
        BY TurnedAway
    <2> QED
        BY <2>1, StepShapes DEF Serve, Shaped, OrdersInv
<1>3. \A q \in Requests : q # r =>
            /\ OrdersDecided'[q] = OrdersDecided[q]
            /\ q \in OrdersAnswered' <=> q \in OrdersAnswered
    BY Alone, OthersDecided
<1>4. OrdersAsked' = OrdersAsked
    BY <1>1 DEF OrdersAsked, OfOrders
<1>5. OrdersDecided' = [OrdersDecided EXCEPT ![r] = OrdersDecided'[r]]
    <2>1. /\ OrdersDecided = [q \in Requests |-> OrdersDecided[q]]
          /\ OrdersDecided' = [q \in Requests |-> OrdersDecided'[q]]
        BY DEF OrdersDecided
    <2> QED
        BY <1>3, <2>1
<1>6. OfOrders(r)' = OfOrders(r)
    BY <1>1 DEF OfOrders
<1>7. OrdersDecided'[r] = IF OfOrders(r) THEN Determined(r)' ELSE Absent
    BY <1>6 DEF OrdersDecided
<1>8. r \notin OrdersAnswered /\ (r \in OrdersAnswered' <=> OfOrders(r) /\ stage'[r] = "answered")
    BY <1>2, <1>6 DEF OrdersAnswered
<1>9. OrdersAnswered \subseteq Requests /\ OrdersAnswered' \subseteq Requests
    BY DEF OrdersAnswered
<1> QED
    BY <1>1, <1>2, <1>3, <1>4, <1>5, <1>6, <1>7, <1>8, <1>9

LEMMA Replied ==
    ASSUME TypeOK, OrdersInv, [Next]_vars, NEW r \in Requests, Serve(r), ~Enter(r), OfOrders(r),
           NEW status, NEW body, Reply(r, status, body)
    PROVE  /\ OrdersAsked' = OrdersAsked /\ database' = database
           /\ OrdersDecided' = [OrdersDecided EXCEPT ![r] = [status |-> status, body |-> body]]
           /\ OrdersAnswered' = OrdersAnswered \cup {r} /\ r \notin OrdersAnswered
           /\ OrdersDecided[r] = Absent => Decides(r, status, body)
<1>1. stage'[r] = "answered" /\ answer'[r] = [status |-> status, body |-> body]
    BY DEF Reply, TypeOK, RequestsOK
<1>2. Determined(r)' = [status |-> status, body |-> body]
    BY <1>1 DEF Determined
<1> QED
    BY <1>1, <1>2, Acting DEF Decides

\* A handler goes on and what it answers is as open, or as determined, as it was.
LEMMA GoesOn ==
    ASSUME TypeOK, OrdersInv, [Next]_vars, NEW r \in Requests, Serve(r), ~Enter(r),
           stage'[r] # "answered" \/ ~OfOrders(r), OrdersDecided'[r] = OrdersDecided[r],
           WholeOrders' = WholeOrders
    PROVE  UNCHANGED Atomic!vars
<1>1. OrdersDecided' = OrdersDecided
    BY Acting DEF OrdersDecided
<1> QED
    BY <1>1, Acting DEF Atomic!vars

LEMMA Refuses ==
    ASSUME TypeOK, OrdersInv, [Next]_vars, NEW r \in Requests, Serve(r), ~Enter(r), OfOrders(r),
           OrdersDecided[r] = Absent, UNCHANGED <<orders, items>>, NEW status, Refuse(r, status),
           status # 200, status \in Atomic!Rejections(asked[r]) \cup Atomic!Refusals(asked[r])
    PROVE  Atomic!Next
<1>1. Decides(r, status, Absent)
    BY Replied DEF Refuse
<1>2. OrdersAsked[r] = asked[r] /\ OrdersAsked[r] # Absent
    BY Undecided
<1>3. WholeOrders' = WholeOrders
    BY DEF WholeOrders
<1> QED
    BY <1>1, <1>2, <1>3, Rejecting

LEMMA Fails ==
    ASSUME TypeOK, OrdersInv, [Next]_vars, NEW r \in Requests, Serve(r), ~Enter(r), OfOrders(r),
           OrdersDecided[r] = Absent, UNCHANGED <<orders, items>>, Breaks(r)
    PROVE  Atomic!Next
<1>1. 500 \in Atomic!Refusals(asked[r]) /\ 500 # 200
    BY DEF Atomic!Refusals
<1> QED
    BY <1>1, Refuses DEF Breaks

\* The rows of the tables, seen as whole orders.
LEMMA Wholes ==
    ASSUME TypeOK, NEW id \in Ids
    PROVE  /\ WholeOrders[id] = IF orders[id] = Absent THEN Absent ELSE Whole(orders[id], items[id])
           /\ WholeOrders[id] = Absent <=> orders[id] = Absent
           /\ orders[id] # Absent =>
                /\ orders[id] \in Rows /\ items[id] \in Baskets
                /\ WholeOrders[id] \in Orders
                /\ WholeOrders[id].version = orders[id].version
                /\ WholeOrders[id].items = items[id]
<1>1. WholeOrders[id] = IF orders[id] = Absent THEN Absent ELSE Whole(orders[id], items[id])
    BY DEF WholeOrders
<1>2. ASSUME orders[id] # Absent
      PROVE  orders[id] \in Rows /\ items[id] \in Baskets
    BY <1>2 DEF TypeOK, TablesOK
<1>3. ASSUME orders[id] # Absent
      PROVE  /\ WholeOrders[id] \in Orders /\ WholeOrders[id] # Absent
             /\ WholeOrders[id].version = orders[id].version
             /\ WholeOrders[id].items = items[id]
    <2>1. Whole(orders[id], items[id]) \in Orders
        BY <1>2, <1>3, OrdersTyped
    <2>2. Whole(orders[id], items[id]) # Absent
        BY <2>1, OrdersTyped
    <2> QED
        BY <1>1, <1>3, <2>1, <2>2 DEF Whole
<1> QED
    BY <1>1, <1>2, <1>3

LEMMA OrderRequests ==
    ASSUME TypeOK, NEW r \in Requests, stage[r] # "idle", asked[r].op \in {"create", "get", "update"}
    PROVE  OfOrders(r)
<1>1. asked[r] \in OrderPayloads
    BY Asking, OpsOfPayloads DEF TypeOK, OrderOps
<1> QED
    BY <1>1 DEF OfOrders, AtomicPayloads

LEMMA AtomicTurnAway ==
    ASSUME TypeOK, OrdersInv, [Next]_vars, NEW r \in Requests, Serve(r), TurnAway(r), OfOrders(r)
    PROVE  Atomic!Next
<1>1. stage[r] = "asked" /\ UNCHANGED <<orders, items>>
    BY DEF TurnAway, Unavailable, BadRequest, orderVars
<1>2. ~Enter(r) /\ OrdersDecided[r] = Absent
    BY <1>1, Undecided DEF Enter, Ask
<1>3. CASE Unavailable(r)
    <2>1. asked[r].op \in {"create", "get", "update"}
        BY PayloadsAssumption DEF OfOrders, AtomicPayloads, OrderOps
    <2>2. ~database /\ asked[r].op # "create"
        BY <1>3, <2>1 DEF Unavailable, Available, Needed
    <2>3. 503 \in Atomic!Refusals(asked[r]) /\ 503 # 200
        BY <2>2 DEF Atomic!Refusals
    <2> QED
        BY <1>1, <1>2, <1>3, <2>3, Refuses DEF Unavailable
<1>4. CASE BadRequest(r)
    <2>1. 400 \in Atomic!Refusals(asked[r]) /\ 400 # 200
        BY <1>4 DEF Atomic!Refusals, BadRequest
    <2> QED
        BY <1>1, <1>2, <1>4, <2>1, Refuses DEF BadRequest
<1> QED
    BY <1>3, <1>4 DEF TurnAway

LEMMA AtomicCreate ==
    ASSUME TypeOK, OrdersInv, [Next]_vars, NEW r \in Requests, Serve(r), ~Enter(r),
           CreateOrder(r) \/ Insert(r) \/ InsertFails(r) \/ Commit(r)
    PROVE  Atomic!Next \/ UNCHANGED Atomic!vars
<1> DEFINE p == asked[r]
<1>1. p.op = "create" /\ stage[r] \in {"asked", "insert", "commit"}
    <2>1. CreateOrder(r) => p.op = "create" /\ stage[r] = "asked"
        BY DEF CreateOrder, Accepted, At
    <2>2. Insert(r) \/ InsertFails(r) => p.op = "create" /\ stage[r] = "insert"
        BY DEF Insert, InsertFails, At
    <2>3. Commit(r) => p.op = "create" /\ stage[r] = "commit"
        BY DEF Commit, At
    <2> QED
        BY <2>1, <2>2, <2>3
<1>2. OfOrders(r) /\ OrdersDecided[r] = Absent
    BY <1>1, OrderRequests, Undecided
<1>3. p # Absent /\ OrdersAsked[r] = p
    BY <1>2, Undecided
<1>4. ASSUME NEW next \in {"insert", "commit"}, NEW known, GoTo(r, next, known),
             UNCHANGED <<orders, items>>
      PROVE  UNCHANGED Atomic!vars
    <2>1. stage'[r] = next
        BY <1>4, NextStage DEF TypeOK
    <2>2. OrdersDecided'[r] = Absent
        BY <2>1 DEF OrdersDecided, Determined
    <2>3. WholeOrders' = WholeOrders
        BY <1>4 DEF WholeOrders
    <2> QED
        BY <1>2, <2>1, <2>2, <2>3, GoesOn
<1>5. CASE CreateOrder(r)
    <2> DEFINE status == PricingStatus(p.items, p.coupon, p.tier)
    <2>1. p.valid /\ UNCHANGED <<orders, items>>
        BY <1>5 DEF CreateOrder, Accepted, orderVars
    <2>2. CASE status # 200 /\ Refuse(r, status)
        <3>1. status \in Atomic!Rejections(p)
            BY <1>1, SamePricing DEF Atomic!Rejections
        <3> QED
            BY <1>2, <2>1, <2>2, <3>1, Refuses
    <2>3. CASE status = 200 /\ ~database /\ Reply(r, 201, NewOrder(p))
        <3>1. Decides(r, 201, NewOrder(p))
            BY <1>2, <2>3, Replied
        <3>2. Atomic!Ordered(p) = NewOrder(p) /\ Atomic!Orderly(p)
            BY <2>1, <2>3, SamePricing DEF Atomic!Ordered, Atomic!Orderly, NewOrder
        <3>3. Atomic!Decide(r, Atomic!Says(201, Atomic!Ordered(p)))
            <4>1. \A body : Decides(r, 201, body) =>
                        Atomic!Decide(r, Atomic!Says(201, body))
                BY <1>3, Deciding
            <4> QED
                BY <3>1, <3>2, <4>1
        <3>4. WholeOrders' = WholeOrders
            BY <2>1 DEF WholeOrders
        <3>5. Atomic!Pretend(r)
            BY <1>1, <1>3, <2>3, <3>2, <3>3, <3>4 DEF Atomic!Pretend
        <3> QED
            BY <3>5 DEF Atomic!Next
    <2>4. \A id \in Ids : GoTo(r, "insert", [id |-> id, order |-> NewOrder(p)])
                => UNCHANGED Atomic!vars
        BY <1>4, <2>1
    <2> QED
        BY <1>5, <2>2, <2>3, <2>4 DEF CreateOrder
<1>6. CASE Insert(r)
    <2>1. stage[r] = "insert" /\ UNCHANGED <<orders, items>>
        BY <1>6 DEF Insert, At
    <2>2. seen[r].id \in Ids
        <3>1. seen[r] \in NewOrders
            BY <2>1, Asking, StageTable DEF TypeOK
        <3> QED
            BY <3>1 DEF NewOrders
    <2>3. CASE orders[seen[r].id] # Absent /\ Refuse(r, 409)
        <3>1. WholeOrders[seen[r].id] # Absent
            BY <2>2, <2>3, Wholes
        <3>2. 409 \in Atomic!Rejections(p) /\ 409 # 200
            BY <1>1, <2>2, <3>1 DEF Atomic!Rejections
        <3> QED
            BY <1>2, <2>1, <2>3, <3>2, Refuses
    <2> QED
        BY <1>4, <1>6, <2>1, <2>3 DEF Insert
<1>7. CASE InsertFails(r)
    BY <1>2, <1>7, Fails DEF InsertFails, orderVars
<1>8. CASE Commit(r)
    <2> DEFINE id == inserted[r].id
               order == inserted[r].order
    <2>1. /\ p.valid /\ database /\ id \in Ids /\ order \in Orders /\ order = NewOrder(p)
          /\ orders[id] = Absent /\ items[id] = Absent
          /\ PricingStatus(p.items, p.coupon, p.tier) = 200
        BY <1>8, CommitWrites
    <2>2. CASE UNCHANGED <<orders, items>> /\ Breaks(r)
        BY <1>2, <2>2, Fails
    <2>3. CASE /\ orders' = [orders EXCEPT ![id] = RowOf(order)]
               /\ items' = [items EXCEPT ![id] = order.items]
               /\ Reply(r, 201, order) \/ Breaks(r)
        <3>1. \/ Decides(r, 201, order)
              \/ Decides(r, 500, Absent)
            BY <1>2, <2>3, Replied DEF Breaks, Refuse
        <3>2. RowOf(order) # Absent /\ Whole(RowOf(order), order.items) = order
            BY <2>1, OrdersTyped
        <3> HIDE DEF id, order
        <3>3. /\ orders'[id] = RowOf(order) /\ items'[id] = order.items
              /\ \A other \in Ids : other # id =>
                    orders'[other] = orders[other] /\ items'[other] = items[other]
            BY <2>1, <2>3 DEF TypeOK, TablesOK
        <3>4. WholeOrders' = [WholeOrders EXCEPT ![id] = order]
            <4>1. WholeOrders'[id] = order
                BY <2>1, <3>2, <3>3 DEF WholeOrders
            <4>2. \A other \in Ids : other # id => WholeOrders'[other] = WholeOrders[other]
                BY <3>3 DEF WholeOrders
            <4>3. /\ WholeOrders = [other \in Ids |-> WholeOrders[other]]
                  /\ WholeOrders' = [other \in Ids |-> WholeOrders'[other]]
                BY DEF WholeOrders
            <4> QED
                BY <2>1, <4>1, <4>2, <4>3
        <3>5. WholeOrders[id] = Absent
            BY <2>1, Wholes
        <3>6. order = NewOrder(p) /\ database /\ p.valid
              /\ PricingStatus(p.items, p.coupon, p.tier) = 200
            BY <2>1
        <3> HIDE DEF p
        <3> QED
            <4>1. Creates(r, p, id, order)
                BY <1>1, <1>3, <2>1, <3>1, <3>4, <3>5, <3>6 DEF Creates
            <4> QED
                BY <4>1, Creating
    <2> QED
        BY <1>8, <2>2, <2>3 DEF Commit
<1> QED
    BY <1>5, <1>6, <1>7, <1>8

\* A handler goes on with its answer determined.
LEMMA Determines ==
    ASSUME TypeOK, OrdersInv, [Next]_vars, NEW r \in Requests, Serve(r), ~Enter(r), OfOrders(r),
           OrdersDecided[r] = Absent, stage'[r] # "answered", NEW status, NEW body,
           Determined(r)' = [status |-> status, body |-> body]
    PROVE  Decides(r, status, body)
BY Acting DEF Decides

\* What is determined is there.
LEMMA Settled ==
    ASSUME NEW status \in Nat, NEW body \in Orders \cup {Absent}
    PROVE  [status |-> status, body |-> body] # Absent
<1>1. [status |-> status, body |-> body] \in Answers("get")
    BY BodyTable DEF Answers
<1>2. Absent \notin Answers("get")
    BY AbsentAssumption DEF OrderOps
<1> QED
    BY <1>1, <1>2

LEMMA AtomicSelect ==
    ASSUME TypeOK, OrdersInv, [Next]_vars, NEW r \in Requests, Serve(r), ~Enter(r), SelectOrder(r)
    PROVE  Atomic!Next \/ UNCHANGED Atomic!vars
<1> DEFINE p == asked[r]
           id == p.id
           row == orders[id]
           order == Whole(row, items[id])
<1>1. stage[r] = "select" /\ UNCHANGED <<orders, items>>
    BY DEF SelectOrder, orderVars
<1>2. p # Absent /\ p.valid /\ Available(p.op) /\ p.op \in {"get", "update"}
    BY <1>1, Asking, StageTable DEF TypeOK
<1>3. /\ OfOrders(r) /\ OrdersDecided[r] = Absent /\ OrdersAsked[r] = p /\ database /\ id \in Ids
    <2>1. OfOrders(r)
        BY <1>1, <1>2, OrderRequests
    <2>2. database /\ id \in Ids
        BY <1>2, FieldsOfOrders DEF Available, Needed, TypeOK
    <2> QED
        BY <1>1, <2>1, <2>2, Undecided
<1>4. WholeOrders' = WholeOrders
    BY <1>1 DEF WholeOrders
<1>5. CASE row = Absent /\ Refuse(r, 404)
    <2>1. WholeOrders[id] = Absent
        BY <1>3, <1>5, Wholes
    <2>2. 404 \in Atomic!Rejections(p) /\ 404 # 200
        BY <1>2, <2>1 DEF Atomic!Rejections
    <2> QED
        BY <1>1, <1>3, <1>5, <2>2, Refuses
<1>6. CASE Breaks(r)
    BY <1>1, <1>3, <1>6, Fails
<1>7. CASE row # Absent /\ GoTo(r, "items", row)
    <2>1. stage'[r] = "items" /\ seen'[r] = row /\ asked' = asked
        BY <1>7 DEF GoTo, TypeOK, RequestsOK
    <2>2. /\ WholeOrders[id] = order /\ order \in Orders /\ order # Absent
          /\ order.version = row.version
        BY <1>3, <1>7, Wholes, OrdersTyped
    <2>3. Whole(seen'[r], items'[asked'[r].id]) = order
        BY <1>1, <2>1
    <2> HIDE DEF order, row, id, p
    <2>4. p.op = "get" => Determined(r)' = [status |-> 200, body |-> order]
        BY <2>1, <2>3 DEF Determined, p
    <2>5. p.op = "update" /\ p.version # order.version =>
                Determined(r)' = [status |-> 409, body |-> Absent]
        BY <2>1, <2>3 DEF Determined, p
    <2>6. p.op = "update" /\ p.version = order.version /\ UpdateStatus(order, p) # 200 =>
                Determined(r)' = [status |-> UpdateStatus(order, p), body |-> Absent]
        BY <2>1, <2>3 DEF Determined, p
    <2>7. p.op = "update" /\ p.version = order.version /\ UpdateStatus(order, p) = 200 =>
                Determined(r)' = Absent
        BY <2>1, <2>3 DEF Determined, p
    <2>8. CASE p.op = "get"
        <3>1. Decides(r, 200, order)
            BY <1>3, <2>1, <2>4, <2>8, Determines
        <3>2. Atomic!Decide(r, Atomic!Says(200, WholeOrders[id]))
            BY <1>2, <1>3, <2>2, <3>1, Deciding DEF p
        <3>3. Atomic!Find(r)
            BY <1>2, <1>3, <1>4, <2>2, <2>8, <3>2 DEF Atomic!Find, p, id
        <3> QED
            BY <3>3 DEF Atomic!Next
    <2>9. CASE p.op = "update" /\ p.version # order.version
        <3>1. Decides(r, 409, Absent)
            BY <1>3, <2>1, <2>5, <2>9, Determines
        <3>2. 409 \in Atomic!Rejections(p) /\ 409 # 200
            BY <2>2, <2>9 DEF Atomic!Rejections, id
        <3> QED
            BY <1>2, <1>3, <1>4, <3>1, <3>2, Rejecting DEF p
    <2>10. CASE p.op = "update" /\ p.version = order.version /\ UpdateStatus(order, p) # 200
        <3>1. Decides(r, UpdateStatus(order, p), Absent)
            BY <1>3, <2>1, <2>6, <2>10, Determines
        <3>2. UpdateStatus(order, p) \in Atomic!Rejections(p)
            BY <2>2, <2>10, SamePricing DEF Atomic!Rejections, id
        <3> QED
            BY <1>2, <1>3, <1>4, <2>10, <3>1, <3>2, Rejecting DEF p
    <2>11. CASE p.op = "update" /\ p.version = order.version /\ UpdateStatus(order, p) = 200
        <3>1. OrdersDecided'[r] = Absent
            BY <1>3, <2>7, <2>11, Acting
        <3> QED
            BY <1>3, <1>4, <2>1, <3>1, GoesOn
    <2> QED
        BY <1>2, <2>8, <2>9, <2>10, <2>11 DEF p
<1> QED
    BY <1>5, <1>6, <1>7 DEF SelectOrder

LEMMA AtomicRead ==
    ASSUME TypeOK, OrdersInv, [Next]_vars, NEW r \in Requests, Serve(r), ~Enter(r),
           GetOrder(r) \/ UpdateOrder(r) \/ AnswerGet(r)
    PROVE  Atomic!Next \/ UNCHANGED Atomic!vars
<1> DEFINE p == asked[r]
<1>1. UNCHANGED <<orders, items>>
    BY DEF GetOrder, UpdateOrder, AnswerGet, orderVars
<1>2. p.op \in {"get", "update"} /\ stage[r] \in {"asked", "items"}
    BY DEF GetOrder, UpdateOrder, AnswerGet, Accepted, At
<1>3. OfOrders(r) /\ OrdersAsked[r] = p /\ p # Absent /\ r \notin OrdersAnswered
    BY <1>2, OrderRequests, Undecided
<1>4. WholeOrders' = WholeOrders
    BY <1>1 DEF WholeOrders
<1>5. ASSUME stage[r] = "asked", GoTo(r, "select", Absent)
      PROVE  UNCHANGED Atomic!vars
    <2>1. stage'[r] = "select" /\ OrdersDecided[r] = Absent
        BY <1>5, Undecided, NextStage DEF TypeOK
    <2>2. OrdersDecided'[r] = Absent
        BY <2>1 DEF OrdersDecided, Determined
    <2> QED
        BY <1>4, <2>1, <2>2, GoesOn
<1>6. CASE GetOrder(r)
    BY <1>5, <1>6 DEF GetOrder, Accepted, At
<1>7. CASE UpdateOrder(r)
    <2>1. stage[r] = "asked" /\ p.op = "update"
        BY <1>7 DEF UpdateOrder, Accepted, At
    <2>2. CASE NothingGiven(p) /\ Refuse(r, 400)
        <3>1. 400 \in Atomic!Refusals(p) /\ 400 # 200
            BY <2>1, <2>2, SamePricing DEF Atomic!Refusals
        <3>2. OrdersDecided[r] = Absent
            BY <2>1, Undecided
        <3> QED
            BY <1>1, <1>3, <2>2, <3>1, <3>2, Refuses
    <2> QED
        BY <1>5, <1>7, <2>1, <2>2 DEF UpdateOrder
<1>8. CASE AnswerGet(r)
    <2> DEFINE order == Whole(seen[r], items[p.id])
    <2>1. stage[r] = "items" /\ p.op = "get"
        BY <1>8 DEF AnswerGet, At
    <2>2. order \in Orders
        <3>1. p.valid /\ seen[r] \in Rows /\ p.id \in Ids
            BY <1>3, <2>1, Asking, StageTable, FieldsOfOrders DEF TypeOK
        <3>2. items[p.id] \in Baskets
            BY <2>1, <3>1 DEF TypeOK, TablesOK, OrdersInv, ReadOK
        <3> QED
            BY <3>1, <3>2, OrdersTyped
    <2>3. OrdersDecided[r] = [status |-> 200, body |-> order]
        BY <1>3, <2>1 DEF OrdersDecided, Determined
    <2>4. OrdersDecided[r] # Absent
        BY <2>2, <2>3, Settled, 200 \in Nat
    <2>5. CASE Reply(r, 200, order)
        <3>1. OrdersDecided' = OrdersDecided
            <4> DEFINE reply == [status |-> 200, body |-> order]
            <4>1. OrdersDecided' = [OrdersDecided EXCEPT ![r] = reply]
                BY <1>3, <2>5, Replied
            <4>2. OrdersDecided = [q \in Requests |-> OrdersDecided[q]] /\ OrdersDecided[r] = reply
                BY <2>3 DEF OrdersDecided
            <4> HIDE DEF reply
            <4> QED
                BY <4>1, <4>2
        <3> QED
            BY <1>3, <1>4, <2>4, <2>5, <3>1, Replied, Delivering
    <2>6. CASE Breaks(r)
        BY <1>3, <1>4, <2>4, <2>6, Replied, Delivering DEF Breaks, Refuse
    <2> QED
        BY <1>8, <2>5, <2>6 DEF AnswerGet
<1> QED
    BY <1>6, <1>7, <1>8

LEMMA AtomicPrepare ==
    ASSUME TypeOK, OrdersInv, [Next]_vars, NEW r \in Requests, Serve(r), ~Enter(r), PrepareUpdate(r)
    PROVE  Atomic!Next \/ UNCHANGED Atomic!vars
<1> DEFINE p == asked[r]
           current == Whole(seen[r], items[p.id])
           status == UpdateStatus(current, p)
<1>1. stage[r] = "items" /\ p.op = "update" /\ UNCHANGED <<orders, items>>
    BY DEF PrepareUpdate, At, orderVars
<1>2. OfOrders(r) /\ OrdersAsked[r] = p /\ p # Absent /\ r \notin OrdersAnswered
    BY <1>1, OrderRequests, Undecided
<1>3. WholeOrders' = WholeOrders
    BY <1>1 DEF WholeOrders
<1>4. status \in Nat
    <2>1. p.valid /\ seen[r] \in Rows /\ p.id \in Ids /\ p \in OrderPayloads
        BY <1>1, <1>2, Asking, StageTable, FieldsOfOrders, OpsOfPayloads DEF TypeOK, OrderOps
    <2>2. items[p.id] \in Baskets
        BY <1>1, <2>1 DEF TypeOK, TablesOK, OrdersInv, ReadOK
    <2>3. current \in Orders
        BY <2>1, <2>2, OrdersTyped
    <2> QED
        BY <1>1, <2>1, <2>3, UpdatesTyped
<1>5. OrdersDecided[r] =
        IF p.version # current.version THEN [status |-> 409, body |-> Absent]
        ELSE IF status # 200 THEN [status |-> status, body |-> Absent] ELSE Absent
    BY <1>1, <1>2 DEF OrdersDecided, Determined
<1> HIDE DEF status
\* A refusal was determined.
<1>6. ASSUME NEW code \in Nat, Refuse(r, code),
             OrdersDecided[r] = [status |-> code, body |-> Absent]
      PROVE  Atomic!Next
    <2>1. OrdersDecided[r] # Absent
        BY <1>6, Settled
    <2>2. OrdersDecided' = OrdersDecided
        <3> DEFINE reply == [status |-> code, body |-> Absent]
        <3>1. OrdersDecided' = [OrdersDecided EXCEPT ![r] = reply]
            BY <1>2, <1>6, Replied DEF Refuse
        <3>2. OrdersDecided = [q \in Requests |-> OrdersDecided[q]] /\ OrdersDecided[r] = reply
            BY <1>6 DEF OrdersDecided
        <3> HIDE DEF reply
        <3> QED
            BY <3>1, <3>2
    <2> QED
        BY <1>2, <1>3, <1>6, <2>1, <2>2, Replied, Delivering DEF Refuse
<1>7. CASE p.version # current.version /\ Refuse(r, 409)
    BY <1>5, <1>6, <1>7, 409 \in Nat
<1>8. CASE p.version = current.version /\ status # 200 /\ Refuse(r, status)
    BY <1>4, <1>5, <1>6, <1>8
<1>9. CASE /\ p.version = current.version /\ status = 200
           /\ GoTo(r, "write", Updated(current, p))
    <2>1. OrdersDecided[r] = Absent
        BY <1>5, <1>9
    <2>2. stage'[r] = "write"
        BY <1>9, NextStage DEF TypeOK
    <2>3. OrdersDecided'[r] = Absent
        BY <2>2 DEF OrdersDecided, Determined
    <2> QED
        BY <1>3, <2>1, <2>2, <2>3, GoesOn
<1>10. CASE Breaks(r)
    <2>1. CASE OrdersDecided[r] = Absent
        BY <1>1, <1>2, <1>10, <2>1, Fails
    <2>2. CASE OrdersDecided[r] # Absent
        BY <1>2, <1>3, <1>10, <2>2, Replied, Delivering DEF Breaks, Refuse
    <2> QED
        BY <2>1, <2>2
<1> QED
    BY <1>7, <1>8, <1>9, <1>10 DEF PrepareUpdate, status

LEMMA AtomicWrite ==
    ASSUME TypeOK, OrdersInv, [Next]_vars, NEW r \in Requests, Serve(r), ~Enter(r), WriteUpdate(r)
    PROVE  Atomic!Next
<1> DEFINE p == asked[r]
           id == p.id
           order == seen[r]
<1>1. stage[r] = "write" /\ p.op = "update"
    BY DEF WriteUpdate, At
<1>2. OfOrders(r) /\ OrdersAsked[r] = p /\ p # Absent /\ OrdersDecided[r] = Absent
    BY <1>1, OrderRequests, Undecided
<1>3. /\ p.valid /\ database /\ id \in Ids /\ orders[id] \in Rows /\ items[id] \in Baskets
      /\ p.version \in Nat /\ order \in Orders /\ order.version = p.version + 1
      /\ orders[id].version + 1 = order.version =>
            /\ p.version = orders[id].version
            /\ UpdateStatus(Whole(orders[id], items[id]), p) = 200
            /\ order = Updated(Whole(orders[id], items[id]), p)
    BY UpdateWrites DEF WriteUpdate
<1>4. orders[id] # Absent /\ items' = items
    BY <1>3, OrdersTyped DEF WriteUpdate
<1>5. /\ WholeOrders[id] = Whole(orders[id], items[id]) /\ WholeOrders[id] # Absent
      /\ WholeOrders[id].version = orders[id].version
    BY <1>3, <1>4, Wholes
<1>6. CASE orders[id].version + 1 # order.version /\ Refuse(r, 409) /\ UNCHANGED orders
    <2>1. orders[id].version \in Nat
        BY <1>3 DEF Rows
    <2>2. p.version # WholeOrders[id].version
        BY <1>3, <1>5, <1>6, <2>1
    <2>3. 409 \in Atomic!Rejections(p) /\ 409 # 200
        BY <1>1, <1>5, <2>2 DEF Atomic!Rejections
    <2> QED
        BY <1>2, <1>4, <1>6, <2>3, Refuses
<1>7. CASE Breaks(r) /\ UNCHANGED orders
    BY <1>2, <1>4, <1>7, Fails
<1>8. CASE /\ orders[id].version + 1 = order.version
           /\ orders' = [orders EXCEPT ![id] = RowOf(order)]
           /\ Reply(r, 200, order) \/ Breaks(r)
    <2>1. Decides(r, 200, order) \/ Decides(r, 500, Absent)
        BY <1>2, <1>8, Replied DEF Breaks, Refuse
    <2>2. /\ p.version = orders[id].version /\ UpdateStatus(WholeOrders[id], p) = 200
          /\ order = Updated(WholeOrders[id], p)
        BY <1>3, <1>5, <1>8
    <2>3. order.items = items[id]
        <3>1. WholeOrders[id] \in Orders /\ WholeOrders[id].items = items[id] /\ p \in OrderPayloads
            BY <1>1, <1>3, <1>4, Wholes, UpdateWrites DEF WriteUpdate
        <3> QED
            BY <1>1, <1>3, <2>2, <3>1, UpdatesTyped
    <2>4. RowOf(order) # Absent /\ Whole(RowOf(order), items[id]) = order
        BY <1>3, <2>3, OrdersTyped
    <2> HIDE DEF id, order, p
    <2>5. /\ orders'[id] = RowOf(order)
          /\ \A other \in Ids : other # id => orders'[other] = orders[other]
        BY <1>3, <1>8 DEF TypeOK, TablesOK
    <2>6. WholeOrders' = [WholeOrders EXCEPT ![id] = order]
        <3>1. WholeOrders'[id] = order
            BY <1>3, <1>4, <2>4, <2>5 DEF WholeOrders
        <3>2. \A other \in Ids : other # id => WholeOrders'[other] = WholeOrders[other]
            BY <1>4, <2>5 DEF WholeOrders
        <3>3. /\ WholeOrders = [other \in Ids |-> WholeOrders[other]]
              /\ WholeOrders' = [other \in Ids |-> WholeOrders'[other]]
            BY DEF WholeOrders
        <3> QED
            BY <1>3, <3>1, <3>2, <3>3
    <2>7. p.id = id
        BY DEF id
    <2>8. Updates(r, p, id, order)
        BY <1>1, <1>2, <1>3, <1>5, <2>1, <2>2, <2>6, <2>7 DEF Updates
    <2> QED
        BY <2>8, Updating
<1> QED
    BY <1>6, <1>7, <1>8 DEF WriteUpdate

LEMMA AtomicEnter ==
    ASSUME TypeOK, OrdersInv, [Next]_vars, NEW r \in Requests, Serve(r), Enter(r)
    PROVE  Atomic!Next \/ UNCHANGED Atomic!vars
<1>1. PICK payload : /\ stage[r] = "idle" /\ asked' = [asked EXCEPT ![r] = payload]
                     /\ stage'[r] = "asked"
    BY DEF Enter, Ask, TypeOK, RequestsOK
<1>2. asked[r] = Absent /\ asked'[r] = payload
    BY <1>1 DEF TypeOK, RequestsOK, RequestOK
<1>3. ~OfOrders(r) /\ OrdersAsked[r] = Absent
    BY <1>2, Undecided DEF OrdersAsked
<1>4. /\ WholeOrders' = WholeOrders /\ database' = database
    BY DEF Serve, Enter, mainVars, orderVars, WholeOrders
<1>5. \A q \in Requests : q # r =>
            /\ OrdersAsked'[q] = OrdersAsked[q] /\ OrdersDecided'[q] = OrdersDecided[q]
            /\ q \in OrdersAnswered' <=> q \in OrdersAnswered
    BY Alone, OthersDecided
<1>6. OrdersDecided[r] = Absent /\ OrdersDecided'[r] = Absent
    BY <1>1, <1>3 DEF OrdersDecided, Determined
<1>7. OrdersDecided' = OrdersDecided
    <2>1. /\ OrdersDecided = [q \in Requests |-> OrdersDecided[q]]
          /\ OrdersDecided' = [q \in Requests |-> OrdersDecided'[q]]
        BY DEF OrdersDecided
    <2> QED
        BY <1>5, <1>6, <2>1
<1>8. OrdersAnswered' = OrdersAnswered
    <2>1. r \notin OrdersAnswered /\ r \notin OrdersAnswered'
        BY <1>1 DEF OrdersAnswered
    <2>2. OrdersAnswered \subseteq Requests /\ OrdersAnswered' \subseteq Requests
        BY DEF OrdersAnswered
    <2> QED
        BY <1>5, <2>1, <2>2
<1>9. OrdersAsked' = [OrdersAsked EXCEPT ![r] = OrdersAsked'[r]]
    <2>1. /\ OrdersAsked = [q \in Requests |-> OrdersAsked[q]]
          /\ OrdersAsked' = [q \in Requests |-> OrdersAsked'[q]]
        BY DEF OrdersAsked
    <2> QED
        BY <1>5, <2>1
<1>10. CASE payload \in AtomicPayloads
    <2>1. OrdersAsked'[r] = payload
        BY <1>2, <1>10 DEF OrdersAsked, OfOrders
    <2>2. OrdersAsked' = [OrdersAsked EXCEPT ![r] = payload]
        BY <1>9, <2>1
    <2>3. Atomic!Ask(r)
        BY <1>3, <1>4, <1>7, <1>8, <1>10, <2>2 DEF Atomic!Ask
    <2> QED
        BY <2>3 DEF Atomic!Next
<1>11. CASE payload \notin AtomicPayloads
    <2>1. OrdersAsked'[r] = Absent
        BY <1>2, <1>11 DEF OrdersAsked, OfOrders
    <2>2. OrdersAsked' = OrdersAsked
        BY <1>3, <1>9, <2>1 DEF OrdersAsked
    <2> QED
        BY <1>4, <1>7, <1>8, <2>2 DEF Atomic!vars
<1> QED
    BY <1>10, <1>11

\* A step that is about nothing of the orders.
LEMMA Invisible ==
    ASSUME UNCHANGED <<database, reqVars, orderVars>>
    PROVE  UNCHANGED Atomic!vars
<1>1. WholeOrders' = WholeOrders
    BY DEF orderVars, WholeOrders
<1>2. UNCHANGED <<OrdersAsked, OrdersDecided, OrdersAnswered>>
    BY DEF orderVars, reqVars, OrdersAsked, OrdersDecided, OrdersAnswered, OfOrders, Determined
<1> QED
    BY <1>1, <1>2 DEF Atomic!vars

LEMMA OtherRequests ==
    ASSUME TypeOK, OrdersInv, [Next]_vars, NEW r \in Requests, Serve(r), ~Enter(r), ~OfOrders(r)
    PROVE  UNCHANGED Atomic!vars
<1>1. asked[r].op \notin {"create", "get", "update"}
    BY Acting, OrderRequests
<1>2. OrderStep(r) => UNCHANGED orderVars
    <2>1. ASSUME OrderStep(r) PROVE asked[r].op = "list"
        BY <1>1, <2>1, OrderMoves DEF OrderOps
    <2> QED
        BY <2>1, ListSteps DEF CountOrders, SelectPage, TurnAway
<1>3. UNCHANGED orderVars
    BY <1>2 DEF Serve, TurnAway
<1>4. WholeOrders' = WholeOrders
    BY <1>3 DEF orderVars, WholeOrders
<1>5. OrdersDecided'[r] = OrdersDecided[r]
    BY Acting DEF OrdersDecided
<1> QED
    BY <1>4, <1>5, GoesOn

LEMMA AtomicStep ==
    ASSUME TypeOK, OrdersInv, [Next]_vars
    PROVE  Atomic!Next \/ UNCHANGED Atomic!vars
<1>1. ASSUME NEW r \in Requests, Serve(r) PROVE Atomic!Next \/ UNCHANGED Atomic!vars
    <2>1. CASE Enter(r)
        BY <1>1, <2>1, AtomicEnter
    <2>2. CASE ~Enter(r) /\ ~OfOrders(r)
        BY <1>1, <2>2, OtherRequests
    <2>3. CASE ~Enter(r) /\ OfOrders(r)
        <3>1. asked[r].op \in OrderOps /\ asked[r].op # "list"
            BY <2>3, PayloadsAssumption DEF OfOrders, AtomicPayloads
        <3>2. ~AccountStep(r)
            BY <3>1 DEF AccountStep, Register, FindUser, ReadCode, DeleteCode, StoreToken, FindToken,
                        AnswerMe, CallSms, StoreCode, CallPayment, StorePending, ReceiveCallback, At,
                        Accepted, OrderOps
        <3>3. ~CountOrders(r) /\ ~SelectPage(r)
            BY <3>1 DEF CountOrders, SelectPage, At, Accepted
        <3>4. CASE TurnAway(r)
            BY <1>1, <2>3, <3>4, AtomicTurnAway
        <3>5. CASE OrderStep(r)
            BY <1>1, <2>3, <3>3, <3>5, AtomicCreate, AtomicSelect, AtomicRead, AtomicPrepare, AtomicWrite
               DEF OrderStep
        <3> QED
            BY <1>1, <2>3, <3>2, <3>4, <3>5 DEF Serve
    <2> QED
        BY <2>1, <2>2, <2>3
<1>2. CASE ConfigureDatabase \/ EnsureSchema \/ ConfigureRedis \/ Bind
    BY <1>2, Invisible DEF ConfigureDatabase, EnsureSchema, ConfigureRedis, Bind, Connect, Become
<1>3. CASE KeyExpires \/ Rest \/ UNCHANGED vars
    BY <1>3, Invisible DEF KeyExpires, Expire, Rest, vars, mainVars
<1> QED
    BY <1>1, <1>2, <1>3 DEF Next

LEMMA AtomicInit == Init => Atomic!Init
<1> SUFFICES ASSUME Init PROVE Atomic!Init
    OBVIOUS
<1>1. ServiceInv
    BY InitInv
<1>2. ASSUME NEW id \in Ids, WholeOrders[id] # Absent
      PROVE  WholeOrders[id].pricing = Pricing(WholeOrders[id].items, WholeOrders[id].coupon)
    <2>1. orders[id] # Absent /\ WholeOrders[id] = Whole(orders[id], items[id])
        BY <1>1, <1>2, Wholes DEF ServiceInv
    <2>2. orders[id].pricing = Pricing(items[id], orders[id].coupon)
        BY <1>1, <2>1 DEF ServiceInv, OrdersInv, PricingFollows, Stored
    <2> QED
        BY <2>1, <2>2 DEF Whole
<1>3. database \in BOOLEAN
    BY DEF Init
<1>4. \A r \in Requests : ~OfOrders(r)
    <2>1. Absent \notin AtomicPayloads
        BY AbsentAssumption DEF AtomicPayloads
    <2> QED
        BY <2>1 DEF Init, RequestsInit, OfOrders
<1>5. /\ OrdersAsked = [r \in Requests |-> Absent] /\ OrdersDecided = [r \in Requests |-> Absent]
      /\ OrdersAnswered = {}
    BY <1>4 DEF OrdersAsked, OrdersDecided, OrdersAnswered
<1> QED
    BY <1>2, <1>3, <1>5, SamePricing DEF Atomic!Init

\* The order handlers implement AtomicOrders: each create, get and update takes effect
\* at one moment (persist_order, find_order_by_id, update_order_record).
THEOREM HandlersAreAtomic == Spec => OrdersAreAtomic
<1>1. ServiceInv /\ [Next]_vars => [Atomic!Next]_(Atomic!vars)
    BY AtomicStep DEF ServiceInv
<1> QED
    BY <1>1, AtomicInit, ServiceIsInvariant, PTL DEF Spec, OrdersAreAtomic, Atomic!Spec

-----------------------------------------------------------------------------
(***************************************************************************)
(* Amounts: a total of natural numbers is one, and no discount exceeds the *)
(* subtotal it is for.                                                     *)
(***************************************************************************)

\* A set of natural numbers that is not empty has a least element.
LEMMA LeastElement ==
    ASSUME NEW T, T \subseteq Nat, T # {}
    PROVE  \E m \in T : \A n \in T : m <= n
<1> DEFINE Before == {pair \in Nat \X Nat : pair[1] < pair[2]}
<1>1. IsWellFoundedOn(Before, Nat)
    BY NatLessThanWellFounded DEF OpToRel
<1> HIDE DEF Before
<1>2. PICK m \in T : \A n \in T : <<n, m>> \notin Before
    BY <1>1, WFMin
<1>3. \A n \in T : ~ (n < m)
    BY <1>2 DEF Before
<1> QED
    BY <1>3

\* What holds at 0 and from each number to the next holds of all.
LEMMA Induction ==
    ASSUME NEW T, 0 \in T, \A n \in Nat : n \in T => n + 1 \in T
    PROVE  \A n \in Nat : n \in T
<1> SUFFICES ASSUME Nat \ T # {} PROVE FALSE
    OBVIOUS
<1>1. PICK m \in Nat \ T : \A n \in Nat \ T : m <= n
    BY LeastElement
<1>2. m # 0 /\ m - 1 \in Nat /\ m - 1 \notin Nat \ T
    BY <1>1
<1> QED
    BY <1>1, <1>2

\* The running sums of s up to m, as Total makes them.
Sums(f, s, m) == f = [n \in 0 .. m |-> IF n = 0 THEN 0 ELSE f[n - 1] + s[n]]

LEMMA SumsExist ==
    ASSUME NEW s, NEW m \in Nat
    PROVE  \E f : Sums(f, s, m)
<1> DEFINE T == {n \in Nat : \E f : Sums(f, s, n)}
<1>1. 0 \in T
    <2>1. Sums([n \in 0 .. 0 |-> 0], s, 0)
        BY DEF Sums
    <2> QED
        BY <2>1
<1>2. ASSUME NEW n \in Nat, n \in T PROVE n + 1 \in T
    <2>1. PICK f : Sums(f, s, n)
        BY <1>2
    <2> DEFINE g == [k \in 0 .. n + 1 |-> IF k = n + 1 THEN f[n] + s[n + 1] ELSE f[k]]
    <2>2. \A k \in 0 .. n + 1 : g[k] = IF k = 0 THEN 0 ELSE g[k - 1] + s[k]
        <3> TAKE k \in 0 .. n + 1
        <3>1. CASE k = n + 1
            BY <3>1
        <3>2. CASE k \in 0 .. n
            BY <2>1, <3>2 DEF Sums
        <3> QED
            BY <3>1, <3>2
    <2>3. g = [k \in 0 .. n + 1 |-> g[k]]
        OBVIOUS
    <2> HIDE DEF g
    <2>4. Sums(g, s, n + 1)
        BY <2>2, <2>3 DEF Sums
    <2> QED
        BY <2>4
<1> HIDE DEF T
<1>3. m \in T
    BY <1>1, <1>2, Induction
<1> QED
    BY <1>3 DEF T

LEMMA TotalIsNat ==
    ASSUME NEW s \in Seq(Nat)
    PROVE  Total(s) \in Nat
<1> DEFINE f == CHOOSE f : Sums(f, s, Len(s))
<1>1. Len(s) \in Nat /\ \A n \in 1 .. Len(s) : s[n] \in Nat
    OBVIOUS
<1>2. Sums(f, s, Len(s))
    BY <1>1, SumsExist
<1>3. Total(s) = f[Len(s)]
    BY DEF Total, Sums
<1> HIDE DEF f
<1> DEFINE T == {n \in Nat : n <= Len(s) => f[n] \in Nat}
<1>4. 0 \in T
    BY <1>1, <1>2 DEF Sums
<1>5. ASSUME NEW n \in Nat, n \in T PROVE n + 1 \in T
    <2> SUFFICES ASSUME n + 1 <= Len(s) PROVE f[n + 1] \in Nat
        OBVIOUS
    <2>1. n + 1 \in 0 .. Len(s) /\ n + 1 \in 1 .. Len(s) /\ f[n] \in Nat
        BY <1>1, <1>5
    <2>2. f[n + 1] = f[n] + s[n + 1]
        BY <1>2, <2>1 DEF Sums
    <2> QED
        BY <1>1, <2>1, <2>2
<1> HIDE DEF T
<1>6. \A n \in Nat : n \in T
    BY <1>4, <1>5, Induction
<1>7. Len(s) \in T
    BY <1>1, <1>6
<1> QED
    BY <1>1, <1>3, <1>7 DEF T

LEMMA SubtotalIsNat ==
    ASSUME NEW basket \in Seq([quantity : Nat, price : Nat])
    PROVE  Subtotal(basket) \in Nat
<1> DEFINE amounts == [i \in DOMAIN basket |-> basket[i].quantity * basket[i].price]
<1>1. DOMAIN basket = 1 .. Len(basket) /\ Len(basket) \in Nat
    OBVIOUS
<1>2. \A i \in 1 .. Len(basket) : basket[i].quantity * basket[i].price \in Nat
    <2> TAKE i \in 1 .. Len(basket)
    <2>1. basket[i] \in [quantity : Nat, price : Nat]
        BY ElementOfSeq
    <2>2. basket[i].quantity \in Nat /\ basket[i].price \in Nat
        BY <2>1
    <2> QED
        BY <2>2
<1>3. amounts \in [1 .. Len(basket) -> Nat]
    BY <1>1, <1>2
<1> HIDE DEF amounts
<1>4. amounts \in Seq(Nat)
    BY <1>1, <1>3, SeqDef
<1> QED
    BY <1>4, TotalIsNat DEF Subtotal, amounts

LEMMA DiscountFits ==
    ASSUME NEW subtotal \in Nat, NEW coupon \in Coupons
    PROVE  Discount(subtotal, coupon) \in 0 .. subtotal
<1>1. CASE coupon = "SAVE10"
    <2>1. subtotal \div 10 \in 0 .. subtotal
        OBVIOUS
    <2> QED
        BY <1>1, <2>1 DEF Discount
<1>2. CASE coupon = "VIP50"
    BY <1>2 DEF Discount
<1>3. CASE coupon \in {"none", "OTHER"}
    BY <1>3 DEF Discount
<1> QED
    BY <1>1, <1>2, <1>3 DEF Coupons

\* The last check of build_order_pricing, that a discount does not exceed its
\* subtotal, is in no model: no basket and no coupon ever get there.
THEOREM DiscountNeverExceeds ==
    \A basket \in Baskets, coupon \in Coupons :
        Discount(Subtotal(basket), coupon) \in 0 .. Subtotal(basket)
<1> TAKE basket \in Baskets, coupon \in Coupons
<1>1. Subtotal(basket) \in Nat
    BY SubtotalIsNat, BasketsAssumption
<1> QED
    BY <1>1, DiscountFits

\* The amounts of an order that is stored add up, none is below zero, and what
\* is to be paid is a u64, whichever updates it took: what persist_order and
\* update_order_record write is what build_order_pricing has computed of one
\* basket and one coupon, with every sum checked.
THEOREM AmountsAddUp ==
    Spec => [](\A id \in Stored :
                LET p == orders[id].pricing
                IN  /\ {p.subtotal, p.payable_total} \subseteq 0 .. MaxU64
                    /\ p.discount \in 0 .. p.subtotal /\ p.shipping_fee \in Nat
                    /\ p.discount + p.payable_total = p.subtotal + p.shipping_fee)
<1>1. ASSUME NEW basket \in Baskets, NEW coupon \in Coupons, NEW p, p = Pricing(basket, coupon)
      PROVE  /\ p.subtotal = Subtotal(basket)
             /\ p.subtotal \in Nat /\ p.payable_total \in Nat
             /\ p.discount \in 0 .. p.subtotal /\ p.shipping_fee \in Nat
             /\ p.discount + p.payable_total = p.subtotal + p.shipping_fee
    <2> DEFINE subtotal == Subtotal(basket)
               discount == Discount(subtotal, coupon)
               shipping == ShippingFee(ItemCount(basket), subtotal - discount)
    <2>1. subtotal \in Nat /\ discount \in 0 .. subtotal
        BY SubtotalIsNat, BasketsAssumption, DiscountNeverExceeds
    <2>2. shipping \in {0, 1200}
        BY DEF ShippingFee
    <2>3. p = [subtotal |-> subtotal, discount |-> discount, shipping_fee |-> shipping,
               payable_total |-> subtotal - discount + shipping]
        BY <1>1 DEF Pricing
    <2>4. subtotal = Subtotal(basket)
        OBVIOUS
    <2> HIDE DEF subtotal, discount, shipping
    <2> QED
        BY <2>1, <2>2, <2>3, <2>4
<1>2. ServiceInv => \A id \in Stored :
        LET p == orders[id].pricing
        IN  /\ {p.subtotal, p.payable_total} \subseteq 0 .. MaxU64
            /\ p.discount \in 0 .. p.subtotal /\ p.shipping_fee \in Nat
            /\ p.discount + p.payable_total = p.subtotal + p.shipping_fee
    <2> SUFFICES ASSUME ServiceInv, NEW id \in Stored, NEW p, p = orders[id].pricing
                 PROVE  /\ {p.subtotal, p.payable_total} \subseteq 0 .. MaxU64
                        /\ p.discount \in 0 .. p.subtotal /\ p.shipping_fee \in Nat
                        /\ p.discount + p.payable_total = p.subtotal + p.shipping_fee
        OBVIOUS
    <2> DEFINE basket == items[id]
               coupon == orders[id].coupon
    <2>1. basket \in Baskets /\ coupon \in Coupons
        BY DEF ServiceInv, TypeOK, TablesOK, Stored, Rows
    <2>2. /\ p = Pricing(basket, coupon)
          /\ PricingStatus(basket, coupon, orders[id].tier) = 200
        BY DEF ServiceInv, OrdersInv, PricingFollows
    <2> HIDE DEF basket, coupon
    <2>3. ~(Subtotal(basket) > MaxU64) /\ ~(p.payable_total > MaxU64)
        BY <2>2 DEF PricingStatus
    <2> QED
        BY <1>1, <2>1, <2>2, <2>3, MaxU64Assumption
<1> QED
    BY <1>2, ServiceIsInvariant, PTL
=============================================================================
