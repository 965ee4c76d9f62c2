---------------------------- MODULE SampleService ----------------------------
(***************************************************************************)
(* The order service of sample-projects/src/main.rs, the application that  *)
(* the cases and workflows of the sample project test: main with its       *)
(* retries until MySQL and Redis answer, and then the router with all its  *)
(* handlers (SampleOrders, SampleAccounts). /health keeps no state and is  *)
(* left out. MySQL may hold users and orders of an earlier life of the     *)
(* service.                                                                *)
(***************************************************************************)
EXTENDS SampleOrders, SampleAccounts

CONSTANTS
    Retries,        \* DATABASE_RETRIES and REDIS_RETRIES
    OrderPayloads,  \* what the requests of orders ask
    OtherPayloads,  \* what the other requests ask, but for the tokens of `me`
    EarlierOrders,  \* the orders of an earlier life
    Baskets         \* the items of an order

ASSUME RetriesAssumption == Retries \in Nat \ {0}

\* An id is the time in nanoseconds, a u128.
ASSUME IdsAssumption == IsFiniteSet(Ids)

\* A quantity is a u32 and a unit price a u64.
ASSUME BasketsAssumption == Baskets \subseteq Seq([quantity : Nat, price : Nat])

Prices == {Pricing(basket, coupon) : basket \in Baskets, coupon \in Coupons}
Rows == [version : Nat, tier : Tiers, coupon : Coupons, pricing : Prices]
Orders == [version : Nat, items : Baskets, tier : Tiers, coupon : Coupons, pricing : Prices]
NewOrders == [id : Ids, order : Orders]
Pages == [rows : Nat, total : Nat, has_more : BOOLEAN]

OtherOps == {"register", "login", "sms", "pay", "callback"}

\* A payload that passes the normalisations has fields of these kinds; a limit and an
\* offset are u32 in any case.
ASSUME PayloadsAssumption ==
    /\ \A p \in OrderPayloads :
        /\ p.op \in OrderOps /\ p.valid \in BOOLEAN
        /\ p.valid /\ p.op = "create" =>
                p.items \in Baskets /\ p.tier \in Tiers /\ p.coupon \in Coupons
        /\ p.valid /\ p.op \in {"get", "update"} => p.id \in Ids
        /\ p.valid /\ p.op = "update" =>
                p.version \in Nat /\ p.tier \in Tiers \cup {Kept} /\ p.coupon \in Coupons \cup {Kept}
        /\ p.op = "list" => p.limit \in Nat /\ p.offset \in Nat
    /\ \A p \in OtherPayloads :
        /\ p.op \in OtherOps /\ p.valid \in BOOLEAN
        /\ p.valid /\ p.op \in {"register", "login"} => p.email \in Emails
        /\ p.valid /\ p.op \in {"login", "sms"} => p.phone \in Phones
        /\ p.valid /\ p.op \in {"pay", "callback"} => p.order_no \in OrderNos

\* What an earlier life has stored, it has priced.
ASSUME EarlierAssumption ==
    \A earlier \in EarlierOrders :
        /\ earlier \in [Ids -> Orders \cup {Absent}]
        /\ \A id \in Ids : earlier[id] # Absent =>
            /\ PricingStatus(earlier[id].items, earlier[id].coupon, earlier[id].tier) = 200
            /\ earlier[id].pricing = Pricing(earlier[id].items, earlier[id].coupon)

MePayloads == [op : {"me"}, valid : {TRUE}, token : Tokens \cup {Absent}]
Bodies(op) ==
    CASE op \in {"create", "get", "update"} -> Orders
      [] op = "list" -> Pages
      [] op \in {"register", "me"} -> Emails
      [] op = "login" -> Tokens
      [] op = "sms" -> Codes
      [] op = "pay" -> {Pending}
      [] op = "callback" -> {}
Answers(op) == [status : Nat, body : Bodies(op) \cup {Absent}]

\* What is there is not Absent.
ASSUME AbsentAssumption ==
    /\ Absent \notin Rows /\ Absent \notin Orders /\ Absent \notin NewOrders
    /\ Absent \notin Baskets
    /\ Absent \notin OrderPayloads /\ Absent \notin OtherPayloads /\ Absent \notin MePayloads
    /\ \A op \in OrderOps \cup OtherOps \cup {"me"} : Absent \notin Answers(op)

VARIABLES
    phase,      \* where main is
    attempt     \* the attempt of a connect_..._with_retry

mainVars == <<database, redis, phase, attempt>>
vars == <<mainVars, reqVars, orderVars, accountVars>>

Init ==
    /\ RequestsInit
    /\ database \in BOOLEAN /\ redis \in BOOLEAN
    /\ phase = "database" /\ attempt = 1
    /\ \E earlier \in EarlierOrders :
        /\ orders = [id \in Ids |-> IF earlier[id] = Absent THEN Absent ELSE RowOf(earlier[id])]
        /\ items = [id \in Ids |-> IF earlier[id] = Absent THEN Absent ELSE earlier[id].items]
    /\ inserted = [r \in Requests |-> Absent]
    /\ users \in [Emails -> BOOLEAN]
    /\ codes = [phone \in Phones |-> Absent]
    /\ tokens = [token \in Tokens |-> Absent]
    /\ payments = [o \in OrderNos |-> Absent]
    /\ sent = [phone \in Phones |-> 0]
    /\ admitted = {}
    /\ settled = [o \in OrderNos |-> Absent]

-----------------------------------------------------------------------------
Become(next, count) ==
    /\ phase' = next /\ attempt' = count
    /\ UNCHANGED <<database, redis, reqVars, orderVars, accountVars>>

\* One attempt of connect_database_with_retry or connect_redis_with_retry.
Connect(next) ==
    \/ Become(next, 1)
    \/ attempt < Retries /\ Become(phase, attempt + 1)
    \/ attempt = Retries /\ Become("exited", attempt)

\* configure_database: without DATABASE_URL there is none.
ConfigureDatabase ==
    /\ phase = "database"
    /\ IF database THEN Connect("schema") ELSE Become("redis", 1)

\* ensure_schema: three statements, each harmless when repeated.
EnsureSchema ==
    /\ phase = "schema"
    /\ Become("redis", 1) \/ Become("exited", 1)

ConfigureRedis ==
    /\ phase = "redis"
    /\ IF redis THEN Connect("binding") ELSE Become("binding", 1)

\* main binds its listener and serves.
Bind ==
    /\ phase = "binding"
    /\ Become("serving", 1) \/ Become("exited", 1)

-----------------------------------------------------------------------------
\* A client knows the tokens it was answered.
KnownTokens ==
    {answer[r].body : r \in {q \in Requests : stage[q] = "answered" /\ asked[q].op = "login"}}

Payloads ==
    OrderPayloads \cup OtherPayloads
        \cup [op : {"me"}, valid : {TRUE}, token : KnownTokens \cup {Absent}]

Enter(r) ==
    /\ \E payload \in Payloads : Ask(r, payload)
    /\ UNCHANGED <<orderVars, accountVars>>

\* The guards that all handlers begin with.
TurnAway(r) ==
    /\ Unavailable(r) \/ BadRequest(r)
    /\ UNCHANGED <<orderVars, accountVars>>

Serve(r) ==
    /\ phase = "serving"
    /\ \/ Enter(r)
       \/ TurnAway(r)
       \/ OrderStep(r) /\ UNCHANGED accountVars
       \/ AccountStep(r) /\ UNCHANGED orderVars
    /\ UNCHANGED mainVars

KeyExpires == Expire /\ UNCHANGED <<mainVars, orderVars>>

\* Every request of the instance is answered, or main has returned.
Rest ==
    /\ phase = "exited" \/ \A r \in Requests : stage[r] = "answered"
    /\ UNCHANGED vars

Next ==
    \/ ConfigureDatabase \/ EnsureSchema \/ ConfigureRedis \/ Bind
    \/ \E r \in Requests : Serve(r)
    \/ KeyExpires
    \/ Rest

Spec == Init /\ [][Next]_vars

-----------------------------------------------------------------------------
(* The orders, as their clients see them.                                  *)

\* The answer of a get, or of an update that is going to be refused, is
\* determined by the row that the handler has read.
Determined(r) ==
    IF stage[r] = "answered" THEN answer[r]
    ELSE IF stage[r] # "items" THEN Absent
    ELSE LET order == Whole(seen[r], items[asked[r].id])
         IN  CASE asked[r].op = "get" -> [status |-> 200, body |-> order]
               [] asked[r].op = "update" /\ asked[r].version # order.version ->
                    [status |-> 409, body |-> Absent]
               [] asked[r].op = "update" /\ asked[r].version = order.version
                    /\ UpdateStatus(order, asked[r]) # 200 ->
                    [status |-> UpdateStatus(order, asked[r]), body |-> Absent]
               [] OTHER -> Absent

AtomicPayloads == {p \in OrderPayloads : p.op # "list"}
OfOrders(r) == asked[r] \in AtomicPayloads

WholeOrders ==
    [id \in Ids |-> IF orders[id] = Absent THEN Absent ELSE Whole(orders[id], items[id])]
OrdersAsked == [r \in Requests |-> IF OfOrders(r) THEN asked[r] ELSE Absent]
OrdersDecided == [r \in Requests |-> IF OfOrders(r) THEN Determined(r) ELSE Absent]
OrdersAnswered == {r \in Requests : OfOrders(r) /\ stage[r] = "answered"}

Atomic == INSTANCE AtomicOrders WITH
    orders <- WholeOrders,
    stored <- database,
    asked <- OrdersAsked,
    decided <- OrdersDecided,
    answered <- OrdersAnswered,
    Payloads <- AtomicPayloads

\* However the statements of the handlers interleave and whichever of them
\* fails, each create, get and update of an order takes effect at one moment,
\* and an update applies to the version that its client has named: nothing is
\* lost and nothing half-written is seen (persist_order, find_order_by_id,
\* update_order_record).
OrdersAreAtomic == Atomic!Spec

\* What is charged for an order belongs to its items, its coupon and its tier,
\* whichever of these the updates have changed one by one: build_order_pricing
\* would be Ok with them, and say the same.
PricingFollows ==
    \A id \in Stored :
        /\ PricingStatus(items[id], orders[id].coupon, orders[id].tier) = 200
        /\ orders[id].pricing = Pricing(items[id], orders[id].coupon)

\* find_orders counts before it selects: when a page says there is more, there
\* is, however many orders are created between the two.
MoreIsThere ==
    \A r \in Requests :
        stage[r] = "answered" /\ asked[r].op = "list" /\ answer[r].status = 200
            /\ answer[r].body.has_more =>
                asked[r].offset + answer[r].body.rows < Cardinality(Stored)

-----------------------------------------------------------------------------
(* Accounts and payments.                                                  *)

AdmittedBy(phone) == {r \in admitted : asked[r].phone = phone}

\* No more logins pass consume_verification_code than codes the SMS provider
\* has accepted for the phone, though its GET and DEL interleave with other
\* logins, with new codes and with the expiry of old ones, and though sends are
\* refused or fail (send_sms_code).
LoginsArePaid == \A phone \in Phones : Cardinality(AdmittedBy(phone)) <= sent[phone]

\* An access token that Redis knows, and so every answer of /me, goes back to
\* a login of that user with the password and a code.
TokensAreEarned ==
    LET Earned(email) ==
            \E r \in admitted : asked[r].email = email /\ asked[r].password = Password
    IN  /\ \A token \in Tokens : tokens[token] # Absent => Earned(tokens[token])
        /\ \A r \in Requests :
            stage[r] = "answered" /\ asked[r].op = "me" /\ answer[r].status = 200 =>
                Earned(answer[r].body)

\* The status of a callback that comes in when every accepted create of its payment
\* is stored stays until the next callback or create: no PENDING of an earlier
\* create replaces it. One that overtakes the store is replaced.
SettledStays == \A o \in OrderNos : settled[o] # Absent => payments[o] = settled[o]

-----------------------------------------------------------------------------
Stages == {"idle", "asked", "answered", "insert", "commit", "select", "items", "write", "page",
           "read code", "delete code", "store token", "user", "store code", "store payment"}

\* The handlers that have a stage, and what they have read there.
HandlersAt(where) ==
    CASE where \in {"insert", "commit"} -> {"create"}
      [] where \in {"select", "items"} -> {"get", "update"}
      [] where = "write" -> {"update"}
      [] where = "page" -> {"list"}
      [] where \in {"read code", "delete code", "store token"} -> {"login"}
      [] where = "user" -> {"me"}
      [] where = "store code" -> {"sms"}
      [] where = "store payment" -> {"pay"}
      [] OTHER -> {}

KnownAt(where) ==
    CASE where = "insert" -> NewOrders
      [] where = "items" -> Rows
      [] where = "write" -> Orders
      [] where = "page" -> Nat
      [] where = "user" -> Emails
      [] where = "store code" -> Codes
      [] OTHER -> {Absent}

\* A handler is where its op has a stage, past its guards, and knows what it has read
\* there; a transaction is open exactly while its handler is before the commit.
RequestOK(r) ==
    /\ stage[r] = "idle" <=> asked[r] = Absent
    /\ stage[r] \notin {"idle", "asked", "answered"} =>
            asked[r].op \in HandlersAt(stage[r]) /\ Available(asked[r].op) /\ asked[r].valid
    /\ seen[r] \in KnownAt(stage[r])
    /\ IF stage[r] = "answered" THEN answer[r] \in Answers(asked[r].op) ELSE answer[r] = Absent
    /\ IF stage[r] = "commit" THEN inserted[r] \in NewOrders ELSE inserted[r] = Absent

MainOK ==
    /\ database \in BOOLEAN /\ redis \in BOOLEAN
    /\ phase \in {"database", "schema", "redis", "binding", "serving", "exited"}
    /\ attempt \in 1 .. Retries

RequestsOK ==
    /\ asked \in [Requests -> OrderPayloads \cup OtherPayloads \cup MePayloads \cup {Absent}]
    /\ stage \in [Requests -> Stages]
    /\ seen = [r \in Requests |-> seen[r]]
    /\ answer = [r \in Requests |-> answer[r]]
    /\ inserted = [r \in Requests |-> inserted[r]]
    /\ \A r \in Requests : RequestOK(r)

\* Rows of the two tables of orders come and go together.
TablesOK ==
    /\ orders \in [Ids -> Rows \cup {Absent}]
    /\ items \in [Ids -> Baskets \cup {Absent}]
    /\ \A id \in Ids : orders[id] = Absent <=> items[id] = Absent

AccountsOK ==
    /\ users \in [Emails -> BOOLEAN]
    /\ codes \in [Phones -> Codes \cup {Absent}]
    /\ tokens \in [Tokens -> Emails \cup {Absent}]
    /\ payments = [o \in OrderNos |-> payments[o]]
    /\ settled = [o \in OrderNos |-> settled[o]]
    /\ sent \in [Phones -> Nat]
    /\ admitted \subseteq Requests

TypeOK == MainOK /\ RequestsOK /\ TablesOK /\ AccountsOK
=============================================================================
