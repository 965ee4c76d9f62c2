---------------------------- MODULE SampleOrders -----------------------------
(***************************************************************************)
(* The order handlers of sample-projects/src/main.rs over two tables of    *)
(* MySQL. A create is one transaction; a get and an update read the two    *)
(* tables in two statements without a transaction, and an update writes in *)
(* a third, on condition that the version is still the one it read. A list *)
(* counts in one statement and selects its page in another.                *)
(*                                                                         *)
(* Left out: names, notes, e-mails and the filters of a list (every order  *)
(* matches), and the fields of get's projection.                           *)
(***************************************************************************)
EXTENDS SampleRequests, OrderPricing, FiniteSets

CONSTANT
    Ids         \* the order ids that issue_order_id may return

VARIABLES
    orders,     \* table orders: orders[id] is the committed row, or Absent
    items,      \* table order_items: the committed rows of an order
    inserted    \* inserted[r]: what the open transaction of r has inserted

orderVars == <<orders, items, inserted>>

Whole(row, basket) ==
    [version |-> row.version, items |-> basket, tier |-> row.tier,
     coupon |-> row.coupon, pricing |-> row.pricing]

RowOf(order) ==
    [version |-> order.version, tier |-> order.tier, coupon |-> order.coupon,
     pricing |-> order.pricing]

\* create_order: the order that its request asks for.
NewOrder(p) ==
    [version |-> 1, items |-> p.items, tier |-> p.tier, coupon |-> p.coupon,
     pricing |-> Pricing(p.items, p.coupon)]

Stored == {id \in Ids : orders[id] # Absent}

-----------------------------------------------------------------------------
\* create_order up to persist_order. The id is the time in nanoseconds, which
\* two requests may share.
CreateOrder(r) ==
    /\ Accepted(r, "create")
    /\ LET p == asked[r]
           status == PricingStatus(p.items, p.coupon, p.tier)
       IN  \/ status # 200 /\ Refuse(r, status)
           \/ status = 200 /\ ~database /\ Reply(r, 201, NewOrder(p))
           \/ /\ status = 200 /\ database
              /\ \E id \in Ids : GoTo(r, "insert", [id |-> id, order |-> NewOrder(p)])
    /\ UNCHANGED orderVars

\* persist_order up to the commit: the rows of both tables, in a transaction
\* that nobody else sees. The key of a row that is not committed is locked; a
\* duplicate key is 1062, which map_database_error answers with 409.
Insert(r) ==
    /\ At(r, "create", "insert")
    /\ LET id == seen[r].id
       IN  /\ \A other \in Requests : inserted[other] # Absent => inserted[other].id # id
           /\ \/ orders[id] # Absent /\ Refuse(r, 409) /\ UNCHANGED inserted
              \/ /\ orders[id] = Absent
                 /\ inserted' = [inserted EXCEPT ![r] = seen[r]]
                 /\ GoTo(r, "commit", Absent)
    /\ UNCHANGED <<orders, items>>

InsertFails(r) == At(r, "create", "insert") /\ Breaks(r) /\ UNCHANGED orderVars

\* The commit of persist_order. When it fails it may have taken effect.
Commit(r) ==
    /\ At(r, "create", "commit")
    /\ inserted' = [inserted EXCEPT ![r] = Absent]
    /\ LET id == inserted[r].id
           order == inserted[r].order
       IN  \/ /\ orders' = [orders EXCEPT ![id] = RowOf(order)]
              /\ items' = [items EXCEPT ![id] = order.items]
              /\ Reply(r, 201, order) \/ Breaks(r)
           \/ Breaks(r) /\ UNCHANGED <<orders, items>>

-----------------------------------------------------------------------------
\* get_order up to the first statement of find_order_by_id.
GetOrder(r) ==
    /\ Accepted(r, "get")
    /\ GoTo(r, "select", Absent)
    /\ UNCHANGED orderVars

\* update_order and update_order_record up to the same.
UpdateOrder(r) ==
    /\ Accepted(r, "update")
    /\ IF NothingGiven(asked[r]) THEN Refuse(r, 400) ELSE GoTo(r, "select", Absent)
    /\ UNCHANGED orderVars

\* find_order_by_id: the row of the order.
SelectOrder(r) ==
    /\ stage[r] = "select"
    /\ LET row == orders[asked[r].id]
       IN  \/ row = Absent /\ Refuse(r, 404)
           \/ row # Absent /\ GoTo(r, "items", row)
           \/ Breaks(r)
    /\ UNCHANGED orderVars

\* find_order_by_id: its items; and get_order to its end.
AnswerGet(r) ==
    /\ At(r, "get", "items")
    /\ Reply(r, 200, Whole(seen[r], items[asked[r].id])) \/ Breaks(r)
    /\ UNCHANGED orderVars

\* find_order_by_id: its items; and update_order_record up to its statement.
PrepareUpdate(r) ==
    /\ At(r, "update", "items")
    /\ LET current == Whole(seen[r], items[asked[r].id])
           status == UpdateStatus(current, asked[r])
       IN  \/ asked[r].version # current.version /\ Refuse(r, 409)
           \/ asked[r].version = current.version /\ status # 200 /\ Refuse(r, status)
           \/ /\ asked[r].version = current.version /\ status = 200
              /\ GoTo(r, "write", Updated(current, asked[r]))
           \/ Breaks(r)
    /\ UNCHANGED orderVars

\* Mutation: an UPDATE without the version in its WHERE.
WriteOver(r) ==
    /\ At(r, "update", "write")
    /\ LET id == asked[r].id
       IN  \/ /\ orders' = [orders EXCEPT ![id] = RowOf(seen[r])]
              /\ Reply(r, 200, seen[r]) \/ Breaks(r)
           \/ Breaks(r) /\ UNCHANGED orders
    /\ UNCHANGED <<items, inserted>>

\* The UPDATE of update_order_record, which writes every column, and its end.
\* When it fails it may have taken effect.
WriteUpdate(r) ==
    /\ At(r, "update", "write")
    /\ LET id == asked[r].id
           matches == orders[id].version + 1 = seen[r].version
       IN  \/ /\ matches
              /\ orders' = [orders EXCEPT ![id] = RowOf(seen[r])]
              /\ Reply(r, 200, seen[r]) \/ Breaks(r)
           \/ ~matches /\ Refuse(r, 409) /\ UNCHANGED orders
           \/ Breaks(r) /\ UNCHANGED orders
    /\ UNCHANGED <<items, inserted>>

-----------------------------------------------------------------------------
\* normalize_list_limit.
ListLimit(limit) == limit \in 1 .. 50

\* list_orders up to its page: find_orders counts first.
CountOrders(r) ==
    /\ Accepted(r, "list")
    /\ \/ ~ListLimit(asked[r].limit) /\ Refuse(r, 400)
       \/ /\ ListLimit(asked[r].limit)
          /\ GoTo(r, "page", Cardinality(Stored)) \/ Breaks(r)
    /\ UNCHANGED orderVars

\* How many rows LIMIT and OFFSET leave.
PageSize(p) ==
    LET behind == IF Cardinality(Stored) > p.offset THEN Cardinality(Stored) - p.offset ELSE 0
    IN  IF behind < p.limit THEN behind ELSE p.limit

\* Mutation: has_more without the offset of the page.
PageOfFirst(p, rows, total) == [rows |-> rows, total |-> total, has_more |-> rows < total]

PageOf(p, rows, total) == [rows |-> rows, total |-> total, has_more |-> p.offset + rows < total]

\* The page of find_orders, newest first, and list_orders to its end.
SelectPage(r) ==
    /\ At(r, "list", "page")
    /\ Reply(r, 200, PageOf(asked[r], PageSize(asked[r]), seen[r])) \/ Breaks(r)
    /\ UNCHANGED orderVars

OrderStep(r) ==
    \/ CreateOrder(r) \/ Insert(r) \/ InsertFails(r) \/ Commit(r)
    \/ GetOrder(r) \/ UpdateOrder(r) \/ SelectOrder(r) \/ AnswerGet(r)
    \/ PrepareUpdate(r) \/ WriteUpdate(r)
    \/ CountOrders(r) \/ SelectPage(r)
=============================================================================
