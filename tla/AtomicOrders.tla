---------------------------- MODULE AtomicOrders -----------------------------
(***************************************************************************)
(* What the order handlers of sample-projects/src/main.rs promise to       *)
(* concurrent clients: every request takes effect at one moment. A create  *)
(* adds a whole order; a get returns a whole order; an update is a         *)
(* compare-and-set on the version, applied to the order it was compared    *)
(* with. An answer 500 leaves open whether the request took effect.        *)
(***************************************************************************)
EXTENDS OrderPricing

CONSTANTS Requests, Absent, Ids, Payloads

VARIABLES
    orders,     \* orders[id]: the order, or Absent
    stored,     \* whether orders are stored at all
    asked,      \* asked[r]: the payload of request r
    decided,    \* decided[r]: the answer to r, once it is determined
    answered    \* the requests whose client has the answer

vars == <<orders, stored, asked, decided, answered>>

Says(status, order) == [status |-> status, body |-> order]

\* What is stored at the start was stored before.
Init ==
    /\ \A id \in Ids : orders[id] # Absent =>
            orders[id].pricing = Pricing(orders[id].items, orders[id].coupon)
    /\ stored \in BOOLEAN
    /\ asked = [r \in Requests |-> Absent]
    /\ decided = [r \in Requests |-> Absent]
    /\ answered = {}

Ask(r) ==
    /\ asked[r] = Absent
    /\ \E p \in Payloads : asked' = [asked EXCEPT ![r] = p]
    /\ UNCHANGED <<orders, stored, decided, answered>>

\* The order that a create asks for.
Ordered(p) ==
    [version |-> 1, items |-> p.items, tier |-> p.tier, coupon |-> p.coupon,
     pricing |-> Pricing(p.items, p.coupon)]

Orderly(p) == p.valid /\ PricingStatus(p.items, p.coupon, p.tier) = 200

\* An order that is updated, from the version that the request names.
Writes(id, p) ==
    /\ orders[id] # Absent
    /\ p.version = orders[id].version
    /\ UpdateStatus(orders[id], p) = 200

\* The effect of a request that succeeds, on the order with this id.
Effect(p, id) ==
    \/ p.op = "create" /\ Orderly(p) /\ orders[id] = Absent
       /\ orders' = [orders EXCEPT ![id] = Ordered(p)]
    \/ p.op = "update" /\ p.valid /\ p.id = id /\ Writes(id, p)
       /\ orders' = [orders EXCEPT ![id] = Updated(@, p)]

Success(op) == IF op = "create" THEN 201 ELSE 200

\* The errors that the orders, as they are now, justify.
Rejections(p) ==
    CASE p.op = "create" ->
            {PricingStatus(p.items, p.coupon, p.tier)}
                \cup {status \in {409} : \E id \in Ids : orders[id] # Absent}
      [] p.op # "create" /\ orders[p.id] = Absent -> {404}
      [] p.op = "update" /\ orders[p.id] # Absent ->
            IF p.version # orders[p.id].version THEN {409}
            ELSE {UpdateStatus(orders[p.id], p)}
      [] OTHER -> {}

\* The errors that the request itself justifies.
Refusals(p) ==
    {500} \cup {status \in {503} : ~stored /\ p.op # "create"}
          \cup {status \in {400} : ~p.valid \/ (p.op = "update" /\ NothingGiven(p))}

Decide(r, reply) ==
    /\ asked[r] # Absent /\ decided[r] = Absent
    /\ decided' = [decided EXCEPT ![r] = reply]
    /\ answered' \in {answered, answered \cup {r}}
    /\ UNCHANGED <<stored, asked>>

Succeed(r, id) ==
    /\ asked[r] # Absent /\ stored
    /\ Effect(asked[r], id)
    /\ \/ Decide(r, Says(Success(asked[r].op), orders'[id]))
       \/ Decide(r, Says(500, Absent))

\* Without a database a create is answered and nothing is stored.
Pretend(r) ==
    /\ asked[r] # Absent /\ ~stored
    /\ asked[r].op = "create" /\ Orderly(asked[r])
    /\ Decide(r, Says(201, Ordered(asked[r])))
    /\ UNCHANGED orders

Find(r) ==
    /\ asked[r] # Absent /\ stored
    /\ asked[r].op = "get" /\ orders[asked[r].id] # Absent
    /\ Decide(r, Says(200, orders[asked[r].id]))
    /\ UNCHANGED orders

Reject(r) ==
    /\ asked[r] # Absent
    /\ \E status \in (Rejections(asked[r]) \cup Refusals(asked[r])) \ {200} :
        Decide(r, Says(status, Absent))
    /\ UNCHANGED orders

\* What was determined reaches the client, or an error in its place.
Deliver(r) ==
    /\ decided[r] # Absent /\ r \notin answered
    /\ decided' \in {decided, [decided EXCEPT ![r] = Says(500, Absent)]}
    /\ answered' = answered \cup {r}
    /\ UNCHANGED <<orders, stored, asked>>

Next ==
    \E r \in Requests :
        \/ Ask(r) \/ Pretend(r) \/ Find(r) \/ Reject(r) \/ Deliver(r)
        \/ \E id \in Ids : Succeed(r, id)

Spec == Init /\ [][Next]_vars
=============================================================================
