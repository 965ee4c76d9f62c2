--------------------------- MODULE MCSampleService ---------------------------
(* Three requests at a time over one order that is there and one that is    *)
(* not, one user, one phone with two codes, and one payment.                *)
EXTENDS SampleService, TLC

CONSTANTS r1, r2, r3, o1, o2, alice, phone1, c1, c2, p1

Basket == <<[quantity |-> 1, price |-> 4000], [quantity |-> 1, price |-> 3000]>>
Overflow == <<[quantity |-> 3, price |-> 40000]>>

Earlier == [version |-> 1, items |-> Basket, tier |-> "vip", coupon |-> "none",
            pricing |-> Pricing(Basket, "none")]

MCBaskets == {Basket, Overflow}

MCEarlierOrders == {[id \in {o1, o2} |-> IF id = o1 THEN Earlier ELSE Absent]}

Create(basket, tier, coupon) ==
    [op |-> "create", valid |-> TRUE, items |-> basket, tier |-> tier, coupon |-> coupon]
Update(id, version, tier, coupon, note) ==
    [op |-> "update", valid |-> TRUE, id |-> id, version |-> version, tier |-> tier,
     coupon |-> coupon, note |-> note]
List(limit, offset) == [op |-> "list", valid |-> TRUE, limit |-> limit, offset |-> offset]

MCOrderPayloads ==
    {Create(Basket, "standard", "SAVE10"), Create(Overflow, "vip", "none"),
     [op |-> "get", valid |-> TRUE, id |-> o1], [op |-> "get", valid |-> TRUE, id |-> o2],
     [op |-> "get", valid |-> FALSE, id |-> o1],
     Update(o1, 1, "standard", Kept, Kept), Update(o1, 1, Kept, "VIP50", Kept),
     Update(o1, 2, "standard", Kept, "given"), Update(o2, 1, Kept, Kept, "given"),
     Update(o1, 1, Kept, Kept, Kept),
     List(1, 0), List(1, 1), List(0, 0)}

MCOtherPayloads ==
    {[op |-> "register", valid |-> TRUE, email |-> alice],
     [op |-> "login", valid |-> TRUE, email |-> alice, password |-> "right", phone |-> phone1,
      code |-> c1],
     [op |-> "login", valid |-> TRUE, email |-> alice, password |-> "wrong", phone |-> phone1,
      code |-> c1],
     [op |-> "sms", valid |-> TRUE, phone |-> phone1, provider |-> TRUE],
     [op |-> "sms", valid |-> TRUE, phone |-> phone1, provider |-> FALSE],
     [op |-> "pay", valid |-> TRUE, order_no |-> p1, provider |-> TRUE],
     [op |-> "callback", valid |-> TRUE, order_no |-> p1, status |-> "SUCCESS"],
     [op |-> "callback", valid |-> TRUE, order_no |-> p1, status |-> "PENDING"],
     [op |-> "callback", valid |-> FALSE, order_no |-> p1, status |-> "SUCCESS"]}

\* The orders share nothing with the accounts and the payments: the requests
\* of a behaviour are all of the one kind or all of the other.
OneKind ==
    \A r, q \in Requests :
        asked[r] # Absent /\ asked[q] # Absent => (asked[r].op \in OrderOps <=> asked[q].op \in OrderOps)

RequestSymmetry == Permutations(Requests)
=============================================================================
