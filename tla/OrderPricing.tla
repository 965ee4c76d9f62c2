---------------------------- MODULE OrderPricing -----------------------------
(***************************************************************************)
(* The pure part of the orders of sample-projects/src/main.rs: what the    *)
(* service charges for a basket under a coupon and a tier, and what an     *)
(* order becomes by an update. Amounts are cents in u64; MaxU64 is the     *)
(* largest of them. An item is [quantity, price]; its sku is left out.     *)
(***************************************************************************)
EXTENDS Naturals, Sequences

CONSTANT
    MaxU64      \* the largest u64

ASSUME MaxU64Assumption == MaxU64 \in Nat

Tiers == {"none", "standard", "vip"}
Coupons == {"none", "SAVE10", "VIP50", "OTHER"}

\* A field that an update does not give.
Kept == "kept"

\* normalize_order_items: one item at least, no quantity or price of 0.
Orderable(items) ==
    items # <<>> /\ \A i \in DOMAIN items : items[i].quantity > 0 /\ items[i].price > 0

\* The sum of a sequence of numbers.
Total(s) ==
    LET sum[n \in 0 .. Len(s)] == IF n = 0 THEN 0 ELSE sum[n - 1] + s[n]
    IN  sum[Len(s)]

ItemCount(items) == Total([i \in DOMAIN items |-> items[i].quantity])

Subtotal(items) == Total([i \in DOMAIN items |-> items[i].quantity * items[i].price])

\* compute_order_discount: whether it is Ok, and with what.
CouponApplies(coupon, tier) ==
    \/ coupon \in {"none", "SAVE10"}
    \/ coupon = "VIP50" /\ tier = "vip"

Discount(subtotal, coupon) ==
    CASE coupon = "SAVE10" -> subtotal \div 10
      [] coupon = "VIP50" -> IF subtotal < 5000 THEN subtotal ELSE 5000
      [] OTHER -> 0

ShippingFee(count, discounted) == IF count >= 3 \/ discounted >= 10000 THEN 0 ELSE 1200

\* What build_order_pricing returns when it is Ok, without the count of skus.
Pricing(items, coupon) ==
    LET subtotal == Subtotal(items)
        discount == Discount(subtotal, coupon)
        shipping == ShippingFee(ItemCount(items), subtotal - discount)
    IN  [subtotal |-> subtotal, discount |-> discount, shipping_fee |-> shipping,
         payable_total |-> subtotal - discount + shipping]

\* The status of the error of normalize_order_items and build_order_pricing,
\* or 200. Every sum and product is checked for overflow; of several errors the
\* one that the code meets first may be another. The check that a discount does
\* not exceed its subtotal is left out: it never fails (DiscountNeverExceeds).
PricingStatus(items, coupon, tier) ==
    CASE ~Orderable(items) -> 400
      [] Subtotal(items) > MaxU64 -> 500
      [] ~CouponApplies(coupon, tier) -> 400
      [] Pricing(items, coupon).payable_total > MaxU64 -> 500
      [] OTHER -> 200

Given(field, current) == IF field = Kept THEN current ELSE field

NothingGiven(update) == {update.tier, update.coupon, update.note} = {Kept}

\* update_order_record: the order with the fields that the update gives, at
\* the next version, priced anew. The note is left out.
Updated(order, update) ==
    LET coupon == Given(update.coupon, order.coupon)
    IN  [order EXCEPT
            !.version = @ + 1,
            !.tier = Given(update.tier, @),
            !.coupon = coupon,
            !.pricing = Pricing(order.items, coupon)]

\* Mutation: the coupon is not checked again when the update does not give it.
UpdateStatusIfGiven(order, update) ==
    IF update.coupon = Kept THEN 200
    ELSE PricingStatus(order.items, update.coupon, Given(update.tier, order.tier))

UpdateStatus(order, update) ==
    PricingStatus(order.items, Given(update.coupon, order.coupon), Given(update.tier, order.tier))
=============================================================================
