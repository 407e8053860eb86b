---------------------------- MODULE OrderLedger ----------------------------
(***************************************************************************)
(* What the order tables promise to the rest of the shop, whatever the     *)
(* number of checkouts in flight: orders, the stock they took and the      *)
(* coupon uses they made appear together, in one step, and an order that   *)
(* is in the tables stays there.  Checkout.tla refines this module.        *)
(***************************************************************************)
EXTENDS Integers, FiniteSets

CONSTANTS Req,        \* the POST requests; an order's id is the request that made it
          Key,        \* checkout idempotency keys
          NoKey,      \* the order was placed without a key
          Product,
          InitialStock

VARIABLES orders, stock, couponUsed

ledgerVars == <<orders, stock, couponUsed>>

Init ==
  /\ orders = {}
  /\ stock = InitialStock
  /\ couponUsed = 0

(***************************************************************************)
(* An order enters the tables with everything it took: its key is new, the *)
(* stock it took was there, and its coupon use is counted once.            *)
(***************************************************************************)
Place(o) ==
  /\ \A other \in orders : other.id # o.id /\ (o.key # NoKey => other.key # o.key)
  /\ \A p \in Product : o.taken[p] \in 0 .. stock[p]
  /\ orders' = orders \cup {o}
  /\ stock' = [p \in Product |-> stock[p] - o.taken[p]]
  /\ couponUsed' = couponUsed + (IF o.coupon THEN 1 ELSE 0)

Next == \E o \in orders' : Place(o)

Spec == Init /\ [][Next]_ledgerVars
=============================================================================
