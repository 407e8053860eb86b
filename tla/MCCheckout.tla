---------------------------- MODULE MCCheckout -----------------------------
(***************************************************************************)
(* A small shop for TLC: three requests, two of which may be deliveries of *)
(* one checkout or orders of a journey, or change the cart of a third;     *)
(* two products of which one runs out; a coupon good for one use; one      *)
(* customer there at the start and one not.                                *)
(***************************************************************************)
EXTENDS Checkout, TLC

CONSTANTS r1, r2, r3, k1, e1, e2, s1, p1, p2

L(p, q) == [product |-> p, quantity |-> q]

MCStock == (p1 :> 1) @@ (p2 :> 2)

MCCarts == { s1 :> <<L(p1, 1), L(p2, 2)>> }

In(via, key, email, session, coupon, payload) ==
  [via |-> via, key |-> key, email |-> email, session |-> session, coupon |-> coupon,
   payload |-> payload]

Shop(key, email, session, coupon, payload) == In("shop", key, email, session, coupon, payload)

Cart(via, p) == In(via, NoKey, e1, s1, FALSE, <<L(p, 1)>>)

MCScenarios ==
  LET both     == <<L(p1, 1), L(p2, 1)>>
      reversed == <<L(p2, 1), L(p1, 1)>>
  IN
  { \* a new customer's checkout delivered twice, and another buyer of the same goods
    (r1 :> Shop(k1, e2, NoSession, TRUE, both)) @@ (r2 :> Shop(k1, e2, NoSession, TRUE, both))
      @@ (r3 :> In("orders_api", NoKey, e1, NoSession, FALSE, reversed)),
    \* a checkout delivered twice under two addresses, and another from the same cart
    (r1 :> Shop(k1, e1, s1, TRUE, <<>>)) @@ (r2 :> Shop(k1, e2, s1, FALSE, <<L(p1, 1)>>))
      @@ (r3 :> In("orders_api", NoKey, e2, s1, TRUE, <<>>)),
    \* a checkout delivered again without its session, and the same buyer's other order
    (r1 :> Shop(k1, e1, s1, TRUE, <<>>)) @@ (r2 :> Shop(k1, e1, NoSession, FALSE, <<L(p1, 1)>>))
      @@ (r3 :> In("orders_api", NoKey, e1, NoSession, TRUE, <<L(p2, 1)>>)),
    \* a checkout while another tab adds to its cart and takes out of it
    (r1 :> Shop(k1, e1, s1, FALSE, <<>>)) @@ (r2 :> Cart("add", p2))
      @@ (r3 :> Cart("remove", p1)),
    \* two checkouts of a cart to which a product is added
    (r1 :> Shop(k1, e1, s1, FALSE, <<>>)) @@ (r2 :> Shop(NoKey, e2, s1, FALSE, <<>>))
      @@ (r3 :> Cart("add", p2)),
    \* a product is added again while it is taken out, and a checkout
    (r1 :> Shop(k1, e1, s1, FALSE, <<>>)) @@ (r2 :> Cart("add", p1))
      @@ (r3 :> Cart("remove", p1)),
    \* a journey next to a checkout and an order of the same goods
    (r1 :> In("storyboard", NoKey, e2, NoSession, FALSE, reversed))
      @@ (r2 :> Shop(k1, e1, s1, FALSE, <<>>))
      @@ (r3 :> In("orders_api", NoKey, e2, NoSession, FALSE, both)) }
=============================================================================
