-------------------------------- MODULE MCShop --------------------------------
(* Instances of Shop.  One form limits what an account may buy, the other   *)
(* limits the stock and sells a bundle.                                     *)
EXTENDS Shop, TLC

CONSTANTS a1, a2, p1, p2, c1, b1, b2, b3

Req(a, p, c, v) == [account |-> a, product |-> p, coupon |-> c, variant |-> v]
(* a1 asks for p1 with and without the coupon, a2 with it. *)
MCRequest ==
  [b \in Buys |-> CASE b = b1 -> Req(a1, p1, c1, FALSE)
                     [] b = b2 -> Req(a1, p1, NoCoupon, TRUE)
                     [] b = b3 -> Req(a2, p1, c1, FALSE)]

(* Every two of the requests have one row to wait for, and each two another. *)
MCCrossing ==
  [b \in Buys |-> CASE b = b1 -> Req(a1, p1, c1, FALSE)
                     [] b = b2 -> Req(a1, p2, NoCoupon, TRUE)
                     [] b = b3 -> Req(a2, p2, c1, FALSE)]

Form(price, sale, limit, stock, bundle) ==
  [active |-> TRUE, price |-> price, sale |-> sale, perAccount |-> limit, stock |-> stock,
   variant |-> TRUE, required |-> FALSE, adjust |-> 1, bundle |-> bundle]
MCForms == {Form(2, 0, 1, 0, FALSE), Form(2, 1, 0, 1, TRUE)}

MCTerms == c1 :> [percent |-> 50, credits |-> 0, maxUses |-> 1, perAccount |-> 1,
                  allowSale |-> TRUE, minimum |-> 1, products |-> Products]
MCOpening == a1 :> 3 @@ a2 :> 2
MCDeltas == {-1, 1}
==============================================================================
