--------------------------------- MODULE Shop ---------------------------------
(***************************************************************************)
(* Buying from the shop: internal/web/server.go (purchase), shop_admin.go  *)
(* (coupons, product administration), merchandising.go (stock) and the     *)
(* refund of delivery.go, on MySQL's default isolation, REPEATABLE READ.   *)
(*                                                                         *)
(* A purchase is one transaction of several statements.  SELECT ... FOR    *)
(* UPDATE locks a row until the transaction ends and reads its latest      *)
(* version; a plain SELECT reads the view of the database that the first   *)
(* plain SELECT of the transaction fixed.  What a purchase writes is its   *)
(* own until it commits, so its actions are its locks and reads, and the   *)
(* commit.  The staff transactions take their locks in the same order and  *)
(* read nothing but locked rows: each of them is one action.               *)
(*                                                                         *)
(* What happens to an order between purchase and refund is the life cycle  *)
(* of OrderLifecycle, which OrderDelivery implements.                      *)
(***************************************************************************)
EXTENDS Integers, FiniteSets, Totals

CONSTANTS
  Accounts, Products, Coupons,
  NoCoupon,      \* the coupon of a request without one
  Buys,          \* purchase requests; an accepted one is known by its order
  Request,       \* what each of them asks for
  ProductForms,  \* what staff may enter in the product form
  Terms,         \* the terms of each coupon
  Opening,       \* credits of each account at the start
  Deltas,        \* stock adjustments staff may enter
  Grants,        \* credit grants staff may enter
  Conns,         \* connections in the pool (10 in store.go)
  MaxStaff       \* bound: staff transactions other than refunds

Requests == [account : Accounts, product : Products, coupon : Coupons \cup {NoCoupon},
             variant : BOOLEAN]
Forms == [active : BOOLEAN, price : Nat, sale : Nat, perAccount : Nat, stock : Nat,
          variant : BOOLEAN, required : BOOLEAN, adjust : Int, bundle : BOOLEAN]
ValidForm(f) == f.price > 0 /\ f.sale < f.price /\ f.price + f.adjust >= 0
CouponTerms == [percent : 0..100, credits : Nat, maxUses : Nat, perAccount : Nat,
                allowSale : BOOLEAN, minimum : Nat, products : SUBSET Products]

ASSUME ShopAssumption ==
  /\ NoCoupon \notin Coupons
  /\ IsFiniteSet(Buys)
  /\ Request \in [Buys -> Requests]
  /\ \A f \in ProductForms : f \in Forms /\ ValidForm(f)
  /\ Terms \in [Coupons -> CouponTerms]
  /\ Opening \in [Accounts -> Nat]
  /\ Deltas \subseteq Int \ {0}
  /\ Grants \subseteq Nat \ {0}
  /\ Conns \in Nat \ {0} /\ MaxStaff \in Nat

VARIABLES
  product,       \* portal_products: the columns of the form
  sold,          \* portal_products.sold_count
  couponActive,  \* portal_coupons.active
  wallet,        \* portal_wallets.balance
  ledger,        \* sum of an account's amounts in portal_credit_ledger
  status, done,  \* portal_orders.status, completed portal_order_steps
  paid,          \* portal_orders.total
  uses,          \* orders with a row in portal_coupon_uses
  phase,         \* how far the handler of each request is
  view,          \* the orders in the view its plain reads see
  total,         \* what it computed
  staffOps,      \* bounded counter
  \* History, read by properties only.
  granted,       \* credits granted to each account
  untracked,     \* products that were once sold without a stock limit
  refused        \* orders whose refund failed in the database

orders  == <<status, done, paid, uses>>
money   == <<wallet, ledger, granted>>
catalog == <<product, sold, couponActive, untracked>>
request == <<phase, view, total>>
vars    == <<orders, money, catalog, request, staffOps, refused>>

Life == INSTANCE OrderLifecycle
          WITH Orders <- Buys, Keys <- {1}, Plan <- [b \in Buys |-> {1}],
               state <- status, done <- done, contested <- {}

OrderStatus == {"absent", "pending", "delivering", "delivered", "review", "refunded"}
Phase == {"new", "product", "limits", "coupon", "wallet", "items", "commit", "done", "failed"}

TypeOK ==
  /\ product \in [Products -> Forms]
  /\ sold \in [Products -> Nat]
  /\ couponActive \in [Coupons -> BOOLEAN]
  /\ wallet \in [Accounts -> Nat]
  /\ ledger \in [Accounts -> Int]
  /\ status \in [Buys -> OrderStatus]
  /\ done \in [Buys -> SUBSET {1}]
  /\ paid \in [Buys -> Nat]
  /\ uses \subseteq Buys
  /\ phase \in [Buys -> Phase]
  /\ view \in [Buys -> SUBSET Buys]
  /\ total \in [Buys -> Nat]
  /\ staffOps \in 0..MaxStaff
  /\ granted \in [Accounts -> Nat]
  /\ untracked \subseteq Products
  /\ refused \subseteq Buys

Account(b) == Request[b].account
Product(b) == Request[b].product
Coupon(b)  == Request[b].coupon

Ordered == {b \in Buys : status[b] # "absent"}
\* The code excludes `failed' too, which nothing writes.
Live == {b \in Buys : status[b] \notin {"absent", "refunded"}}
LiveOf(p) == {b \in Live : Product(b) = p}
Bought(a, p) == {b \in LiveOf(p) : Account(b) = a}

(***************************************************************************)
(* Locks and connections.  Both follow from how far a request is, because  *)
(* only the end of its transaction releases them.                          *)
(***************************************************************************)
\* Mutant: a refused purchase is not rolled back.
HoldsProductForever == {"limits", "coupon", "wallet", "items", "commit", "failed"}
HoldsProduct == {"limits", "coupon", "wallet", "items", "commit"}
HoldsCoupon  == {"wallet", "items", "commit"}
HoldsWallet  == {"items", "commit"}
InTransaction == {"product"} \cup HoldsProduct

\* Mutant: the product is read without FOR UPDATE.
ProductUnlocked(p) == TRUE
ProductFree(p) == \A b \in Buys : Product(b) = p => phase[b] \notin HoldsProduct
CouponFree(c)  == \A b \in Buys : Coupon(b) = c => phase[b] \notin HoldsCoupon
\* Mutant: the wallet is read without FOR UPDATE.
WalletUnlocked(a) == TRUE
WalletFree(a)  == \A b \in Buys : Account(b) = a => phase[b] \notin HoldsWallet
FreeConns == Conns - Cardinality({b \in Buys : phase[b] \in InTransaction})

(* Only a product with a limit has its sales counted.                       *)
Counted(p) == product[p].stock > 0

(***************************************************************************)
(* Prices                                                                  *)
(***************************************************************************)
BasePrice(f) == IF f.sale > 0 /\ f.sale < f.price THEN f.sale ELSE f.price
Subtotal(b) ==
  LET f == product[Product(b)]
  IN  BasePrice(f) + (IF Request[b].variant THEN f.adjust ELSE 0)

Discount(c, subtotal) ==
  LET off == (subtotal * Terms[c].percent) \div 100 + Terms[c].credits
  IN  IF off > subtotal THEN subtotal ELSE off

Price(b) ==
  IF Coupon(b) = NoCoupon THEN Subtotal(b)
                          ELSE Subtotal(b) - Discount(Coupon(b), Subtotal(b))

(***************************************************************************)
(* purchase                                                                *)
(***************************************************************************)
Init ==
  /\ product \in [Products -> ProductForms]
  /\ sold = [p \in Products |-> 0]
  /\ couponActive = [c \in Coupons |-> TRUE]
  /\ wallet = Opening
  /\ ledger = Opening
  /\ status = [b \in Buys |-> "absent"]
  /\ done = [b \in Buys |-> {}]
  /\ paid = [b \in Buys |-> 0]
  /\ uses = {}
  /\ phase = [b \in Buys |-> "new"]
  /\ view = [b \in Buys |-> {}]
  /\ total = [b \in Buys |-> 0]
  /\ staffOps = 0
  /\ granted = [a \in Accounts |-> 0]
  /\ untracked = {p \in Products : product[p].stock = 0}
  /\ refused = {}

Goto(b, p) == phase' = [phase EXCEPT ![b] = p]

(* The transaction ends, and with it its view. *)
Leave(b, p) ==
  /\ phase' = [phase EXCEPT ![b] = p]
  /\ view' = [view EXCEPT ![b] = {}]
  /\ total' = [total EXCEPT ![b] = 0]
Fail(b) == Leave(b, "failed")

Begin(b) ==
  /\ phase[b] = "new"
  /\ FreeConns > 0
  /\ Goto(b, "product")
  /\ UNCHANGED <<orders, money, catalog, view, total, staffOps, refused>>

LockProduct(b) ==
  /\ phase[b] = "product"
  /\ ProductFree(Product(b))
  /\ \/ product[Product(b)].active /\ Goto(b, "limits") /\ UNCHANGED <<view, total>>
     \/ ~product[Product(b)].active /\ Fail(b)
  /\ UNCHANGED <<orders, money, catalog, staffOps, refused>>

(* The account limit and the variant are plain reads: the first of them     *)
(* fixes the view.  A request that needs neither goes on without one.       *)
FixesView(b) == product[Product(b)].perAccount > 0 \/ Request[b].variant

WithinLimits(b) ==
  LET f == product[Product(b)]
  IN  /\ f.perAccount = 0 \/ Cardinality(Bought(Account(b), Product(b))) < f.perAccount
      /\ f.stock = 0 \/ sold[Product(b)] < f.stock
      /\ IF Request[b].variant THEN f.variant ELSE ~f.required
      /\ Subtotal(b) >= 0

CheckLimits(b) ==
  /\ phase[b] = "limits"
  /\ \/ /\ WithinLimits(b)
        /\ Goto(b, "coupon")
        /\ view' = [view EXCEPT ![b] = IF FixesView(b) THEN Ordered ELSE {}]
        /\ UNCHANGED total
     \/ ~WithinLimits(b) /\ Fail(b)
  /\ UNCHANGED <<orders, money, catalog, staffOps, refused>>

(* The uses the two COUNTs of applyCoupon see.  They are plain reads too:   *)
(* locking the coupon's row does not renew a view fixed before.             *)
Seen(b) == IF FixesView(b) THEN uses \cap view[b] ELSE uses

\* Mutant: one use too many.
CouponAllowsOneMore(b, seen) ==
  LET t == Terms[Coupon(b)]
      of == {o \in seen : Coupon(o) = Coupon(b)}
  IN  t.maxUses = 0 \/ Cardinality(of) <= t.maxUses
CouponAllows(b, seen) ==
  LET t == Terms[Coupon(b)]
      of == {o \in seen : Coupon(o) = Coupon(b)}
  IN  /\ couponActive[Coupon(b)]
      /\ t.maxUses = 0 \/ Cardinality(of) < t.maxUses
      /\ t.perAccount = 0 \/ Cardinality({o \in of : Account(o) = Account(b)}) < t.perAccount
      /\ product[Product(b)].sale = 0 \/ t.allowSale
      /\ Subtotal(b) >= t.minimum
      /\ Product(b) \in t.products

ApplyCoupon(b) ==
  /\ phase[b] = "coupon"
  /\ Coupon(b) # NoCoupon => CouponFree(Coupon(b))
  /\ \/ /\ Coupon(b) # NoCoupon => CouponAllows(b, Seen(b))
        /\ total' = [total EXCEPT ![b] = Price(b)]
        /\ Goto(b, "wallet")
        /\ UNCHANGED view
     \/ /\ Coupon(b) # NoCoupon /\ ~CouponAllows(b, Seen(b))
        /\ Fail(b)
  /\ UNCHANGED <<orders, money, catalog, staffOps, refused>>

LockWallet(b) ==
  /\ phase[b] = "wallet"
  /\ WalletFree(Account(b))
  /\ \/ wallet[Account(b)] >= total[b] /\ Goto(b, "items") /\ UNCHANGED <<view, total>>
     \/ wallet[Account(b)] < total[b] /\ Fail(b)
  /\ UNCHANGED <<orders, money, catalog, staffOps, refused>>

(* The item snapshot.  The items of a reusable bundle are read outside the  *)
(* transaction, on a second connection from the same pool.                  *)
LoadItems(b) ==
  /\ phase[b] = "items"
  /\ product[Product(b)].bundle => FreeConns > 0
  /\ Goto(b, "commit")
  /\ UNCHANGED <<orders, money, catalog, view, total, staffOps, refused>>

(* Everything the transaction wrote; the stock is counted last.             *)
Commit(b) ==
  LET a == Account(b)
      p == Product(b)
  IN  /\ phase[b] = "commit"
      /\ Counted(p) => sold[p] < product[p].stock
      /\ status' = [status EXCEPT ![b] = "pending"]
      /\ paid' = [paid EXCEPT ![b] = total[b]]
      /\ wallet' = [wallet EXCEPT ![a] = @ - total[b]]
      /\ ledger' = [ledger EXCEPT ![a] = @ - total[b]]
      /\ uses' = IF Coupon(b) = NoCoupon THEN uses ELSE uses \cup {b}
      /\ sold' = IF Counted(p) THEN [sold EXCEPT ![p] = @ + 1] ELSE sold
      /\ Leave(b, "done")
      /\ UNCHANGED <<done, granted, product, couponActive, untracked, staffOps, refused>>

(* The remaining ways out of the transaction, all of them through its       *)
(* deferred Rollback: the character is online or of the wrong class, a      *)
(* statement fails, the client is gone, the stock ran out after all.        *)
Abandon(b) ==
  /\ phase[b] \in InTransaction
  /\ Fail(b)
  /\ UNCHANGED <<orders, money, catalog, staffOps, refused>>

(***************************************************************************)
(* Staff                                                                   *)
(***************************************************************************)
Staff == FreeConns > 0 /\ staffOps < MaxStaff /\ staffOps' = staffOps + 1

(* The form carries every column but sold_count, whatever was sold so far.  *)
SaveProduct(p, f) ==
  /\ Staff
  /\ ProductFree(p)
  /\ product' = [product EXCEPT ![p] = f]
  /\ untracked' = IF f.stock = 0 THEN untracked \cup {p} ELSE untracked
  /\ UNCHANGED <<orders, money, sold, couponActive, request, refused>>

ArchiveProduct(p) ==
  /\ Staff
  /\ ProductFree(p)
  /\ product' = [product EXCEPT ![p].active = FALSE]
  /\ UNCHANGED <<orders, money, sold, couponActive, untracked, request, refused>>

(* Taking away all the stock of a product nothing was sold of passes the    *)
(* check and leaves the limit 0, which means no limit.                      *)
AdjustStock(p, d) ==
  LET left == product[p].stock + d
  IN  /\ Staff
      /\ ProductFree(p)
      /\ product[p].stock > 0
      /\ left >= sold[p]
      /\ product' = [product EXCEPT ![p].stock = left]
      /\ untracked' = IF left = 0 THEN untracked \cup {p} ELSE untracked
      /\ UNCHANGED <<orders, money, sold, couponActive, request, refused>>

DisableCoupon(c) ==
  /\ Staff
  /\ CouponFree(c)
  /\ couponActive' = [couponActive EXCEPT ![c] = FALSE]
  /\ UNCHANGED <<orders, money, product, sold, untracked, request, refused>>

GrantCredits(a, n) ==
  /\ Staff
  /\ WalletFree(a)
  /\ wallet' = [wallet EXCEPT ![a] = @ + n]
  /\ ledger' = [ledger EXCEPT ![a] = @ + n]
  /\ granted' = [granted EXCEPT ![a] = @ + n]
  /\ UNCHANGED <<orders, catalog, request, refused>>

\* Mutant: refunds orders that were fulfilled in part.
RefundableFulfilled(b) == status[b] \in {"pending", "review"}
Refundable(b) == status[b] \in {"pending", "review"} /\ done[b] = {}

(* sold_count is unsigned: GREATEST(sold_count-1,0) of 0 is an error, not 0. *)
\* Mutant: it counts below zero.
RefundPasses(b) == FALSE
RefundFails(b) == Counted(Product(b)) /\ sold[Product(b)] = 0
\* Mutant: the reservation is kept.
SoldKeptOnRefund(p) == sold[p]
SoldAfterRefund(p) == IF Counted(p) THEN sold[p] - 1 ELSE sold[p]

Refund(b) ==
  LET a == Account(b)
      p == Product(b)
  IN  /\ FreeConns > 0
      /\ ProductFree(p)
      /\ WalletFree(a)
      /\ Refundable(b)
      /\ \/ /\ RefundFails(b)
            /\ refused' = refused \cup {b}
            /\ UNCHANGED <<orders, money, sold>>
         \/ /\ ~RefundFails(b)
            /\ status' = [status EXCEPT ![b] = "refunded"]
            /\ wallet' = [wallet EXCEPT ![a] = @ + paid[b]]
            /\ ledger' = [ledger EXCEPT ![a] = @ + paid[b]]
            /\ sold' = [sold EXCEPT ![p] = SoldAfterRefund(p)]
            /\ UNCHANGED <<done, paid, uses, granted, refused>>
      /\ UNCHANGED <<product, couponActive, untracked, request, staffOps>>

(***************************************************************************)
(* The delivery of accepted orders, as OrderLifecycle promises it.         *)
(***************************************************************************)
Deliver(b) ==
  /\ \/ Life!Claim(b) \/ Life!Fulfil(b, 1) \/ Life!Park({b}) \/ Life!Requeue(b)
     \/ Life!Reconcile(b, 1) \/ Life!Deliver(b)
  /\ UNCHANGED <<paid, uses, money, catalog, request, staffOps, refused>>

Purchase(b) ==
  \/ Begin(b) \/ LockProduct(b) \/ CheckLimits(b) \/ ApplyCoupon(b)
  \/ LockWallet(b) \/ LoadItems(b) \/ Commit(b)

Next ==
  \/ \E b \in Buys : Purchase(b) \/ Abandon(b) \/ Refund(b) \/ Deliver(b)
  \/ \E p \in Products :
       \/ \E f \in ProductForms : SaveProduct(p, f)
       \/ ArchiveProduct(p)
       \/ \E d \in Deltas : AdjustStock(p, d)
  \/ \E c \in Coupons : DisableCoupon(c)
  \/ \E a \in Accounts, n \in Grants : GrantCredits(a, n)

(* The database grants a lock once it is free, the pool a connection, and a *)
(* handler that nothing interrupts runs to its end.  That staff or the      *)
(* delivery act is not assumed.                                             *)
Spec == Init /\ [][Next]_vars /\ \A b \in Buys : WF_vars(Purchase(b))

(***************************************************************************)
(* Properties                                                              *)
(***************************************************************************)
Spent(a) == Total(paid, {b \in Live : Account(b) = a})

(* No credit appears or disappears: an account has what it had and was      *)
(* granted, less what its orders cost that were not refunded, and it never  *)
(* spends more than that, whatever purchases of any products, refunds,      *)
(* grants and price changes meet at its wallet; the ledger of               *)
(* portal_credit_ledger explains every balance.                             *)
Balanced ==
  \A a \in Accounts : /\ wallet[a] = ledger[a]
                      /\ wallet[a] + Spent(a) = Opening[a] + granted[a]
                      /\ Spent(a) <= Opening[a] + granted[a]

NewOrder(b) == status[b] = "absent" /\ status'[b] # "absent"

(* The account limit still holds when the order is committed, several       *)
(* statements after it was checked: a player's parallel requests cannot     *)
(* pass the check together.                                                 *)
AccountLimitKept ==
  [][\A b \in Buys : NewOrder(b) =>
       LET limit == product[Product(b)].perAccount
       IN  limit = 0 \/ Cardinality(Bought(Account(b), Product(b))) < limit]_vars

(* sold_count is the number of orders that still hold a unit, as long as    *)
(* the product always had a limit.  While it has none neither purchase nor  *)
(* refund counts, and the two no longer match for good.                     *)
SoldCounted ==
  \A p \in Products \ untracked : sold[p] = Cardinality(LiveOf(p))

(* A product with a limit is never sold above it, whatever staff change     *)
(* between the check and the commit.                                        *)
NoOversell ==
  [][\A b \in Buys : NewOrder(b) /\ Product(b) \notin untracked =>
       Cardinality(LiveOf(Product(b))) < product[Product(b)].stock]_vars

(* The database refuses a refund that staff may give only for a product that  *)
(* once was sold without a limit: elsewhere sold_count, which is unsigned, is *)
(* above 0 while an order of the product can be refunded.                     *)
RefusalsExplained == \A b \in refused : Product(b) \in untracked

(* Units of a limited product are neither lost nor sold twice by purchases,   *)
(* refunds, adjustments and product forms that overlap: all of these.         *)
StockKept == [](SoldCounted /\ RefusalsExplained) /\ NoOversell

UsesOf(c) == {b \in uses : Coupon(b) = c}
Sold(c) == {Product(b) : b \in UsesOf(c)}

(* A coupon is not used more often than its terms say.  The code does not   *)
(* keep this: see CouponKeptOnOneProduct.                                   *)
CouponKept ==
  \A c \in Coupons : Terms[c].maxUses > 0 => Cardinality(UsesOf(c)) <= Terms[c].maxUses

(* What the code does keep: the limit of a coupon used for one product.     *)
(* The lock on the product's row makes the purchases of one product follow  *)
(* each other, and each fixes its view after it has that lock.              *)
CouponKeptOnOneProduct ==
  \A c \in Coupons :
    Terms[c].maxUses > 0 /\ Cardinality(Sold(c)) <= 1
      => Cardinality(UsesOf(c)) <= Terms[c].maxUses

(* Purchase and refund change an order only as its life cycle allows, the   *)
(* life cycle that the delivery loops implement.                            *)
FollowsLifecycle == Life!LifecycleSpec

(* Every request ends: requests never wait for each other's locks or        *)
(* connections in a circle, provided the pool has more connections than     *)
(* requests at work.                                                        *)
PurchasesEnd == <>(\A b \in Buys : phase[b] \in {"done", "failed"})
==============================================================================
