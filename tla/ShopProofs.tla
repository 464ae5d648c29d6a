------------------------------ MODULE ShopProofs ------------------------------
(***************************************************************************)
(* What holds of Shop for every catalog, every set of accounts, coupons    *)
(* and purchase requests, and any number of connections and staff actions. *)
(***************************************************************************)
EXTENDS Shop, TotalsProofs, FiniteSetTheorems, FunctionTheorems, TLAPS

(***************************************************************************)
(* The parts of the inductive invariant that are not properties themselves.*)
(***************************************************************************)
(* At most one request holds the lock of a row.                             *)
Exclusive ==
  \A b, c \in Buys :
    /\ Product(b) = Product(c) /\ phase[b] \in HoldsProduct /\ phase[c] \in HoldsProduct => b = c
    /\ Coupon(b) = Coupon(c) /\ Coupon(b) # NoCoupon
         /\ phase[b] \in HoldsCoupon /\ phase[c] \in HoldsCoupon => b = c
    /\ Account(b) = Account(c) /\ phase[b] \in HoldsWallet /\ phase[c] \in HoldsWallet => b = c

(* Orders are those of the requests that committed, and only orders used    *)
(* coupons.                                                                 *)
Accepted ==
  /\ \A b \in Buys : phase[b] = "done" <=> status[b] # "absent"
  /\ \A b \in uses : status[b] # "absent"

(* What a request has checked stays true while it holds the row's lock: the *)
(* price is not negative, the account may buy one more, the wallet suffices.*)
Priced == \A b \in Buys : phase[b] = "coupon" => Subtotal(b) >= 0
RoomForOne(b) ==
  LET limit == product[Product(b)].perAccount
  IN  limit = 0 \/ Cardinality(Bought(Account(b), Product(b))) < limit
LimitHeld == \A b \in Buys : phase[b] \in HoldsProduct \ {"limits"} => RoomForOne(b)
Funded == \A b \in Buys : phase[b] \in HoldsWallet => wallet[Account(b)] >= total[b]

(* A product without a limit is known to have been sold without one.        *)
Tracked == \A p \in Products : product[p].stock = 0 => p \in untracked

(* The view a coupon is checked in holds every use of the coupon for the    *)
(* same product: the view is younger than the lock of the product.          *)
ViewCurrent ==
  \A b \in Buys : phase[b] = "coupon" /\ FixesView(b) =>
    \A u \in uses : Product(u) = Product(b) => u \in view[b]

(* Behind that check one more use is allowed, unless the coupon is used for *)
(* other products as well.                                                  *)
CouponRoom ==
  \A b \in Buys :
    /\ phase[b] \in HoldsCoupon /\ Coupon(b) # NoCoupon /\ Terms[Coupon(b)].maxUses > 0
    /\ \A u \in UsesOf(Coupon(b)) : Product(u) = Product(b)
    => Cardinality(UsesOf(Coupon(b))) < Terms[Coupon(b)].maxUses

-----------------------------------------------------------------------------
(***************************************************************************)
(* What the requests ask for, and what an action does to single rows.      *)
(***************************************************************************)
LEMMA Asked ==
  ASSUME NEW b \in Buys
  PROVE  /\ Account(b) \in Accounts /\ Product(b) \in Products
         /\ Coupon(b) \in Coupons \cup {NoCoupon} /\ Request[b].variant \in BOOLEAN
  BY ShopAssumption DEF Requests, Account, Product, Coupon

(* Everything a request does before its commit is to itself, and it takes   *)
(* a lock only if nobody else has it.                                       *)
Quiet(b) ==
  Begin(b) \/ LockProduct(b) \/ CheckLimits(b) \/ ApplyCoupon(b) \/ LockWallet(b)
    \/ LoadItems(b) \/ Abandon(b)

LEMMA QuietEffect ==
  ASSUME TypeOK, NEW b \in Buys, Quiet(b)
  PROVE  /\ UNCHANGED <<product, sold, couponActive, untracked, wallet, ledger, granted,
                        status, done, paid, uses, staffOps, refused>>
         /\ phase' \in [Buys -> Phase] /\ view' \in [Buys -> SUBSET Buys]
         /\ phase[b] # "done" /\ phase'[b] # "done"
         /\ \A c \in Buys \ {b} : /\ phase'[c] = phase[c] /\ view'[c] = view[c]
                                  /\ total'[c] = total[c]
         /\ phase'[b] \in HoldsProduct /\ phase[b] \notin HoldsProduct => ProductFree(Product(b))
         /\ phase'[b] \in HoldsCoupon /\ phase[b] \notin HoldsCoupon /\ Coupon(b) # NoCoupon
              => CouponFree(Coupon(b))
         /\ phase'[b] \in HoldsWallet /\ phase[b] \notin HoldsWallet => WalletFree(Account(b))
  <1> USE DEF Goto, Fail, Leave, orders, money, catalog, Phase, HoldsProduct, HoldsCoupon,
              HoldsWallet, InTransaction
  <1>0. phase \in [Buys -> Phase] /\ view \in [Buys -> SUBSET Buys] /\ total \in [Buys -> Nat]
    BY DEF TypeOK
  <1>1. CASE Begin(b)  BY <1>0, <1>1 DEF Begin
  <1>2. CASE LockProduct(b)  BY <1>0, <1>2 DEF LockProduct
  <1>3. CASE CheckLimits(b)
    <2>1. Ordered \in SUBSET Buys  BY DEF Ordered
    <2> QED  BY <1>0, <1>3, <2>1 DEF CheckLimits
  <1>4. CASE ApplyCoupon(b)  BY <1>0, <1>4 DEF ApplyCoupon
  <1>5. CASE LockWallet(b)  BY <1>0, <1>5 DEF LockWallet
  <1>6. CASE LoadItems(b)  BY <1>0, <1>6 DEF LoadItems
  <1>7. CASE Abandon(b)  BY <1>0, <1>7 DEF Abandon
  <1> QED  BY <1>1, <1>2, <1>3, <1>4, <1>5, <1>6, <1>7 DEF Quiet

(* The delivery moves accepted orders about, but accepts and refunds none.  *)
LEMMA DeliverEffect ==
  ASSUME TypeOK, NEW b \in Buys, Deliver(b)
  PROVE  /\ UNCHANGED <<product, sold, couponActive, untracked, wallet, ledger, granted,
                        paid, uses, staffOps, refused, phase, view, total>>
         /\ status' \in [Buys -> OrderStatus] /\ done' \in [Buys -> SUBSET {1}]
         /\ \A c \in Buys : /\ status'[c] = "absent" <=> status[c] = "absent"
                            /\ status'[c] = "refunded" <=> status[c] = "refunded"
  <1> USE DEF OrderStatus
  <1>0. status \in [Buys -> OrderStatus] /\ done \in [Buys -> SUBSET {1}]  BY DEF TypeOK
  <1>1. UNCHANGED <<product, sold, couponActive, untracked, wallet, ledger, granted,
                    paid, uses, staffOps, refused, phase, view, total>>
    BY DEF Deliver, money, catalog, request
  <1>2. CASE Life!Claim(b)  BY <1>0, <1>1, <1>2 DEF Life!Claim
  <1>3. CASE Life!Fulfil(b, 1)  BY <1>0, <1>1, <1>3 DEF Life!Fulfil
  <1>4. CASE Life!Park({b})  BY <1>0, <1>1, <1>4 DEF Life!Park
  <1>5. CASE Life!Requeue(b)  BY <1>0, <1>1, <1>5 DEF Life!Requeue
  <1>6. CASE Life!Reconcile(b, 1)  BY <1>0, <1>1, <1>6 DEF Life!Reconcile, Life!Open
  <1>7. CASE Life!Deliver(b)  BY <1>0, <1>1, <1>7 DEF Life!Deliver
  <1> QED  BY <1>2, <1>3, <1>4, <1>5, <1>6, <1>7 DEF Deliver

(* What staff do, requests and orders do not notice, except that the form   *)
(* and the stock of a product nobody is buying change.                      *)
StaffStep ==
  \/ \E p \in Products : \/ \E f \in ProductForms : SaveProduct(p, f)
                         \/ ArchiveProduct(p)
                         \/ \E d \in Deltas : AdjustStock(p, d)
  \/ \E c \in Coupons : DisableCoupon(c)
  \/ \E a \in Accounts, n \in Grants : GrantCredits(a, n)

LEMMA AdjustedForm ==
  ASSUME NEW f \in Forms
  PROVE  /\ [f EXCEPT !.active = FALSE] \in Forms
         /\ [f EXCEPT !.active = FALSE].stock = f.stock
         /\ \A n \in Nat : /\ [f EXCEPT !.stock = n] \in Forms
                           /\ [f EXCEPT !.stock = n].stock = n
  BY DEF Forms

LEMMA StaffEffect ==
  ASSUME TypeOK, StaffStep
  PROVE  /\ UNCHANGED <<sold, status, done, paid, uses, refused, phase, view, total>>
         /\ product' \in [Products -> Forms] /\ couponActive' \in [Coupons -> BOOLEAN]
         /\ wallet' \in [Accounts -> Nat] /\ ledger' \in [Accounts -> Int]
         /\ granted' \in [Accounts -> Nat] /\ staffOps' \in 0..MaxStaff
         /\ untracked \subseteq untracked' /\ untracked' \subseteq Products
         /\ \A a \in Accounts : /\ wallet'[a] >= wallet[a]
                                /\ wallet'[a] - wallet[a] = ledger'[a] - ledger[a]
         /\ \A p \in Products : /\ product'[p] # product[p] => ProductFree(p)
                                /\ product'[p].stock # product[p].stock /\ product'[p].stock = 0
                                     => p \in untracked'
  <1> USE DEF orders, money, request, Staff
  <1>0. /\ product \in [Products -> Forms] /\ sold \in [Products -> Nat]
        /\ couponActive \in [Coupons -> BOOLEAN] /\ wallet \in [Accounts -> Nat]
        /\ ledger \in [Accounts -> Int] /\ granted \in [Accounts -> Nat]
        /\ staffOps \in 0..MaxStaff /\ untracked \subseteq Products /\ MaxStaff \in Nat
    BY ShopAssumption DEF TypeOK
  <1>1. CASE \E p \in Products, f \in ProductForms : SaveProduct(p, f)
    <2>1. PICK p \in Products, f \in ProductForms : SaveProduct(p, f)  BY <1>1
    <2>2. f \in Forms  BY ShopAssumption
    <2> QED  BY <1>0, <2>1, <2>2 DEF SaveProduct
  <1>2. CASE \E p \in Products : ArchiveProduct(p)
    <2>1. PICK p \in Products : ArchiveProduct(p)  BY <1>2
    <2> DEFINE f == [product[p] EXCEPT !.active = FALSE]
    <2>2. f \in Forms /\ f.stock = product[p].stock  BY <1>0, AdjustedForm
    <2>3. product' = [product EXCEPT ![p] = f]  BY <2>1 DEF ArchiveProduct
    <2> HIDE DEF f
    <2>4. /\ product' \in [Products -> Forms]
          /\ \A q \in Products : /\ product'[q].stock = product[q].stock
                                 /\ product'[q] # product[q] => q = p
      BY <1>0, <2>2, <2>3
    <2> QED  BY <1>0, <2>1, <2>4 DEF ArchiveProduct
  <1>3. CASE \E p \in Products, d \in Deltas : AdjustStock(p, d)
    <2>1. PICK p \in Products, d \in Deltas : AdjustStock(p, d)  BY <1>3
    <2> DEFINE left == product[p].stock + d
               f == [product[p] EXCEPT !.stock = left]
    <2>2. d \in Int /\ product[p] \in Forms /\ product[p].stock \in Nat
      BY <1>0, ShopAssumption DEF Forms
    <2>3. left \in Nat  BY <1>0, <2>1, <2>2 DEF AdjustStock
    <2>4. f \in Forms /\ f.stock = left  BY <2>2, <2>3, AdjustedForm
    <2>5. product' = [product EXCEPT ![p] = f]  BY <2>1 DEF AdjustStock
    <2> HIDE DEF f
    <2> QED  BY <1>0, <2>1, <2>3, <2>4, <2>5 DEF AdjustStock
  <1>4. CASE \E c \in Coupons : DisableCoupon(c)
    BY <1>0, <1>4 DEF DisableCoupon
  <1>5. CASE \E a \in Accounts, n \in Grants : GrantCredits(a, n)
    <2>1. PICK a \in Accounts, n \in Grants : GrantCredits(a, n)  BY <1>5
    <2>2. n \in Nat  BY ShopAssumption
    <2> QED  BY <1>0, <2>1, <2>2 DEF GrantCredits, catalog
  <1> QED  BY <1>1, <1>2, <1>3, <1>4, <1>5 DEF StaffStep

(* A commit and a refund change one order and one account.                  *)
LEMMA CommitEffect ==
  ASSUME TypeOK, Accepted, Funded, NEW b \in Buys, Commit(b)
  PROVE  /\ UNCHANGED <<product, couponActive, untracked, granted, done, staffOps, refused>>
         /\ phase[b] = "commit" /\ status[b] = "absent"
         /\ phase' = [phase EXCEPT ![b] = "done"] /\ status' = [status EXCEPT ![b] = "pending"]
         /\ view' \in [Buys -> SUBSET Buys] /\ total' \in [Buys -> Nat]
         /\ paid' \in [Buys -> Nat]
         /\ \A c \in Buys \ {b} : total'[c] = total[c] /\ view'[c] = view[c]
         /\ uses' = IF Coupon(b) = NoCoupon THEN uses ELSE uses \cup {b}
         /\ sold' \in [Products -> Nat]
         /\ \A p \in Products :
              sold'[p] = IF p = Product(b) /\ product[p].stock > 0 THEN sold[p] + 1 ELSE sold[p]
         /\ product[Product(b)].stock > 0 => sold[Product(b)] < product[Product(b)].stock
         /\ wallet' \in [Accounts -> Nat] /\ ledger' \in [Accounts -> Int]
         /\ \A a \in Accounts : /\ a # Account(b) => wallet'[a] = wallet[a]
                                /\ wallet'[a] - wallet[a] = ledger'[a] - ledger[a]
  <1>0. /\ Product(b) \in Products /\ Account(b) \in Accounts
        /\ sold \in [Products -> Nat] /\ wallet \in [Accounts -> Nat]
        /\ ledger \in [Accounts -> Int] /\ total \in [Buys -> Nat] /\ paid \in [Buys -> Nat]
        /\ view \in [Buys -> SUBSET Buys]
    BY Asked DEF TypeOK
  <1>1. phase[b] = "commit" /\ status[b] = "absent"  BY DEF Commit, Accepted
  <1>2. wallet[Account(b)] - total[b] \in Nat  BY <1>0, <1>1 DEF Funded, HoldsWallet
  <1>3. /\ sold' \in [Products -> Nat]
        /\ \A p \in Products :
             sold'[p] = IF p = Product(b) /\ product[p].stock > 0 THEN sold[p] + 1 ELSE sold[p]
    BY <1>0 DEF Commit, Counted
  <1>4. /\ wallet' \in [Accounts -> Nat] /\ ledger' \in [Accounts -> Int]
        /\ \A a \in Accounts : /\ a # Account(b) => wallet'[a] = wallet[a]
                               /\ wallet'[a] - wallet[a] = ledger'[a] - ledger[a]
    BY <1>0, <1>2 DEF Commit
  <1> QED  BY <1>0, <1>1, <1>3, <1>4 DEF Commit, Leave, Counted

LEMMA RefundEffect ==
  ASSUME TypeOK, NEW b \in Buys, Refund(b)
  PROVE  /\ UNCHANGED <<product, couponActive, untracked, granted, done, paid, uses, staffOps,
                        phase, view, total>>
         /\ ProductFree(Product(b)) /\ refused' \subseteq Buys
         /\ wallet' \in [Accounts -> Nat] /\ ledger' \in [Accounts -> Int]
         /\ \A a \in Accounts : /\ wallet'[a] >= wallet[a]
                                /\ wallet'[a] - wallet[a] = ledger'[a] - ledger[a]
         /\ sold' \in [Products -> Nat]
         /\ (\/ UNCHANGED <<status, sold>>
             \/ /\ status[b] \in {"pending", "review"}
                /\ status' = [status EXCEPT ![b] = "refunded"]
                /\ \A p \in Products :
                     sold'[p] = IF p = Product(b) /\ product[p].stock > 0 THEN sold[p] - 1
                                                                          ELSE sold[p])
  <1>0. /\ Product(b) \in Products /\ Account(b) \in Accounts
        /\ sold \in [Products -> Nat] /\ wallet \in [Accounts -> Nat]
        /\ ledger \in [Accounts -> Int] /\ paid \in [Buys -> Nat] /\ refused \subseteq Buys
    BY Asked DEF TypeOK
  <1>1. /\ UNCHANGED <<product, couponActive, untracked, granted, done, paid, uses, staffOps,
                       phase, view, total>>
        /\ ProductFree(Product(b)) /\ status[b] \in {"pending", "review"}
    BY DEF Refund, Refundable, orders, money, request
  <1>2. CASE UNCHANGED <<orders, money, sold>> /\ refused' = refused \cup {b}
    BY <1>0, <1>1, <1>2 DEF orders, money
  <1>3. CASE /\ ~RefundFails(b) /\ UNCHANGED refused
             /\ status' = [status EXCEPT ![b] = "refunded"]
             /\ wallet' = [wallet EXCEPT ![Account(b)] = @ + paid[b]]
             /\ ledger' = [ledger EXCEPT ![Account(b)] = @ + paid[b]]
             /\ sold' = [sold EXCEPT ![Product(b)] = SoldAfterRefund(Product(b))]
    <2>1. /\ wallet' \in [Accounts -> Nat] /\ ledger' \in [Accounts -> Int]
          /\ \A a \in Accounts : /\ wallet'[a] >= wallet[a]
                                 /\ wallet'[a] - wallet[a] = ledger'[a] - ledger[a]
      BY <1>0, <1>3
    <2>2. /\ sold' \in [Products -> Nat]
          /\ \A p \in Products :
               sold'[p] = IF p = Product(b) /\ product[p].stock > 0 THEN sold[p] - 1
                                                                    ELSE sold[p]
      BY <1>0, <1>3 DEF SoldAfterRefund, RefundFails, Counted
    <2> QED  BY <1>0, <1>1, <1>3, <2>1, <2>2
  <1> QED  BY <1>2, <1>3 DEF Refund

LEMMA NextCases ==
  ASSUME Next
  PROVE  StaffStep \/ \E b \in Buys : Quiet(b) \/ Commit(b) \/ Refund(b) \/ Deliver(b)
  BY DEF Next, Purchase, Quiet, StaffStep
-----------------------------------------------------------------------------
(***************************************************************************)
(* Types, locks and prices.                                                *)
(***************************************************************************)
Core == TypeOK /\ Exclusive /\ Accepted /\ Priced /\ Funded

LEMMA CoreInit == Init => Core
  <1> SUFFICES ASSUME Init PROVE Core  OBVIOUS
  <1>1. TypeOK
    <2>1. ProductForms \subseteq Forms /\ Opening \in [Accounts -> Nat] /\ MaxStaff \in Nat
      BY ShopAssumption
    <2> QED  BY <2>1 DEF Init, TypeOK, OrderStatus, Phase
  <1> QED  BY <1>1 DEF Core, Init, Exclusive, Accepted, Priced, Funded, HoldsProduct, HoldsCoupon,
              HoldsWallet

(* What a coupon takes off is never more than the price.                    *)
LEMMA PriceType ==
  ASSUME TypeOK, NEW b \in Buys, Subtotal(b) >= 0
  PROVE  Subtotal(b) \in Nat /\ Price(b) \in Nat
  <1>1. Subtotal(b) \in Nat
    <2>1. product[Product(b)] \in Forms  BY Asked DEF TypeOK
    <2>2. /\ product[Product(b)].price \in Int /\ product[Product(b)].sale \in Int
          /\ product[Product(b)].adjust \in Int
      BY <2>1 DEF Forms
    <2>3. Subtotal(b) \in Int  BY <2>2 DEF Subtotal, BasePrice
    <2> QED  BY <2>3
  <1>2. CASE Coupon(b) = NoCoupon  BY <1>1, <1>2 DEF Price
  <1>3. CASE Coupon(b) # NoCoupon
    <2> DEFINE t == Terms[Coupon(b)]
               off == (Subtotal(b) * t.percent) \div 100 + t.credits
    <2>1. t \in CouponTerms  BY <1>3, Asked, ShopAssumption
    <2>2. t.percent \in Nat /\ t.credits \in Nat  BY <2>1 DEF CouponTerms
    <2>3. Subtotal(b) * t.percent \in Nat
      <3>1. \A m, n \in Nat : m * n \in Nat  OBVIOUS
      <3> QED  BY <1>1, <2>2, <3>1
    <2>4. off \in Nat
      <3>1. \A m \in Nat : m \div 100 \in Nat  OBVIOUS
      <3> QED  BY <2>2, <2>3, <3>1
    <2> HIDE DEF off
    <2>5. Discount(Coupon(b), Subtotal(b)) = IF off > Subtotal(b) THEN Subtotal(b) ELSE off
      BY DEF Discount, off
    <2> QED  BY <1>1, <1>3, <2>4, <2>5 DEF Price
  <1> QED  BY <1>1, <1>2, <1>3

LEMMA QuietTotal ==
  ASSUME TypeOK, Priced, NEW b \in Buys, Quiet(b)
  PROVE  total' \in [Buys -> Nat]
  <1> USE DEF Goto, Fail, Leave
  <1>1. CASE ApplyCoupon(b)
    <2>1. Price(b) \in Nat  BY <1>1, PriceType DEF ApplyCoupon, Priced
    <2> QED  BY <1>1, <2>1 DEF ApplyCoupon, TypeOK
  <1> QED  BY <1>1 DEF Quiet, TypeOK, Begin, LockProduct, CheckLimits, LockWallet, LoadItems,
              Abandon

(* A request asks for one product, which nobody changes while it is locked. *)
LEMMA SamePrice ==
  ASSUME NEW b \in Buys, product'[Product(b)] = product[Product(b)]
  PROVE  Subtotal(b)' = Subtotal(b)
  BY DEF Subtotal, BasePrice, Product

LEMMA TypeStep == Core /\ Next => TypeOK'
  <1> SUFFICES ASSUME Core, Next PROVE TypeOK'  OBVIOUS
  <1> USE DEF Core
  <1>1. CASE StaffStep  BY <1>1, StaffEffect DEF TypeOK
  <1>2. ASSUME NEW b \in Buys, Quiet(b) PROVE TypeOK'
    BY <1>2, QuietEffect, QuietTotal DEF TypeOK
  <1>3. ASSUME NEW b \in Buys, Commit(b) PROVE TypeOK'
    <2>1. uses' \subseteq Buys  BY <1>3, CommitEffect DEF TypeOK
    <2>2. phase' \in [Buys -> Phase] /\ status' \in [Buys -> OrderStatus]
      BY <1>3, CommitEffect DEF TypeOK, Phase, OrderStatus
    <2> QED  BY <1>3, <2>1, <2>2, CommitEffect DEF TypeOK
  <1>4. ASSUME NEW b \in Buys, Refund(b) PROVE TypeOK'
    <2>1. status' \in [Buys -> OrderStatus]  BY <1>4, RefundEffect DEF TypeOK, OrderStatus
    <2> QED  BY <1>4, <2>1, RefundEffect DEF TypeOK
  <1>5. ASSUME NEW b \in Buys, Deliver(b) PROVE TypeOK'
    BY <1>5, DeliverEffect DEF TypeOK
  <1> QED  BY <1>1, <1>2, <1>3, <1>4, <1>5, NextCases

LEMMA ExclusiveStep == Core /\ Next => Exclusive'
  <1> SUFFICES ASSUME Core, Next PROVE Exclusive'  OBVIOUS
  <1> USE DEF Core
  <1>1. CASE UNCHANGED phase  BY <1>1 DEF Exclusive, Product, Coupon, Account
  <1>2. ASSUME NEW b \in Buys, Quiet(b) PROVE Exclusive'
    <2>1. /\ \A c \in Buys \ {b} : phase'[c] = phase[c]
          /\ phase'[b] \in HoldsProduct /\ phase[b] \notin HoldsProduct => ProductFree(Product(b))
          /\ phase'[b] \in HoldsCoupon /\ phase[b] \notin HoldsCoupon /\ Coupon(b) # NoCoupon
               => CouponFree(Coupon(b))
          /\ phase'[b] \in HoldsWallet /\ phase[b] \notin HoldsWallet => WalletFree(Account(b))
      BY <1>2, QuietEffect
    <2> QED  BY <2>1 DEF Exclusive, ProductFree, CouponFree, WalletFree, Product, Coupon, Account
  <1>3. ASSUME NEW b \in Buys, Commit(b) PROVE Exclusive'
    <2>1. \A c \in Buys : phase'[c] = IF c = b THEN "done" ELSE phase[c]
      BY <1>3, CommitEffect DEF TypeOK
    <2> QED  BY <2>1 DEF Exclusive, HoldsProduct, HoldsCoupon, HoldsWallet, Product, Coupon, Account
  <1> QED  BY <1>1, <1>2, <1>3, NextCases, StaffEffect, RefundEffect, DeliverEffect

LEMMA AcceptedStep == Core /\ Next => Accepted'
  <1> SUFFICES ASSUME Core, Next PROVE Accepted'  OBVIOUS
  <1> USE DEF Core
  <1>0. uses \subseteq Buys /\ status \in [Buys -> OrderStatus] /\ phase \in [Buys -> Phase]
    BY DEF TypeOK
  <1>1. CASE StaffStep  BY <1>1, StaffEffect DEF Accepted
  <1>2. ASSUME NEW b \in Buys, Quiet(b) PROVE Accepted'
    BY <1>2, QuietEffect DEF Accepted
  <1>3. ASSUME NEW b \in Buys, Commit(b) PROVE Accepted'
    <2>1. /\ phase' = [phase EXCEPT ![b] = "done"] /\ status' = [status EXCEPT ![b] = "pending"]
          /\ uses' = IF Coupon(b) = NoCoupon THEN uses ELSE uses \cup {b}
      BY <1>3, CommitEffect
    <2> QED  BY <1>0, <2>1 DEF Accepted
  <1>4. ASSUME NEW b \in Buys, Refund(b) PROVE Accepted'
    <2>1. UNCHANGED <<phase, uses>>  BY <1>4, RefundEffect
    <2>2. \A c \in Buys : status'[c] = "absent" <=> status[c] = "absent"
      BY <1>0, <1>4, RefundEffect
    <2> QED  BY <1>0, <2>1, <2>2 DEF Accepted
  <1>5. ASSUME NEW b \in Buys, Deliver(b) PROVE Accepted'
    BY <1>0, <1>5, DeliverEffect DEF Accepted
  <1> QED  BY <1>1, <1>2, <1>3, <1>4, <1>5, NextCases

LEMMA PricedStep == Core /\ Next => Priced'
  <1> SUFFICES ASSUME Core, Next, NEW c \in Buys, phase'[c] = "coupon" PROVE Subtotal(c)' >= 0
    BY DEF Priced
  <1> USE DEF Core
  <1>1. CASE StaffStep
    <2>1. phase[c] = "coupon"  BY <1>1, StaffEffect
    <2>2. ~ProductFree(Product(c))  BY <2>1 DEF ProductFree, HoldsProduct
    <2>3. product'[Product(c)] = product[Product(c)]  BY <1>1, <2>2, StaffEffect, Asked
    <2> QED  BY <2>1, <2>3, SamePrice DEF Priced
  <1>2. ASSUME NEW b \in Buys, Quiet(b) PROVE Subtotal(c)' >= 0
    <2>1. UNCHANGED product  BY <1>2, QuietEffect
    <2>2. Subtotal(c) >= 0
      <3>1. CASE phase[c] = "coupon"  BY <3>1 DEF Priced
      <3>2. CASE phase[c] # "coupon"
        <4>1. c = b  BY <1>2, <3>2, QuietEffect
        <4>2. CheckLimits(c)
          BY <1>2, <3>2, <4>1 DEF Quiet, TypeOK, Goto, Fail, Leave, Begin, LockProduct, ApplyCoupon,
             LockWallet, LoadItems, Abandon
        <4>3. WithinLimits(c)
          BY <4>2 DEF CheckLimits, Fail, Leave, TypeOK
        <4> QED  BY <4>3 DEF WithinLimits
      <3> QED  BY <3>1, <3>2
    <2> QED  BY <2>1, <2>2, SamePrice
  <1>3. ASSUME NEW b \in Buys, Commit(b) \/ Refund(b) \/ Deliver(b) PROVE Subtotal(c)' >= 0
    <2>1. UNCHANGED product  BY <1>3, CommitEffect, RefundEffect, DeliverEffect
    <2>2. phase[c] = "coupon"
      <3>1. CASE Commit(b)  BY <3>1, CommitEffect DEF TypeOK
      <3> QED  BY <1>3, <3>1, RefundEffect, DeliverEffect
    <2> QED  BY <2>1, <2>2, SamePrice DEF Priced
  <1> QED  BY <1>1, <1>2, <1>3, NextCases

LEMMA FundedStep == Core /\ Next => Funded'
  <1> SUFFICES ASSUME Core, Next, NEW c \in Buys, phase'[c] \in HoldsWallet
               PROVE  wallet'[Account(c)] >= total'[c]
    BY DEF Funded, Account
  <1> USE DEF Core
  <1>0. /\ Account(c) \in Accounts /\ wallet \in [Accounts -> Nat] /\ total \in [Buys -> Nat]
        /\ wallet' \in [Accounts -> Nat] /\ total' \in [Buys -> Nat]
    BY Asked, TypeStep DEF TypeOK
  <1>1. CASE StaffStep
    <2>1. wallet'[Account(c)] >= wallet[Account(c)] /\ UNCHANGED <<phase, total>>
      BY <1>0, <1>1, StaffEffect
    <2> QED  BY <1>0, <2>1 DEF Funded
  <1>2. ASSUME NEW b \in Buys, Quiet(b) PROVE wallet'[Account(c)] >= total'[c]
    <2>1. UNCHANGED wallet  BY <1>2, QuietEffect
    <2>2. CASE c # b  BY <1>2, <2>1, <2>2, QuietEffect DEF Funded
    <2>3. CASE c = b
      <3>1. CASE LockWallet(c)
        BY <3>1, <2>1 DEF LockWallet, Goto, Fail, Leave, TypeOK, HoldsWallet
      <3>2. CASE LoadItems(c)
        BY <3>2, <2>1 DEF LoadItems, Goto, TypeOK, HoldsWallet, Funded
      <3>3. CASE Begin(c) \/ LockProduct(c) \/ CheckLimits(c) \/ ApplyCoupon(c) \/ Abandon(c)
        BY <3>3 DEF Begin, LockProduct, CheckLimits, ApplyCoupon, Abandon, Goto, Fail, Leave,
           TypeOK, HoldsWallet
      <3> QED  BY <1>2, <2>3, <3>1, <3>2, <3>3 DEF Quiet
    <2> QED  BY <2>2, <2>3
  <1>3. ASSUME NEW b \in Buys, Commit(b) PROVE wallet'[Account(c)] >= total'[c]
    <2>1. phase[b] = "commit" /\ phase' = [phase EXCEPT ![b] = "done"]  BY <1>3, CommitEffect
    <2>2. c # b /\ phase[c] \in HoldsWallet  BY <2>1 DEF TypeOK, HoldsWallet
    <2>3. Account(c) # Account(b)  BY <2>1, <2>2 DEF Exclusive, HoldsWallet
    <2> QED  BY <1>0, <1>3, <2>2, <2>3, CommitEffect DEF Funded
  <1>4. ASSUME NEW b \in Buys, Refund(b) \/ Deliver(b) PROVE wallet'[Account(c)] >= total'[c]
    <2>1. wallet'[Account(c)] >= wallet[Account(c)] /\ UNCHANGED <<phase, total>>
      BY <1>0, <1>4, RefundEffect, DeliverEffect
    <2> QED  BY <1>0, <2>1 DEF Funded
  <1> QED  BY <1>1, <1>2, <1>3, <1>4, NextCases

LEMMA CoreStep == Core /\ [Next]_vars => Core'
  <1>1. CASE UNCHANGED vars
    BY <1>1 DEF vars, orders, money, catalog, request, Core, TypeOK, Exclusive, Accepted, Priced,
       Funded, Product, Coupon, Account, Subtotal, BasePrice
  <1>2. CASE Next
    BY <1>2, TypeStep, ExclusiveStep, AcceptedStep, PricedStep, FundedStep DEF Core
  <1> QED  BY <1>1, <1>2

LEMMA CoreInvariant == Spec => []Core
  BY CoreInit, CoreStep, PTL DEF Spec

(* Every variable keeps its type: no purchase makes a wallet negative, and  *)
(* no refund or adjustment the sold count or the stock.                     *)
THEOREM TypeCorrect == Spec => []TypeOK
  BY CoreInvariant, PTL DEF Core
-----------------------------------------------------------------------------
(***************************************************************************)
(* The limit per account.                                                  *)
(***************************************************************************)
IsLive(b) == status[b] \notin {"absent", "refunded"}

(* Orders of one product changed: the others have the same live orders.     *)
LEMMA SameLive ==
  ASSUME NEW p, \A c \in Buys : Product(c) = p => (IsLive(c)' <=> IsLive(c))
  PROVE  LiveOf(p)' = LiveOf(p) /\ \A a : Bought(a, p)' = Bought(a, p)
  BY DEF IsLive, Live, LiveOf, Bought, Product, Account

LEMMA SameRoom ==
  ASSUME NEW b \in Buys, product'[Product(b)] = product[Product(b)], RoomForOne(b),
         \A c \in Buys : Product(c) = Product(b) => (IsLive(c)' <=> IsLive(c))
  PROVE  RoomForOne(b)'
  <1>1. Bought(Account(b), Product(b))' = Bought(Account(b), Product(b))
    BY SameLive DEF Product, Account
  <1> QED  BY <1>1 DEF RoomForOne, Product, Account

(* Which orders are live is changed by commits and refunds only.            *)
LEMMA LiveChange ==
  ASSUME Core, Next
  PROVE  (\/ /\ \A c \in Buys : IsLive(c)' <=> IsLive(c)
             /\ UNCHANGED sold
          \/ \E b \in Buys : Commit(b) \/ Refund(b))
  BY NextCases, StaffEffect, QuietEffect, DeliverEffect DEF IsLive, Core

LEMMA LimitStep == Core /\ LimitHeld /\ Next => LimitHeld'
  <1> SUFFICES ASSUME Core, LimitHeld, Next, NEW c \in Buys,
                      phase'[c] \in HoldsProduct \ {"limits"}
               PROVE  RoomForOne(c)'
    BY DEF LimitHeld
  <1> USE DEF Core
  <1>1. CASE StaffStep
    <2>1. phase[c] \in HoldsProduct \ {"limits"} /\ UNCHANGED status  BY <1>1, StaffEffect
    <2>2. product'[Product(c)] = product[Product(c)]
      BY <1>1, <2>1, StaffEffect, Asked DEF ProductFree
    <2> QED  BY <2>1, <2>2, SameRoom DEF LimitHeld, IsLive
  <1>2. ASSUME NEW b \in Buys, Quiet(b) PROVE RoomForOne(c)'
    <2>1. UNCHANGED <<product, status>>  BY <1>2, QuietEffect
    <2>2. RoomForOne(c)
      <3>1. CASE phase[c] \in HoldsProduct \ {"limits"}  BY <3>1 DEF LimitHeld
      <3>2. CASE phase[c] \notin HoldsProduct \ {"limits"}
        <4>1. c = b  BY <1>2, <3>2, QuietEffect
        <4>2. CheckLimits(c)
          BY <1>2, <3>2, <4>1 DEF Quiet, TypeOK, Goto, Fail, Leave, Begin, LockProduct, ApplyCoupon,
             LockWallet, LoadItems, Abandon, HoldsProduct
        <4>3. WithinLimits(c)
          BY <4>2 DEF CheckLimits, Fail, Leave, TypeOK, HoldsProduct
        <4> QED  BY <4>3 DEF WithinLimits, RoomForOne
      <3> QED  BY <3>1, <3>2
    <2> QED  BY <2>1, <2>2, SameRoom DEF IsLive
  <1>3. ASSUME NEW b \in Buys, Commit(b) PROVE RoomForOne(c)'
    <2>1. /\ phase[b] = "commit" /\ phase' = [phase EXCEPT ![b] = "done"]
          /\ UNCHANGED product /\ status' = [status EXCEPT ![b] = "pending"]
      BY <1>3, CommitEffect
    <2>2. c # b /\ phase[c] \in HoldsProduct \ {"limits"}  BY <2>1 DEF TypeOK, HoldsProduct
    <2>3. Product(c) # Product(b)  BY <2>1, <2>2 DEF Exclusive, HoldsProduct
    <2>4. \A d \in Buys : Product(d) = Product(c) => (IsLive(d)' <=> IsLive(d))
      BY <2>1, <2>3 DEF IsLive, TypeOK
    <2> QED  BY <2>1, <2>2, <2>4, SameRoom DEF LimitHeld
  <1>4. ASSUME NEW b \in Buys, Refund(b) PROVE RoomForOne(c)'
    <2>1. UNCHANGED <<product, phase>> /\ ProductFree(Product(b))  BY <1>4, RefundEffect
    <2>2. Product(c) # Product(b)  BY <2>1 DEF ProductFree
    <2>3. \A d \in Buys : Product(d) = Product(c) => (IsLive(d)' <=> IsLive(d))
      BY <1>4, <2>2, RefundEffect DEF IsLive, TypeOK
    <2> QED  BY <2>1, <2>3, SameRoom DEF LimitHeld
  <1>5. ASSUME NEW b \in Buys, Deliver(b) PROVE RoomForOne(c)'
    BY <1>5, DeliverEffect, SameRoom DEF LimitHeld, IsLive
  <1> QED  BY <1>1, <1>2, <1>3, <1>4, <1>5, NextCases

LEMMA NewOrderCommits ==
  ASSUME Core, Next, NEW b \in Buys, NewOrder(b)
  PROVE  Commit(b)
  <1> USE DEF NewOrder, Core
  <1>1. \A c \in Buys : Commit(c) => b = c  BY CommitEffect DEF TypeOK
  <1>2. \A c \in Buys : ~Refund(c)  BY RefundEffect DEF TypeOK
  <1> QED  BY <1>1, <1>2, NextCases, StaffEffect, QuietEffect, DeliverEffect

(* Whatever a player's requests do at the same time and staff change in     *)
(* between, an order is committed only if the account may still have it.    *)
THEOREM AccountLimitHolds == Spec => AccountLimitKept
  <1>1. Init => LimitHeld  BY DEF Init, LimitHeld, HoldsProduct
  <1>2. Core /\ LimitHeld /\ [Next]_vars => LimitHeld'
    <2>1. CASE UNCHANGED vars
      <3>1. UNCHANGED <<product, status, phase>>  BY <2>1 DEF vars, orders, catalog, request
      <3> QED  BY <3>1, SameRoom DEF LimitHeld, IsLive
    <2> QED  BY <2>1, LimitStep
  <1>3. Core /\ LimitHeld /\ [Next]_vars =>
          [\A b \in Buys : NewOrder(b) =>
             LET limit == product[Product(b)].perAccount
             IN  limit = 0 \/ Cardinality(Bought(Account(b), Product(b))) < limit]_vars
    <2> SUFFICES ASSUME Core, LimitHeld, Next, NEW b \in Buys, NewOrder(b) PROVE RoomForOne(b)
      BY DEF RoomForOne
    <2>1. phase[b] = "commit"  BY NewOrderCommits DEF Commit
    <2> QED  BY <2>1 DEF LimitHeld, HoldsProduct
  <1> QED  BY <1>1, <1>2, <1>3, CoreInvariant, PTL DEF Spec, AccountLimitKept
-----------------------------------------------------------------------------
(***************************************************************************)
(* Stock.                                                                  *)
(***************************************************************************)
LEMMA FewOrders ==
  ASSUME NEW S \in SUBSET Buys
  PROVE  IsFiniteSet(S) /\ Cardinality(S) \in Nat
  BY ShopAssumption, FS_Subset, FS_CardinalityType

LEMMA TrackedStep == Core /\ Tracked /\ Next => Tracked'
  <1> SUFFICES ASSUME Core, Tracked, Next PROVE Tracked'  OBVIOUS
  <1> USE DEF Core
  <1>1. CASE StaffStep  BY <1>1, StaffEffect DEF Tracked
  <1>2. ASSUME NEW b \in Buys, Quiet(b) \/ Commit(b) \/ Refund(b) \/ Deliver(b)
        PROVE  UNCHANGED <<product, untracked>>
    BY <1>2, QuietEffect, CommitEffect, RefundEffect, DeliverEffect
  <1> QED  BY <1>1, <1>2, NextCases DEF Tracked

LEMMA SoldStep == Core /\ Tracked /\ SoldCounted /\ Next => SoldCounted'
  <1> SUFFICES ASSUME Core, Tracked, SoldCounted, Next,
                      NEW p \in Products, p \notin untracked'
               PROVE  sold'[p] = Cardinality(LiveOf(p)')
    BY DEF SoldCounted
  <1> USE DEF Core
  <1>0. p \notin untracked /\ product[p].stock > 0
    <2>1. untracked \subseteq untracked'
      BY NextCases, StaffEffect, QuietEffect, CommitEffect, RefundEffect, DeliverEffect
    <2>2. product[p] \in Forms  BY DEF TypeOK
    <2>3. product[p].stock \in Nat  BY <2>2 DEF Forms
    <2> QED  BY <2>1, <2>3 DEF Tracked
  <1>1. sold[p] = Cardinality(LiveOf(p)) /\ LiveOf(p) \subseteq Buys
    BY <1>0 DEF SoldCounted, LiveOf, Live
  <1>2. CASE UNCHANGED sold /\ \A c \in Buys : IsLive(c)' <=> IsLive(c)
    BY <1>1, <1>2, SameLive
  <1>3. ASSUME NEW b \in Buys, Commit(b) PROVE sold'[p] = Cardinality(LiveOf(p)')
    <2>1. /\ status[b] = "absent" /\ status' = [status EXCEPT ![b] = "pending"]
          /\ sold'[p] = IF p = Product(b) THEN sold[p] + 1 ELSE sold[p]
      BY <1>0, <1>3, CommitEffect
    <2>2. LiveOf(p)' = IF p = Product(b) THEN LiveOf(p) \cup {b} ELSE LiveOf(p)
      BY <2>1 DEF LiveOf, Live, Product, TypeOK
    <2>3. b \notin LiveOf(p)  BY <2>1 DEF LiveOf, Live
    <2> QED  BY <1>1, <2>1, <2>2, <2>3, FewOrders, FS_AddElement
  <1>4. ASSUME NEW b \in Buys, Refund(b) PROVE sold'[p] = Cardinality(LiveOf(p)')
    <2>1. CASE UNCHANGED <<status, sold>>
      BY <1>1, <2>1, SameLive DEF IsLive
    <2>2. CASE /\ status[b] \in {"pending", "review"}
               /\ status' = [status EXCEPT ![b] = "refunded"]
               /\ sold'[p] = IF p = Product(b) THEN sold[p] - 1 ELSE sold[p]
      <3>1. LiveOf(p)' = IF p = Product(b) THEN LiveOf(p) \ {b} ELSE LiveOf(p)
        BY <2>2 DEF LiveOf, Live, Product, TypeOK
      <3>2. p = Product(b) => b \in LiveOf(p)  BY <2>2 DEF LiveOf, Live
      <3> QED  BY <1>1, <2>2, <3>1, <3>2, FewOrders, FS_RemoveElement
    <2> QED  BY <1>0, <1>4, <2>1, <2>2, RefundEffect
  <1> QED  BY <1>2, <1>3, <1>4, LiveChange

LEMMA StockInvariant == Spec => [](Core /\ Tracked /\ SoldCounted)
  <1>1. Init => Tracked /\ SoldCounted
    <2> SUFFICES ASSUME Init PROVE Tracked /\ SoldCounted  OBVIOUS
    <2>1. \A p : LiveOf(p) = {}  BY DEF Init, LiveOf, Live
    <2> QED  BY <2>1, FS_EmptySet DEF Init, Tracked, SoldCounted
  <1>2. Core /\ Tracked /\ SoldCounted /\ [Next]_vars => (Tracked /\ SoldCounted)'
    <2>1. CASE UNCHANGED vars
      BY <2>1 DEF vars, orders, catalog, Tracked, SoldCounted, LiveOf, Live, Product
    <2> QED  BY <2>1, TrackedStep, SoldStep
  <1> QED  BY <1>1, <1>2, CoreInvariant, PTL DEF Spec

(* The sold count of a product that always had a limit is the number of its *)
(* orders that were not refunded.                                           *)
THEOREM SoldCountExact == Spec => []SoldCounted
  BY StockInvariant, PTL

(* No order is committed for a limited product once its stock is sold.      *)
THEOREM StockNeverOversold == Spec => NoOversell
  <1>1. Core /\ Tracked /\ SoldCounted /\ [Next]_vars =>
          [\A b \in Buys : NewOrder(b) /\ Product(b) \notin untracked =>
             Cardinality(LiveOf(Product(b))) < product[Product(b)].stock]_vars
    <2> SUFFICES ASSUME Core, Tracked, SoldCounted, Next, NEW b \in Buys, NewOrder(b),
                        Product(b) \notin untracked
                 PROVE  Cardinality(LiveOf(Product(b))) < product[Product(b)].stock
      OBVIOUS
    <2>1. product[Product(b)] \in Forms  BY Asked DEF Core, TypeOK
    <2>2. product[Product(b)].stock > 0  BY <2>1, Asked DEF Forms, Tracked
    <2>3. Commit(b)  BY NewOrderCommits
    <2> QED  BY <2>2, <2>3, Asked, CommitEffect DEF Core, SoldCounted
  <1> QED  BY <1>1, StockInvariant, PTL DEF Spec, NoOversell

LEMMA RefusalStep ==
  ASSUME Core, SoldCounted, RefusalsExplained, Next
  PROVE  RefusalsExplained'
  <1> USE DEF Core
  <1>1. CASE StaffStep  BY <1>1, StaffEffect DEF RefusalsExplained, Product
  <1>2. ASSUME NEW b \in Buys, Quiet(b) \/ Commit(b) \/ Deliver(b)
        PROVE  UNCHANGED <<refused, untracked>>
    BY <1>2, QuietEffect, CommitEffect, DeliverEffect
  <1>3. ASSUME NEW b \in Buys, Refund(b) PROVE RefusalsExplained'
    <2>1. untracked' = untracked  BY <1>3, RefundEffect
    <2>2. CASE RefundFails(b) /\ refused' = refused \cup {b}
      <3>1. Product(b) \in Products /\ b \in LiveOf(Product(b)) /\ sold[Product(b)] = 0
        BY <1>3, <2>2, Asked DEF Refund, Refundable, RefundFails, LiveOf, Live
      <3>2. LiveOf(Product(b)) \subseteq Buys  BY DEF LiveOf, Live
      <3>3. Cardinality(LiveOf(Product(b))) # 0
        BY <3>1, <3>2, FewOrders, FS_EmptySet
      <3>4. Product(b) \in untracked  BY <3>1, <3>3 DEF SoldCounted
      <3> QED  BY <2>1, <2>2, <3>4 DEF RefusalsExplained, Product
    <2>3. CASE UNCHANGED refused  BY <2>1, <2>3 DEF RefusalsExplained, Product
    <2> QED  BY <1>3, <2>2, <2>3 DEF Refund
  <1> QED  BY <1>1, <1>2, <1>3, NextCases DEF RefusalsExplained, Product

(* Stock as a whole: counted exactly, never oversold, and no refund of a      *)
(* product that always had a limit fails on the count.                        *)
THEOREM StockHolds == Spec => StockKept
  <1>1. Init => RefusalsExplained  BY DEF Init, RefusalsExplained
  <1>2. Core /\ Tracked /\ SoldCounted /\ RefusalsExplained /\ [Next]_vars => RefusalsExplained'
    <2>1. CASE UNCHANGED vars
      BY <2>1 DEF vars, catalog, RefusalsExplained, Product
    <2> QED  BY <2>1, RefusalStep
  <1>3. Spec => NoOversell  BY StockNeverOversold
  <1> QED  BY <1>1, <1>2, <1>3, StockInvariant, PTL DEF Spec, StockKept
-----------------------------------------------------------------------------
(***************************************************************************)
(* Coupons.                                                                *)
(***************************************************************************)
LEMMA ViewStep == Core /\ ViewCurrent /\ Next => ViewCurrent'
  <1> SUFFICES ASSUME Core, ViewCurrent, Next, NEW c \in Buys, phase'[c] = "coupon",
                      FixesView(c)', NEW u \in uses', Product(u) = Product(c)
               PROVE  u \in view'[c]
    BY DEF ViewCurrent, Product
  <1> USE DEF Core
  <1>1. CASE StaffStep
    <2>1. phase[c] = "coupon" /\ UNCHANGED <<uses, view>>  BY <1>1, StaffEffect
    <2>2. ~ProductFree(Product(c))  BY <2>1 DEF ProductFree, HoldsProduct
    <2>3. product'[Product(c)] = product[Product(c)]  BY <1>1, <2>2, StaffEffect, Asked
    <2>4. FixesView(c)  BY <2>3 DEF FixesView, Product
    <2> QED  BY <2>1, <2>4 DEF ViewCurrent
  <1>2. ASSUME NEW b \in Buys, Quiet(b) PROVE u \in view'[c]
    <2>1. UNCHANGED <<product, uses, status>>  BY <1>2, QuietEffect
    <2>2. FixesView(c)  BY <2>1 DEF FixesView, Product
    <2>3. CASE c # b  BY <1>2, <2>1, <2>2, <2>3, QuietEffect DEF ViewCurrent
    <2>4. CASE c = b
      <3>1. CheckLimits(c)
        BY <1>2, <2>4 DEF Quiet, TypeOK, Goto, Fail, Leave, Begin, LockProduct, ApplyCoupon,
           LockWallet, LoadItems, Abandon
      <3>2. view' = [view EXCEPT ![c] = Ordered]
        BY <2>2, <3>1 DEF CheckLimits, Fail, Leave, TypeOK
      <3>3. u \in Ordered  BY <2>1 DEF Accepted, Ordered, TypeOK
      <3> QED  BY <3>2, <3>3 DEF TypeOK
    <2> QED  BY <2>3, <2>4
  <1>3. ASSUME NEW b \in Buys, Commit(b) PROVE u \in view'[c]
    <2>1. /\ phase[b] = "commit" /\ phase' = [phase EXCEPT ![b] = "done"] /\ UNCHANGED product
          /\ uses' \subseteq uses \cup {b}
      BY <1>3, CommitEffect
    <2>2. c # b /\ phase[c] = "coupon"  BY <2>1 DEF TypeOK
    <2>3. u # b  BY <2>1, <2>2 DEF Exclusive, HoldsProduct
    <2>4. FixesView(c) /\ view'[c] = view[c]
      BY <1>3, <2>1, <2>2, CommitEffect DEF FixesView, Product
    <2> QED  BY <2>1, <2>2, <2>3, <2>4 DEF ViewCurrent
  <1>4. ASSUME NEW b \in Buys, Refund(b) \/ Deliver(b) PROVE u \in view'[c]
    <2>1. UNCHANGED <<product, uses, phase, view>>  BY <1>4, RefundEffect, DeliverEffect
    <2> QED  BY <2>1 DEF ViewCurrent, FixesView, Product
  <1> QED  BY <1>1, <1>2, <1>3, <1>4, NextCases

(* The check of applyCoupon counts all uses of a coupon that is used for    *)
(* the product of the request only.                                         *)
LEMMA SeenAll ==
  ASSUME ViewCurrent, NEW c \in Buys, phase[c] = "coupon",
         \A u \in UsesOf(Coupon(c)) : Product(u) = Product(c)
  PROVE  {o \in Seen(c) : Coupon(o) = Coupon(c)} = UsesOf(Coupon(c))
  BY DEF Seen, UsesOf, ViewCurrent

LEMMA RoomStep == Core /\ ViewCurrent /\ CouponRoom /\ Next => CouponRoom'
  <1> SUFFICES ASSUME Core, ViewCurrent, CouponRoom, Next, NEW c \in Buys,
                      phase'[c] \in HoldsCoupon, Coupon(c) # NoCoupon,
                      Terms[Coupon(c)].maxUses > 0,
                      \A u \in UsesOf(Coupon(c))' : Product(u) = Product(c)
               PROVE  Cardinality(UsesOf(Coupon(c))') < Terms[Coupon(c)].maxUses
    BY DEF CouponRoom, Coupon, Product, UsesOf
  <1> USE DEF Core
  <1>1. CASE UNCHANGED <<phase, uses>>
    BY <1>1 DEF CouponRoom, UsesOf, Coupon
  <1>2. ASSUME NEW b \in Buys, Quiet(b)
        PROVE  Cardinality(UsesOf(Coupon(c))') < Terms[Coupon(c)].maxUses
    <2>1. UsesOf(Coupon(c))' = UsesOf(Coupon(c))  BY <1>2, QuietEffect DEF UsesOf, Coupon
    <2>2. CASE phase[c] \in HoldsCoupon  BY <2>1, <2>2 DEF CouponRoom
    <2>3. CASE phase[c] \notin HoldsCoupon
      <3>1. c = b  BY <1>2, <2>3, QuietEffect
      <3>2. ApplyCoupon(c) /\ phase'[c] = "wallet"
        BY <1>2, <2>3, <3>1 DEF Quiet, TypeOK, Goto, Fail, Leave, Begin, LockProduct, CheckLimits,
           ApplyCoupon, LockWallet, LoadItems, Abandon, HoldsCoupon
      <3>3. phase[c] = "coupon" /\ CouponAllows(c, Seen(c))
        BY <3>2 DEF ApplyCoupon, Fail, Leave, TypeOK
      <3> QED  BY <2>1, <3>3, SeenAll DEF CouponAllows
    <2> QED  BY <2>2, <2>3
  <1>3. ASSUME NEW b \in Buys, Commit(b)
        PROVE  Cardinality(UsesOf(Coupon(c))') < Terms[Coupon(c)].maxUses
    <2>1. /\ phase[b] = "commit" /\ phase' = [phase EXCEPT ![b] = "done"]
          /\ uses' = IF Coupon(b) = NoCoupon THEN uses ELSE uses \cup {b}
      BY <1>3, CommitEffect
    <2>2. c # b /\ phase[c] \in HoldsCoupon  BY <2>1 DEF TypeOK, HoldsCoupon
    <2>3. Coupon(b) # Coupon(c)  BY <2>1, <2>2 DEF Exclusive, HoldsCoupon
    <2>4. UsesOf(Coupon(c))' = UsesOf(Coupon(c))  BY <2>1, <2>3 DEF UsesOf, Coupon
    <2> QED  BY <2>2, <2>4 DEF CouponRoom
  <1> QED  BY <1>1, <1>2, <1>3, NextCases, StaffEffect, RefundEffect, DeliverEffect

LEMMA FewProducts ==
  ASSUME NEW S \in SUBSET Buys
  PROVE  IsFiniteSet({Product(u) : u \in S})
  <1> DEFINE T == {Product(u) : u \in S}
             f == [u \in S |-> Product(u)]
  <1>1. f \in [S -> T] /\ \A p \in T : \E u \in S : f[u] = p  OBVIOUS
  <1>2. f \in Surjection(S, T)  BY <1>1, Fun_IsSurj
  <1> QED  BY <1>2, FewOrders, FS_Surjection

LEMMA AtMostOne ==
  ASSUME NEW S, IsFiniteSet(S), Cardinality(S) <= 1, NEW x \in S, NEW y \in S
  PROVE  x = y
  <1> SUFFICES ASSUME x # y PROVE FALSE  OBVIOUS
  <1> DEFINE T == {x} \cup {y}
  <1>a. IsFiniteSet({x}) /\ Cardinality({x}) = 1 /\ y \notin {x}  BY FS_Singleton
  <1>1. IsFiniteSet(T) /\ Cardinality(T) = 2  BY <1>a, FS_AddElement
  <1>2. T \in SUBSET S  OBVIOUS
  <1> HIDE DEF T
  <1>3. Cardinality(T) <= Cardinality(S) /\ Cardinality(S) \in Nat
    BY <1>2, FS_Subset, FS_CardinalityType
  <1> QED  BY <1>1, <1>3

LEMMA CouponStep == Core /\ CouponRoom /\ CouponKeptOnOneProduct /\ Next => CouponKeptOnOneProduct'
  <1> SUFFICES ASSUME Core, CouponRoom, CouponKeptOnOneProduct, Next, NEW k \in Coupons,
                      Terms[k].maxUses > 0, Cardinality(Sold(k)') <= 1
               PROVE  Cardinality(UsesOf(k)') <= Terms[k].maxUses
    BY DEF CouponKeptOnOneProduct, Sold, UsesOf, Coupon
  <1> USE DEF Core
  <1>1. CASE UsesOf(k)' = UsesOf(k)
    <2>1. Sold(k)' = Sold(k)  BY <1>1 DEF Sold, Product
    <2> QED  BY <1>1, <2>1 DEF CouponKeptOnOneProduct
  <1>2. ASSUME NEW b \in Buys, Commit(b), Coupon(b) = k, UsesOf(k)' # UsesOf(k)
        PROVE  Cardinality(UsesOf(k)') <= Terms[k].maxUses
    <2>1. k # NoCoupon /\ UsesOf(k)' = UsesOf(k) \cup {b} /\ phase[b] = "commit"
      BY <1>2, CommitEffect, ShopAssumption DEF UsesOf, Coupon
    <2>2. IsFiniteSet(Sold(k)')
      <3>1. UsesOf(k)' \in SUBSET Buys  BY <2>1 DEF UsesOf, TypeOK
      <3>2. Sold(k)' = {Product(u) : u \in UsesOf(k)'}  BY DEF Sold, Product
      <3> QED  BY <3>1, <3>2, FewProducts
    <2>3. \A u \in UsesOf(k)' : Product(u) \in Sold(k)'  BY DEF Sold, Product
    <2>4. \A u \in UsesOf(k) : Product(u) = Product(b)  BY <2>1, <2>2, <2>3, AtMostOne
    <2>5. Cardinality(UsesOf(k)) < Terms[k].maxUses
      BY <1>2, <2>1, <2>4 DEF CouponRoom, HoldsCoupon
    <2>6. UsesOf(k) \in SUBSET Buys  BY DEF UsesOf, TypeOK
    <2>7. /\ IsFiniteSet(UsesOf(k)) /\ Cardinality(UsesOf(k)) \in Nat
          /\ Cardinality(UsesOf(k)') <= Cardinality(UsesOf(k)) + 1
      BY <2>1, <2>6, FewOrders, FS_AddElement
    <2>8. Terms[k].maxUses \in Nat  BY ShopAssumption DEF CouponTerms
    <2> QED  BY <2>1, <2>5, <2>6, <2>7, <2>8, FewOrders, FS_AddElement
  <1>3. UsesOf(k)' = UsesOf(k) \/ \E b \in Buys : Commit(b) /\ Coupon(b) = k
    <2>1. ASSUME NEW b \in Buys, Commit(b), Coupon(b) # k PROVE UsesOf(k)' = UsesOf(k)
      BY <2>1, CommitEffect DEF UsesOf, Coupon
    <2>2. CASE UNCHANGED uses  BY <2>2 DEF UsesOf, Coupon
    <2> QED  BY <2>1, <2>2, NextCases, StaffEffect, QuietEffect, RefundEffect, DeliverEffect
  <1> QED  BY <1>1, <1>2, <1>3

(* A coupon used for one product is not used more often than its terms say, *)
(* although its uses are counted in a view that may be old.                 *)
THEOREM CouponHoldsOnOneProduct == Spec => []CouponKeptOnOneProduct
  <1>1. Init => ViewCurrent /\ CouponRoom /\ CouponKeptOnOneProduct
    <2> SUFFICES ASSUME Init PROVE ViewCurrent /\ CouponRoom /\ CouponKeptOnOneProduct  OBVIOUS
    <2>1. \A k : UsesOf(k) = {}  BY DEF Init, UsesOf
    <2>2. \A k \in Coupons : Terms[k].maxUses \in Nat  BY ShopAssumption DEF CouponTerms
    <2>3. ViewCurrent /\ CouponRoom  BY DEF Init, ViewCurrent, CouponRoom, HoldsCoupon
    <2> QED  BY <2>1, <2>2, <2>3, FS_EmptySet DEF CouponKeptOnOneProduct
  <1>2. Core /\ ViewCurrent /\ CouponRoom /\ CouponKeptOnOneProduct /\ [Next]_vars
          => (ViewCurrent /\ CouponRoom /\ CouponKeptOnOneProduct)'
    <2>1. CASE UNCHANGED vars
      BY <2>1 DEF vars, orders, catalog, request, ViewCurrent, CouponRoom, CouponKeptOnOneProduct,
         FixesView, UsesOf, Sold, Product, Coupon
    <2> QED  BY <2>1, ViewStep, RoomStep, CouponStep
  <1> QED  BY <1>1, <1>2, CoreInvariant, PTL DEF Spec
-----------------------------------------------------------------------------
(***************************************************************************)
(* The credits of an account.                                              *)
(***************************************************************************)
Mine(a) == {b \in Live : Account(b) = a}

LEMMA SpentType ==
  ASSUME TypeOK, NEW a
  PROVE  /\ Spent(a) = Total(paid, Mine(a)) /\ Spent(a)' = Total(paid', Mine(a)')
         /\ IsFiniteSet(Mine(a)) /\ Mine(a) \subseteq Buys
         /\ \A b \in Buys : paid[b] \in Nat
         /\ Spent(a) \in Nat
  <1>1. Spent(a) = Total(paid, Mine(a)) /\ Spent(a)' = Total(paid', Mine(a)')
    BY DEF Spent, Mine
  <1>2. Mine(a) \in SUBSET Buys  BY DEF Mine, Live
  <1>3. IsFiniteSet(Mine(a))  BY <1>2, FewOrders
  <1>4. \A b \in Buys : paid[b] \in Nat  BY DEF TypeOK
  <1>5. Total(paid, Mine(a)) \in Nat  BY <1>2, <1>3, <1>4, TotalType
  <1> QED  BY <1>1, <1>2, <1>3, <1>4, <1>5

(* Orders that are neither accepted nor refunded cost what they did.        *)
LEMMA SameSpent ==
  ASSUME TypeOK, UNCHANGED paid, \A b \in Buys : IsLive(b)' <=> IsLive(b), NEW a
  PROVE  Spent(a)' = Spent(a)
  BY DEF Spent, Live, IsLive, Account

(* Wallet and ledger move together, a grant is noted with them.             *)
LEMMA GrantsNoted ==
  ASSUME TypeOK, StaffStep, NEW a \in Accounts
  PROVE  wallet'[a] - wallet[a] = granted'[a] - granted[a]
  <1>0. wallet \in [Accounts -> Nat] /\ granted \in [Accounts -> Nat]  BY DEF TypeOK
  <1>1. CASE \E c \in Accounts, n \in Grants : GrantCredits(c, n)
    <2>1. PICK c \in Accounts, n \in Grants : GrantCredits(c, n)  BY <1>1
    <2>2. n \in Nat  BY ShopAssumption
    <2> QED  BY <1>0, <2>1, <2>2 DEF GrantCredits
  <1>2. CASE UNCHANGED money  BY <1>0, <1>2 DEF money
  <1> QED
    BY <1>1, <1>2 DEF StaffStep, SaveProduct, ArchiveProduct, AdjustStock, DisableCoupon

(* The first two parts of Balanced; that no account spends what it does not *)
(* have follows, since no wallet is ever negative.                          *)
Explained ==
  \A a \in Accounts : wallet[a] = ledger[a] /\ wallet[a] + Spent(a) = Opening[a] + granted[a]

LEMMA BalanceStep == Core /\ Explained /\ Next => Explained'
  <1> SUFFICES ASSUME Core, Explained, Next, NEW a \in Accounts
               PROVE  /\ wallet'[a] = ledger'[a]
                      /\ wallet'[a] + Spent(a)' = Opening[a] + granted'[a]
    BY DEF Explained
  <1> USE DEF Core
  <1>0. /\ wallet[a] \in Nat /\ ledger[a] \in Int /\ granted[a] \in Nat
        /\ wallet'[a] \in Nat /\ ledger'[a] \in Int /\ granted'[a] \in Nat
        /\ Spent(a) \in Int /\ Opening[a] \in Nat
        /\ wallet[a] = ledger[a] /\ wallet[a] + Spent(a) = Opening[a] + granted[a]
    <2>1. Spent(a) \in Nat  BY SpentType
    <2>2. TypeOK'  BY TypeStep
    <2> QED  BY <2>1, <2>2, ShopAssumption DEF TypeOK, Explained
  <1>1. CASE StaffStep
    <2>1. Spent(a)' = Spent(a)
      BY <1>1, StaffEffect, SameSpent DEF IsLive
    <2>2. wallet'[a] - wallet[a] = ledger'[a] - ledger[a]
      BY <1>1, StaffEffect
    <2>3. wallet'[a] - wallet[a] = granted'[a] - granted[a]
      BY <1>1, GrantsNoted
    <2>4. wallet'[a] = ledger'[a]  BY <1>0, <2>2
    <2>5. wallet'[a] + Spent(a) = Opening[a] + granted'[a]  BY <1>0, <2>3
    <2> QED  BY <2>1, <2>4, <2>5
  <1>2. ASSUME NEW b \in Buys, Quiet(b) \/ Deliver(b)
        PROVE  wallet'[a] = ledger'[a] /\ wallet'[a] + Spent(a)' = Opening[a] + granted'[a]
    <2>1. UNCHANGED <<wallet, ledger, granted, paid>>
      BY <1>2, QuietEffect, DeliverEffect
    <2>2. \A c \in Buys : IsLive(c)' <=> IsLive(c)
      BY <1>2, QuietEffect, DeliverEffect DEF IsLive
    <2>3. Spent(a)' = Spent(a)  BY <2>1, <2>2, SameSpent
    <2> QED  BY <1>0, <2>1, <2>3
  <1>3. ASSUME NEW b \in Buys, Commit(b)
        PROVE  wallet'[a] = ledger'[a] /\ wallet'[a] + Spent(a)' = Opening[a] + granted'[a]
    <2>1. /\ status[b] = "absent" /\ status' = [status EXCEPT ![b] = "pending"]
          /\ granted' = granted /\ wallet'[a] - wallet[a] = ledger'[a] - ledger[a]
      BY <1>3, CommitEffect
    <2>2. /\ paid' \in [Buys -> Nat] /\ total[b] \in Nat
          /\ \A c \in Buys : paid'[c] = IF c = b THEN total[b] ELSE paid[c]
          /\ wallet'[a] = IF a = Account(b) THEN wallet[a] - total[b] ELSE wallet[a]
      BY <1>3 DEF Commit, TypeOK
    <2>3. Mine(a)' = IF a = Account(b) THEN Mine(a) \cup {b} ELSE Mine(a)
      BY <2>1 DEF Mine, Live, Account, TypeOK
    <2>4. b \notin Mine(a) /\ Mine(a) \subseteq Buys /\ IsFiniteSet(Mine(a))
      BY <2>1, SpentType DEF Mine, Live
    <2>5. Total(paid', Mine(a)) = Spent(a)
      <3>1. \A c \in Mine(a) : paid'[c] = paid[c]  BY <2>2, <2>4
      <3> QED  BY <3>1, TotalSame, SpentType
    <2>6. CASE a = Account(b)
      <3>1. Total(paid', Mine(a) \cup {b}) = Total(paid', Mine(a)) + paid'[b]
        <4>1. \A c \in Mine(a) \cup {b} : paid'[c] \in Nat  BY <2>2, <2>4
        <4> QED  BY <2>4, <4>1, TotalWith
      <3>2. Spent(a)' = Spent(a) + total[b]
        BY <2>2, <2>3, <2>5, <2>6, <3>1, SpentType
      <3> QED  BY <1>0, <2>1, <2>2, <2>6, <3>2
    <2>7. CASE a # Account(b)
      <3>1. Spent(a)' = Spent(a)  BY <2>3, <2>5, <2>7, SpentType
      <3> QED  BY <1>0, <2>1, <2>2, <2>7, <3>1
    <2> QED  BY <2>6, <2>7
  <1>4. ASSUME NEW b \in Buys, Refund(b)
        PROVE  wallet'[a] = ledger'[a] /\ wallet'[a] + Spent(a)' = Opening[a] + granted'[a]
    <2>1. paid' = paid /\ granted' = granted /\ wallet'[a] - wallet[a] = ledger'[a] - ledger[a]
      BY <1>4, RefundEffect
    <2>2. CASE UNCHANGED <<orders, money>>
      <3>1. \A c \in Buys : IsLive(c)' <=> IsLive(c)  BY <2>2 DEF orders, IsLive
      <3>2. Spent(a)' = Spent(a)  BY <2>1, <3>1, SameSpent
      <3> QED  BY <1>0, <2>1, <2>2, <3>2 DEF money
    <2>3. CASE /\ status' = [status EXCEPT ![b] = "refunded"]
               /\ wallet' = [wallet EXCEPT ![Account(b)] = @ + paid[b]]
      <3>1. status[b] \in {"pending", "review"}  BY <1>4 DEF Refund, Refundable
      <3>2. wallet'[a] = IF a = Account(b) THEN wallet[a] + paid[b] ELSE wallet[a]
        BY <2>3, Asked DEF TypeOK
      <3>3. Mine(a)' = IF a = Account(b) THEN Mine(a) \ {b} ELSE Mine(a)
        BY <2>3, <3>1 DEF Mine, Live, Account, TypeOK
      <3>4. CASE a = Account(b)
        <4>1. b \in Mine(a)  BY <3>1, <3>4 DEF Mine, Live
        <4>2. /\ Total(paid, Mine(a)) = Total(paid, Mine(a) \ {b}) + paid[b]
              /\ Total(paid, Mine(a) \ {b}) \in Nat
          <5>1. \A c \in Mine(a) : paid[c] \in Nat  BY SpentType
          <5>2. IsFiniteSet(Mine(a))  BY SpentType
          <5> QED  BY <4>1, <5>1, <5>2, TotalWithout
        <4>3. Spent(a) = Total(paid, Mine(a)) /\ Spent(a)' = Total(paid, Mine(a) \ {b})
          BY <2>1, <3>3, <3>4, SpentType
        <4>4. paid[b] \in Nat  BY DEF TypeOK
        <4> QED  BY <1>0, <2>1, <3>2, <3>4, <4>2, <4>3, <4>4
      <3>5. CASE a # Account(b)
        <4>1. Spent(a)' = Spent(a)  BY <2>1, <3>3, <3>5, SpentType
        <4> QED  BY <1>0, <2>1, <3>2, <3>5, <4>1
      <3> QED  BY <3>4, <3>5
    <2> QED  BY <1>4, <2>2, <2>3 DEF Refund, orders
  <1> QED  BY <1>1, <1>2, <1>3, <1>4, NextCases

(* No credit appears or disappears and no account spends what it does not   *)
(* have, whatever purchases, refunds, grants and price changes overlap, and *)
(* the ledger explains every balance (purchase of server.go,                *)
(* adminRefundOrder, adminCredits).                                         *)
THEOREM CreditsBalanced == Spec => []Balanced
  <1>1. Init => Explained
    <2> SUFFICES ASSUME Init, NEW a \in Accounts
                 PROVE  wallet[a] = ledger[a] /\ wallet[a] + Spent(a) = Opening[a] + granted[a]
      BY DEF Explained
    <2>1. Spent(a) = 0
      <3>1. {b \in Live : Account(b) = a} = {}  BY DEF Init, Live
      <3> QED  BY <3>1, TotalEmpty DEF Spent
    <2> QED  BY <2>1, ShopAssumption DEF Init
  <1>2. Core /\ Explained /\ [Next]_vars => Explained'
    <2>1. CASE UNCHANGED vars
      BY <2>1 DEF vars, orders, money, Explained, Spent, Live, Account
    <2> QED  BY <2>1, BalanceStep
  <1>3. Core /\ Explained => Balanced
    <2> SUFFICES ASSUME Core, Explained, NEW a \in Accounts
                 PROVE  Spent(a) <= Opening[a] + granted[a]
      BY DEF Explained, Balanced
    <2>1. wallet[a] \in Nat /\ granted[a] \in Nat  BY DEF Core, TypeOK
    <2>2. Spent(a) \in Nat /\ Opening[a] \in Nat  BY SpentType, ShopAssumption DEF Core
    <2> QED  BY <2>1, <2>2 DEF Explained
  <1> QED  BY <1>1, <1>2, <1>3, CoreInvariant, PTL DEF Spec
-----------------------------------------------------------------------------
(***************************************************************************)
(* Waiting.                                                                *)
(***************************************************************************)
(* A request may take its next step: what its action waits for is free, and *)
(* the commit finds the stock that was there when the limits were checked.  *)
MayGoOn(b) ==
  CASE phase[b] = "new" -> FreeConns > 0
    [] phase[b] = "product" -> ProductFree(Product(b))
    [] phase[b] = "limits" -> TRUE
    [] phase[b] = "coupon" -> Coupon(b) # NoCoupon => CouponFree(Coupon(b))
    [] phase[b] = "wallet" -> WalletFree(Account(b))
    [] phase[b] = "items" -> product[Product(b)].bundle => FreeConns > 0
    [] phase[b] = "commit" ->
         Counted(Product(b)) => sold[Product(b)] < product[Product(b)].stock
    [] OTHER -> FALSE

AtWork == {b \in Buys : phase[b] \notin {"done", "failed"}}

(* Requests that cannot go on wait for the pool, never for each other's     *)
(* locks alone: some request at the end of the chain reads a bundle and     *)
(* wants a second connection, and there is none.                            *)
OnlyThePoolBlocks ==
  \/ AtWork = {}
  \/ \E b \in Buys : MayGoOn(b)
  \/ ~(FreeConns > 0) /\ \E b \in Buys : phase[b] = "items" /\ product[Product(b)].bundle

StockRoom(b) == Counted(Product(b)) => sold[Product(b)] < product[Product(b)].stock
StockLeft == \A b \in Buys : phase[b] \in HoldsProduct \ {"limits"} => StockRoom(b)

LEMMA SameStock ==
  ASSUME NEW b \in Buys, StockRoom(b), product'[Product(b)] = product[Product(b)],
         sold'[Product(b)] = sold[Product(b)]
  PROVE  StockRoom(b)'
  BY DEF StockRoom, Counted, Product

(* The product's lock keeps the stock that was checked under it.            *)
LEMMA StockLeftStep == Core /\ StockLeft /\ Next => StockLeft'
  <1> SUFFICES ASSUME Core, StockLeft, Next, NEW c \in Buys,
                      phase'[c] \in HoldsProduct \ {"limits"}
               PROVE  StockRoom(c)'
    BY DEF StockLeft
  <1> USE DEF Core
  <1>1. CASE StaffStep
    <2>1. phase[c] \in HoldsProduct \ {"limits"} /\ UNCHANGED sold  BY <1>1, StaffEffect
    <2>2. product'[Product(c)] = product[Product(c)]
      BY <1>1, <2>1, StaffEffect, Asked DEF ProductFree
    <2> QED  BY <2>1, <2>2, SameStock DEF StockLeft
  <1>2. ASSUME NEW b \in Buys, Quiet(b) PROVE StockRoom(c)'
    <2>1. UNCHANGED <<product, sold>>  BY <1>2, QuietEffect
    <2>2. StockRoom(c)
      <3>1. CASE phase[c] \in HoldsProduct \ {"limits"}  BY <3>1 DEF StockLeft
      <3>2. CASE phase[c] \notin HoldsProduct \ {"limits"}
        <4>1. c = b  BY <1>2, <3>2, QuietEffect
        <4>2. CheckLimits(c)
          BY <1>2, <3>2, <4>1 DEF Quiet, TypeOK, Goto, Fail, Leave, Begin, LockProduct, ApplyCoupon,
             LockWallet, LoadItems, Abandon, HoldsProduct
        <4>3. WithinLimits(c)
          BY <4>2 DEF CheckLimits, Fail, Leave, TypeOK, HoldsProduct
        <4> QED  BY <4>3 DEF WithinLimits, StockRoom, Counted
      <3> QED  BY <3>1, <3>2
    <2> QED  BY <2>1, <2>2, SameStock
  <1>3. ASSUME NEW b \in Buys, Commit(b) PROVE StockRoom(c)'
    <2>1. phase[b] = "commit" /\ phase' = [phase EXCEPT ![b] = "done"] /\ UNCHANGED product
      BY <1>3, CommitEffect
    <2>2. c # b /\ phase[c] \in HoldsProduct \ {"limits"}  BY <2>1 DEF TypeOK, HoldsProduct
    <2>3. Product(c) # Product(b)  BY <2>1, <2>2 DEF Exclusive, HoldsProduct
    <2>4. sold'[Product(c)] = sold[Product(c)]  BY <1>3, <2>3, CommitEffect, Asked
    <2> QED  BY <2>1, <2>2, <2>4, SameStock DEF StockLeft
  <1>4. ASSUME NEW b \in Buys, Refund(b) PROVE StockRoom(c)'
    <2>1. UNCHANGED <<product, phase>> /\ ProductFree(Product(b))  BY <1>4, RefundEffect
    <2>2. Product(c) # Product(b)  BY <2>1 DEF ProductFree
    <2>3. sold'[Product(c)] = sold[Product(c)]  BY <1>4, <2>2, RefundEffect, Asked
    <2> QED  BY <2>1, <2>3, SameStock DEF StockLeft
  <1>5. ASSUME NEW b \in Buys, Deliver(b) PROVE StockRoom(c)'
    BY <1>5, DeliverEffect, SameStock DEF StockLeft
  <1> QED  BY <1>1, <1>2, <1>3, <1>4, <1>5, NextCases

(* Locks are taken in one order, product, coupon, wallet: the request that  *)
(* is furthest waits for no lock.                                           *)
LEMMA FurthestGoesOn ==
  ASSUME TypeOK, StockLeft, AtWork # {}, \A b \in Buys : ~MayGoOn(b)
  PROVE  ~(FreeConns > 0) /\ \E b \in Buys : phase[b] = "items" /\ product[Product(b)].bundle
  <1>1. \A b \in Buys : phase[b] \notin {"limits", "commit"}
    BY DEF MayGoOn, StockLeft, StockRoom, HoldsProduct
  <1>2. CASE \E b \in Buys : phase[b] = "items"
    BY <1>2 DEF MayGoOn
  <1>3. CASE \A b \in Buys : phase[b] # "items"
    <2>1. \A b \in Buys : phase[b] # "wallet"
      BY <1>1, <1>3 DEF MayGoOn, WalletFree, HoldsWallet
    <2>2. \A b \in Buys : phase[b] # "coupon"
      BY <1>1, <1>3, <2>1 DEF MayGoOn, CouponFree, HoldsCoupon
    <2>3. \A b \in Buys : phase[b] # "product"
      BY <1>1, <1>3, <2>1, <2>2 DEF MayGoOn, ProductFree, HoldsProduct
    <2>4. {b \in Buys : phase[b] \in InTransaction} = {}
      BY <1>1, <1>3, <2>1, <2>2, <2>3 DEF InTransaction, HoldsProduct
    <2>5. FreeConns > 0
      <3>1. Cardinality({b \in Buys : phase[b] \in InTransaction}) = 0  BY <2>4, FS_EmptySet
      <3>2. Conns \in Nat \ {0}  BY ShopAssumption
      <3> QED  BY <3>1, <3>2 DEF FreeConns
    <2>6. PICK b \in Buys : phase[b] \notin {"done", "failed"}  BY DEF AtWork
    <2>7. phase[b] = "new"
      BY <1>1, <1>3, <2>1, <2>2, <2>3, <2>6 DEF TypeOK, Phase
    <2>8. ~(FreeConns > 0)  BY <2>7 DEF MayGoOn
    <2> QED  BY <2>5, <2>8
  <1> QED  BY <1>2, <1>3

(* Purchases never wait for each other's locks in a circle, whatever they   *)
(* buy and whoever buys it: as long as a connection is free, or no bundle   *)
(* is being read, some request can take its next step (the order of the     *)
(* FOR UPDATE statements of purchase, loadBundleItems).                     *)
THEOREM NoCircle == Spec => []OnlyThePoolBlocks
  <1>1. Init => StockLeft  BY DEF Init, StockLeft, HoldsProduct
  <1>2. Core /\ StockLeft /\ [Next]_vars => StockLeft'
    <2>1. CASE UNCHANGED vars
      BY <2>1, SameStock DEF vars, orders, catalog, request, StockLeft
    <2> QED  BY <2>1, StockLeftStep
  <1>3. Core /\ StockLeft => OnlyThePoolBlocks
    BY FurthestGoesOn DEF Core, OnlyThePoolBlocks
  <1> QED  BY <1>1, <1>2, <1>3, CoreInvariant, PTL DEF Spec
-----------------------------------------------------------------------------
(***************************************************************************)
(* The life cycle of orders.                                               *)
(***************************************************************************)
(* The shop keeps to the life cycle of orders: every statement of purchases *)
(* and refunds is a step of it or changes nothing of it.                    *)
THEOREM ShopFollowsLifecycle == Spec => FollowsLifecycle
  <1>1. Init => Life!LifecycleInit  BY DEF Init, Life!LifecycleInit
  <1>2. Core /\ [Next]_vars => [Life!LifecycleNext]_(Life!lifecycle)
    <2> SUFFICES ASSUME Core, [Next]_vars
                 PROVE  Life!LifecycleNext \/ UNCHANGED <<status, done>>
      BY DEF Life!lifecycle
    <2> USE DEF Core
    <2>1. CASE UNCHANGED vars  BY <2>1 DEF vars, orders
    <2>2. CASE StaffStep  BY <2>2, StaffEffect
    <2>3. ASSUME NEW b \in Buys, Quiet(b) PROVE UNCHANGED <<status, done>>
      BY <2>3, QuietEffect
    <2>4. ASSUME NEW b \in Buys, Commit(b) PROVE Life!LifecycleNext
      <3>1. Life!Queue(b)  BY <2>4, CommitEffect DEF Life!Queue
      <3> QED  BY <3>1 DEF Life!LifecycleNext
    <2>5. ASSUME NEW b \in Buys, Refund(b) PROVE Life!LifecycleNext \/ UNCHANGED <<status, done>>
      <3>1. /\ Refundable(b) /\ UNCHANGED done
            /\ UNCHANGED status \/ status' = [status EXCEPT ![b] = "refunded"]
        BY <2>5 DEF Refund, orders
      <3>2. CASE status' = [status EXCEPT ![b] = "refunded"]
        <4>1. Life!Refund(b)  BY <3>1, <3>2 DEF Life!Refund, Refundable
        <4> QED  BY <4>1 DEF Life!LifecycleNext
      <3> QED  BY <3>1, <3>2
    <2>6. ASSUME NEW b \in Buys, Deliver(b) PROVE Life!LifecycleNext
      BY <2>6 DEF Deliver, Life!LifecycleNext
    <2> QED  BY <2>1, <2>2, <2>3, <2>4, <2>5, <2>6, NextCases
  <1> QED  BY <1>1, <1>2, CoreInvariant, PTL DEF Spec, FollowsLifecycle, Life!LifecycleSpec
=============================================================================
