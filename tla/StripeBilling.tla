----------------------------- MODULE StripeBilling -----------------------------
(***************************************************************************)
(* Credits bought with Stripe: the webhook, its reversals and the refund   *)
(* request of internal/web/billing.go.                                     *)
(*                                                                         *)
(* Stripe sends signed events at least once, in no particular order, and   *)
(* again until it is answered with success; a second request with the same *)
(* event may arrive while the first is still at work.  A webhook request   *)
(* records the event, looks at a duplicate's `processed' mark, applies the *)
(* event in a transaction of its own and marks it, each a statement or     *)
(* transaction between which other requests run and the process can die.   *)
(***************************************************************************)
EXTENDS Integers, Sequences, FiniteSets, FiniteSetsExt, Totals

CONSTANTS
  Accounts, Payments,
  Recipient,     \* account credited by each payment
  Credits,       \* credits a payment buys
  Amount,        \* what it costs, in the currency's unit
  Handlers,      \* webhook requests that may be at work at once
  NoEvent,       \* what an idle one works on
  Spends,        \* amounts the shop may debit
  MaxEvents,     \* bound: events Stripe creates
  MaxSpends,     \* bound: debits by the shop
  MaxFailures,   \* bound: statements that fail and requests that die half-way
  MaxRequests    \* bound: refunds requested by staff

ASSUME BillingAssumption ==
  /\ Recipient \in [Payments -> Accounts]
  /\ Credits \in [Payments -> Nat \ {0}]
  /\ Amount \in [Payments -> Nat \ {0}]
  /\ Spends \subseteq Nat \ {0}
  /\ MaxEvents \in Nat /\ MaxSpends \in Nat /\ MaxFailures \in Nat /\ MaxRequests \in Nat
  /\ IsFiniteSet(Payments)

(* How charge.dispute.closed reports a dispute: `warning' stands for        *)
(* warning_closed, an inquiry that was dropped.                             *)
Closings == {"won", "lost", "warning"}

(* A charge.refunded event carries the amount refunded so far, so no two    *)
(* events of a payment are the same; each payment has at most one dispute.  *)
Event(p, type, amount) == [payment |-> p, type |-> type, amount |-> amount]
EventsOf(p) ==
  {Event(p, t, 0) : t \in {"completed", "created"} \cup Closings}
    \cup {Event(p, "refunded", n) : n \in 1..Amount[p]}
Events == UNION {EventsOf(p) : p \in Payments}
ASSUME NoEventAssumption == NoEvent \notin Events

VARIABLES
  sent,        \* events Stripe has created, in order
  webhook,     \* portal_payment_webhooks: absent, recorded or processed
  credited,    \* payments with a row in portal_payment_events
  payment,     \* portal_payment_transactions.status and refunded_credits
  wallet,      \* portal_wallets.balance
  handler,     \* what each webhook request is doing
  requesting,  \* payments whose refund was requested but not yet noted
  spends, failures, requests,   \* bounded counters
  \* History, read by properties only.
  spent,       \* credits the shop debited from each account
  answered,    \* events some request answered with success
  applied,     \* positions in sent of the reversals applied so far
  disordered   \* payments with an event applied after a later one

rows   == <<webhook, credited, payment>>
bounds == <<spends, failures, requests>>
history == <<answered, applied, disordered>>
vars == <<sent, rows, wallet, handler, requesting, bounds, spent, history>>

PaymentStatus == {"absent", "paid", "refund_pending", "partially_refunded", "refunded",
                  "disputed", "chargeback", "reversal_review"}
Idle == [phase |-> "idle", event |-> NoEvent]

TypeOK ==
  /\ sent \in Seq(Events)
  /\ webhook \in [Events -> {"absent", "recorded", "processed"}]
  /\ credited \subseteq Payments
  /\ payment \in [Payments -> [status : PaymentStatus, refunded : Nat]]
  /\ wallet \in [Accounts -> Nat]
  /\ handler \in [Handlers -> [phase : {"idle", "check", "apply", "mark"},
                               event : Events \cup {NoEvent}]]
  /\ requesting \subseteq Payments
  /\ spends \in 0..MaxSpends /\ failures \in 0..MaxFailures /\ requests \in 0..MaxRequests
  /\ spent \in [Accounts -> Nat]
  /\ answered \subseteq Events /\ applied \subseteq 1..Len(sent)
  /\ disordered \subseteq Payments
  /\ \A p \in Payments : payment[p].refunded <= Credits[p]

Init ==
  /\ sent = <<>>
  /\ webhook = [e \in Events |-> "absent"]
  /\ credited = {}
  /\ payment = [p \in Payments |-> [status |-> "absent", refunded |-> 0]]
  /\ wallet = [a \in Accounts |-> 0]
  /\ handler = [h \in Handlers |-> Idle]
  /\ requesting = {}
  /\ spends = 0 /\ failures = 0 /\ requests = 0
  /\ spent = [a \in Accounts |-> 0]
  /\ answered = {} /\ applied = {}
  /\ disordered = {}

(***************************************************************************)
(* Stripe (external)                                                       *)
(***************************************************************************)
SentTypes(p) == {sent[i].type : i \in {j \in DOMAIN sent : sent[j].payment = p}}
Sent(e) == \E i \in DOMAIN sent : sent[i] = e
RefundedAmount(p) ==
  Max({0} \cup {sent[i].amount : i \in {j \in DOMAIN sent : sent[j].payment = p}})
Disputed(p) == "created" \in SentTypes(p) /\ SentTypes(p) \cap Closings = {}

(* A disputed charge cannot be refunded, a refunded one not be disputed.    *)
MaySend(e) ==
  LET p == e.payment
  IN  Len(sent) < MaxEvents /\
      CASE e.type = "completed" -> SentTypes(p) = {}
        [] e.type = "refunded"  -> /\ "completed" \in SentTypes(p)
                                   /\ ~Disputed(p) /\ "lost" \notin SentTypes(p)
                                   /\ e.amount > RefundedAmount(p)
        [] e.type = "created"   -> /\ "completed" \in SentTypes(p)
                                   /\ "created" \notin SentTypes(p)
                                   /\ RefundedAmount(p) < Amount[p]
        [] OTHER                -> Disputed(p)

Send(e) ==
  /\ MaySend(e)
  /\ sent' = Append(sent, e)
  /\ UNCHANGED <<rows, wallet, handler, requesting, bounds, spent, history>>

(***************************************************************************)
(* billingWebhook                                                          *)
(***************************************************************************)
At(h, p) == handler[h].phase = p
Goto(h, p) == handler' = [handler EXCEPT ![h] = [phase |-> p, event |-> handler[h].event]]
Return(h) == handler' = [handler EXCEPT ![h] = Idle]

(* INSERT IGNORE of the event.  Stripe stops sending once it was answered   *)
(* with success, but may send duplicates for no reason.                     *)
Receive(h, e) ==
  /\ At(h, "idle")
  /\ Sent(e)
  /\ webhook' = [webhook EXCEPT ![e] = IF @ = "absent" THEN "recorded" ELSE @]
  /\ handler' = [handler EXCEPT ![h] =
                   [phase |-> IF webhook[e] = "absent" THEN "apply" ELSE "check", event |-> e]]
  /\ UNCHANGED <<sent, credited, payment, wallet, requesting, bounds, spent, history>>

\* Mutant: every duplicate is taken for a processed event.
KnownRecorded(e) == webhook[e] # "absent"
Known(e) == webhook[e] = "processed"

Answer(e) == answered' = answered \cup {e}

StatementFails == failures < MaxFailures /\ failures' = failures + 1

(* If the mark cannot be read (CheckFails), the event is applied again.     *)
CheckProcessed(h) ==
  /\ At(h, "check")
  /\ \/ Known(handler[h].event) /\ Return(h) /\ Answer(handler[h].event)
     \/ ~Known(handler[h].event) /\ Goto(h, "apply") /\ UNCHANGED answered
  /\ UNCHANGED <<sent, rows, wallet, requesting, bounds, spent, applied, disordered>>

CheckFails(h) ==
  /\ At(h, "check")
  /\ StatementFails
  /\ Goto(h, "apply")
  /\ UNCHANGED <<sent, rows, wallet, requesting, spends, requests, spent, history>>

(* Notes, for the properties, in which order reversals are applied.         *)
Apply(e) ==
  LET i == CHOOSE j \in DOMAIN sent : sent[j] = e
  IN  /\ applied' = applied \cup {i}
      /\ disordered' =
           IF \E j \in applied : sent[j].payment = e.payment /\ j > i
             THEN disordered \cup {e.payment} ELSE disordered

\* Mutant: the payment is credited without looking for its row.
NotYetCreditedEver(p) == TRUE
NotYetCredited(p) == p \notin credited

(* The credit, its ledger row and the payment's row, once per payment.  The *)
(* mark is a statement of its own after the commit, and whether it succeeds *)
(* is not looked at.                                                        *)
ApplyPayment(h) ==
  LET e == handler[h].event
      p == e.payment
  IN  /\ At(h, "apply")
      /\ e.type = "completed"
      /\ \/ /\ NotYetCredited(p)
            /\ credited' = credited \cup {p}
            /\ wallet' = [wallet EXCEPT ![Recipient[p]] = @ + Credits[p]]
            /\ payment' = [payment EXCEPT ![p] = [status |-> "paid", refunded |-> @.refunded]]
         \/ ~NotYetCredited(p) /\ UNCHANGED <<credited, wallet, payment>>
      /\ Goto(h, "mark")
      /\ UNCHANGED <<sent, webhook, requesting, bounds, spent, history>>

MarkProcessed(h) ==
  /\ At(h, "mark")
  /\ \/ /\ webhook' = [webhook EXCEPT ![handler[h].event] = "processed"]
        /\ UNCHANGED failures
     \/ StatementFails /\ UNCHANGED webhook
  /\ Return(h)
  /\ Answer(handler[h].event)
  /\ UNCHANGED <<sent, credited, payment, wallet, requesting, spends, requests, spent,
                 applied, disordered>>

(***************************************************************************)
(* applyStripeReversal: what should have been taken back, and the status.  *)
(* A dropped inquiry is none of the cases and ends as a chargeback.        *)
(***************************************************************************)
\* Mutant: the share is rounded down.
DesiredReversalFloor(e) ==
  CASE e.type = "refunded" -> (Credits[e.payment] * e.amount) \div Amount[e.payment]
    [] e.type \in {"created", "lost"} -> Credits[e.payment]
    [] OTHER -> 0
DesiredReversal(e) ==
  LET p == e.payment
  IN  CASE e.type = "refunded" ->
             IF e.amount < Amount[p]
               THEN (Credits[p] * e.amount + Amount[p] - 1) \div Amount[p] ELSE Credits[p]
        [] e.type \in {"created", "lost"} -> Credits[p]
        [] OTHER -> 0

StatusAfter(e) ==
  CASE e.type = "created" -> "disputed"
    [] e.type = "won" -> "paid"
    [] e.type \in {"lost", "warning"} -> "chargeback"
    [] OTHER -> IF DesiredReversal(e) = Credits[e.payment] THEN "refunded" ELSE "partially_refunded"

Restores(e) ==
  e.type = "won" /\ payment[e.payment].refunded > 0 /\ payment[e.payment].status = "disputed"
Delta(e) == DesiredReversal(e) - payment[e.payment].refunded
\* Mutant: the wallet is debited without looking at its balance.
AffordableAlways(e) == TRUE
Affordable(e) == wallet[Recipient[e.payment]] >= Delta(e)

ApplyReversal(h) ==
  LET e == handler[h].event
      p == e.payment
      a == Recipient[p]
      Write(status, refunded) ==
        payment' = [payment EXCEPT ![p] = [status |-> status, refunded |-> refunded]]
  IN  /\ At(h, "apply")
      /\ e.type # "completed"
      /\ payment[p].status # "absent"
      /\ CASE Restores(e) ->
                /\ wallet' = [wallet EXCEPT ![a] = @ + payment[p].refunded]
                /\ Write(StatusAfter(e), 0)
           [] ~Restores(e) /\ Delta(e) > 0 /\ Affordable(e) ->
                /\ wallet' = [wallet EXCEPT ![a] = @ - Delta(e)]
                /\ Write(StatusAfter(e), DesiredReversal(e))
           [] ~Restores(e) /\ Delta(e) > 0 /\ ~Affordable(e) ->
                /\ Write("reversal_review", payment[p].refunded)
                /\ UNCHANGED wallet
           [] OTHER ->
                /\ Write(StatusAfter(e), payment[p].refunded)
                /\ UNCHANGED wallet
      /\ webhook' = [webhook EXCEPT ![e] = "processed"]
      /\ Apply(e)
      /\ Return(h)
      /\ Answer(e)
      /\ UNCHANGED <<sent, credited, requesting, bounds, spent>>

(* The payment is not known yet: 409, and Stripe tries again.               *)
RejectReversal(h) ==
  LET e == handler[h].event
  IN  /\ At(h, "apply")
      /\ e.type # "completed"
      /\ payment[e.payment].status = "absent"
      /\ Return(h)
      /\ UNCHANGED <<sent, rows, wallet, requesting, bounds, spent, history>>

(* A statement fails, the process dies, or the answer is lost.              *)
Fail(h) ==
  /\ ~At(h, "idle")
  /\ StatementFails
  /\ Return(h)
  /\ UNCHANGED <<sent, rows, wallet, requesting, spends, requests, spent, history>>

(***************************************************************************)
(* adminPaymentRefund: Stripe refunds at once and sends its event, the     *)
(* portal notes the request afterwards, unless the status has moved on.    *)
(***************************************************************************)
RequestRefund(p) ==
  LET e == Event(p, "refunded", Amount[p])
  IN  /\ requests < MaxRequests
      /\ payment[p].status = "paid"
      /\ MaySend(e)
      /\ sent' = Append(sent, e)
      /\ requesting' = requesting \cup {p}
      /\ requests' = requests + 1
      /\ UNCHANGED <<rows, wallet, handler, spends, failures, spent, history>>

Pending(p) == IF payment[p].status = "paid" THEN "refund_pending" ELSE payment[p].status

NoteRefund(p) ==
  /\ p \in requesting
  /\ payment' = [payment EXCEPT ![p] = [status |-> Pending(p), refunded |-> @.refunded]]
  /\ requesting' = requesting \ {p}
  /\ UNCHANGED <<sent, webhook, credited, wallet, handler, bounds, spent, history>>

(* The shop (see Shop) takes credits from the same wallet.                  *)
Spend(a, n) ==
  /\ spends < MaxSpends
  /\ wallet[a] >= n
  /\ wallet' = [wallet EXCEPT ![a] = @ - n]
  /\ spent' = [spent EXCEPT ![a] = @ + n]
  /\ spends' = spends + 1
  /\ UNCHANGED <<sent, rows, handler, requesting, failures, requests, history>>

Work(h) ==
  CheckProcessed(h) \/ ApplyPayment(h) \/ MarkProcessed(h) \/ ApplyReversal(h) \/ RejectReversal(h)

Next ==
  \/ \E e \in Events : Send(e)
  \/ \E h \in Handlers : (\E e \in Events : Receive(h, e)) \/ Work(h) \/ CheckFails(h) \/ Fail(h)
  \/ \E p \in Payments : RequestRefund(p) \/ NoteRefund(p)
  \/ \E a \in Accounts, n \in Spends : Spend(a, n)

Spec == Init /\ [][Next]_vars

(***************************************************************************)
(* Properties                                                              *)
(***************************************************************************)
Kept(p) == IF p \in credited THEN Credits[p] - payment[p].refunded ELSE 0

(* Every payment is credited at most once and no reversal taken or given    *)
(* back twice, whatever is delivered twice, concurrently or after a crash:  *)
(* an account holds what its payments bought, less what the portal itself   *)
(* records as taken back, less what was spent.                              *)
CreditsAccounted ==
  \A a \in Accounts :
    wallet[a] + spent[a] = Total([p \in Payments |-> Kept(p)], {p \in Payments : Recipient[p] = a})

(* Success is never answered to Stripe, which then forgets the event, for a *)
(* payment that was not credited or a reversal that was not recorded.       *)
AnsweredWasApplied ==
  \A e \in answered :
    IF e.type = "completed" THEN e.payment \in credited
                            ELSE \E i \in applied : sent[i] = e

(* What Stripe holds of a payment's price, in credits: everything while it  *)
(* is disputed or lost, else the share of the refunds, rounded up.          *)
Owed(p) ==
  IF "created" \in SentTypes(p) /\ SentTypes(p) \cap {"won", "warning"} = {} THEN Credits[p]
  ELSE Min({n \in 0..Credits[p] : n * Amount[p] >= Credits[p] * RefundedAmount(p)})

Settled(p) ==
  /\ \A e \in EventsOf(p) : Sent(e) => e \in answered
  /\ \A h \in Handlers : handler[h].event \notin EventsOf(p)

Uncertain(p) == payment[p].status = "reversal_review" \/ p \in disordered
Mixed(p) ==
  \E i, j \in DOMAIN sent : /\ sent[i].payment = p /\ sent[j].payment = p /\ i < j
                            /\ sent[i].type = "refunded" /\ sent[j].type = "created"

(* Once every event of a payment is answered, the portal has taken back    *)
(* exactly what Stripe has: nothing for a won dispute, everything for an    *)
(* open or lost one, the rounded-up share of a refund; or it says that the  *)
(* wallet could not bear it.  This needs the events to be applied in the    *)
(* order in which they happened, no dispute after a partial refund and no   *)
(* inquiry that is dropped.                                                 *)
SettledInOrder ==
  \A p \in Payments :
    Settled(p) /\ ~Uncertain(p) /\ ~Mixed(p) /\ "warning" \notin SentTypes(p)
      => payment[p].refunded = Owed(p)

(* A won dispute gives back what the dispute held, and nothing a refund     *)
(* took back before it.                                                     *)
WonRestoresHeld ==
  \A p \in Payments :
    Settled(p) /\ ~Uncertain(p) /\ "won" \in SentTypes(p) => payment[p].refunded = Owed(p)
==============================================================================
