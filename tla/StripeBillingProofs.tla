------------------------- MODULE StripeBillingProofs -------------------------
(***************************************************************************)
(* What holds of StripeBilling for any payments, prices and accounts, any  *)
(* number of concurrent webhook requests, and any number of events, debits,*)
(* refund requests and failures.                                           *)
(***************************************************************************)
EXTENDS StripeBilling, TotalsProofs, FiniteSetTheorems, TLAPS

(***************************************************************************)
(* The parts of the inductive invariant.                                   *)
(***************************************************************************)
(* A request at work has an event that Stripe created, and one that is      *)
(* about to mark it has seen the payment credited.                          *)
WorkOK ==
  \A h \in Handlers : handler[h].phase # "idle" =>
    /\ handler[h].event \in Events /\ Sent(handler[h].event)
    /\ handler[h].phase = "mark" => handler[h].event.type = "completed"
                                    /\ handler[h].event.payment \in credited

(* The mark and the answer say the same of an event: it took effect.        *)
TookEffect(e) ==
  IF e.type = "completed" THEN e.payment \in credited ELSE \E i \in applied : sent[i] = e
MarkOK == \A e \in Events : webhook[e] = "processed" => TookEffect(e)

IInv == TypeOK /\ WorkOK /\ MarkOK /\ AnsweredWasApplied
-----------------------------------------------------------------------------
LEMMA EventType ==
  ASSUME NEW e \in Events
  PROVE  /\ e.payment \in Payments
         /\ e.type \in {"completed", "created", "refunded"} \cup Closings
         /\ e.type = "refunded" => e.amount \in 1..Amount[e.payment]
  BY DEF Events, EventsOf, Event, Closings

(* The rounded-up share of a refund is never more than the whole.           *)
LEMMA ShareBound ==
  ASSUME NEW c \in Nat, NEW n \in Nat, NEW m \in Nat, n < m
  PROVE  (c * n + m - 1) \div m \in 0..c
  <1> DEFINE s == c * n + m - 1
             q == s \div m
  <1>1. c * n \in Nat /\ c * m \in Nat /\ c * n <= c * (m - 1) /\ c * (m - 1) = c * m - c
    <2>1. n <= m - 1 /\ m - 1 \in Nat  OBVIOUS
    <2>2. \A x, y, z \in Nat : x <= y => z * x <= z * y  OBVIOUS
    <2>3. \A x, y \in Nat : x * y \in Nat  OBVIOUS
    <2>4. c * (m - 1) = c * m - c  OBVIOUS
    <2> QED  BY <2>1, <2>2, <2>3, <2>4
  <1>2. s \in Nat /\ s < (c + 1) * m
    <2>1. (c + 1) * m = c * m + m  OBVIOUS
    <2>2. s \in Nat  BY <1>1
    <2> QED  BY <1>1, <2>1, <2>2
  <1> HIDE DEF s
  <1>3. q \in Nat /\ q * m <= s
    <2>1. \A x \in Nat, y \in Nat \ {0} : x \div y \in Nat /\ (x \div y) * y <= x  OBVIOUS
    <2> QED  BY <1>2, <2>1
  <1> HIDE DEF q
  <1>4. q < c + 1
    <2> SUFFICES ASSUME c + 1 <= q PROVE FALSE  BY <1>3
    <2>1. (c + 1) * m <= q * m
      <3>1. \A x, y, z \in Nat : x <= y => x * z <= y * z  OBVIOUS
      <3> QED  BY <1>3, <3>1
    <2>2. (c + 1) * m \in Nat /\ q * m \in Nat
      <3>1. \A x, y \in Nat : x * y \in Nat  OBVIOUS
      <3> QED  BY <1>3, <3>1
    <2> QED  BY <1>2, <1>3, <2>1, <2>2
  <1> QED  BY <1>3, <1>4 DEF q, s

LEMMA DesiredType ==
  ASSUME NEW e \in Events
  PROVE  DesiredReversal(e) \in 0..Credits[e.payment]
  <1> DEFINE p == e.payment
  <1>1. p \in Payments /\ Credits[p] \in Nat /\ Amount[p] \in Nat
    BY EventType, BillingAssumption
  <1>2. CASE e.type = "refunded"
    <2>1. e.amount \in Nat  BY <1>1, <1>2, EventType
    <2>2. e.amount < Amount[p] =>
            (Credits[p] * e.amount + Amount[p] - 1) \div Amount[p] \in 0..Credits[p]
      BY <1>1, <2>1, ShareBound
    <2>3. DesiredReversal(e) = IF e.amount < Amount[p]
             THEN (Credits[p] * e.amount + Amount[p] - 1) \div Amount[p] ELSE Credits[p]
      BY <1>2 DEF DesiredReversal
    <2> QED  BY <1>1, <2>2, <2>3
  <1>3. CASE e.type # "refunded"
    BY <1>1, <1>3 DEF DesiredReversal
  <1> QED  BY <1>2, <1>3

(* What was created stays at its position, whatever is created after it.    *)
LEMMA SentGrows ==
  ASSUME TypeOK, NEW e \in Events, sent' = Append(sent, e)
  PROVE  /\ sent' \in Seq(Events) /\ applied \subseteq 1..Len(sent')
         /\ \A i \in applied : sent'[i] = sent[i]
         /\ \A f : Sent(f) => Sent(f)'
  <1>1. /\ sent \in Seq(Events) /\ Len(sent) \in Nat /\ Len(sent') = Len(sent) + 1
        /\ \A i \in 1..Len(sent) : sent'[i] = sent[i]
        /\ DOMAIN sent = 1..Len(sent) /\ DOMAIN sent' = 1..Len(sent')
    BY DEF TypeOK
  <1>2. applied \subseteq 1..Len(sent)  BY DEF TypeOK
  <1>3. 1..Len(sent) \subseteq 1..Len(sent')  BY <1>1
  <1>4. \A f : Sent(f) => Sent(f)'  BY <1>1, <1>3 DEF Sent
  <1> QED  BY <1>1, <1>2, <1>3, <1>4 DEF TypeOK
-----------------------------------------------------------------------------
(***************************************************************************)
(* Type correctness.                                                       *)
(***************************************************************************)
Task == [phase : {"idle", "check", "apply", "mark"}, event : Events \cup {NoEvent}]

LEMMA InitInv == Init => IInv
  <1> SUFFICES ASSUME Init PROVE IInv  OBVIOUS
  <1>1. TypeOK
    <2>1. \A p \in Payments : Credits[p] \in Nat  BY BillingAssumption
    <2>2. \A p \in Payments : payment[p].refunded <= Credits[p]  BY <2>1 DEF Init
    <2>3. payment \in [Payments -> [status : PaymentStatus, refunded : Nat]]
      BY DEF Init, PaymentStatus
    <2>4. sent \in Seq(Events)  BY DEF Init
    <2> QED  BY <2>2, <2>3, <2>4, BillingAssumption DEF Init, TypeOK, Idle
  <1> QED  BY <1>1 DEF Init, IInv, WorkOK, MarkOK, AnsweredWasApplied, Idle

LEMMA TaskType ==
  ASSUME TypeOK, NEW h \in Handlers, NEW p \in {"idle", "check", "apply", "mark"},
         Return(h) \/ Goto(h, p)
  PROVE  handler' \in [Handlers -> Task]
  <1>1. handler \in [Handlers -> Task]  BY DEF TypeOK, Task
  <1>2. Idle \in Task  BY DEF Idle, Task
  <1>3. [phase |-> p, event |-> handler[h].event] \in Task  BY <1>1 DEF Task
  <1> QED  BY <1>1, <1>2, <1>3 DEF Return, Goto

(* The row of a payment, rewritten with what was taken back of it.          *)
LEMMA PaymentType ==
  ASSUME TypeOK, NEW p \in Payments, NEW st \in PaymentStatus, NEW n \in 0..Credits[p],
         payment' = [payment EXCEPT ![p] = [status |-> st, refunded |-> n]]
  PROVE  /\ payment' \in [Payments -> [status : PaymentStatus, refunded : Nat]]
         /\ \A q \in Payments : payment'[q].refunded <= Credits[q]
  <1>1. Credits[p] \in Nat /\ n \in Nat /\ n <= Credits[p]  BY BillingAssumption
  <1>2. \A q \in Payments :
          payment'[q] = IF q = p THEN [status |-> st, refunded |-> n] ELSE payment[q]
    BY DEF TypeOK
  <1>3. payment' \in [Payments -> [status : PaymentStatus, refunded : Nat]]
    BY <1>1 DEF TypeOK
  <1> QED  BY <1>1, <1>2, <1>3 DEF TypeOK

LEMMA ReversalType ==
  ASSUME TypeOK, WorkOK, NEW h \in Handlers, ApplyReversal(h)
  PROVE  /\ payment' \in [Payments -> [status : PaymentStatus, refunded : Nat]]
         /\ \A q \in Payments : payment'[q].refunded <= Credits[q]
         /\ wallet' \in [Accounts -> Nat]
  <1> DEFINE e == handler[h].event
             p == e.payment
             a == Recipient[p]
             old == payment[p].refunded
  <1>1. e \in Events /\ p \in Payments  BY EventType DEF WorkOK, ApplyReversal, At
  <1>2. /\ a \in Accounts /\ Credits[p] \in Nat
        /\ wallet \in [Accounts -> Nat] /\ wallet[a] \in Nat
        /\ old \in 0..Credits[p]
    BY <1>1, BillingAssumption DEF TypeOK
  <1>3. StatusAfter(e) \in PaymentStatus  BY DEF StatusAfter, PaymentStatus
  <1>4. DesiredReversal(e) \in 0..Credits[p]  BY <1>1, DesiredType
  <1>5. \/ /\ wallet' = [wallet EXCEPT ![a] = wallet[a] + old]
           /\ payment' = [payment EXCEPT ![p] = [status |-> StatusAfter(e), refunded |-> 0]]
        \/ /\ Affordable(e) /\ Delta(e) > 0
           /\ wallet' = [wallet EXCEPT ![a] = wallet[a] - Delta(e)]
           /\ payment' = [payment EXCEPT ![p] =
                            [status |-> StatusAfter(e), refunded |-> DesiredReversal(e)]]
        \/ /\ wallet' = wallet
           /\ payment' = [payment EXCEPT ![p] = [status |-> "reversal_review", refunded |-> old]]
        \/ /\ wallet' = wallet
           /\ payment' = [payment EXCEPT ![p] = [status |-> StatusAfter(e), refunded |-> old]]
    BY DEF ApplyReversal
  <1> HIDE DEF e
  <1>6. /\ payment' \in [Payments -> [status : PaymentStatus, refunded : Nat]]
        /\ \A q \in Payments : payment'[q].refunded <= Credits[q]
    <2>1. "reversal_review" \in PaymentStatus /\ 0 \in 0..Credits[p]  BY <1>2 DEF PaymentStatus
    <2> QED  BY <1>1, <1>2, <1>3, <1>4, <1>5, <2>1, PaymentType
  <1>7. wallet' \in [Accounts -> Nat]
    <2>1. CASE /\ Affordable(e) /\ Delta(e) > 0
               /\ wallet' = [wallet EXCEPT ![a] = wallet[a] - Delta(e)]
      <3>1. Delta(e) \in Int /\ Delta(e) <= wallet[a]  BY <1>2, <1>4, <2>1 DEF Delta, Affordable
      <3>2. wallet[a] - Delta(e) \in Nat  BY <1>2, <3>1
      <3> QED  BY <1>2, <2>1, <3>2
    <2>2. CASE wallet' = [wallet EXCEPT ![a] = wallet[a] + old]
      <3>1. wallet[a] + old \in Nat  BY <1>2
      <3> QED  BY <1>2, <2>2, <3>1
    <2> QED  BY <1>2, <1>5, <2>1, <2>2
  <1> QED  BY <1>6, <1>7

LEMMA CounterType ==
  ASSUME TypeOK
  PROVE  /\ StatementFails => failures' \in 0..MaxFailures
         /\ MaxFailures \in Nat /\ MaxSpends \in Nat /\ MaxRequests \in Nat
  BY BillingAssumption DEF TypeOK, StatementFails

LEMMA TypeStep == IInv /\ Next => TypeOK'
  <1> SUFFICES ASSUME IInv, Next PROVE TypeOK'  OBVIOUS
  <1> USE DEF rows, bounds, history
  <1>0. TypeOK /\ WorkOK  BY DEF IInv
  <1>1. ASSUME NEW e \in Events, Send(e) PROVE TypeOK'
    <2>1. sent' \in Seq(Events) /\ applied' \subseteq 1..Len(sent')
      BY <1>0, <1>1, SentGrows DEF Send
    <2> QED  BY <1>0, <1>1, <2>1 DEF Send, TypeOK
  <1>2. ASSUME NEW h \in Handlers, NEW e \in Events, Receive(h, e) PROVE TypeOK'
    <2>1. webhook' \in [Events -> {"absent", "recorded", "processed"}]
      BY <1>0, <1>2 DEF Receive, TypeOK
    <2>2. handler' \in [Handlers -> Task]  BY <1>0, <1>2 DEF Receive, TypeOK, Task
    <2> QED  BY <1>0, <1>2, <2>1, <2>2 DEF Receive, TypeOK, Task
  <1>3. ASSUME NEW h \in Handlers, CheckProcessed(h) PROVE TypeOK'
    <2>1. handler' \in [Handlers -> Task]  BY <1>0, <1>3, TaskType DEF CheckProcessed
    <2>2. handler[h].event \in Events  BY <1>0, <1>3 DEF CheckProcessed, At, WorkOK
    <2>3. answered' \subseteq Events  BY <1>0, <1>3, <2>2 DEF CheckProcessed, Answer, TypeOK
    <2> QED  BY <1>0, <1>3, <2>1, <2>3 DEF CheckProcessed, TypeOK, Task
  <1>4. ASSUME NEW h \in Handlers, CheckFails(h) PROVE TypeOK'
    <2>1. handler' \in [Handlers -> Task]  BY <1>0, <1>4, TaskType DEF CheckFails
    <2> QED  BY <1>0, <1>4, <2>1, CounterType DEF CheckFails, TypeOK, Task
  <1>5. ASSUME NEW h \in Handlers, ApplyPayment(h) PROVE TypeOK'
    <2> DEFINE p == handler[h].event.payment
    <2>1. handler' \in [Handlers -> Task]  BY <1>0, <1>5, TaskType DEF ApplyPayment
    <2>2. p \in Payments  BY <1>0, <1>5, EventType DEF ApplyPayment, At, WorkOK
    <2>3. CASE UNCHANGED <<credited, wallet, payment>>
      BY <1>0, <1>5, <2>1, <2>3 DEF ApplyPayment, TypeOK, Task
    <2>4. CASE /\ credited' = credited \cup {p}
               /\ wallet' = [wallet EXCEPT ![Recipient[p]] = wallet[Recipient[p]] + Credits[p]]
               /\ payment' = [payment EXCEPT ![p] =
                                [status |-> "paid", refunded |-> payment[p].refunded]]
      <3>1. Recipient[p] \in Accounts /\ Credits[p] \in Nat  BY <2>2, BillingAssumption
      <3>2. wallet' \in [Accounts -> Nat]  BY <1>0, <2>4, <3>1 DEF TypeOK
      <3>3. "paid" \in PaymentStatus /\ payment[p].refunded \in 0..Credits[p]
        BY <1>0, <2>2, <3>1 DEF TypeOK, PaymentStatus
      <3>4. /\ payment' \in [Payments -> [status : PaymentStatus, refunded : Nat]]
            /\ \A q \in Payments : payment'[q].refunded <= Credits[q]
        BY <1>0, <2>2, <2>4, <3>3, PaymentType
      <3> QED  BY <1>0, <1>5, <2>1, <2>2, <2>4, <3>2, <3>4 DEF ApplyPayment, TypeOK, Task
    <2> QED  BY <1>5, <2>3, <2>4 DEF ApplyPayment
  <1>6. ASSUME NEW h \in Handlers, MarkProcessed(h) PROVE TypeOK'
    <2>1. handler' \in [Handlers -> Task]  BY <1>0, <1>6, TaskType DEF MarkProcessed
    <2>2. handler[h].event \in Events  BY <1>0, <1>6 DEF MarkProcessed, At, WorkOK
    <2>3. webhook' \in [Events -> {"absent", "recorded", "processed"}]
      BY <1>0, <1>6 DEF MarkProcessed, TypeOK
    <2>4. failures' \in 0..MaxFailures  BY <1>0, <1>6, CounterType DEF MarkProcessed, TypeOK
    <2>5. answered' \subseteq Events  BY <1>0, <1>6, <2>2 DEF MarkProcessed, Answer, TypeOK
    <2> QED  BY <1>0, <1>6, <2>1, <2>3, <2>4, <2>5 DEF MarkProcessed, TypeOK, Task
  <1>7. ASSUME NEW h \in Handlers, ApplyReversal(h) PROVE TypeOK'
    <2> DEFINE e == handler[h].event
    <2>1. handler' \in [Handlers -> Task]  BY <1>0, <1>7, TaskType DEF ApplyReversal
    <2>2. e \in Events /\ Sent(e)  BY <1>0, <1>7 DEF ApplyReversal, At, WorkOK
    <2>3. e.payment \in Payments  BY <2>2, EventType
    <2>4. webhook' \in [Events -> {"absent", "recorded", "processed"}]
      BY <1>0, <1>7 DEF ApplyReversal, TypeOK
    <2>5. applied' \subseteq 1..Len(sent) /\ disordered' \subseteq Payments
      <3>1. (CHOOSE j \in DOMAIN sent : sent[j] = e) \in DOMAIN sent  BY <2>2 DEF Sent
      <3>2. DOMAIN sent = 1..Len(sent)  BY <1>0 DEF TypeOK
      <3> QED  BY <1>0, <1>7, <2>3, <3>1, <3>2 DEF ApplyReversal, Apply, TypeOK
    <2>6. answered' \subseteq Events  BY <1>0, <1>7, <2>2 DEF ApplyReversal, Answer, TypeOK
    <2> QED  BY <1>0, <1>7, <2>1, <2>4, <2>5, <2>6, ReversalType DEF ApplyReversal, TypeOK, Task
  <1>8. ASSUME NEW h \in Handlers, RejectReversal(h) \/ Fail(h) PROVE TypeOK'
    <2>1. handler' \in [Handlers -> Task]  BY <1>0, <1>8, TaskType DEF RejectReversal, Fail
    <2> QED  BY <1>0, <1>8, <2>1, CounterType DEF RejectReversal, Fail, TypeOK, Task
  <1>9. ASSUME NEW p \in Payments, RequestRefund(p) PROVE TypeOK'
    <2> DEFINE e == Event(p, "refunded", Amount[p])
    <2>1. e \in Events
      <3>1. Amount[p] \in 1..Amount[p]  BY BillingAssumption
      <3> QED  BY <3>1 DEF Events, EventsOf
    <2>2. sent' \in Seq(Events) /\ applied' \subseteq 1..Len(sent')
      BY <1>0, <1>9, <2>1, SentGrows DEF RequestRefund
    <2>3. requests' \in 0..MaxRequests
      BY <1>0, <1>9, CounterType DEF RequestRefund, TypeOK
    <2> QED  BY <1>0, <1>9, <2>2, <2>3 DEF RequestRefund, TypeOK
  <1>10. ASSUME NEW p \in Payments, NoteRefund(p) PROVE TypeOK'
    <2>1. Pending(p) \in PaymentStatus /\ payment[p].refunded \in 0..Credits[p]
      BY <1>0, BillingAssumption DEF Pending, PaymentStatus, TypeOK
    <2>2. payment' = [payment EXCEPT ![p] =
                        [status |-> Pending(p), refunded |-> payment[p].refunded]]
      BY <1>10 DEF NoteRefund
    <2>3. /\ payment' \in [Payments -> [status : PaymentStatus, refunded : Nat]]
          /\ \A q \in Payments : payment'[q].refunded <= Credits[q]
      BY <1>0, <2>1, <2>2, PaymentType
    <2> QED  BY <1>0, <1>10, <2>3 DEF NoteRefund, TypeOK
  <1>11. ASSUME NEW a \in Accounts, NEW n \in Spends, Spend(a, n) PROVE TypeOK'
    <2>1. n \in Nat  BY BillingAssumption
    <2>2. wallet' \in [Accounts -> Nat] /\ spent' \in [Accounts -> Nat]
      BY <1>0, <1>11, <2>1 DEF Spend, TypeOK
    <2>3. spends' \in 0..MaxSpends  BY <1>0, <1>11, CounterType DEF Spend, TypeOK
    <2> QED  BY <1>0, <1>11, <2>2, <2>3 DEF Spend, TypeOK
  <1> QED  BY <1>1, <1>2, <1>3, <1>4, <1>5, <1>6, <1>7, <1>8, <1>9, <1>10, <1>11 DEF Next, Work
-----------------------------------------------------------------------------
(***************************************************************************)
(* What is answered took effect.                                           *)
(***************************************************************************)
LEMMA EffectStays ==
  ASSUME TypeOK, credited \subseteq credited', applied \subseteq applied',
         \A i \in applied : sent'[i] = sent[i]
  PROVE  \A e : TookEffect(e) => TookEffect(e)'
  BY DEF TookEffect

(* Rows of payments are only added, reversals only applied once more.       *)
LEMMA EffectsGrow ==
  ASSUME IInv, Next
  PROVE  /\ \A e : TookEffect(e) => TookEffect(e)'
         /\ \A e : Sent(e) => Sent(e)'
         /\ credited \subseteq credited'
  <1> USE DEF rows, bounds, history
  <1>0. TypeOK  BY DEF IInv
  <1>1. ASSUME NEW e \in Events, Send(e)
        PROVE  /\ \A i \in applied : sent'[i] = sent[i]
               /\ \A f : Sent(f) => Sent(f)'
               /\ credited \subseteq credited' /\ applied \subseteq applied'
    BY <1>0, <1>1, SentGrows DEF Send
  <1>2. ASSUME NEW p \in Payments, RequestRefund(p)
        PROVE  /\ \A i \in applied : sent'[i] = sent[i]
               /\ \A f : Sent(f) => Sent(f)'
               /\ credited \subseteq credited' /\ applied \subseteq applied'
    <2> DEFINE e == Event(p, "refunded", Amount[p])
    <2>1. e \in Events
      <3>1. Amount[p] \in 1..Amount[p]  BY BillingAssumption
      <3> QED  BY <3>1 DEF Events, EventsOf
    <2> QED  BY <1>0, <1>2, <2>1, SentGrows DEF RequestRefund
  <1>3. CASE UNCHANGED sent /\ credited \subseteq credited' /\ applied \subseteq applied'
    BY <1>0, <1>3, EffectStays DEF Sent
  <1>4. ASSUME NEW h \in Handlers, Work(h)
        PROVE  UNCHANGED sent /\ credited \subseteq credited' /\ applied \subseteq applied'
    BY <1>4 DEF Work, CheckProcessed, ApplyPayment, MarkProcessed, ApplyReversal, RejectReversal,
                Apply
  <1>5. ASSUME NEW h \in Handlers,
               CheckFails(h) \/ Fail(h) \/ \E e \in Events : Receive(h, e)
        PROVE  UNCHANGED sent /\ credited \subseteq credited' /\ applied \subseteq applied'
    BY <1>5 DEF CheckFails, Fail, Receive
  <1>6. ASSUME \/ \E p \in Payments : NoteRefund(p)
               \/ \E a \in Accounts, n \in Spends : Spend(a, n)
        PROVE  UNCHANGED sent /\ credited \subseteq credited' /\ applied \subseteq applied'
    BY <1>6 DEF NoteRefund, Spend
  <1> QED  BY <1>0, <1>1, <1>2, <1>3, <1>4, <1>5, <1>6, EffectStays DEF Next

LEMMA WorkStep == IInv /\ Next => WorkOK'
  <1> SUFFICES ASSUME IInv, Next, NEW g \in Handlers, handler'[g].phase # "idle",
                      NEW d, d = handler'[g].event
               PROVE  /\ d \in Events /\ Sent(d)'
                      /\ handler'[g].phase = "mark" => d.type = "completed"
                                                       /\ d.payment \in credited'
    BY DEF WorkOK, Sent
  <1> DEFINE Goal == /\ d \in Events /\ Sent(d)'
                     /\ handler'[g].phase = "mark" => d.type = "completed"
                                                      /\ d.payment \in credited'
  <1> USE DEF rows, bounds, history, At
  <1>0. TypeOK /\ WorkOK /\ handler \in [Handlers -> Task]  BY DEF IInv, TypeOK, Task
  <1>1. CASE handler'[g] = handler[g]
    BY <1>0, <1>1, EffectsGrow DEF WorkOK
  <1>2. ASSUME NEW h \in Handlers, Return(h) PROVE Goal
    BY <1>0, <1>1, <1>2 DEF Return, Idle
  <1>3. ASSUME NEW h \in Handlers, handler[h].phase # "idle",
               Goto(h, "apply") \/ (/\ Goto(h, "mark") /\ handler[h].event.type = "completed"
                                    /\ handler[h].event.payment \in credited')
        PROVE  Goal
    <2>1. CASE g # h
      <3>1. handler'[g] = handler[g]  BY <1>0, <1>3, <2>1 DEF Goto
      <3> QED  BY <1>1, <3>1
    <2>2. CASE g = h
      <3>1. d = handler[g].event /\ handler'[g].phase \in {"apply", "mark"}
            /\ (handler'[g].phase = "mark" => handler[h].event.type = "completed"
                                              /\ handler[h].event.payment \in credited')
        BY <1>0, <1>3, <2>2 DEF Goto
      <3> QED  BY <1>0, <1>3, <2>2, <3>1, EffectsGrow DEF WorkOK
    <2> QED  BY <2>1, <2>2
  <1>4. ASSUME NEW h \in Handlers, NEW e \in Events, Receive(h, e) PROVE Goal
    <2>1. CASE g # h
      <3>1. handler'[g] = handler[g]  BY <1>0, <1>4, <2>1 DEF Receive
      <3> QED  BY <1>1, <3>1
    <2>2. CASE g = h
      <3>1. d = e /\ handler'[g].phase \in {"apply", "check"}
        BY <1>0, <1>4, <2>2 DEF Receive
      <3>2. Sent(e)'  BY <1>4, EffectsGrow DEF Receive
      <3> QED  BY <3>1, <3>2
    <2> QED  BY <2>1, <2>2
  <1>5. ASSUME NEW h \in Handlers, ApplyPayment(h) PROVE Goal
    <2>1. /\ handler[h].phase # "idle" /\ Goto(h, "mark") /\ handler[h].event.type = "completed"
          /\ handler[h].event.payment \in credited'
      BY <1>5 DEF ApplyPayment, NotYetCredited
    <2> QED  BY <1>3, <2>1
  <1>6. ASSUME NEW h \in Handlers, CheckProcessed(h) \/ CheckFails(h) PROVE Goal
    <2>1. handler[h].phase # "idle" /\ (Return(h) \/ Goto(h, "apply"))
      BY <1>6 DEF CheckProcessed, CheckFails
    <2> QED  BY <1>2, <1>3, <2>1
  <1>7. ASSUME NEW h \in Handlers,
               MarkProcessed(h) \/ ApplyReversal(h) \/ RejectReversal(h) \/ Fail(h)
        PROVE  Goal
    BY <1>2, <1>7 DEF MarkProcessed, ApplyReversal, RejectReversal, Fail
  <1>8. ASSUME \/ \E e \in Events : Send(e)
               \/ \E p \in Payments : RequestRefund(p) \/ NoteRefund(p)
               \/ \E a \in Accounts, n \in Spends : Spend(a, n)
        PROVE  Goal
    BY <1>1, <1>8 DEF Send, RequestRefund, NoteRefund, Spend
  <1> QED  BY <1>4, <1>5, <1>6, <1>7, <1>8 DEF Next, Work

(* A mark or an answer that is new says of an event that took effect.       *)
LEMMA AppliedTakesEffect ==
  ASSUME IInv, NEW h \in Handlers, ApplyReversal(h), NEW e, e = handler[h].event
  PROVE  TookEffect(e)'
  <1> DEFINE i == CHOOSE j \in DOMAIN sent : sent[j] = e
  <1>1. Sent(e) /\ e.type # "completed"  BY DEF IInv, WorkOK, ApplyReversal, At
  <1>2. sent[i] = e  BY <1>1 DEF Sent
  <1>3. i \in applied' /\ sent' = sent  BY DEF ApplyReversal, Apply
  <1> QED  BY <1>1, <1>2, <1>3 DEF TookEffect

LEMMA NewMarkOrAnswer ==
  ASSUME IInv, Next, NEW e \in Events,
         \/ webhook'[e] = "processed" /\ webhook[e] # "processed"
         \/ e \in answered' \ answered
  PROVE  TookEffect(e)'
  <1> USE DEF rows, bounds, history, At
  <1>0. TypeOK /\ WorkOK /\ MarkOK  BY DEF IInv
  <1>1. ASSUME NEW h \in Handlers, ApplyReversal(h) PROVE TookEffect(e)'
    <2>1. e = handler[h].event  BY <1>0, <1>1 DEF ApplyReversal, Answer, TypeOK
    <2> QED  BY <1>1, <2>1, AppliedTakesEffect
  <1>2. ASSUME NEW h \in Handlers, MarkProcessed(h) PROVE TookEffect(e)'
    <2>1. e = handler[h].event  BY <1>0, <1>2 DEF MarkProcessed, Answer, TypeOK
    <2>2. TookEffect(e)  BY <1>0, <1>2, <2>1 DEF MarkProcessed, WorkOK, TookEffect
    <2> QED  BY <2>2, EffectsGrow
  <1>3. ASSUME NEW h \in Handlers, CheckProcessed(h) PROVE TookEffect(e)'
    <2>1. e = handler[h].event /\ webhook[e] = "processed"
      BY <1>0, <1>3 DEF CheckProcessed, Answer, Known, TypeOK
    <2> QED  BY <1>0, <2>1, EffectsGrow DEF MarkOK
  <1>4. ASSUME NEW h \in Handlers, NEW f \in Events, Receive(h, f) PROVE FALSE
    BY <1>0, <1>4 DEF Receive, TypeOK
  <1>5. ASSUME \/ \E f \in Events : Send(f)
               \/ \E h \in Handlers : CheckFails(h) \/ Fail(h) \/ RejectReversal(h) \/ ApplyPayment(h)
               \/ \E p \in Payments : RequestRefund(p) \/ NoteRefund(p)
               \/ \E a \in Accounts, n \in Spends : Spend(a, n)
        PROVE  FALSE
    BY <1>5 DEF Send, CheckFails, Fail, RejectReversal, ApplyPayment, RequestRefund, NoteRefund,
       Spend
  <1> QED  BY <1>1, <1>2, <1>3, <1>4, <1>5 DEF Next, Work

LEMMA AnswerStep == IInv /\ Next => MarkOK' /\ AnsweredWasApplied'
  <1> SUFFICES ASSUME IInv, Next PROVE MarkOK' /\ AnsweredWasApplied'  OBVIOUS
  <1>1. AnsweredWasApplied <=> \A e \in answered : TookEffect(e)
    BY DEF AnsweredWasApplied, TookEffect
  <1>2. AnsweredWasApplied' <=> \A e \in answered' : TookEffect(e)'
    BY DEF AnsweredWasApplied, TookEffect
  <1>3. answered' \subseteq Events  BY TypeStep DEF TypeOK
  <1> QED  BY <1>1, <1>2, <1>3, EffectsGrow, NewMarkOrAnswer DEF IInv, MarkOK

LEMMA Invariant == Spec => []IInv
  <1>1. IInv /\ [Next]_vars => IInv'
    <2>1. CASE UNCHANGED vars
      BY <2>1 DEF vars, rows, bounds, history, IInv, TypeOK, WorkOK, MarkOK, TookEffect,
         AnsweredWasApplied, Sent
    <2> QED  BY <2>1, TypeStep, WorkStep, AnswerStep DEF IInv
  <1> QED  BY <1>1, InitInv, PTL DEF Spec

(* Every variable keeps its type: no reversal makes a wallet negative or    *)
(* takes back more than a payment was credited.                             *)
THEOREM TypeCorrect == Spec => []TypeOK
  BY Invariant, PTL DEF IInv

(* Stripe is told of success, and stops repeating an event, only after the  *)
(* event took effect, whatever fails, repeats or runs at the same time.     *)
THEOREM AnswersAreTrue == Spec => []AnsweredWasApplied
  BY Invariant, PTL DEF IInv
-----------------------------------------------------------------------------
(***************************************************************************)
(* The credits of an account.                                              *)
(***************************************************************************)
(* A payment that was never credited has no row, and nothing was taken back *)
(* of it.                                                                   *)
RowsOK ==
  \A p \in Payments :
    /\ payment[p].status = "absent" <=> p \notin credited
    /\ p \notin credited => payment[p].refunded = 0

PaymentsTo(a) == {p \in Payments : Recipient[p] = a}
AllKept == [p \in Payments |-> Kept(p)]

LEMMA PaymentsFinite ==
  ASSUME NEW a
  PROVE  PaymentsTo(a) \subseteq Payments /\ IsFiniteSet(PaymentsTo(a))
  <1>1. PaymentsTo(a) \in SUBSET Payments  BY DEF PaymentsTo
  <1> QED  BY <1>1, FS_Subset, BillingAssumption

LEMMA KeptNat ==
  ASSUME TypeOK
  PROVE  \A p \in Payments : Kept(p) \in Nat
  <1> SUFFICES ASSUME NEW p \in Payments PROVE Kept(p) \in Nat  OBVIOUS
  <1>1. Credits[p] \in Nat /\ payment[p].refunded \in Nat /\ payment[p].refunded <= Credits[p]
    BY BillingAssumption DEF TypeOK
  <1> QED  BY <1>1 DEF Kept

LEMMA Accounting ==
  CreditsAccounted <=> \A a \in Accounts : wallet[a] + spent[a] = Total(AllKept, PaymentsTo(a))
  BY DEF CreditsAccounted, AllKept, PaymentsTo

(* A step that leaves every payment's kept credits leaves the sums.         *)
LEMMA SameKept ==
  ASSUME CreditsAccounted, \A p \in Payments : Kept(p)' = Kept(p),
         \A a \in Accounts : wallet'[a] + spent'[a] = wallet[a] + spent[a]
  PROVE  CreditsAccounted'
  <1>1. AllKept' = AllKept  BY DEF AllKept
  <1>2. \A a \in Accounts : wallet'[a] + spent'[a] = Total(AllKept', PaymentsTo(a))
    BY <1>1, Accounting
  <1> QED  BY <1>2 DEF CreditsAccounted, AllKept, PaymentsTo

(* A step that changes what is kept of one payment changes the wallet of    *)
(* its recipient by as much.                                                *)
LEMMA KeptMoves ==
  ASSUME TypeOK, TypeOK', CreditsAccounted, NEW p \in Payments, NEW d \in Int,
         Kept(p)' = Kept(p) + d, \A q \in Payments \ {p} : Kept(q)' = Kept(q),
         UNCHANGED spent, wallet' = [wallet EXCEPT ![Recipient[p]] = wallet[Recipient[p]] + d]
  PROVE  CreditsAccounted'
  <1> SUFFICES ASSUME NEW a \in Accounts
               PROVE  wallet'[a] + spent'[a] = Total(AllKept', PaymentsTo(a))
    BY DEF CreditsAccounted, AllKept, PaymentsTo
  <1>1. /\ wallet[a] \in Nat /\ spent[a] \in Nat /\ spent'[a] = spent[a]
        /\ wallet'[a] = IF a = Recipient[p] THEN wallet[a] + d ELSE wallet[a]
        /\ wallet[a] + spent[a] = Total(AllKept, PaymentsTo(a))
    BY BillingAssumption, Accounting DEF TypeOK
  <1>2. \A q \in Payments : /\ AllKept[q] = Kept(q) /\ AllKept'[q] = Kept(q)'
                            /\ AllKept[q] \in Nat /\ AllKept'[q] \in Nat
    <2>1. \A q \in Payments : Kept(q) \in Nat  BY KeptNat
    <2>2. \A q \in Payments : Kept(q)' \in Nat
      <3> SUFFICES ASSUME NEW q \in Payments PROVE Kept(q)' \in Nat  OBVIOUS
      <3>1. Credits[q] \in Nat /\ payment'[q].refunded \in Nat /\ payment'[q].refunded <= Credits[q]
        BY BillingAssumption DEF TypeOK
      <3> QED  BY <3>1 DEF Kept
    <2> QED  BY <2>1, <2>2 DEF AllKept
  <1>3. PaymentsTo(a) \subseteq Payments /\ IsFiniteSet(PaymentsTo(a))  BY PaymentsFinite
  <1>4. CASE a = Recipient[p]
    <2>1. p \in PaymentsTo(a)  BY <1>4 DEF PaymentsTo
    <2>2. /\ \A q \in PaymentsTo(a) : AllKept[q] \in Nat /\ AllKept'[q] \in Nat
          /\ \A q \in PaymentsTo(a) \ {p} : AllKept'[q] = AllKept[q]
      BY <1>2, <1>3
    <2>3. Total(AllKept', PaymentsTo(a)) + AllKept[p] = Total(AllKept, PaymentsTo(a)) + AllKept'[p]
      BY <1>3, <2>1, <2>2, TotalUpdate
    <2>4. Total(AllKept', PaymentsTo(a)) \in Nat  BY <1>3, <2>2, TotalType
    <2>5. AllKept'[p] = AllKept[p] + d /\ AllKept[p] \in Nat  BY <1>2
    <2> QED  BY <1>1, <1>4, <2>3, <2>4, <2>5
  <1>5. CASE a # Recipient[p]
    <2>1. \A q \in PaymentsTo(a) : AllKept'[q] = AllKept[q]
      BY <1>2, <1>3, <1>5 DEF PaymentsTo
    <2>2. Total(AllKept', PaymentsTo(a)) = Total(AllKept, PaymentsTo(a))  BY <2>1, TotalSame
    <2> QED  BY <1>1, <1>5, <2>2
  <1> QED  BY <1>4, <1>5

(* One row is written, with a status of its own and what was taken back.    *)
LEMMA KeptOf ==
  ASSUME TypeOK, NEW p \in Payments, NEW st, NEW n,
         payment' = [payment EXCEPT ![p] = [status |-> st, refunded |-> n]]
  PROVE  /\ payment'[p].status = st /\ payment'[p].refunded = n
         /\ \A q \in Payments \ {p} : payment'[q] = payment[q]
  BY DEF TypeOK

LEMMA AccountStep == IInv /\ RowsOK /\ CreditsAccounted /\ Next => RowsOK' /\ CreditsAccounted'
  <1> SUFFICES ASSUME IInv, RowsOK, CreditsAccounted, Next PROVE RowsOK' /\ CreditsAccounted'
    OBVIOUS
  <1> USE DEF rows, bounds, history
  <1>0. TypeOK /\ WorkOK /\ TypeOK'  BY TypeStep DEF IInv
  <1>1. CASE UNCHANGED <<credited, payment, wallet, spent>>
    <2>1. \A p \in Payments : Kept(p)' = Kept(p)  BY <1>1 DEF Kept
    <2>2. CreditsAccounted'  BY <1>1, <2>1, SameKept
    <2> QED  BY <1>1, <2>2 DEF RowsOK
  <1>2. ASSUME NEW h \in Handlers, ApplyPayment(h) PROVE RowsOK' /\ CreditsAccounted'
    <2>0. PICK p : p = handler[h].event.payment  OBVIOUS
    <2>1. p \in Payments  BY <1>0, <1>2, <2>0, EventType DEF ApplyPayment, At, WorkOK
    <2>2. CASE /\ p \notin credited /\ credited' = credited \cup {p}
               /\ wallet' = [wallet EXCEPT ![Recipient[p]] = wallet[Recipient[p]] + Credits[p]]
               /\ payment' = [payment EXCEPT ![p] =
                                [status |-> "paid", refunded |-> payment[p].refunded]]
      <3>1. /\ payment'[p].status = "paid" /\ payment'[p].refunded = payment[p].refunded
            /\ \A q \in Payments \ {p} : payment'[q] = payment[q]
        BY <1>0, <2>1, <2>2, KeptOf
      <3>2. payment[p].refunded = 0 /\ Credits[p] \in Nat
        BY <2>1, <2>2, BillingAssumption DEF RowsOK
      <3>3. Kept(p) = 0 /\ Kept(p)' = Credits[p] - 0
        BY <2>2, <3>1, <3>2 DEF Kept
      <3>4. \A q \in Payments \ {p} : Kept(q)' = Kept(q)  BY <2>2, <3>1 DEF Kept
      <3>5. spent' = spent  BY <1>2 DEF ApplyPayment
      <3>6. CreditsAccounted'
        <4>1. Credits[p] \in Int /\ Kept(p)' = Kept(p) + Credits[p]  BY <3>2, <3>3
        <4> QED  BY <1>0, <2>1, <2>2, <3>4, <3>5, <4>1, KeptMoves
      <3>7. RowsOK'  BY <2>1, <2>2, <3>1 DEF RowsOK
      <3> QED  BY <3>6, <3>7
    <2>3. CASE UNCHANGED <<credited, wallet, payment>>
      BY <1>1, <1>2, <2>3 DEF ApplyPayment
    <2> QED  BY <1>2, <2>0, <2>2, <2>3 DEF ApplyPayment, NotYetCredited
  <1>3. ASSUME NEW h \in Handlers, ApplyReversal(h) PROVE RowsOK' /\ CreditsAccounted'
    <2>0. PICK e, p : e = handler[h].event /\ p = e.payment  OBVIOUS
    <2> DEFINE a == Recipient[p]
               old == payment[p].refunded
    <2>1. e \in Events /\ p \in Payments /\ payment[p].status # "absent"
          /\ credited' = credited /\ spent' = spent
      BY <1>0, <1>3, <2>0, EventType DEF ApplyReversal, At, WorkOK
    <2>2. p \in credited  BY <2>1 DEF RowsOK
    <2>3. \/ /\ wallet' = [wallet EXCEPT ![a] = wallet[a] + old]
             /\ payment' = [payment EXCEPT ![p] = [status |-> StatusAfter(e), refunded |-> 0]]
          \/ /\ wallet' = [wallet EXCEPT ![a] = wallet[a] - Delta(e)]
             /\ payment' = [payment EXCEPT ![p] =
                              [status |-> StatusAfter(e), refunded |-> DesiredReversal(e)]]
          \/ /\ wallet' = wallet
             /\ payment' = [payment EXCEPT ![p] = [status |-> "reversal_review", refunded |-> old]]
          \/ /\ wallet' = wallet
             /\ payment' = [payment EXCEPT ![p] = [status |-> StatusAfter(e), refunded |-> old]]
      BY <1>3, <2>0 DEF ApplyReversal
    <2>4. /\ Credits[p] \in Nat /\ old \in Nat /\ a \in Accounts /\ wallet[a] \in Nat
          /\ DesiredReversal(e) \in Nat /\ Delta(e) = DesiredReversal(e) - old
      <3>1. Credits[p] \in Nat /\ a \in Accounts  BY <2>1, BillingAssumption
      <3>2. old \in Nat /\ wallet[a] \in Nat  BY <1>0, <2>1, <3>1 DEF TypeOK
      <3>3. DesiredReversal(e) \in 0..Credits[p]  BY <2>0, <2>1, DesiredType
      <3> QED  BY <2>0, <3>1, <3>2, <3>3 DEF Delta
    <2>5. StatusAfter(e) # "absent"  BY DEF StatusAfter
    <2>6. PICK st, n : /\ st # "absent"
                       /\ payment' = [payment EXCEPT ![p] = [status |-> st, refunded |-> n]]
                       /\ \/ n = 0 /\ wallet' = [wallet EXCEPT ![a] = wallet[a] + old]
                          \/ /\ n = DesiredReversal(e)
                             /\ wallet' = [wallet EXCEPT ![a] = wallet[a] - Delta(e)]
                          \/ n = old /\ wallet' = wallet
      BY <2>3, <2>5
    <2>7. /\ payment'[p].status = st /\ payment'[p].refunded = n
          /\ \A q \in Payments \ {p} : payment'[q] = payment[q]
      BY <1>0, <2>1, <2>6, KeptOf
    <2>8. RowsOK'  BY <2>1, <2>2, <2>6, <2>7 DEF RowsOK
    <2>9. \A q \in Payments \ {p} : Kept(q)' = Kept(q)  BY <2>1, <2>7 DEF Kept
    <2>10. Kept(p) = Credits[p] - old /\ Kept(p)' = Credits[p] - n
      BY <2>1, <2>2, <2>7 DEF Kept
    <2>11. n \in Nat  BY <2>4, <2>6
    <2>12. Kept(p)' = Kept(p) + (old - n)
      <3> HIDE DEF old
      <3> QED  BY <2>4, <2>10, <2>11
    <2>13. wallet' = [wallet EXCEPT ![a] = wallet[a] + (old - n)]
      <3> DEFINE held == wallet[a]
      <3>1. held \in Nat  BY <2>4
      <3>2. CASE n = 0 /\ wallet' = [wallet EXCEPT ![a] = held + old]
        <4>1. held + (old - n) = held + old  BY <2>4, <3>1, <3>2
        <4> QED  BY <3>2, <4>1
      <3>3. CASE n = DesiredReversal(e) /\ wallet' = [wallet EXCEPT ![a] = held - Delta(e)]
        <4>1. held + (old - n) = held - Delta(e)  BY <2>4, <3>1, <3>3
        <4> QED  BY <3>3, <4>1
      <3>4. CASE n = old /\ wallet' = wallet
        <4>1. held + (old - n) = held  BY <2>4, <3>1, <3>4
        <4>2. wallet' = [wallet EXCEPT ![a] = held]  BY <1>0, <3>4 DEF TypeOK
        <4> QED  BY <4>1, <4>2
      <3> QED  BY <2>6, <3>2, <3>3, <3>4
    <2>14. CreditsAccounted'
      <3>1. old - n \in Int  BY <2>4, <2>11
      <3> QED  BY <1>0, <2>1, <2>9, <2>12, <2>13, <3>1, KeptMoves
    <2> QED  BY <2>8, <2>14
  <1>4. ASSUME NEW p \in Payments, NoteRefund(p) PROVE RowsOK' /\ CreditsAccounted'
    <2>1. /\ payment' = [payment EXCEPT ![p] =
                           [status |-> Pending(p), refunded |-> payment[p].refunded]]
          /\ UNCHANGED <<credited, wallet, spent>>
      BY <1>4 DEF NoteRefund
    <2>2. /\ payment'[p].status = Pending(p) /\ payment'[p].refunded = payment[p].refunded
          /\ \A q \in Payments \ {p} : payment'[q] = payment[q]
      BY <1>0, <2>1, KeptOf
    <2>3. Pending(p) = "absent" <=> payment[p].status = "absent"  BY DEF Pending
    <2>4. RowsOK'  BY <2>1, <2>2, <2>3 DEF RowsOK
    <2>5. \A q \in Payments : Kept(q)' = Kept(q)  BY <2>1, <2>2 DEF Kept
    <2> QED  BY <2>1, <2>4, <2>5, SameKept
  <1>5. ASSUME NEW a \in Accounts, NEW n \in Spends, Spend(a, n) PROVE RowsOK' /\ CreditsAccounted'
    <2>1. UNCHANGED <<credited, payment>>  BY <1>5 DEF Spend
    <2>2. \A p \in Payments : Kept(p)' = Kept(p)  BY <2>1 DEF Kept
    <2>3. n \in Nat  BY BillingAssumption
    <2>4. \A b \in Accounts : wallet'[b] + spent'[b] = wallet[b] + spent[b]
      BY <1>0, <1>5, <2>3 DEF Spend, TypeOK
    <2> QED  BY <2>1, <2>2, <2>4, SameKept DEF RowsOK
  <1>6. ASSUME \/ \E e \in Events : Send(e)
               \/ \E h \in Handlers :
                    \/ CheckProcessed(h) \/ CheckFails(h) \/ MarkProcessed(h) \/ RejectReversal(h)
                    \/ Fail(h) \/ \E e \in Events : Receive(h, e)
               \/ \E p \in Payments : RequestRefund(p)
        PROVE  UNCHANGED <<credited, payment, wallet, spent>>
    BY <1>6 DEF Send, CheckProcessed, CheckFails, MarkProcessed, RejectReversal, Fail, Receive,
       RequestRefund
  <1> QED  BY <1>1, <1>2, <1>3, <1>4, <1>5, <1>6 DEF Next, Work

LEMMA AccountInvariant == Spec => [](RowsOK /\ CreditsAccounted)
  <1>1. Init => RowsOK /\ CreditsAccounted
    <2> SUFFICES ASSUME Init PROVE RowsOK /\ CreditsAccounted  OBVIOUS
    <2>1. RowsOK  BY DEF Init, RowsOK
    <2>2. \A p \in Payments : AllKept[p] = 0  BY DEF Init, AllKept, Kept
    <2>3. ASSUME NEW a \in Accounts PROVE Total(AllKept, PaymentsTo(a)) = 0
      <3>1. Units(AllKept, PaymentsTo(a)) = {}
        <4>1. \A p \in PaymentsTo(a) : 1 .. AllKept[p] = {}  BY <2>2 DEF PaymentsTo
        <4> QED  BY <4>1 DEF Units
      <3> QED  BY <3>1, FS_EmptySet DEF Total
    <2>4. CreditsAccounted  BY <2>3, Accounting DEF Init
    <2> QED  BY <2>1, <2>4
  <1>2. IInv /\ RowsOK /\ CreditsAccounted /\ [Next]_vars => (RowsOK /\ CreditsAccounted)'
    <2>1. CASE UNCHANGED vars
      BY <2>1 DEF vars, rows, bounds, history, RowsOK, CreditsAccounted, Kept
    <2> QED  BY <2>1, AccountStep
  <1> QED  BY <1>1, <1>2, Invariant, PTL DEF Spec

(* An account holds what its payments bought, less what is recorded as taken *)
(* back and less what was spent: no event that is repeated, reordered,       *)
(* applied twice at once or interrupted credits or debits a payment twice    *)
(* (billingWebhook, applyStripeReversal).                                    *)
THEOREM CreditsAreAccounted == Spec => []CreditsAccounted
  BY AccountInvariant, PTL
-----------------------------------------------------------------------------
(***************************************************************************)
(* What is left of a payment once all its events are answered.             *)
(***************************************************************************)
(* The events of a payment are created in the order of a charge's life.     *)
Follows(i, j) ==
  /\ sent[j].type # "completed" /\ sent[i].type # "lost"
  /\ sent[i].type = "refunded" /\ sent[j].type = "refunded" => sent[i].amount < sent[j].amount
  /\ sent[j].type = "created" => sent[i].type \notin {"created"} \cup Closings
  /\ sent[i].type \in Closings => sent[j].type \notin Closings
  /\ sent[i].type = "created" /\ sent[j].type = "refunded" =>
       \E k \in DOMAIN sent : /\ i < k /\ k < j /\ sent[k].payment = sent[i].payment
                              /\ sent[k].type \in {"won", "warning"}
Amounts(p) == {0} \cup {sent[i].amount : i \in {j \in DOMAIN sent : sent[j].payment = p}}
OrderOK ==
  /\ \A i, j \in DOMAIN sent : i < j /\ sent[i].payment = sent[j].payment => Follows(i, j)
  /\ \A j \in DOMAIN sent : sent[j].type \in Closings =>
       \E i \in DOMAIN sent : /\ i < j /\ sent[i].payment = sent[j].payment
                              /\ sent[i].type = "created"
  /\ \A p \in Payments : \E m \in Amounts(p) : \A x \in Amounts(p) : x <= m

(* The reversals of a payment, and those that were applied.                 *)
Reversals(p) == {i \in DOMAIN sent : sent[i].payment = p /\ sent[i].type # "completed"}
Done(p) == applied \cap Reversals(p)
Gapless(p) == \A i \in Done(p), j \in Reversals(p) : j < i => j \in applied
Ordered(p) == p \notin disordered /\ ~Mixed(p) /\ "warning" \notin SentTypes(p)

(* What the row says after e, the last of the reversals applied.            *)
Stands(p, e) ==
  /\ e.type = "created" =>
       \/ payment[p].status = "disputed" /\ payment[p].refunded = Credits[p]
       \/ payment[p].status = "reversal_review" /\ payment[p].refunded = 0
  /\ e.type = "won" => payment[p].refunded = 0
  /\ e.type = "lost" /\ payment[p].status # "reversal_review" =>
       payment[p].refunded = Credits[p]
  /\ e.type = "refunded" =>
       /\ payment[p].refunded <= DesiredReversal(e)
       /\ payment[p].status # "reversal_review" => payment[p].refunded = DesiredReversal(e)
Settles(p) ==
  Ordered(p) /\ Gapless(p) =>
    \/ Done(p) = {} /\ payment[p].refunded = 0
    \/ \E i \in Done(p) : (\A j \in Done(p) : j <= i) /\ Stands(p, sent[i])

SettleInv ==
  /\ OrderOK
  /\ \A i \in applied : sent[i].payment \in credited
  /\ \A p \in Payments : Settles(p)

(* The rounded-up share of a refund is the least that covers it.            *)
LEMMA ShareLeast ==
  ASSUME NEW c \in Nat, NEW m \in Nat \ {0}, NEW n \in 0..m,
         NEW q, q = IF n < m THEN (c * n + m - 1) \div m ELSE c
  PROVE  /\ q \in 0..c /\ q * m >= c * n
         /\ \A x \in Nat : x * m >= c * n => q <= x
  <1>1. CASE n < m
    <2>1. q \in 0..c  BY <1>1, ShareBound
    <2>2. PICK s \in Nat : s = c * n  OBVIOUS
    <2>3. q = (s + m - 1) \div m  BY <1>1, <2>2
    <2>4. q * m <= s + m - 1 /\ s + m - 1 < q * m + m
      <3>1. \A x \in Nat, y \in Nat \ {0} :
              (x \div y) * y <= x /\ x < (x \div y) * y + y
        OBVIOUS
      <3>2. PICK z \in Nat : z = s + m - 1  BY <2>2
      <3> QED  BY <2>3, <3>1, <3>2
    <2>5. ASSUME NEW x \in Nat, x * m >= s, x < q PROVE FALSE
      <3>1. (x + 1) * m <= q * m
        <4>1. \A a, b, z \in Nat : a <= b => a * z <= b * z  OBVIOUS
        <4> QED  BY <2>1, <2>5, <4>1
      <3>2. (x + 1) * m = x * m + m  OBVIOUS
      <3>3. x * m \in Nat /\ q * m \in Nat
        <4>1. \A a, b \in Nat : a * b \in Nat  OBVIOUS
        <4> QED  BY <2>1, <4>1
      <3> QED  BY <2>4, <2>5, <3>1, <3>2, <3>3
    <2>6. q * m >= s
      <3>1. q * m \in Nat
        <4>1. \A a, b \in Nat : a * b \in Nat  OBVIOUS
        <4> QED  BY <2>1, <4>1
      <3> QED  BY <2>4, <3>1
    <2> QED  BY <2>1, <2>2, <2>5, <2>6
  <1>2. CASE ~(n < m)
    <2>1. n = m /\ q = c  BY <1>2
    <2>2. ASSUME NEW x \in Nat, x * m >= c * m, x < c PROVE FALSE
      <3>1. (x + 1) * m <= c * m
        <4>1. \A a, b, z \in Nat : a <= b => a * z <= b * z  OBVIOUS
        <4> QED  BY <2>2, <4>1
      <3>2. (x + 1) * m = x * m + m  OBVIOUS
      <3>3. x * m \in Nat /\ c * m \in Nat
        <4>1. \A a, b \in Nat : a * b \in Nat  OBVIOUS
        <4> QED  BY <4>1
      <3> QED  BY <2>2, <3>1, <3>2, <3>3
    <2>3. c * m >= c * m
      <3>1. c * m \in Nat
        <4>1. \A a, b \in Nat : a * b \in Nat  OBVIOUS
        <4> QED  BY <4>1
      <3> QED  BY <3>1
    <2> QED  BY <2>1, <2>2, <2>3
  <1> QED  BY <1>1, <1>2

(* Of a refund, and of one that follows it.                                 *)
LEMMA RefundShare ==
  ASSUME NEW e \in Events, e.type = "refunded"
  PROVE  LET p == e.payment q == DesiredReversal(e)
         IN  /\ q \in 0..Credits[p] /\ q * Amount[p] >= Credits[p] * e.amount
             /\ \A x \in Nat : x * Amount[p] >= Credits[p] * e.amount => q <= x
  <1>1. /\ e.payment \in Payments /\ Credits[e.payment] \in Nat
        /\ Amount[e.payment] \in Nat \ {0} /\ e.amount \in 0..Amount[e.payment]
    BY EventType, BillingAssumption
  <1>2. DesiredReversal(e) =
          IF e.amount < Amount[e.payment]
            THEN (Credits[e.payment] * e.amount + Amount[e.payment] - 1) \div Amount[e.payment]
            ELSE Credits[e.payment]
    BY DEF DesiredReversal
  <1> QED  BY <1>1, <1>2, ShareLeast, ZenonT(40)

LEMMA SharesGrow ==
  ASSUME NEW e \in Events, e.type = "refunded", NEW f \in Events, f.type = "refunded",
         e.payment = f.payment, e.amount <= f.amount
  PROVE  DesiredReversal(e) <= DesiredReversal(f)
  <1> DEFINE p == e.payment
  <1>1. /\ Credits[p] \in Nat /\ Amount[p] \in Nat /\ e.amount \in Nat /\ f.amount \in Nat
        /\ DesiredReversal(f) \in Nat
    BY EventType, BillingAssumption, DesiredType
  <1>2. Credits[p] * e.amount <= Credits[p] * f.amount
    <2>1. \A x, y, z \in Nat : x <= y => z * x <= z * y  OBVIOUS
    <2> QED  BY <1>1, <2>1
  <1>3. DesiredReversal(f) * Amount[p] >= Credits[p] * f.amount  BY RefundShare
  <1>4. DesiredReversal(f) * Amount[p] >= Credits[p] * e.amount
    <2>1. \A x, y \in Nat : x * y \in Nat  OBVIOUS
    <2>2. /\ DesiredReversal(f) * Amount[p] \in Nat
          /\ Credits[p] * e.amount \in Nat /\ Credits[p] * f.amount \in Nat
      BY <1>1, <2>1
    <2> QED  BY <1>2, <1>3, <2>2
  <1> QED  BY <1>1, <1>4, RefundShare
-----------------------------------------------------------------------------
(* Positions and events.                                                    *)
LEMMA SentType ==
  ASSUME TypeOK
  PROVE  /\ Len(sent) \in Nat /\ DOMAIN sent = 1..Len(sent) /\ DOMAIN sent \subseteq Nat
         /\ applied \subseteq DOMAIN sent
         /\ \A i \in DOMAIN sent : sent[i] \in Events
  BY DEF TypeOK

LEMMA EventAmount ==
  ASSUME NEW e \in Events
  PROVE  e.amount \in Nat /\ (e.type # "refunded" => e.amount = 0)
  <1>1. \A p \in Payments : Amount[p] \in Nat  BY BillingAssumption
  <1> QED  BY <1>1 DEF Events, EventsOf, Event, Closings

LEMMA SentOne ==
  ASSUME TypeOK, NEW e \in Events, sent' = Append(sent, e)
  PROVE  \E n \in Nat :
           /\ n \notin DOMAIN sent /\ DOMAIN sent' = DOMAIN sent \cup {n} /\ sent'[n] = e
           /\ \A i \in DOMAIN sent : i < n /\ sent'[i] = sent[i]
  <1>1. /\ Len(sent) \in Nat /\ DOMAIN sent = 1..Len(sent)
        /\ DOMAIN sent' = 1..Len(sent) + 1 /\ sent'[Len(sent) + 1] = e
        /\ \A i \in DOMAIN sent : sent'[i] = sent[i]
    BY DEF TypeOK
  <1>2. PICK n \in Nat : n = Len(sent) + 1  BY <1>1
  <1>3. n \notin DOMAIN sent /\ \A i \in DOMAIN sent : i < n  BY <1>1, <1>2
  <1>4. DOMAIN sent' = DOMAIN sent \cup {n}  BY <1>1, <1>2
  <1> QED  BY <1>1, <1>2, <1>3, <1>4

LEMMA MaxIs ==
  ASSUME NEW S \in SUBSET Nat, NEW m \in S, \A x \in S : x <= m
  PROVE  Max(S) = m
  <1>1. \A x \in S : m >= x  OBVIOUS
  <1>2. /\ Max(S) \in S
        /\ \A x \in S : Max(S) >= x
    BY <1>1 DEF Max
  <1>3. m \in Nat /\ Max(S) \in Nat /\ m <= Max(S) /\ Max(S) <= m  BY <1>2
  <1> QED  BY <1>3

LEMMA AmountsType ==
  ASSUME TypeOK, OrderOK, NEW p \in Payments
  PROVE  /\ Amounts(p) \in SUBSET Nat
         /\ RefundedAmount(p) \in Amounts(p) /\ \A x \in Amounts(p) : x <= RefundedAmount(p)
  <1>1. Amounts(p) \in SUBSET Nat  BY SentType, EventAmount DEF Amounts
  <1>2. PICK m \in Amounts(p) : \A x \in Amounts(p) : x <= m  BY DEF OrderOK
  <1>3. RefundedAmount(p) = m  BY <1>1, <1>2, MaxIs DEF RefundedAmount, Amounts
  <1> QED  BY <1>1, <1>2, <1>3

LEMMA OrderSend ==
  ASSUME TypeOK, OrderOK, NEW e \in Events, MaySend(e), sent' = Append(sent, e)
  PROVE  OrderOK'
  <1>1. PICK n \in Nat :
           /\ n \notin DOMAIN sent /\ DOMAIN sent' = DOMAIN sent \cup {n} /\ sent'[n] = e
           /\ \A i \in DOMAIN sent : i < n /\ sent'[i] = sent[i]
    BY SentOne
  <1>2. PICK p \in Payments : p = e.payment  BY EventType
  <1>3. \A i \in DOMAIN sent : sent[i].payment = p => sent[i].type \in SentTypes(p)
    BY DEF SentTypes
  <1>4. e.type \in {"completed", "created", "refunded"} \cup Closings  BY EventType
  <1>5. /\ e.type = "completed" => SentTypes(p) = {}
        /\ e.type = "refunded" =>
             ~Disputed(p) /\ "lost" \notin SentTypes(p) /\ e.amount > RefundedAmount(p)
        /\ e.type = "created" => "created" \notin SentTypes(p)
        /\ e.type \in Closings => Disputed(p)
    BY <1>2, <1>4 DEF MaySend, Closings
  <1>6. ASSUME NEW j \in DOMAIN sent, sent[j].payment = p, sent[j].type \in Closings
        PROVE  "created" \in SentTypes(p)
    BY <1>3, <1>6 DEF OrderOK
  <1>7. ASSUME NEW i \in DOMAIN sent, sent[i].payment = p
        PROVE  Follows(i, n)'
    <2>1. /\ sent'[i] = sent[i] /\ sent'[n] = e /\ sent[i].type \in SentTypes(p)
      BY <1>1, <1>3, <1>7
    <2>2. e.type # "completed"  BY <1>5, <2>1
    <2>3. sent[i].type # "lost"
      BY <1>4, <1>5, <1>6, <1>7, <2>1, <2>2 DEF Disputed, Closings
    <2>4. sent[i].type = "refunded" /\ e.type = "refunded" => sent[i].amount < e.amount
      <3>1. sent[i].amount \in Amounts(p)  BY <1>7 DEF Amounts
      <3>2. /\ sent[i].amount \in Nat /\ RefundedAmount(p) \in Nat /\ e.amount \in Nat
            /\ sent[i].amount <= RefundedAmount(p)
        BY <3>1, AmountsType, EventAmount
      <3> QED  BY <1>5, <3>2
    <2>5. e.type = "created" => sent[i].type \notin {"created"} \cup Closings
      BY <1>5, <1>6, <1>7, <2>1
    <2>6. sent[i].type \in Closings => e.type \notin Closings
      BY <1>5, <2>1 DEF Disputed
    <2>7. ASSUME sent[i].type = "created", e.type = "refunded"
          PROVE  \E k \in DOMAIN sent : /\ i < k /\ k < n /\ sent[k].payment = p
                                        /\ sent[k].type \in {"won", "warning"}
      <3>1. PICK k \in DOMAIN sent : sent[k].payment = p /\ sent[k].type \in Closings
        BY <1>5, <2>1, <2>7 DEF Disputed, SentTypes
      <3>2. sent[k].type # "lost"  BY <1>3, <1>5, <2>7, <3>1
      <3>3. i \in Nat /\ k \in Nat /\ k < n  BY <1>1, SentType
      <3>4. k # i  BY <2>7, <3>1 DEF Closings
      <3>5. ~(k < i)
        BY <1>7, <2>7, <3>1 DEF OrderOK, Follows
      <3> QED  BY <3>1, <3>2, <3>3, <3>4, <3>5 DEF Closings
    <2> QED
      BY <1>1, <1>7, <2>1, <2>2, <2>3, <2>4, <2>5, <2>6, <2>7 DEF Follows
  <1>8. ASSUME NEW i \in DOMAIN sent', NEW j \in DOMAIN sent', i < j,
               sent'[i].payment = sent'[j].payment
        PROVE  Follows(i, j)'
    <2>1. i # n
      <3>1. \A k \in DOMAIN sent : k \in Nat  BY SentType
      <3> QED  BY <1>1, <1>8, <3>1
    <2>2. CASE j = n  BY <1>1, <1>2, <1>7, <1>8, <2>1, <2>2
    <2>3. CASE j # n
      <3>1. /\ i \in DOMAIN sent /\ j \in DOMAIN sent /\ sent'[i] = sent[i] /\ sent'[j] = sent[j]
        BY <1>1, <2>1, <2>3
      <3>2. Follows(i, j)  BY <1>8, <3>1 DEF OrderOK
      <3> QED  BY <1>1, <3>1, <3>2 DEF Follows
    <2> QED  BY <2>2, <2>3
  <1>9. ASSUME NEW j \in DOMAIN sent', sent'[j].type \in Closings
        PROVE  \E i \in DOMAIN sent' : /\ i < j /\ sent'[i].payment = sent'[j].payment
                                       /\ sent'[i].type = "created"
    <2>1. CASE j = n
      <3>1. "created" \in SentTypes(p)  BY <1>1, <1>5, <1>9, <2>1 DEF Disputed
      <3> QED  BY <1>1, <1>2, <2>1, <3>1 DEF SentTypes
    <2>2. CASE j # n
      <3>1. j \in DOMAIN sent /\ sent'[j] = sent[j]  BY <1>1, <2>2
      <3> QED  BY <1>1, <1>9, <3>1 DEF OrderOK
    <2> QED  BY <2>1, <2>2
  <1>10. ASSUME NEW q \in Payments
         PROVE  \E m \in Amounts(q)' : \A x \in Amounts(q)' : x <= m
    <2>1. PICK old \in SUBSET Nat : old = Amounts(q)  BY AmountsType
    <2>2. Amounts(q)' = IF q = p THEN old \cup {e.amount} ELSE old
      <3>1. \A x : x \in Amounts(q)' <=> x = 0 \/ \E i \in DOMAIN sent' :
                                         sent'[i].payment = q /\ x = sent'[i].amount
        BY DEF Amounts
      <3>2. \A x : x \in old <=> x = 0 \/ \E i \in DOMAIN sent :
                                         sent[i].payment = q /\ x = sent[i].amount
        BY <2>1 DEF Amounts
      <3>3. \A x : x \in Amounts(q)' <=> x \in old \/ (q = p /\ x = e.amount)
        BY <1>1, <1>2, <3>1, <3>2
      <3> QED  BY <3>3
    <2>3. PICK m \in old : \A x \in old : x <= m  BY <2>1 DEF OrderOK
    <2>4. e.amount \in Nat  BY EventAmount
    <2>5. CASE q = p /\ e.amount > m
      <3>1. \A x \in old \cup {e.amount} : x <= e.amount  BY <2>3, <2>4, <2>5
      <3> QED  BY <2>2, <2>5, <3>1
    <2>6. CASE ~(q = p /\ e.amount > m)
      <3>1. m \in Nat /\ (q = p => e.amount <= m)  BY <2>3, <2>4, <2>6
      <3>2. \A x \in Amounts(q)' : x <= m  BY <2>2, <2>3, <3>1
      <3> QED  BY <2>2, <2>3, <3>2
    <2> QED  BY <2>5, <2>6
  <1> QED  BY <1>8, <1>9, <1>10 DEF OrderOK

(* A new event leaves what was applied as it was.                           *)
LEMMA SettleSend ==
  ASSUME IInv, SettleInv, NEW e \in Events, MaySend(e), sent' = Append(sent, e),
         UNCHANGED <<payment, credited, applied, disordered>>
  PROVE  SettleInv'
  <1>0. TypeOK  BY DEF IInv
  <1>1. OrderOK'  BY <1>0, OrderSend DEF SettleInv
  <1>2. PICK n \in Nat :
           /\ n \notin DOMAIN sent /\ DOMAIN sent' = DOMAIN sent \cup {n} /\ sent'[n] = e
           /\ \A i \in DOMAIN sent : i < n /\ sent'[i] = sent[i]
    BY <1>0, SentOne
  <1>3. applied \subseteq DOMAIN sent  BY <1>0, SentType
  <1>4. \A i \in applied' : sent'[i].payment \in credited'  BY <1>2, <1>3 DEF SettleInv
  <1>5. ASSUME NEW p \in Payments PROVE Settles(p)'
    <2>1. Reversals(p) \subseteq Reversals(p)'  BY <1>2 DEF Reversals
    <2>2. Done(p)' = Done(p)  BY <1>2, <1>3 DEF Done, Reversals
    <2>3. Gapless(p)' => Gapless(p)  BY <2>1, <2>2 DEF Gapless
    <2>4. Ordered(p)' => Ordered(p)
      <3>1. Mixed(p) => Mixed(p)'  BY <1>2 DEF Mixed
      <3>2. SentTypes(p) \subseteq SentTypes(p)'  BY <1>2 DEF SentTypes
      <3> QED  BY <3>1, <3>2 DEF Ordered
    <2>5. \A i \in Done(p) : Stands(p, sent[i]) => Stands(p, sent[i])'
      <3>1. \A i \in Done(p) : sent'[i] = sent[i]  BY <1>2, <1>3 DEF Done
      <3> QED  BY <3>1 DEF Stands, DesiredReversal
    <2>6. Settles(p)  BY DEF SettleInv
    <2> QED  BY <2>2, <2>3, <2>4, <2>5, <2>6 DEF Settles
  <1> QED  BY <1>1, <1>4, <1>5 DEF SettleInv
-----------------------------------------------------------------------------
(* Nothing but a reversal changes what was taken back.                      *)
LEMMA SettleRow ==
  ASSUME SettleInv, NEW p \in Payments, UNCHANGED <<sent, applied, disordered>>,
         credited \subseteq credited',
         \A q \in Payments \ {p} : payment'[q] = payment[q],
         payment'[p].refunded = payment[p].refunded,
         \/ payment'[p].status = payment[p].status
         \/ payment[p].status = "paid" /\ payment'[p].status # "reversal_review"
         \/ p \notin credited
  PROVE  SettleInv'
  <1>1. OrderOK'  BY DEF SettleInv, OrderOK, Follows, Amounts
  <1>2. \A i \in applied' : sent'[i].payment \in credited'  BY DEF SettleInv
  <1>3. ASSUME NEW q \in Payments PROVE Settles(q)'
    <2>1. Settles(q)  BY DEF SettleInv
    <2>2. /\ Ordered(q)' = Ordered(q) /\ Gapless(q)' = Gapless(q) /\ Done(q)' = Done(q)
      BY DEF Ordered, Mixed, SentTypes, Gapless, Done, Reversals
    <2>3. CASE q # p
      <3>1. payment'[q] = payment[q]  BY <2>3
      <3>2. \A e : Stands(q, e)' = Stands(q, e)  BY <3>1 DEF Stands, DesiredReversal
      <3> QED  BY <2>1, <2>2, <3>1, <3>2 DEF Settles
    <2>4. CASE q = p /\ p \notin credited
      <3>1. Done(p) = {}  BY <2>4 DEF SettleInv, Done, Reversals
      <3> QED  BY <2>1, <2>2, <2>4, <3>1 DEF Settles
    <2>5. CASE q = p /\ p \in credited
      <3>1. \A e : Stands(p, e) => Stands(p, e)'  BY <2>5 DEF Stands, DesiredReversal
      <3> QED  BY <2>1, <2>2, <2>5, <3>1 DEF Settles
    <2> QED  BY <2>3, <2>4, <2>5
  <1> QED  BY <1>1, <1>2, <1>3 DEF SettleInv

(* What a reversal makes of the row of its payment.                         *)
LEMMA ReversalEffect ==
  ASSUME IInv, NEW h \in Handlers, ApplyReversal(h), NEW e, e = handler[h].event
  PROVE  LET p == e.payment
             row == payment[p]
             new == payment'[p]
             desired == DesiredReversal(e)
             restores == e.type = "won" /\ row.refunded > 0 /\ row.status = "disputed"
         IN  /\ e \in Events /\ p \in Payments /\ row.status # "absent" /\ e.type # "completed"
             /\ \A q \in Payments \ {p} : payment'[q] = payment[q]
             /\ restores => new.refunded = 0
             /\ ~restores /\ desired > row.refunded =>
                  \/ new.status = StatusAfter(e) /\ new.refunded = desired
                  \/ new.status = "reversal_review" /\ new.refunded = row.refunded
             /\ ~restores /\ desired <= row.refunded =>
                  new.status = StatusAfter(e) /\ new.refunded = row.refunded
             /\ UNCHANGED <<sent, credited>>
  <1>1. /\ TypeOK /\ e \in Events /\ e.payment \in Payments /\ e.type # "completed"
        /\ payment[e.payment].status # "absent"
    BY EventType DEF IInv, WorkOK, ApplyReversal, At
  <1>2. PICK p \in Payments : p = e.payment  BY <1>1
  <1>3. PICK old : old = payment[p]  OBVIOUS
  <1>4. old.refunded \in Nat /\ DesiredReversal(e) \in Nat
    BY <1>1, <1>2, <1>3, DesiredType, BillingAssumption DEF TypeOK
  <1>5. /\ Restores(e) = (e.type = "won" /\ old.refunded > 0 /\ old.status = "disputed")
        /\ Delta(e) = DesiredReversal(e) - old.refunded
    BY <1>2, <1>3 DEF Restores, Delta
  <1>6. \/ /\ Restores(e)
           /\ payment' = [payment EXCEPT ![p] = [status |-> StatusAfter(e), refunded |-> 0]]
        \/ /\ ~Restores(e) /\ Delta(e) > 0
           /\ payment' = [payment EXCEPT ![p] =
                            [status |-> StatusAfter(e), refunded |-> DesiredReversal(e)]]
        \/ /\ ~Restores(e) /\ Delta(e) > 0
           /\ payment' = [payment EXCEPT ![p] =
                            [status |-> "reversal_review", refunded |-> old.refunded]]
        \/ /\ ~Restores(e) /\ ~(Delta(e) > 0)
           /\ payment' = [payment EXCEPT ![p] =
                            [status |-> StatusAfter(e), refunded |-> old.refunded]]
    BY <1>2, <1>3 DEF ApplyReversal
  <1>7. \A row : payment' = [payment EXCEPT ![p] = row] =>
                   payment'[p] = row /\ \A q \in Payments \ {p} : payment'[q] = payment[q]
    BY <1>1 DEF TypeOK
  <1>8. Delta(e) > 0 <=> DesiredReversal(e) > old.refunded  BY <1>4, <1>5
  <1>9. DesiredReversal(e) <= old.refunded <=> ~(DesiredReversal(e) > old.refunded)  BY <1>4
  <1>10. UNCHANGED <<sent, credited>>  BY DEF ApplyReversal
  <1>11. PICK new : new = payment'[p]  OBVIOUS
  <1>12. PICK restores : restores = (e.type = "won" /\ old.refunded > 0 /\ old.status = "disputed")
    OBVIOUS
  <1>13. /\ restores => new.refunded = 0
         /\ ~restores /\ DesiredReversal(e) > old.refunded =>
              \/ new.status = StatusAfter(e) /\ new.refunded = DesiredReversal(e)
              \/ new.status = "reversal_review" /\ new.refunded = old.refunded
         /\ ~restores /\ DesiredReversal(e) <= old.refunded =>
              new.status = StatusAfter(e) /\ new.refunded = old.refunded
         /\ \A q \in Payments \ {p} : payment'[q] = payment[q]
    <2>1. Restores(e) = restores  BY <1>5, <1>12
    <2>2. CASE /\ Restores(e)
               /\ payment' = [payment EXCEPT ![p] = [status |-> StatusAfter(e), refunded |-> 0]]
      BY <1>7, <1>11, <2>1, <2>2
    <2>3. CASE /\ ~Restores(e) /\ Delta(e) > 0
               /\ payment' = [payment EXCEPT ![p] =
                                [status |-> StatusAfter(e), refunded |-> DesiredReversal(e)]]
      BY <1>7, <1>8, <1>9, <1>11, <2>1, <2>3, ZenonT(40)
    <2>4. CASE /\ ~Restores(e) /\ Delta(e) > 0
               /\ payment' = [payment EXCEPT ![p] =
                                [status |-> "reversal_review", refunded |-> old.refunded]]
      BY <1>7, <1>8, <1>9, <1>11, <2>1, <2>4
    <2>5. CASE /\ ~Restores(e) /\ ~(Delta(e) > 0)
               /\ payment' = [payment EXCEPT ![p] =
                                [status |-> StatusAfter(e), refunded |-> old.refunded]]
      BY <1>7, <1>8, <1>9, <1>11, <2>1, <2>5, ZenonT(40)
    <2> QED  BY <1>6, <2>2, <2>3, <2>4, <2>5
  <1> QED  BY <1>1, <1>2, <1>3, <1>10, <1>11, <1>12, <1>13

(* Two events of a payment are different events.                            *)
LEMMA Distinct ==
  ASSUME TypeOK, OrderOK, NEW i \in DOMAIN sent, NEW j \in DOMAIN sent, sent[i] = sent[j]
  PROVE  i = j
  <1>1. ASSUME NEW k \in DOMAIN sent, NEW l \in DOMAIN sent, sent[k] = sent[l], k < l
        PROVE  FALSE
    <2>1. Follows(k, l)  BY <1>1 DEF OrderOK
    <2>2. sent[k].type \in {"completed", "created", "refunded"} \cup Closings /\ sent[k].amount \in Nat
      BY SentType, EventType, EventAmount
    <2> QED  BY <1>1, <2>1, <2>2 DEF Follows, Closings
  <1>2. i \in Nat /\ j \in Nat  BY SentType
  <1> QED  BY <1>1, <1>2

(* A dispute that was won had no refund before its end.                     *)
LEMMA NoRefundBeforeWon ==
  ASSUME TypeOK, OrderOK, NEW p, ~Mixed(p),
         NEW i \in DOMAIN sent, sent[i].payment = p, sent[i].type = "won",
         NEW t \in DOMAIN sent, sent[t].payment = p, sent[t].type = "refunded", t < i
  PROVE  FALSE
  <1>1. PICK c \in DOMAIN sent : c < i /\ sent[c].payment = p /\ sent[c].type = "created"
    BY DEF OrderOK, Closings
  <1>2. c \in Nat /\ t \in Nat /\ i \in Nat /\ c # t  BY <1>1, SentType
  <1>3. ~(t < c)  BY <1>1 DEF Mixed
  <1>4. PICK k \in DOMAIN sent : /\ c < k /\ k < t /\ sent[k].payment = p
                                 /\ sent[k].type \in {"won", "warning"}
    BY <1>1, <1>2, <1>3 DEF OrderOK, Follows
  <1>5. k < i  BY <1>2, <1>4, SentType
  <1> QED  BY <1>4, <1>5 DEF OrderOK, Follows, Closings

(* The row stands as the event says that was applied after all others.      *)
LEMMA LatestStands ==
  ASSUME IInv, SettleInv, NEW h \in Handlers, ApplyReversal(h), NEW e, e = handler[h].event,
         NEW p \in Payments, p = e.payment,
         NEW i \in DOMAIN sent, sent[i] = e, Ordered(p), Gapless(p),
         \A j \in Done(p) : j <= i, \A j \in Reversals(p) : j < i => j \in applied
  PROVE  Stands(p, e)'
  <1>0. TypeOK /\ OrderOK  BY DEF IInv, SettleInv
  <1>1. PICK r, s, d : r = payment[p].refunded /\ s = payment[p].status /\ d = DesiredReversal(e)
    OBVIOUS
  <1>2. PICK r1, s1 : r1 = payment'[p].refunded /\ s1 = payment'[p].status
    OBVIOUS
  <1> DEFINE restores == e.type = "won" /\ r > 0 /\ s = "disputed"
  <1>3. /\ e \in Events /\ e.type # "completed"
        /\ restores => r1 = 0
        /\ ~restores /\ d > r => \/ s1 = StatusAfter(e) /\ r1 = d
                                 \/ s1 = "reversal_review" /\ r1 = r
        /\ ~restores /\ d <= r => s1 = StatusAfter(e) /\ r1 = r
    BY <1>1, <1>2, ReversalEffect
  <1>4. /\ Credits[p] \in Nat \ {0} /\ r \in 0..Credits[p] /\ d \in 0..Credits[p]
    BY <1>0, <1>1, <1>3, DesiredType, BillingAssumption, SMTT(30) DEF TypeOK
  <1>5. /\ StatusAfter(e) # "reversal_review"
        /\ e.type = "created" => StatusAfter(e) = "disputed" /\ d = Credits[p]
        /\ e.type = "lost" => d = Credits[p]
        /\ e.type = "won" => d = 0
    BY <1>1 DEF StatusAfter, DesiredReversal
  <1>6. /\ e.type \in {"created", "refunded", "won", "lost"}
    <2>1. e.type \in SentTypes(p)  BY DEF SentTypes
    <2> QED  BY <1>3, <2>1, EventType DEF Ordered, Closings
  <1>7. \/ Done(p) = {} /\ r = 0
        \/ \E t \in Done(p) : (\A j \in Done(p) : j <= t) /\ Stands(p, sent[t])
    BY <1>1 DEF SettleInv, Settles
  <1>8. ASSUME NEW t \in Done(p)
        PROVE  /\ t \in DOMAIN sent /\ t \in Nat /\ t <= i /\ sent[t].payment = p
               /\ sent[t].type # "completed" /\ sent[t] \in Events
               /\ t # i => t < i /\ Follows(t, i)
    <2>1. t \in DOMAIN sent /\ t \in Nat /\ i \in Nat /\ t <= i /\ sent[t].payment = p
          /\ sent[t].type # "completed" /\ sent[t] \in Events
      BY <1>0, SentType DEF Done, Reversals
    <2>2. t # i => t < i  BY <2>1
    <2> QED  BY <1>0, <2>1, <2>2 DEF OrderOK
  <1>9. CASE e.type = "created"
    <2>1. r = 0 \/ (s = "disputed" /\ r = Credits[p])
      <3>1. ASSUME NEW t \in Done(p), Stands(p, sent[t])
            PROVE  r = 0 \/ (s = "disputed" /\ r = Credits[p])
        <4>1. t = i
          <5> SUFFICES ASSUME t # i PROVE FALSE  OBVIOUS
          <5>1. sent[t].type = "refunded"
            BY <1>8, <1>9, EventType DEF Follows
          <5> QED  BY <1>8, <1>9, <5>1 DEF Ordered, Mixed
        <4> QED  BY <1>1, <1>9, <3>1, <4>1 DEF Stands
      <3> QED  BY <1>7, <3>1
    <2>2. \/ s1 = "disputed" /\ r1 = Credits[p]
          \/ s1 = "reversal_review" /\ r1 = 0
      BY <1>3, <1>4, <1>5, <1>9, <2>1
    <2> QED  BY <1>2, <1>9, <2>2 DEF Stands
  <1>10. CASE e.type = "lost"
    <2>1. s1 # "reversal_review" => r1 = Credits[p]  BY <1>3, <1>4, <1>5, <1>10
    <2> QED  BY <1>2, <1>10, <2>1 DEF Stands
  <1>11. CASE e.type = "won"
    <2>1. r = 0 \/ s = "disputed"
      <3>1. ASSUME NEW t \in Done(p), Stands(p, sent[t]) PROVE r = 0 \/ s = "disputed"
        <4>1. CASE sent[t].type \in {"created", "won"}  BY <1>1, <3>1, <4>1 DEF Stands
        <4>2. sent[t].type # "refunded"
          <5>1. sent[t].type = "refunded" => t < i  BY <1>8, <1>11
          <5> QED  BY <1>0, <1>8, <1>11, <5>1, NoRefundBeforeWon DEF Ordered
        <4>3. sent[t].type \notin {"lost", "warning"}
          <5>1. sent[t].type \in {"lost", "warning"} => t # i  BY <1>11
          <5> QED  BY <1>8, <1>11, <5>1 DEF Follows, Closings
        <4>4. sent[t].type \in {"completed", "created", "refunded", "won", "lost", "warning"}
          BY <1>8, EventType DEF Closings
        <4> QED  BY <1>8, <4>1, <4>2, <4>3, <4>4
      <3> QED  BY <1>7, <3>1
    <2>2. r1 = 0  BY <1>3, <1>4, <1>5, <1>11, <2>1
    <2> QED  BY <1>2, <1>11, <2>2 DEF Stands
  <1>12. CASE e.type = "refunded"
    <2>1. r <= d
      <3>1. ASSUME NEW t \in Done(p), \A j \in Done(p) : j <= t, Stands(p, sent[t]) PROVE r <= d
        <4>1. CASE t = i  BY <1>1, <1>12, <3>1, <4>1 DEF Stands
        <4>2. CASE t # i /\ sent[t].type = "refunded"
          <5>1. sent[t].amount <= e.amount
            <6>1. sent[t].amount < e.amount  BY <1>8, <1>12, <4>2 DEF Follows
            <6>2. sent[t].amount \in Nat /\ e.amount \in Nat  BY <1>3, <1>8, EventAmount
            <6> QED  BY <6>1, <6>2
          <5>2. DesiredReversal(sent[t]) <= d
            BY <1>1, <1>3, <1>8, <1>12, <4>2, <5>1, SharesGrow
          <5>3. DesiredReversal(sent[t]) \in Nat  BY <1>4, <1>8, DesiredType
          <5>4. r <= DesiredReversal(sent[t])  BY <1>1, <3>1, <4>2 DEF Stands
          <5> QED  BY <1>4, <5>2, <5>3, <5>4
        <4>3. CASE sent[t].type = "won"
          <5>1. r = 0  BY <1>1, <3>1, <4>3 DEF Stands
          <5> QED  BY <1>4, <5>1
        <4>4. sent[t].type # "created"
          <5> SUFFICES ASSUME sent[t].type = "created" PROVE FALSE  OBVIOUS
          <5>1. t # i  BY <1>12
          <5>2. PICK k \in DOMAIN sent : /\ t < k /\ k < i /\ sent[k].payment = p
                                         /\ sent[k].type \in {"won", "warning"}
            BY <1>8, <1>12, <5>1 DEF Follows
          <5>3. k \in Done(p)  BY <5>2 DEF Done, Reversals
          <5>4. k \in Nat /\ k <= t  BY <1>0, <3>1, <5>3, SentType
          <5> QED  BY <1>8, <5>2, <5>4
        <4>5. sent[t].type # "warning"
          BY <1>8 DEF Ordered, SentTypes
        <4>6. sent[t].type # "lost"
          BY <1>8, <1>12 DEF Follows
        <4>7. sent[t].type \in {"completed", "created", "refunded", "won", "lost", "warning"}
          BY <1>8, EventType DEF Closings
        <4> QED  BY <1>8, <4>1, <4>2, <4>3, <4>4, <4>5, <4>6, <4>7
      <3>2. CASE r = 0  BY <1>4, <3>2
      <3> QED  BY <1>7, <3>1, <3>2
    <2>2. r1 <= d /\ (s1 # "reversal_review" => r1 = d)
      BY <1>3, <1>4, <1>12, <2>1
    <2>3. DesiredReversal(e)' = d  BY <1>1 DEF DesiredReversal
    <2> QED  BY <1>1, <1>2, <1>12, <2>2 DEF Stands
  <1> QED  BY <1>6, <1>9, <1>10, <1>11, <1>12

LEMMA SettleApply ==
  ASSUME IInv, SettleInv, RowsOK, NEW h \in Handlers, ApplyReversal(h)
  PROVE  SettleInv'
  <1>0. TypeOK /\ OrderOK  BY DEF IInv, SettleInv
  <1>1. PICK e : e = handler[h].event  OBVIOUS
  <1>2. PICK p : p = e.payment  OBVIOUS
  <1>3. /\ e \in Events /\ p \in Payments /\ payment[p].status # "absent" /\ e.type # "completed"
        /\ \A q \in Payments \ {p} : payment'[q] = payment[q]
        /\ UNCHANGED <<sent, credited>>
    BY <1>1, <1>2, ReversalEffect
  <1>4. PICK i \in DOMAIN sent :
          /\ sent[i] = e /\ applied' = applied \cup {i}
          /\ disordered' = IF \E j \in applied : sent[j].payment = p /\ j > i
                             THEN disordered \cup {p} ELSE disordered
    <2>1. Sent(e)  BY <1>1 DEF IInv, WorkOK, ApplyReversal, At
    <2>2. PICK i : i = CHOOSE j \in DOMAIN sent : sent[j] = e  OBVIOUS
    <2>3. i \in DOMAIN sent /\ sent[i] = e  BY <2>1, <2>2 DEF Sent
    <2> QED  BY <1>1, <1>2, <2>2, <2>3 DEF ApplyReversal, Apply
  <1>5. OrderOK'  BY <1>0, <1>3 DEF OrderOK, Follows, Amounts
  <1>6. \A j \in applied' : sent'[j].payment \in credited'
    BY <1>2, <1>3, <1>4 DEF SettleInv, RowsOK
  <1>7. i \in Reversals(p)  BY <1>2, <1>3, <1>4 DEF Reversals
  <1>8. ASSUME NEW q \in Payments
        PROVE  Reversals(q)' = Reversals(q) /\ Mixed(q)' = Mixed(q) /\ SentTypes(q)' = SentTypes(q)
    BY <1>3 DEF Reversals, Mixed, SentTypes
  <1>9. ASSUME NEW q \in Payments, q # p PROVE Settles(q)'
    <2>1. i \notin Reversals(q)  BY <1>2, <1>4, <1>9 DEF Reversals
    <2>2. Done(q)' = Done(q)  BY <1>4, <1>8, <2>1 DEF Done
    <2>3. Gapless(q)' = Gapless(q)
      <3>1. \A j \in Reversals(q) : j \in applied' <=> j \in applied  BY <1>4, <2>1
      <3> QED  BY <1>8, <2>2, <3>1 DEF Gapless
    <2>4. Ordered(q)' => Ordered(q)  BY <1>4, <1>8, <1>9 DEF Ordered
    <2>5. payment'[q] = payment[q]  BY <1>3, <1>9
    <2>6. \A f : Stands(q, f)' = Stands(q, f)  BY <2>5 DEF Stands, DesiredReversal
    <2>7. Settles(q)  BY DEF SettleInv
    <2> QED  BY <1>3, <2>2, <2>3, <2>4, <2>5, <2>6, <2>7 DEF Settles
  <1>10. Settles(p)'
    <2> SUFFICES ASSUME Ordered(p)', Gapless(p)'
                 PROVE  \E t \in Done(p)' : (\A j \in Done(p)' : j <= t) /\ Stands(p, sent[t])'
      BY DEF Settles
    <2>1. Done(p)' = Done(p) \cup {i}  BY <1>3, <1>4, <1>7, <1>8 DEF Done
    <2>2. \A j \in Done(p) : j <= i
      <3>1. \A j \in applied : sent[j].payment = p => ~(j > i)  BY <1>4 DEF Ordered
      <3>2. \A j \in Done(p) : j \in Nat /\ i \in Nat /\ j \in applied /\ sent[j].payment = p
        BY <1>0, SentType DEF Done, Reversals
      <3> QED  BY <3>1, <3>2
    <2>3. \A j \in Reversals(p) : j < i => j \in applied
      <3>1. \A j \in Reversals(p) : j < i => j \in applied'
        BY <1>3, <1>8, <2>1 DEF Gapless
      <3>2. i \in Nat  BY <1>0, SentType
      <3> QED  BY <1>4, <3>1, <3>2
    <2>4. Gapless(p)
      <3> SUFFICES ASSUME NEW k \in Done(p), NEW j \in Reversals(p), j < k PROVE j \in applied
        BY DEF Gapless
      <3>1. k \in Nat /\ j \in Nat /\ i \in Nat /\ k <= i
        BY <1>0, <2>2, SentType DEF Done, Reversals
      <3>2. j < i  BY <3>1
      <3> QED  BY <2>3, <3>2
    <2>5. Ordered(p)  BY <1>3, <1>4, <1>8 DEF Ordered
    <2>6. Stands(p, e)'
      BY <1>1, <1>2, <1>3, <1>4, <2>2, <2>3, <2>4, <2>5, LatestStands
    <2>7. \A j \in Done(p)' : j <= i
      <3>1. i \in Nat  BY <1>0, SentType
      <3> QED  BY <2>1, <2>2, <3>1
    <2>8. Stands(p, sent[i])'
      <3>1. sent'[i] = e  BY <1>3, <1>4
      <3> QED  BY <2>6, <3>1 DEF Stands, DesiredReversal
    <2> QED  BY <2>1, <2>7, <2>8
  <1> QED  BY <1>5, <1>6, <1>9, <1>10 DEF SettleInv

LEMMA SettleStep == IInv /\ RowsOK /\ SettleInv /\ Next => SettleInv'
  <1> SUFFICES ASSUME IInv, RowsOK, SettleInv, Next PROVE SettleInv'  OBVIOUS
  <1> USE DEF rows, bounds, history
  <1>0. TypeOK  BY DEF IInv
  <1>1. ASSUME NEW e \in Events, Send(e) PROVE SettleInv'
    BY <1>1, SettleSend DEF Send
  <1>2. ASSUME NEW p \in Payments, RequestRefund(p) PROVE SettleInv'
    <2>1. Amount[p] \in 1..Amount[p]  BY BillingAssumption
    <2>2. Event(p, "refunded", Amount[p]) \in Events  BY <2>1 DEF Events, EventsOf
    <2> QED  BY <1>2, <2>2, SettleSend DEF RequestRefund
  <1>3. ASSUME NEW p \in Payments, NoteRefund(p) PROVE SettleInv'
    <2>1. PICK row : row = [status |-> Pending(p), refunded |-> payment[p].refunded]  OBVIOUS
    <2>2. payment'[p] = row /\ \A q \in Payments \ {p} : payment'[q] = payment[q]
      BY <1>0, <1>3, <2>1 DEF NoteRefund, TypeOK
    <2>3. \/ row.status = payment[p].status
          \/ payment[p].status = "paid" /\ row.status # "reversal_review"
      BY <2>1 DEF Pending
    <2> QED  BY <1>3, <2>1, <2>2, <2>3, SettleRow DEF NoteRefund
  <1>4. ASSUME NEW h \in Handlers, ApplyPayment(h) PROVE SettleInv'
    <2>1. PICK p : p = handler[h].event.payment  OBVIOUS
    <2>2. p \in Payments  BY <1>4, <2>1, EventType DEF IInv, WorkOK, ApplyPayment, At
    <2>3. CASE UNCHANGED <<credited, wallet, payment>>
      BY <1>4, <2>2, <2>3, SettleRow DEF ApplyPayment
    <2>4. CASE /\ NotYetCredited(p) /\ credited' = credited \cup {p}
               /\ payment' = [payment EXCEPT ![p] =
                                [status |-> "paid", refunded |-> payment[p].refunded]]
      <3>1. PICK row : row = [status |-> "paid", refunded |-> payment[p].refunded]  OBVIOUS
      <3>2. payment'[p] = row /\ \A q \in Payments \ {p} : payment'[q] = payment[q]
        BY <1>0, <2>2, <2>4, <3>1 DEF TypeOK
      <3> QED  BY <1>4, <2>2, <2>4, <3>1, <3>2, SettleRow DEF ApplyPayment, NotYetCredited
    <2> QED  BY <1>4, <2>1, <2>3, <2>4 DEF ApplyPayment
  <1>5. ASSUME NEW h \in Handlers, ApplyReversal(h) PROVE SettleInv'
    BY <1>5, SettleApply
  <1>6. ASSUME UNCHANGED <<sent, applied, disordered, payment, credited>> PROVE SettleInv'
    BY <1>6 DEF SettleInv, OrderOK, Follows, Amounts, Settles, Ordered, Mixed, SentTypes, Gapless,
       Done, Reversals, Stands, DesiredReversal
  <1>7. ASSUME \/ \E h \in Handlers : \/ CheckProcessed(h) \/ MarkProcessed(h) \/ RejectReversal(h)
                                      \/ CheckFails(h) \/ Fail(h)
                                      \/ \E e \in Events : Receive(h, e)
               \/ \E a \in Accounts, n \in Spends : Spend(a, n)
        PROVE  UNCHANGED <<sent, applied, disordered, payment, credited>>
    BY <1>7 DEF CheckProcessed, MarkProcessed, RejectReversal, CheckFails, Fail, Receive, Spend
  <1> QED  BY <1>1, <1>2, <1>3, <1>4, <1>5, <1>6, <1>7 DEF Next, Work
-----------------------------------------------------------------------------
(* Once everything is answered, what was taken back is what Stripe has.     *)
LEMMA OwedShare ==
  ASSUME NEW p \in Payments, NEW q \in 0..Credits[p], RefundedAmount(p) \in Nat,
         ~("created" \in SentTypes(p) /\ SentTypes(p) \cap {"won", "warning"} = {}),
         q * Amount[p] >= Credits[p] * RefundedAmount(p),
         \A x \in Nat : x * Amount[p] >= Credits[p] * RefundedAmount(p) => q <= x
  PROVE  Owed(p) = q
  <1>1. Credits[p] \in Nat  BY BillingAssumption
  <1>2. PICK S \in SUBSET Nat :
          S = {n \in 0..Credits[p] : n * Amount[p] >= Credits[p] * RefundedAmount(p)}
    <2>1. 0..Credits[p] \subseteq Nat  BY <1>1
    <2> QED  BY <2>1
  <1>3. q \in S /\ \A x \in S : q <= x  BY <1>1, <1>2
  <1>4. Min(S) = q
    <2>1. Min(S) \in S /\ \A x \in S : Min(S) <= x  BY <1>3 DEF Min
    <2>2. q \in Nat /\ Min(S) \in Nat /\ Min(S) <= q /\ q <= Min(S)  BY <1>3, <2>1
    <2> QED  BY <2>2
  <1> QED  BY <1>2, <1>4 DEF Owed

LEMMA SettledOwes ==
  ASSUME IInv, SettleInv, NEW p \in Payments, Settled(p), ~Uncertain(p), ~Mixed(p),
         "warning" \notin SentTypes(p)
  PROVE  payment[p].refunded = Owed(p)
  <1>0. TypeOK /\ OrderOK  BY DEF IInv, SettleInv
  <1>1. ASSUME NEW j \in Reversals(p) PROVE j \in applied
    <2>1. j \in DOMAIN sent /\ sent[j] \in Events /\ sent[j].payment = p
          /\ sent[j].type # "completed"
      BY <1>0, SentType DEF Reversals
    <2>2. sent[j] \in EventsOf(p)
      <3>1. PICK q \in Payments : sent[j] \in EventsOf(q)  BY <2>1 DEF Events
      <3>2. q = p  BY <2>1, <3>1 DEF EventsOf, Event
      <3> QED  BY <3>1, <3>2
    <2>3. sent[j] \in answered  BY <2>1, <2>2 DEF Settled, Sent
    <2>4. PICK i \in applied : sent[i] = sent[j]  BY <2>1, <2>3 DEF IInv, AnsweredWasApplied
    <2>5. i \in DOMAIN sent  BY <1>0, SentType
    <2> QED  BY <1>0, <2>1, <2>4, <2>5, Distinct
  <1>2. Done(p) = Reversals(p) /\ Gapless(p)  BY <1>1 DEF Done, Gapless
  <1>3. Ordered(p) /\ payment[p].status # "reversal_review"  BY DEF Ordered, Uncertain
  <1>4. \/ Reversals(p) = {} /\ payment[p].refunded = 0
        \/ \E i \in Reversals(p) : (\A j \in Reversals(p) : j <= i) /\ Stands(p, sent[i])
    BY <1>2, <1>3 DEF SettleInv, Settles
  <1>5. /\ Credits[p] \in Nat /\ Amount[p] \in Nat \ {0}
        /\ Amounts(p) \in SUBSET Nat /\ RefundedAmount(p) \in Amounts(p)
        /\ \A x \in Amounts(p) : x <= RefundedAmount(p)
    BY <1>0, BillingAssumption, AmountsType
  <1>6. ASSUME NEW i \in DOMAIN sent, sent[i].payment = p
        PROVE  /\ sent[i].type = "refunded" => i \in Reversals(p)
               /\ sent[i].type # "refunded" => sent[i].amount = 0
               /\ sent[i].amount \in Amounts(p) /\ sent[i].amount \in Nat
    BY <1>0, <1>6, SentType, EventAmount DEF Reversals, Amounts
  <1>7. ASSUME \A i \in DOMAIN sent : sent[i].payment = p => sent[i].type # "refunded",
               ~("created" \in SentTypes(p) /\ SentTypes(p) \cap {"won", "warning"} = {})
        PROVE  Owed(p) = 0
    <2>1. RefundedAmount(p) = 0  BY <1>5, <1>6, <1>7 DEF Amounts
    <2>2. Credits[p] * 0 = 0 /\ 0 * Amount[p] = 0  BY <1>5
    <2>3. 0 \in 0..Credits[p]  BY <1>5
    <2> QED  BY <1>7, <2>1, <2>2, <2>3, OwedShare
  <1>8. CASE Reversals(p) = {} /\ payment[p].refunded = 0
    <2>1. "created" \notin SentTypes(p)  BY <1>8 DEF SentTypes, Reversals
    <2> QED  BY <1>6, <1>7, <1>8, <2>1
  <1>9. ASSUME NEW i \in Reversals(p), \A j \in Reversals(p) : j <= i, Stands(p, sent[i])
        PROVE  payment[p].refunded = Owed(p)
    <2>1. /\ i \in DOMAIN sent /\ i \in Nat /\ sent[i] \in Events /\ sent[i].payment = p
          /\ sent[i].type # "completed"
      BY <1>0, SentType DEF Reversals
    <2>2. ASSUME NEW j \in Reversals(p), j # i
          PROVE  /\ j \in DOMAIN sent /\ j \in Nat /\ j < i /\ sent[j].payment = p
                 /\ Follows(j, i)
      <3>1. j \in DOMAIN sent /\ j \in Nat /\ sent[j].payment = p
        BY <1>0, SentType DEF Reversals
      <3>2. j < i  BY <1>9, <2>1, <2>2, <3>1
      <3> QED  BY <1>0, <2>1, <3>1, <3>2 DEF OrderOK
    <2>3. ASSUME NEW t \in SentTypes(p), t # "completed"
          PROVE  \E j \in Reversals(p) : sent[j].type = t
      BY <2>3 DEF SentTypes, Reversals
    <2>4. sent[i].type \in {"created", "refunded", "won", "lost"}
      <3>1. sent[i].type \in SentTypes(p)  BY <2>1 DEF SentTypes
      <3> QED  BY <1>3, <2>1, <3>1, EventType DEF Ordered, Closings
    <2>5. CASE sent[i].type = "created"
      <3>1. payment[p].refunded = Credits[p]  BY <1>3, <1>9, <2>5 DEF Stands
      <3>2. "created" \in SentTypes(p)  BY <2>1, <2>5 DEF SentTypes
      <3>3. "won" \notin SentTypes(p)  BY <2>2, <2>3, <2>5 DEF Follows, Closings
      <3> QED  BY <1>3, <3>1, <3>2, <3>3 DEF Owed, Ordered
    <2>6. CASE sent[i].type = "lost"
      <3>1. payment[p].refunded = Credits[p]  BY <1>3, <1>9, <2>6 DEF Stands
      <3>2. "created" \in SentTypes(p)
        BY <1>0, <2>1, <2>6 DEF OrderOK, Closings, SentTypes
      <3>3. "won" \notin SentTypes(p)  BY <2>2, <2>3, <2>6 DEF Follows, Closings
      <3> QED  BY <1>3, <3>1, <3>2, <3>3 DEF Owed, Ordered
    <2>7. CASE sent[i].type = "won"
      <3>1. payment[p].refunded = 0  BY <1>9, <2>7 DEF Stands
      <3>2. "won" \in SentTypes(p)  BY <2>1, <2>7 DEF SentTypes
      <3>3. ASSUME NEW j \in DOMAIN sent, sent[j].payment = p PROVE sent[j].type # "refunded"
        <4> SUFFICES ASSUME sent[j].type = "refunded" PROVE FALSE  OBVIOUS
        <4>1. j \in Reversals(p) /\ j # i  BY <1>6, <2>7, <3>3
        <4> QED  BY <1>0, <2>1, <2>2, <2>7, <3>3, <4>1, NoRefundBeforeWon
      <3> QED  BY <1>7, <3>1, <3>2, <3>3
    <2>8. CASE sent[i].type = "refunded"
      <3>1. payment[p].refunded = DesiredReversal(sent[i])  BY <1>3, <1>9, <2>8 DEF Stands
      <3>2. "created" \in SentTypes(p) => SentTypes(p) \cap {"won", "warning"} # {}
        <4> SUFFICES ASSUME "created" \in SentTypes(p)
                     PROVE  SentTypes(p) \cap {"won", "warning"} # {}
          OBVIOUS
        <4>1. PICK c \in Reversals(p) : sent[c].type = "created"  BY <2>3
        <4>2. c # i  BY <2>8, <4>1
        <4>3. PICK k \in DOMAIN sent : sent[k].payment = p /\ sent[k].type \in {"won", "warning"}
          BY <2>2, <2>8, <4>1, <4>2 DEF Follows
        <4>4. sent[k].type \in SentTypes(p)  BY <4>3 DEF SentTypes
        <4> QED  BY <4>3, <4>4
      <3>3. RefundedAmount(p) = sent[i].amount
        <4>1. \A x \in Amounts(p) : x <= sent[i].amount
          <5> SUFFICES ASSUME NEW j \in DOMAIN sent, sent[j].payment = p
                       PROVE  sent[j].amount <= sent[i].amount /\ 0 <= sent[i].amount
            BY <1>6, <2>1 DEF Amounts
          <5>1. sent[i].amount \in Nat /\ sent[j].amount \in Nat  BY <1>6, <2>1
          <5>2. CASE sent[j].type # "refunded"  BY <1>6, <5>1, <5>2
          <5>3. CASE sent[j].type = "refunded" /\ j = i  BY <5>1, <5>3
          <5>4. CASE sent[j].type = "refunded" /\ j # i
            <6>1. sent[j].amount < sent[i].amount  BY <1>6, <2>2, <2>8, <5>4 DEF Follows
            <6> QED  BY <5>1, <6>1
          <5> QED  BY <5>2, <5>3, <5>4
        <4>2. sent[i].amount \in Amounts(p)  BY <1>6, <2>1
        <4> QED  BY <1>5, <4>1, <4>2
      <3>4. PICK q : q = DesiredReversal(sent[i])  OBVIOUS
      <3>5. /\ q \in 0..Credits[p] /\ q * Amount[p] >= Credits[p] * RefundedAmount(p)
            /\ \A x \in Nat : x * Amount[p] >= Credits[p] * RefundedAmount(p) => q <= x
        BY <2>1, <2>8, <3>3, <3>4, RefundShare
      <3>6. RefundedAmount(p) \in Nat  BY <1>5
      <3> QED  BY <3>1, <3>2, <3>4, <3>5, <3>6, OwedShare
    <2> QED  BY <2>4, <2>5, <2>6, <2>7, <2>8
  <1> QED  BY <1>4, <1>8, <1>9

(* Once every event of a payment is answered, the portal has taken back     *)
(* what Stripe has, for any payments, prices, repetitions and failures, if  *)
(* the reversals were applied in the order in which they happened, no       *)
(* refund came before a dispute and no inquiry was dropped                  *)
(* (applyStripeReversal).                                                   *)
THEOREM ReversalsSettle == Spec => []SettledInOrder
  <1>1. Init => SettleInv
    <2> SUFFICES ASSUME Init PROVE SettleInv  OBVIOUS
    <2>1. DOMAIN sent = {} /\ applied = {}  BY DEF Init
    <2>2. OrderOK  BY <2>1 DEF OrderOK, Amounts
    <2>3. ASSUME NEW p \in Payments PROVE Settles(p)
      BY <2>1 DEF Init, Settles, Done
    <2> QED  BY <2>1, <2>2, <2>3 DEF SettleInv
  <1>2. IInv /\ RowsOK /\ SettleInv /\ [Next]_vars => SettleInv'
    <2>1. ASSUME SettleInv, UNCHANGED vars PROVE SettleInv'
      BY <2>1 DEF vars, rows, bounds, history, SettleInv, OrderOK, Follows, Amounts, Settles,
         Ordered, Mixed, SentTypes, Gapless, Done, Reversals, Stands, DesiredReversal
    <2> QED  BY <2>1, SettleStep
  <1>3. IInv /\ SettleInv => SettledInOrder
    BY SettledOwes DEF SettledInOrder
  <1> QED  BY <1>1, <1>2, <1>3, Invariant, AccountInvariant, PTL DEF Spec
=============================================================================
