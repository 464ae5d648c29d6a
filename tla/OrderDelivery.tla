---------------------------- MODULE OrderDelivery ----------------------------
(***************************************************************************)
(* Durable fulfilment of shop orders through the worldserver's SOAP        *)
(* console: internal/web/delivery.go.                                      *)
(*                                                                         *)
(* Every portal process runs one delivery loop per realm.  The loop claims *)
(* a queued order, turns it into a plan of steps (item mails, level,       *)
(* money, service, training) and runs them one after the other, writing    *)
(* each step's status to portal_order_steps before and after the realm is  *)
(* called.  Every action below is one database statement, one transaction  *)
(* or one realm call, because between any two of them staff, another       *)
(* process, the 15 s deadline of the delivery context or a crash can act.  *)
(***************************************************************************)
EXTENDS Naturals, FiniteSets

CONSTANTS
  Orders,      \* identifiers of portal_orders rows of one realm
  Workers,     \* portal processes, each with one delivery loop for the realm
  NoOrder,     \* what an idle loop is working on
  MaxSteps,    \* longest plan
  PlanLen,     \* number of steps in the plan of each order
  Trained,     \* orders whose last step is the local level-80 training
  DbMayFail,   \* may a statement fail although its context is still alive?
  MaxStaff,    \* bound: staff interventions
  MaxCrashes   \* bound: process terminations

ASSUME PlanAssumption ==
  /\ MaxSteps \in Nat
  /\ PlanLen \in [Orders -> 0..MaxSteps]
  /\ Trained \subseteq {o \in Orders : PlanLen[o] > 0}
ASSUME NoOrderAssumption == NoOrder \notin Orders
ASSUME BoundAssumption ==
  DbMayFail \in BOOLEAN /\ MaxStaff \in Nat /\ MaxCrashes \in Nat

Keys == 1..MaxSteps

(* The column also allows `failed', which the guards below name and which   *)
(* nothing writes.                                                          *)
OrderStatus == {"absent", "pending", "delivering", "delivered", "review", "refunded"}
StepStatus  == {"absent", "pending", "executing", "completed", "failed"}

(* What a delivery loop does next.  "insert", "load", "start", "complete"   *)
(* and "fail" are the statements of runOrderStep; "run" is its callback.    *)
Phase == {"down", "idle", "lookup", "insert", "load", "start", "run",
          "complete", "fail", "review", "finish"}

VARIABLES
  status,     \* portal_orders.status
  step,       \* portal_order_steps.status, "absent" before the row exists
  attempts,   \* portal_order_steps.attempts
  task,       \* what each delivery loop is doing
  wire,       \* commands sent that the realm has neither executed nor dropped
  executed,   \* commands the realm has executed
  notified,   \* orders with an "Order delivered" notification
  staffOps, crashes,   \* bounded counters
  \* History, read by properties only.
  givenUp,    \* attempts recorded as failed, or reconciled by staff
  reconciled, \* steps staff reconciled
  requeued,   \* orders staff put back into the queue
  disturbed   \* orders taken away from a loop that was still fulfilling them

dbVars   == <<status, step, attempts, notified>>
realmVars == <<wire, executed>>
history  == <<givenUp, reconciled, requeued, disturbed>>
bounds   == <<staffOps, crashes>>
vars     == <<dbVars, task, realmVars, history, bounds>>

Command == [order : Orders, key : Keys, try : Nat]
Cmd(o, k, n) == [order |-> o, key |-> k, try |-> n]

Task == [phase : Phase, order : Orders \cup {NoOrder}, key : Keys \cup {0},
         try : Nat, live : BOOLEAN]
Resting(p) == [phase |-> p, order |-> NoOrder, key |-> 0, try |-> 0, live |-> TRUE]

PlanOf(o) == 1..PlanLen[o]
Local(o, k) == o \in Trained /\ k = PlanLen[o]
\* The rows claimOrder selects, the steps runOrderStep may start, and when a
\* realm call counts as successful.
\* Mutants: claims in-flight orders too; waits while anything is in flight;
\* replays uncertain steps.
ClaimableInFlight == {o \in Orders : status[o] \in {"pending", "delivering"}}
ClaimableWhenQuiet == {o \in Orders : status[o] = "pending"
                                       /\ \A p \in Orders : status[p] # "delivering"}
Claimable == {o \in Orders : status[o] = "pending"}
StartableUncertain == {"pending", "failed", "executing"}
Startable == {"pending", "failed"}
Succeeded(c) == c \in executed
Holds(w, o) == task[w].order = o
Held(o) == \E w \in Workers : Holds(w, o)

(***************************************************************************)
(* The outcome of one statement run by loop w under the context of its     *)
(* current tick.  `done': the database executed it.  `ack': the loop saw   *)
(* it succeed.  After the deadline no acknowledgement arrives any more,    *)
(* but the server may still execute what was already sent.                 *)
(***************************************************************************)
Statement(w, done, ack) ==
  /\ done \in BOOLEAN /\ ack \in BOOLEAN
  /\ ack => done /\ task[w].live
  /\ ~ack => ~task[w].live \/ DbMayFail

(* The one row of an UPDATE ... WHERE, changed if it matches.               *)
MarkStep(o, k, match, new) == step' = IF match THEN [step EXCEPT ![o][k] = new] ELSE step
MarkOrder(o, match, new) == status' = IF match THEN [status EXCEPT ![o] = new] ELSE status

At(w, p) == task[w].phase = p
Rest(w, p) == task' = [task EXCEPT ![w] = Resting(p)]
GoOn(w, p, k, n) ==
  task' = [task EXCEPT ![w] = [phase |-> p, order |-> task[w].order, key |-> k,
                               try |-> n, live |-> task[w].live]]
GoTo(w, p) == GoOn(w, p, task[w].key, task[w].try)

(* The loop goes on with the next step of the plan, or records the delivery. *)
(* Mutants: the last step is forgotten; the end of the plan is overrun.      *)
NextStepSkipsLast(w, k) ==
  IF k + 1 < PlanLen[task[w].order] THEN GoOn(w, "insert", k + 1, 0) ELSE GoOn(w, "finish", k, 0)
NextStepOverruns(w, k) == GoOn(w, "insert", k + 1, 0)
NextStep(w, k) ==
  IF k < PlanLen[task[w].order] THEN GoOn(w, "insert", k + 1, 0) ELSE GoOn(w, "finish", k, 0)

Init ==
  /\ status = [o \in Orders |-> "absent"]
  /\ step = [o \in Orders |-> [k \in Keys |-> "absent"]]
  /\ attempts = [o \in Orders |-> [k \in Keys |-> 0]]
  /\ task = [w \in Workers |-> Resting("down")]
  /\ wire = {} /\ executed = {} /\ notified = {}
  /\ staffOps = 0 /\ crashes = 0
  /\ givenUp = {} /\ reconciled = {} /\ requeued = {} /\ disturbed = {}

(***************************************************************************)
(* The shop queues a paid order.                                           *)
(***************************************************************************)
PlaceOrder(o) ==
  /\ status[o] = "absent"
  /\ status' = [status EXCEPT ![o] = "pending"]
  /\ UNCHANGED <<step, attempts, notified, task, realmVars, history, bounds>>

(***************************************************************************)
(* The delivery loop.                                                      *)
(***************************************************************************)

(* A process starts: whatever is `delivering' in the realm, this process    *)
(* assumes to have been interrupted.  The statement's error is ignored, and *)
(* orders another live process is fulfilling are swept up as well.          *)
(* Mutant: interrupted orders go straight back to the queue.                *)
SweptToQueue(o) == IF status[o] = "delivering" THEN "pending" ELSE status[o]
Swept(o) == IF status[o] = "delivering" THEN "review" ELSE status[o]

DeliveryLoop(w) ==
  /\ At(w, "down")
  /\ \E swept \in BOOLEAN :
       /\ ~swept => DbMayFail
       /\ status' = IF swept THEN [o \in Orders |-> Swept(o)] ELSE status
       /\ disturbed' = disturbed \cup
            {o \in Orders : swept /\ status[o] = "delivering" /\ Held(o)}
  /\ Rest(w, "idle")
  /\ UNCHANGED <<step, attempts, notified, realmVars, givenUp, reconciled, requeued, bounds>>

(* FOR UPDATE SKIP LOCKED: the lowest pending order no other transaction    *)
(* has locked, hence any pending order.  When the commit's acknowledgement  *)
(* is lost the order is `delivering' and nobody works on it.                *)
ClaimOrder(w) ==
  /\ At(w, "idle")
  /\ \E o \in Claimable, ack \in BOOLEAN :
       /\ ~ack => DbMayFail
       /\ status' = [status EXCEPT ![o] = "delivering"]
       /\ IF ack
            THEN task' = [task EXCEPT ![w] = [phase |-> "lookup", order |-> o, key |-> 0,
                                              try |-> 0, live |-> TRUE]]
            ELSE UNCHANGED task
  /\ UNCHANGED <<step, attempts, notified, realmVars, history, bounds>>

(* fulfillOrder loads the character and the item snapshot and builds the    *)
(* plan; a missing, online or oddly named character, an unknown item or an  *)
(* unreadable row sends the order to review.                                *)
LoadPlan(w) ==
  /\ At(w, "lookup")
  /\ \/ task[w].live /\ NextStep(w, 0)
     \/ GoTo(w, "review")
  /\ UNCHANGED <<dbVars, realmVars, history, bounds>>

(* INSERT IGNORE of the step's row. *)
InsertStep(w) ==
  LET o == task[w].order  k == task[w].key IN
  /\ At(w, "insert")
  /\ \E done, ack \in BOOLEAN :
       /\ Statement(w, done, ack)
       /\ MarkStep(o, k, done /\ step[o][k] = "absent", "pending")
       /\ GoTo(w, IF ack THEN "load" ELSE "review")
  /\ UNCHANGED <<status, attempts, notified, realmVars, history, bounds>>

(* A completed step is skipped; an executing one is never run again here.   *)
LoadStep(w) ==
  LET o == task[w].order  k == task[w].key IN
  /\ At(w, "load")
  /\ \/ task[w].live /\ step[o][k] = "completed" /\ NextStep(w, k)
     \/ task[w].live /\ step[o][k] \in Startable /\ GoTo(w, "start")
     \/ task[w].live /\ step[o][k] \notin Startable \cup {"completed"} /\ GoTo(w, "review")
     \/ (~task[w].live \/ DbMayFail) /\ GoTo(w, "review")
  /\ UNCHANGED <<dbVars, realmVars, history, bounds>>

(* The compare-and-set that claims the step; then the command goes out.     *)
StartStep(w) ==
  LET o == task[w].order  k == task[w].key  n == attempts[o][k] + 1
      free == step[o][k] \in Startable IN
  /\ At(w, "start")
  /\ \E done, ack \in BOOLEAN :
       /\ Statement(w, done, ack)
       /\ MarkStep(o, k, done /\ free, "executing")
       /\ attempts' = IF done /\ free THEN [attempts EXCEPT ![o][k] = n] ELSE attempts
       /\ IF ack /\ free
            THEN /\ GoOn(w, "run", k, n)
                 /\ wire' = wire \cup {Cmd(o, k, n)}
            ELSE GoTo(w, "review") /\ UNCHANGED wire
  /\ UNCHANGED <<status, notified, executed, history, bounds>>

(* The callback of runOrderStep: a SOAP command, or the local training      *)
(* transaction.  Success means the command was executed.  An error tells    *)
(* nothing: it may have been executed already, may still be (the realm      *)
(* queues console commands), or never will be.  The training transaction is *)
(* rolled back when it did not commit.                                      *)
RunStep(w) ==
  LET c == Cmd(task[w].order, task[w].key, task[w].try) IN
  /\ At(w, "run")
  /\ \/ /\ task[w].live /\ Succeeded(c)
        /\ GoTo(w, "complete")
        /\ UNCHANGED wire
     \/ /\ GoTo(w, "fail")
        /\ \/ wire' = wire \ {c}
           \/ ~Local(c.order, c.key) /\ UNCHANGED wire
  /\ UNCHANGED <<dbVars, executed, history, bounds>>

(* UPDATE ... completed WHERE status='executing'; no look at the row count. *)
CompleteStep(w) ==
  LET o == task[w].order  k == task[w].key IN
  /\ At(w, "complete")
  /\ \E done, ack \in BOOLEAN :
       /\ Statement(w, done, ack)
       /\ MarkStep(o, k, done /\ step[o][k] = "executing", "completed")
       /\ IF ack THEN NextStep(w, k) ELSE GoTo(w, "review")
  /\ UNCHANGED <<status, attempts, notified, realmVars, history, bounds>>

(* UPDATE ... failed WHERE status='executing'; its error is ignored.        *)
FailStep(w) ==
  LET o == task[w].order  k == task[w].key IN
  /\ At(w, "fail")
  /\ \E done, ack \in BOOLEAN :
       /\ Statement(w, done, ack)
       /\ MarkStep(o, k, done /\ step[o][k] = "executing", "failed")
       /\ givenUp' = IF done /\ step[o][k] = "executing"
                       THEN givenUp \cup {Cmd(o, k, task[w].try)} ELSE givenUp
  /\ GoTo(w, "review")
  /\ UNCHANGED <<status, attempts, notified, realmVars, reconciled, requeued, disturbed, bounds>>

(* UPDATE ... review WHERE status='delivering', under the same context; its *)
(* error is ignored and the loop goes back to its ticker.                   *)
ReviewOrder(w) ==
  LET o == task[w].order IN
  /\ At(w, "review")
  /\ \E done, ack \in BOOLEAN :
       /\ Statement(w, done, ack)
       /\ MarkOrder(o, done /\ status[o] = "delivering", "review")
  /\ Rest(w, "idle")
  /\ UNCHANGED <<step, attempts, notified, realmVars, history, bounds>>

(* UPDATE ... delivered WHERE status='delivering'; the player is notified   *)
(* whenever the statement succeeds, whatever number of rows it changed.     *)
Told(o, ack) == IF ack THEN notified \cup {o} ELSE notified

FinishOrder(w) ==
  LET o == task[w].order IN
  /\ At(w, "finish")
  /\ \E done, ack \in BOOLEAN :
       /\ Statement(w, done, ack)
       /\ MarkOrder(o, done /\ status[o] = "delivering", "delivered")
       /\ notified' = Told(o, ack)
  /\ Rest(w, "idle")
  /\ UNCHANGED <<step, attempts, realmVars, history, bounds>>

(***************************************************************************)
(* The environment of the loop.                                            *)
(***************************************************************************)

(* The 15 s deadline of the tick's context passes. *)
ExpireContext(w) ==
  /\ task[w].order # NoOrder /\ task[w].live
  /\ task' = [task EXCEPT ![w] = [phase |-> task[w].phase, order |-> task[w].order,
       key |-> task[w].key, try |-> task[w].try, live |-> FALSE]]
  /\ UNCHANGED <<dbVars, realmVars, history, bounds>>

(* The realm executes a queued command, or the training transaction commits. *)
Execute(c) ==
  /\ c \in wire
  /\ wire' = wire \ {c}
  /\ executed' = executed \cup {c}
  /\ UNCHANGED <<dbVars, task, history, bounds>>

(* The process ends: killed, or shut down with the loop still in a tick     *)
(* when the deadline of Server.Close passes.  Local transactions roll back, *)
(* SOAP commands already sent stay with the realm.                          *)
Terminate(w) ==
  /\ ~At(w, "down") /\ crashes < MaxCrashes
  /\ crashes' = crashes + 1
  /\ wire' = {c \in wire : ~(Local(c.order, c.key) /\ Holds(w, c.order) /\ At(w, "run")
                             /\ c.try = task[w].try)}
  /\ Rest(w, "down")
  /\ UNCHANGED <<dbVars, executed, history, staffOps>>

(***************************************************************************)
(* Staff, through the admin console.  Each is one transaction.             *)
(***************************************************************************)
Intervene == staffOps < MaxStaff /\ staffOps' = staffOps + 1

AdminRetryOrder(o) ==
  /\ Intervene
  /\ status[o] \in {"review", "failed"}
  /\ status' = [status EXCEPT ![o] = "pending"]
  /\ requeued' = requeued \cup {o}
  /\ UNCHANGED <<step, attempts, notified, task, realmVars, crashes>>
  /\ UNCHANGED <<givenUp, reconciled, disturbed>>

\* Mutant: the completed steps are not counted.
RefundableByStatus(o) == status[o] \in {"pending", "review", "failed"}
Refundable(o) == /\ status[o] \in {"pending", "review", "failed"}
                 /\ \A k \in Keys : step[o][k] # "completed"

AdminRefundOrder(o) ==
  /\ Intervene
  /\ Refundable(o)
  /\ status' = [status EXCEPT ![o] = "refunded"]
  /\ UNCHANGED <<step, attempts, notified, task, realmVars, history, crashes>>

(* Reconciles a step from whatever status it has and requeues the order,    *)
(* whether or not a loop is fulfilling it at the moment.                    *)
Resolvable(o, k) == step[o][k] # "absent" /\ status[o] \notin {"delivered", "refunded"}

AdminResolveOrderStep(o, k, resolution) ==
  /\ Intervene
  /\ Resolvable(o, k)
  /\ step' = [step EXCEPT ![o][k] = resolution]
  /\ status' = [status EXCEPT ![o] = "pending"]
  /\ givenUp' = givenUp \cup {Cmd(o, k, attempts[o][k])}
  /\ reconciled' = reconciled \cup {<<o, k>>}
  /\ requeued' = requeued \cup {o}
  /\ disturbed' = IF Held(o) THEN disturbed \cup {o} ELSE disturbed
  /\ UNCHANGED <<attempts, notified, task, realmVars, crashes>>

-----------------------------------------------------------------------------
Loop(w) ==
  \/ DeliveryLoop(w) \/ ClaimOrder(w) \/ LoadPlan(w) \/ InsertStep(w)
  \/ LoadStep(w) \/ StartStep(w) \/ RunStep(w) \/ CompleteStep(w)
  \/ FailStep(w) \/ ReviewOrder(w) \/ FinishOrder(w)

Staff ==
  \E o \in Orders :
    \/ AdminRetryOrder(o)
    \/ AdminRefundOrder(o)
    \/ \E k \in Keys, r \in {"pending", "completed"} : AdminResolveOrderStep(o, k, r)

Next ==
  \/ \E o \in Orders : PlaceOrder(o)
  \/ \E w \in Workers : Loop(w) \/ ExpireContext(w) \/ Terminate(w)
  \/ \E c \in wire : Execute(c)
  \/ Staff

Spec == Init /\ [][Next]_vars

(* A process that is up keeps ticking: every statement and every SOAP call  *)
(* returns (client timeout 12 s, context 15 s), and a stopped process is    *)
(* restarted by its supervisor.  Nothing is assumed of staff, of the realm, *)
(* of the deadline or of crashes.                                           *)
Fairness == \A w \in Workers : WF_vars(Loop(w))
FairSpec == Spec /\ Fairness

-----------------------------------------------------------------------------
(***************************************************************************)
(* The delivery loops keep the promise of OrderLifecycle: a step is        *)
(* fulfilled when its ledger row says completed.                           *)
(***************************************************************************)
Done == [o \in Orders |-> {k \in Keys : step[o][k] = "completed"}]
Lifecycle == INSTANCE OrderLifecycle WITH
  Plan <- [o \in Orders |-> PlanOf(o)],
  state <- status,
  done <- Done,
  contested <- disturbed

(* Every statement of the loops and of staff, failures and crashes included, *)
(* is a step of the promised life cycle of an order or changes nothing of it. *)
KeepsLifecycle == Lifecycle!LifecycleSpec

-----------------------------------------------------------------------------
(***************************************************************************)
(* Properties.                                                             *)
(***************************************************************************)

TypeOK ==
  /\ status \in [Orders -> OrderStatus]
  /\ step \in [Orders -> [Keys -> StepStatus]]
  /\ attempts \in [Orders -> [Keys -> Nat]]
  /\ task \in [Workers -> Task]
  /\ wire \subseteq Command /\ executed \subseteq Command
  /\ notified \subseteq Orders
  /\ staffOps \in Nat /\ crashes \in Nat
  /\ givenUp \subseteq Command /\ reconciled \subseteq Orders \X Keys
  /\ requeued \subseteq Orders /\ disturbed \subseteq Orders

(* Without staff putting the order back into the queue no step is started   *)
(* twice, whatever crashes, deadlines, lost acknowledgements and            *)
(* overlapping processes do: "never retried automatically" (runOrderStep).  *)
AutomaticAtMostOnce ==
  \A o \in Orders \ requeued : \A k \in Keys : attempts[o][k] <= 1

(* An attempt is started only after every earlier attempt at the step was   *)
(* recorded as failed by the loop that made it, or reconciled by staff: an  *)
(* attempt with an open outcome is never replayed, however often the order  *)
(* is requeued.                                                             *)
NoBlindReplay ==
  \A o \in Orders \ disturbed : \A k \in Keys : \A n \in 1..attempts[o][k] :
    n < attempts[o][k] \/ step[o][k] \in {"pending", "failed"}
      => Cmd(o, k, n) \in givenUp

(* One loop at a time fulfils an order, and only while it is `delivering':  *)
(* claiming, finishing, reviewing and start-up sweeps never let two loops   *)
(* work on the same order.                                                  *)
ExclusiveFulfilment ==
  \A o \in Orders \ disturbed, w \in Workers :
    Holds(w, o) => /\ status[o] = "delivering"
                   /\ \A v \in Workers : Holds(v, o) => v = w

(* A delivered order has every step of its plan completed, also when the    *)
(* delivery took several claims by several processes with failures between. *)
DeliveredFulfilled ==
  \A o \in Orders \ disturbed :
    status[o] = "delivered" => \A k \in PlanOf(o) : step[o][k] = "completed"

(* A step is recorded as completed only if the realm really executed one of *)
(* its attempts or staff vouched for it: no acknowledgement, late error or  *)
(* restart can complete a step the player never received.                   *)
CompletedWasExecuted ==
  \A o \in Orders, k \in Keys :
    step[o][k] = "completed" /\ <<o, k>> \notin reconciled
      => \E n \in 1..attempts[o][k] : Cmd(o, k, n) \in executed

(* A refunded order stays unfulfilled: no step of it is completed and no    *)
(* loop is still fulfilling it.                                             *)
RefundedUnfulfilled ==
  \A o \in Orders \ disturbed :
    status[o] = "refunded" => ~Held(o) /\ \A k \in Keys : step[o][k] # "completed"

(* The player is told "Order delivered" only about delivered orders.        *)
NotifiedDelivered ==
  \A o \in notified \ disturbed : status[o] = "delivered"

(* What an order's status, its ledger and the player's notice say of the     *)
(* realm is true at once: an order is delivered whole, refunded only when    *)
(* nothing of it was, and no step is noted as done that never ran, however   *)
(* claims, crashes, late answers, retries and refunds follow on each other.  *)
OutcomesTrue ==
  DeliveredFulfilled /\ CompletedWasExecuted /\ RefundedUnfulfilled /\ NotifiedDelivered

(* Once delivered or refunded, an order never leaves that status, and its   *)
(* fulfilment ledger no longer changes.                                     *)
FinalIsFrozen ==
  [][\A o \in Orders : status[o] \in {"delivered", "refunded"} =>
       /\ status'[o] = status[o]
       /\ o \notin disturbed => step'[o] = step[o]]_vars

(* Nothing queued is forgotten: a pending order is claimed, or staff take   *)
(* it out of the queue, although processes crash and orders are requeued.   *)
QueueDrains == \A o \in Orders : status[o] = "pending" ~> status[o] # "pending"

(* A loop never wedges: whatever it holds it lets go of, so the next order  *)
(* can be claimed.                                                          *)
LoopReturns == \A w \in Workers : task[w].order # NoOrder ~> task[w].order = NoOrder

(* The loop serves its queue (deliveryLoop): both of these.                 *)
QueueServed == QueueDrains /\ LoopReturns

-----------------------------------------------------------------------------
(***************************************************************************)
(* What the documentation says and the code does not do.                   *)
(***************************************************************************)

(* README.md:332: "Ambiguous SOAP failures move to `review`".               *)
FailureReachesReview ==
  \A o \in Orders, w \in Workers :
    At(w, "fail") /\ Holds(w, o) ~> status[o] = "review"
=============================================================================
