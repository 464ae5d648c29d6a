------------------------- MODULE OrderDeliveryProofs -------------------------
(***************************************************************************)
(* What holds of OrderDelivery for every set of orders and processes,      *)
(* every plan and any number of failures, crashes and interventions.       *)
(***************************************************************************)
EXTENDS OrderDelivery, TLAPS

(***************************************************************************)
(* The parts of the inductive invariant that are not properties themselves.*)
(* Together with TypeOK and the properties proved below they are preserved *)
(* by every step; which part needs which others is said by the lemmas      *)
(* ExclusiveStep, LedgerStep, AttemptStep, ProgressStep, ... below.        *)
(***************************************************************************)
StepPhase == {"insert", "load", "start", "run", "complete", "fail"}

(* A loop that works holds an order, and the step it is at is in the plan.  *)
TaskOK ==
  \A w \in Workers :
    /\ task[w].phase \in {"down", "idle"} <=> task[w].order = NoOrder
    /\ task[w].phase = "lookup" => task[w].key = 0
    /\ task[w].phase \in StepPhase => task[w].key \in PlanOf(task[w].order)

(* Step rows exist only for placed orders and for steps of their plan, and  *)
(* a step without a row was never attempted.                                *)
LedgerOK ==
  \A o \in Orders :
    /\ Held(o) => status[o] # "absent"
    /\ \A k \in Keys : IF step[o][k] = "absent" THEN attempts[o][k] = 0
                       ELSE k \in PlanOf(o) /\ status[o] # "absent"

(* While it is not disturbed, a loop has completed all steps before the one *)
(* it is at, and the attempt it is making is the one the ledger shows.      *)
ProgressOf(w) ==
  task[w].order \in Orders \ disturbed =>
    LET o == task[w].order  k == task[w].key IN
    /\ task[w].phase \in StepPhase => \A j \in 1..(k-1) : step[o][j] = "completed"
    /\ At(w, "finish") => \A j \in PlanOf(o) : step[o][j] = "completed"
    /\ task[w].phase \in {"run", "complete", "fail"} =>
         step[o][k] = "executing" /\ task[w].try = attempts[o][k]
Progress == \A w \in Workers : ProgressOf(w)

(* Disturbed or not, an attempt that succeeded was executed.                *)
Attempt ==
  \A w \in Workers : task[w].phase \in {"run", "complete", "fail"} =>
    LET o == task[w].order  k == task[w].key  n == task[w].try IN
    /\ n \in 1..attempts[o][k]
    /\ At(w, "complete") => Cmd(o, k, n) \in executed

(* An order nobody requeued is claimed once, and its only holder has not    *)
(* attempted what is still ahead.                                           *)
Ahead(w) ==
  LET o == task[w].order  k == task[w].key IN
  /\ task[w].phase \in {"lookup", "insert", "load", "start"} =>
       \A j \in Keys : j >= k => attempts[o][j] = 0
  /\ task[w].phase \in {"run", "complete", "fail"} =>
       \A j \in Keys : j > k => attempts[o][j] = 0
FirstClaim ==
  \A o \in Orders \ requeued :
    /\ status[o] \in {"absent", "pending"} =>
         ~Held(o) /\ \A k \in Keys : attempts[o][k] = 0
    /\ \A w \in Workers : Holds(w, o) =>
         Ahead(w) /\ \A v \in Workers : Holds(v, o) => v = w
-----------------------------------------------------------------------------
(***************************************************************************)
(* Type correctness.                                                       *)
(***************************************************************************)
TypeInv == TypeOK /\ TaskOK

(* The helpers of the loop keep the tasks well formed.                      *)
LEMMA RestType ==
  ASSUME TypeInv, NEW w \in Workers, NEW p \in {"down", "idle"}, Rest(w, p)
  PROVE  task' \in [Workers -> Task] /\ TaskOK'
  BY NoOrderAssumption DEF TypeInv, TypeOK, TaskOK, Rest, Resting, Task, Phase, StepPhase, PlanOf

LEMMA GoOnType ==
  ASSUME TypeInv, NEW w \in Workers, task[w].order \in Orders,
         NEW p \in Phase \ {"down", "idle", "lookup"},
         NEW k \in Keys \cup {0}, p \in StepPhase => k \in PlanOf(task[w].order),
         NEW n \in Nat, GoOn(w, p, k, n)
  PROVE  task' \in [Workers -> Task] /\ TaskOK'
  BY NoOrderAssumption DEF TypeInv, TypeOK, TaskOK, GoOn, Task, Phase, PlanOf

LEMMA GoToType ==
  ASSUME TypeInv, NEW w \in Workers, task[w].order \in Orders,
         NEW p \in Phase \ {"down", "idle", "lookup"},
         p \in StepPhase => task[w].key \in PlanOf(task[w].order), GoTo(w, p)
  PROVE  task' \in [Workers -> Task] /\ TaskOK'
  BY GoOnType DEF TypeInv, TypeOK, GoTo, Task

LEMMA NextStepType ==
  ASSUME TypeInv, NEW w \in Workers, NEW k \in Keys \cup {0},
         task[w].order \in Orders, NextStep(w, k)
  PROVE  task' \in [Workers -> Task] /\ TaskOK'
  <1>1. PlanLen[task[w].order] \in 0..MaxSteps /\ MaxSteps \in Nat  BY PlanAssumption
  <1>2. CASE k < PlanLen[task[w].order]
    <2>1. k + 1 \in Keys /\ k + 1 \in PlanOf(task[w].order)  BY <1>1, <1>2 DEF Keys, PlanOf
    <2> QED  BY <1>2, <2>1, GoOnType DEF NextStep, Phase
  <1>3. CASE ~(k < PlanLen[task[w].order])
    BY <1>3, GoOnType DEF NextStep, Phase, StepPhase
  <1> QED  BY <1>2, <1>3

(* A loop in a working phase holds an order of the realm.                   *)
LEMMA Working ==
  ASSUME TypeInv, NEW w \in Workers, task[w].phase \notin {"down", "idle"}
  PROVE  /\ task[w].order \in Orders
         /\ task[w] \in Task
         /\ task[w].phase \in StepPhase => task[w].key \in PlanOf(task[w].order)
                                           /\ task[w].key \in Keys
  <1>1. task[w] \in Task  BY DEF TypeInv, TypeOK
  <1>2. task[w].order \in Orders  BY <1>1 DEF TypeInv, TaskOK, Task
  <1>3. PlanLen[task[w].order] \in 0..MaxSteps /\ MaxSteps \in Nat  BY <1>2, PlanAssumption
  <1> QED  BY <1>1, <1>2, <1>3 DEF TypeInv, TaskOK, PlanOf, Keys

(* Changing a row by its key keeps the tables well formed.                  *)
LEMMA MarkStepType ==
  ASSUME TypeInv, NEW o \in Orders, NEW k \in Keys, NEW match \in BOOLEAN,
         NEW new \in StepStatus, MarkStep(o, k, match, new)
  PROVE  step' \in [Orders -> [Keys -> StepStatus]]
  <1>1. [step[o] EXCEPT ![k] = new] \in [Keys -> StepStatus]  BY DEF TypeInv, TypeOK
  <1> QED  BY <1>1 DEF MarkStep, TypeInv, TypeOK

LEMMA MarkOrderType ==
  ASSUME TypeInv, NEW o \in Orders, NEW match \in BOOLEAN,
         NEW new \in OrderStatus, MarkOrder(o, match, new)
  PROVE  status' \in [Orders -> OrderStatus]
  BY DEF MarkOrder, TypeInv, TypeOK

LEMMA TypeInit == Init => TypeInv
  BY NoOrderAssumption DEF Init, TypeInv, TypeOK, TaskOK, Task, Resting, Phase, StepPhase,
     OrderStatus, StepStatus, Keys

(* Every action of a loop keeps the types.                                  *)
LEMMA TypeLoop ==
  ASSUME TypeInv, NEW w \in Workers, Loop(w)
  PROVE  TypeInv'
  <1> USE DEF dbVars, realmVars, history, bounds
  <1>1. CASE DeliveryLoop(w)
    <2>1. Rest(w, "idle")  BY <1>1 DEF DeliveryLoop
    <2>2. task' \in [Workers -> Task] /\ TaskOK'  BY <2>1, RestType
    <2>3. status' \in [Orders -> OrderStatus]
      BY <1>1 DEF DeliveryLoop, Swept, TypeInv, TypeOK, OrderStatus
    <2>4. disturbed' \subseteq Orders  BY <1>1 DEF DeliveryLoop, TypeInv, TypeOK
    <2> QED  BY <1>1, <2>2, <2>3, <2>4 DEF DeliveryLoop, TypeInv, TypeOK
  <1>2. CASE ClaimOrder(w)
    <2>1. PICK o \in Orders, ack \in BOOLEAN :
            /\ status' = [status EXCEPT ![o] = "delivering"]
            /\ IF ack
                 THEN task' = [task EXCEPT ![w] = [phase |-> "lookup", order |-> o, key |-> 0,
                                                   try |-> 0, live |-> TRUE]]
                 ELSE UNCHANGED task
      BY <1>2 DEF ClaimOrder, Claimable
    <2>2. status' \in [Orders -> OrderStatus]  BY <2>1 DEF TypeInv, TypeOK, OrderStatus
    <2>3. task' \in [Workers -> Task] /\ TaskOK'
      <3> DEFINE t == [phase |-> "lookup", order |-> o, key |-> 0, try |-> 0, live |-> TRUE]
      <3>1. CASE UNCHANGED task  BY <3>1 DEF TypeInv, TypeOK, TaskOK, PlanOf
      <3>2. CASE task' = [task EXCEPT ![w] = t]
        <4>1. t \in Task  BY DEF Task, Phase
        <4>2. task' \in [Workers -> Task]  BY <3>2, <4>1 DEF TypeInv, TypeOK
        <4>3. \A v \in Workers : task'[v] = IF v = w THEN t ELSE task[v]
          BY <3>2 DEF TypeInv, TypeOK
        <4> QED  BY <4>2, <4>3, NoOrderAssumption DEF TypeInv, TaskOK, StepPhase, PlanOf
      <3> QED  BY <2>1, <3>1, <3>2
    <2> QED  BY <1>2, <2>2, <2>3 DEF ClaimOrder, TypeInv, TypeOK
  <1>3. CASE LoadPlan(w)
    <2>1. task[w].order \in Orders  BY <1>3, Working DEF LoadPlan, At
    <2>2. task' \in [Workers -> Task] /\ TaskOK'
      BY <1>3, <2>1, NextStepType, GoToType DEF LoadPlan, Phase, StepPhase
    <2> QED  BY <1>3, <2>2 DEF LoadPlan, TypeInv, TypeOK
  <1>4. CASE InsertStep(w)
    <2>1. /\ task[w].order \in Orders /\ task[w].key \in Keys
          /\ task[w].key \in PlanOf(task[w].order)
      BY <1>4, Working DEF InsertStep, At, StepPhase
    <2>2. PICK ack \in BOOLEAN : GoTo(w, IF ack THEN "load" ELSE "review")
      BY <1>4 DEF InsertStep
    <2>3. task' \in [Workers -> Task] /\ TaskOK'
      BY <2>1, <2>2, GoToType DEF Phase, StepPhase
    <2>4. step' \in [Orders -> [Keys -> StepStatus]]
      <3>1. \E m \in BOOLEAN : MarkStep(task[w].order, task[w].key, m, "pending")
        BY <1>4 DEF InsertStep
      <3> QED  BY <2>1, <3>1, MarkStepType DEF StepStatus
    <2> QED  BY <1>4, <2>3, <2>4 DEF InsertStep, TypeInv, TypeOK
  <1>5. CASE LoadStep(w)
    <2>1. task[w].order \in Orders /\ task[w].key \in Keys
          /\ task[w].key \in PlanOf(task[w].order)
      BY <1>5, Working DEF LoadStep, At, StepPhase
    <2>2. task' \in [Workers -> Task] /\ TaskOK'
      BY <1>5, <2>1, NextStepType, GoToType DEF LoadStep, Phase, StepPhase
    <2> QED  BY <1>5, <2>2 DEF LoadStep, TypeInv, TypeOK
  <1>6. CASE StartStep(w)
    <2> DEFINE o == task[w].order  k == task[w].key  n == attempts[o][k] + 1
    <2>1. o \in Orders /\ k \in Keys /\ k \in PlanOf(o) /\ n \in Nat
      <3>1. o \in Orders /\ k \in Keys /\ k \in PlanOf(o)
        BY <1>6, Working DEF StartStep, At, StepPhase
      <3> QED  BY <3>1 DEF TypeInv, TypeOK
    <2>2. \/ GoOn(w, "run", k, n) /\ wire' = wire \cup {Cmd(o, k, n)}
          \/ GoTo(w, "review") /\ wire' = wire
      BY <1>6 DEF StartStep
    <2>3. task' \in [Workers -> Task] /\ TaskOK'
      BY <2>1, <2>2, GoOnType, GoToType DEF Phase, StepPhase
    <2>4. wire' \subseteq Command  BY <2>1, <2>2 DEF Cmd, Command, TypeInv, TypeOK
    <2>5. step' \in [Orders -> [Keys -> StepStatus]]
      <3>1. \E m \in BOOLEAN : MarkStep(o, k, m, "executing")  BY <1>6 DEF StartStep
      <3> QED  BY <2>1, <3>1, MarkStepType DEF StepStatus
    <2>6. attempts' \in [Orders -> [Keys -> Nat]]
      <3>1. attempts' = attempts \/ attempts' = [attempts EXCEPT ![o][k] = n]
        BY <1>6 DEF StartStep
      <3>2. [attempts[o] EXCEPT ![k] = n] \in [Keys -> Nat]  BY <2>1 DEF TypeInv, TypeOK
      <3> QED  BY <2>1, <3>1, <3>2 DEF TypeInv, TypeOK
    <2> QED  BY <1>6, <2>3, <2>4, <2>5, <2>6 DEF StartStep, TypeInv, TypeOK
  <1>7. CASE RunStep(w)
    <2>1. task[w].order \in Orders /\ task[w].key \in PlanOf(task[w].order)
      BY <1>7, Working DEF RunStep, At, StepPhase
    <2>2. task' \in [Workers -> Task] /\ TaskOK'
      BY <1>7, <2>1, GoToType DEF RunStep, Phase, StepPhase
    <2>3. wire' \subseteq wire  BY <1>7 DEF RunStep
    <2> QED  BY <1>7, <2>2, <2>3 DEF RunStep, TypeInv, TypeOK
  <1>8. CASE CompleteStep(w)
    <2>1. task[w].order \in Orders /\ task[w].key \in Keys
      BY <1>8, Working DEF CompleteStep, At, StepPhase
    <2>2. NextStep(w, task[w].key) \/ GoTo(w, "review")  BY <1>8 DEF CompleteStep
    <2>3. task' \in [Workers -> Task] /\ TaskOK'
      BY <2>1, <2>2, NextStepType, GoToType DEF Phase, StepPhase
    <2>4. step' \in [Orders -> [Keys -> StepStatus]]
      <3>1. \E m \in BOOLEAN : MarkStep(task[w].order, task[w].key, m, "completed")
        BY <1>8 DEF CompleteStep
      <3> QED  BY <2>1, <3>1, MarkStepType DEF StepStatus
    <2> QED  BY <1>8, <2>3, <2>4 DEF CompleteStep, TypeInv, TypeOK
  <1>9. CASE FailStep(w)
    <2> DEFINE o == task[w].order  k == task[w].key
    <2>1. o \in Orders /\ k \in Keys /\ task[w].try \in Nat
      BY <1>9, Working DEF FailStep, At, StepPhase, Task
    <2>2. task' \in [Workers -> Task] /\ TaskOK'
      BY <1>9, <2>1, GoToType DEF FailStep, Phase, StepPhase
    <2>3. step' \in [Orders -> [Keys -> StepStatus]]
      <3>1. \E m \in BOOLEAN : MarkStep(task[w].order, task[w].key, m, "failed")
        BY <1>9 DEF FailStep
      <3> QED  BY <2>1, <3>1, MarkStepType DEF StepStatus
    <2>4. Cmd(o, k, task[w].try) \in Command  BY <2>1 DEF Cmd, Command
    <2>5. givenUp' \subseteq Command
      BY <1>9, <2>4 DEF FailStep, TypeInv, TypeOK
    <2> QED  BY <1>9, <2>2, <2>3, <2>5 DEF FailStep, TypeInv, TypeOK
  <1>10. CASE ReviewOrder(w)
    <2>1. task' \in [Workers -> Task] /\ TaskOK'  BY <1>10, RestType DEF ReviewOrder
    <2>2. status' \in [Orders -> OrderStatus]
      <3>1. \E m \in BOOLEAN : MarkOrder(task[w].order, m, "review")  BY <1>10 DEF ReviewOrder
      <3>2. task[w].order \in Orders  BY <1>10, Working DEF ReviewOrder, At
      <3> QED  BY <3>1, <3>2, MarkOrderType DEF OrderStatus
    <2> QED  BY <1>10, <2>1, <2>2 DEF ReviewOrder, TypeInv, TypeOK
  <1>11. CASE FinishOrder(w)
    <2>1. task' \in [Workers -> Task] /\ TaskOK'  BY <1>11, RestType DEF FinishOrder
    <2>2. status' \in [Orders -> OrderStatus]
      <3>1. \E m \in BOOLEAN : MarkOrder(task[w].order, m, "delivered")  BY <1>11 DEF FinishOrder
      <3>2. task[w].order \in Orders  BY <1>11, Working DEF FinishOrder, At
      <3> QED  BY <3>1, <3>2, MarkOrderType DEF OrderStatus
    <2>3. task[w].order \in Orders  BY <1>11, Working DEF FinishOrder, At
    <2>4. notified' \subseteq Orders  BY <1>11, <2>3 DEF FinishOrder, Told, TypeInv, TypeOK
    <2> QED  BY <1>11, <2>1, <2>2, <2>4 DEF FinishOrder, TypeInv, TypeOK
  <1> QED  BY <1>1, <1>2, <1>3, <1>4, <1>5, <1>6, <1>7, <1>8, <1>9, <1>10, <1>11 DEF Loop

(* So does everything the loops do not do themselves.                       *)
LEMMA TypeOther ==
  ASSUME TypeInv,
         \/ \E o \in Orders : PlaceOrder(o)
         \/ \E w \in Workers : ExpireContext(w) \/ Terminate(w)
         \/ \E c \in wire : Execute(c)
         \/ Staff
         \/ UNCHANGED vars
  PROVE  TypeInv'
  <1> USE DEF dbVars, realmVars, history, bounds
  <1>1. ASSUME NEW o \in Orders, PlaceOrder(o) PROVE TypeInv'
    BY <1>1 DEF PlaceOrder, TypeInv, TypeOK, TaskOK, OrderStatus, PlanOf
  <1>2. ASSUME NEW w \in Workers, ExpireContext(w) PROVE TypeInv'
    <2> DEFINE t == [phase |-> task[w].phase, order |-> task[w].order,
                     key |-> task[w].key, try |-> task[w].try, live |-> FALSE]
    <2>1. t \in Task  BY DEF TypeInv, TypeOK, Task
    <2>2. task' = [task EXCEPT ![w] = t]  BY <1>2 DEF ExpireContext
    <2>3. task' \in [Workers -> Task]  BY <2>1, <2>2 DEF TypeInv, TypeOK
    <2>4. \A v \in Workers : task'[v] = IF v = w THEN t ELSE task[v]
      BY <2>2 DEF TypeInv, TypeOK
    <2>5. TaskOK'  BY <2>4 DEF TypeInv, TaskOK, PlanOf
    <2> QED  BY <1>2, <2>3, <2>5 DEF ExpireContext, TypeInv, TypeOK
  <1>3. ASSUME NEW w \in Workers, Terminate(w) PROVE TypeInv'
    <2>1. task' \in [Workers -> Task] /\ TaskOK'  BY <1>3, RestType DEF Terminate
    <2> QED  BY <1>3, <2>1 DEF Terminate, TypeInv, TypeOK
  <1>4. ASSUME NEW c \in wire, Execute(c) PROVE TypeInv'
    BY <1>4 DEF Execute, TypeInv, TypeOK, TaskOK, PlanOf
  <1>5. ASSUME NEW o \in Orders, AdminRetryOrder(o) PROVE TypeInv'
    BY <1>5 DEF AdminRetryOrder, Intervene, TypeInv, TypeOK, TaskOK, OrderStatus, PlanOf
  <1>6. ASSUME NEW o \in Orders, AdminRefundOrder(o) PROVE TypeInv'
    BY <1>6 DEF AdminRefundOrder, Intervene, TypeInv, TypeOK, TaskOK, OrderStatus, PlanOf
  <1>7. ASSUME NEW o \in Orders, NEW k \in Keys, NEW r \in {"pending", "completed"},
               AdminResolveOrderStep(o, k, r)
        PROVE  TypeInv'
    <2>1. step' \in [Orders -> [Keys -> StepStatus]]
      <3>1. [step[o] EXCEPT ![k] = r] \in [Keys -> StepStatus]
        BY DEF TypeInv, TypeOK, StepStatus
      <3> QED  BY <1>7, <3>1 DEF AdminResolveOrderStep, TypeInv, TypeOK
    <2>2. status' \in [Orders -> OrderStatus]
      BY <1>7 DEF AdminResolveOrderStep, TypeInv, TypeOK, OrderStatus
    <2>3. givenUp' \subseteq Command
      BY <1>7 DEF AdminResolveOrderStep, TypeInv, TypeOK, Cmd, Command
    <2>4. reconciled' \subseteq Orders \X Keys
      BY <1>7 DEF AdminResolveOrderStep, TypeInv, TypeOK
    <2>5. requeued' \subseteq Orders /\ disturbed' \subseteq Orders
      BY <1>7 DEF AdminResolveOrderStep, TypeInv, TypeOK
    <2> QED  BY <1>7, <2>1, <2>2, <2>3, <2>4, <2>5
             DEF AdminResolveOrderStep, Intervene, TypeInv, TypeOK, TaskOK, PlanOf
  <1>8. ASSUME UNCHANGED vars PROVE TypeInv'
    BY <1>8 DEF vars, TypeInv, TypeOK, TaskOK, PlanOf
  <1> QED  BY <1>1, <1>2, <1>3, <1>4, <1>5, <1>6, <1>7, <1>8 DEF Staff

LEMMA TypeInvariant == Spec => []TypeInv
  <1>1. TypeInv /\ [Next]_vars => TypeInv'  BY TypeLoop, TypeOther DEF Next
  <1> QED  BY TypeInit, <1>1, PTL DEF Spec

(* Statuses, attempts, commands and tasks keep their types, for every set   *)
(* of orders and processes and every plan.                                  *)
THEOREM TypeCorrect == Spec => []TypeOK
  <1>1. TypeInv => TypeOK  BY DEF TypeInv
  <1> QED  BY TypeInvariant, <1>1, PTL

-----------------------------------------------------------------------------
(***************************************************************************)
(* Who holds an order.                                                     *)
(***************************************************************************)

(* Steps of a loop at an order it has claimed, up to but not including the  *)
(* one that gives it up.                                                    *)
AtWork(w) ==
  \/ LoadPlan(w) \/ InsertStep(w) \/ LoadStep(w) \/ StartStep(w)
  \/ RunStep(w) \/ CompleteStep(w) \/ FailStep(w)

(* They leave the order's status alone and go on with the same order.       *)
LEMMA AtWorkKeeps ==
  ASSUME TypeInv, NEW w \in Workers, AtWork(w)
  PROVE  /\ UNCHANGED <<status, notified, disturbed, requeued>>
         /\ task[w].order \in Orders
         /\ \A v \in Workers : task'[v].order = task[v].order
         /\ \A v \in Workers : v # w => task'[v] = task[v]
  <1> USE DEF dbVars, realmVars, history, bounds
  <1>1. task[w].phase \notin {"down", "idle"}
    BY DEF AtWork, At, LoadPlan, InsertStep, LoadStep, StartStep, RunStep, CompleteStep, FailStep
  <1>2. task[w].order \in Orders  BY <1>1, Working
  <1>3. UNCHANGED <<status, notified, disturbed, requeued>>
    BY DEF AtWork, LoadPlan, InsertStep, LoadStep, StartStep, RunStep, CompleteStep, FailStep
  <1>4. \E p, k, n : GoOn(w, p, k, n)
    BY DEF AtWork, LoadPlan, InsertStep, LoadStep, StartStep, RunStep, CompleteStep, FailStep,
           GoTo, NextStep
  <1>5. \A v \in Workers : /\ task'[v].order = task[v].order
                           /\ v # w => task'[v] = task[v]
    BY <1>4 DEF GoOn, TypeInv, TypeOK
  <1> QED  BY <1>2, <1>3, <1>5

LEMMA ClaimEffect ==
  ASSUME TypeInv, NEW w \in Workers, ClaimOrder(w)
  PROVE  \E o \in Orders :
           /\ status[o] = "pending"
           /\ \A p \in Orders : status'[p] = IF p = o THEN "delivering" ELSE status[p]
           /\ \A v \in Workers \ {w} : task'[v] = task[v]
           /\ task[w].order = NoOrder
           /\ \/ task'[w] = task[w]
              \/ task'[w].order = o /\ task'[w].phase = "lookup"
           /\ UNCHANGED <<step, attempts, notified, executed, givenUp, reconciled, requeued, disturbed>>
  <1>1. PICK o \in Claimable, ack \in BOOLEAN :
          /\ status' = [status EXCEPT ![o] = "delivering"]
          /\ IF ack
               THEN task' = [task EXCEPT ![w] = [phase |-> "lookup", order |-> o, key |-> 0,
                                                 try |-> 0, live |-> TRUE]]
               ELSE UNCHANGED task
    BY DEF ClaimOrder
  <1>2. o \in Orders /\ status[o] = "pending"  BY DEF Claimable
  <1>3. \A p \in Orders : status'[p] = IF p = o THEN "delivering" ELSE status[p]
    BY <1>1 DEF TypeInv, TypeOK
  <1>4. task[w].order = NoOrder  BY DEF ClaimOrder, At, TypeInv, TaskOK
  <1>5. /\ \A v \in Workers \ {w} : task'[v] = task[v]
        /\ \/ task'[w] = task[w]
           \/ task'[w].order = o /\ task'[w].phase = "lookup"
    BY <1>1 DEF TypeInv, TypeOK
  <1>6. UNCHANGED <<step, attempts, notified, executed, givenUp, reconciled, requeued, disturbed>>
    BY DEF ClaimOrder, realmVars, history
  <1> QED  BY <1>2, <1>3, <1>4, <1>5, <1>6

LEMMA RestEffect ==
  ASSUME TypeInv, NEW w \in Workers, NEW p, Rest(w, p)
  PROVE  \A v \in Workers : task'[v] = IF v = w THEN Resting(p) ELSE task[v]
  BY DEF Rest, TypeInv, TypeOK

(* Claiming, finishing, reviewing, sweeping and staff keep fulfilment       *)
(* exclusive.                                                               *)
LEMMA ExclusiveStep ==
  ASSUME TypeInv, ExclusiveFulfilment, [Next]_vars
  PROVE  ExclusiveFulfilment'
  <1> USE DEF dbVars, realmVars, history, bounds, Holds
  <1>1. ASSUME NEW w \in Workers, AtWork(w) PROVE ExclusiveFulfilment'
    BY <1>1, AtWorkKeeps DEF ExclusiveFulfilment
  <1>2. ASSUME NEW w \in Workers, DeliveryLoop(w) PROVE ExclusiveFulfilment'
    BY <1>2, NoOrderAssumption
    DEF DeliveryLoop, Rest, Resting, Swept, Held, ExclusiveFulfilment, TypeInv, TypeOK
  <1>3. ASSUME NEW w \in Workers, ClaimOrder(w) PROVE ExclusiveFulfilment'
    <2>1. PICK o \in Orders :
            /\ status[o] = "pending"
            /\ \A p \in Orders : status'[p] = IF p = o THEN "delivering" ELSE status[p]
            /\ \A v \in Workers \ {w} : task'[v] = task[v]
            /\ task[w].order = NoOrder
            /\ \/ task'[w] = task[w]
               \/ task'[w].order = o /\ task'[w].phase = "lookup"
            /\ UNCHANGED <<step, attempts, notified, executed, givenUp, reconciled, requeued, disturbed>>
      BY <1>3, ClaimEffect
    <2> QED  BY <2>1 DEF ExclusiveFulfilment
  <1>4. ASSUME NEW w \in Workers, ReviewOrder(w) \/ FinishOrder(w) PROVE ExclusiveFulfilment'
    <2>1. task[w].order \in Orders  BY <1>4, Working DEF ReviewOrder, FinishOrder, At
    <2>2. \A o \in Orders : status'[o] = status[o] \/ o = task[w].order
      BY <1>4, <2>1 DEF ReviewOrder, FinishOrder, MarkOrder, TypeInv, TypeOK
    <2>3. \A v \in Workers : task'[v] = IF v = w THEN Resting("idle") ELSE task[v]
      BY <1>4 DEF ReviewOrder, FinishOrder, Rest, TypeInv, TypeOK
    <2> QED  BY <1>4, <2>1, <2>2, <2>3, NoOrderAssumption
             DEF ReviewOrder, FinishOrder, Resting, ExclusiveFulfilment
  <1>5. ASSUME NEW o \in Orders, PlaceOrder(o) \/ AdminRetryOrder(o) \/ AdminRefundOrder(o)
        PROVE  ExclusiveFulfilment'
    <2>1. status[o] # "delivering" /\ UNCHANGED <<task, disturbed>>
      BY <1>5 DEF PlaceOrder, AdminRetryOrder, AdminRefundOrder, Refundable
    <2>2. \A p \in Orders : status'[p] = status[p] \/ p = o
      BY <1>5 DEF PlaceOrder, AdminRetryOrder, AdminRefundOrder, TypeInv, TypeOK
    <2> QED  BY <2>1, <2>2 DEF ExclusiveFulfilment
  <1>6. ASSUME NEW o \in Orders, NEW k \in Keys, NEW r \in {"pending", "completed"},
               AdminResolveOrderStep(o, k, r)
        PROVE  ExclusiveFulfilment'
    BY <1>6 DEF AdminResolveOrderStep, Held, ExclusiveFulfilment, TypeInv, TypeOK
  <1>7. ASSUME NEW w \in Workers, ExpireContext(w) PROVE ExclusiveFulfilment'
    BY <1>7 DEF ExpireContext, ExclusiveFulfilment, TypeInv, TypeOK
  <1>8. ASSUME NEW w \in Workers, Terminate(w) PROVE ExclusiveFulfilment'
    BY <1>8, NoOrderAssumption
    DEF Terminate, Rest, Resting, ExclusiveFulfilment, TypeInv, TypeOK
  <1>9. ASSUME NEW c \in wire, Execute(c) PROVE ExclusiveFulfilment'
    BY <1>9 DEF Execute, ExclusiveFulfilment
  <1>10. ASSUME UNCHANGED vars PROVE ExclusiveFulfilment'
    BY <1>10 DEF vars, ExclusiveFulfilment
  <1> QED  BY <1>1, <1>2, <1>3, <1>4, <1>5, <1>6, <1>7, <1>8, <1>9, <1>10
           DEF Next, Loop, Staff, AtWork

(* At most one loop fulfils an undisturbed order, and only while it is      *)
(* `delivering', for any number of processes, failures and crashes.         *)
THEOREM Exclusive == Spec => []ExclusiveFulfilment
  <1>1. Init => ExclusiveFulfilment
    BY NoOrderAssumption DEF Init, ExclusiveFulfilment, Holds, Resting
  <1>2. TypeInv /\ ExclusiveFulfilment /\ [Next]_vars => ExclusiveFulfilment'
    BY ExclusiveStep
  <1> QED  BY TypeInvariant, <1>1, <1>2, PTL DEF Spec

-----------------------------------------------------------------------------
(***************************************************************************)
(* The fulfilment ledger.                                                  *)
(***************************************************************************)

(* A working loop changes at most the row of the step it is at, along the   *)
(* edges of the step life cycle.                                            *)
LEMMA WorkEffect ==
  ASSUME TypeInv, NEW w \in Workers, AtWork(w),
         NEW o, NEW k, o = task[w].order, k = task[w].key
  PROVE  /\ \A p \in Orders, j \in Keys : p # o \/ j # k =>
              step'[p][j] = step[p][j] /\ attempts'[p][j] = attempts[p][j]
         /\ \/ UNCHANGED <<step, attempts>>
            \/ /\ k \in Keys /\ k \in PlanOf(o)
               /\ \/ /\ step[o][k] = "absent" /\ step'[o][k] = "pending"
                     /\ attempts'[o][k] = attempts[o][k]
                  \/ /\ StartStep(w) /\ step[o][k] \in {"pending", "failed"}
                     /\ step'[o][k] = "executing"
                     /\ attempts'[o][k] = attempts[o][k] + 1
                  \/ /\ CompleteStep(w) /\ step[o][k] = "executing"
                     /\ step'[o][k] = "completed" /\ attempts'[o][k] = attempts[o][k]
                  \/ /\ FailStep(w) /\ step[o][k] = "executing"
                     /\ step'[o][k] = "failed" /\ attempts'[o][k] = attempts[o][k]
  <1> USE DEF dbVars
  <1>1. CASE LoadPlan(w) \/ LoadStep(w) \/ RunStep(w)
    BY <1>1 DEF LoadPlan, LoadStep, RunStep
  <1>2. CASE InsertStep(w) \/ StartStep(w) \/ CompleteStep(w) \/ FailStep(w)
    <2>1. o \in Orders /\ k \in Keys /\ k \in PlanOf(o)
      BY <1>2, Working DEF InsertStep, StartStep, CompleteStep, FailStep, At, StepPhase
    <2>2. ASSUME NEW new, step' = [step EXCEPT ![o][k] = new]
          PROVE  /\ step'[o][k] = new
                 /\ \A p \in Orders, j \in Keys : p # o \/ j # k => step'[p][j] = step[p][j]
      BY <2>1, <2>2 DEF TypeInv, TypeOK
    <2>3. CASE InsertStep(w)
      <3>1. attempts' = attempts
            /\ \/ step' = step
               \/ step[o][k] = "absent" /\ step' = [step EXCEPT ![o][k] = "pending"]
        BY <2>3 DEF InsertStep, MarkStep
      <3>2. CASE step' = step  BY <3>1, <3>2
      <3>3. CASE step[o][k] = "absent" /\ step' = [step EXCEPT ![o][k] = "pending"]
        <4>1. step'[o][k] = "pending"
              /\ \A p \in Orders, j \in Keys : p # o \/ j # k => step'[p][j] = step[p][j]
          BY <2>2, <3>3
        <4> QED  BY <2>1, <3>1, <3>3, <4>1
      <3> QED  BY <3>1, <3>2, <3>3
    <2>4. CASE StartStep(w)
      <3>1. \/ UNCHANGED <<step, attempts>>
            \/ /\ step[o][k] \in {"pending", "failed"}
               /\ step' = [step EXCEPT ![o][k] = "executing"]
               /\ attempts' = [attempts EXCEPT ![o][k] = attempts[o][k] + 1]
        BY <2>4 DEF StartStep, MarkStep, Startable
      <3>2. ASSUME attempts' = [attempts EXCEPT ![o][k] = attempts[o][k] + 1]
            PROVE  /\ attempts'[o][k] = attempts[o][k] + 1
                   /\ \A p \in Orders, j \in Keys :
                        p # o \/ j # k => attempts'[p][j] = attempts[p][j]
        BY <2>1, <3>2 DEF TypeInv, TypeOK
      <3>3. CASE UNCHANGED <<step, attempts>>  BY <3>3
      <3>4. CASE /\ step[o][k] \in {"pending", "failed"}
                 /\ step' = [step EXCEPT ![o][k] = "executing"]
                 /\ attempts' = [attempts EXCEPT ![o][k] = attempts[o][k] + 1]
        <4>1. step'[o][k] = "executing"
              /\ \A p \in Orders, j \in Keys : p # o \/ j # k => step'[p][j] = step[p][j]
          BY <2>2, <3>4
        <4>2. attempts'[o][k] = attempts[o][k] + 1
              /\ \A p \in Orders, j \in Keys : p # o \/ j # k => attempts'[p][j] = attempts[p][j]
          BY <3>2, <3>4
        <4> QED  BY <2>1, <2>4, <3>4, <4>1, <4>2
      <3> QED  BY <3>1, <3>3, <3>4
    <2>5. CASE CompleteStep(w)
      <3>1. attempts' = attempts
            /\ \/ step' = step
               \/ step[o][k] = "executing" /\ step' = [step EXCEPT ![o][k] = "completed"]
        BY <2>5 DEF CompleteStep, MarkStep
      <3>2. CASE step' = step  BY <3>1, <3>2
      <3>3. CASE step[o][k] = "executing" /\ step' = [step EXCEPT ![o][k] = "completed"]
        <4>1. step'[o][k] = "completed"
              /\ \A p \in Orders, j \in Keys : p # o \/ j # k => step'[p][j] = step[p][j]
          BY <2>2, <3>3
        <4> QED  BY <2>1, <2>5, <3>1, <3>3, <4>1
      <3> QED  BY <3>1, <3>2, <3>3
    <2>6. CASE FailStep(w)
      <3>1. attempts' = attempts
            /\ \/ step' = step
               \/ step[o][k] = "executing" /\ step' = [step EXCEPT ![o][k] = "failed"]
        BY <2>6 DEF FailStep, MarkStep
      <3>2. CASE step' = step  BY <3>1, <3>2
      <3>3. CASE step[o][k] = "executing" /\ step' = [step EXCEPT ![o][k] = "failed"]
        <4>1. step'[o][k] = "failed"
              /\ \A p \in Orders, j \in Keys : p # o \/ j # k => step'[p][j] = step[p][j]
          BY <2>2, <3>3
        <4> QED  BY <2>1, <2>6, <3>1, <3>3, <4>1
      <3> QED  BY <3>1, <3>2, <3>3
    <2> QED  BY <1>2, <2>3, <2>4, <2>5, <2>6
  <1> QED  BY <1>1, <1>2 DEF AtWork

LEMMA ResolveEffect ==
  ASSUME TypeInv, NEW o \in Orders, NEW k \in Keys, NEW r \in {"pending", "completed"},
         AdminResolveOrderStep(o, k, r)
  PROVE  /\ step[o][k] # "absent" /\ step'[o][k] = r
         /\ status[o] \notin {"delivered", "refunded"}
         /\ \A p \in Orders, j \in Keys : p # o \/ j # k => step'[p][j] = step[p][j]
         /\ \A p \in Orders : status'[p] = IF p = o THEN "pending" ELSE status[p]
         /\ UNCHANGED <<attempts, task, executed, notified>>
         /\ givenUp' = givenUp \cup {Cmd(o, k, attempts[o][k])}
         /\ reconciled' = reconciled \cup {<<o, k>>}
         /\ requeued' = requeued \cup {o}
         /\ disturbed' = IF Held(o) THEN disturbed \cup {o} ELSE disturbed
  BY DEF AdminResolveOrderStep, Resolvable, realmVars, TypeInv, TypeOK

(* Only working loops and reconciling staff change the ledger.              *)
LEMMA LedgerFrame ==
  ASSUME [Next]_vars
  PROVE  \/ \E w \in Workers : AtWork(w)
         \/ \E o \in Orders, k \in Keys, r \in {"pending", "completed"} :
              AdminResolveOrderStep(o, k, r)
         \/ UNCHANGED <<step, attempts>>
  BY DEF Next, Loop, Staff, AtWork, DeliveryLoop, ClaimOrder, ReviewOrder, FinishOrder,
         ExpireContext, Terminate, Execute, PlaceOrder, AdminRetryOrder, AdminRefundOrder,
         vars, dbVars

(* A placed order never becomes absent again, and only placed orders are    *)
(* claimed.                                                                 *)
LEMMA PlacedStays ==
  ASSUME TypeInv, [Next]_vars, NEW o \in Orders
  PROVE  /\ status[o] # "absent" => status'[o] # "absent"
         /\ Held(o)' => Held(o) \/ status'[o] # "absent"
  <1> USE DEF dbVars, Held, Holds
  <1>1. ASSUME NEW w \in Workers, AtWork(w)
        PROVE  status'[o] = status[o] /\ (Held(o)' => Held(o))
    BY <1>1, AtWorkKeeps
  <1>2. ASSUME NEW w \in Workers, DeliveryLoop(w)
        PROVE  (status'[o] = "absent" => status[o] = "absent") /\ (Held(o)' => Held(o))
    BY <1>2, NoOrderAssumption DEF DeliveryLoop, Swept, Rest, Resting, TypeInv, TypeOK
  <1>3. ASSUME NEW w \in Workers, ClaimOrder(w)
        PROVE  /\ status'[o] = "absent" => status[o] = "absent"
               /\ Held(o)' => Held(o) \/ status'[o] # "absent"
    BY <1>3, ClaimEffect
  <1>4. ASSUME NEW w \in Workers, ReviewOrder(w) \/ FinishOrder(w)
        PROVE  (status'[o] = "absent" => status[o] = "absent") /\ (Held(o)' => Held(o))
    <2>1. Rest(w, "idle")  BY <1>4 DEF ReviewOrder, FinishOrder
    <2>2. \A v \in Workers : task'[v] = IF v = w THEN Resting("idle") ELSE task[v]
      BY <2>1, RestEffect
    <2>3. status'[o] # "absent" \/ status'[o] = status[o]
      BY <1>4 DEF ReviewOrder, FinishOrder, MarkOrder, TypeInv, TypeOK
    <2> QED  BY <2>2, <2>3, NoOrderAssumption DEF Resting
  <1>5. ASSUME NEW p \in Orders, PlaceOrder(p) \/ AdminRetryOrder(p) \/ AdminRefundOrder(p)
        PROVE  (status'[o] = "absent" => status[o] = "absent") /\ (Held(o)' => Held(o))
    BY <1>5 DEF PlaceOrder, AdminRetryOrder, AdminRefundOrder, TypeInv, TypeOK
  <1>6. ASSUME NEW p \in Orders, NEW k \in Keys, NEW r \in {"pending", "completed"},
               AdminResolveOrderStep(p, k, r)
        PROVE  (status'[o] = "absent" => status[o] = "absent") /\ (Held(o)' => Held(o))
    BY <1>6, ResolveEffect
  <1>7. ASSUME NEW w \in Workers, ExpireContext(w) \/ Terminate(w)
        PROVE  status'[o] = status[o] /\ (Held(o)' => Held(o))
    BY <1>7, NoOrderAssumption DEF ExpireContext, Terminate, Rest, Resting, TypeInv, TypeOK
  <1>8. ASSUME (\E c \in wire : Execute(c)) \/ UNCHANGED vars
        PROVE  status'[o] = status[o] /\ (Held(o)' => Held(o))
    BY <1>8 DEF Execute, vars
  <1> QED  BY <1>1, <1>2, <1>3, <1>4, <1>5, <1>6, <1>7, <1>8 DEF Next, Loop, Staff, AtWork

LEMMA LedgerStep ==
  ASSUME TypeInv, LedgerOK, [Next]_vars
  PROVE  LedgerOK'
  <1> SUFFICES ASSUME NEW o \in Orders
               PROVE  /\ Held(o)' => status'[o] # "absent"
                      /\ \A k \in Keys : IF step'[o][k] = "absent" THEN attempts'[o][k] = 0
                                         ELSE k \in PlanOf(o) /\ status'[o] # "absent"
    BY DEF LedgerOK, PlanOf
  <1>1. Held(o)' => status'[o] # "absent"  BY PlacedStays DEF LedgerOK
  <1>2. ASSUME NEW k \in Keys
        PROVE  IF step'[o][k] = "absent" THEN attempts'[o][k] = 0
               ELSE k \in PlanOf(o) /\ status'[o] # "absent"
    <2>1. IF step[o][k] = "absent" THEN attempts[o][k] = 0
          ELSE k \in PlanOf(o) /\ status'[o] # "absent"
      BY PlacedStays DEF LedgerOK
    <2>2. ASSUME NEW w \in Workers, AtWork(w)
          PROVE  \/ step'[o][k] = step[o][k] /\ attempts'[o][k] = attempts[o][k]
                 \/ step'[o][k] # "absent" /\ k \in PlanOf(o) /\ Held(o)'
      <3>1. CASE o # task[w].order \/ k # task[w].key  BY <2>2, <3>1, WorkEffect
      <3>2. CASE o = task[w].order /\ k = task[w].key
        <4>1. Held(o)'  BY <2>2, <3>2, AtWorkKeeps DEF Held, Holds
        <4>2. \/ UNCHANGED <<step, attempts>>
              \/ step'[o][k] # "absent" /\ k \in PlanOf(o)
          BY <2>2, <3>2, WorkEffect
        <4> QED  BY <4>1, <4>2
      <3> QED  BY <3>1, <3>2
    <2>3. ASSUME NEW p \in Orders, NEW j \in Keys, NEW r \in {"pending", "completed"},
                 AdminResolveOrderStep(p, j, r)
          PROVE  /\ attempts'[o][k] = attempts[o][k]
                 /\ step'[o][k] = "absent" <=> step[o][k] = "absent"
      BY <2>3, ResolveEffect
    <2>4. CASE UNCHANGED <<step, attempts>>  BY <2>1, <2>4
    <2> QED  BY <1>1, <2>1, <2>2, <2>3, <2>4, LedgerFrame
  <1> QED  BY <1>1, <1>2

LEMMA Ledger == Spec => []LedgerOK
  <1>1. Init => LedgerOK
    BY NoOrderAssumption DEF Init, LedgerOK, Held, Holds, Resting
  <1>2. TypeInv /\ LedgerOK /\ [Next]_vars => LedgerOK'  BY LedgerStep
  <1> QED  BY TypeInvariant, <1>1, <1>2, PTL DEF Spec

-----------------------------------------------------------------------------
(***************************************************************************)
(* Completed means executed.                                               *)
(***************************************************************************)
OnWire == {"run", "complete", "fail"}

(* Attempts are only counted up, and what was executed stays executed.      *)
LEMMA Monotone ==
  ASSUME TypeInv, [Next]_vars
  PROVE  /\ \A o \in Orders, k \in Keys : attempts'[o][k] \in Nat
                                          /\ attempts'[o][k] >= attempts[o][k]
         /\ executed \subseteq executed' /\ reconciled \subseteq reconciled'
  <1> USE DEF dbVars, realmVars, history
  <1>1. TypeInv'  BY TypeLoop, TypeOther DEF Next
  <1>2. ASSUME NEW o \in Orders, NEW k \in Keys
        PROVE  attempts'[o][k] \in Nat /\ attempts'[o][k] >= attempts[o][k]
    <2>1. attempts[o][k] \in Nat /\ attempts'[o][k] \in Nat  BY <1>1 DEF TypeInv, TypeOK
    <2>2. ASSUME NEW w \in Workers, AtWork(w) PROVE attempts'[o][k] >= attempts[o][k]
      BY <2>1, <2>2, WorkEffect
    <2>3. ASSUME NEW p \in Orders, NEW j \in Keys, NEW r \in {"pending", "completed"},
                 AdminResolveOrderStep(p, j, r)
          PROVE  attempts'[o][k] >= attempts[o][k]
      BY <2>1, <2>3, ResolveEffect
    <2>4. CASE UNCHANGED <<step, attempts>>  BY <2>1, <2>4
    <2> QED  BY <2>1, <2>2, <2>3, <2>4, LedgerFrame
  <1>3. executed \subseteq executed' /\ reconciled \subseteq reconciled'
    <2>1. ASSUME NEW w \in Workers, AtWork(w) PROVE UNCHANGED <<executed, reconciled>>
      BY <2>1 DEF AtWork, LoadPlan, InsertStep, LoadStep, StartStep, RunStep, CompleteStep, FailStep
    <2>2. ASSUME NEW w \in Workers,
                 \/ DeliveryLoop(w) \/ ClaimOrder(w) \/ ReviewOrder(w) \/ FinishOrder(w)
                 \/ ExpireContext(w) \/ Terminate(w)
          PROVE  UNCHANGED <<executed, reconciled>>
      BY <2>2 DEF DeliveryLoop, ClaimOrder, ReviewOrder, FinishOrder, ExpireContext, Terminate
    <2>3. ASSUME NEW o \in Orders, PlaceOrder(o) \/ AdminRetryOrder(o) \/ AdminRefundOrder(o)
          PROVE  UNCHANGED <<executed, reconciled>>
      BY <2>3 DEF PlaceOrder, AdminRetryOrder, AdminRefundOrder
    <2>4. ASSUME NEW o \in Orders, NEW k \in Keys, NEW r \in {"pending", "completed"},
                 AdminResolveOrderStep(o, k, r)
          PROVE  executed' = executed /\ reconciled \subseteq reconciled'
      BY <2>4, ResolveEffect
    <2>5. ASSUME NEW c \in wire, Execute(c)
          PROVE  executed \subseteq executed' /\ reconciled' = reconciled
      BY <2>5 DEF Execute
    <2>6. CASE UNCHANGED vars  BY <2>6 DEF vars
    <2> QED  BY <2>1, <2>2, <2>3, <2>4, <2>5, <2>6 DEF Next, Loop, Staff, AtWork
  <1> QED  BY <1>2, <1>3

(* A task changes by its own loop working, by being given up or claimed, or *)
(* by its deadline, which changes nothing else of it.                       *)
LEMMA TaskFrame ==
  ASSUME TypeInv, [Next]_vars, NEW v \in Workers
  PROVE  \/ AtWork(v)
         \/ task'[v].phase \in {"down", "idle"}
         \/ task'[v].phase = "lookup" /\ ClaimOrder(v)
         \/ /\ task'[v].phase = task[v].phase /\ task'[v].order = task[v].order
            /\ task'[v].key = task[v].key /\ task'[v].try = task[v].try
  <1> DEFINE Same == /\ task'[v].phase = task[v].phase /\ task'[v].order = task[v].order
                     /\ task'[v].key = task[v].key /\ task'[v].try = task[v].try
  <1> USE DEF dbVars, realmVars, history
  <1>1. ASSUME NEW w \in Workers, AtWork(w), w # v PROVE Same  BY <1>1, AtWorkKeeps
  <1>2. ASSUME NEW w \in Workers,
               \/ DeliveryLoop(w) \/ ReviewOrder(w) \/ FinishOrder(w) \/ Terminate(w)
        PROVE  Same \/ task'[v].phase \in {"down", "idle"}
    <2>1. PICK p \in {"down", "idle"} : Rest(w, p)
      BY <1>2 DEF DeliveryLoop, ReviewOrder, FinishOrder, Terminate
    <2>2. task'[v] = IF v = w THEN Resting(p) ELSE task[v]  BY <2>1, RestEffect
    <2> QED  BY <2>2 DEF Resting
  <1>3. ASSUME NEW w \in Workers, ClaimOrder(w)
        PROVE  Same \/ (task'[v].phase = "lookup" /\ ClaimOrder(v))
    <2>1. CASE w = v
      <3>1. Same \/ task'[w].phase = "lookup"  BY <1>3, <2>1, ClaimEffect
      <3> QED  BY <1>3, <2>1, <3>1
    <2>2. CASE w # v
      <3>1. v \in Workers \ {w}  BY <2>2
      <3>2. task'[v] = task[v]  BY <1>3, <3>1, ClaimEffect
      <3> QED  BY <3>2
    <2> QED  BY <2>1, <2>2
  <1>4. ASSUME NEW w \in Workers, ExpireContext(w) PROVE Same
    BY <1>4 DEF ExpireContext, TypeInv, TypeOK
  <1>5. ASSUME \/ \E o \in Orders : PlaceOrder(o)
               \/ \E c \in wire : Execute(c)
               \/ Staff
               \/ UNCHANGED vars
        PROVE  Same
    BY <1>5 DEF PlaceOrder, Execute, Staff, AdminRetryOrder, AdminRefundOrder,
                AdminResolveOrderStep, vars
  <1> QED  BY <1>1, <1>2, <1>3, <1>4, <1>5 DEF Next, Loop, AtWork

LEMMA AttemptStep ==
  ASSUME TypeInv, Attempt, [Next]_vars
  PROVE  Attempt'
  <1> SUFFICES ASSUME NEW v \in Workers, task'[v].phase \in OnWire
               PROVE  /\ task'[v].try \in 1..attempts'[task'[v].order][task'[v].key]
                      /\ task'[v].phase = "complete"
                           => Cmd(task'[v].order, task'[v].key, task'[v].try) \in executed'
    BY DEF Attempt, OnWire, At, Cmd
  <1>1. CASE /\ task'[v].phase = task[v].phase /\ task'[v].order = task[v].order
             /\ task'[v].key = task[v].key /\ task'[v].try = task[v].try
    <2>1. /\ task[v].order \in Orders /\ task[v].key \in Keys
          /\ attempts[task[v].order][task[v].key] \in Nat
      <3>1. task[v].order \in Orders /\ task[v].key \in Keys
        BY <1>1, Working DEF OnWire, StepPhase
      <3> QED  BY <3>1 DEF TypeInv, TypeOK
    <2>2. /\ task[v].try \in 1..attempts[task[v].order][task[v].key]
          /\ task[v].phase = "complete"
               => Cmd(task[v].order, task[v].key, task[v].try) \in executed
      BY <1>1 DEF Attempt, OnWire, At
    <2>3. /\ attempts'[task[v].order][task[v].key] \in Nat
          /\ attempts'[task[v].order][task[v].key] >= attempts[task[v].order][task[v].key]
          /\ executed \subseteq executed'
      BY <2>1, Monotone
    <2>4. task[v].try \in 1..attempts'[task[v].order][task[v].key]
      BY <2>1, <2>2, <2>3
    <2>5. task[v].phase = "complete"
            => Cmd(task[v].order, task[v].key, task[v].try) \in executed'
      BY <2>2, <2>3
    <2> QED  BY <1>1, <2>4, <2>5
  <1>2. CASE AtWork(v)
    <2> DEFINE o == task[v].order  k == task[v].key
    <2>1. StartStep(v) \/ RunStep(v)
      <3>1. ASSUME \/ LoadPlan(v) \/ InsertStep(v) \/ LoadStep(v) \/ CompleteStep(v) \/ FailStep(v)
            PROVE  \E p \in Phase \ OnWire : \E n, m : GoOn(v, p, n, m)
        BY <3>1 DEF LoadPlan, InsertStep, LoadStep, CompleteStep, FailStep, NextStep, GoTo,
                    OnWire, Phase
      <3>2. ASSUME NEW p \in Phase \ OnWire, NEW n, NEW m, GoOn(v, p, n, m) PROVE FALSE
        BY <3>2 DEF GoOn, TypeInv, TypeOK
      <3> QED  BY <1>2, <3>1, <3>2 DEF AtWork
    <2>2. o \in Orders /\ k \in Keys /\ attempts[o][k] \in Nat
      <3>1. o \in Orders /\ k \in Keys
        BY <2>1, Working DEF StartStep, RunStep, At, StepPhase
      <3> QED  BY <3>1 DEF TypeInv, TypeOK
    <2>3. CASE StartStep(v)
      <3>1. GoOn(v, "run", k, attempts[o][k] + 1) \/ GoTo(v, "review")
        BY <2>3 DEF StartStep
      <3>2. ASSUME GoTo(v, "review") PROVE FALSE
        BY <3>2 DEF GoTo, GoOn, OnWire, TypeInv, TypeOK
      <3>3. GoOn(v, "run", k, attempts[o][k] + 1)  BY <3>1, <3>2
      <3>4. task'[v] = [phase |-> "run", order |-> o, key |-> k,
                        try |-> attempts[o][k] + 1, live |-> task[v].live]
        BY <3>3 DEF GoOn, TypeInv, TypeOK
      <3>5. attempts' = [attempts EXCEPT ![o][k] = attempts[o][k] + 1]
        <4>1. PICK done \in BOOLEAN, ack \in BOOLEAN :
                /\ ack => done
                /\ attempts' = IF done /\ step[o][k] \in Startable
                                 THEN [attempts EXCEPT ![o][k] = attempts[o][k] + 1]
                                 ELSE attempts
                /\ ~(ack /\ step[o][k] \in Startable) => GoTo(v, "review")
          BY <2>3 DEF StartStep, Statement
        <4> QED  BY <4>1, <3>2
      <3>6. attempts'[o][k] = attempts[o][k] + 1  BY <2>2, <3>5 DEF TypeInv, TypeOK
      <3> QED  BY <2>2, <3>4, <3>6
    <2>4. CASE RunStep(v)
      <3>1. attempts' = attempts /\ executed' = executed
        BY <2>4 DEF RunStep, dbVars
      <3>2. \/ GoTo(v, "complete") /\ Cmd(o, k, task[v].try) \in executed
            \/ GoTo(v, "fail")
        BY <2>4 DEF RunStep, Succeeded
      <3>3. /\ task'[v].order = o /\ task'[v].key = k /\ task'[v].try = task[v].try
            /\ task'[v].phase = "complete" => Cmd(o, k, task[v].try) \in executed
        BY <3>2 DEF GoTo, GoOn, TypeInv, TypeOK
      <3>4. task[v].try \in 1..attempts[o][k]
        BY <2>4 DEF RunStep, Attempt, At
      <3> QED  BY <3>1, <3>3, <3>4
    <2> QED  BY <2>1, <2>3, <2>4
  <1> QED  BY <1>1, <1>2, TaskFrame DEF OnWire

LEMMA CompletedStep ==
  ASSUME TypeInv, Attempt, CompletedWasExecuted, [Next]_vars
  PROVE  CompletedWasExecuted'
  <1> SUFFICES ASSUME NEW o \in Orders, NEW k \in Keys,
                      step'[o][k] = "completed", <<o, k>> \notin reconciled'
               PROVE  \E n \in 1..attempts'[o][k] : Cmd(o, k, n) \in executed'
    BY DEF CompletedWasExecuted, Cmd
  <1>1. /\ attempts[o][k] \in Nat /\ attempts'[o][k] \in Nat
        /\ attempts'[o][k] >= attempts[o][k]
        /\ executed \subseteq executed' /\ reconciled \subseteq reconciled'
    BY Monotone DEF TypeInv, TypeOK
  <1>2. SUFFICES \E n \in 1..attempts[o][k] : Cmd(o, k, n) \in executed
    BY <1>1
  <1>3. ASSUME step[o][k] = "completed" PROVE \E n \in 1..attempts[o][k] : Cmd(o, k, n) \in executed
    BY <1>1, <1>3 DEF CompletedWasExecuted
  <1>4. ASSUME NEW w \in Workers, AtWork(w), step[o][k] # "completed"
        PROVE  \E n \in 1..attempts[o][k] : Cmd(o, k, n) \in executed
    <2>1. CompleteStep(w) /\ o = task[w].order /\ k = task[w].key
      BY <1>4, WorkEffect
    <2>2. /\ task[w].try \in 1..attempts[o][k]
          /\ Cmd(o, k, task[w].try) \in executed
      BY <2>1 DEF CompleteStep, Attempt, At
    <2> QED  BY <2>2
  <1>5. ASSUME NEW p \in Orders, NEW j \in Keys, NEW r \in {"pending", "completed"},
               AdminResolveOrderStep(p, j, r)
        PROVE  step[o][k] = "completed"
    BY <1>5, ResolveEffect
  <1>6. CASE UNCHANGED <<step, attempts>>  BY <1>3, <1>6
  <1> QED  BY <1>3, <1>4, <1>5, <1>6, LedgerFrame

(* A step recorded as completed was executed by the realm in one of its     *)
(* attempts, or staff vouched for it.                                       *)
THEOREM CompletedExecuted == Spec => []CompletedWasExecuted
  <1>1. Init => Attempt /\ CompletedWasExecuted
    BY DEF Init, Attempt, CompletedWasExecuted, Resting
  <1>2. TypeInv /\ Attempt /\ CompletedWasExecuted /\ [Next]_vars
          => Attempt' /\ CompletedWasExecuted'
    BY AttemptStep, CompletedStep
  <1> QED  BY TypeInvariant, <1>1, <1>2, PTL DEF Spec

-----------------------------------------------------------------------------
(***************************************************************************)
(* Delivered means fulfilled.                                              *)
(***************************************************************************)

LEMMA DisturbedStays ==
  ASSUME [Next]_vars
  PROVE  disturbed \subseteq disturbed'
  <1> USE DEF history
  <1>1. ASSUME NEW w \in Workers, Loop(w) PROVE disturbed \subseteq disturbed'
    BY <1>1 DEF Loop, LoadPlan, InsertStep, LoadStep, StartStep, RunStep, CompleteStep, FailStep,
                DeliveryLoop, ClaimOrder, ReviewOrder, FinishOrder
  <1>2. ASSUME Staff PROVE disturbed \subseteq disturbed'
    BY <1>2 DEF Staff, AdminRetryOrder, AdminRefundOrder, AdminResolveOrderStep
  <1> QED  BY <1>1, <1>2 DEF Next, PlaceOrder, ExpireContext, Terminate, Execute, vars

(* Nobody else changes the ledger of an order while a loop holds it         *)
(* undisturbed.                                                             *)
LEMMA HeldLedger ==
  ASSUME TypeInv, ExclusiveFulfilment, [Next]_vars,
         NEW w \in Workers, ~AtWork(w), NEW o \in Orders, Holds(w, o), o \notin disturbed',
         NEW k \in Keys
  PROVE  step'[o][k] = step[o][k] /\ attempts'[o][k] = attempts[o][k]
  <1>1. o \notin disturbed  BY DisturbedStays
  <1>2. ASSUME NEW v \in Workers, AtWork(v)
        PROVE  step'[o][k] = step[o][k] /\ attempts'[o][k] = attempts[o][k]
    <2>1. task[v].order # o  BY <1>1, <1>2 DEF ExclusiveFulfilment, Holds
    <2> QED  BY <1>2, <2>1, WorkEffect
  <1>3. ASSUME NEW p \in Orders, NEW j \in Keys, NEW r \in {"pending", "completed"},
               AdminResolveOrderStep(p, j, r)
        PROVE  step'[o][k] = step[o][k] /\ attempts'[o][k] = attempts[o][k]
    <2>1. p # o  BY <1>3, ResolveEffect DEF Held
    <2> QED  BY <1>3, <2>1, ResolveEffect
  <1>4. CASE UNCHANGED <<step, attempts>>  BY <1>4
  <1> QED  BY <1>2, <1>3, <1>4, LedgerFrame

LEMMA NextStepProgress ==
  ASSUME TypeInv, NEW w \in Workers, NEW o \in Orders, o = task[w].order,
         NEW k \in 0..PlanLen[o], NextStep(w, k),
         \A j \in 1..k : step'[o][j] = "completed"
  PROVE  ProgressOf(w)'
  <1>1. PlanLen[o] \in Nat  BY PlanAssumption
  <1>2. CASE k < PlanLen[o]
    <2>1. task'[w] = [phase |-> "insert", order |-> o, key |-> k + 1, try |-> 0,
                      live |-> task[w].live]
      BY <1>2 DEF NextStep, GoOn, TypeInv, TypeOK
    <2>2. (k + 1) - 1 = k  BY <1>1
    <2> QED  BY <2>1, <2>2 DEF ProgressOf, At
  <1>3. CASE ~(k < PlanLen[o])
    <2>1. task'[w] = [phase |-> "finish", order |-> o, key |-> k, try |-> 0,
                      live |-> task[w].live]
      BY <1>3 DEF NextStep, GoOn, TypeInv, TypeOK
    <2>2. k = PlanLen[o]  BY <1>1, <1>3
    <2> QED  BY <2>1, <2>2 DEF ProgressOf, At, StepPhase, PlanOf
  <1> QED  BY <1>2, <1>3

LEMMA ProgressStep ==
  ASSUME TypeInv, ExclusiveFulfilment, Progress, [Next]_vars
  PROVE  Progress'
  <1> SUFFICES ASSUME NEW w \in Workers, task'[w].order \in Orders \ disturbed'
               PROVE  ProgressOf(w)'
    BY DEF Progress, ProgressOf
  <1>1. CASE task'[w].phase \in {"down", "idle", "lookup"}
    BY <1>1 DEF ProgressOf, StepPhase, At
  <1>2. CASE /\ task'[w].phase = task[w].phase /\ task'[w].order = task[w].order
             /\ task'[w].key = task[w].key /\ task'[w].try = task[w].try
             /\ ~AtWork(w)
    <2> DEFINE o == task[w].order  k == task[w].key
    <2>1. o \in Orders \ disturbed  BY <1>2, DisturbedStays
    <2>2. PlanLen[o] \in 0..MaxSteps /\ MaxSteps \in Nat  BY <2>1, PlanAssumption
    <2>3. \A j \in Keys : step'[o][j] = step[o][j] /\ attempts'[o][j] = attempts[o][j]
      BY <1>2, <2>1, HeldLedger DEF Holds
    <2>4. PlanOf(o) \subseteq Keys  BY <2>2 DEF PlanOf, Keys
    <2>5. ProgressOf(w)  BY DEF Progress
    <2>6. CASE task[w].phase \in StepPhase
      <3>1. k \in PlanOf(o) /\ k \in Keys  BY <2>1, <2>6, <2>4 DEF TypeInv, TaskOK
      <3>2. 1..(k - 1) \subseteq Keys  BY <2>2, <3>1 DEF PlanOf, Keys
      <3>3. \A j \in 1..(k - 1) : step'[o][j] = "completed"
        BY <2>1, <2>3, <2>5, <2>6, <3>2 DEF ProgressOf
      <3>4. task[w].phase \in {"run", "complete", "fail"} =>
              step'[o][k] = "executing" /\ task[w].try = attempts'[o][k]
        BY <2>1, <2>3, <2>5, <3>1 DEF ProgressOf
      <3> QED  BY <1>2, <2>6, <3>3, <3>4 DEF ProgressOf, At, StepPhase
    <2>7. CASE task[w].phase \notin StepPhase
      <3>1. At(w, "finish") => \A j \in PlanOf(o) : step'[o][j] = "completed"
        BY <2>1, <2>3, <2>4, <2>5 DEF ProgressOf
      <3> QED  BY <1>2, <2>7, <3>1 DEF ProgressOf, At, StepPhase
    <2> QED  BY <2>6, <2>7
  <1>3. CASE AtWork(w)
    <2> DEFINE o == task[w].order  k == task[w].key
    <2>1. o \in Orders /\ task'[w].order = o /\ disturbed' = disturbed
      BY <1>3, AtWorkKeeps
    <2>2. PlanLen[o] \in 0..MaxSteps /\ MaxSteps \in Nat  BY <2>1, PlanAssumption
    <2>3. ASSUME GoTo(w, "review") PROVE ProgressOf(w)'
      BY <2>3 DEF GoTo, GoOn, ProgressOf, At, StepPhase, TypeInv, TypeOK
    <2>4. CASE LoadPlan(w)
      <3>1. NextStep(w, 0) \/ GoTo(w, "review")  BY <2>4 DEF LoadPlan
      <3>2. 0 \in 0..PlanLen[o] /\ 1..0 = {}  BY <2>2
      <3> QED  BY <2>1, <2>3, <3>1, <3>2, NextStepProgress
    <2>5. CASE ~LoadPlan(w)
      <3>1. k \in PlanOf(o) /\ task[w].phase \in StepPhase
        <4>1. task[w].phase \in StepPhase
          BY <1>3, <2>5 DEF AtWork, InsertStep, LoadStep, StartStep, RunStep, CompleteStep,
                            FailStep, At, StepPhase
        <4> QED  BY <4>1, Working DEF StepPhase
      <3>2. k \in Keys /\ k \in Nat /\ k \in 0..PlanLen[o]  BY <2>2, <3>1 DEF PlanOf, Keys
      <3>3. \A j \in 1..(k - 1) : j \in Keys /\ j # k  BY <2>2, <3>1 DEF PlanOf, Keys
      <3>4. \A j \in 1..(k - 1) : step[o][j] = "completed"
        BY <2>1, <3>1 DEF Progress, ProgressOf
      <3>5. \A j \in 1..(k - 1) : step'[o][j] = "completed"
        BY <1>3, <2>1, <3>3, <3>4, WorkEffect
      <3>6. ASSUME NextStep(w, k), step'[o][k] = "completed" PROVE ProgressOf(w)'
        <4>1. \A j \in 1..k : step'[o][j] = "completed"
          <5>1. \A j \in 1..k : j = k \/ j \in 1..(k - 1)  BY <3>2
          <5> QED  BY <3>5, <3>6, <5>1
        <4> QED  BY <2>1, <3>2, <3>6, <4>1, NextStepProgress
      <3>7. ASSUME NEW p \in {"load", "start"}, GoTo(w, p) PROVE ProgressOf(w)'
        <4>1. task'[w].phase = p /\ task'[w].order = o /\ task'[w].key = k
          BY <3>7 DEF GoTo, GoOn, TypeInv, TypeOK
        <4> QED  BY <3>5, <4>1 DEF ProgressOf, At
      <3>8. CASE InsertStep(w)
        BY <2>3, <3>7, <3>8 DEF InsertStep
      <3>9. CASE LoadStep(w)
        <4>1. step' = step  BY <3>9 DEF LoadStep, dbVars
        <4> QED  BY <2>3, <3>6, <3>7, <3>9, <4>1 DEF LoadStep
      <3>10. CASE StartStep(w)
        <4>1. CASE ~GoTo(w, "review")
          <5>1. PICK done \in BOOLEAN, ack \in BOOLEAN :
                  /\ ack => done
                  /\ MarkStep(o, k, done /\ step[o][k] \in Startable, "executing")
                  /\ attempts' = IF done /\ step[o][k] \in Startable
                                   THEN [attempts EXCEPT ![o][k] = attempts[o][k] + 1]
                                   ELSE attempts
                  /\ IF ack /\ step[o][k] \in Startable
                       THEN GoOn(w, "run", k, attempts[o][k] + 1)
                       ELSE GoTo(w, "review")
            BY <3>10 DEF StartStep, Statement
          <5>2. /\ step' = [step EXCEPT ![o][k] = "executing"]
                /\ attempts' = [attempts EXCEPT ![o][k] = attempts[o][k] + 1]
                /\ GoOn(w, "run", k, attempts[o][k] + 1)
            BY <4>1, <5>1 DEF MarkStep
          <5>3. step'[o][k] = "executing" /\ attempts'[o][k] = attempts[o][k] + 1
            BY <2>1, <3>2, <5>2 DEF TypeInv, TypeOK
          <5>4. task'[w] = [phase |-> "run", order |-> o, key |-> k,
                            try |-> attempts[o][k] + 1, live |-> task[w].live]
            BY <5>2 DEF GoOn, TypeInv, TypeOK
          <5> QED  BY <3>5, <5>3, <5>4 DEF ProgressOf, At
        <4> QED  BY <2>3, <4>1
      <3>11. CASE RunStep(w)
        <4>1. UNCHANGED <<step, attempts>> /\ task[w].phase = "run"
          BY <3>11 DEF RunStep, dbVars, At
        <4>2. PICK p \in {"complete", "fail"} : GoTo(w, p)  BY <3>11 DEF RunStep
        <4>3. /\ task'[w].phase = p /\ task'[w].order = o /\ task'[w].key = k
              /\ task'[w].try = task[w].try
          BY <4>2 DEF GoTo, GoOn, TypeInv, TypeOK
        <4>4. step[o][k] = "executing" /\ task[w].try = attempts[o][k]
          BY <2>1, <4>1 DEF Progress, ProgressOf
        <4> QED  BY <3>5, <4>1, <4>3, <4>4 DEF ProgressOf, At
      <3>12. CASE CompleteStep(w)
        <4>1. step[o][k] = "executing"
          BY <2>1, <3>12 DEF Progress, ProgressOf, CompleteStep, At
        <4>2. CASE ~GoTo(w, "review")
          <5>1. PICK done \in BOOLEAN, ack \in BOOLEAN :
                  /\ ack => done
                  /\ MarkStep(o, k, done /\ step[o][k] = "executing", "completed")
                  /\ IF ack THEN NextStep(w, k) ELSE GoTo(w, "review")
            BY <3>12 DEF CompleteStep, Statement
          <5>2. step' = [step EXCEPT ![o][k] = "completed"] /\ NextStep(w, k)
            BY <4>1, <4>2, <5>1 DEF MarkStep
          <5>3. step'[o][k] = "completed"
            BY <2>1, <3>2, <5>2 DEF TypeInv, TypeOK
          <5> QED  BY <3>6, <5>2, <5>3
        <4> QED  BY <2>3, <4>2
      <3>13. CASE FailStep(w)
        BY <2>3, <3>13 DEF FailStep
      <3> QED  BY <1>3, <2>5, <3>8, <3>9, <3>10, <3>11, <3>12, <3>13 DEF AtWork
    <2> QED  BY <2>4, <2>5
  <1> QED  BY <1>1, <1>2, <1>3, TaskFrame

(* The edges of an order's life cycle.                                      *)
LEMMA StatusFrame ==
  ASSUME TypeInv, [Next]_vars, NEW o \in Orders
  PROVE  \/ status'[o] = status[o]
         \/ /\ status'[o] \in {"pending", "delivering", "review"}
            /\ status[o] \notin {"delivered", "refunded"}
         \/ /\ status'[o] = "delivered" /\ status[o] = "delivering"
            /\ \E w \in Workers : FinishOrder(w) /\ Holds(w, o)
         \/ status'[o] = "refunded" /\ AdminRefundOrder(o)
  <1> DEFINE Open == /\ status'[o] \in {"pending", "delivering", "review"}
                     /\ status[o] \notin {"delivered", "refunded"}
  <1> USE DEF dbVars
  <1>1. ASSUME NEW w \in Workers, AtWork(w) PROVE status'[o] = status[o]  BY <1>1, AtWorkKeeps
  <1>2. ASSUME NEW w \in Workers, DeliveryLoop(w) PROVE status'[o] = status[o] \/ Open
    BY <1>2 DEF DeliveryLoop, Swept
  <1>3. ASSUME NEW w \in Workers, ClaimOrder(w) PROVE status'[o] = status[o] \/ Open
    BY <1>3, ClaimEffect
  <1>4. ASSUME NEW w \in Workers, ReviewOrder(w) PROVE status'[o] = status[o] \/ Open
    BY <1>4 DEF ReviewOrder, MarkOrder, TypeInv, TypeOK
  <1>5. ASSUME NEW w \in Workers, FinishOrder(w)
        PROVE  \/ status'[o] = status[o]
               \/ status'[o] = "delivered" /\ status[o] = "delivering" /\ Holds(w, o)
    BY <1>5 DEF FinishOrder, MarkOrder, Holds, TypeInv, TypeOK
  <1>6. ASSUME NEW p \in Orders, PlaceOrder(p) \/ AdminRetryOrder(p)
        PROVE  status'[o] = status[o] \/ Open
    BY <1>6 DEF PlaceOrder, AdminRetryOrder, TypeInv, TypeOK
  <1>7. ASSUME NEW p \in Orders, AdminRefundOrder(p)
        PROVE  \/ status'[o] = status[o]
               \/ status'[o] = "refunded" /\ AdminRefundOrder(o)
    <2>1. CASE p = o  BY <1>7, <2>1 DEF AdminRefundOrder, TypeInv, TypeOK
    <2>2. CASE p # o  BY <1>7, <2>2 DEF AdminRefundOrder, TypeInv, TypeOK
    <2> QED  BY <2>1, <2>2
  <1>8. ASSUME NEW p \in Orders, NEW k \in Keys, NEW r \in {"pending", "completed"},
               AdminResolveOrderStep(p, k, r)
        PROVE  status'[o] = status[o] \/ Open
    BY <1>8, ResolveEffect
  <1>9. ASSUME \/ \E w \in Workers : ExpireContext(w) \/ Terminate(w)
               \/ \E c \in wire : Execute(c)
               \/ UNCHANGED vars
        PROVE  status'[o] = status[o]
    BY <1>9 DEF ExpireContext, Terminate, Execute, vars
  <1> QED  BY <1>1, <1>2, <1>3, <1>4, <1>5, <1>6, <1>7, <1>8, <1>9 DEF Next, Loop, Staff, AtWork

(* A final order that was not disturbed keeps its ledger.                   *)
LEMMA FinalLedger ==
  ASSUME TypeInv, ExclusiveFulfilment, [Next]_vars, NEW o \in Orders \ disturbed,
         status[o] \in {"delivered", "refunded"}
  PROVE  status'[o] = status[o] /\ \A k \in Keys : step'[o][k] = step[o][k]
  <1>1. ~\E w \in Workers : Holds(w, o)  BY DEF ExclusiveFulfilment
  <1>2. status'[o] = status[o]  BY <1>1, StatusFrame DEF AdminRefundOrder, Refundable
  <1>3. ASSUME NEW w \in Workers, AtWork(w), NEW k \in Keys PROVE step'[o][k] = step[o][k]
    BY <1>1, <1>3, WorkEffect DEF Holds
  <1>4. ASSUME NEW p \in Orders, NEW j \in Keys, NEW r \in {"pending", "completed"},
               AdminResolveOrderStep(p, j, r), NEW k \in Keys
        PROVE  step'[o][k] = step[o][k]
    <2>1. p # o  BY <1>4, ResolveEffect
    <2> QED  BY <1>4, <2>1, ResolveEffect
  <1> QED  BY <1>2, <1>3, <1>4, LedgerFrame

LEMMA DeliveredStep ==
  ASSUME TypeInv, ExclusiveFulfilment, Progress, DeliveredFulfilled, [Next]_vars
  PROVE  DeliveredFulfilled'
  <1> SUFFICES ASSUME NEW o \in Orders, o \notin disturbed', status'[o] = "delivered"
               PROVE  \A k \in PlanOf(o) : step'[o][k] = "completed"
    BY DEF DeliveredFulfilled, PlanOf
  <1>1. o \notin disturbed  BY DisturbedStays
  <1>2. PlanOf(o) \subseteq Keys  BY PlanAssumption DEF PlanOf, Keys
  <1>3. CASE status[o] = "delivered"
    BY <1>1, <1>2, <1>3, FinalLedger DEF DeliveredFulfilled
  <1>4. CASE status[o] # "delivered"
    <2>1. PICK w \in Workers : FinishOrder(w) /\ Holds(w, o)
      BY <1>4, StatusFrame
    <2>2. \A k \in PlanOf(o) : step[o][k] = "completed"
      BY <1>1, <2>1 DEF Progress, ProgressOf, FinishOrder, Holds, At
    <2>3. step' = step  BY <2>1 DEF FinishOrder
    <2> QED  BY <2>2, <2>3
  <1> QED  BY <1>3, <1>4

(* A delivered order has every step of its plan completed, however often it *)
(* failed, was requeued and was claimed by another process before.          *)
THEOREM Delivered == Spec => []DeliveredFulfilled
  <1>1. Init => Progress /\ DeliveredFulfilled
    BY NoOrderAssumption DEF Init, Progress, ProgressOf, DeliveredFulfilled, Resting
  <1>2. TypeInv /\ ExclusiveFulfilment /\ Progress /\ DeliveredFulfilled /\ [Next]_vars
          => Progress' /\ DeliveredFulfilled'
    BY ProgressStep, DeliveredStep
  <1> QED  BY TypeInvariant, Exclusive, <1>1, <1>2, PTL DEF Spec

LEMMA RefundedStep ==
  ASSUME TypeInv, ExclusiveFulfilment, ExclusiveFulfilment', RefundedUnfulfilled, [Next]_vars
  PROVE  RefundedUnfulfilled'
  <1> SUFFICES ASSUME NEW o \in Orders, o \notin disturbed', status'[o] = "refunded"
               PROVE  ~Held(o)' /\ \A k \in Keys : step'[o][k] # "completed"
    BY DEF RefundedUnfulfilled, Held, Holds
  <1>1. o \notin disturbed  BY DisturbedStays
  <1>2. ~Held(o)'  BY DEF ExclusiveFulfilment, Held, Holds
  <1>3. CASE status[o] = "refunded"
    BY <1>1, <1>2, <1>3, FinalLedger DEF RefundedUnfulfilled
  <1>4. CASE status[o] # "refunded"
    <2>1. AdminRefundOrder(o)  BY <1>4, StatusFrame
    <2> QED  BY <1>2, <2>1 DEF AdminRefundOrder, Refundable
  <1> QED  BY <1>3, <1>4

(* A refunded order has nothing fulfilled and nobody fulfilling it.         *)
THEOREM Refunded == Spec => []RefundedUnfulfilled
  <1>1. Init => RefundedUnfulfilled
    BY NoOrderAssumption DEF Init, RefundedUnfulfilled, Held, Holds, Resting
  <1>2. TypeInv /\ ExclusiveFulfilment /\ ExclusiveFulfilment' /\ RefundedUnfulfilled
          /\ [Next]_vars => RefundedUnfulfilled'
    BY RefundedStep
  <1> QED  BY TypeInvariant, Exclusive, <1>1, <1>2, PTL DEF Spec

(* Once delivered or refunded an order keeps its status, and its ledger too *)
(* if it was not taken from a loop before.                                  *)
THEOREM FinalFrozen == Spec => FinalIsFrozen
  <1>1. ASSUME TypeInv, TypeInv', ExclusiveFulfilment, [Next]_vars, NEW o \in Orders,
               status[o] \in {"delivered", "refunded"}
        PROVE  /\ status'[o] = status[o]
               /\ o \notin disturbed => step'[o] = step[o]
    <2>1. status'[o] = status[o]
      BY <1>1, StatusFrame DEF AdminRefundOrder, Refundable
    <2>2. o \notin disturbed => \A k \in Keys : step'[o][k] = step[o][k]
      BY <1>1, FinalLedger
    <2>3. step[o] \in [Keys -> StepStatus] /\ step'[o] \in [Keys -> StepStatus]
      BY <1>1 DEF TypeInv, TypeOK
    <2> QED  BY <2>1, <2>2, <2>3
  <1>2. TypeInv /\ TypeInv' /\ ExclusiveFulfilment /\ [Next]_vars =>
          [\A o \in Orders : status[o] \in {"delivered", "refunded"} =>
             /\ status'[o] = status[o]
             /\ o \notin disturbed => step'[o] = step[o]]_vars
    BY <1>1
  <1> QED  BY TypeInvariant, Exclusive, <1>2, PTL DEF Spec, FinalIsFrozen

LEMMA NotifiedStep ==
  ASSUME TypeInv, ExclusiveFulfilment, NotifiedDelivered, [Next]_vars
  PROVE  NotifiedDelivered'
  <1> USE DEF dbVars
  <1> SUFFICES ASSUME NEW o \in notified', o \in Orders, o \notin disturbed'
               PROVE  status'[o] = "delivered"
    <2>1. TypeInv'  BY TypeLoop, TypeOther DEF Next
    <2> QED  BY <2>1 DEF NotifiedDelivered, TypeInv, TypeOK
  <1>1. o \notin disturbed  BY DisturbedStays
  <1>2. ASSUME o \in notified PROVE status'[o] = "delivered"
    BY <1>1, <1>2, FinalLedger DEF NotifiedDelivered
  <1>3. ASSUME NEW w \in Workers, FinishOrder(w), o \notin notified PROVE status'[o] = "delivered"
    <2>1. PICK done \in BOOLEAN, ack \in BOOLEAN :
            /\ ack => done
            /\ MarkOrder(task[w].order, done /\ status[task[w].order] = "delivering", "delivered")
            /\ notified' = Told(task[w].order, ack)
      BY <1>3 DEF FinishOrder, Statement
    <2>2. ack /\ o = task[w].order  BY <1>3, <2>1 DEF Told
    <2>3. status[o] = "delivering"  BY <1>1, <2>2 DEF ExclusiveFulfilment, Holds
    <2> QED  BY <2>1, <2>2, <2>3 DEF MarkOrder, TypeInv, TypeOK
  <1>4. ASSUME \A w \in Workers : ~FinishOrder(w) PROVE notified' = notified
    <2>1. ASSUME NEW w \in Workers, AtWork(w) PROVE notified' = notified  BY <2>1, AtWorkKeeps
    <2>2. ASSUME NEW w \in Workers,
                 \/ DeliveryLoop(w) \/ ClaimOrder(w) \/ ReviewOrder(w)
                 \/ ExpireContext(w) \/ Terminate(w)
          PROVE  notified' = notified
      BY <2>2 DEF DeliveryLoop, ClaimOrder, ReviewOrder, ExpireContext, Terminate
    <2>3. ASSUME \/ \E p \in Orders : PlaceOrder(p)
                 \/ \E c \in wire : Execute(c)
                 \/ Staff
                 \/ UNCHANGED vars
          PROVE  notified' = notified
      BY <2>3 DEF PlaceOrder, Execute, Staff, AdminRetryOrder, AdminRefundOrder,
                  AdminResolveOrderStep, vars
    <2> QED  BY <1>4, <2>1, <2>2, <2>3 DEF Next, Loop, AtWork
  <1> QED  BY <1>2, <1>3, <1>4

(* The player is told about delivered orders only.                          *)
THEOREM Notified == Spec => []NotifiedDelivered
  <1>1. Init => NotifiedDelivered  BY DEF Init, NotifiedDelivered
  <1>2. TypeInv /\ ExclusiveFulfilment /\ NotifiedDelivered /\ [Next]_vars => NotifiedDelivered'
    BY NotifiedStep
  <1> QED  BY TypeInvariant, Exclusive, <1>1, <1>2, PTL DEF Spec

(* The four of them: what the portal says of an order is true at once.      *)
THEOREM Outcomes == Spec => []OutcomesTrue
  BY Delivered, CompletedExecuted, Refunded, Notified, PTL DEF OutcomesTrue

-----------------------------------------------------------------------------
(***************************************************************************)
(* No attempt is replayed blindly.                                         *)
(***************************************************************************)
LEMMA GivenUpStays ==
  ASSUME [Next]_vars
  PROVE  givenUp \subseteq givenUp'
  <1> USE DEF history
  <1>1. ASSUME NEW w \in Workers, Loop(w) PROVE givenUp \subseteq givenUp'
    BY <1>1 DEF Loop, LoadPlan, InsertStep, LoadStep, StartStep, RunStep, CompleteStep, FailStep,
                DeliveryLoop, ClaimOrder, ReviewOrder, FinishOrder
  <1>2. ASSUME Staff PROVE givenUp \subseteq givenUp'
    BY <1>2 DEF Staff, AdminRetryOrder, AdminRefundOrder, AdminResolveOrderStep
  <1> QED  BY <1>1, <1>2 DEF Next, PlaceOrder, ExpireContext, Terminate, Execute, vars

LEMMA ReplayStep ==
  ASSUME TypeInv, ExclusiveFulfilment, Progress, LedgerOK, NoBlindReplay, [Next]_vars
  PROVE  NoBlindReplay'
  <1> SUFFICES ASSUME NEW o \in Orders, o \notin disturbed', NEW k \in Keys,
                      NEW n \in 1..attempts'[o][k],
                      n < attempts'[o][k] \/ step'[o][k] \in {"pending", "failed"}
               PROVE  Cmd(o, k, n) \in givenUp'
    BY DEF NoBlindReplay, Cmd
  <1>1. o \notin disturbed /\ givenUp \subseteq givenUp'  BY DisturbedStays, GivenUpStays
  <1>2. attempts[o][k] \in Nat /\ attempts'[o][k] \in Nat  BY Monotone DEF TypeInv, TypeOK
  <1>3. \A m \in 1..attempts[o][k] :
          m < attempts[o][k] \/ step[o][k] \in {"pending", "failed"} => Cmd(o, k, m) \in givenUp
    BY <1>1 DEF NoBlindReplay
  <1>4. CASE step'[o][k] = step[o][k] /\ attempts'[o][k] = attempts[o][k]
    BY <1>1, <1>3, <1>4
  <1>5. ASSUME NEW w \in Workers, AtWork(w),
               ~(step'[o][k] = step[o][k] /\ attempts'[o][k] = attempts[o][k])
        PROVE  Cmd(o, k, n) \in givenUp'
    <2>1. o = task[w].order /\ k = task[w].key  BY <1>5, WorkEffect
    <2>2. CASE step[o][k] = "absent"
      <3>1. attempts[o][k] = 0  BY <2>2 DEF LedgerOK
      <3>2. attempts'[o][k] = attempts[o][k]  BY <1>5, <2>1, <2>2, WorkEffect
      <3> QED  BY <1>2, <3>1, <3>2
    <2>3. CASE step[o][k] \in {"pending", "failed"}
      <3>1. step'[o][k] = "executing" /\ attempts'[o][k] = attempts[o][k] + 1
        BY <1>5, <2>1, <2>3, WorkEffect
      <3>2. n \in 1..attempts[o][k]  BY <1>2, <3>1
      <3> QED  BY <1>1, <1>3, <2>3, <3>2
    <2>4. CASE step[o][k] = "executing"
      <3>1. /\ attempts'[o][k] = attempts[o][k]
            /\ \/ step'[o][k] = "completed"
               \/ step'[o][k] = "failed" /\ FailStep(w)
        BY <1>5, <2>1, <2>4, WorkEffect
      <3>2. CASE n < attempts[o][k]  BY <1>1, <1>2, <1>3, <3>1, <3>2
      <3>3. CASE ~(n < attempts[o][k])
        <4>1. n = attempts[o][k] /\ FailStep(w)  BY <1>2, <3>1, <3>3
        <4>2. task[w].try = attempts[o][k]
          BY <1>1, <2>1, <4>1 DEF Progress, ProgressOf, FailStep, At
        <4>3. step' # step  BY <2>4, <3>1, <4>1, <3>3
        <4>4. givenUp' = givenUp \cup {Cmd(o, k, task[w].try)}
          BY <2>1, <4>1, <4>3 DEF FailStep, MarkStep
        <4> QED  BY <4>1, <4>2, <4>4
      <3> QED  BY <3>2, <3>3
    <2>5. CASE step[o][k] = "completed"  BY <1>5, <2>1, <2>5, WorkEffect
    <2> QED  BY <2>2, <2>3, <2>4, <2>5 DEF TypeInv, TypeOK, StepStatus
  <1>6. ASSUME NEW p \in Orders, NEW j \in Keys, NEW r \in {"pending", "completed"},
               AdminResolveOrderStep(p, j, r),
               ~(step'[o][k] = step[o][k] /\ attempts'[o][k] = attempts[o][k])
        PROVE  Cmd(o, k, n) \in givenUp'
    <2>1. p = o /\ j = k /\ attempts'[o][k] = attempts[o][k]
          /\ givenUp' = givenUp \cup {Cmd(o, k, attempts[o][k])}
      BY <1>6, ResolveEffect
    <2>2. CASE n < attempts[o][k]  BY <1>1, <1>2, <1>3, <2>1, <2>2
    <2>3. CASE ~(n < attempts[o][k])
      <3>1. n = attempts[o][k]  BY <1>2, <2>1, <2>3
      <3> QED  BY <2>1, <3>1
    <2> QED  BY <2>2, <2>3
  <1>7. CASE UNCHANGED <<step, attempts>>  BY <1>4, <1>7
  <1> QED  BY <1>4, <1>5, <1>6, <1>7, LedgerFrame

(* However often an order is retried, an attempt is started only when all   *)
(* earlier attempts at the step were recorded as failed or reconciled.      *)
THEOREM NoReplay == Spec => []NoBlindReplay
  <1>1. Init => Progress /\ NoBlindReplay
    BY NoOrderAssumption DEF Init, Progress, ProgressOf, NoBlindReplay, Resting
  <1>2. TypeInv /\ ExclusiveFulfilment /\ LedgerOK /\ Progress /\ NoBlindReplay /\ [Next]_vars
          => Progress' /\ NoBlindReplay'
    BY ProgressStep, ReplayStep
  <1> QED  BY TypeInvariant, Exclusive, Ledger, <1>1, <1>2, PTL DEF Spec

-----------------------------------------------------------------------------
(***************************************************************************)
(* Without a requeue every step is attempted at most once.                 *)
(***************************************************************************)
LEMMA RequeuedStays ==
  ASSUME [Next]_vars
  PROVE  requeued \subseteq requeued'
  <1> USE DEF history
  <1>1. ASSUME NEW w \in Workers, Loop(w) PROVE requeued' = requeued
    BY <1>1 DEF Loop, LoadPlan, InsertStep, LoadStep, StartStep, RunStep, CompleteStep, FailStep,
                DeliveryLoop, ClaimOrder, ReviewOrder, FinishOrder
  <1>2. ASSUME Staff PROVE requeued \subseteq requeued'
    BY <1>2 DEF Staff, AdminRetryOrder, AdminRefundOrder, AdminResolveOrderStep
  <1> QED  BY <1>1, <1>2 DEF Next, PlaceOrder, ExpireContext, Terminate, Execute, vars

(* A loop gets hold of an order only by claiming it from the queue.         *)
LEMMA HolderFrame ==
  ASSUME TypeInv, [Next]_vars, NEW v \in Workers, NEW o \in Orders, Holds(v, o)'
  PROVE  \/ Holds(v, o)
         \/ /\ status[o] = "pending" /\ status'[o] = "delivering"
            /\ task'[v].phase = "lookup" /\ ClaimOrder(v)
            /\ attempts' = attempts
            /\ \A u \in Workers : u # v => task'[u] = task[u]
  <1> USE DEF Holds
  <1>1. CASE AtWork(v)  BY <1>1, AtWorkKeeps
  <1>2. CASE task'[v].phase \in {"down", "idle"}
    <2>1. TypeInv'  BY TypeLoop, TypeOther DEF Next
    <2> QED  BY <1>2, <2>1, NoOrderAssumption DEF TypeInv, TaskOK
  <1>3. CASE task'[v].phase = "lookup" /\ ClaimOrder(v)
    <2>1. PICK p \in Orders :
            /\ status[p] = "pending"
            /\ \A q \in Orders : status'[q] = IF q = p THEN "delivering" ELSE status[q]
            /\ \A u \in Workers \ {v} : task'[u] = task[u]
            /\ task[v].order = NoOrder
            /\ \/ task'[v] = task[v]
               \/ task'[v].order = p /\ task'[v].phase = "lookup"
            /\ UNCHANGED <<step, attempts, notified, executed, givenUp, reconciled, requeued, disturbed>>
      BY <1>3, ClaimEffect
    <2>2. CASE task'[v] = task[v]  BY <2>2
    <2>3. CASE task'[v].order = p
      <3>1. p = o  BY <2>3
      <3>2. \A u \in Workers : u # v => task'[u] = task[u]  BY <2>1
      <3> QED  BY <1>3, <2>1, <3>1, <3>2
    <2> QED  BY <2>1, <2>2, <2>3
  <1>4. CASE task'[v].order = task[v].order  BY <1>4
  <1> QED  BY <1>1, <1>2, <1>3, <1>4, TaskFrame

(* Only placing and requeueing make an order pending.                       *)
LEMMA PendingFrame ==
  ASSUME TypeInv, [Next]_vars, NEW o \in Orders, o \notin requeued',
         status'[o] \in {"absent", "pending"}
  PROVE  status[o] \in {"absent", "pending"}
  <1> USE DEF dbVars
  <1>1. ASSUME NEW w \in Workers, AtWork(w) PROVE status'[o] = status[o]  BY <1>1, AtWorkKeeps
  <1>2. ASSUME NEW w \in Workers, DeliveryLoop(w) PROVE status'[o] = status[o]
    BY <1>2 DEF DeliveryLoop, Swept
  <1>3. ASSUME NEW w \in Workers, ClaimOrder(w) PROVE status'[o] = status[o]
    BY <1>3, ClaimEffect
  <1>4. ASSUME NEW w \in Workers, ReviewOrder(w) \/ FinishOrder(w) PROVE status'[o] = status[o]
    BY <1>4 DEF ReviewOrder, FinishOrder, MarkOrder, TypeInv, TypeOK
  <1>5. ASSUME NEW p \in Orders, PlaceOrder(p) \/ AdminRefundOrder(p)
        PROVE  status'[o] = status[o] \/ status[o] = "absent"
    BY <1>5 DEF PlaceOrder, AdminRefundOrder, TypeInv, TypeOK
  <1>6. ASSUME NEW p \in Orders, AdminRetryOrder(p) PROVE status'[o] = status[o]
    BY <1>6 DEF AdminRetryOrder, TypeInv, TypeOK
  <1>7. ASSUME NEW p \in Orders, NEW k \in Keys, NEW r \in {"pending", "completed"},
               AdminResolveOrderStep(p, k, r)
        PROVE  status'[o] = status[o]
    BY <1>7, ResolveEffect
  <1>8. ASSUME \/ \E w \in Workers : ExpireContext(w) \/ Terminate(w)
               \/ \E c \in wire : Execute(c)
               \/ UNCHANGED vars
        PROVE  status'[o] = status[o]
    BY <1>8 DEF ExpireContext, Terminate, Execute, vars
  <1> QED  BY <1>1, <1>2, <1>3, <1>4, <1>5, <1>6, <1>7, <1>8 DEF Next, Loop, Staff, AtWork

(* A working loop moves on without getting behind what it has attempted.    *)
LEMMA AheadStep ==
  ASSUME TypeInv, NEW w \in Workers, Ahead(w), AtWork(w)
  PROVE  Ahead(w)'
  <1> DEFINE o == task[w].order  k == task[w].key
  <1>1. o \in Orders /\ k \in Keys \cup {0} /\ k \in Nat /\ Keys \subseteq Nat
    <2>1. o \in Orders  BY AtWorkKeeps
    <2>2. k \in Keys \cup {0}  BY DEF TypeInv, TypeOK, Task
    <2>3. Keys \subseteq Nat  BY PlanAssumption DEF Keys
    <2>4. k \in Nat  BY <2>2, PlanAssumption DEF Keys
    <2> QED  BY <2>1, <2>2, <2>3, <2>4, Zenon
  <1>2. ASSUME GoTo(w, "review") PROVE Ahead(w)'
    BY <1>2 DEF GoTo, GoOn, Ahead, TypeInv, TypeOK
  <1>3. ASSUME NextStep(w, k), attempts' = attempts, \A j \in Keys : j > k => attempts[o][j] = 0
        PROVE  Ahead(w)'
    <2>1. \/ task'[w] = [phase |-> "insert", order |-> o, key |-> k + 1, try |-> 0,
                         live |-> task[w].live]
          \/ task'[w] = [phase |-> "finish", order |-> o, key |-> k, try |-> 0,
                         live |-> task[w].live]
      BY <1>3 DEF NextStep, GoOn, TypeInv, TypeOK
    <2>2. \A j \in Keys : j >= k + 1 => j > k  BY <1>1
    <2> QED  BY <1>3, <2>1, <2>2 DEF Ahead
  <1>4. ASSUME NEW p \in Phase, GoTo(w, p), attempts' = attempts,
               \/ p \in {"load", "start"} /\ task[w].phase \in {"insert", "load"}
               \/ p \in {"complete", "fail"} /\ task[w].phase = "run"
        PROVE  Ahead(w)'
    <2>1. task'[w].phase = p /\ task'[w].order = o /\ task'[w].key = k
      BY <1>4 DEF GoTo, GoOn, TypeInv, TypeOK
    <2> QED  BY <1>4, <2>1 DEF Ahead
  <1> USE DEF dbVars
  <1>5. CASE LoadPlan(w)
    <2>1. task[w].phase = "lookup" /\ k = 0 /\ attempts' = attempts
      BY <1>5 DEF LoadPlan, At, TypeInv, TaskOK
    <2>2. \A j \in Keys : j > k => attempts[o][j] = 0
      <3>1. \A j \in Keys : j >= k => attempts[o][j] = 0  BY <2>1 DEF Ahead
      <3>2. \A i, j \in Nat : j > i => j >= i  OBVIOUS
      <3>3. \A j \in Keys : j > k => j >= k  BY <1>1, <3>2
      <3> QED  BY <3>1, <3>3
    <2>3. NextStep(w, k) \/ GoTo(w, "review")  BY <1>5, <2>1 DEF LoadPlan
    <2> QED  BY <1>2, <1>3, <2>1, <2>2, <2>3
  <1>6. CASE InsertStep(w)
    <2>1. /\ task[w].phase = "insert" /\ attempts' = attempts
          /\ GoTo(w, "load") \/ GoTo(w, "review")
      BY <1>6 DEF InsertStep, At
    <2> QED  BY <1>2, <1>4, <2>1 DEF Phase
  <1>7. CASE LoadStep(w)
    <2>1. task[w].phase = "load" /\ attempts' = attempts  BY <1>7 DEF LoadStep, At
    <2>2. \A j \in Keys : j > k => attempts[o][j] = 0
      <3>1. \A j \in Keys : j >= k => attempts[o][j] = 0  BY <2>1 DEF Ahead
      <3>2. \A i, j \in Nat : j > i => j >= i  OBVIOUS
      <3>3. \A j \in Keys : j > k => j >= k  BY <1>1, <3>2
      <3> QED  BY <3>1, <3>3
    <2>3. NextStep(w, k) \/ GoTo(w, "start") \/ GoTo(w, "review")  BY <1>7 DEF LoadStep
    <2> QED  BY <1>2, <1>3, <1>4, <2>1, <2>2, <2>3 DEF Phase
  <1>8. CASE StartStep(w)
    <2>1. task[w].phase = "start" /\ k \in Keys
      BY <1>8, Working DEF StartStep, At, StepPhase
    <2>2. \A j \in Keys : j > k => attempts[o][j] = 0
      <3>1. \A j \in Keys : j >= k => attempts[o][j] = 0  BY <2>1 DEF Ahead
      <3>2. \A i, j \in Nat : j > i => j >= i  OBVIOUS
      <3>3. \A j \in Keys : j > k => j >= k  BY <1>1, <3>2
      <3> QED  BY <3>1, <3>3
    <2>3. \A j \in Keys : j > k => attempts'[o][j] = attempts[o][j]
      BY <1>1, <2>1, WorkEffect
    <2>4. GoOn(w, "run", k, attempts[o][k] + 1) \/ GoTo(w, "review")  BY <1>8 DEF StartStep
    <2>5. ASSUME GoOn(w, "run", k, attempts[o][k] + 1) PROVE Ahead(w)'
      <3>1. task'[w].phase = "run" /\ task'[w].order = o /\ task'[w].key = k
        BY <2>5 DEF GoOn, TypeInv, TypeOK
      <3> QED  BY <2>2, <2>3, <3>1 DEF Ahead
    <2> QED  BY <1>2, <2>4, <2>5
  <1>9. CASE RunStep(w)
    <2>1. /\ task[w].phase = "run" /\ attempts' = attempts
          /\ GoTo(w, "complete") \/ GoTo(w, "fail")
      BY <1>9 DEF RunStep, At
    <2> QED  BY <1>4, <2>1 DEF Phase
  <1>10. CASE CompleteStep(w)
    <2>1. task[w].phase = "complete" /\ attempts' = attempts  BY <1>10 DEF CompleteStep, At
    <2>2. \A j \in Keys : j > k => attempts[o][j] = 0  BY <2>1 DEF Ahead
    <2>3. NextStep(w, k) \/ GoTo(w, "review")  BY <1>10 DEF CompleteStep
    <2> QED  BY <1>2, <1>3, <2>1, <2>2, <2>3
  <1>11. CASE FailStep(w)  BY <1>2, <1>11 DEF FailStep
  <1> QED  BY <1>5, <1>6, <1>7, <1>8, <1>9, <1>10, <1>11 DEF AtWork

LEMMA FirstClaimStep ==
  ASSUME TypeInv, FirstClaim, [Next]_vars
  PROVE  FirstClaim'
  <1> SUFFICES ASSUME NEW o \in Orders, o \notin requeued'
               PROVE  /\ status'[o] \in {"absent", "pending"} =>
                           ~Held(o)' /\ \A k \in Keys : attempts'[o][k] = 0
                      /\ \A w \in Workers : Holds(w, o)' =>
                           Ahead(w)' /\ \A v \in Workers : Holds(v, o)' => v = w
    BY DEF FirstClaim, Held, Holds, Ahead
  <1>1. o \notin requeued  BY RequeuedStays
  <1>2. ASSUME NEW k \in Keys, \A w \in Workers : AtWork(w) => task[w].order # o
        PROVE  attempts'[o][k] = attempts[o][k]
    <2>1. ASSUME NEW w \in Workers, AtWork(w) PROVE attempts'[o][k] = attempts[o][k]
      BY <1>2, <2>1, WorkEffect
    <2>2. ASSUME NEW p \in Orders, NEW j \in Keys, NEW r \in {"pending", "completed"},
                 AdminResolveOrderStep(p, j, r)
          PROVE  attempts'[o][k] = attempts[o][k]
      BY <2>2, ResolveEffect
    <2>3. CASE UNCHANGED <<step, attempts>>  BY <2>3
    <2> QED  BY <2>1, <2>2, <2>3, LedgerFrame
  <1>3. ASSUME status'[o] \in {"absent", "pending"}
        PROVE  ~Held(o)' /\ \A k \in Keys : attempts'[o][k] = 0
    <2>1. ~Held(o) /\ \A k \in Keys : attempts[o][k] = 0
      BY <1>1, <1>3, PendingFrame DEF FirstClaim
    <2>2. ~Held(o)'  BY <1>3, <2>1, HolderFrame DEF Held
    <2> QED  BY <1>2, <2>1, <2>2 DEF Held, Holds
  <1>4. ASSUME NEW w \in Workers, Holds(w, o)', NEW v \in Workers, Holds(v, o)' PROVE v = w
    <2>1. CASE Holds(w, o) /\ Holds(v, o)  BY <1>1, <2>1 DEF FirstClaim
    <2>2. ASSUME status[o] = "pending" PROVE ~Holds(w, o) /\ ~Holds(v, o)
      BY <1>1, <2>2 DEF FirstClaim, Held
    <2> QED  BY <1>4, <2>1, <2>2, HolderFrame DEF Holds
  <1>5. ASSUME NEW w \in Workers, Holds(w, o)' PROVE Ahead(w)'
    <2>1. CASE ~Holds(w, o)
      <3>1. status[o] = "pending" /\ attempts' = attempts /\ task'[w].phase = "lookup"
        BY <1>5, <2>1, HolderFrame
      <3>2. \A j \in Keys : attempts[o][j] = 0  BY <1>1, <3>1 DEF FirstClaim
      <3> QED  BY <1>5, <3>1, <3>2 DEF Ahead, Holds
    <2>2. CASE Holds(w, o)
      <3>1. Ahead(w) /\ \A v \in Workers : Holds(v, o) => v = w
        BY <1>1, <2>2 DEF FirstClaim
      <3>2. CASE AtWork(w)  BY <3>1, <3>2, AheadStep
      <3>3. CASE task'[w].phase \in {"down", "idle"}  BY <3>3 DEF Ahead
      <3>4. CASE ClaimOrder(w)
        BY <2>2, <3>4, ClaimEffect, NoOrderAssumption DEF Holds
      <3>5. CASE /\ task'[w].phase = task[w].phase /\ task'[w].order = task[w].order
                 /\ task'[w].key = task[w].key /\ task'[w].try = task[w].try
                 /\ ~AtWork(w)
        <4>1. \A k \in Keys : attempts'[o][k] = attempts[o][k]
          BY <1>2, <3>1, <3>5 DEF Holds
        <4> QED  BY <2>2, <3>1, <3>5, <4>1 DEF Ahead, Holds
      <3> QED  BY <3>2, <3>3, <3>4, <3>5, TaskFrame
    <2> QED  BY <2>1, <2>2
  <1> QED  BY <1>3, <1>4, <1>5

LEMMA AtMostOnceStep ==
  ASSUME TypeInv, FirstClaim, AutomaticAtMostOnce, [Next]_vars
  PROVE  AutomaticAtMostOnce'
  <1> SUFFICES ASSUME NEW o \in Orders, o \notin requeued', NEW k \in Keys
               PROVE  attempts'[o][k] <= 1
    BY DEF AutomaticAtMostOnce
  <1>1. o \notin requeued /\ attempts[o][k] <= 1 /\ attempts[o][k] \in Nat
    BY RequeuedStays DEF AutomaticAtMostOnce, TypeInv, TypeOK
  <1>2. ASSUME NEW w \in Workers, AtWork(w), attempts'[o][k] # attempts[o][k]
        PROVE  attempts'[o][k] <= 1
    <2>1. /\ StartStep(w) /\ o = task[w].order /\ k = task[w].key
          /\ attempts'[o][k] = attempts[o][k] + 1
      BY <1>2, WorkEffect
    <2>2. Ahead(w)  BY <1>1, <2>1 DEF FirstClaim, Holds
    <2>3. k >= k  BY PlanAssumption DEF Keys
    <2>4. attempts[o][k] = 0  BY <2>1, <2>2, <2>3 DEF Ahead, StartStep, At
    <2> QED  BY <2>1, <2>4
  <1>3. ASSUME NEW p \in Orders, NEW j \in Keys, NEW r \in {"pending", "completed"},
               AdminResolveOrderStep(p, j, r)
        PROVE  attempts'[o][k] = attempts[o][k]
    BY <1>3, ResolveEffect
  <1>4. CASE UNCHANGED <<step, attempts>>  BY <1>1, <1>4
  <1> QED  BY <1>1, <1>2, <1>3, <1>4, LedgerFrame

(* Crashes, expired deadlines, lost acknowledgements and overlapping        *)
(* processes never make the portal start a step a second time by itself.    *)
THEOREM AtMostOnce == Spec => []AutomaticAtMostOnce
  <1>1. Init => FirstClaim /\ AutomaticAtMostOnce
    BY NoOrderAssumption
    DEF Init, FirstClaim, AutomaticAtMostOnce, Held, Holds, Ahead, Resting
  <1>2. TypeInv /\ FirstClaim /\ AutomaticAtMostOnce /\ [Next]_vars
          => FirstClaim' /\ AutomaticAtMostOnce'
    BY FirstClaimStep, AtMostOnceStep
  <1> QED  BY TypeInvariant, <1>1, <1>2, PTL DEF Spec

-----------------------------------------------------------------------------
(***************************************************************************)
(* The delivery loops implement the promised life cycle of an order.       *)
(***************************************************************************)
LEMMA DoneFrame ==
  ASSUME \A o \in Orders, k \in Keys : step'[o][k] = "completed" <=> step[o][k] = "completed"
  PROVE  Done' = Done
  <1>1. \A o \in Orders : {k \in Keys : step'[o][k] = "completed"}
                          = {k \in Keys : step[o][k] = "completed"}
    OBVIOUS
  <1> QED  BY <1>1 DEF Done

(* A working loop completes one step of its plan, or nothing changes.       *)
LEMMA WorkRefines ==
  ASSUME TypeInv, ExclusiveFulfilment, NEW w \in Workers, AtWork(w)
  PROVE  \/ UNCHANGED <<status, Done, disturbed>>
         \/ \E k \in Keys : Lifecycle!Fulfil(task[w].order, k)
  <1> DEFINE o == task[w].order  k == task[w].key
  <1>1. o \in Orders /\ UNCHANGED <<status, disturbed>>  BY AtWorkKeeps
  <1>2. CASE CompleteStep(w) /\ k \in Keys /\ step'[o][k] = "completed" /\ k \in PlanOf(o)
    <2>1. \A p \in Orders, j \in Keys : p # o \/ j # k => step'[p][j] = step[p][j]
      BY WorkEffect
    <2>2. \A p \in Orders : Done'[p] = IF p = o THEN Done[o] \cup {k} ELSE Done[p]
      <3>1. ASSUME NEW p \in Orders
            PROVE  Done'[p] = IF p = o THEN Done[o] \cup {k} ELSE Done[p]
        <4>1. Done'[p] = {j \in Keys : step'[p][j] = "completed"}
              /\ Done[p] = {j \in Keys : step[p][j] = "completed"}
          BY DEF Done
        <4>2. CASE p = o  BY <1>2, <2>1, <4>1, <4>2
        <4>3. CASE p # o  BY <2>1, <4>1, <4>3
        <4> QED  BY <4>2, <4>3
      <3> QED  BY <3>1
    <2>3. Done' = [Done EXCEPT ![o] = Done[o] \cup {k}]  BY <1>1, <2>2 DEF Done
    <2>4. status[o] = "delivering" \/ o \in disturbed  BY <1>1 DEF ExclusiveFulfilment, Holds
    <2> QED  BY <1>1, <1>2, <2>3, <2>4 DEF Lifecycle!Fulfil, Done, PlanOf
  <1>3. CASE ~(CompleteStep(w) /\ k \in Keys /\ step'[o][k] = "completed" /\ k \in PlanOf(o))
    <2>1. \A p \in Orders, j \in Keys : step'[p][j] = "completed" <=> step[p][j] = "completed"
      <3>1. CASE UNCHANGED <<step, attempts>>  BY <3>1
      <3>2. CASE ~UNCHANGED <<step, attempts>>
        <4>1. /\ step'[o][k] = "completed" <=> step[o][k] = "completed"
              /\ \A p \in Orders, j \in Keys : p # o \/ j # k => step'[p][j] = step[p][j]
          BY <1>3, <3>2, WorkEffect
        <4> QED  BY <4>1
      <3> QED  BY <3>1, <3>2
    <2> QED  BY <1>1, <2>1, DoneFrame
  <1> QED  BY <1>2, <1>3

LEMMA LifecycleStep ==
  ASSUME TypeInv, TypeInv', ExclusiveFulfilment, LedgerOK, Progress, [Next]_vars
  PROVE  [Lifecycle!LifecycleNext]_(Lifecycle!lifecycle)
  <1> USE DEF dbVars, realmVars, history
  <1> DEFINE Goal == Lifecycle!LifecycleNext \/ UNCHANGED <<status, Done, disturbed>>
  <1>0. SUFFICES Goal  BY DEF Lifecycle!lifecycle, Done
  <1>a. step' = step => Done' = Done  BY DEF Done
  <1>1. ASSUME NEW w \in Workers, AtWork(w) PROVE Goal
    <2>1. task[w].order \in Orders  BY <1>1, AtWorkKeeps
    <2>2. ASSUME NEW k \in Keys, Lifecycle!Fulfil(task[w].order, k) PROVE Lifecycle!LifecycleNext
      BY <2>1, <2>2 DEF Lifecycle!LifecycleNext
    <2> QED  BY <1>1, <2>2, WorkRefines
  <1>2. ASSUME NEW w \in Workers, DeliveryLoop(w) PROVE Goal
    <2>1. CASE status' = status /\ disturbed' = disturbed
      BY <1>a, <1>2, <2>1 DEF DeliveryLoop
    <2>2. CASE ~(status' = status /\ disturbed' = disturbed)
      <3> DEFINE S == {o \in Orders : status[o] = "delivering"}
                 T == {o \in S : Held(o)}
      <3>1. PICK swept \in BOOLEAN :
              /\ status' = IF swept THEN [o \in Orders |-> Swept(o)] ELSE status
              /\ disturbed' = disturbed \cup
                   {o \in Orders : swept /\ status[o] = "delivering" /\ Held(o)}
        BY <1>2 DEF DeliveryLoop
      <3>2. swept  BY <2>2, <3>1
      <3>3. status' = [o \in Orders |-> IF o \in S THEN "review" ELSE status[o]]
        BY <3>1, <3>2 DEF Swept
      <3>4. disturbed' = disturbed \cup T /\ T \in SUBSET S  BY <3>1, <3>2
      <3>5. Done' = Done  BY <1>a, <1>2 DEF DeliveryLoop
      <3>6. Lifecycle!Park(S)  BY <3>3, <3>4, <3>5 DEF Lifecycle!Park, Done
      <3> QED  BY <3>6 DEF Lifecycle!LifecycleNext
    <2> QED  BY <2>1, <2>2
  <1>3. ASSUME NEW w \in Workers, ClaimOrder(w) PROVE Goal
    <2>1. PICK o \in Claimable : status' = [status EXCEPT ![o] = "delivering"]
      BY <1>3 DEF ClaimOrder
    <2>2. Done' = Done /\ disturbed' = disturbed  BY <1>a, <1>3 DEF ClaimOrder
    <2>3. Lifecycle!Claim(o)  BY <2>1, <2>2 DEF Lifecycle!Claim, Claimable, Done
    <2> QED  BY <2>1, <2>3 DEF Lifecycle!LifecycleNext, Claimable
  <1>4. ASSUME NEW w \in Workers, ReviewOrder(w) PROVE Goal
    <2> DEFINE o == task[w].order
    <2>1. Done' = Done /\ disturbed' = disturbed  BY <1>a, <1>4 DEF ReviewOrder
    <2>2. \/ status' = status
          \/ status[o] = "delivering" /\ status' = [status EXCEPT ![o] = "review"]
      BY <1>4 DEF ReviewOrder, MarkOrder
    <2>3. CASE status' = status  BY <2>1, <2>3
    <2>4. CASE status[o] = "delivering" /\ status' = [status EXCEPT ![o] = "review"]
      <3>1. o \in Orders  BY <1>4, Working DEF ReviewOrder, At
      <3>2. status' = [p \in Orders |-> IF p \in {o} THEN "review" ELSE status[p]]
        BY <2>4, <3>1 DEF TypeInv, TypeOK
      <3>3. disturbed' = disturbed \cup {} /\ {} \in SUBSET {o}  BY <2>1
      <3>4. Lifecycle!Park({o})  BY <2>1, <2>4, <3>2, <3>3 DEF Lifecycle!Park, Done
      <3> QED  BY <3>1, <3>4 DEF Lifecycle!LifecycleNext
    <2> QED  BY <2>2, <2>3, <2>4
  <1>5. ASSUME NEW w \in Workers, FinishOrder(w) PROVE Goal
    <2> DEFINE o == task[w].order
    <2>1. Done' = Done /\ disturbed' = disturbed  BY <1>a, <1>5 DEF FinishOrder
    <2>2. \/ status' = status
          \/ status[o] = "delivering" /\ status' = [status EXCEPT ![o] = "delivered"]
      BY <1>5 DEF FinishOrder, MarkOrder
    <2>3. CASE status' = status  BY <2>1, <2>3
    <2>4. CASE status[o] = "delivering" /\ status' = [status EXCEPT ![o] = "delivered"]
      <3>1. o \in Orders  BY <1>5, Working DEF FinishOrder, At
      <3>2. o \in disturbed \/ Done[o] = PlanOf(o)
        <4>1. SUFFICES ASSUME o \notin disturbed PROVE Done[o] = PlanOf(o)  OBVIOUS
        <4>2. \A k \in PlanOf(o) : step[o][k] = "completed"
          BY <1>5, <3>1, <4>1 DEF Progress, ProgressOf, FinishOrder, At
        <4>3. PlanOf(o) \subseteq Keys  BY <3>1, PlanAssumption DEF PlanOf, Keys
        <4>4. \A k \in Keys : step[o][k] = "completed" => k \in PlanOf(o)
          BY <3>1 DEF LedgerOK
        <4>5. Done[o] = {k \in Keys : step[o][k] = "completed"}  BY <3>1 DEF Done
        <4> QED  BY <4>2, <4>3, <4>4, <4>5
      <3>3. Lifecycle!Deliver(o)
        BY <2>1, <2>4, <3>1, <3>2 DEF Lifecycle!Deliver, Done
      <3> QED  BY <3>1, <3>3 DEF Lifecycle!LifecycleNext
    <2> QED  BY <2>2, <2>3, <2>4
  <1>6. ASSUME NEW o \in Orders, PlaceOrder(o) PROVE Goal
    <2>1. Done' = Done  BY <1>a, <1>6 DEF PlaceOrder
    <2>2. Lifecycle!Queue(o)  BY <1>6, <2>1 DEF PlaceOrder, Lifecycle!Queue, Done
    <2> QED  BY <2>2 DEF Lifecycle!LifecycleNext
  <1>7. ASSUME NEW o \in Orders, AdminRetryOrder(o) PROVE Goal
    <2>1. Done' = Done  BY <1>a, <1>7 DEF AdminRetryOrder
    <2>2. status[o] = "review"  BY <1>7 DEF AdminRetryOrder, TypeInv, TypeOK, OrderStatus
    <2>3. Lifecycle!Requeue(o)
      BY <1>7, <2>1, <2>2 DEF AdminRetryOrder, Lifecycle!Requeue, Done
    <2> QED  BY <2>3 DEF Lifecycle!LifecycleNext
  <1>8. ASSUME NEW o \in Orders, AdminRefundOrder(o) PROVE Goal
    <2>1. Done' = Done  BY <1>a, <1>8 DEF AdminRefundOrder
    <2>2. status[o] \in {"pending", "review"} /\ Done[o] = {}
      BY <1>8 DEF AdminRefundOrder, Refundable, Done, TypeInv, TypeOK, OrderStatus
    <2>3. Lifecycle!Refund(o)
      BY <1>8, <2>1, <2>2 DEF AdminRefundOrder, Lifecycle!Refund, Done
    <2> QED  BY <2>3 DEF Lifecycle!LifecycleNext
  <1>9. ASSUME NEW o \in Orders, NEW k \in Keys, NEW r \in {"pending", "completed"},
               AdminResolveOrderStep(o, k, r)
        PROVE  Goal
    <2>1. status' = [status EXCEPT ![o] = "pending"]  BY <1>9 DEF AdminResolveOrderStep
    <2>2. status[o] \in Lifecycle!Open
      <3>1. status[o] # "absent"  BY <1>9, ResolveEffect DEF LedgerOK
      <3> QED  BY <1>9, <3>1, ResolveEffect DEF Lifecycle!Open, TypeInv, TypeOK, OrderStatus
    <2>3. disturbed' \in {disturbed, disturbed \cup {o}}  BY <1>9, ResolveEffect
    <2>4. Done' \in {[Done EXCEPT ![o] = Done[o] \cup {k}], [Done EXCEPT ![o] = Done[o] \ {k}]}
      <3>1. \A p \in Orders : /\ Done'[p] = {j \in Keys : step'[p][j] = "completed"}
                              /\ Done[p] = {j \in Keys : step[p][j] = "completed"}
        BY DEF Done
      <3>2. \A p \in Orders, j \in Keys : p # o \/ j # k => step'[p][j] = step[p][j]
        BY <1>9, ResolveEffect
      <3>3. step'[o][k] = r  BY <1>9, ResolveEffect
      <3>4. ASSUME NEW p \in Orders, p # o PROVE Done'[p] = Done[p]
        <4>1. \A j \in Keys : step'[p][j] = step[p][j]  BY <3>2, <3>4
        <4>2. {j \in Keys : step'[p][j] = "completed"} = {j \in Keys : step[p][j] = "completed"}
          BY <4>1
        <4>3. /\ Done'[p] = {j \in Keys : step'[p][j] = "completed"}
              /\ Done[p] = {j \in Keys : step[p][j] = "completed"}
          BY <3>1
        <4> QED  BY <4>2, <4>3
      <3>5. CASE r = "completed"
        <4>1. Done'[o] = Done[o] \cup {k}  BY <3>1, <3>2, <3>3, <3>5
        <4> QED  BY <3>4, <4>1 DEF Done
      <3>6. CASE r = "pending"
        <4>1. Done'[o] = Done[o] \ {k}  BY <3>1, <3>2, <3>3, <3>6
        <4> QED  BY <3>4, <4>1 DEF Done
      <3> QED  BY <3>5, <3>6
    <2>5. Lifecycle!Reconcile(o, k)
      BY <2>1, <2>2, <2>3, <2>4 DEF Lifecycle!Reconcile, Done
    <2> QED  BY <2>5 DEF Lifecycle!LifecycleNext
  <1>10. ASSUME \/ \E w \in Workers : ExpireContext(w) \/ Terminate(w)
                \/ \E c \in wire : Execute(c)
                \/ UNCHANGED vars
         PROVE  Goal
    BY <1>a, <1>10 DEF ExpireContext, Terminate, Execute, vars
  <1> QED  BY <1>1, <1>2, <1>3, <1>4, <1>5, <1>6, <1>7, <1>8, <1>9, <1>10
           DEF Next, Loop, Staff, AtWork

(* Every statement of the loops, of staff and of a starting process is a    *)
(* step of the life cycle in OrderLifecycle, or changes nothing of it.      *)
THEOREM ImplementsLifecycle == Spec => KeepsLifecycle
  <1>1. Init => Lifecycle!LifecycleInit
    BY DEF Init, Lifecycle!LifecycleInit, Done
  <1>2. Init => Progress
    BY NoOrderAssumption DEF Init, Progress, ProgressOf, Resting
  <1>3. TypeInv /\ ExclusiveFulfilment /\ Progress /\ [Next]_vars => Progress'
    BY ProgressStep
  <1>4. TypeInv /\ TypeInv' /\ ExclusiveFulfilment /\ LedgerOK /\ Progress /\ [Next]_vars
          => [Lifecycle!LifecycleNext]_(Lifecycle!lifecycle)
    BY LifecycleStep
  <1> QED  BY TypeInvariant, Exclusive, Ledger, <1>1, <1>2, <1>3, <1>4, PTL
           DEF Spec, KeepsLifecycle, Lifecycle!LifecycleSpec
=============================================================================
