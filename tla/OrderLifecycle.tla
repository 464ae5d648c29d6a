---------------------------- MODULE OrderLifecycle ----------------------------
(***************************************************************************)
(* What the shop promises about an order, without saying how it is kept:   *)
(* an order is fulfilled step by step while somebody is working on it, and *)
(* it ends either delivered with its whole plan fulfilled or refunded with *)
(* nothing fulfilled, never both, and then it stays as it is.              *)
(*                                                                         *)
(* Orders taken away from whoever is fulfilling them are `contested'.  For *)
(* these the promise is weaker: their status still follows the life cycle, *)
(* but the fulfilment under way goes on regardless of it.                  *)
(***************************************************************************)
EXTENDS Naturals

CONSTANTS Orders, Keys, Plan

VARIABLES state, done, contested
lifecycle == <<state, done, contested>>

LifecycleInit ==
  /\ state = [o \in Orders |-> "absent"]
  /\ done = [o \in Orders |-> {}]
  /\ contested = {}

Open == {"pending", "delivering", "review"}

Queue(o) ==
  /\ state[o] = "absent"
  /\ state' = [state EXCEPT ![o] = "pending"]
  /\ UNCHANGED <<done, contested>>

Claim(o) ==
  /\ state[o] = "pending"
  /\ state' = [state EXCEPT ![o] = "delivering"]
  /\ UNCHANGED <<done, contested>>

Fulfil(o, k) ==
  /\ k \in Plan[o]
  /\ state[o] = "delivering" \/ o \in contested
  /\ done' = [done EXCEPT ![o] = @ \cup {k}]
  /\ UNCHANGED <<state, contested>>

(* One loop gives up on an order, or a starting process on all of them. *)
Park(S) ==
  /\ \A o \in S : state[o] = "delivering"
  /\ state' = [o \in Orders |-> IF o \in S THEN "review" ELSE state[o]]
  /\ \E T \in SUBSET S : contested' = contested \cup T
  /\ UNCHANGED done

Requeue(o) ==
  /\ state[o] = "review"
  /\ state' = [state EXCEPT ![o] = "pending"]
  /\ UNCHANGED <<done, contested>>

(* Staff decide what is true of one step and put the order back. *)
Reconcile(o, k) ==
  /\ state[o] \in Open
  /\ state' = [state EXCEPT ![o] = "pending"]
  /\ done' \in {[done EXCEPT ![o] = @ \cup {k}], [done EXCEPT ![o] = @ \ {k}]}
  /\ contested' \in {contested, contested \cup {o}}

Deliver(o) ==
  /\ state[o] = "delivering"
  /\ o \in contested \/ done[o] = Plan[o]
  /\ state' = [state EXCEPT ![o] = "delivered"]
  /\ UNCHANGED <<done, contested>>

Refund(o) ==
  /\ state[o] \in {"pending", "review"}
  /\ done[o] = {}
  /\ state' = [state EXCEPT ![o] = "refunded"]
  /\ UNCHANGED <<done, contested>>

LifecycleNext ==
  \/ \E o \in Orders :
       \/ Queue(o) \/ Claim(o) \/ Requeue(o) \/ Deliver(o) \/ Refund(o)
       \/ \E k \in Keys : Fulfil(o, k) \/ Reconcile(o, k)
  \/ \E S \in SUBSET Orders : Park(S)

LifecycleSpec == LifecycleInit /\ [][LifecycleNext]_lifecycle
=============================================================================
