--------------------------------- MODULE Events ---------------------------------
(* A realm event (src/internal/web/events.go): places that players reserve, the  *)
(* attendance that staff note, and the credits given for it.  Registration and   *)
(* reward are transactions that hold the row of the event, a reward also that of *)
(* the registration; staff change attendance without looking at the event.       *)
EXTENDS Naturals, FiniteSets

CONSTANTS
  Players,     \* accounts
  Handlers,    \* requests that run at the same time
  Limits,      \* max_participants staff may set; 0: no limit
  Prizes,      \* reward_credits staff may set; 0: none
  None

ASSUME EventsAssumption ==
  /\ IsFiniteSet(Players) /\ Limits \subseteq Nat /\ Prizes \subseteq Nat
  /\ None \notin Players /\ None \notin Prizes /\ None \notin {"registered", "attended"}

VARIABLES
  event,       \* the row of portal_events
  row,         \* [Players -> status of the registration or None]
  grant,       \* [Players -> credits of portal_event_reward_grants or None]
  wallet,      \* [Players -> balance]
  ledger,      \* [Players -> sum of portal_credit_ledger]
  told,        \* players whose reward was notified
  handler,     \* [Handlers -> Handler]
  room,        \* history: the most places there ever were
  restored     \* history: players whose place staff gave back, not registration

vars == <<event, row, grant, wallet, ledger, told, handler, room, restored>>

Statuses == {"registered", "attended", "no_show", "cancelled"}
Taken == {"registered", "attended"}

(* open: signup_enabled and status = 'scheduled'; ahead: neither the start nor the *)
(* registration deadline has passed                                                *)
Event == [open : BOOLEAN, ahead : BOOLEAN, limit : Limits, credits : Prizes]
Stages == {"idle", "register", "look", "reserve", "reward", "attendance", "pay", "notify"}

(* left: the accounts a reward request has still to come to; counted: the places *)
(* were counted, for a player who held none                                      *)
Handler == [at : Stages, player : Players \cup {None}, left : SUBSET Players,
            counted : BOOLEAN, credits : Prizes \cup {0}]

Idle == [at |-> "idle", player |-> None, left |-> {}, counted |-> FALSE, credits |-> 0]

TypeOK ==
  /\ event \in Event /\ row \in [Players -> Statuses \cup {None}]
  /\ grant \in [Players -> Prizes \cup {None}]
  /\ wallet \in [Players -> Nat] /\ ledger \in [Players -> Nat]
  /\ told \subseteq Players /\ restored \subseteq Players /\ room \in Nat
  /\ handler \in [Handlers -> Handler]

Places(limit) == IF limit = 0 THEN Cardinality(Players) ELSE limit

(* adminEvents: the row as it is created *)
Init ==
  /\ event \in Event /\ row = [p \in Players |-> None]
  /\ grant = [p \in Players |-> None] /\ told = {} /\ restored = {}
  /\ wallet = [p \in Players |-> 0] /\ ledger = [p \in Players |-> 0]
  /\ handler = [h \in Handlers |-> Idle] /\ room = Places(event.limit)

Go(h, stage) == handler' = [handler EXCEPT ![h].at = stage]
Done(h) == handler' = [handler EXCEPT ![h] = Idle]

(* Row locks: of the event, and of a registration *)
NoLock == TRUE   \* mutant: SELECT of the event without FOR UPDATE
EventFree == \A h \in Handlers : handler[h].at \notin {"look", "reserve", "attendance", "pay"}
RowFree(p) == \A h \in Handlers : handler[h].at = "pay" => handler[h].player # p

Holders == {p \in Players : row[p] \in Taken}

--------------------------------------------------------------------------------
(* eventRegistrationAction *)

(* The player's character was found. *)
Register(h, p) ==
  /\ handler[h].at = "idle"
  /\ handler' = [handler EXCEPT ![h] = [Idle EXCEPT !.at = "register", !.player = p]]
  /\ UNCHANGED <<event, row, grant, wallet, ledger, told, room, restored>>

(* BeginTx, SELECT ... FOR UPDATE *)
LockEvent(h) ==
  /\ handler[h].at = "register" /\ EventFree
  /\ IF event.open /\ event.ahead THEN Go(h, "look") ELSE Done(h)
  /\ UNCHANGED <<event, row, grant, wallet, ledger, told, room, restored>>

(* The player's own status and the number of places: one snapshot *)
CountPlaces(h) ==
  LET needs == row[handler[h].player] \notin Taken
  IN  /\ handler[h].at = "look"
      /\ IF needs /\ event.limit > 0 /\ Cardinality(Holders) >= event.limit
           THEN Done(h)
           ELSE handler' = [handler EXCEPT ![h].at = "reserve", ![h].counted = needs]
      /\ UNCHANGED <<event, row, grant, wallet, ledger, told, room, restored>>

(* INSERT ... ON DUPLICATE KEY UPDATE writes over any status, and commits. *)
Reserve(h) ==
  LET p == handler[h].player
  IN  /\ handler[h].at = "reserve" /\ RowFree(p) /\ Done(h)
      /\ row' = [row EXCEPT ![p] = "registered"]
      /\ restored' = IF handler[h].counted THEN restored \ {p} ELSE restored
      /\ UNCHANGED <<event, grant, wallet, ledger, told, room>>

CancelRegistration(p) ==
  /\ row[p] = "registered" /\ RowFree(p)
  /\ row' = [row EXCEPT ![p] = "cancelled"]
  /\ UNCHANGED <<event, grant, wallet, ledger, told, handler, room, restored>>

--------------------------------------------------------------------------------
(* Staff *)

(* adminEventItem: any valid value of every field; DELETE only cancels. *)
UpdateEvent(new) ==
  /\ EventFree /\ event' = new
  /\ room' = IF Places(new.limit) > room THEN Places(new.limit) ELSE room
  /\ UNCHANGED <<row, grant, wallet, ledger, told, handler, restored>>

AdminEventItem ==
  \/ \E new \in Event : new.ahead /\ UpdateEvent(new)
  \/ UpdateEvent([event EXCEPT !.open = FALSE])

(* The start, or the registration deadline, passes. *)
Begin ==
  /\ event.ahead /\ event' = [event EXCEPT !.ahead = FALSE]
  /\ UNCHANGED <<row, grant, wallet, ledger, told, handler, room, restored>>

(* adminEventParticipantStatus: one UPDATE, for a row that exists *)
SetAttendance(p, status) ==
  /\ row[p] # None /\ RowFree(p)
  /\ row' = [row EXCEPT ![p] = status]
  /\ restored' = IF row[p] \notin Taken /\ status \in Taken THEN restored \cup {p}
                 ELSE restored
  /\ UNCHANGED <<event, grant, wallet, ledger, told, handler, room>>

--------------------------------------------------------------------------------
(* adminEventRewards: one transaction for each account of the request *)

RewardPlayers(h, chosen) ==
  /\ handler[h].at = "idle" /\ chosen # {}
  /\ handler' = [handler EXCEPT ![h] = [Idle EXCEPT !.at = "reward", !.left = chosen]]
  /\ UNCHANGED <<event, row, grant, wallet, ledger, told, room, restored>>

NextPlayer(h) == handler' = [handler EXCEPT ![h] =
  IF handler[h].left = {} THEN Idle
    ELSE [Idle EXCEPT !.at = "reward", !.left = handler[h].left]]

LockForReward(h, p) ==
  /\ handler[h].at = "reward" /\ p \in handler[h].left /\ EventFree
  /\ handler' = [handler EXCEPT ![h] = [Idle EXCEPT
       !.at = "attendance", !.player = p, !.left = handler[h].left \ {p},
       !.credits = event.credits]]
  /\ UNCHANGED <<event, row, grant, wallet, ledger, told, room, restored>>

LockRegistration(h) ==
  /\ handler[h].at = "attendance" /\ RowFree(handler[h].player)
  /\ IF handler[h].credits # 0 /\ row[handler[h].player] = "attended"
       THEN Go(h, "pay") ELSE NextPlayer(h)
  /\ UNCHANGED <<event, row, grant, wallet, ledger, told, room, restored>>

AnyGrant(p) == TRUE   \* mutant: RowsAffected is not looked at

NewGrant(p) == grant[p] = None

(* INSERT IGNORE of the grant, wallet, ledger entry and commit *)
PayReward(h) ==
  LET p == handler[h].player
      c == handler[h].credits
  IN  /\ handler[h].at = "pay"
      /\ IF NewGrant(p)
           THEN /\ grant' = [grant EXCEPT ![p] = IF @ = None THEN c ELSE @]
                /\ wallet' = [wallet EXCEPT ![p] = @ + c]
                /\ ledger' = [ledger EXCEPT ![p] = @ + c]
                /\ Go(h, "notify")
           ELSE NextPlayer(h) /\ UNCHANGED <<grant, wallet, ledger>>
      /\ UNCHANGED <<event, row, told, room, restored>>

NotifyAccount(h) ==
  /\ handler[h].at = "notify" /\ NextPlayer(h)
  /\ told' = told \cup {handler[h].player}
  /\ UNCHANGED <<event, row, grant, wallet, ledger, room, restored>>

(* A lost connection: the transaction rolls back, nothing else is tried. *)
Fail(h) ==
  /\ handler[h].at # "idle" /\ Done(h)
  /\ UNCHANGED <<event, row, grant, wallet, ledger, told, room, restored>>

--------------------------------------------------------------------------------
Next ==
  \/ \E h \in Handlers, p \in Players : Register(h, p) \/ LockForReward(h, p)
  \/ \E h \in Handlers :
       \/ LockEvent(h) \/ CountPlaces(h) \/ Reserve(h)
       \/ LockRegistration(h) \/ PayReward(h) \/ NotifyAccount(h) \/ Fail(h)
       \/ \E chosen \in SUBSET Players : RewardPlayers(h, chosen)
  \/ \E p \in Players : CancelRegistration(p)
                        \/ \E status \in Statuses : SetAttendance(p, status)
  \/ AdminEventItem \/ Begin

Spec == Init /\ [][Next]_vars

--------------------------------------------------------------------------------
(* Registration never sells more places than the event had (CountPlaces and      *)
(* Reserve are separate statements, and limits change): whoever is there beyond  *)
(* the largest limit got the place back from staff, who may exceed it.           *)
Capacity == Cardinality(Holders \ restored) <= room

(* A participant is paid at most once for an event, whatever requests overlap    *)
(* and whatever staff do to the prize between two of them; the wallet, the       *)
(* ledger and the grant agree, and nobody is told of credits that are not there. *)
PaidOnce == \A p \in Players :
  /\ wallet[p] = ledger[p] /\ wallet[p] = (IF grant[p] = None THEN 0 ELSE grant[p])
  /\ p \in told => grant[p] # None

(* Credits are granted to a player whose attendance is noted at that very        *)
(* moment, at the prize the event has then.                                      *)
PaidForAttendance == [][\A p \in Players :
  grant'[p] # grant[p] => row[p] = "attended" /\ grant'[p] = event.credits]_vars
=================================================================================
