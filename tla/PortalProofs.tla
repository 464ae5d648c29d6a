------------------------------ MODULE PortalProofs ------------------------------
(* The parts of the portal that share no state, for every value of the constants. *)
(* Each part has its inductive invariant, with the lemmas of its steps; the       *)
(* theorems about the composition are at the end.                                 *)
EXTENDS Portal, FiniteSetTheorems, TLAPS

(* Identities and PlayerRequests bring their own instances of FiniteSets.         *)
LEMMA SameCount ==
  /\ \A S : Identity!Cardinality(S) = Cardinality(S)
  /\ \A S : Filed!Cardinality(S) = Cardinality(S)
  BY DEF Identity!Cardinality, Filed!Cardinality, Cardinality

--------------------------------------------------------------------------------
(* Events: places and rewards of a realm event, for any finite number of players, *)
(* any requests at the same time and any limits and prizes.                       *)

Locking == {"look", "reserve", "attendance", "pay"}

(* The largest number of places was noted.                                        *)
Roomy == Places(event.limit) <= room

(* A request past its first step is about a player; who is to be told was paid.   *)
EventsNamed == \A h \in Handlers :
  /\ handler[h].at \notin {"idle", "reward"} => handler[h].player \in Players
  /\ handler[h].at = "notify" => grant[handler[h].player] # None

(* The row lock of the event: at most one transaction is behind it.               *)
Exclusive == \A g, h \in Handlers :
  handler[g].at \in Locking /\ handler[h].at \in Locking => g = h

(* Who will be there, apart from those whom staff let in, once r is reserved: one *)
(* that was counted takes a place, one that held a place keeps it                 *)
Then(r) == (Holders \ restored) \cup IF r.counted THEN {r.player} ELSE {r.player} \ restored

(* What was counted stays true up to the reservation.                             *)
Counted == \A h \in Handlers :
  handler[h].at = "reserve" => Cardinality(Then(handler[h])) <= room

(* What a reward was promised and judged by stays true up to its payment.         *)
EventsJudged == \A h \in Handlers :
  /\ handler[h].at \in {"attendance", "pay"} => handler[h].credits = event.credits
  /\ handler[h].at = "pay" => row[handler[h].player] = "attended"

EventsInv == TypeOK /\ Roomy /\ EventsNamed /\ Exclusive /\ Counted /\ EventsJudged
             /\ Capacity /\ PaidOnce

--------------------------------------------------------------------------------
LEMMA Finite ==
  ASSUME NEW S \in SUBSET Players
  PROVE  IsFiniteSet(S) /\ Cardinality(S) \in Nat /\ Cardinality(S) <= Cardinality(Players)
  BY EventsAssumption, FS_Subset, FS_CardinalityType

LEMMA Fewer ==
  ASSUME NEW S \in SUBSET Players, NEW T \in SUBSET S
  PROVE  Cardinality(T) <= Cardinality(S) /\ Cardinality(T) \in Nat /\ Cardinality(S) \in Nat
  BY Finite, FS_Subset

LEMMA PlacesNat ==
  ASSUME NEW limit \in Limits
  PROVE  Places(limit) \in Nat
  BY EventsAssumption, FS_CardinalityType DEF Places

LEMMA EventsInit == Init => EventsInv
  <1> SUFFICES ASSUME Init PROVE EventsInv
    OBVIOUS
  <1> USE DEF Init, Idle
  <1>1. Holders = {} /\ Holders \ restored = {}
    BY EventsAssumption DEF Holders, Taken
  <1>2. TypeOK
    BY PlacesNat DEF TypeOK, Handler, Stages, Event
  <1>3. Roomy
    BY PlacesNat DEF Roomy, Event
  <1>4. EventsNamed /\ Exclusive /\ Counted /\ EventsJudged
    BY DEF EventsNamed, Exclusive, Counted, EventsJudged, Locking
  <1>5. Capacity
    BY <1>1, PlacesNat, FS_EmptySet DEF Capacity, Event
  <1>6. PaidOnce
    BY DEF PaidOnce
  <1> QED BY <1>2, <1>3, <1>4, <1>5, <1>6 DEF EventsInv

--------------------------------------------------------------------------------
(* Steps of a request that change nothing but its own record and who was told     *)
EventsSound(h, new) ==
  /\ new \in Handler
  /\ new.at \notin {"idle", "reward"} => new.player \in Players
  /\ new.at = "notify" => grant[new.player] # None
  /\ new.at \in Locking => \A g \in Handlers \ {h} : handler[g].at \notin Locking
  /\ new.at = "reserve" => Cardinality(Then(new)) <= room
  /\ new.at \in {"attendance", "pay"} => new.credits = event.credits
  /\ new.at = "pay" => row[new.player] = "attended"

LEMMA EventsQuietStep ==
  ASSUME EventsInv, NEW h \in Handlers, NEW new, EventsSound(h, new),
         handler' = [handler EXCEPT ![h] = new],
         UNCHANGED <<event, row, grant, wallet, ledger, room, restored>>,
         told' \subseteq {p \in Players : grant[p] # None}
  PROVE  EventsInv'
  <1>1. handler'[h] = new /\ \A g \in Handlers \ {h} : handler'[g] = handler[g]
    BY DEF EventsInv, TypeOK
  <1>2. TypeOK'
    BY DEF EventsInv, TypeOK, EventsSound
  <1>3. Roomy'
    BY DEF EventsInv, Roomy
  <1>4. EventsNamed'
    BY <1>1 DEF EventsInv, EventsNamed, EventsSound
  <1>5. Exclusive'
    BY <1>1 DEF EventsInv, Exclusive, EventsSound
  <1>6. Counted'
    <2> SUFFICES ASSUME NEW g \in Handlers, handler'[g].at = "reserve"
        PROVE  Cardinality(Then(handler'[g])) <= room
        BY DEF Counted, Then, Holders
    <2>1. CASE g = h
      BY <1>1, <2>1 DEF EventsSound
    <2>2. CASE g # h
      BY <1>1, <2>2 DEF EventsInv, Counted
    <2> QED BY <2>1, <2>2
  <1>7. EventsJudged'
    BY <1>1 DEF EventsInv, EventsJudged, EventsSound
  <1>8. Capacity'
    BY DEF EventsInv, Capacity, Holders
  <1>9. PaidOnce'
    BY DEF EventsInv, PaidOnce
  <1> QED BY <1>2, <1>3, <1>4, <1>5, <1>6, <1>7, <1>8, <1>9 DEF EventsInv

LEMMA EventsIdleSound ==
  ASSUME EventsInv, NEW h \in Handlers
  PROVE  EventsSound(h, Idle)
  BY DEF EventsSound, Idle, Handler, Stages, Locking

LEMMA NextPlayerStep ==
  ASSUME EventsInv, NEW h \in Handlers, NextPlayer(h),
         UNCHANGED <<event, row, grant, wallet, ledger, room, restored>>,
         told' \subseteq {p \in Players : grant[p] # None}
  PROVE  EventsInv'
  <1> DEFINE new == IF handler[h].left = {} THEN Idle
                    ELSE [Idle EXCEPT !.at = "reward", !.left = handler[h].left]
  <1>1. EventsSound(h, new)
    BY DEF EventsSound, Idle, Handler, Stages, Locking, EventsInv, TypeOK
  <1>2. handler' = [handler EXCEPT ![h] = new]
    BY DEF NextPlayer
  <1> HIDE DEF new
  <1> QED BY <1>1, <1>2, EventsQuietStep

--------------------------------------------------------------------------------
(* Steps that change a registration                                               *)
LEMMA EventsRowStep ==
  ASSUME EventsInv, NEW p \in Players, NEW status \in Statuses, RowFree(p),
         row' = [row EXCEPT ![p] = status],
         restored' \subseteq Players,
         UNCHANGED <<event, grant, wallet, ledger, told, handler, room>>,
         \A q \in Players \ {p} : q \in restored' <=> q \in restored,
         p \in restored => p \in restored',
         status \in Taken /\ p \notin restored' => row[p] \in Taken
  PROVE  EventsInv'
  <1>1. TypeOK'
    BY DEF EventsInv, TypeOK
  <1>2. Roomy' /\ EventsNamed' /\ Exclusive' /\ PaidOnce'
    BY DEF EventsInv, Roomy, EventsNamed, Exclusive, PaidOnce
  <1>3. restored \subseteq restored'
    BY DEF EventsInv, TypeOK
  <1>4. (Holders \ restored)' \subseteq Holders \ restored
    BY DEF EventsInv, TypeOK, Holders
  <1>5. Holders \ restored \subseteq Players
    BY DEF Holders
  <1>6. Counted'
    <2> SUFFICES ASSUME NEW h \in Handlers, handler[h].at = "reserve"
        PROVE  Cardinality(Then(handler[h]))' <= room
        BY DEF Counted, Then
    <2> DEFINE new == Then(handler[h])'
               old == Then(handler[h])
    <2>1. old \subseteq Players
      BY <1>5 DEF Then, EventsInv, EventsNamed
    <2>2. new \subseteq old
      BY <1>3, <1>4 DEF Then
    <2>3. Cardinality(old) <= room /\ room \in Nat
      BY DEF EventsInv, Counted, TypeOK
    <2>4. Cardinality(new) = Cardinality(Then(handler[h]))'
      OBVIOUS
    <2> HIDE DEF new, old
    <2>5. Cardinality(new) <= Cardinality(old) /\ Cardinality(new) \in Nat
          /\ Cardinality(old) \in Nat
      BY <2>1, <2>2, Fewer
    <2> QED BY <2>3, <2>4, <2>5
  <1>7. EventsJudged'
    BY DEF EventsInv, EventsJudged, EventsNamed, RowFree, TypeOK
  <1>8. Capacity'
    <2> DEFINE new == (Holders \ restored)'
               old == Holders \ restored
    <2>1. Cardinality(old) <= room /\ room \in Nat /\ room' = room
      BY DEF EventsInv, Capacity, TypeOK
    <2>2. (Cardinality(Holders \ restored))' = Cardinality(new)
      OBVIOUS
    <2>3. new \subseteq old /\ old \subseteq Players
      BY <1>4, <1>5
    <2> HIDE DEF new, old
    <2>4. Cardinality(new) <= Cardinality(old) /\ Cardinality(new) \in Nat
          /\ Cardinality(old) \in Nat
      BY <2>3, Fewer
    <2> QED BY <2>1, <2>2, <2>4 DEF Capacity
  <1> QED BY <1>1, <1>2, <1>6, <1>7, <1>8 DEF EventsInv

LEMMA CancelStep ==
  ASSUME EventsInv, NEW p \in Players, CancelRegistration(p)
  PROVE  EventsInv'
  <1>1. "cancelled" \in Statuses /\ "cancelled" \notin Taken
    BY DEF Statuses, Taken
  <1> QED BY <1>1, EventsRowStep DEF CancelRegistration, EventsInv, TypeOK

LEMMA AttendanceStep ==
  ASSUME EventsInv, NEW p \in Players, NEW status \in Statuses, SetAttendance(p, status)
  PROVE  EventsInv'
  BY EventsRowStep DEF SetAttendance, EventsInv, TypeOK

LEMMA ReserveStep ==
  ASSUME EventsInv, NEW h \in Handlers, Reserve(h)
  PROVE  EventsInv'
  <1> DEFINE p == handler[h].player
             old == Then(handler[h])
  <1>1. /\ handler[h].at = "reserve" /\ p \in Players /\ RowFree(p)
        /\ row' = [row EXCEPT ![p] = "registered"]
        /\ restored' = (IF handler[h].counted THEN restored \ {p} ELSE restored)
        /\ handler' = [handler EXCEPT ![h] = Idle]
        /\ UNCHANGED <<event, grant, wallet, ledger, told, room>>
    BY DEF Reserve, Done, EventsInv, EventsNamed
  <1>2. /\ handler'[h] = Idle /\ \A g \in Handlers \ {h} :
             handler'[g] = handler[g] /\ handler[g].at \notin Locking
    BY <1>1 DEF EventsInv, TypeOK, Exclusive, Locking
  <1>3. (Holders \ restored)' = old
    BY <1>1 DEF Then, Holders, Taken, EventsInv, TypeOK
  <1>4. TypeOK'
    BY <1>1, <1>2 DEF EventsInv, TypeOK, Statuses, Idle, Handler, Stages
  <1>5. Roomy' /\ EventsNamed' /\ Exclusive' /\ PaidOnce'
    BY <1>1, <1>2 DEF EventsInv, Roomy, EventsNamed, Exclusive, PaidOnce, Idle, Locking
  <1>6. Counted' /\ EventsJudged'
    BY <1>2 DEF Counted, EventsJudged, Idle, Locking
  <1>7. Capacity'
    BY <1>1, <1>3 DEF EventsInv, Counted, Capacity
  <1> QED BY <1>4, <1>5, <1>6, <1>7 DEF EventsInv

--------------------------------------------------------------------------------
(* Staff and the clock change the event while no request is behind its lock.      *)
LEMMA EventStep ==
  ASSUME EventsInv, NEW new \in Event, UpdateEvent(new)
  PROVE  EventsInv'
  <1>1. /\ event' = new /\ new.limit \in Limits /\ room \in Nat
        /\ Places(new.limit) \in Nat
        /\ room' \in Nat /\ room <= room' /\ Places(new.limit) <= room'
        /\ UNCHANGED <<row, grant, wallet, ledger, told, handler, restored>>
    BY PlacesNat DEF UpdateEvent, Event, EventsInv, TypeOK
  <1>2. \A h \in Handlers : handler[h].at \notin Locking
    BY DEF UpdateEvent, EventFree, Locking
  <1>3. TypeOK'
    BY <1>1 DEF EventsInv, TypeOK
  <1>4. Roomy' /\ EventsNamed' /\ Exclusive' /\ Counted' /\ EventsJudged' /\ PaidOnce'
    BY <1>1, <1>2 DEF EventsInv, Roomy, EventsNamed, Exclusive, Counted, EventsJudged,
      PaidOnce, Locking, Places
  <1>5. Capacity'
    <2>1. Holders \ restored \subseteq Players /\ (Holders \ restored)' = Holders \ restored
      BY <1>1 DEF Holders
    <2>2. Cardinality(Holders \ restored) \in Nat /\ Cardinality(Holders \ restored) <= room
      BY <2>1, Finite DEF EventsInv, Capacity
    <2> QED BY <1>1, <2>1, <2>2 DEF Capacity
  <1> QED BY <1>3, <1>4, <1>5 DEF EventsInv

LEMMA BeginStep ==
  ASSUME EventsInv, Begin
  PROVE  EventsInv'
  <1>1. /\ event' = [event EXCEPT !.ahead = FALSE] /\ event' \in Event
        /\ event'.limit = event.limit /\ event'.credits = event.credits
        /\ UNCHANGED <<row, grant, wallet, ledger, told, handler, room, restored>>
    BY DEF Begin, EventsInv, TypeOK, Event
  <1>2. TypeOK' /\ Roomy' /\ EventsNamed' /\ Exclusive' /\ EventsJudged' /\ Capacity'
        /\ PaidOnce'
    BY <1>1
    DEF EventsInv, TypeOK, Roomy, EventsNamed, Exclusive, EventsJudged, Capacity, PaidOnce,
                Holders, Places
  <1>3. Counted'
    BY <1>1 DEF EventsInv, Counted, Then, Holders
  <1> QED BY <1>2, <1>3 DEF EventsInv

LEMMA PayStep ==
  ASSUME EventsInv, NEW h \in Handlers, PayReward(h)
  PROVE  EventsInv'
  <1> DEFINE p == handler[h].player
             c == handler[h].credits
  <1>1. CASE ~NewGrant(p)
    BY <1>1, NextPlayerStep DEF PayReward, EventsInv, TypeOK, PaidOnce
  <1>2. CASE NewGrant(p)
    <2>1. /\ handler[h].at = "pay" /\ p \in Players /\ grant[p] = None
          /\ wallet[p] = 0 /\ ledger[p] = 0
          /\ c = event.credits /\ c \in Prizes /\ c \in Nat /\ c # None
      BY <1>2, EventsAssumption
      DEF PayReward, EventsInv, EventsNamed, EventsJudged, NewGrant, PaidOnce, TypeOK, Event
    <2>2. /\ grant' = [grant EXCEPT ![p] = c]
          /\ wallet' = [wallet EXCEPT ![p] = c] /\ ledger' = [ledger EXCEPT ![p] = c]
          /\ UNCHANGED <<event, row, told, room, restored>>
      BY <1>2, <2>1 DEF PayReward, EventsInv, TypeOK
    <2>3. /\ handler' = [handler EXCEPT ![h].at = "notify"]
          /\ handler'[h].at = "notify" /\ handler'[h].player = p
          /\ \A g \in Handlers \ {h} : handler'[g] = handler[g]
      BY <1>2 DEF PayReward, Go, EventsInv, TypeOK, Handler
    <2> HIDE DEF p, c
    <2>4. handler' \in [Handlers -> Handler]
      BY <2>3, SMTT(30) DEF EventsInv, TypeOK, Handler, Stages
    <2>5. TypeOK'
      BY <2>1, <2>2, <2>4 DEF EventsInv, TypeOK
    <2>6. Roomy' /\ Capacity'
      BY <2>2 DEF EventsInv, Roomy, Capacity, Holders, Places
    <2>7. EventsNamed'
      BY <2>1, <2>2, <2>3 DEF EventsInv, EventsNamed, TypeOK
    <2>8. Exclusive' /\ EventsJudged'
      BY <2>2, <2>3 DEF EventsInv, Exclusive, EventsJudged, Locking
    <2>9. Counted'
      BY <2>2, <2>3 DEF EventsInv, Counted, Then, Holders
    <2>10. PaidOnce'
      <3> SUFFICES ASSUME NEW q \in Players
          PROVE /\ wallet'[q] = ledger'[q]
                /\ wallet'[q] = (IF grant'[q] = None THEN 0 ELSE grant'[q])
                /\ q \in told' => grant'[q] # None
          BY DEF PaidOnce
      <3>1. CASE q = p
        BY <2>1, <2>2, <3>1 DEF EventsInv, TypeOK
      <3>2. CASE q # p
        BY <2>1, <2>2, <3>2 DEF EventsInv, TypeOK, PaidOnce
      <3> QED BY <3>1, <3>2
    <2> QED BY <2>5, <2>6, <2>7, <2>8, <2>9, <2>10 DEF EventsInv
  <1> QED BY <1>1, <1>2

(* The count admits one more, or the player is there already.                     *)
LEMMA CountStep ==
  ASSUME EventsInv, NEW h \in Handlers, CountPlaces(h)
  PROVE  EventsInv'
  <1> DEFINE p == handler[h].player
             needs == row[p] \notin Taken
             full == needs /\ event.limit > 0 /\ Cardinality(Holders) >= event.limit
             new == [handler[h] EXCEPT !.at = "reserve", !.counted = needs]
  <1>0. told \subseteq {q \in Players : grant[q] # None}
    BY DEF EventsInv, TypeOK, PaidOnce
  <1>1. CASE full
    BY <1>0, <1>1, EventsIdleSound, EventsQuietStep DEF CountPlaces, Done
  <1>2. CASE ~full
    <2>1. /\ handler[h] \in Handler /\ handler[h].at = "look" /\ p \in Players
          /\ \A g \in Handlers \ {h} : handler[g].at \notin Locking
          /\ room \in Nat /\ event.limit \in Nat /\ Places(event.limit) <= room
          /\ Cardinality(Holders \ restored) <= room
      BY EventsAssumption
      DEF CountPlaces, EventsInv, TypeOK, EventsNamed, Exclusive, Locking, Roomy, Capacity,
      Event
    <2>2. /\ new \in Handler /\ new.at = "reserve" /\ new.player = p /\ new.counted = needs
      BY <2>1 DEF Handler, Stages
    <2>3. handler' = [handler EXCEPT ![h] = new]
      BY <1>2 DEF CountPlaces
    <2>4. Cardinality(Then(new)) <= room
      <3>1. CASE ~needs
        <4>1. Then(new) = Holders \ restored
          BY <2>1, <2>2, <3>1 DEF Then, Holders
        <4> QED BY <2>1, <4>1
      <3>2. CASE needs
        <4>1. Then(new) = (Holders \ restored) \cup {p} /\ Then(new) \subseteq Players
          BY <2>1, <2>2, <3>2 DEF Then, Holders
        <4>2. CASE event.limit = 0
          BY <2>1, <4>1, <4>2, Finite, EventsAssumption, FS_CardinalityType DEF Places
        <4>3. CASE event.limit # 0
          <5>1. event.limit <= room /\ Cardinality(Holders) < event.limit
                /\ Cardinality(Holders) \in Nat
            BY <1>2, <2>1, <3>2, <4>3, Finite DEF Places, Holders
          <5>2. Cardinality(Then(new)) <= Cardinality(Holders \cup {p})
            BY <2>1, <4>1, Fewer DEF Holders
          <5>3. Cardinality(Holders \cup {p}) <= Cardinality(Holders) + 1
            <6>1. IsFiniteSet(Holders)
              BY Finite DEF Holders
            <6> QED BY <5>1, <6>1, FS_AddElement
          <5>4. Cardinality(Then(new)) \in Nat /\ Cardinality(Holders \cup {p}) \in Nat
            BY <2>1, <4>1, Finite DEF Holders
          <5> HIDE DEF new
          <5> QED BY <2>1, <5>1, <5>2, <5>3, <5>4
        <4> QED BY <4>2, <4>3
      <3> QED BY <3>1, <3>2
    <2>5. EventsSound(h, new)
      BY <2>1, <2>2, <2>4 DEF EventsSound, Locking
    <2> HIDE DEF new
    <2> QED BY <1>0, <2>3, <2>5, EventsQuietStep DEF CountPlaces
  <1> QED BY <1>1, <1>2

--------------------------------------------------------------------------------
LEMMA EventsStep == EventsInv /\ [Next]_vars => EventsInv'
  <1> SUFFICES ASSUME EventsInv, [Next]_vars PROVE EventsInv'
    OBVIOUS
  <1>0. told \subseteq {p \in Players : grant[p] # None}
    BY DEF EventsInv, TypeOK, PaidOnce
  <1>1. ASSUME NEW h \in Handlers, NEW p \in Players, Register(h, p) PROVE EventsInv'
    <2> DEFINE new == [Idle EXCEPT !.at = "register", !.player = p]
    <2>1. EventsSound(h, new)
      BY DEF EventsSound, Idle, Handler, Stages, Locking
    <2>2. handler' = [handler EXCEPT ![h] = new]
      BY <1>1 DEF Register
    <2> HIDE DEF new
    <2> QED BY <1>0, <1>1, <2>1, <2>2, EventsQuietStep DEF Register
  <1>2. ASSUME NEW h \in Handlers, LockEvent(h) PROVE EventsInv'
    <2> DEFINE new == IF event.open /\ event.ahead THEN [handler[h] EXCEPT !.at = "look"]
                      ELSE Idle
    <2>1. EventsSound(h, new)
      <3>1. CASE event.open /\ event.ahead
        BY <1>2, <3>1
        DEF LockEvent, EventFree, EventsSound, EventsInv, TypeOK, EventsNamed, Handler,
        Stages, Locking
      <3>2. CASE ~(event.open /\ event.ahead)
        BY <3>2, EventsIdleSound
      <3> QED BY <3>1, <3>2
    <2>2. handler' = [handler EXCEPT ![h] = new]
      BY <1>2 DEF LockEvent, Go, Done
    <2> HIDE DEF new
    <2> QED BY <1>0, <1>2, <2>1, <2>2, EventsQuietStep DEF LockEvent
  <1>3. ASSUME NEW h \in Handlers, CountPlaces(h) PROVE EventsInv'
    BY <1>3, CountStep
  <1>4. ASSUME NEW h \in Handlers, Reserve(h) PROVE EventsInv'
    BY <1>4, ReserveStep
  <1>5. ASSUME NEW p \in Players, CancelRegistration(p) PROVE EventsInv'
    BY <1>5, CancelStep
  <1>6. ASSUME NEW p \in Players, NEW status \in Statuses, SetAttendance(p, status)
        PROVE EventsInv'
    BY <1>6, AttendanceStep
  <1>7. CASE AdminEventItem
    <2>1. [event EXCEPT !.open = FALSE] \in Event
      BY DEF EventsInv, TypeOK, Event
    <2> QED BY <1>7, <2>1, EventStep DEF AdminEventItem
  <1>8. CASE Begin
    BY <1>8, BeginStep
  <1>9. ASSUME NEW h \in Handlers, NEW chosen \in SUBSET Players, RewardPlayers(h, chosen)
        PROVE EventsInv'
    <2> DEFINE new == [Idle EXCEPT !.at = "reward", !.left = chosen]
    <2>1. EventsSound(h, new)
      BY DEF EventsSound, Idle, Handler, Stages, Locking
    <2>2. handler' = [handler EXCEPT ![h] = new]
      BY <1>9 DEF RewardPlayers
    <2> HIDE DEF new
    <2> QED BY <1>0, <1>9, <2>1, <2>2, EventsQuietStep DEF RewardPlayers
  <1>10. ASSUME NEW h \in Handlers, NEW p \in Players, LockForReward(h, p) PROVE EventsInv'
    <2> DEFINE new == [Idle EXCEPT !.at = "attendance", !.player = p,
                         !.left = handler[h].left \ {p}, !.credits = event.credits]
    <2>1. EventsSound(h, new)
      BY <1>10
      DEF LockForReward, EventFree, EventsSound, Idle, Handler, Stages, Locking, EventsInv,
                   TypeOK, Event
    <2>2. handler' = [handler EXCEPT ![h] = new]
      BY <1>10 DEF LockForReward
    <2> HIDE DEF new
    <2> QED BY <1>0, <1>10, <2>1, <2>2, EventsQuietStep DEF LockForReward
  <1>11. ASSUME NEW h \in Handlers, LockRegistration(h) PROVE EventsInv'
    <2>1. CASE handler[h].credits # 0 /\ row[handler[h].player] = "attended"
      <3> DEFINE new == [handler[h] EXCEPT !.at = "pay"]
      <3>1. EventsSound(h, new)
        BY <1>11, <2>1
        DEF LockRegistration, EventsSound, EventsInv, TypeOK, EventsNamed, Exclusive,
        EventsJudged, Handler,
            Stages, Locking
      <3>2. handler' = [handler EXCEPT ![h] = new]
        BY <1>11, <2>1 DEF LockRegistration, Go
      <3> HIDE DEF new
      <3> QED BY <1>0, <1>11, <3>1, <3>2, EventsQuietStep DEF LockRegistration
    <2>2. CASE ~(handler[h].credits # 0 /\ row[handler[h].player] = "attended")
      BY <1>0, <1>11, <2>2, NextPlayerStep DEF LockRegistration
    <2> QED BY <2>1, <2>2
  <1>12. ASSUME NEW h \in Handlers, PayReward(h) PROVE EventsInv'
    BY <1>12, PayStep
  <1>13. ASSUME NEW h \in Handlers, NotifyAccount(h) PROVE EventsInv'
    BY <1>0, <1>13, NextPlayerStep DEF NotifyAccount, EventsInv, EventsNamed
  <1>14. ASSUME NEW h \in Handlers, Fail(h) PROVE EventsInv'
    BY <1>0, <1>14, EventsIdleSound, EventsQuietStep DEF Fail, Done
  <1>15. CASE UNCHANGED vars
    <2>1. Counted'
      BY <1>15 DEF vars, EventsInv, Counted, Then, Holders
    <2> QED BY <1>15, <2>1
            DEF vars, EventsInv, TypeOK, Roomy, EventsNamed, Exclusive, EventsJudged,
                               Capacity, PaidOnce, Holders, Places
  <1> QED
    BY <1>1, <1>2, <1>3, <1>4, <1>5, <1>6, <1>7, <1>8, <1>9, <1>10, <1>11, <1>12, <1>13,
       <1>14, <1>15
    DEF Next

RewardStep == \A p \in Players :
  grant'[p] # grant[p] => row[p] = "attended" /\ grant'[p] = event.credits

LEMMA RewardsFair == EventsInv /\ [Next]_vars => [RewardStep]_vars
  <1> SUFFICES ASSUME EventsInv, Next, NEW p \in Players, grant'[p] # grant[p]
      PROVE  row[p] = "attended" /\ grant'[p] = event.credits
      BY DEF vars, RewardStep
  <1>1. PICK h \in Handlers : PayReward(h)
    BY DEF Next, Register, LockEvent, CountPlaces, Reserve, CancelRegistration,
           AdminEventItem, UpdateEvent, Begin, SetAttendance, RewardPlayers, LockForReward,
           LockRegistration, NotifyAccount, Fail
  <1>2. handler[h].player = p /\ NewGrant(p)
    BY <1>1 DEF PayReward, EventsInv, TypeOK
  <1>3. grant[p] = None
    BY <1>2 DEF NewGrant
  <1>4. grant'[p] = handler[h].credits /\ handler[h].at = "pay"
    BY <1>1, <1>2, <1>3 DEF PayReward, EventsInv, TypeOK
  <1> QED BY <1>2, <1>4 DEF EventsInv, EventsJudged

--------------------------------------------------------------------------------
(* Identities: one primary account each, owned providers and passkeys, for any    *)
(* accounts, sessions, flows and requests at the same time.                       *)

(* A request with what its stage needs, when m identities have been made.         *)
Fit(q, m) ==
  /\ q \in Identity!Request
  /\ q.mine \in 1 .. m \cup {None}
  /\ q.at = "delete" => q.mine # None
  /\ q.at \in Identity!Wanting => q.active \in Names
  /\ q.at \in {"link", "switch", "promote", "unlink"} => q.session \in Sessions
  /\ q.at \in {"login", "link", "switch", "promote", "unlink", "delete", "advance", "issue"} =>
       q.name \in Names
  /\ q.at \in {"callback", "find", "linkback"} => q.user \in Users
  /\ q.at \in {"finish", "check", "advance"} => q.key \in Keys
  /\ q.at \in {"exchange", "callback", "find"} => q.flow # "passkey"
  /\ q.at \in {"account", "advance", "issue"} => q.identity \in 1 .. m
  /\ q.at = "account" /\ q.flow = "passkey" => q.key \in Keys
  /\ q.at = "advance" \/ (q.at = "account" /\ q.flow = "passkey")
     => Identity!Advanced(q.old, q.new)

RequestsFit == \A r \in Requests : Fit(request[r], made)

(* Every identity ever made has its primary account, and no second one.           *)
Primaries == \A i \in 1 .. made : \E p \in Names :
  /\ Identity!Linked(p) /\ Identity!Of(p) = i /\ member[p].primary
  /\ \A q \in Names : Identity!Linked(q) /\ Identity!Of(q) = i /\ member[q].primary => q = p

IdentityInv == Identity!TypeOK /\ RequestsFit /\ Primaries /\ Identity!AddedByOwner

--------------------------------------------------------------------------------
SessionRow(m) == [name : Names, identity : 0 .. m, stepped : BOOLEAN]
MemberRow(m) == [identity : 1 .. m, primary : BOOLEAN]

LEMMA IdleFit ==
  ASSUME IdentityAssumed, NEW m \in Nat
  PROVE  Fit(Identity!Idle, m)
  BY DEF IdentityAssumed, Fit, Identity!Idle, Identity!Request, Identity!Stages,
    Identity!Wanting, Identity!Counts, Identity!Flows

LEMMA IdleFields ==
  ASSUME IdentityAssumed
  PROVE  Identity!Idle \in Identity!Request /\ Identity!Idle.mine = None
         /\ Identity!Idle.flow = None
  BY DEF IdentityAssumed, Identity!Idle, Identity!Request, Identity!Stages, Identity!Wanting,
    Identity!Counts, Identity!Flows

LEMMA FitGrows ==
  ASSUME NEW q, NEW m \in Nat, NEW n \in Nat, m <= n, Fit(q, m)
  PROVE  Fit(q, n)
  <1>1. 1 .. m \subseteq 1 .. n  OBVIOUS
  <1> QED  BY <1>1 DEF Fit

LEMMA RequestMoves ==
  ASSUME Identity!TypeOK, RequestsFit, NEW r \in Requests, NEW new, Fit(new, made'),
         request' = [request EXCEPT ![r] = new], made \in Nat, made' \in Nat, made <= made'
  PROVE  RequestsFit' /\ request' \in [Requests -> Identity!Request]
  <1>1. \A p \in Requests : request'[p] = IF p = r THEN new ELSE request[p]
    BY DEF Identity!TypeOK
  <1>2. new \in Identity!Request  BY DEF Fit
  <1> QED  BY <1>1, <1>2, FitGrows DEF RequestsFit, Identity!TypeOK

(* No account, provider or passkey changes.                                       *)
LEMMA QuietTables ==
  ASSUME IdentityInv, UNCHANGED <<made, member, provider, passkey, asked>>,
         session' \in [Sessions -> SessionRow(made) \cup {None}],
         ticket' \subseteq Identity!Ticket, drawn' \in 0 .. MaxTickets,
         RequestsFit', request' \in [Requests -> Identity!Request]
  PROVE  IdentityInv'
  <1>1. Identity!TypeOK'  BY DEF IdentityInv, Identity!TypeOK, SessionRow
  <1>2. Primaries'  BY DEF IdentityInv, Primaries, Identity!Linked, Identity!Of
  <1>3. Identity!AddedByOwner'  BY DEF IdentityInv, Identity!AddedByOwner
  <1> QED  BY <1>1, <1>2, <1>3 DEF IdentityInv

LEMMA IdentityQuietStep ==
  ASSUME IdentityInv, NEW r \in Requests, NEW new, Fit(new, made),
         request' = [request EXCEPT ![r] = new],
         UNCHANGED <<made, member, session, ticket, drawn, provider, passkey, asked>>
  PROVE  IdentityInv'
  <1>1. made \in Nat /\ made' = made /\ made <= made' /\ Fit(new, made')
    BY DEF IdentityInv, Identity!TypeOK
  <1>2. RequestsFit' /\ request' \in [Requests -> Identity!Request]
    BY <1>1, RequestMoves DEF IdentityInv
  <1>3. /\ session' \in [Sessions -> SessionRow(made) \cup {None}]
        /\ ticket' \subseteq Identity!Ticket /\ drawn' \in 0 .. MaxTickets
    BY DEF IdentityInv, Identity!TypeOK, SessionRow
  <1> QED  BY <1>2, <1>3, QuietTables

LEMMA SessionStep ==
  ASSUME IdentityAssumed, IdentityInv, NEW r \in Requests, Identity!Done(r),
         session' \in [Sessions -> SessionRow(made) \cup {None}],
         UNCHANGED <<made, member, ticket, drawn, provider, passkey, asked>>
  PROVE  IdentityInv'
  <1>1. made \in Nat /\ made' = made /\ made <= made' /\ Fit(Identity!Idle, made')
    BY IdleFit DEF IdentityInv, Identity!TypeOK
  <1>2. RequestsFit' /\ request' \in [Requests -> Identity!Request]
    BY <1>1, RequestMoves DEF IdentityInv, Identity!Done
  <1>3. ticket' \subseteq Identity!Ticket /\ drawn' \in 0 .. MaxTickets
    BY DEF IdentityInv, Identity!TypeOK
  <1> QED  BY <1>2, <1>3, QuietTables

(* A statement on the accounts of identities that exist ends a request.           *)
LEMMA MemberStep ==
  ASSUME IdentityAssumed, IdentityInv, NEW r \in Requests, Identity!Done(r),
         member' \in [Names -> MemberRow(made) \cup {None}], Primaries',
         UNCHANGED <<made, session, ticket, drawn, provider, passkey, asked>>
  PROVE  IdentityInv'
  <1>1. made \in Nat /\ made' = made /\ made <= made' /\ Fit(Identity!Idle, made')
    BY IdleFit DEF IdentityInv, Identity!TypeOK
  <1>2. RequestsFit' /\ request' \in [Requests -> Identity!Request]
    BY <1>1, RequestMoves DEF IdentityInv, Identity!Done
  <1>3. Identity!TypeOK'  BY <1>2 DEF IdentityInv, Identity!TypeOK, MemberRow
  <1>4. Identity!AddedByOwner'  BY DEF IdentityInv, Identity!AddedByOwner
  <1> QED  BY <1>2, <1>3, <1>4 DEF IdentityInv

(* A statement on providers or passkeys.                                          *)
LEMMA OwnerStep ==
  ASSUME IdentityInv, NEW r \in Requests, NEW new, Fit(new, made),
         request' = [request EXCEPT ![r] = new],
         provider' \in [Users -> 1 .. made \cup {None}],
         passkey' \in [Keys -> [identity : 1 .. made, count : Identity!Counts] \cup {None}],
         asked' \subseteq (Users \cup Keys) \X Identity!Ids, Identity!AddedByOwner',
         UNCHANGED <<made, member, session, ticket, drawn>>
  PROVE  IdentityInv'
  <1>1. made \in Nat /\ made' = made /\ made <= made' /\ Fit(new, made')
    BY DEF IdentityInv, Identity!TypeOK
  <1>2. RequestsFit' /\ request' \in [Requests -> Identity!Request]
    BY <1>1, RequestMoves DEF IdentityInv
  <1>3. Identity!TypeOK'  BY <1>2 DEF IdentityInv, Identity!TypeOK
  <1>4. Primaries'  BY DEF IdentityInv, Primaries, Identity!Linked, Identity!Of
  <1> QED  BY <1>2, <1>3, <1>4 DEF IdentityInv

--------------------------------------------------------------------------------
LEMMA IdentityInit == IdentityAssumed /\ Identity!Init => IdentityInv
  <1> SUFFICES ASSUME IdentityAssumed, Identity!Init PROVE IdentityInv  OBVIOUS
  <1>1. Fit(Identity!Idle, made) /\ made = 0  BY IdleFit DEF Identity!Init
  <1>2. Identity!Idle \in Identity!Request  BY <1>1 DEF Fit
  <1>3. PICK s \in Sessions, n \in Names : session = [t \in Sessions |->
          IF t = s THEN [name |-> n, identity |-> 0, stepped |-> FALSE] ELSE None]
    BY DEF Identity!Init
  <1>4. session \in [Sessions -> [name : Names, identity : 0 .. made, stepped : BOOLEAN]
                                 \cup {None}]
    BY <1>1, <1>3
  <1>5. Identity!TypeOK  BY <1>2, <1>4 DEF Identity!Init, Identity!TypeOK, IdentityAssumed
  <1>6. RequestsFit  BY <1>1 DEF Identity!Init, RequestsFit
  <1>7. Primaries /\ Identity!AddedByOwner  BY
                                            DEF Identity!Init, Primaries, Identity!AddedByOwner
  <1> QED  BY <1>5, <1>6, <1>7 DEF IdentityInv

LEMMA EnsureStep ==
  ASSUME IdentityAssumed, IdentityInv, NEW r \in Requests, Identity!EnsureIdentity(r)
  PROVE  IdentityInv'
  <1> DEFINE n == request[r].active
             s == request[r].session
             mine == IF Identity!Linked(n) THEN Identity!Of(n) ELSE made + 1
             written == [identity |-> mine, primary |-> TRUE]
             new == [request[r] EXCEPT !.mine = mine]
  <1>1. /\ request[r].at \in Identity!Wanting /\ mine <= MaxIdentities
        /\ made' = IF Identity!Linked(n) THEN made ELSE mine
        /\ member' = IF Identity!Linked(n) THEN member ELSE [member EXCEPT ![n] = written]
        /\ session' = IF request[r].at \in {"link", "promote", "unlink"}
                         /\ Identity!Live(s) /\ session[s].identity = 0
                        THEN [session EXCEPT ![s].identity = mine] ELSE session
        /\ UNCHANGED <<ticket, drawn, provider, passkey, asked>>
    BY DEF Identity!EnsureIdentity
  <1>2. request' = [request EXCEPT ![r] = new]
    BY DEF Identity!EnsureIdentity, IdentityInv, Identity!TypeOK
  <1>3. Fit(request[r], made) /\ n \in Names /\ made \in 0 .. MaxIdentities
        /\ MaxIdentities \in Nat
    BY <1>1 DEF IdentityInv, RequestsFit, Identity!TypeOK, Fit, IdentityAssumed
  <1>4. Identity!Linked(n) => Identity!Of(n) \in 1 .. made
    BY <1>3 DEF IdentityInv, Identity!TypeOK, Identity!Linked, Identity!Of
  <1>5. /\ mine \in 1 .. made' /\ made' \in 0 .. MaxIdentities /\ made <= made'
        /\ ~Identity!Linked(n) => mine = made + 1 /\ made' = made + 1
    BY <1>1, <1>3, <1>4
  <1> HIDE DEF mine
  <1>6. new \in Identity!Request /\ \A f \in DOMAIN Identity!Idle : f # "mine"
        => new[f] = request[r][f]
    BY <1>3, <1>5 DEF Fit, Identity!Request, Identity!Ids, Identity!Idle
  <1>7. Fit(new, made')
    <2>1. Fit(request[r], made')  BY <1>3, <1>5, FitGrows
    <2>2. new.mine = mine  BY <1>3 DEF Fit, Identity!Request
    <2>3. /\ new.at = request[r].at /\ new.active = request[r].active
          /\ new.session = request[r].session /\ new.name = request[r].name
          /\ new.user = request[r].user /\ new.key = request[r].key
          /\ new.flow = request[r].flow /\ new.identity = request[r].identity
          /\ new.old = request[r].old /\ new.new = request[r].new
      BY <1>3 DEF Fit, Identity!Request
    <2> HIDE DEF new
    <2> QED  BY <1>1, <1>5, <1>6, <2>1, <2>2, <2>3 DEF Fit, Identity!Wanting
  <1> HIDE DEF new
  <1>8. RequestsFit' /\ request' \in [Requests -> Identity!Request]
    <2>1. made \in Nat /\ made' \in Nat  BY <1>3, <1>5
    <2> QED  BY <1>2, <1>5, <1>7, <2>1, RequestMoves DEF IdentityInv
  <1>9. session' \in [Sessions -> SessionRow(made') \cup {None}]
    <2>1. session \in [Sessions -> SessionRow(made') \cup {None}]
      <3>1. SessionRow(made) \subseteq SessionRow(made')  BY <1>3, <1>5 DEF SessionRow
      <3> QED  BY <3>1 DEF IdentityInv, Identity!TypeOK, SessionRow
    <2>2. CASE request[r].at \in {"link", "promote", "unlink"} /\ Identity!Live(s)
      <3>1. s \in Sessions /\ session[s] \in SessionRow(made')
        BY <1>3, <2>1, <2>2 DEF Fit, Identity!Live
      <3>2. [session[s] EXCEPT !.identity = mine] \in SessionRow(made')
        BY <1>5, <3>1 DEF SessionRow
      <3> QED  BY <1>1, <2>1, <3>1, <3>2
    <2>3. CASE ~(request[r].at \in {"link", "promote", "unlink"} /\ Identity!Live(s))
      BY <1>1, <2>1, <2>3
    <2> QED  BY <2>2, <2>3
  <1>10. member' \in [Names -> MemberRow(made') \cup {None}]
    <2>1. member \in [Names -> MemberRow(made') \cup {None}]
      <3>1. MemberRow(made) \subseteq MemberRow(made')  BY <1>3, <1>5 DEF MemberRow
      <3> QED  BY <3>1 DEF IdentityInv, Identity!TypeOK, MemberRow
    <2>2. written \in MemberRow(made')  BY <1>5 DEF MemberRow
    <2> QED  BY <1>1, <2>1, <2>2
  <1>11. Identity!TypeOK'
    <2>1. 1 .. made \subseteq 1 .. made'  BY <1>3, <1>5
    <2>2. /\ provider' \in [Users -> 1 .. made' \cup {None}]
          /\ passkey' \in [Keys -> [identity : 1 .. made', count : Identity!Counts] \cup {None}]
      BY <1>1, <2>1 DEF IdentityInv, Identity!TypeOK
    <2> QED
      BY <1>1, <1>5, <1>8, <1>9, <1>10, <2>2
      DEF IdentityInv, Identity!TypeOK, SessionRow, MemberRow
  <1>12. Primaries'
    <2>1. CASE Identity!Linked(n)
      <3>1. made' = made /\ member' = member  BY <1>1, <2>1
      <3> QED  BY <3>1 DEF IdentityInv, Primaries, Identity!Linked, Identity!Of
    <2>2. CASE ~Identity!Linked(n)
      <3>1. /\ \A m \in Names : member'[m] = IF m = n THEN written ELSE member[m]
            /\ written # None /\ written.identity = made + 1 /\ written.primary
        <4>1. written \in [identity : Identity!Ids, primary : BOOLEAN]
          BY <1>5, <1>3
          DEF Identity!Ids
        <4> QED  BY <1>1, <1>5, <2>2, <4>1 DEF IdentityInv, Identity!TypeOK, IdentityAssumed
      <3>2. \A m \in Names : Identity!Linked(m) => Identity!Of(m) \in 1 .. made
        BY DEF IdentityInv, Identity!TypeOK, Identity!Linked, Identity!Of
      <3>3. made' = made + 1  BY <1>5, <2>2
      <3> HIDE DEF written
      <3> SUFFICES ASSUME NEW i \in 1 .. made'
          PROVE  \E p \in Names :
                   /\ member'[p] # None /\ member'[p].identity = i /\ member'[p].primary
                   /\ \A q \in Names : member'[q] # None /\ member'[q].identity = i
                                         /\ member'[q].primary => q = p
        BY DEF Primaries, Identity!Linked, Identity!Of
      <3>4. CASE i = made + 1
        <4>1. \A q \in Names : member'[q] # None /\ member'[q].identity = i => q = n
          BY <1>3, <3>1, <3>2, <3>4 DEF Identity!Linked, Identity!Of
        <4> QED  BY <1>3, <3>1, <3>4, <4>1
      <3>5. CASE i \in 1 .. made
        <4>1. PICK p \in Names :
                /\ Identity!Linked(p) /\ Identity!Of(p) = i /\ member[p].primary
                /\ \A q \in Names : Identity!Linked(q) /\ Identity!Of(q) = i
                   /\ member[q].primary => q = p
          BY <3>5 DEF IdentityInv, Primaries
        <4>2. p # n  BY <2>2, <4>1
        <4>3. i # made + 1  BY <1>3, <3>5
        <4> QED  BY <3>1, <4>1, <4>2, <4>3 DEF Identity!Linked, Identity!Of
      <3> QED  BY <1>3, <3>3, <3>4, <3>5
    <2> QED  BY <2>1, <2>2
  <1>13. Identity!AddedByOwner'  BY <1>1 DEF IdentityInv, Identity!AddedByOwner
  <1> QED  BY <1>8, <1>11, <1>12, <1>13 DEF IdentityInv

LEMMA LinkStep ==
  ASSUME IdentityAssumed, IdentityInv, NEW r \in Requests, Identity!IdentityLinkAccount(r)
  PROVE  IdentityInv'
  <1> DEFINE n == request[r].name
             written == [identity |-> request[r].mine, primary |-> FALSE]
  <1>1. /\ Identity!Ready(r, "link") /\ Identity!Done(r)
        /\ member' = IF Identity!Linked(n) THEN member ELSE [member EXCEPT ![n] = written]
        /\ UNCHANGED <<made, session, ticket, drawn, provider, passkey, asked>>
    BY DEF Identity!IdentityLinkAccount
  <1>2. n \in Names /\ request[r].mine \in 1 .. made
    BY <1>1 DEF IdentityInv, RequestsFit, Fit, Identity!Ready
  <1>3. /\ written \in MemberRow(made) /\ ~written.primary
        /\ member' \in [Names -> MemberRow(made) \cup {None}]
    BY <1>1, <1>2 DEF IdentityInv, Identity!TypeOK, MemberRow
  <1>4. Primaries'
    <2>1. CASE Identity!Linked(n)
      BY <1>1, <2>1 DEF IdentityInv, Primaries, Identity!Linked, Identity!Of
    <2>2. CASE ~Identity!Linked(n)
      <3>1. \A m \in Names : member'[m] = IF m = n THEN written ELSE member[m]
        BY <1>1, <1>2, <2>2 DEF IdentityInv, Identity!TypeOK
      <3> HIDE DEF written
      <3>2. ASSUME NEW i \in 1 .. made
            PROVE  \E p \in Names :
                   /\ member'[p] # None /\ member'[p].identity = i /\ member'[p].primary
                   /\ \A q \in Names : member'[q] # None /\ member'[q].identity = i
                                         /\ member'[q].primary => q = p
        <4>1. PICK p \in Names :
                /\ Identity!Linked(p) /\ Identity!Of(p) = i /\ member[p].primary
                /\ \A q \in Names : Identity!Linked(q) /\ Identity!Of(q) = i
                   /\ member[q].primary => q = p
          BY DEF IdentityInv, Primaries
        <4>2. p # n  BY <2>2, <4>1
        <4> QED  BY <1>3, <3>1, <4>1, <4>2 DEF Identity!Linked, Identity!Of
      <3> QED  BY <1>1, <3>2 DEF Primaries, Identity!Linked, Identity!Of
    <2> QED  BY <2>1, <2>2
  <1> QED  BY <1>1, <1>3, <1>4, MemberStep

LEMMA PromoteStep ==
  ASSUME IdentityAssumed, IdentityInv, NEW r \in Requests, Identity!IdentityPromoteAccount(r)
  PROVE  IdentityInv'
  <1> DEFINE n == request[r].name
             i == request[r].mine
  <1>1. /\ Identity!Ready(r, "promote") /\ Identity!Done(r)
        /\ IF Identity!Linked(n) /\ Identity!Of(n) = i THEN Identity!Promote(i, n)
           ELSE UNCHANGED member
        /\ UNCHANGED <<made, session, ticket, drawn, provider, passkey, asked>>
    BY DEF Identity!IdentityPromoteAccount
  <1>2. n \in Names /\ i \in 1 .. made
    BY <1>1 DEF IdentityInv, RequestsFit, Fit, Identity!Ready
  <1>3. CASE ~(Identity!Linked(n) /\ Identity!Of(n) = i)
    <2>1. member' = member  BY <1>1, <1>3
    <2>2. Primaries'  BY <1>1, <2>1 DEF IdentityInv, Primaries, Identity!Linked, Identity!Of
    <2> QED  BY <1>1, <2>1, <2>2, MemberStep DEF IdentityInv, Identity!TypeOK, MemberRow
  <1>4. CASE Identity!Linked(n) /\ Identity!Of(n) = i
    <2>1. \A m \in Names : Identity!Linked(m) => member[m] \in MemberRow(made)
      BY DEF IdentityInv, Identity!TypeOK, Identity!Linked, MemberRow
    <2>2. \A m \in Names : (m = n) \in BOOLEAN  OBVIOUS
    <2>3. \A m \in Names : Identity!Linked(m) /\ Identity!Of(m) = i =>
            /\ member'[m] \in MemberRow(made) /\ member'[m].identity = i
            /\ member'[m].primary <=> m = n
      <3> SUFFICES ASSUME NEW m \in Names, Identity!Linked(m), Identity!Of(m) = i
          PROVE  /\ member'[m] \in MemberRow(made) /\ member'[m].identity = i
                 /\ member'[m].primary <=> m = n
        OBVIOUS
      <3> DEFINE b == m = n
      <3>1. member'[m] = [member[m] EXCEPT !.primary = b]
        BY <1>1, <1>4 DEF Identity!Promote
      <3>2. b \in BOOLEAN  OBVIOUS
      <3>3. member'[m].primary = b
        BY <2>1, <3>1 DEF MemberRow
      <3>4. member'[m].identity = i /\ member'[m] \in MemberRow(made)
        <4> HIDE DEF b
        <4> QED  BY <2>1, <3>1, <3>2 DEF MemberRow, Identity!Of
      <3> QED  BY <3>3, <3>4
    <2>4. \A m \in Names : ~(Identity!Linked(m) /\ Identity!Of(m) = i) => member'[m] = member[m]
      BY <1>1, <1>4 DEF Identity!Promote
    <2>5. None \notin MemberRow(made)
      BY DEF IdentityAssumed, MemberRow, Identity!Ids, IdentityInv, Identity!TypeOK
    <2>6. member' \in [Names -> MemberRow(made) \cup {None}]
      <3>1. DOMAIN member' = Names /\ member' = [m \in Names |-> member'[m]]
        BY <1>1, <1>4 DEF Identity!Promote
      <3>2. \A m \in Names : member'[m] \in MemberRow(made) \cup {None}
        BY <2>1, <2>3, <2>4 DEF Identity!Linked
      <3> QED  BY <3>1, <3>2
    <2>7. ASSUME NEW j \in 1 .. made
          PROVE  \E p \in Names :
                   /\ member'[p] # None /\ member'[p].identity = j /\ member'[p].primary
                   /\ \A q \in Names : member'[q] # None /\ member'[q].identity = j
                                         /\ member'[q].primary => q = p
      <3>1. CASE j = i
        <4>1. member'[n] # None /\ member'[n].identity = j /\ member'[n].primary
          BY <1>2, <1>4, <2>3, <2>5, <3>1
        <4>2. \A q \in Names : member'[q] # None /\ member'[q].identity = j
                                 /\ member'[q].primary => q = n
          BY <2>3, <2>4, <3>1 DEF Identity!Linked, Identity!Of
        <4> QED  BY <1>2, <4>1, <4>2
      <3>2. CASE j # i
        <4>1. PICK p \in Names :
                /\ Identity!Linked(p) /\ Identity!Of(p) = j /\ member[p].primary
                /\ \A q \in Names : Identity!Linked(q) /\ Identity!Of(q) = j
                   /\ member[q].primary => q = p
          BY DEF IdentityInv, Primaries
        <4>2. \A q \in Names : member'[q] # None /\ member'[q].identity = j =>
                member'[q] = member[q]
          BY <2>3, <2>4, <3>2
        <4>3. member'[p] = member[p]  BY <2>4, <3>2, <4>1
        <4> QED  BY <4>1, <4>2, <4>3 DEF Identity!Linked, Identity!Of
      <3> QED  BY <3>1, <3>2
    <2>8. Primaries'  BY <1>1, <2>7 DEF Primaries, Identity!Linked, Identity!Of
    <2> QED  BY <1>1, <2>6, <2>8, MemberStep
  <1> QED  BY <1>3, <1>4

LEMMA UnlinkStep ==
  ASSUME IdentityAssumed, IdentityInv, NEW r \in Requests, Identity!IdentityUnlinkAccount(r)
  PROVE  IdentityInv'
  <1> DEFINE n == request[r].name
  <1>1. /\ Identity!Done(r) /\ n \in Names
        /\ member' = IF Identity!Deletable(n, request[r].mine)
                       THEN [member EXCEPT ![n] = None] ELSE member
        /\ UNCHANGED <<made, session, ticket, drawn, provider, passkey, asked>>
    BY DEF Identity!IdentityUnlinkAccount, IdentityInv, RequestsFit, Fit
  <1>2. member' \in [Names -> MemberRow(made) \cup {None}]
    BY <1>1 DEF IdentityInv, Identity!TypeOK, MemberRow
  <1>3. \A m \in Names : member'[m] = member[m] \/ (m = n /\ member'[m] = None
        /\ ~member[m].primary)
    BY <1>1 DEF IdentityInv, Identity!TypeOK, Identity!Deletable
  <1>4. ASSUME NEW j \in 1 .. made
        PROVE  \E p \in Names :
                 /\ member'[p] # None /\ member'[p].identity = j /\ member'[p].primary
                 /\ \A q \in Names : member'[q] # None /\ member'[q].identity = j
                                       /\ member'[q].primary => q = p
    <2>1. PICK p \in Names :
            /\ Identity!Linked(p) /\ Identity!Of(p) = j /\ member[p].primary
            /\ \A q \in Names : Identity!Linked(q) /\ Identity!Of(q) = j
               /\ member[q].primary => q = p
      BY DEF IdentityInv, Primaries
    <2>2. member'[p] = member[p]  BY <1>3, <2>1
    <2>3. \A q \in Names : member'[q] # None => member'[q] = member[q]  BY <1>3
    <2> QED  BY <2>1, <2>2, <2>3 DEF Identity!Linked, Identity!Of
  <1>5. Primaries'  BY <1>1, <1>4 DEF Primaries, Identity!Linked, Identity!Of
  <1> QED  BY <1>1, <1>2, <1>5, MemberStep

--------------------------------------------------------------------------------
LEMMA FieldsOf ==
  ASSUME IdentityInv, NEW r \in Requests
  PROVE  /\ Fit(request[r], made) /\ request[r] \in Identity!Request
            /\ made \in 0 .. MaxIdentities
         /\ request \in [Requests -> Identity!Request]
  BY DEF IdentityInv, RequestsFit, Identity!TypeOK, Fit

LEMMA ActStep ==
  ASSUME IdentityAssumed, IdentityInv, NEW r \in Requests, NEW s \in Sessions,
         NEW stage \in Identity!Wanting, NEW n \in Names, Identity!Act(r, s, stage, n)
  PROVE  IdentityInv'
  <1> DEFINE m == session[s].name
             new == [Identity!Idle EXCEPT !.at = stage, !.session = s, !.active = m, !.name = n]
  <1>1. /\ stage \in {"link", "switch", "promote", "unlink", "start", "enrol", "drop", "forget"}
        /\ request' = [request EXCEPT ![r] = new]
        /\ UNCHANGED <<made, member, session, ticket, drawn, provider, passkey, asked>>
    BY DEF Identity!Act
  <1>2. m \in Names  BY DEF Identity!Act, IdentityInv, Identity!TypeOK, Identity!Live
  <1> HIDE DEF m
  <1>3. /\ new \in Identity!Request /\ new.at = stage /\ new.session = s /\ new.active = m
        /\ new.name = n /\ new.mine = None
    BY <1>2, IdleFields DEF Identity!Request, Identity!Stages
  <1> HIDE DEF new
  <1>4. Fit(new, made)
    BY <1>1, <1>2, <1>3 DEF Fit
  <1> QED  BY <1>1, <1>4, IdentityQuietStep

(* A request ends and leaves the tables of accounts alone.                        *)
LEMMA EndStep ==
  ASSUME IdentityAssumed, IdentityInv, NEW r \in Requests, Identity!Done(r),
         UNCHANGED <<made, member, session, ticket, drawn, provider, passkey, asked>>
  PROVE  IdentityInv'
  <1>1. Fit(Identity!Idle, made) /\ request' = [request EXCEPT ![r] = Identity!Idle]
    BY IdleFit DEF Identity!Done, IdentityInv, Identity!TypeOK
  <1> QED  BY <1>1, IdentityQuietStep

LEMMA TicketStep ==
  ASSUME IdentityInv, NEW r \in Requests, NEW new, Fit(new, made),
         request' = [request EXCEPT ![r] = new], ticket' \subseteq Identity!Ticket,
         drawn' \in 0 .. MaxTickets,
         UNCHANGED <<made, member, session, provider, passkey, asked>>
  PROVE  IdentityInv'
  <1>1. made \in Nat /\ made' = made /\ made <= made' /\ Fit(new, made')
    BY DEF IdentityInv, Identity!TypeOK
  <1>2. RequestsFit' /\ request' \in [Requests -> Identity!Request]
    BY <1>1, RequestMoves DEF IdentityInv
  <1>3. session' \in [Sessions -> SessionRow(made) \cup {None}]
    BY DEF IdentityInv, Identity!TypeOK, SessionRow
  <1> QED  BY <1>2, <1>3, QuietTables

LEMMA DrawType ==
  ASSUME IdentityAssumed, IdentityInv, NEW flow \in Identity!Flows, NEW i \in Identity!Ids
         \cup {None}, Identity!Draw(flow, i)
  PROVE  ticket' \subseteq Identity!Ticket /\ drawn' \in 0 .. MaxTickets
  <1>1. drawn + 1 \in 1 .. MaxTickets
    BY DEF Identity!Draw, IdentityInv, Identity!TypeOK, IdentityAssumed
  <1> QED  BY <1>1 DEF Identity!Draw, IdentityInv, Identity!TypeOK, Identity!Ticket

LEMMA ManageStep ==
  ASSUME IdentityAssumed, IdentityInv, NEW r \in Requests, Identity!Manage(r)
  PROVE  IdentityInv'
  <1>0. Fit(Identity!Idle, made) /\ Fit(request[r], made)
    BY IdleFit, FieldsOf DEF IdentityInv, Identity!TypeOK
  <1>1. CASE \E s \in Sessions, stage \in Identity!Wanting,
             n \in Names : Identity!Act(r, s, stage, n)
    BY <1>1, ActStep
  <1>2. CASE Identity!EnsureIdentity(r)  BY <1>2, EnsureStep
  <1>3. CASE Identity!IdentityLinkAccount(r)  BY <1>3, LinkStep
  <1>4. CASE Identity!IdentitySwitchAccount(r)
    <2> DEFINE s == request[r].session
               n == request[r].name
    <2>1. s \in Sessions /\ n \in Names
      BY <1>0, <1>4
      DEF Identity!IdentitySwitchAccount, Identity!Ready, Fit
    <2>2. session' \in [Sessions -> SessionRow(made) \cup {None}]
      <3>1. CASE session' = session  BY <3>1 DEF IdentityInv, Identity!TypeOK, SessionRow
      <3>2. CASE Identity!Live(s)
                 /\ session' = [session EXCEPT ![s].name = n, ![s].stepped = FALSE]
        <4>1. session[s] \in SessionRow(made)
          BY <2>1, <3>2 DEF IdentityInv, Identity!TypeOK, SessionRow, Identity!Live
        <4>2. [session[s] EXCEPT !.name = n, !.stepped = FALSE] \in SessionRow(made)
          BY <2>1, <4>1 DEF SessionRow
        <4> HIDE DEF s, n
        <4>3. session' = [session EXCEPT ![s] = [session[s] EXCEPT !.name = n, !.stepped = FALSE]]
          BY <3>2, <2>1 DEF IdentityInv, Identity!TypeOK
        <4> QED  BY <2>1, <4>2, <4>3 DEF IdentityInv, Identity!TypeOK, SessionRow
      <3> QED  BY <1>4, <3>1, <3>2 DEF Identity!IdentitySwitchAccount
    <2> QED  BY <1>4, <2>2, SessionStep DEF Identity!IdentitySwitchAccount
  <1>5. CASE Identity!IdentityPromoteAccount(r)  BY <1>5, PromoteStep
  <1>6. CASE Identity!LookBeforeUnlink(r)
    <2>1. CASE Identity!Done(r)  BY <1>6, <2>1, EndStep DEF Identity!LookBeforeUnlink
    <2>2. CASE request' = [request EXCEPT ![r].at = "delete"]
      <3> DEFINE new == [request[r] EXCEPT !.at = "delete"]
      <3>1. request' = [request EXCEPT ![r] = new]
        BY <2>2, FieldsOf
      <3>2. request[r].at = "unlink" /\ request[r].mine # None
        BY <1>6 DEF Identity!LookBeforeUnlink, Identity!Ready
      <3>3. Fit(new, made)
        BY <1>0, <3>2 DEF Fit, Identity!Request, Identity!Stages, Identity!Wanting
      <3> HIDE DEF new
      <3> QED  BY <1>6, <3>1, <3>3, IdentityQuietStep DEF Identity!LookBeforeUnlink
    <2> QED  BY <1>6, <2>1, <2>2 DEF Identity!LookBeforeUnlink
  <1>7. CASE Identity!IdentityUnlinkAccount(r)  BY <1>7, UnlinkStep
  <1>8. ASSUME NEW u \in Users, Identity!IdentityUnlinkProvider(r, u) PROVE IdentityInv'
    <2>1. /\ request' = [request EXCEPT ![r] = Identity!Idle]
          /\ \A v \in Users : provider'[v] = IF v = u THEN None ELSE provider[v]
          /\ provider' \in [Users -> 1 .. made \cup {None}]
          /\ asked' = {p \in asked : p[1] # u}
          /\ UNCHANGED <<made, member, session, ticket, drawn, passkey>>
      BY <1>8 DEF Identity!IdentityUnlinkProvider, Identity!Forget, Identity!Done,
        IdentityInv, Identity!TypeOK
    <2>2. \A k \in Keys : k # u  BY DEF IdentityAssumed
    <2>3. Identity!AddedByOwner'  BY <2>1, <2>2 DEF IdentityInv, Identity!AddedByOwner
    <2> QED  BY <1>0, <2>1, <2>3, OwnerStep DEF IdentityInv, Identity!TypeOK
  <1>9. ASSUME NEW k \in Keys, Identity!PasskeyDelete(r, k) PROVE IdentityInv'
    <2>1. /\ request' = [request EXCEPT ![r] = Identity!Idle]
          /\ \A j \in Keys : passkey'[j] = IF j = k THEN None ELSE passkey[j]
          /\ passkey' \in [Keys -> [identity : 1 .. made, count : Identity!Counts] \cup {None}]
          /\ asked' = {p \in asked : p[1] # k}
          /\ UNCHANGED <<made, member, session, ticket, drawn, provider>>
      BY <1>9
      DEF Identity!PasskeyDelete, Identity!Forget, Identity!Done, IdentityInv, Identity!TypeOK
    <2>2. \A u \in Users : k # u  BY DEF IdentityAssumed
    <2>3. Identity!AddedByOwner'  BY <2>1, <2>2 DEF IdentityInv, Identity!AddedByOwner
    <2> QED  BY <1>0, <2>1, <2>3, OwnerStep DEF IdentityInv, Identity!TypeOK
  <1>10. CASE Identity!StartLink(r)
    <2> DEFINE i == request[r].mine
    <2>0. i \in 1 .. made /\ made \in 0 .. MaxIdentities /\ MaxIdentities \in Nat
      BY <1>0, <1>10, FieldsOf DEF Identity!StartLink, Fit, IdentityAssumed
    <2> HIDE DEF i
    <2>1. i \in Identity!Ids  BY <2>0 DEF Identity!Ids
    <2> USE DEF i
    <2>2. ticket' \subseteq Identity!Ticket /\ drawn' \in 0 .. MaxTickets
      BY <1>10, <2>1, DrawType DEF Identity!StartLink, Identity!Flows
    <2> QED  BY <1>0, <1>10, <2>2, TicketStep DEF Identity!StartLink, Identity!Done
  <1>11. CASE Identity!Refuse(r)  BY <1>11, EndStep DEF Identity!Refuse
  <1> QED
    BY <1>1, <1>2, <1>3, <1>4, <1>5, <1>6, <1>7, <1>8, <1>9, <1>10, <1>11 DEF Identity!Manage

LEMMA ConsumeType ==
  ASSUME IdentityInv, NEW t \in ticket, Identity!Consume(t)
  PROVE  /\ ticket' \subseteq Identity!Ticket /\ t \in Identity!Ticket
         /\ t.identity \in Identity!Ids \cup {None} /\ t.flow \in Identity!Flows
  BY DEF Identity!Consume, IdentityInv, Identity!TypeOK, Identity!Ticket

LEMMA CallbackStep ==
  ASSUME IdentityAssumed, IdentityInv, NEW r \in Requests, NEW t \in ticket,
         NEW s \in Sessions \cup {None}, Identity!OAuthCallback(r, t, s)
  PROVE  IdentityInv'
  <1> DEFINE f == t.flow
             i == t.identity
             new == [Identity!Idle EXCEPT !.at = "exchange", !.session = s, !.flow = f, !.identity = i]
  <1>1. /\ request' = [request EXCEPT ![r] = new] /\ f \in {"login", "link"}
           /\ Identity!Consume(t)
        /\ UNCHANGED <<made, member, session, drawn, provider, passkey, asked>>
    BY DEF Identity!OAuthCallback
  <1>2. ticket' \subseteq Identity!Ticket /\ i \in Identity!Ids \cup {None}
        /\ drawn' \in 0 .. MaxTickets
    BY <1>1, ConsumeType DEF IdentityInv, Identity!TypeOK
  <1> HIDE DEF f, i
  <1>a. f \in Identity!Flows  BY <1>1 DEF Identity!Flows
  <1>3. /\ new \in Identity!Request /\ new.at = "exchange" /\ new.flow = f /\ new.mine = None
    BY <1>a, <1>2, IdleFields, ZenonT(40) DEF Identity!Request, Identity!Stages
  <1> HIDE DEF new
  <1>4. Fit(new, made)
    BY <1>1, <1>3 DEF Fit, Identity!Wanting
  <1> QED  BY <1>1, <1>2, <1>4, TicketStep

LEMMA RegistrationStep ==
  ASSUME IdentityAssumed, IdentityInv, NEW r \in Requests, NEW t \in ticket,
         NEW s \in Sessions, NEW k \in Keys, Identity!FinishRegistration(r, t, s, k)
  PROVE  IdentityInv'
  <1> DEFINE n == session[s].name
             i == t.identity
             new == [Identity!Idle EXCEPT !.at = "finish", !.session = s, !.active = n, !.key = k,
                                 !.identity = i]
  <1>1. /\ request' = [request EXCEPT ![r] = new] /\ Identity!Live(s) /\ Identity!Consume(t)
        /\ UNCHANGED <<made, member, session, drawn, provider, passkey, asked>>
    BY DEF Identity!FinishRegistration
  <1>2. /\ ticket' \subseteq Identity!Ticket /\ i \in Identity!Ids \cup {None}
           /\ drawn' \in 0 .. MaxTickets
        /\ n \in Names
    BY <1>1, ConsumeType DEF IdentityInv, Identity!TypeOK, Identity!Live
  <1> HIDE DEF n, i
  <1>3. /\ new \in Identity!Request /\ new.at = "finish" /\ new.active = n /\ new.key = k
        /\ new.mine = None
    BY <1>1, <1>2, IdleFields, ZenonT(40) DEF Identity!Request, Identity!Stages, Identity!Wanting
  <1> HIDE DEF new
  <1>4. Fit(new, made)
    BY <1>1, <1>2, <1>3 DEF Fit
  <1> QED  BY <1>1, <1>2, <1>4, TicketStep

LEMMA ChallengeStep ==
  ASSUME IdentityAssumed, IdentityInv, NEW r \in Requests, NEW t \in ticket,
         NEW k \in Keys, Identity!ConsumeChallenge(r, t, k)
  PROVE  IdentityInv'
  <1> DEFINE new == [Identity!Idle EXCEPT !.at = "check", !.flow = "passkey", !.key = k]
  <1>1. /\ request' = [request EXCEPT ![r] = new] /\ Identity!Consume(t)
        /\ UNCHANGED <<made, member, session, drawn, provider, passkey, asked>>
    BY DEF Identity!ConsumeChallenge
  <1>2. ticket' \subseteq Identity!Ticket /\ drawn' \in 0 .. MaxTickets
    BY <1>1, ConsumeType DEF IdentityInv, Identity!TypeOK
  <1>3. new \in Identity!Request /\ new.at = "check" /\ new.key = k /\ new.mine = None
    BY IdleFields, ZenonT(40) DEF Identity!Request, Identity!Stages, Identity!Flows
  <1> HIDE DEF new
  <1>4. Fit(new, made)
    BY <1>3 DEF Fit, Identity!Wanting
  <1> QED  BY <1>1, <1>2, <1>4, TicketStep

LEMMA ReturnStep ==
  ASSUME IdentityAssumed, IdentityInv, NEW r \in Requests, Identity!Return(r)
  PROVE  IdentityInv'
  <1> DEFINE q == request[r]
  <1>0. /\ Fit(Identity!Idle, made) /\ Fit(q, made) /\ q \in Identity!Request
           /\ made \in 0 .. MaxIdentities
        /\ request \in [Requests -> Identity!Request] /\ MaxIdentities \in Nat
    BY IdleFit, FieldsOf DEF IdentityInv, Identity!TypeOK, IdentityAssumed
  <1>1. CASE \E t \in ticket, s \in Sessions \cup {None} : Identity!OAuthCallback(r, t, s)
    BY <1>1, CallbackStep
  <1>2. ASSUME NEW u \in Users, Identity!ExchangeCode(r, u) PROVE IdentityInv'
    <2>1. PICK x \in {"callback", "find"} :
            request' = [request EXCEPT ![r].user = u, ![r].at = x]
      BY <1>2 DEF Identity!ExchangeCode
    <2> DEFINE new == [q EXCEPT !.user = u, !.at = x]
    <2>2. request' = [request EXCEPT ![r] = new]  BY <1>0, <2>1
    <2>a. x \in Identity!Stages  BY DEF Identity!Stages
    <2>3. /\ new \in Identity!Request /\ new.at = x /\ new.user = u /\ new.mine = q.mine
          /\ new.flow = q.flow
      BY <1>0, <2>a DEF Identity!Request
    <2> HIDE DEF new
    <2>4. Fit(new, made)
      <3>1. q.at = "exchange"  BY <1>2 DEF Identity!ExchangeCode
      <3> QED  BY <1>0, <2>3, <3>1 DEF Fit, Identity!Wanting
    <2> QED  BY <1>2, <2>2, <2>4, IdentityQuietStep DEF Identity!ExchangeCode
  <1>3. CASE Identity!Reauthenticate(r)
    <2>1. CASE Identity!Done(r)  BY <1>3, <2>1, EndStep DEF Identity!Reauthenticate
    <2>2. CASE ~Identity!Done(r)
      <3> DEFINE s == q.session
                 n == session[s].name
                 new == [q EXCEPT !.at = "linkback", !.active = n]
      <3>1. /\ q.at = "callback" /\ s # None /\ Identity!Live(s)
            /\ request' = [request EXCEPT ![r].at = "linkback", ![r].active = n]
            /\ UNCHANGED <<made, member, session, ticket, drawn, provider, passkey, asked>>
        BY <1>3, <2>2 DEF Identity!Reauthenticate
      <3>2. n \in Names
        BY <1>0, <3>1
        DEF Identity!Request, Identity!Live, IdentityInv, Identity!TypeOK
      <3> HIDE DEF n
      <3>3. request' = [request EXCEPT ![r] = new]  BY <1>0, <3>1
      <3>4. /\ new \in Identity!Request /\ new.at = "linkback" /\ new.active = n
            /\ new.user = q.user /\ new.mine = q.mine
        BY <1>0, <3>2, ZenonT(40) DEF Identity!Request, Identity!Stages, Identity!Wanting
      <3> HIDE DEF new
      <3>5. Fit(new, made)
        BY <1>0, <3>1, <3>2, <3>4 DEF Fit
      <3> QED  BY <3>1, <3>3, <3>5, IdentityQuietStep
    <2> QED  BY <2>1, <2>2
  <1>4. CASE Identity!LinkExternalIdentity(r)
    <2> DEFINE u == q.user
               i == q.identity
    <2>1. /\ q.at = "linkback" /\ q.mine # None
          /\ request' = [request EXCEPT ![r] = Identity!Idle]
          /\ UNCHANGED <<made, member, session, ticket, drawn, passkey>>
      BY <1>4 DEF Identity!LinkExternalIdentity, Identity!Ready, Identity!Done
    <2>2. u \in Users /\ q.mine \in 1 .. made /\ 1 .. made \subseteq Identity!Ids
      BY <1>0, <2>1 DEF Fit, Identity!Ids
    <2>3. CASE UNCHANGED <<provider, asked>>
      BY <1>0, <2>1, <2>3, EndStep DEF Identity!Done
    <2>4. CASE /\ Identity!SameIdentity(r) /\ provider[u] \in {None, i}
               /\ \A v \in Users \ {u} : provider[v] # i
               /\ provider' = [provider EXCEPT ![u] = i]
               /\ asked' = asked \cup {<<u, q.mine>>}
      <3>1. i = q.mine /\ i \in 1 .. made  BY <2>2, <2>4 DEF Identity!SameIdentity
      <3> HIDE DEF u, i
      <3>2. /\ provider' \in [Users -> 1 .. made \cup {None}]
            /\ \A v \in Users : provider'[v] = IF v = u THEN i ELSE provider[v]
            /\ asked' \subseteq (Users \cup Keys) \X Identity!Ids
        BY <2>2, <2>4, <3>1 DEF IdentityInv, Identity!TypeOK
      <3>3. Identity!AddedByOwner'
        BY <2>1, <2>2, <2>4, <3>1, <3>2 DEF IdentityInv, Identity!AddedByOwner
      <3> QED  BY <1>0, <2>1, <3>2, <3>3, OwnerStep DEF IdentityInv, Identity!TypeOK
    <2> QED  BY <1>4, <2>3, <2>4 DEF Identity!LinkExternalIdentity
  <1>5. CASE Identity!FindProvider(r)
    <2>1. CASE Identity!Done(r)  BY <1>5, <2>1, EndStep DEF Identity!FindProvider
    <2>2. CASE ~Identity!Done(r)
      <3> DEFINE i == provider[q.user]
                 new == [q EXCEPT !.at = "account", !.identity = i]
      <3>1. /\ q.at = "find" /\ i # None
            /\ request' = [request EXCEPT ![r].at = "account", ![r].identity = i]
            /\ UNCHANGED <<made, member, session, ticket, drawn, provider, passkey, asked>>
        BY <1>5, <2>2 DEF Identity!FindProvider
      <3>2. i \in 1 .. made /\ 1 .. made \subseteq Identity!Ids
        BY <1>0, <3>1 DEF Fit, IdentityInv, Identity!TypeOK, Identity!Ids
      <3> HIDE DEF i
      <3>3. request' = [request EXCEPT ![r] = new]  BY <1>0, <3>1
      <3>4. /\ new \in Identity!Request /\ new.at = "account" /\ new.identity = i
            /\ new.flow = q.flow /\ new.mine = q.mine
        BY <1>0, <3>2, ZenonT(40) DEF Identity!Request, Identity!Stages
      <3> HIDE DEF new
      <3>5. Fit(new, made)
        BY <1>0, <3>1, <3>2, <3>4 DEF Fit, Identity!Wanting
      <3> QED  BY <3>1, <3>3, <3>5, IdentityQuietStep
    <2> QED  BY <2>1, <2>2
  <1>6. CASE \E t \in ticket, s \in Sessions,
             k \in Keys : Identity!FinishRegistration(r, t, s, k)
    BY <1>6, RegistrationStep
  <1>7. CASE \E t \in ticket, k \in Keys : Identity!ConsumeChallenge(r, t, k)
    BY <1>7, ChallengeStep
  <1>8. ASSUME NEW n \in Identity!Counts, Identity!StoreCredential(r, n) PROVE IdentityInv'
    <2> DEFINE k == q.key
               i == q.identity
               written == [identity |-> i, count |-> n]
    <2>1. /\ q.at = "finish" /\ q.mine # None
          /\ request' = [request EXCEPT ![r] = Identity!Idle]
          /\ UNCHANGED <<made, member, session, ticket, drawn, provider>>
      BY <1>8 DEF Identity!StoreCredential, Identity!Ready, Identity!Done
    <2>2. k \in Keys /\ q.mine \in 1 .. made /\ 1 .. made \subseteq Identity!Ids
      BY <1>0, <2>1 DEF Fit, Identity!Ids
    <2>3. CASE UNCHANGED <<passkey, asked>>
      BY <1>0, <2>1, <2>3, EndStep DEF Identity!Done
    <2>4. CASE /\ Identity!SameIdentity(r) /\ passkey[k] = None
               /\ passkey' = [passkey EXCEPT ![k] = written]
               /\ asked' = asked \cup {<<k, q.mine>>}
      <3>1. i = q.mine /\ i \in 1 .. made  BY <2>2, <2>4 DEF Identity!SameIdentity
      <3> HIDE DEF k, i
      <3>2. written.identity = i /\ written \in [identity : 1 .. made, count : Identity!Counts]
        BY <3>1
      <3> HIDE DEF written
      <3>3. /\ passkey' \in [Keys -> [identity : 1 .. made, count : Identity!Counts]
               \cup {None}]
            /\ \A j \in Keys : passkey'[j] = IF j = k THEN written ELSE passkey[j]
            /\ asked' \subseteq (Users \cup Keys) \X Identity!Ids
        BY <2>2, <2>4, <3>1, <3>2 DEF IdentityInv, Identity!TypeOK
      <3>4. Identity!AddedByOwner'
        BY <2>1, <2>2, <2>4, <3>1, <3>2, <3>3 DEF IdentityInv, Identity!AddedByOwner
      <3> QED  BY <1>0, <2>1, <3>3, <3>4, OwnerStep DEF IdentityInv, Identity!TypeOK
    <2> QED  BY <1>8, <2>3, <2>4 DEF Identity!StoreCredential
  <1>9. ASSUME NEW n \in Identity!Counts, Identity!CheckPasskey(r, n) PROVE IdentityInv'
    <2>1. CASE Identity!Done(r)  BY <1>9, <2>1, EndStep DEF Identity!CheckPasskey
    <2>2. CASE ~Identity!Done(r)
      <3> DEFINE k == q.key
                 i == passkey[k].identity
                 c == passkey[k].count
                 new == [q EXCEPT !.at = "account", !.identity = i, !.old = c, !.new = n]
      <3>1. /\ q.at = "check" /\ passkey[k] # None /\ Identity!Advanced(c, n)
            /\ request' = [request EXCEPT ![r].at = "account", ![r].identity = i,
                                          ![r].old = c, ![r].new = n]
            /\ UNCHANGED <<made, member, session, ticket, drawn, provider, passkey, asked>>
        BY <1>9, <2>2 DEF Identity!CheckPasskey
      <3>2. k \in Keys /\ i \in 1 .. made /\ c \in Identity!Counts
            /\ 1 .. made \subseteq Identity!Ids
        BY <1>0, <3>1 DEF Fit, IdentityInv, Identity!TypeOK, Identity!Ids
      <3> HIDE DEF i, c
      <3>3. request' = [request EXCEPT ![r] = new]  BY <1>0, <3>1
      <3>4. new \in Identity!Request /\ new.at = "account" /\ new.identity = i /\ new.old = c
            /\ new.new = n /\ new.key = k /\ new.mine = q.mine
        BY <1>0, <3>2, ZenonT(40) DEF Identity!Request, Identity!Stages
      <3> HIDE DEF new
      <3>5. Fit(new, made)
        BY <1>0, <3>1, <3>2, <3>4 DEF Fit, Identity!Wanting
      <3> QED  BY <3>1, <3>3, <3>5, IdentityQuietStep
    <2> QED  BY <2>1, <2>2
  <1>10. ASSUME NEW n \in Names, Identity!FindAccount(r, n) PROVE IdentityInv'
    <2> DEFINE x == IF q.flow = "passkey" THEN "advance" ELSE "issue"
               new == [q EXCEPT !.name = n, !.at = x]
    <2>1. /\ q.at = "account" /\ request' = [request EXCEPT ![r].name = n, ![r].at = x]
          /\ UNCHANGED <<made, member, session, ticket, drawn, provider, passkey, asked>>
      BY <1>10 DEF Identity!FindAccount
    <2>2. \/ x = "advance" /\ q.flow = "passkey"
          \/ x = "issue"
      OBVIOUS
    <2> HIDE DEF x
    <2>3. request' = [request EXCEPT ![r] = new]  BY <1>0, <2>1
    <2>4. Fit(new, made)
      BY <1>0, <2>1, <2>2 DEF Fit, Identity!Request, Identity!Stages, Identity!Wanting
    <2> HIDE DEF new
    <2> QED  BY <2>1, <2>3, <2>4, IdentityQuietStep
  <1>11. ASSUME NEW n \in Names, Identity!Login(r, n) PROVE IdentityInv'
    <2> DEFINE new == [Identity!Idle EXCEPT !.at = "login", !.active = n, !.name = n]
    <2>1. /\ new \in Identity!Request /\ new.at = "login" /\ new.active = n /\ new.name = n
          /\ new.mine = None
      BY IdleFields DEF Identity!Request, Identity!Stages, Identity!Wanting
    <2>2. request' = [request EXCEPT ![r] = new]  BY <1>11 DEF Identity!Login
    <2> HIDE DEF new
    <2>3. Fit(new, made)
      BY <2>1 DEF Fit
    <2> QED  BY <1>11, <2>2, <2>3, IdentityQuietStep DEF Identity!Login
  <1>12. CASE Identity!AdvanceCounter(r)
    <2> DEFINE k == q.key
               new == [q EXCEPT !.at = "issue"]
    <2>1. /\ q.at = "advance" /\ request' = [request EXCEPT ![r].at = "issue"]
          /\ passkey' = IF Identity!Unmoved(k, q.old) THEN [passkey EXCEPT ![k].count = q.new]
                                             ELSE passkey
          /\ UNCHANGED <<made, member, session, ticket, drawn, provider, asked>>
      BY <1>12 DEF Identity!AdvanceCounter
    <2>2. k \in Keys /\ q.new \in Identity!Counts  BY <1>0, <2>1 DEF Fit, Identity!Request
    <2>3. request' = [request EXCEPT ![r] = new]  BY <1>0, <2>1
    <2>4. Fit(new, made)
      BY <1>0, <2>1
      DEF Fit, Identity!Request, Identity!Stages, Identity!Wanting
    <2>5. /\ passkey' \in [Keys -> [identity : 1 .. made, count : Identity!Counts] \cup {None}]
          /\ \A j \in Keys :
               passkey'[j] # None => passkey[j] # None
               /\ passkey'[j].identity = passkey[j].identity
      <3>1. CASE passkey' = passkey  BY <3>1 DEF IdentityInv, Identity!TypeOK
      <3>2. CASE Identity!Unmoved(k, q.old) /\ passkey' = [passkey EXCEPT ![k].count = q.new]
        <4>1. passkey[k] \in [identity : 1 .. made, count : Identity!Counts]
              /\ passkey[k] # None
          BY <2>2, <3>2 DEF Identity!Unmoved, IdentityInv, Identity!TypeOK
        <4> DEFINE written == [passkey[k] EXCEPT !.count = q.new]
        <4>2. written \in [identity : 1 .. made, count : Identity!Counts]
              /\ written.identity = passkey[k].identity
          BY <2>2, <4>1
        <4>3. passkey' = [passkey EXCEPT ![k] = written]
          BY <2>2, <3>2 DEF IdentityInv, Identity!TypeOK
        <4> HIDE DEF written
        <4> QED  BY <2>2, <4>1, <4>2, <4>3 DEF IdentityInv, Identity!TypeOK
      <3> QED  BY <2>1, <3>1, <3>2
    <2>6. Identity!AddedByOwner'  BY <2>1, <2>5 DEF IdentityInv, Identity!AddedByOwner
    <2> HIDE DEF new
    <2> QED  BY <2>1, <2>3, <2>4, <2>5, <2>6, OwnerStep DEF IdentityInv, Identity!TypeOK
  <1>13. ASSUME NEW s \in Sessions, Identity!IssuePortalSession(r, s) PROVE IdentityInv'
    <2> DEFINE i == IF q.at = "login" THEN q.mine ELSE q.identity
               written == [name |-> q.name, identity |-> i, stepped |-> FALSE]
    <2>1. /\ q.at = "issue" \/ (q.at = "login" /\ q.mine # None)
          /\ session' = [session EXCEPT ![s] = written] /\ Identity!Done(r)
          /\ UNCHANGED <<made, member, ticket, drawn, provider, passkey, asked>>
      BY <1>13 DEF Identity!IssuePortalSession, Identity!Ready
    <2>2. q.name \in Names /\ i \in 0 .. made
      BY <1>0, <2>1 DEF Fit
    <2> HIDE DEF i
    <2>3. written \in SessionRow(made)  BY <2>2 DEF SessionRow
    <2> HIDE DEF written
    <2>4. session' \in [Sessions -> SessionRow(made) \cup {None}]
      BY <2>1, <2>3 DEF IdentityInv, Identity!TypeOK, SessionRow
    <2> QED  BY <2>1, <2>4, SessionStep
  <1> QED
    BY <1>1, <1>2, <1>3, <1>4, <1>5, <1>6, <1>7, <1>8, <1>9, <1>10, <1>11, <1>12, <1>13
    DEF Identity!Return

LEMMA IdentityStep == IdentityAssumed /\ IdentityInv /\ [Identity!Next]_Identity!vars
  => IdentityInv'
  <1> SUFFICES ASSUME IdentityAssumed, IdentityInv, [Identity!Next]_Identity!vars PROVE IdentityInv'
    OBVIOUS
  <1>0. /\ RequestsFit /\ request \in [Requests -> Identity!Request]
        /\ session \in [Sessions -> SessionRow(made) \cup {None}]
        /\ ticket \subseteq Identity!Ticket /\ drawn \in 0 .. MaxTickets
    BY DEF IdentityInv, Identity!TypeOK, SessionRow
  <1>1. CASE \E r \in Requests : Identity!Manage(r)  BY <1>1, ManageStep
  <1>2. CASE \E r \in Requests : Identity!Return(r)  BY <1>2, ReturnStep
  <1>3. ASSUME NEW flow \in Identity!Flows, Identity!StartSignIn(flow) PROVE IdentityInv'
    <2>1. ticket' \subseteq Identity!Ticket /\ drawn' \in 0 .. MaxTickets
      BY <1>3, DrawType DEF Identity!StartSignIn
    <2>2. RequestsFit'  BY <1>0, <1>3 DEF Identity!StartSignIn, RequestsFit
    <2> QED  BY <1>0, <1>3, <2>1, <2>2, QuietTables DEF Identity!StartSignIn
  <1>4. ASSUME NEW t \in ticket, Identity!TicketExpires(t) PROVE IdentityInv'
    <2>1. RequestsFit'  BY <1>0, <1>4 DEF Identity!TicketExpires, RequestsFit
    <2> QED  BY <1>0, <1>4, <2>1, QuietTables DEF Identity!TicketExpires
  <1>5. ASSUME NEW s \in Sessions, Identity!StepUp(s) \/ Identity!Leave(s) PROVE IdentityInv'
    <2>1. session' \in [Sessions -> SessionRow(made) \cup {None}]
      <3>1. CASE Identity!Leave(s)  BY <1>0, <3>1 DEF Identity!Leave
      <3>2. CASE Identity!StepUp(s)
        <4> DEFINE b == ~session[s].stepped
        <4>1. session[s] \in SessionRow(made)  BY <1>0, <3>2 DEF Identity!StepUp, Identity!Live
        <4>2. session' = [session EXCEPT ![s].stepped = b] /\ b \in BOOLEAN
          BY <3>2, <4>1 DEF Identity!StepUp, SessionRow
        <4> HIDE DEF b
        <4>3. [session[s] EXCEPT !.stepped = b] \in SessionRow(made)
          BY <4>1, <4>2 DEF SessionRow
        <4> QED  BY <1>0, <4>2, <4>3
      <3> QED  BY <1>5, <3>1, <3>2
    <2>2. RequestsFit'  BY <1>0, <1>5 DEF Identity!StepUp, Identity!Leave, RequestsFit
    <2> QED  BY <1>0, <1>5, <2>1, <2>2, QuietTables DEF Identity!StepUp, Identity!Leave
  <1>6. CASE UNCHANGED Identity!vars
    <2>1. RequestsFit'  BY <1>0, <1>6 DEF Identity!vars, RequestsFit
    <2> QED  BY <1>0, <1>6, <2>1, QuietTables DEF Identity!vars
  <1> QED  BY <1>1, <1>2, <1>3, <1>4, <1>5, <1>6 DEF Identity!Next

(* Exactly one primary account, as Primaries says it, is a count of one.          *)
LEMMA PrimaryCount == Primaries => Identity!OnePrimary
  <1> SUFFICES ASSUME Primaries, NEW i \in 1 .. made
      PROVE  Cardinality({n \in {n \in Names : Identity!Linked(n)
             /\ Identity!Of(n) = i} : member[n].primary}) = 1
    BY SameCount DEF Identity!OnePrimary
  <1>1. PICK p \in Names :
          /\ Identity!Linked(p) /\ Identity!Of(p) = i /\ member[p].primary
          /\ \A q \in Names : Identity!Linked(q) /\ Identity!Of(q) = i /\ member[q].primary
             => q = p
    BY DEF Primaries
  <1>2. {n \in {n \in Names : Identity!Linked(n)
        /\ Identity!Of(n) = i} : member[n].primary} = {p}
    BY <1>1
  <1> QED  BY <1>2, FS_Singleton

CounterStep == \A k \in Keys :
  passkey[k] # None /\ passkey'[k] # None => passkey'[k].count >= passkey[k].count

LEMMA CountersRise == IdentityAssumed /\ IdentityInv /\ [Identity!Next]_Identity!vars
  => [CounterStep]_Identity!vars
  <1> SUFFICES ASSUME IdentityAssumed, IdentityInv, Identity!Next PROVE CounterStep
    BY DEF Identity!vars
  <1>0. \A k \in Keys : passkey[k] # None =>
          passkey[k] \in [identity : 1 .. made, count : Identity!Counts]
          /\ passkey[k].count \in Nat
    BY DEF IdentityInv, Identity!TypeOK, Identity!Counts
  <1>1. CASE passkey' = passkey  BY <1>0, <1>1 DEF CounterStep
  <1>2. ASSUME NEW r \in Requests, NEW k \in Keys, Identity!PasskeyDelete(r, k)
          PROVE CounterStep
    BY <1>0, <1>2 DEF Identity!PasskeyDelete, CounterStep, IdentityInv, Identity!TypeOK
  <1>3. ASSUME NEW r \in Requests, NEW n \in Identity!Counts, Identity!StoreCredential(r, n)
          PROVE CounterStep
    <2>1. Fit(request[r], made) /\ request[r].at = "finish"
      BY <1>3 DEF IdentityInv, RequestsFit, Identity!StoreCredential, Identity!Ready
    <2>2. request[r].key \in Keys  BY <2>1 DEF Fit
    <2>3. \A j \in Keys : passkey'[j] = passkey[j] \/ passkey[j] = None
      BY <1>3, <2>2 DEF Identity!StoreCredential, IdentityInv, Identity!TypeOK
    <2> QED  BY <1>0, <2>3 DEF CounterStep
  <1>4. ASSUME NEW r \in Requests, Identity!AdvanceCounter(r) PROVE CounterStep
    <2> DEFINE k == request[r].key
               new == request[r].new
    <2>1. /\ k \in Keys /\ new \in Identity!Counts /\ request[r].old \in Identity!Counts
          /\ Identity!Advanced(request[r].old, new)
      BY <1>4 DEF Identity!AdvanceCounter, IdentityInv, RequestsFit, Fit, Identity!Request
    <2>2. passkey' = IF Identity!Unmoved(k, request[r].old) THEN [passkey EXCEPT ![k].count = new]
                                                   ELSE passkey
      BY <1>4 DEF Identity!AdvanceCounter
    <2>3. CASE Identity!Unmoved(k, request[r].old)
      <3>1. passkey[k] # None /\ passkey[k].count = request[r].old
        BY <2>3 DEF Identity!Unmoved
      <3>2. new >= passkey[k].count
        BY <2>1, <3>1 DEF Identity!Advanced, Identity!Counts
      <3> HIDE DEF new, k
      <3>3. \A j \in Keys : passkey'[j] = passkey[j] \/ (j = k /\ passkey'[j].count = new)
        BY <1>0, <2>1, <2>2, <2>3, <3>1 DEF IdentityInv, Identity!TypeOK
      <3> QED  BY <1>0, <3>2, <3>3 DEF CounterStep
    <2> QED  BY <1>1, <2>2, <2>3
  <1>5. ASSUME NEW r \in Requests, Identity!Manage(r) PROVE CounterStep
    BY <1>1, <1>2, <1>5
    DEF Identity!Manage, Identity!Act, Identity!EnsureIdentity,
    Identity!IdentityLinkAccount, Identity!IdentitySwitchAccount,
        Identity!IdentityPromoteAccount, Identity!LookBeforeUnlink,
        Identity!IdentityUnlinkAccount,
        Identity!IdentityUnlinkProvider, Identity!StartLink, Identity!Refuse
  <1>6. ASSUME NEW r \in Requests, Identity!Return(r) PROVE CounterStep
    BY <1>1, <1>3, <1>4, <1>6
    DEF Identity!Return, Identity!OAuthCallback, Identity!ExchangeCode,
    Identity!Reauthenticate, Identity!LinkExternalIdentity,
        Identity!FindProvider, Identity!FinishRegistration, Identity!ConsumeChallenge,
        Identity!CheckPasskey, Identity!FindAccount, Identity!Login,
        Identity!IssuePortalSession
  <1> QED
    BY <1>1, <1>5, <1>6 DEF Identity!Next, Identity!StartSignIn, Identity!TicketExpires,
      Identity!StepUp, Identity!Leave

--------------------------------------------------------------------------------
(* Realm agent: no configuration is lost and no backup named that is not there, for*)
(* any calls, any table of settings, time-outs, failures, crashes and edits by hand.*)

(* The table "allowed" of agent.go: every setting has lines, no two share one.    *)
(* The mutex: one call at most is between its read and its write.                 *)
OneWorks == \A c, d \in Agent!Working : c = d

(* What an apply will overwrite is what it read, and behind Backup it is kept.    *)
AgentKept == \A c \in Calls :
  /\ call[c].agent = "kept" => call[c].data \in backups
  /\ c \in Agent!Working /\ settled => call[c].data = conf

(* A call carries a profile that the portal stored; once answered, the agent is   *)
(* done with it and what it replaced is kept.                                     *)
AgentCarried == \A c \in Calls :
  /\ call[c].agent # "none" \/ call[c].portal = "answered" => call[c].values \in Agent!Profiles
  /\ call[c].portal = "answered" => call[c].agent = "none"
  /\ call[c].portal = "answered" /\ call[c].route = "apply" => call[c].data \in backups

AgentInv ==
  Agent!TypeOK /\ OneWorks /\ AgentKept /\ AgentCarried /\ Agent!NothingLost
  /\ Agent!AuditRecoverable

--------------------------------------------------------------------------------
(* A file with the values of a profile shows them: replaceValues and inspect agree.*)
LEMMA ShowsWritten ==
  ASSUME TableOfSettings, NEW file \in Agent!Files, NEW p \in Agent!Profiles, NEW s \in Settings
  PROVE  Agent!Inspect(Agent!ReplaceValues(file, p))[s] = p[s] /\ p[s] # None
  <1> DEFINE written == Agent!ReplaceValues(file, p)
  <1>1. p[s] \in Values /\ p[s] # None
    BY DEF Agent!Profiles, TableOfSettings
  <1>2. \A l \in KeysOf[s] : written[l] = p[s]
    <2> SUFFICES ASSUME NEW l \in KeysOf[s] PROVE written[l] = p[s]
      OBVIOUS
    <2>1. l \in Lines /\ \A t \in Settings : l \in KeysOf[t] => t = s
      BY DEF TableOfSettings
    <2>2. (CHOOSE t \in Settings : l \in KeysOf[t]) = s
      BY <2>1
    <2> QED BY <2>1, <2>2 DEF Agent!ReplaceValues
  <1>3. PICK k : k \in KeysOf[s]
    BY DEF TableOfSettings
  <1> HIDE DEF written
  <1>4. \A v \in Values : (\A l \in KeysOf[s] : written[l] = v) <=> v = p[s]
    BY <1>1, <1>2, <1>3
  <1>5. (CHOOSE v \in Values : \A l \in KeysOf[s] : written[l] = v) = p[s]
    BY <1>1, <1>4
  <1>6. Agent!Inspect(written)[s] = p[s]
    BY <1>1, <1>2, <1>5 DEF Agent!Inspect
  <1> QED BY <1>1, <1>6 DEF written

LEMMA WritesFile ==
  ASSUME TableOfSettings, NEW file \in Agent!Files, NEW p \in Agent!Profiles
  PROVE  Agent!ReplaceValues(file, p) \in Agent!Files
  <1> SUFFICES ASSUME NEW l \in Lines, \E s \in Settings : l \in KeysOf[s]
      PROVE  p[CHOOSE s \in Settings : l \in KeysOf[s]] \in Values
      BY DEF Agent!ReplaceValues, Agent!Files
  <1> DEFINE t == CHOOSE s \in Settings : l \in KeysOf[s]
  <1>1. t \in Settings
    OBVIOUS
  <1> QED BY <1>1 DEF Agent!Profiles

LEMMA InspectType ==
  ASSUME NEW file
  PROVE  Agent!Inspect(file) \in [Settings -> Values \cup {None}]
  <1> SUFFICES ASSUME NEW s \in Settings, \E v \in Values : \A l \in KeysOf[s] : file[l] = v
      PROVE  (CHOOSE v \in Values : \A l \in KeysOf[s] : file[l] = v) \in Values
      BY DEF Agent!Inspect
  <1> QED OBVIOUS

LEMMA IdleType == TableOfSettings => Agent!Idle \in Agent!Call
  BY DEF TableOfSettings, Agent!Idle, Agent!Call, Agent!Unknown, Agent!NoFile, Agent!Files

LEMMA AgentInit == TableOfSettings /\ Agent!Init => AgentInv
  <1> SUFFICES ASSUME TableOfSettings, Agent!Init PROVE AgentInv
    OBVIOUS
  <1>1. Agent!TypeOK
    BY IdleType DEF Agent!Init, Agent!TypeOK
  <1>2. OneWorks /\ AgentKept /\ AgentCarried /\ Agent!NothingLost /\ Agent!AuditRecoverable
    BY DEF Agent!Init, Agent!Idle, Agent!Working, OneWorks, AgentKept, AgentCarried,
      Agent!NothingLost, Agent!AuditRecoverable
  <1> QED BY <1>1, <1>2 DEF AgentInv

--------------------------------------------------------------------------------
(* Steps of one call that leave the file as it is                                 *)
AgentSound(c, new) ==
  /\ new \in Agent!Call
  /\ new.agent \in {"read", "kept"} =>
       /\ \A d \in Agent!Working : d = c
       /\ settled' => new.data = conf
  /\ new.agent = "kept" => new.data \in backups'
  /\ new.agent # "none" \/ new.portal = "answered" => new.values \in Agent!Profiles
  /\ new.portal = "answered" => new.agent = "none"
  /\ new.portal = "answered" /\ new.route = "apply" =>
       /\ new.data \in backups'
       /\ \A s \in Settings : new.observed[s] = new.values[s] /\ new.observed[s] # None

LEMMA CallStep ==
  ASSUME AgentInv, NEW c \in Calls, NEW new, AgentSound(c, new),
         call' = [call EXCEPT ![c] = new],
         UNCHANGED <<conf, profile, lost>>, settled' \in BOOLEAN,
         settled' /\ ~settled => \A d \in Agent!Working : d = c,
         backups' \subseteq Agent!Files, backups \subseteq backups',
         audit' \subseteq Agent!Profiles \X Agent!Files, \A a \in audit' : a[2] \in backups'
  PROVE  AgentInv'
  <1>1. call'[c] = new /\ \A d \in Calls \ {c} : call'[d] = call[d]
    BY DEF AgentInv, Agent!TypeOK
  <1>2. Agent!TypeOK'
    BY DEF AgentInv, Agent!TypeOK, AgentSound
  <1>3. OneWorks'
    BY <1>1 DEF AgentInv, OneWorks, Agent!Working, AgentSound
  <1>4. AgentKept'
    <2> SUFFICES ASSUME NEW d \in Calls
        PROVE /\ call'[d].agent = "kept" => call'[d].data \in backups'
              /\ d \in Agent!Working' /\ settled' => call'[d].data = conf
        BY DEF AgentKept
    <2>1. CASE d = c
      BY <1>1, <2>1 DEF AgentSound, Agent!Working
    <2>2. CASE d # c
      BY <1>1, <2>2 DEF AgentInv, AgentKept, Agent!Working
    <2> QED BY <2>1, <2>2
  <1>5. AgentCarried'
    BY <1>1 DEF AgentInv, AgentCarried, AgentSound
  <1>6. Agent!NothingLost'
    BY DEF AgentInv, Agent!NothingLost
  <1>7. Agent!AuditRecoverable'
    <2> SUFFICES ASSUME NEW d \in Calls, NEW s \in Settings,
                        call'[d].portal = "answered", call'[d].route = "apply"
        PROVE  Agent!State(d, s)' = "in_sync"
        BY DEF Agent!AuditRecoverable
    <2>1. CASE d = c
      BY <1>1, <2>1 DEF AgentSound, Agent!State
    <2>2. CASE d # c
      BY <1>1, <2>2 DEF AgentInv, Agent!AuditRecoverable, Agent!State
    <2> QED BY <2>1, <2>2
  <1> QED BY <1>2, <1>3, <1>4, <1>5, <1>6, <1>7 DEF AgentInv

LEMMA AgentIdleSound ==
  ASSUME TableOfSettings, NEW c \in Calls
  PROVE  AgentSound(c, Agent!Idle)
  BY IdleType DEF AgentSound, Agent!Idle

(* The write: what is overwritten was read by this call, and kept.                *)
LEMMA WriteStep ==
  ASSUME TableOfSettings, AgentInv, NEW c \in Calls, Agent!AtomicWrite(c)
  PROVE  AgentInv'
  <1> DEFINE updated == Agent!ReplaceValues(call[c].data, call[c].values)
             new == IF call[c].portal = "waits"
                      THEN [call[c] EXCEPT !.agent = "none", !.observed = Agent!Inspect(updated),
                                           !.portal = "answered"]
                      ELSE Agent!Idle
  <1>1. /\ call[c] \in Agent!Call /\ call[c].agent = "kept" /\ c \in Agent!Working
        /\ call[c].data \in Agent!Files /\ call[c].values \in Agent!Profiles
           /\ call[c].data \in backups
        /\ settled => call[c].data = conf
        /\ \A d \in Calls \ {c} : d \notin Agent!Working
    BY DEF Agent!AtomicWrite, AgentInv, Agent!TypeOK, Agent!Call, AgentKept, AgentCarried,
      OneWorks, Agent!Working
  <1>2. updated \in Agent!Files
    BY <1>1, WritesFile
  <1>3. \A s \in Settings : Agent!Inspect(updated)[s] = call[c].values[s]
        /\ call[c].values[s] # None
    BY <1>1, ShowsWritten
  <1>4. Agent!Inspect(updated) \in [Settings -> Values \cup {None}]
    BY InspectType
  <1>5. /\ conf' = updated /\ settled' = TRUE /\ lost' = lost
        /\ call' = [call EXCEPT ![c] = new] /\ UNCHANGED <<backups, profile, audit>>
    BY <1>1 DEF Agent!AtomicWrite, Agent!Answer
  <1> HIDE DEF updated
  <1>6. /\ new \in Agent!Call /\ new.agent = "none"
        /\ new.portal = "answered" => /\ new.values = call[c].values /\ new.data = call[c].data
                                      /\ new.observed = Agent!Inspect(updated)
    BY <1>1, <1>4, IdleType DEF Agent!Call, Agent!Idle
  <1>7. call'[c] = new /\ \A d \in Calls \ {c} : call'[d] = call[d]
    BY <1>5 DEF AgentInv, Agent!TypeOK
  <1> HIDE DEF new
  <1>8. Agent!TypeOK'
    BY <1>2, <1>5, <1>6 DEF AgentInv, Agent!TypeOK
  <1>9. Agent!Working' = {}
    BY <1>1, <1>6, <1>7 DEF Agent!Working
  <1>10. OneWorks' /\ AgentKept'
    BY <1>9 DEF OneWorks, AgentKept, Agent!Working
  <1>11. AgentCarried'
    BY <1>1, <1>5, <1>6, <1>7 DEF AgentInv, AgentCarried
  <1>12. Agent!NothingLost'
    BY <1>5 DEF AgentInv, Agent!NothingLost
  <1>13. Agent!AuditRecoverable'
    <2>1. \A a \in audit' : a[2] \in backups'
      BY <1>5 DEF AgentInv, Agent!AuditRecoverable
    <2>2. ASSUME NEW d \in Calls, NEW s \in Settings,
                 call'[d].portal = "answered", call'[d].route = "apply"
          PROVE  Agent!State(d, s)' = "in_sync"
      <3>1. CASE d = c
        BY <1>3, <1>6, <1>7, <2>2, <3>1 DEF Agent!State
      <3>2. CASE d # c
        BY <1>7, <2>2, <3>2 DEF AgentInv, Agent!AuditRecoverable, Agent!State
      <3> QED BY <3>1, <3>2
    <2> QED BY <2>1, <2>2 DEF Agent!AuditRecoverable
  <1> QED BY <1>8, <1>10, <1>11, <1>12, <1>13 DEF AgentInv

LEMMA CrashStep ==
  ASSUME TableOfSettings, AgentInv, Agent!Crash
  PROVE  AgentInv'
  <1>1. \A c \in Calls : call'[c] = call[c] \/ call'[c] = Agent!Idle
    BY DEF Agent!Crash
  <1>2. UNCHANGED <<conf, backups, profile, audit, settled, lost>>
    BY DEF Agent!Crash, Agent!history
  <1>3. Agent!TypeOK'
    BY <1>2, IdleType DEF Agent!Crash, AgentInv, Agent!TypeOK
  <1>4. OneWorks' /\ AgentKept' /\ AgentCarried' /\ Agent!NothingLost'
    BY <1>1, <1>2 DEF AgentInv, OneWorks, AgentKept, AgentCarried, Agent!NothingLost,
      Agent!Working, Agent!Idle
  <1>5. Agent!AuditRecoverable'
    BY <1>1, <1>2 DEF AgentInv, Agent!AuditRecoverable, Agent!State, Agent!Idle
  <1> QED BY <1>3, <1>4, <1>5 DEF AgentInv

LEMMA AgentStep == TableOfSettings /\ AgentInv /\ [Agent!Next]_Agent!vars => AgentInv'
  <1> SUFFICES ASSUME TableOfSettings, AgentInv, [Agent!Next]_Agent!vars PROVE AgentInv'
    OBVIOUS
  <1>0. /\ backups \subseteq Agent!Files /\ audit \subseteq Agent!Profiles \X Agent!Files
           /\ settled \in BOOLEAN
        /\ \A a \in audit : a[2] \in backups
        /\ conf \in Agent!Files /\ profile \in Agent!Profiles
           /\ \A c \in Calls : call[c] \in Agent!Call
    BY DEF AgentInv, Agent!TypeOK, Agent!AuditRecoverable
  <1>1. ASSUME NEW c \in Calls, NEW route \in {"get", "apply"}, Agent!AdminRealmConfig(c, route)
        PROVE AgentInv'
    <2> DEFINE new == [portal |-> "waits", agent |-> "queued", route |-> route,
                       values |-> profile, data |-> Agent!NoFile, observed |-> Agent!Unknown]
    <2>1. AgentSound(c, new)
      BY <1>0
      DEF AgentSound, Agent!Call, Agent!Files, Agent!Profiles, Agent!NoFile, Agent!Unknown
    <2>2. call' = [call EXCEPT ![c] = new]
      BY <1>1 DEF Agent!AdminRealmConfig
    <2> HIDE DEF new
    <2> QED BY <1>0, <1>1, <2>1, <2>2, CallStep DEF Agent!AdminRealmConfig, Agent!history
  <1>2. ASSUME NEW c \in Calls, Agent!GiveUp(c) PROVE AgentInv'
    <2> DEFINE new == [call[c] EXCEPT !.portal = "gone"]
    <2>1. AgentSound(c, new)
      BY <1>0, <1>2 DEF Agent!GiveUp, AgentSound, Agent!Call, AgentInv, OneWorks, AgentKept,
        AgentCarried, Agent!Working, Agent!history
    <2>2. call' = [call EXCEPT ![c] = new]
      BY <1>2 DEF Agent!GiveUp
    <2> HIDE DEF new
    <2> QED BY <1>0, <1>2, <2>1, <2>2, CallStep DEF Agent!GiveUp, Agent!history
  <1>3. ASSUME NEW c \in Calls, NEW ok \in BOOLEAN, Agent!Record(c, ok) PROVE AgentInv'
    <2>1. /\ audit' \subseteq Agent!Profiles \X Agent!Files
          /\ \A a \in audit' : a[2] \in backups
      <3>1. call[c].portal = "answered"
        BY <1>3 DEF Agent!Record
      <3>2. CASE ok /\ call[c].route = "apply"
        <4>1. /\ call[c].values \in Agent!Profiles /\ call[c].data \in backups
          BY <3>1, <3>2 DEF AgentInv, AgentCarried
        <4>2. audit' = audit \cup {<<call[c].values, call[c].data>>}
          BY <1>3, <3>2 DEF Agent!Record
        <4> QED BY <1>0, <4>1, <4>2
      <3>3. CASE ~(ok /\ call[c].route = "apply")
        BY <1>0, <1>3, <3>3 DEF Agent!Record
      <3> QED BY <3>2, <3>3
    <2> QED BY <1>0, <1>3, <2>1, AgentIdleSound, CallStep DEF Agent!Record, Agent!history
  <1>4. ASSUME NEW c \in Calls, Agent!Get(c) PROVE AgentInv'
    <2> DEFINE new == IF call[c].portal = "waits"
                        THEN [call[c] EXCEPT !.agent = "none", !.observed = Agent!Inspect(conf),
                                             !.portal = "answered"]
                        ELSE Agent!Idle
    <2>1. AgentSound(c, new)
      <3>1. CASE call[c].portal = "waits"
        BY <1>0, <1>4, <3>1, InspectType
        DEF Agent!Get, AgentSound, Agent!Call, AgentInv, AgentCarried
      <3>2. CASE call[c].portal # "waits"
        BY <3>2, AgentIdleSound
      <3> QED BY <3>1, <3>2
    <2>2. call' = [call EXCEPT ![c] = new]
      BY <1>4 DEF Agent!Get, Agent!Answer
    <2> HIDE DEF new
    <2> QED BY <1>0, <1>4, <2>1, <2>2, CallStep DEF Agent!Get, Agent!history
  <1>5. ASSUME NEW c \in Calls, Agent!ReadConfig(c) PROVE AgentInv'
    <2> DEFINE new == [call[c] EXCEPT !.agent = "read", !.data = conf]
    <2>1. AgentSound(c, new)
      BY <1>0, <1>5
      DEF Agent!ReadConfig, Agent!MutexFree, AgentSound, Agent!Call, AgentInv, AgentCarried
    <2>2. call' = [call EXCEPT ![c] = new] /\ Agent!Working = {}
      BY <1>0, <1>5 DEF Agent!ReadConfig, Agent!MutexFree
    <2> HIDE DEF new
    <2> QED BY <1>0, <1>5, <2>1, <2>2, CallStep DEF Agent!ReadConfig
  <1>6. ASSUME NEW c \in Calls, Agent!Backup(c) PROVE AgentInv'
    <2> DEFINE new == [call[c] EXCEPT !.agent = "kept"]
    <2>1. /\ backups' = backups \cup {call[c].data} /\ call[c].data \in Agent!Files
          /\ settled' = settled
      BY <1>0, <1>6 DEF Agent!Backup, Agent!Call, Agent!history
    <2>2. AgentSound(c, new)
      BY <1>0, <1>6, <2>1
      DEF Agent!Backup, AgentSound, Agent!Call, AgentInv, OneWorks, AgentKept,
      AgentCarried, Agent!Working
    <2>3. call' = [call EXCEPT ![c] = new]
      BY <1>6 DEF Agent!Backup
    <2>4. /\ backups' \subseteq Agent!Files /\ backups \subseteq backups'
          /\ audit' \subseteq Agent!Profiles \X Agent!Files
          /\ \A a \in audit' : a[2] \in backups'
          /\ UNCHANGED <<conf, profile, lost>> /\ settled' \in BOOLEAN
      BY <1>0, <1>6, <2>1 DEF Agent!Backup, Agent!history
    <2> HIDE DEF new
    <2> QED BY <2>1, <2>2, <2>3, <2>4, CallStep
  <1>7. ASSUME NEW c \in Calls, Agent!AtomicWrite(c) PROVE AgentInv'
    BY <1>7, WriteStep
  <1>8. ASSUME NEW c \in Calls, Agent!Fail(c) PROVE AgentInv'
    BY <1>0, <1>8, AgentIdleSound, CallStep DEF Agent!Fail, Agent!history
  <1>9. CASE Agent!Crash
    BY <1>9, CrashStep
  <1>10. ASSUME NEW p \in Agent!Profiles, Agent!SaveSettings(p) PROVE AgentInv'
    BY <1>10 DEF Agent!SaveSettings, Agent!history, AgentInv, Agent!TypeOK, OneWorks,
      AgentKept, AgentCarried, Agent!NothingLost,
                 Agent!AuditRecoverable, Agent!Working, Agent!State
  <1>11. ASSUME NEW file \in Agent!Files, Agent!HandEdit(file) PROVE AgentInv'
    BY <1>11 DEF Agent!HandEdit, AgentInv, Agent!TypeOK, OneWorks, AgentKept, AgentCarried,
      Agent!NothingLost,
                 Agent!AuditRecoverable, Agent!Working, Agent!State
  <1>12. CASE UNCHANGED Agent!vars
    BY <1>12 DEF Agent!vars, AgentInv, Agent!TypeOK, OneWorks, AgentKept, AgentCarried,
      Agent!NothingLost,
                 Agent!AuditRecoverable, Agent!Working, Agent!State
  <1> QED
    BY <1>1, <1>2, <1>3, <1>4, <1>5, <1>6, <1>7, <1>8, <1>9, <1>10, <1>11, <1>12 DEF Agent!Next

--------------------------------------------------------------------------------
(* Competitive ingest: at-least-once delivery stores every result once, for any   *)
(* results and any number of deliveries under way.                                *)

Storing == {"match", "members", "kill", "commit"}

(* A delivery under way is about a result; one that answers found or stored it.   *)
IngestNamed == \A w \in Workers :
  /\ worker[w].at # "idle" => worker[w].result \in Results
  /\ worker[w].at = "answer" => worker[w].result \in claimed

(* A delivery between its claim and its commit is alone with a result that no     *)
(* table holds yet: this is what INSERT IGNORE on the id is for.                  *)
Alone == \A w \in Workers : worker[w].at \in Storing =>
  /\ worker[w].result \notin claimed
  /\ \A u \in Workers :
       worker[u].at \in Storing /\ worker[u].result = worker[w].result => u = w

(* Behind the members every one of them is in a table.                            *)
IngestJudged == \A w \in Workers :
  worker[w].at \in {"kill", "commit"} => worker[w].result \notin Flawed

(* What is on its way to the ranking has a guild and a raid size.                 *)
Eligible == \A w \in Workers :
  worker[w].at # "idle" /\ ~worker[w].short => worker[w].result \notin Ingest!Kills \cap Nameless

IngestInv ==
  Ingest!TypeOK /\ IngestNamed /\ Alone /\ IngestJudged /\ Eligible /\ Ingest!IngestedOnce

--------------------------------------------------------------------------------
(* A delivery that commits nothing touches its own record and what the collector  *)
(* knows; the invariant survives if the record is a sound one.                    *)
IngestSound(w, new) ==
  /\ new \in Ingest!Worker
  /\ new.at # "idle" => new.result \in Results
  /\ new.at = "answer" => new.result \in claimed
  /\ new.at \in Storing =>
       /\ new.result \notin claimed
       /\ \A u \in Workers \ {w} : worker[u].at \in Storing => worker[u].result # new.result
  /\ new.at \in {"kill", "commit"} => new.result \notin Flawed
  /\ new.at # "idle" /\ ~new.short => new.result \notin Ingest!Kills \cap Nameless

LEMMA IngestQuietStep ==
  ASSUME IngestInv, NEW w \in Workers, NEW new, IngestSound(w, new),
         worker' = [worker EXCEPT ![w] = new],
         UNCHANGED <<claimed, attempts, kills, ranked>>, admitted' \subseteq Results,
         acked' \subseteq claimed
  PROVE  IngestInv'
  <1>1. worker'[w] = new /\ \A u \in Workers \ {w} : worker'[u] = worker[u]
    BY DEF IngestInv, Ingest!TypeOK
  <1>2. Ingest!TypeOK'
    BY DEF IngestInv, Ingest!TypeOK, IngestSound
  <1>3. IngestNamed'
    BY <1>1 DEF IngestInv, IngestNamed, IngestSound
  <1>4. Alone'
    <2> SUFFICES ASSUME NEW v \in Workers, worker'[v].at \in Storing
        PROVE  /\ worker'[v].result \notin claimed
               /\ \A u \in Workers : worker'[u].at \in Storing
                    /\ worker'[u].result = worker'[v].result => u = v
        BY DEF Alone
    <2>1. CASE v = w
      BY <1>1, <2>1 DEF IngestSound
    <2>2. CASE v # w
      BY <1>1, <2>2 DEF IngestInv, Alone, IngestSound
    <2> QED BY <2>1, <2>2
  <1>5. IngestJudged'
    BY <1>1 DEF IngestInv, IngestJudged, IngestSound
  <1>6. Ingest!IngestedOnce'
    BY DEF IngestInv, Ingest!IngestedOnce, Ingest!Kills
  <1>7. Eligible'
    BY <1>1 DEF IngestInv, Eligible, IngestSound, Ingest!Kills
  <1> QED BY <1>2, <1>3, <1>4, <1>5, <1>6, <1>7 DEF IngestInv

--------------------------------------------------------------------------------
LEMMA IngestInit == Ingest!Init => IngestInv
  BY PortalAssumption
  DEF IngestAssumed, Ingest!Kills, Ingest!Init, Ingest!Idle, IngestInv, Ingest!TypeOK, Ingest!Worker,
    IngestNamed, Alone, IngestJudged, Eligible, Ingest!IngestedOnce, Storing

LEMMA IngestIdleSound ==
  ASSUME NEW w \in Workers
  PROVE  IngestSound(w, Ingest!Idle)
  BY DEF IngestSound, Ingest!Idle, Ingest!Worker, Storing

(* The one step that stores anything                                              *)
LEMMA CommitStep ==
  ASSUME IngestInv, NEW w \in Workers, Ingest!Commit(w)
  PROVE  IngestInv'
  <1> DEFINE e == worker[w].result
  <1>1. /\ worker[w].at = "commit" /\ e \in Results /\ e \notin claimed /\ e \notin Flawed
        /\ attempts[e] = 0 /\ kills[e] = 0
    BY DEF Ingest!Commit, IngestInv, IngestNamed, Alone, IngestJudged, Ingest!IngestedOnce,
      Storing
  <1>2. /\ claimed' = claimed \cup {e} /\ acked' = acked
        /\ attempts' = [attempts EXCEPT ![e] = @ + 1]
        /\ kills' = (IF e \in Ingest!Kills THEN [kills EXCEPT ![e] = @ + 1] ELSE kills)
        /\ \A f : f \in ranked' => f \in ranked \/ (f = e /\ e \in Ingest!Kills \ Nameless)
        /\ ranked' \subseteq Results /\ admitted' = admitted
    BY <1>1 DEF Ingest!Commit, IngestInv, Ingest!TypeOK, Eligible
  <1>3. /\ worker' = [worker EXCEPT ![w].at = "answer"]
        /\ worker'[w].at = "answer" /\ worker'[w].result = e
        /\ \A u \in Workers \ {w} : worker'[u] = worker[u]
    BY DEF Ingest!Commit, Ingest!Go, IngestInv, Ingest!TypeOK, Ingest!Worker
  <1> HIDE DEF e
  <1>4. Ingest!TypeOK'
    BY <1>1, <1>2, <1>3 DEF IngestInv, Ingest!TypeOK, Ingest!Worker
  <1>5. IngestNamed'
    BY <1>1, <1>2, <1>3 DEF IngestInv, IngestNamed
  <1>6. Alone'
    <2> SUFFICES ASSUME NEW v \in Workers, worker'[v].at \in Storing
        PROVE  /\ worker'[v].result \notin claimed'
               /\ \A u \in Workers : worker'[u].at \in Storing
                    /\ worker'[u].result = worker'[v].result => u = v
        BY DEF Alone
    <2>1. v # w /\ worker'[v] = worker[v] /\ worker[v].result # e
      BY <1>1, <1>3 DEF IngestInv, Alone, Storing, e
    <2> QED BY <1>2, <1>3, <2>1 DEF IngestInv, Alone, Storing
  <1>7. IngestJudged'
    BY <1>3 DEF IngestInv, IngestJudged
  <1>8. Ingest!IngestedOnce'
    <2> SUFFICES ASSUME NEW f \in Results
        PROVE  /\ attempts'[f] = (IF f \in claimed' THEN 1 ELSE 0)
               /\ kills'[f] = (IF f \in claimed' \cap Ingest!Kills THEN 1 ELSE 0)
               /\ f \in acked' => f \in claimed'
               /\ f \in Flawed => f \notin claimed'
               /\ f \in ranked' => kills'[f] = 1 /\ f \notin Nameless
        BY DEF Ingest!IngestedOnce, Ingest!Kills
    <2>1. CASE f = e
      BY <1>1, <1>2, <2>1 DEF IngestInv, Ingest!TypeOK, Ingest!IngestedOnce
    <2>2. CASE f # e
      BY <1>1, <1>2, <2>2 DEF IngestInv, Ingest!TypeOK, Ingest!IngestedOnce
    <2> QED BY <2>1, <2>2
  <1>9. Eligible'
    BY <1>1, <1>3 DEF IngestInv, Eligible, Ingest!Kills, Ingest!TypeOK, Ingest!Worker, e
  <1> QED BY <1>4, <1>5, <1>6, <1>7, <1>8, <1>9 DEF IngestInv

LEMMA IngestStep == IngestInv /\ [Ingest!Next]_Ingest!vars => IngestInv'
  <1> SUFFICES ASSUME IngestInv, [Ingest!Next]_Ingest!vars PROVE IngestInv'
    OBVIOUS
  <1>0. acked \subseteq claimed /\ admitted \subseteq Results
    BY DEF IngestInv, Ingest!TypeOK, Ingest!IngestedOnce
  <1>1. ASSUME NEW w \in Workers, NEW e \in Results, NEW short \in BOOLEAN,
               Ingest!Post(w, e, short)
        PROVE IngestInv'
    <2> DEFINE new == [at |-> "begin", result |-> e, short |-> short]
    <2>1. IngestSound(w, new)
      BY <1>1 DEF Ingest!Post, Ingest!MayRank, IngestSound, Ingest!Worker, Storing
    <2>2. worker' = [worker EXCEPT ![w] = new]
      BY <1>1 DEF Ingest!Post
    <2> QED BY <1>0, <1>1, <2>1, <2>2, IngestQuietStep DEF Ingest!Post, Ingest!Rows
  <1>2. ASSUME NEW w \in Workers, Ingest!ClaimEvent(w) PROVE IngestInv'
    <2> DEFINE new == [worker[w] EXCEPT !.at =
                         IF worker[w].result \in claimed THEN "answer" ELSE "match"]
    <2>1. IngestSound(w, new)
      BY <1>2 DEF Ingest!ClaimEvent, Ingest!KeyFree, IngestSound, IngestInv, Ingest!TypeOK,
        IngestNamed, Eligible, Ingest!Worker, Storing
    <2>2. worker' = [worker EXCEPT ![w] = new]
      BY <1>2 DEF Ingest!ClaimEvent, Ingest!Go
    <2> QED BY <1>0, <1>2, <2>1, <2>2, IngestQuietStep DEF Ingest!ClaimEvent, Ingest!Rows
  <1>3. ASSUME NEW w \in Workers, Ingest!StoreMatch(w) PROVE IngestInv'
    <2> DEFINE new == [worker[w] EXCEPT !.at = "members"]
    <2>1. IngestSound(w, new)
      BY <1>3 DEF Ingest!StoreMatch, IngestSound, IngestInv, Ingest!TypeOK, IngestNamed,
        Alone, Eligible, Ingest!Worker, Storing
    <2>2. worker' = [worker EXCEPT ![w] = new]
      BY <1>3 DEF Ingest!StoreMatch, Ingest!Go
    <2> QED BY <1>0, <1>3, <2>1, <2>2, IngestQuietStep DEF Ingest!StoreMatch, Ingest!Rows
  <1>4. ASSUME NEW w \in Workers, Ingest!StoreMembers(w) PROVE IngestInv'
    <2> DEFINE e == worker[w].result
               new == IF e \in Flawed THEN Ingest!Idle
                      ELSE [worker[w] EXCEPT !.at = IF e \in Ingest!Kills THEN "kill"
                      ELSE "commit"]
    <2>1. IngestSound(w, new)
      <3>1. CASE e \in Flawed
        BY <3>1, IngestIdleSound
      <3>2. CASE e \notin Flawed
        BY <1>4, <3>2
        DEF Ingest!StoreMembers, IngestSound, IngestInv, Ingest!TypeOK, IngestNamed, Alone,
        Eligible, Ingest!Worker, Storing
      <3> QED BY <3>1, <3>2
    <2>2. worker' = [worker EXCEPT ![w] = new]
      BY <1>4 DEF Ingest!StoreMembers, Ingest!Go, Ingest!Done
    <2> HIDE DEF new
    <2> QED BY <1>0, <1>4, <2>1, <2>2, IngestQuietStep DEF Ingest!StoreMembers, Ingest!Rows
  <1>5. ASSUME NEW w \in Workers, Ingest!StoreKill(w) PROVE IngestInv'
    <2> DEFINE new == [worker[w] EXCEPT !.at = "commit"]
    <2>1. IngestSound(w, new)
      BY <1>5 DEF Ingest!StoreKill, IngestSound, IngestInv, Ingest!TypeOK, IngestNamed,
        Alone, IngestJudged, Eligible, Ingest!Worker, Storing
    <2>2. worker' = [worker EXCEPT ![w] = new]
      BY <1>5 DEF Ingest!StoreKill, Ingest!Go
    <2> QED BY <1>0, <1>5, <2>1, <2>2, IngestQuietStep DEF Ingest!StoreKill, Ingest!Rows
  <1>6. ASSUME NEW w \in Workers, Ingest!Commit(w) PROVE IngestInv'
    BY <1>6, CommitStep
  <1>7. ASSUME NEW w \in Workers, NEW arrives \in BOOLEAN, Ingest!Answer(w, arrives)
        PROVE IngestInv'
    <2>1. acked' \subseteq claimed
      BY <1>0, <1>7 DEF Ingest!Answer, IngestInv, IngestNamed
    <2> QED BY <1>0, <1>7, <2>1, IngestIdleSound, IngestQuietStep
            DEF Ingest!Answer, Ingest!Done, Ingest!Rows
  <1>8. ASSUME NEW w \in Workers, Ingest!Abort(w) PROVE IngestInv'
    BY <1>0, <1>8, IngestIdleSound, IngestQuietStep DEF Ingest!Abort, Ingest!Done, Ingest!Rows
  <1>9. ASSUME NEW rules \in SUBSET Ingest!Kills, Ingest!SetRules(rules) PROVE IngestInv'
    BY <1>9
    DEF Ingest!SetRules, IngestInv, Ingest!TypeOK, IngestNamed, Alone, IngestJudged, Eligible,
    Ingest!IngestedOnce, Ingest!Kills
  <1>10. CASE UNCHANGED Ingest!vars
    BY <1>10 DEF Ingest!vars, IngestInv, Ingest!TypeOK, IngestNamed, Alone, IngestJudged,
      Eligible, Ingest!IngestedOnce, Ingest!Kills
  <1> QED
    BY <1>1, <1>2, <1>3, <1>4, <1>5, <1>6, <1>7, <1>8, <1>9, <1>10 DEF Ingest!Next

--------------------------------------------------------------------------------
(* Support: a ticket is stamped exactly while it is over, for any number of tickets*)
(* and staff, whose looks and writes are apart.                                   *)

(* Staff at work have read a ticket that exists; tickets are never deleted.       *)
Assigned == \A a \in Agents : agent[a].at # "idle" =>
  agent[a].ticket \in Cases /\ support[agent[a].ticket] # None

SupportInv == Support!TypeOK /\ Assigned /\ Support!ResolvedStamped

LEMMA SupportInit == SupportAssumed /\ Support!Init => SupportInv
  BY DEF SupportAssumed, Support!Init, Support!Idle, SupportInv, Support!TypeOK,
    Support!Agent, Support!Statuses, Support!Ticket, Assigned,
         Support!ResolvedStamped

LEMMA LogType ==
  ASSUME SupportAssumed, Support!TypeOK, NEW c \in Cases, Support!Log(c)
  PROVE  logged' \in [Cases -> 0 .. MaxReplies]
  <1>1. (IF logged[c] < MaxReplies THEN logged[c] + 1 ELSE logged[c]) \in 0 .. MaxReplies
    BY DEF SupportAssumed, Support!TypeOK
  <1> QED  BY <1>1 DEF Support!Log, Support!TypeOK

(* One row is written, stamped exactly if it is over, and no request starts.      *)
LEMMA SupportRowStep ==
  ASSUME SupportAssumed, SupportInv, NEW c \in Cases, NEW written \in Support!Ticket,
         written.stamped <=> written.status \in Support!Over,
         support' = [support EXCEPT ![c] = written],
         thread' \in [Cases -> [player : 0 .. MaxReplies, staff : 0 .. MaxReplies]],
         logged' \in [Cases -> 0 .. MaxReplies],
         agent' \in [Agents -> Support!Agent],
         \A a \in Agents : agent'[a].at # "idle" =>
           agent[a].at # "idle" /\ agent'[a].ticket = agent[a].ticket
  PROVE  SupportInv'
  <1>1. /\ support' \in [Cases -> Support!Ticket \cup {None}]
        /\ \A d \in Cases : support'[d] = IF d = c THEN written ELSE support[d]
        /\ written # None
    BY DEF SupportAssumed, SupportInv, Support!TypeOK
  <1>2. Support!TypeOK'  BY <1>1 DEF SupportInv, Support!TypeOK
  <1>3. Assigned'  BY <1>1 DEF SupportInv, Assigned
  <1>4. Support!ResolvedStamped'  BY <1>1 DEF SupportInv, Support!ResolvedStamped
  <1> QED  BY <1>2, <1>3, <1>4 DEF SupportInv

(* No ticket changes.                                                             *)
LEMMA DeskStep ==
  ASSUME SupportInv, NEW a \in Agents, NEW new \in Support!Agent, UNCHANGED support,
         thread' \in [Cases -> [player : 0 .. MaxReplies, staff : 0 .. MaxReplies]],
         logged' \in [Cases -> 0 .. MaxReplies],
         agent' = [agent EXCEPT ![a] = new],
         new.at # "idle" => new.ticket \in Cases /\ support[new.ticket] # None
  PROVE  SupportInv'
  <1>1. /\ agent' \in [Agents -> Support!Agent]
        /\ \A b \in Agents : agent'[b] = IF b = a THEN new ELSE agent[b]
    BY DEF SupportInv, Support!TypeOK
  <1>2. Support!TypeOK'  BY <1>1 DEF SupportInv, Support!TypeOK
  <1>3. Assigned'  BY <1>1 DEF SupportInv, Assigned
  <1>4. Support!ResolvedStamped'  BY DEF SupportInv, Support!ResolvedStamped
  <1> QED  BY <1>2, <1>3, <1>4 DEF SupportInv

LEMMA SupportStep == SupportAssumed /\ SupportInv /\ [Support!Next]_Support!vars => SupportInv'
  <1> SUFFICES ASSUME SupportAssumed, SupportInv, [Support!Next]_Support!vars PROVE SupportInv'
    OBVIOUS
  <1>0. Support!Idle \in Support!Agent  BY DEF Support!Idle, Support!Agent, Support!Statuses
  <1>1. ASSUME NEW c \in Cases, Support!TicketMessage(c) PROVE SupportInv'
    <2>1. /\ support[c] \in Support!Ticket
             /\ support' = [support EXCEPT ![c] = Support!Reopened(support[c])]
          /\ thread[c].player + 1 \in 0 .. MaxReplies
      BY <1>1 DEF Support!TicketMessage, SupportInv, Support!TypeOK, SupportAssumed
    <2>2. /\ Support!Reopened(support[c]) \in Support!Ticket
          /\ Support!Reopened(support[c]).stamped
             <=> Support!Reopened(support[c]).status \in Support!Over
      BY <2>1 DEF Support!Reopened, Support!Ticket, Support!Statuses, Support!Over
    <2>3. thread' \in [Cases -> [player : 0 .. MaxReplies, staff : 0 .. MaxReplies]]
      BY <1>1, <2>1 DEF Support!TicketMessage, SupportInv, Support!TypeOK
    <2>4. logged' \in [Cases -> 0 .. MaxReplies]
      BY <1>1, LogType DEF Support!TicketMessage, SupportInv
    <2> QED  BY <1>1, <2>1, <2>2, <2>3, <2>4, SupportRowStep
             DEF Support!TicketMessage, SupportInv, Support!TypeOK
  <1>2. ASSUME NEW c \in Cases, NEW messaged \in BOOLEAN, Support!CreateTicket(c, messaged)
        PROVE SupportInv'
    <2> DEFINE written == [status |-> "open", stamped |-> FALSE, first |-> FALSE]
    <2>1. written \in Support!Ticket /\ (written.stamped <=> written.status \in Support!Over)
      BY DEF Support!Ticket, Support!Statuses, Support!Over
    <2>2. thread' \in [Cases -> [player : 0 .. MaxReplies, staff : 0 .. MaxReplies]]
      BY <1>2 DEF Support!CreateTicket, SupportInv, Support!TypeOK, SupportAssumed
    <2>3. logged' \in [Cases -> 0 .. MaxReplies]
      BY <1>2, LogType DEF Support!CreateTicket, SupportInv, Support!TypeOK
    <2>4. support' = [support EXCEPT ![c] = written] /\ UNCHANGED agent
      BY <1>2 DEF Support!CreateTicket
    <2> HIDE DEF written
    <2> QED  BY <2>1, <2>2, <2>3, <2>4, SupportRowStep DEF SupportInv, Support!TypeOK
  <1>3. ASSUME NEW a \in Agents, NEW c \in Cases, NEW status \in Support!Statuses \cup {None},
               NEW replies \in BOOLEAN, Support!ReadTicket(a, c, status, replies)
        PROVE  SupportInv'
    <2> DEFINE s == IF status = None THEN support[c].status ELSE status
               new == [at |-> "update", ticket |-> c, replies |-> replies, status |-> s]
    <2>1. support[c] \in Support!Ticket /\ support[c] # None
      BY <1>3 DEF Support!ReadTicket, SupportInv, Support!TypeOK
    <2>2. s \in Support!Statuses  BY <2>1 DEF Support!Ticket
    <2>3. agent' = [agent EXCEPT ![a] = new] /\ UNCHANGED <<support, thread, logged>>
      BY <1>3 DEF Support!ReadTicket
    <2> HIDE DEF s
    <2>4. new \in Support!Agent /\ new.ticket = c  BY <2>2 DEF Support!Agent
    <2> HIDE DEF new
    <2> QED  BY <2>1, <2>3, <2>4, DeskStep DEF SupportInv, Support!TypeOK
  <1>4. ASSUME NEW a \in Agents, Support!WriteTicket(a) PROVE SupportInv'
    <2> DEFINE c == agent[a].ticket
               s == agent[a].status
               f == support[c].first \/ agent[a].replies
               o == s \in Support!Over
               written == [status |-> s, stamped |-> o, first |-> f]
               x == IF agent[a].replies THEN "message" ELSE "event"
    <2>1. /\ c \in Cases /\ support[c] \in Support!Ticket /\ agent[a] \in Support!Agent
      BY <1>4 DEF Support!WriteTicket, SupportInv, Support!TypeOK, Assigned
    <2>2. f \in BOOLEAN /\ o \in BOOLEAN /\ s \in Support!Statuses /\ x \in {"message", "event"}
      BY <2>1 DEF Support!Ticket, Support!Agent
    <2>3. support' = [support EXCEPT ![c] = written]
      BY <1>4, <2>1 DEF Support!WriteTicket, SupportInv, Support!TypeOK
    <2>4. agent' = [agent EXCEPT ![a].at = x] /\ UNCHANGED <<thread, logged>>
      BY <1>4 DEF Support!WriteTicket
    <2>5. written \in Support!Ticket /\ (written.stamped <=> written.status \in Support!Over)
      <3> HIDE DEF f, s
      <3>1. written.stamped = o /\ written.status = s  OBVIOUS
      <3>2. written \in Support!Ticket
        <4> HIDE DEF o
        <4> QED  BY <2>2 DEF Support!Ticket
      <3> QED  BY <3>1, <3>2
    <2>6. /\ agent' \in [Agents -> Support!Agent] /\ agent[a].at # "idle"
          /\ \A b \in Agents : agent'[b].ticket = agent[b].ticket
          /\ \A b \in Agents : b # a => agent'[b] = agent[b]
      <3> HIDE DEF x
      <3> QED  BY <1>4, <2>2, <2>4
               DEF SupportInv, Support!TypeOK, Support!Agent, Support!WriteTicket
    <2> HIDE DEF written, c
    <2> QED  BY <2>1, <2>3, <2>4, <2>5, <2>6, SupportRowStep DEF SupportInv, Support!TypeOK
  <1>5. ASSUME NEW a \in Agents, NEW fails \in BOOLEAN, Support!PostReply(a, fails)
          PROVE SupportInv'
    <2> DEFINE c == agent[a].ticket
               new == [agent[a] EXCEPT !.at = "event"]
    <2>1. /\ c \in Cases /\ support[c] # None /\ agent[a] \in Support!Agent
      BY <1>5 DEF Support!PostReply, SupportInv, Support!TypeOK, Assigned
    <2>2. new \in Support!Agent /\ new.ticket = c  BY <2>1 DEF Support!Agent
    <2>3. thread' \in [Cases -> [player : 0 .. MaxReplies, staff : 0 .. MaxReplies]]
      <3>1. CASE thread' = thread  BY <3>1 DEF SupportInv, Support!TypeOK
      <3>2. CASE thread[c].staff # MaxReplies /\ thread' = [thread EXCEPT ![c].staff = @ + 1]
        <4>0. thread[c].staff \in 0 .. MaxReplies /\ MaxReplies \in Nat
          BY <2>1 DEF SupportInv, Support!TypeOK, SupportAssumed
        <4>1. thread[c].staff + 1 \in 0 .. MaxReplies
          <5>1. \A k \in 0 .. MaxReplies : k # MaxReplies => k + 1 \in 0 .. MaxReplies
            BY <4>0
          <5> QED  BY <3>2, <4>0, <5>1
        <4> QED  BY <2>1, <3>2, <4>1 DEF SupportInv, Support!TypeOK
      <3> QED  BY <1>5, <3>1, <3>2 DEF Support!PostReply
    <2>4. agent' = [agent EXCEPT ![a] = new] /\ UNCHANGED <<support, logged>>
      BY <1>5 DEF Support!PostReply
    <2> HIDE DEF new
    <2> QED  BY <2>1, <2>2, <2>3, <2>4, DeskStep DEF SupportInv, Support!TypeOK
  <1>6. ASSUME NEW a \in Agents, Support!LogUpdate(a) \/ Support!Drop(a) PROVE SupportInv'
    <2>1. agent[a].ticket \in Cases
      BY <1>6
      DEF Support!LogUpdate, Support!Drop, SupportInv, Assigned
    <2>2. logged' \in [Cases -> 0 .. MaxReplies]
      BY <1>6, <2>1, LogType DEF Support!LogUpdate, Support!Drop, SupportInv, Support!TypeOK
    <2>3. /\ agent' = [agent EXCEPT ![a] = Support!Idle] /\ UNCHANGED <<support, thread>>
          /\ Support!Idle.at = "idle"
      BY <1>6 DEF Support!LogUpdate, Support!Drop, Support!Idle
    <2> QED  BY <1>0, <2>2, <2>3, DeskStep DEF SupportInv, Support!TypeOK
  <1>7. CASE UNCHANGED Support!vars
    BY <1>7 DEF Support!vars, SupportInv, Support!TypeOK, Assigned, Support!ResolvedStamped
  <1> QED  BY <1>1, <1>2, <1>3, <1>4, <1>5, <1>6, <1>7 DEF Support!Next

--------------------------------------------------------------------------------
(* Forms of players: as many stay open as were filed at one time, for any finite  *)
(* number of forms and requests.                                                  *)

(* What FewOpen counts: forms a count would see, and insertions it allowed.       *)
Blocking(s) == {f \in Forms \ excused : /\ form[f] # None /\ form[f].subject = s
                                        /\ form[f].status \notin Filed!Ending}
Filing(s) == {k \in Clerks : clerk[k] = [subject |-> s, counted |-> TRUE]}

FiledInv == Filed!TypeOK /\ Filed!FewOpen /\ Filed!StampsTrue

LEMMA FewOpenIs ==
  /\ Filed!FewOpen <=> \A s \in Subjects :
       Cardinality(Blocking(s)) + Cardinality(Filing(s)) <= Cardinality(Clerks)
  /\ Filed!FewOpen' <=> \A s \in Subjects :
       Cardinality(Blocking(s)') + Cardinality(Filing(s)') <= Cardinality(Clerks)
  BY SameCount DEF Filed!FewOpen, Blocking, Filing

LEMMA FiniteParts ==
  ASSUME FiledAssumed, NEW s
  PROVE  /\ IsFiniteSet(Blocking(s)) /\ IsFiniteSet(Filing(s))
         /\ IsFiniteSet(Blocking(s)') /\ IsFiniteSet(Filing(s)')
         /\ Cardinality(Blocking(s)) \in Nat /\ Cardinality(Filing(s)) \in Nat
         /\ Cardinality(Blocking(s)') \in Nat /\ Cardinality(Filing(s)') \in Nat
         /\ Cardinality(Clerks) \in Nat /\ Cardinality(Filing(s)') <= Cardinality(Clerks)
  <1>1. /\ Blocking(s) \subseteq Forms /\ Blocking(s)' \subseteq Forms
        /\ Filing(s) \subseteq Clerks /\ Filing(s)' \subseteq Clerks
    BY DEF Blocking, Filing
  <1>2. IsFiniteSet(Forms) /\ IsFiniteSet(Clerks)  BY DEF FiledAssumed
  <1>3. /\ IsFiniteSet(Blocking(s)) /\ IsFiniteSet(Blocking(s)')
        /\ IsFiniteSet(Filing(s)) /\ IsFiniteSet(Filing(s)')
        /\ Cardinality(Filing(s)') <= Cardinality(Clerks)
    BY <1>1, <1>2, FS_Subset
  <1> QED  BY <1>2, <1>3, FS_CardinalityType

(* A subject whose forms and filings do not grow keeps its bound.                 *)
LEMMA Shrinks ==
  ASSUME FiledAssumed, FiledInv, NEW s \in Subjects,
         Blocking(s)' \subseteq Blocking(s), Filing(s)' \subseteq Filing(s)
  PROVE  Cardinality(Blocking(s)') + Cardinality(Filing(s)') <= Cardinality(Clerks)
  <1>1. /\ Cardinality(Blocking(s)') <= Cardinality(Blocking(s))
        /\ Cardinality(Filing(s)') <= Cardinality(Filing(s))
    BY FiniteParts, FS_Subset
  <1>2. Cardinality(Blocking(s)) + Cardinality(Filing(s)) <= Cardinality(Clerks)
    BY FewOpenIs DEF FiledInv
  <1> QED  BY <1>1, <1>2, FiniteParts

LEMMA FiledInit == FiledAssumed /\ Filed!Init => FiledInv
  <1> SUFFICES ASSUME FiledAssumed, Filed!Init PROVE FiledInv  OBVIOUS
  <1>1. Filed!TypeOK  BY DEF FiledAssumed, Filed!Init, Filed!TypeOK, Filed!Clerk, Filed!Nothing
  <1>2. ASSUME NEW s \in Subjects
        PROVE  Cardinality(Blocking(s)) + Cardinality(Filing(s)) <= Cardinality(Clerks)
    <2>1. Blocking(s) = {} /\ Filing(s) = {}
      <3>1. Filed!Nothing # [subject |-> s, counted |-> TRUE]  BY DEF Filed!Nothing
      <3> QED  BY <3>1 DEF Blocking, Filing, Filed!Init
    <2> QED  BY <2>1, FS_EmptySet, FiniteParts
  <1>3. Filed!StampsTrue  BY DEF Filed!Init, Filed!StampsTrue
  <1> QED  BY <1>1, <1>2, <1>3, FewOpenIs DEF FiledInv

(* Only forms that no count sees may still be open when a count finds none.       *)
LEMMA OpenOrEnded ==
  ASSUME FiledAssumed, Filed!TypeOK, NEW f \in Forms, form[f] # None,
         form[f].status \notin Filed!Ending
  PROVE  Filed!IsOpen(f)
  <1>1. /\ form[f] \in Filed!Form
           /\ form[f].status \in Filed!StatusesOf(KindOf[form[f].subject])
        /\ KindOf[form[f].subject] \in Filed!Kinds
    BY DEF Filed!TypeOK, Filed!Form, FiledAssumed
  <1>2. CASE KindOf[form[f].subject] = "transfer"
    BY <1>1, <1>2 DEF Filed!IsOpen, Filed!StatusesOf, Filed!StaffStatuses,
      Filed!OpenStatuses, Filed!Ending, Filed!Endable, Filed!First
  <1>3. CASE KindOf[form[f].subject] = "privacy"
    BY <1>1, <1>3 DEF Filed!IsOpen, Filed!StatusesOf, Filed!StaffStatuses,
      Filed!OpenStatuses, Filed!Ending, Filed!Endable, Filed!First, Filed!Ended
  <1>4. CASE KindOf[form[f].subject] = "application"
    BY <1>1, <1>4 DEF Filed!IsOpen, Filed!StatusesOf, Filed!StaffStatuses,
      Filed!OpenStatuses, Filed!Ending, Filed!Endable, Filed!First, Filed!Ended
  <1> QED  BY <1>1, <1>2, <1>3, <1>4 DEF Filed!Kinds

(* A form is written with a status and a stamp of its kind.                       *)
LEMMA WriteForm ==
  ASSUME FiledAssumed, Filed!TypeOK, Filed!StampsTrue, NEW f \in Forms, NEW new \in Filed!Form,
         new.status \in Filed!StatusesOf(KindOf[new.subject]),
         KindOf[new.subject] = "transfer" => (new.status = "completed" => new.stamped),
         KindOf[new.subject] = "privacy" => (new.stamped <=> new.status = "completed"),
         KindOf[new.subject] = "application" => ~new.stamped,
         form' = [form EXCEPT ![f] = new], clerk' \in [Clerks -> Filed!Clerk],
         excused' \subseteq Forms, recruiting' = recruiting
  PROVE  /\ Filed!TypeOK' /\ Filed!StampsTrue' /\ new # None
         /\ \A g \in Forms : form'[g] = IF g = f THEN new ELSE form[g]
  <1>1. /\ form' \in [Forms -> Filed!Form \cup {None}] /\ new # None
        /\ \A g \in Forms : form'[g] = IF g = f THEN new ELSE form[g]
    BY DEF FiledAssumed, Filed!TypeOK
  <1>2. KindOf[new.subject] \in Filed!Kinds  BY DEF FiledAssumed, Filed!Form
  <1>3. Filed!TypeOK'  BY <1>1, <1>2 DEF Filed!TypeOK, Filed!Kinds
  <1>4. Filed!StampsTrue'  BY <1>1, <1>2 DEF Filed!StampsTrue, Filed!Kinds
  <1> QED  BY <1>1, <1>3, <1>4

LEMMA FormTypes ==
  ASSUME FiledAssumed, Filed!TypeOK, NEW f \in Forms, form[f] # None
  PROVE  /\ form[f] \in Filed!Form /\ form[f].subject \in Subjects
         /\ KindOf[form[f].subject] \in Filed!Kinds
         /\ form[f].status \in Filed!StatusesOf(KindOf[form[f].subject])
         /\ form[f].stamped \in BOOLEAN
         /\ form[f].stamped => KindOf[form[f].subject] # "application"
  BY DEF Filed!TypeOK, Filed!Form, FiledAssumed

LEMMA FiledStep == FiledAssumed /\ FiledInv /\ [Filed!Next]_Filed!vars => FiledInv'
  <1> SUFFICES ASSUME FiledAssumed, FiledInv, [Filed!Next]_Filed!vars PROVE FiledInv'  OBVIOUS
  <1>0. Filed!TypeOK /\ Filed!StampsTrue /\ Filed!Nothing \in Filed!Clerk
    BY DEF FiledInv, Filed!Nothing, Filed!Clerk
  <1>1. ASSUME NEW k \in Clerks, NEW s \in Subjects, NEW fails \in BOOLEAN,
               Filed!CountOpen(k, s, fails)
        PROVE  FiledInv'
    <2> DEFINE new == [subject |-> s, counted |-> ~fails]
    <2>1. /\ form' = form /\ excused' = excused /\ recruiting' = recruiting
          /\ clerk' = [clerk EXCEPT ![k] = new] /\ new \in Filed!Clerk /\ new.subject = s
      BY <1>1 DEF Filed!CountOpen, Filed!Clerk
    <2>1a. new.counted <=> ~fails  OBVIOUS
    <2> HIDE DEF new
    <2>2. Filed!TypeOK' /\ Filed!StampsTrue'
      BY <1>0, <2>1 DEF Filed!TypeOK, Filed!StampsTrue
    <2>3. \A j \in Clerks : clerk'[j] = IF j = k THEN new ELSE clerk[j]
      BY <1>0, <2>1 DEF Filed!TypeOK
    <2>4. ASSUME NEW t \in Subjects
          PROVE  Cardinality(Blocking(t)') + Cardinality(Filing(t)') <= Cardinality(Clerks)
      <3>1. Blocking(t)' = Blocking(t)  BY <2>1 DEF Blocking
      <3>2. CASE t # s \/ fails
        <4>1. Filing(t)' \subseteq Filing(t)
          <5>1. new # [subject |-> t, counted |-> TRUE]  BY <2>1, <2>1a, <3>2
          <5> QED  BY <2>3, <5>1 DEF Filing
        <4> QED  BY <3>1, <4>1, Shrinks
      <3>3. CASE t = s /\ ~fails
        <4>1. Blocking(s) = {}
          <5>1. Filed!OpenOn(s) = {}  BY <1>1, <3>3 DEF Filed!CountOpen
          <5> QED  BY <1>0, <5>1, OpenOrEnded DEF Filed!OpenOn, Blocking
        <4> QED  BY <3>1, <3>3, <4>1, FS_EmptySet, FiniteParts
      <3> QED  BY <3>2, <3>3
    <2> QED  BY <2>2, <2>4, FewOpenIs DEF FiledInv
  <1>2. ASSUME NEW k \in Clerks, NEW f \in Forms, Filed!InsertForm(k, f) PROVE FiledInv'
    <2> DEFINE s == clerk[k].subject
               new == [subject |-> s, stamped |-> FALSE, status |-> Filed!First(KindOf[s])]
    <2>1. s \in Subjects /\ KindOf[s] \in Filed!Kinds /\ form[f] = None
      BY <1>0, <1>2 DEF Filed!InsertForm, Filed!TypeOK, Filed!Clerk, FiledAssumed
    <2>2. /\ form' = [form EXCEPT ![f] = new] /\ clerk' = [clerk EXCEPT ![k] = Filed!Nothing]
          /\ recruiting' = recruiting
          /\ excused' = IF clerk[k].counted THEN excused ELSE excused \cup {f}
      BY <1>2 DEF Filed!InsertForm
    <2>3. new \in Filed!Form /\ new.status \in Filed!StatusesOf(KindOf[new.subject])
      BY <2>1 DEF Filed!Form, Filed!StatusesOf, Filed!First, Filed!Kinds
    <2>4. new.status # "completed" /\ ~new.stamped /\ new.subject = s
      BY DEF Filed!First
    <2> HIDE DEF new, s
    <2>5. clerk' \in [Clerks -> Filed!Clerk] /\ excused' \subseteq Forms
      BY <1>0, <2>2 DEF Filed!TypeOK
    <2>6. /\ Filed!TypeOK' /\ Filed!StampsTrue' /\ new # None
          /\ \A g \in Forms : form'[g] = IF g = f THEN new ELSE form[g]
      BY <1>0, <2>2, <2>3, <2>4, <2>5, WriteForm
    <2>7. \A j \in Clerks : clerk'[j] = IF j = k THEN Filed!Nothing ELSE clerk[j]
      BY <1>0, <2>2 DEF Filed!TypeOK
    <2>8. ASSUME NEW t \in Subjects
          PROVE  Cardinality(Blocking(t)') + Cardinality(Filing(t)') <= Cardinality(Clerks)
      <3>0. Filed!Nothing # [subject |-> t, counted |-> TRUE]  BY DEF Filed!Nothing
      <3>1. Filing(t)' = Filing(t) \ {k}  BY <2>7, <3>0 DEF Filing
      <3>2. CASE t # s \/ ~clerk[k].counted
        <4>1. Blocking(t)' \subseteq Blocking(t)
          BY <2>2, <2>4, <2>6, <3>2 DEF Blocking
        <4> QED  BY <3>1, <4>1, Shrinks
      <3>3. CASE t = s /\ clerk[k].counted
        <4>1. Blocking(t)' \subseteq Blocking(t) \cup {f}  BY <2>2, <2>6 DEF Blocking
        <4>2. k \in Filing(t)
          BY <1>0, <3>3 DEF Filing, Filed!TypeOK, Filed!Clerk, s
        <4>3. Cardinality(Filing(t)') = Cardinality(Filing(t)) - 1
          BY <3>1, <4>2, FiniteParts, FS_RemoveElement
        <4>4. Cardinality(Blocking(t)') <= Cardinality(Blocking(t)) + 1
          <5>1. /\ IsFiniteSet(Blocking(t) \cup {f})
                /\ Cardinality(Blocking(t) \cup {f}) \in {Cardinality(Blocking(t)),
                   Cardinality(Blocking(t)) + 1}
            BY FiniteParts, FS_AddElement
          <5>2. Cardinality(Blocking(t)') <= Cardinality(Blocking(t) \cup {f})
            BY <4>1, <5>1, FS_Subset
          <5> QED  BY <5>1, <5>2, FiniteParts
        <4>5. Cardinality(Blocking(t)) + Cardinality(Filing(t)) <= Cardinality(Clerks)
          BY FewOpenIs DEF FiledInv
        <4> QED  BY <4>3, <4>4, <4>5, FiniteParts
      <3> QED  BY <3>2, <3>3
    <2> QED  BY <2>6, <2>8, FewOpenIs DEF FiledInv
  <1>3. ASSUME NEW k \in Clerks, Filed!Drop(k) PROVE FiledInv'
    <2>1. /\ form' = form /\ excused' = excused /\ recruiting' = recruiting
          /\ clerk' \in [Clerks -> Filed!Clerk]
          /\ \A j \in Clerks : clerk'[j] = IF j = k THEN Filed!Nothing ELSE clerk[j]
      BY <1>0, <1>3 DEF Filed!Drop, Filed!TypeOK
    <2>2. Filed!TypeOK' /\ Filed!StampsTrue'  BY <1>0, <2>1 DEF Filed!TypeOK, Filed!StampsTrue
    <2>3. ASSUME NEW t \in Subjects
          PROVE  Cardinality(Blocking(t)') + Cardinality(Filing(t)') <= Cardinality(Clerks)
      <3>1. Filed!Nothing # [subject |-> t, counted |-> TRUE]  BY DEF Filed!Nothing
      <3>2. Filing(t)' \subseteq Filing(t)  BY <2>1, <3>1 DEF Filing
      <3>3. Blocking(t)' = Blocking(t)  BY <2>1 DEF Blocking
      <3> QED  BY <3>2, <3>3, Shrinks
    <2> QED  BY <2>2, <2>3, FewOpenIs DEF FiledInv
  <1>4. ASSUME NEW f \in Forms, NEW new \in Filed!Form, clerk' = clerk,
               Filed!TypeOK', Filed!StampsTrue',
               \A g \in Forms : form'[g] = IF g = f THEN new ELSE form[g],
               form[f] # None, new.subject = form[f].subject, excused \subseteq excused',
               new.status \notin Filed!Ending
               => form[f].status \notin Filed!Ending \/ f \in excused'
        PROVE  FiledInv'
    <2>1. ASSUME NEW t \in Subjects
          PROVE  Cardinality(Blocking(t)') + Cardinality(Filing(t)') <= Cardinality(Clerks)
      <3>1. Blocking(t)' \subseteq Blocking(t)  BY <1>4 DEF Blocking
      <3>2. Filing(t)' = Filing(t)  BY <1>4 DEF Filing
      <3> QED  BY <3>1, <3>2, Shrinks
    <2> QED  BY <1>4, <2>1, FewOpenIs DEF FiledInv
  <1>5. ASSUME NEW f \in Forms, Filed!PlayerEnds(f) PROVE FiledInv'
    <2> DEFINE kind == KindOf[form[f].subject]
               new == [form[f] EXCEPT !.status = Filed!Ended(kind)]
    <2>1. /\ form[f] # None /\ form[f] \in Filed!Form /\ kind \in Filed!Kinds
             /\ Filed!Endable(kind) # {}
          /\ form[f].status \in Filed!Endable(kind)
      BY <1>0, <1>5, FormTypes DEF Filed!PlayerEnds
    <2>2. /\ form' = [form EXCEPT ![f] = new] /\ UNCHANGED <<clerk, recruiting, excused>>
      BY <1>0, <1>5 DEF Filed!PlayerEnds, Filed!TypeOK
    <2>3. kind # "transfer" /\ Filed!Ended(kind) \in Filed!StatusesOf(kind) \cap Filed!Ending
      BY <2>1 DEF Filed!Endable, Filed!Ended, Filed!StatusesOf, Filed!Ending, Filed!Kinds
    <2>4. /\ new \in Filed!Form /\ new.subject = form[f].subject
             /\ new.status = Filed!Ended(kind)
          /\ new.stamped = form[f].stamped
      BY <2>1, <2>3 DEF Filed!Form
    <2>5. ~form[f].stamped
      <3>1. CASE kind = "privacy"
        <4>1. form[f].status = "pending"  BY <2>1, <3>1 DEF Filed!Endable
        <4> QED  BY <1>0, <2>1, <3>1, <4>1, FormTypes DEF Filed!StampsTrue
      <3>2. CASE kind = "application"  BY <1>0, <2>1, <3>2, FormTypes
      <3> QED  BY <2>1, <2>3, <3>1, <3>2 DEF Filed!Kinds
    <2>6. Filed!Ended(kind) # "completed"  BY DEF Filed!Ended
    <2> HIDE DEF new
    <2>7. /\ Filed!TypeOK' /\ Filed!StampsTrue'
          /\ \A g \in Forms : form'[g] = IF g = f THEN new ELSE form[g]
      <3>1. clerk' \in [Clerks -> Filed!Clerk] /\ excused' \subseteq Forms
        BY <1>0, <2>2 DEF Filed!TypeOK
      <3>2. /\ KindOf[new.subject] = "transfer" => (new.status = "completed" => new.stamped)
            /\ KindOf[new.subject] = "privacy" => (new.stamped <=> new.status = "completed")
            /\ KindOf[new.subject] = "application" => ~new.stamped
        BY <2>3, <2>4, <2>5, <2>6
      <3>3. new.status \in Filed!StatusesOf(KindOf[new.subject]) /\ recruiting' = recruiting
        BY <2>2, <2>3, <2>4
      <3> QED  BY <1>0, <2>2, <2>4, <3>1, <3>2, <3>3, WriteForm
    <2> QED  BY <1>4, <2>1, <2>2, <2>3, <2>4, <2>7
  <1>6. ASSUME NEW f \in Forms, form[f] # None,
               NEW status \in Filed!StaffStatuses(KindOf[form[f].subject]),
               Filed!StaffDecide(f, status)
        PROVE  FiledInv'
    <2> DEFINE kind == KindOf[form[f].subject]
               stamp == Filed!Stamp(form[f].stamped, kind, status)
               new == [form[f] EXCEPT !.status = status, !.stamped = stamp]
    <2>1. /\ form[f] \in Filed!Form /\ kind \in Filed!Kinds /\ form[f].stamped \in BOOLEAN
      BY <1>0, <1>6, FormTypes
    <2>2. /\ form' = [form EXCEPT ![f] = new] /\ UNCHANGED <<clerk, recruiting>>
          /\ excused' = IF form[f].status \in Filed!Ending /\ status \notin Filed!Ending
                          THEN excused \cup {f} ELSE excused
      BY <1>0, <1>6 DEF Filed!StaffDecide, Filed!TypeOK
    <2>3. status \in Filed!StatusesOf(kind)
          /\ status \in UNION {Filed!StatusesOf(x) : x \in Filed!Kinds}
      BY <1>6, <2>1 DEF Filed!StatusesOf
    <2>4. stamp \in BOOLEAN
      BY <2>1 DEF Filed!Stamp, Filed!Kinds
    <2>5. /\ kind = "transfer" => (status = "completed" => stamp)
          /\ kind = "privacy" => (stamp <=> status = "completed")
          /\ kind = "application" => ~stamp
      BY <2>1 DEF Filed!Stamp
    <2> HIDE DEF stamp
    <2>6. /\ new \in Filed!Form /\ new.subject = form[f].subject /\ new.status = status
          /\ new.stamped = stamp
      BY <2>1, <2>3, <2>4 DEF Filed!Form
    <2> HIDE DEF new
    <2>7. clerk' \in [Clerks -> Filed!Clerk] /\ excused' \subseteq Forms
          /\ excused \subseteq excused'
      BY <1>0, <2>2 DEF Filed!TypeOK
    <2>8. /\ Filed!TypeOK' /\ Filed!StampsTrue'
          /\ \A g \in Forms : form'[g] = IF g = f THEN new ELSE form[g]
      <3>2. /\ KindOf[new.subject] = "transfer" => (new.status = "completed" => new.stamped)
            /\ KindOf[new.subject] = "privacy" => (new.stamped <=> new.status = "completed")
            /\ KindOf[new.subject] = "application" => ~new.stamped
        BY <2>5, <2>6
      <3>3. new.status \in Filed!StatusesOf(KindOf[new.subject]) /\ recruiting' = recruiting
        BY <2>2, <2>3, <2>6
      <3> QED  BY <1>0, <2>2, <2>6, <2>7, <3>2, <3>3, WriteForm
    <2> QED  BY <1>4, <1>6, <2>2, <2>6, <2>7, <2>8
  <1>7. CASE Filed!AdminGuildRecruitment \/ UNCHANGED Filed!vars
    <2>1. form' = form /\ clerk' = clerk /\ excused' = excused /\ recruiting' \in BOOLEAN
      BY <1>0, <1>7 DEF Filed!AdminGuildRecruitment, Filed!vars, Filed!TypeOK
    <2>2. Filed!TypeOK' /\ Filed!StampsTrue'  BY <1>0, <2>1 DEF Filed!TypeOK, Filed!StampsTrue
    <2>3. \A t \in Subjects : Blocking(t)' = Blocking(t) /\ Filing(t)' = Filing(t)
      BY <2>1 DEF Blocking, Filing
    <2>4. Filed!FewOpen'  BY <2>3, FewOpenIs DEF FiledInv
    <2> QED  BY <2>2, <2>4 DEF FiledInv
  <1> QED  BY <1>1, <1>2, <1>3, <1>5, <1>6, <1>7 DEF Filed!Next

--------------------------------------------------------------------------------
(* Moderation: what the portal shows of it happened on the realm, for any entries,*)
(* targets and requests, and any loss of answers and rows.                        *)

(* None stands for a row that is not there.                                       *)
(* A request under way has written its entry; past the command, the realm carried *)
(* it out.                                                                        *)
StaffUnderway == \A m \in Moderators : moderator[m].at # "idle" =>
  /\ moderator[m].entry \in Entries /\ log[moderator[m].entry] # None
  /\ moderator[m].at \in {"executed", "record"} => moderator[m].entry \in carried

(* Only what was logged is carried out, or sanctioned.                            *)
StaffLogged == \A e \in Entries : e \in carried \/ sanction[e] # None => log[e] # None

(* A character service that reports a success ran.                                *)
StaffServed == pending.row.success => pending.row.ran

ModerationInv == Staff!TypeOK /\ StaffUnderway /\ StaffLogged /\ StaffServed
/\ Staff!SanctionsReal

--------------------------------------------------------------------------------
LEMMA ModerationInit == NoneApart /\ Staff!Init => ModerationInv
  BY DEF NoneApart, Staff!Init, Staff!Idle, Staff!NoService, ModerationInv, Staff!TypeOK,
    StaffUnderway, StaffLogged, StaffServed,
         Staff!SanctionsReal, Staff!Moderator, Staff!Service

(* A step that leaves every entry and every sanction as they are                  *)
LEMMA RequestStep ==
  ASSUME ModerationInv, UNCHANGED <<log, sanction, appeal, services, pending>>,
         NEW m \in Moderators, NEW new \in Staff!Moderator,
         moderator' = [moderator EXCEPT ![m] = new],
         carried' \subseteq Entries, carried \subseteq carried',
         \A e \in carried' : log[e] # None,
         new.at # "idle" => new.entry \in Entries,
         new.at # "idle" => log[new.entry] # None,
         new.at \in {"executed", "record"} => new.entry \in carried'
  PROVE  ModerationInv'
  <1>1. moderator'[m] = new /\ \A n \in Moderators \ {m} : moderator'[n] = moderator[n]
    BY DEF ModerationInv, Staff!TypeOK
  <1>2. Staff!TypeOK'
    BY DEF ModerationInv, Staff!TypeOK
  <1>3. StaffUnderway'
    BY <1>1 DEF ModerationInv, StaffUnderway
  <1>4. StaffLogged' /\ StaffServed'
    BY DEF ModerationInv, StaffLogged, StaffServed
  <1>5. Staff!SanctionsReal'
    BY DEF ModerationInv, Staff!SanctionsReal, Staff!TypeOK
  <1> QED BY <1>2, <1>3, <1>4, <1>5 DEF ModerationInv

LEMMA LogActionStep ==
  ASSUME NoneApart, ModerationInv, NEW m \in Moderators, NEW e \in Entries,
         NEW action \in Staff!Actions, NEW target \in Targets,
         Staff!LogAction(m, e, action, target)
  PROVE  ModerationInv'
  <1> DEFINE written == [action |-> action, target |-> target, status |-> "review"]
             new == [at |-> "command", entry |-> e]
  <1>1. /\ log[e] = None /\ e \notin carried /\ sanction[e] = None
        /\ written \in Staff!Entry /\ written # None /\ written.status # "executed"
    BY DEF Staff!LogAction, NoneApart, Staff!Entry, ModerationInv, StaffLogged
  <1>2. /\ log' = [log EXCEPT ![e] = written]
        /\ moderator' = [moderator EXCEPT ![m] = new]
        /\ UNCHANGED <<sanction, appeal, carried, services, pending>>
    BY DEF Staff!LogAction, Staff!Quiet
  <1>3. /\ log'[e] = written /\ \A f \in Entries \ {e} : log'[f] = log[f]
        /\ moderator'[m] = new /\ \A n \in Moderators \ {m} : moderator'[n] = moderator[n]
    BY <1>2 DEF ModerationInv, Staff!TypeOK
  <1>4. Staff!TypeOK'
    BY <1>1, <1>2 DEF ModerationInv, Staff!TypeOK, Staff!Moderator
  <1> HIDE DEF written
  <1>5. StaffUnderway'
    BY <1>1, <1>2, <1>3 DEF ModerationInv, StaffUnderway
  <1>6. StaffLogged' /\ StaffServed'
    BY <1>1, <1>2, <1>3 DEF ModerationInv, StaffLogged, StaffServed
  <1>7. Staff!SanctionsReal'
    <2> SUFFICES ASSUME NEW f \in Entries
        PROVE /\ log'[f] # None => (log'[f].status = "executed" => f \in carried)
              /\ sanction[f] # None => f \in carried /\ log'[f].action \in {"ban", "mute"}
              /\ sanction[f] = "lifted" => \E g \in carried :
                   log'[g].target = log'[f].target
                   /\ log'[g].action = Staff!Undoing(log'[f].action)
              /\ appeal[f] # None => sanction[f] # None
        BY <1>2 DEF Staff!SanctionsReal, ModerationInv
    <2>1. CASE f = e
      BY <1>1, <1>3, <2>1 DEF NoneApart, ModerationInv, Staff!SanctionsReal
    <2>2. CASE f # e
      BY <1>1, <1>3, <2>2 DEF ModerationInv, Staff!SanctionsReal, Staff!TypeOK
    <2> QED BY <2>1, <2>2
  <1> QED BY <1>4, <1>5, <1>6, <1>7 DEF ModerationInv

LEMMA CommandStep ==
  ASSUME ModerationInv, NEW m \in Moderators, NEW ran \in BOOLEAN, NEW answers \in BOOLEAN,
         Staff!Command(m, ran, answers)
  PROVE  ModerationInv'
  <1> DEFINE e == moderator[m].entry
             new == IF Staff!Confirmed(ran, answers) THEN [moderator[m] EXCEPT !.at = "executed"]
                    ELSE Staff!Idle
  <1>1. /\ e \in Entries /\ log[e] # None
        /\ carried' = (IF ran THEN carried \cup {e} ELSE carried)
    BY DEF Staff!Command, ModerationInv, StaffUnderway
  <1>2. /\ new \in Staff!Moderator
        /\ new.at # "idle" => new.entry = e
        /\ new.at \in {"executed", "record"} => e \in carried'
    BY <1>1 DEF Staff!Confirmed, Staff!Idle, Staff!Moderator, ModerationInv, Staff!TypeOK
  <1>3. moderator' = [moderator EXCEPT ![m] = new]
    BY DEF Staff!Command, Staff!Go
  <1>4. /\ carried' \subseteq Entries /\ carried \subseteq carried'
        /\ \A f \in carried' : log[f] # None
    BY <1>1 DEF ModerationInv, Staff!TypeOK, StaffLogged
  <1>5. UNCHANGED <<log, sanction, appeal, services, pending>>
    BY DEF Staff!Command, Staff!Quiet
  <1> HIDE DEF new
  <1> QED BY <1>1, <1>2, <1>3, <1>4, <1>5, RequestStep

LEMMA DropStep ==
  ASSUME ModerationInv, NEW m \in Moderators, Staff!Drop(m)
  PROVE  ModerationInv'
  <1>1. \A e \in carried : log[e] # None
    BY DEF ModerationInv, Staff!TypeOK, StaffLogged
  <1>2. Staff!Idle \in Staff!Moderator /\ Staff!Idle.at = "idle"
    BY DEF Staff!Idle, Staff!Moderator
  <1> QED BY <1>1, <1>2, RequestStep DEF Staff!Drop, Staff!Quiet, ModerationInv, Staff!TypeOK

LEMMA MarkStep ==
  ASSUME NoneApart, ModerationInv, NEW m \in Moderators, NEW fails \in BOOLEAN,
         Staff!MarkExecuted(m, fails)
  PROVE  ModerationInv'
  <1> DEFINE e == moderator[m].entry
             written == [log[e] EXCEPT !.status = "executed"]
  <1>1. /\ e \in Entries /\ log[e] \in Staff!Entry /\ e \in carried
        /\ written \in Staff!Entry /\ written # None
        /\ written.action = log[e].action /\ written.target = log[e].target
    BY DEF Staff!MarkExecuted, NoneApart, ModerationInv, StaffUnderway, Staff!TypeOK,
      Staff!Entry
  <1>2. /\ log' = log \/ log' = [log EXCEPT ![e] = written]
        /\ moderator' = [moderator EXCEPT ![m].at = "record"]
        /\ UNCHANGED <<sanction, appeal, carried, services, pending>>
    BY DEF Staff!MarkExecuted, Staff!Go, Staff!Quiet
  <1>3. /\ log' \in [Entries -> Staff!Entry \cup {None}]
        /\ \A f \in Entries : /\ log'[f] # None <=> log[f] # None
                              /\ log'[f].action = log[f].action
                              /\ log'[f].target = log[f].target
                              /\ f # e => log'[f] = log[f]
    BY <1>1, <1>2, ZenonT(40) DEF ModerationInv, Staff!TypeOK, NoneApart
  <1>4. /\ moderator' \in [Moderators -> Staff!Moderator]
        /\ moderator'[m].entry = e
        /\ \A n \in Moderators \ {m} : moderator'[n] = moderator[n]
    BY <1>1, <1>2 DEF ModerationInv, Staff!TypeOK, Staff!Moderator
  <1> HIDE DEF e, written
  <1>5. Staff!TypeOK'
    BY <1>2, <1>3, <1>4 DEF ModerationInv, Staff!TypeOK
  <1>6. StaffUnderway'
    <2>1. log'[e] # None
      BY <1>1, <1>3 DEF ModerationInv, StaffLogged
    <2> QED BY <1>1, <1>2, <1>3, <1>4, <2>1 DEF ModerationInv, StaffUnderway
  <1>7. StaffLogged' /\ StaffServed'
    BY <1>2, <1>3 DEF ModerationInv, StaffLogged, StaffServed
  <1>8. Staff!SanctionsReal'
    <2>1. \A f \in Entries : log'[f] # None => (log'[f].status = "executed" => f \in carried)
      BY <1>1, <1>3 DEF ModerationInv, Staff!SanctionsReal
    <2> QED BY <1>2, <1>3, <2>1 DEF ModerationInv, Staff!SanctionsReal, Staff!TypeOK
  <1> QED BY <1>5, <1>6, <1>7, <1>8 DEF ModerationInv

LEMMA RecordStep ==
  ASSUME NoneApart, ModerationInv, NEW m \in Moderators, Staff!RecordSanction(m)
  PROVE  ModerationInv'
  <1> DEFINE e == moderator[m].entry
             action == log[e].action
  <1>1. e \in Entries /\ e \in carried /\ log[e] \in Staff!Entry /\ log[e] # None
    BY DEF Staff!RecordSanction, ModerationInv, StaffUnderway, Staff!TypeOK
  <1>2. /\ moderator' = [moderator EXCEPT ![m] = Staff!Idle]
        /\ UNCHANGED <<log, appeal, carried, services, pending>>
    BY DEF Staff!RecordSanction, Staff!Quiet
  <1>3. /\ sanction' \in [Entries -> {"active", "lifted", None}]
        /\ \A f \in Entries :
             \/ sanction'[f] = sanction[f]
             \/ f = e /\ sanction'[f] = "active" /\ action \in {"ban", "mute"}
             \/ /\ sanction[f] = "active" /\ sanction'[f] = "lifted"
                /\ log[f].target = log[e].target /\ action = Staff!Undoing(log[f].action)
    <2> DEFINE lifts == {f \in Entries : /\ sanction[f] = "active"
                                         /\ log[f].target = log[e].target
                                         /\ action = Staff!Undoing(log[f].action)}
    <2>1. action \in Staff!Actions
      BY <1>1 DEF Staff!Entry
    <2>2. CASE action \in {"ban", "mute"}
      <3>1. sanction' = [sanction EXCEPT ![e] = "active"]
        BY <2>2 DEF Staff!RecordSanction
      <3> QED BY <1>1, <2>2, <3>1 DEF ModerationInv, Staff!TypeOK
    <2>3. CASE action \in {"unban", "unmute"}
      <3>1. sanction' = [f \in Entries |-> IF f \in lifts THEN "lifted" ELSE sanction[f]]
        BY <2>3 DEF Staff!RecordSanction
      <3> QED BY <3>1 DEF ModerationInv, Staff!TypeOK
    <2>4. CASE action = "kick"
      <3>1. sanction' = sanction
        BY <2>4 DEF Staff!RecordSanction
      <3> QED BY <3>1 DEF ModerationInv, Staff!TypeOK
    <2> QED BY <2>1, <2>2, <2>3, <2>4 DEF Staff!Actions
  <1>4. /\ moderator' \in [Moderators -> Staff!Moderator] /\ moderator'[m] = Staff!Idle
        /\ \A n \in Moderators \ {m} : moderator'[n] = moderator[n]
    BY <1>2 DEF ModerationInv, Staff!TypeOK, Staff!Moderator, Staff!Idle
  <1> HIDE DEF e
  <1>5. Staff!TypeOK'
    BY <1>2, <1>3, <1>4 DEF ModerationInv, Staff!TypeOK
  <1>6. StaffUnderway'
    BY <1>2, <1>4 DEF ModerationInv, StaffUnderway, Staff!Idle
  <1>7. StaffLogged' /\ StaffServed'
    BY <1>1, <1>2, <1>3 DEF ModerationInv, StaffLogged, StaffServed, NoneApart
  <1>8. Staff!SanctionsReal'
    <2> SUFFICES ASSUME NEW f \in Entries
        PROVE /\ log[f] # None => (log[f].status = "executed" => f \in carried)
              /\ sanction'[f] # None => f \in carried /\ log[f].action \in {"ban", "mute"}
              /\ sanction'[f] = "lifted" => \E g \in carried :
                   log[g].target = log[f].target /\ log[g].action = Staff!Undoing(log[f].action)
              /\ appeal[f] # None => sanction'[f] # None
        BY <1>2 DEF Staff!SanctionsReal, ModerationInv
    <2>1. CASE sanction'[f] = sanction[f]
      BY <2>1 DEF ModerationInv, Staff!SanctionsReal
    <2>2. CASE f = e /\ sanction'[f] = "active" /\ action \in {"ban", "mute"}
      BY <1>1, <2>2 DEF ModerationInv, Staff!SanctionsReal, NoneApart
    <2>3. CASE /\ sanction[f] = "active" /\ sanction'[f] = "lifted"
               /\ log[f].target = log[e].target /\ action = Staff!Undoing(log[f].action)
      BY <1>1, <2>3 DEF ModerationInv, Staff!SanctionsReal, NoneApart
    <2> QED BY <1>3, <2>1, <2>2, <2>3
  <1> QED BY <1>5, <1>6, <1>7, <1>8 DEF ModerationInv

--------------------------------------------------------------------------------
LEMMA AppealStep ==
  ASSUME NoneApart, ModerationInv, NEW e \in Entries, NEW status \in Staff!Reviewed
         \cup {"submitted"},
         sanction[e] # None,
         appeal' = [appeal EXCEPT ![e] = status],
         UNCHANGED <<log, sanction, moderator, carried, services, pending>>
  PROVE  ModerationInv'
  <1>1. Staff!TypeOK'
    BY DEF ModerationInv, Staff!TypeOK
  <1>2. StaffUnderway' /\ StaffLogged' /\ StaffServed'
    BY DEF ModerationInv, StaffUnderway, StaffLogged, StaffServed
  <1>3. Staff!SanctionsReal'
    BY DEF ModerationInv, Staff!SanctionsReal, Staff!TypeOK
  <1> QED BY <1>1, <1>2, <1>3 DEF ModerationInv

LEMMA ServiceStep ==
  ASSUME ModerationInv, UNCHANGED <<log, sanction, appeal, moderator, carried>>,
         pending' \in [at : {"none", "sent", "answered"}, row : Staff!Service],
         pending'.row.success => pending'.row.ran,
         services' = services \/ services' = services \cup {pending.row}
  PROVE  ModerationInv'
  <1>1. Staff!TypeOK'
    BY DEF ModerationInv, Staff!TypeOK
  <1>2. StaffUnderway' /\ StaffLogged' /\ StaffServed'
    BY DEF ModerationInv, StaffUnderway, StaffLogged, StaffServed
  <1>3. \A written \in services' : written.success => written.ran
    BY DEF ModerationInv, Staff!SanctionsReal, StaffServed
  <1>4. Staff!SanctionsReal'
    BY <1>3 DEF ModerationInv, Staff!SanctionsReal
  <1> QED BY <1>1, <1>2, <1>4 DEF ModerationInv

LEMMA ModerationStep == NoneApart /\ ModerationInv /\ [Staff!Next]_Staff!vars => ModerationInv'
  <1> SUFFICES ASSUME NoneApart, ModerationInv, [Staff!Next]_Staff!vars PROVE ModerationInv'
    OBVIOUS
  <1>1. ASSUME NEW m \in Moderators, NEW e \in Entries, NEW action \in Staff!Actions,
               NEW target \in Targets, Staff!LogAction(m, e, action, target)
        PROVE ModerationInv'
    BY <1>1, LogActionStep
  <1>2. ASSUME NEW m \in Moderators, NEW ran \in BOOLEAN, NEW answers \in BOOLEAN,
               Staff!Command(m, ran, answers)
        PROVE ModerationInv'
    BY <1>2, CommandStep
  <1>3. ASSUME NEW m \in Moderators, NEW fails \in BOOLEAN, Staff!MarkExecuted(m, fails)
        PROVE ModerationInv'
    BY <1>3, MarkStep
  <1>4. ASSUME NEW m \in Moderators, Staff!RecordSanction(m) PROVE ModerationInv'
    BY <1>4, RecordStep
  <1>5. ASSUME NEW m \in Moderators, Staff!Drop(m) PROVE ModerationInv'
    BY <1>5, DropStep
  <1>6. ASSUME NEW e \in Entries, Staff!CreateSanctionAppeal(e) PROVE ModerationInv'
    BY <1>6, AppealStep DEF Staff!CreateSanctionAppeal, Staff!Quiet
  <1>7. ASSUME NEW e \in Entries, NEW status \in Staff!Reviewed,
               Staff!AdminSanctionAppeal(e, status)
        PROVE ModerationInv'
    <2>1. sanction[e] # None
      BY <1>7 DEF Staff!AdminSanctionAppeal, ModerationInv, Staff!SanctionsReal
    <2> QED BY <1>7, <2>1, AppealStep DEF Staff!AdminSanctionAppeal, Staff!Quiet
  <1>8. CASE Staff!CharacterService
    BY <1>8, ServiceStep
    DEF Staff!CharacterService, Staff!Unchanged, ModerationInv, Staff!TypeOK, StaffServed
  <1>9. ASSUME NEW ran \in BOOLEAN, NEW answers \in BOOLEAN, Staff!ServiceCommand(ran, answers)
        PROVE ModerationInv'
    <2>1. /\ pending' = [at |-> "answered",
                         row |-> [success |-> Staff!Confirmed(ran, answers), ran |-> ran]]
          /\ Staff!Confirmed(ran, answers) \in BOOLEAN /\ (Staff!Confirmed(ran, answers) => ran)
      BY <1>9 DEF Staff!ServiceCommand, Staff!Confirmed
    <2>2. pending' \in [at : {"none", "sent", "answered"}, row : Staff!Service]
      BY <2>1 DEF Staff!Service
    <2> QED BY <1>9, <2>1, <2>2, ServiceStep DEF Staff!ServiceCommand, Staff!Unchanged
  <1>10. ASSUME NEW crashes \in BOOLEAN, Staff!RecordService(crashes) PROVE ModerationInv'
    <2>1. /\ pending' = Staff!NoService /\ Staff!NoService.row.success = FALSE
          /\ Staff!NoService \in [at : {"none", "sent", "answered"}, row : Staff!Service]
          /\ services' = services \/ services' = services \cup {pending.row}
      BY <1>10 DEF Staff!RecordService, Staff!NoService, Staff!Service
    <2> QED BY <1>10, <2>1, ServiceStep DEF Staff!RecordService, Staff!Unchanged
  <1>11. CASE UNCHANGED Staff!vars
    BY <1>11 DEF Staff!vars, ModerationInv, Staff!TypeOK, StaffUnderway, StaffLogged,
      StaffServed, Staff!SanctionsReal
  <1> QED
    BY <1>1, <1>2, <1>3, <1>4, <1>5, <1>6, <1>7, <1>8, <1>9, <1>10, <1>11 DEF Staff!Next

--------------------------------------------------------------------------------
(* The composition: the invariant of the part that the behaviour is about.        *)

PortalInv ==
  /\ part = "events" => EventsInv
  /\ part = "identities" => IdentityInv
  /\ part = "agent" => AgentInv
  /\ part = "ingest" => IngestInv
  /\ part = "tickets" => SupportInv
  /\ part = "requests" => FiledInv
  /\ part = "moderation" => ModerationInv

(* An earlier session leaves a state that sign-in may start from.                 *)
LEMMA EarlierInv == Earlier => IdentityInv
  <1> SUFFICES ASSUME Earlier PROVE IdentityInv
    OBVIOUS
  <1>0. IdentityAssumed /\ made = 1 /\ 1 \in Identity!Ids /\ 0 \in Identity!Counts
    BY PortalAssumption DEF IdentityAssumed, Earlier, Identity!Ids, Identity!Counts
  <1>1. PICK n \in Names : member = [m \in Names |->
          IF m = n THEN [identity |-> 1, primary |-> TRUE] ELSE None]
    BY DEF Earlier
  <1>2. Identity!Idle \in Identity!Request /\ Fit(Identity!Idle, made)
    BY <1>0, IdleFit, IdleFields
  <1>3. RequestsFit /\ request \in [Requests -> Identity!Request]
    BY <1>2 DEF Earlier, RequestsFit
  <1>4. 1 .. made = {1}
    BY <1>0
  <1>5. /\ [identity |-> 1, primary |-> TRUE] # None
        /\ [identity |-> 1, count |-> 0] # None
    <2>1. /\ [identity |-> 1, primary |-> TRUE] \in [identity : Identity!Ids, primary : BOOLEAN]
          /\ [identity |-> 1, count |-> 0] \in [identity : Identity!Ids, count : Identity!Counts]
      BY <1>0
    <2> QED BY <1>0, <2>1 DEF IdentityAssumed
  <1>6. /\ passkey \in [Keys -> [identity : 1 .. made, count : Identity!Counts] \cup {None}]
        /\ provider \in [Users -> 1 .. made \cup {None}]
        /\ asked \subseteq (Users \cup Keys) \X Identity!Ids
        /\ Identity!AddedByOwner
    <2>1. CASE /\ passkey = [k \in Keys |-> [identity |-> 1, count |-> 0]]
               /\ provider = [u \in Users |-> None] /\ asked = {<<k, 1>> : k \in Keys}
      BY <1>0, <1>4, <2>1 DEF Identity!AddedByOwner
    <2>2. CASE /\ passkey = [k \in Keys |-> None]
               /\ \E v \in Users : /\ provider = [u \in Users |-> IF u = v THEN 1 ELSE None]
                                   /\ asked = {<<v, 1>>}
      BY <1>0, <1>4, <1>5, <2>2 DEF Identity!AddedByOwner
    <2> QED BY <2>1, <2>2 DEF Earlier
  <1>7. Identity!TypeOK
    <2>1. member \in [Names -> [identity : 1 .. made, primary : BOOLEAN] \cup {None}]
      BY <1>1, <1>4
    <2>2. /\ made \in 0 .. MaxIdentities /\ drawn \in 0 .. MaxTickets
          /\ ticket \subseteq Identity!Ticket
      BY <1>0 DEF Earlier, IdentityAssumed
    <2>3. session \in [Sessions -> [name : Names, identity : 0 .. made, stepped : BOOLEAN]
                                   \cup {None}]
      BY DEF Earlier
    <2> QED BY <1>3, <1>6, <2>1, <2>2, <2>3 DEF Identity!TypeOK
  <1>8. Primaries
    <2>1. \A m \in Names : Identity!Linked(m) <=> m = n
      BY <1>1, <1>5 DEF Identity!Linked
    <2>2. Identity!Of(n) = 1 /\ member[n].primary
      BY <1>1 DEF Identity!Of
    <2> QED BY <1>4, <2>1, <2>2 DEF Primaries
  <1> QED BY <1>3, <1>6, <1>7, <1>8 DEF IdentityInv

LEMMA PortalStarts == PortalInit => PortalInv
  BY PortalAssumption, EventsInit, IdentityInit, EarlierInv, AgentInit, IngestInit, SupportInit,
     FiledInit, ModerationInit
  DEF PortalInit, PortalInv

LEMMA PortalSteps == PortalInv /\ [PortalNext]_allvars => PortalInv'
  <1> SUFFICES ASSUME PortalInv, [PortalNext]_allvars PROVE PortalInv'
    OBVIOUS
  <1> USE PortalAssumption
  <1>1. CASE part = "events" /\ [Next]_vars /\ part' = part
    BY <1>1, EventsStep DEF PortalInv
  <1>2. CASE part = "identities" /\ [Identity!Next]_Identity!vars /\ part' = part
    BY <1>2, IdentityStep DEF PortalInv
  <1>3. CASE part = "agent" /\ [Agent!Next]_Agent!vars /\ part' = part
    BY <1>3, AgentStep DEF PortalInv
  <1>4. CASE part = "ingest" /\ [Ingest!Next]_Ingest!vars /\ part' = part
    BY <1>4, IngestStep DEF PortalInv
  <1>5. CASE part = "tickets" /\ [Support!Next]_Support!vars /\ part' = part
    BY <1>5, SupportStep DEF PortalInv
  <1>6. CASE part = "requests" /\ [Filed!Next]_Filed!vars /\ part' = part
    BY <1>6, FiledStep DEF PortalInv
  <1>7. CASE part = "moderation" /\ [Staff!Next]_Staff!vars /\ part' = part
    BY <1>7, ModerationStep DEF PortalInv
  <1>8. CASE PortalNext
    BY <1>1, <1>2, <1>3, <1>4, <1>5, <1>6, <1>7, <1>8 DEF PortalNext, Others
  <1>9. CASE UNCHANGED allvars
    <2>1. /\ part' = part /\ UNCHANGED vars /\ UNCHANGED Identity!vars /\ UNCHANGED Agent!vars
          /\ UNCHANGED Ingest!vars /\ UNCHANGED Support!vars /\ UNCHANGED Filed!vars
          /\ UNCHANGED Staff!vars
      BY <1>9
      DEF allvars, identityVars, agentVars, ingestVars, supportVars, filedVars, staffVars,
          Identity!vars, Agent!vars, Ingest!vars, Support!vars, Filed!vars, Staff!vars
    <2> QED BY <1>1, <1>2, <1>3, <1>4, <1>5, <1>6, <1>7, <2>1 DEF PortalInv
  <1> QED BY <1>8, <1>9

LEMMA Invariance == PortalSpec => []PortalInv
  BY PortalStarts, PortalSteps, PTL DEF PortalSpec

--------------------------------------------------------------------------------
(* The rows and the handlers of every part keep their types.                      *)
THEOREM PortalTypes == PortalSpec => []AllTypesOK
  <1>1. PortalInv => AllTypesOK
    BY DEF PortalInv, AllTypesOK, EventsInv, IdentityInv, AgentInv, IngestInv, SupportInv,
           FiledInv, ModerationInv
  <1> QED BY <1>1, Invariance, PTL

(* No more places are taken by registration than the event ever had, whatever     *)
(* requests overlap (eventRegistrationAction counts and writes in two statements  *)
(* under the row lock of the event); a participant is paid once, wallet, ledger and*)
(* grant agree, and who was told was paid (rewardEventAccount).                   *)
THEOREM EventsAreKept == PortalSpec => []EventsKept
  <1>1. PortalInv => EventsKept
    BY DEF PortalInv, EventsKept, EventsInv
  <1> QED BY <1>1, Invariance, PTL

(* Every identity ever made has exactly one primary account, whatever linking,    *)
(* promoting and unlinking run at the same time (identity.go), and a provider or  *)
(* a passkey signs in to the identity that added it (oauth.go, passkeys.go).      *)
THEOREM IdentitiesAreKept == PortalSpec => []IdentitiesKept
  <1>1. PortalInv => IdentitiesKept
    BY PrimaryCount DEF PortalInv, IdentitiesKept, IdentityInv
  <1> QED BY <1>1, Invariance, PTL

(* What the tables say happened elsewhere, or in several statements, did: results *)
(* are stored whole and once (storeCompetitiveEvent), no configuration is lost and*)
(* the audit names its backup (agent.go, realmConfigItems), tickets are stamped   *)
(* while they are over (tickets.go), open forms are those the count allowed       *)
(* (transfers.go, privacy.go, recruitment.go), and entries and sanctions stand on *)
(* commands the realm carried out (admin.go, moderation_cases.go).                *)
THEOREM RecordsAreTrue == PortalSpec => []RecordsTrue
  <1>1. PortalInv => RecordsTrue
    BY DEF PortalInv, RecordsTrue, AgentInv, IngestInv, SupportInv, FiledInv, ModerationInv
  <1> QED BY <1>1, Invariance, PTL

(* The stored counter of a passkey never falls (passkeyAuthenticationFinish); every*)
(* grant is for attendance noted at that moment, at the prize of that moment,     *)
(* although staff change both (rewardEventAccount).                               *)
THEOREM StepsAreKept == PortalSpec => StepsKept
  <1>1. PortalInv /\ [PortalNext]_allvars => [CounterStep]_Identity!vars
    <2> SUFFICES ASSUME PortalInv, [PortalNext]_allvars, ~UNCHANGED Identity!vars
        PROVE  CounterStep
      OBVIOUS
    <2>1. PortalNext /\ ~UNCHANGED identityVars
      BY DEF allvars, identityVars, Identity!vars
    <2>2. part = "identities" /\ Identity!Next
      BY <2>1 DEF PortalNext, Others
    <2> QED BY <2>2, CountersRise, PortalAssumption DEF PortalInv
  <1>2. PortalInv /\ [PortalNext]_allvars => [RewardStep]_vars
    <2> SUFFICES ASSUME PortalInv, [PortalNext]_allvars, ~UNCHANGED vars
        PROVE  RewardStep
      OBVIOUS
    <2>1. PortalNext
      BY DEF allvars
    <2>2. part = "events" /\ Next
      BY <2>1 DEF PortalNext, Others
    <2> QED BY <2>2, RewardsFair DEF PortalInv
  <1>3. PortalSpec => [][CounterStep]_Identity!vars
    BY <1>1, Invariance, PTL DEF PortalSpec
  <1>4. PortalSpec => [][RewardStep]_vars
    BY <1>2, Invariance, PTL DEF PortalSpec
  <1> QED
    BY <1>3, <1>4
    DEF StepsKept, Identity!CounterNeverFalls, CounterStep, PaidForAttendance, RewardStep
================================================================================
