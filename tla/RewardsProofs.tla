------------------------------ MODULE RewardsProofs ------------------------------
(***************************************************************************)
(* What holds of Rewards for every set of accounts, targets and requests,  *)
(* every cooldown, limit and cycle, and any number of requests at work.    *)
(***************************************************************************)
EXTENDS Rewards, TotalsProofs, FiniteSetTheorems, TLAPS

(***************************************************************************)
(* The parts of the inductive invariant that are not properties themselves.*)
(***************************************************************************)
Locked == {"vote", "gift", "draw", "milestone", "discord"}
AtWork == {"lock", "read", "insert", "commit"}

(* A handler asks for one of its calls, and is in a phase of its kind.      *)
Asks(r) ==
  /\ phase[r] \in AtWork => call[r] \in Calls[r]
  /\ phase[r] \notin AtWork => call[r] = NoCall
  /\ phase[r] = "lock" => Kind(r) \in Locked
  /\ phase[r] = "read" => Kind(r) \in {"daily", "mission"}
  /\ phase[r] = "insert" => Kind(r) # "draw"

(* It has written the row of its call, under a key nobody has committed, or *)
(* nothing.                                                                 *)
Writes(r) == phase[r] = "commit" /\ Kind(r) # "draw"
Wrote(r) ==
  IF Writes(r)
    THEN /\ row[r] \in Rows /\ ~Exists(row[r].key)
         /\ row[r].account = call[r].account /\ row[r].net = call[r].net
         /\ row[r].key[1] = Kind(r) /\ row[r].key[2] = call[r].target
    ELSE row[r] = NoRow

(* What it checked under its lock stays true: a use of the code is left, and *)
(* the cooldown of the vote is over.                                        *)
UseLeft(r) ==
  phase[r] \in {"insert", "commit"} /\ Kind(r) = "gift" =>
    used[call[r].target] < MaxUses[call[r].target]
Rested(c, t) ==
  \A v \in Votes : /\ v.key[2] = c.target
                   /\ v.account = c.account \/ (c.net # None /\ v.net = c.net)
                   => v.at <= t - Cooldown
CoolDown(r) ==
  /\ phase[r] = "insert" /\ Kind(r) = "vote" => Rested(call[r], now)
  /\ phase[r] = "commit" /\ Kind(r) = "vote" => Rested(call[r], row[r].at)

(* The winners are those of the votes up to now, but for votes that came    *)
(* late.                                                                    *)
Fair(w) ==
  \E missing \in SUBSET {v \in Votes \ timely : InCampaign(v)} :
    w = Drawn({v \in Votes \ missing : InCampaign(v)})
Draws(r) ==
  phase[r] = "commit" /\ Kind(r) = "draw" =>
    ~drawn /\ now >= Ends /\ Fair(picked[r])

Good(r) == Asks(r) /\ Wrote(r) /\ UseLeft(r) /\ CoolDown(r) /\ Draws(r)

(* Row locks, and the uniqueness of keys among rows not yet committed.      *)
Apart ==
  \A r, o \in Requests : r # o =>
    /\ Holds(r) \cap Holds(o) = {}
    /\ Writes(r) /\ Writes(o) => row[r].key # row[o].key

Campaign == /\ drawn => now >= Ends
            /\ ~drawn => winners = {}

RewardsInv ==
  /\ TypeOK /\ IsFiniteSet(claims) /\ Apart /\ Campaign
  /\ \A r \in Requests : Good(r)
  /\ GiftUsesCounted /\ CooldownKept /\ DrawHonest

-----------------------------------------------------------------------------
(***************************************************************************)
(* What a call is.                                                         *)
(***************************************************************************)
LEMMA CallType ==
  ASSUME NEW r \in Requests, NEW c \in Calls[r]
  PROVE  /\ c \in Call /\ c.kind \in Kinds /\ c.credits \in Nat
         /\ c.net \in Nets \cup {None}
         /\ c.kind # "draw" => c.account \in Accounts
         /\ c.kind \in ByEvent => c.event \in Events
         /\ c.kind \notin {"legacy", "discord", "daily"} => c.target \in Targets
         /\ c.target \in Targets \cup {None}
  BY RewardsAssumption DEF Call

LEMMA OneCampaign ==
  ASSUME NEW r \in Requests, NEW c \in Calls[r], NEW q \in Requests, NEW d \in Calls[q],
         c.kind = "draw", d.kind = "draw"
  PROVE  c.target = d.target
  BY RewardsAssumption

LEMMA Parents ==
  ASSUME NEW c
  PROVE  /\ c.kind \in {"vote", "gift", "draw"} => ParentRows(c) = {<<c.kind, c.target>>}
         /\ c.kind \in {"milestone", "discord"} => ParentRows(c) # {}
         /\ c.kind \in {"legacy", "daily", "mission"} => ParentRows(c) = {}
  BY DEF ParentRows

LEMMA NotAtWork == NoCall.kind = "none" /\ NoCall.kind \notin Kinds
  BY DEF NoCall, Kinds

(* Two handlers at one row of a vote, a code or a campaign are one.         *)
LEMMA SameRow ==
  ASSUME Apart, NEW r \in Requests, NEW o \in Requests,
         phase[r] \in {"insert", "commit"}, phase[o] \in {"insert", "commit"},
         Kind(r) \in {"vote", "gift", "draw"}, Kind(o) = Kind(r),
         call[r].target = call[o].target
  PROVE  r = o
  <1>1. Holds(r) = {<<Kind(r), call[r].target>>} /\ Holds(o) = {<<Kind(r), call[r].target>>}
    BY Parents DEF Holds, Kind
  <1> QED BY <1>1 DEF Apart

LEMMA DivNat ==
  ASSUME NEW a \in Nat, NEW b \in Nat \ {0}
  PROVE  a \div b \in Nat
  OBVIOUS

LEMMA ModRange ==
  ASSUME NEW a \in Nat, NEW b \in Nat \ {0}
  PROVE  a % b \in 0 .. b - 1
  OBVIOUS

LEMMA StreakNat ==
  ASSUME claims \subseteq Rows, NEW a, NEW d \in Nat
  PROVE  Streak(a, d) \in Nat
  <1> DEFINE last == IF d \in DaysRead(a, d) THEN d ELSE d - 1
             run == {e \in DaysRead(a, d) : e <= last /\ e..last \subseteq DaysRead(a, d)}
  <1>1. IsFiniteSet(DaysRead(a, d))
    <2>1. DaysRead(a, d) \subseteq Nat /\ \A e \in DaysRead(a, d) : e <= d
      BY DEF DaysRead, Rows, Keys
    <2>2. DaysRead(a, d) \subseteq 0 .. d
      BY <2>1
    <2>3. IsFiniteSet(0 .. d)
      BY FS_Interval
    <2> QED BY <2>2, <2>3, FS_Subset
  <1>2. IsFiniteSet(run) /\ Cardinality(run) \in Nat
    <2>1. run \subseteq DaysRead(a, d)
      OBVIOUS
    <2> QED BY <1>1, <2>1, FS_Subset, FS_CardinalityType
  <1> QED BY <1>2 DEF Streak

LEMMA CreditsNat ==
  ASSUME NEW r \in Requests, NEW c \in Calls[r], NEW s \in Nat
  PROVE  Credits(c, s) \in Nat
  <1>1. s % Cardinality(DOMAIN Cycle) \in 0 .. Cardinality(DOMAIN Cycle) - 1
    BY RewardsAssumption, ModRange
  <1> QED BY <1>1, RewardsAssumption, CallType DEF Credits

LEMMA KeyType ==
  ASSUME NEW r \in Requests, NEW c \in Calls[r], c.kind # "draw", NEW s \in Nat, NEW t \in Nat
  PROVE  /\ Key(c, s, t) \in Keys
         /\ Key(c, s, t)[1] = c.kind /\ Key(c, s, t)[2] = c.target
  <1>1. Day(t) \in Nat
    BY RewardsAssumption, DivNat DEF Day
  <1> QED BY <1>1, CallType DEF Key, Keys, Kinds

-----------------------------------------------------------------------------
LEMMA RewardsInit == Init => RewardsInv
  <1> SUFFICES ASSUME Init PROVE RewardsInv
    OBVIOUS
  <1> USE DEF Init
  <1>1. TypeOK
    <2>1. MaxNow \in Nat /\ MaxRecruits \in Nat
      BY RewardsAssumption
    <2>2. /\ now \in 0..MaxNow /\ recruits \in [Accounts -> 0..MaxRecruits]
          /\ used \in [Targets -> Nat] /\ wallet \in [Accounts -> Nat]
          /\ ledger \in [Accounts -> Nat] /\ seen \in [Requests -> Nat]
      BY <2>1
    <2>3. /\ phase \in [Requests -> Phase] /\ call \in [Requests -> Call \cup {NoCall}]
          /\ row \in [Requests -> Rows \cup {NoRow}]
          /\ picked \in [Requests -> SUBSET Accounts]
      BY DEF Phase
    <2> QED BY <2>2, <2>3 DEF TypeOK
  <1>2. IsFiniteSet(claims) /\ Campaign
    BY FS_EmptySet DEF Campaign
  <1>3. Apart
    BY DEF Apart, Holds, Writes
  <1>4. \A r \in Requests : Good(r)
    BY DEF Good, Asks, Wrote, UseLeft, CoolDown, Draws, Writes, AtWork
  <1>5. GiftUsesCounted
    <2> SUFFICES ASSUME NEW t \in Targets
        PROVE  /\ used[t] = Cardinality({v \in claims : v.key[1] = "gift" /\ v.key[2] = t})
               /\ used[t] <= MaxUses[t]
        BY DEF GiftUsesCounted
    <2>1. {v \in claims : v.key[1] = "gift" /\ v.key[2] = t} = {}
      OBVIOUS
    <2>2. MaxUses[t] \in Nat /\ used[t] = 0
      BY RewardsAssumption
    <2> QED BY <2>1, <2>2, FS_EmptySet
  <1>6. CooldownKept /\ DrawHonest
    BY DEF CooldownKept, DrawHonest, Votes
  <1> QED BY <1>1, <1>2, <1>3, <1>4, <1>5, <1>6 DEF RewardsInv

-----------------------------------------------------------------------------
(***************************************************************************)
(* Steps of a handler that commit nothing.                                 *)
(***************************************************************************)
Others(r) ==
  \A o \in Requests \ {r} :
    /\ phase'[o] = phase[o] /\ call'[o] = call[o] /\ seen'[o] = seen[o]
    /\ row'[o] = row[o] /\ picked'[o] = picked[o]

RequestTypes ==
  /\ phase \in [Requests -> Phase] /\ call \in [Requests -> Call \cup {NoCall}]
  /\ seen \in [Requests -> Nat] /\ row \in [Requests -> Rows \cup {NoRow}]
  /\ picked \in [Requests -> SUBSET Accounts]

(* What the others have is not disturbed by what one of them does to itself. *)
LEMMA OthersGood ==
  ASSUME NEW r \in Requests, NEW o \in Requests \ {r}, Others(r), Good(o),
         UNCHANGED <<now, claims, used, drawn, timely>>
  PROVE  Good(o)'
  <1>1. /\ phase'[o] = phase[o] /\ call'[o] = call[o] /\ seen'[o] = seen[o]
        /\ row'[o] = row[o] /\ picked'[o] = picked[o]
    BY DEF Others
  <1>2. Asks(o)' /\ UseLeft(o)'
    BY <1>1 DEF Good, Asks, UseLeft, Kind
  <1>3. Wrote(o)'
    BY <1>1 DEF Good, Wrote, Writes, Kind, Exists
  <1>4. CoolDown(o)'
    BY <1>1 DEF Good, CoolDown, Rested, Votes, Kind
  <1>5. Draws(o)'
    BY <1>1 DEF Good, Draws, Fair, Votes, Kind
  <1> QED BY <1>2, <1>3, <1>4, <1>5 DEF Good

(* A handler whose new locks and whose new row are free disturbs nobody.    *)
LEMMA OthersApart ==
  ASSUME Apart, NEW r \in Requests, Others(r),
         \A o \in Requests \ {r} : Holds(o) \cap Holds(r)' = {},
         \A o \in Requests \ {r} : Writes(r)' /\ Writes(o) => row'[r].key # row[o].key
  PROVE  Apart'
  <1>1. \A o \in Requests \ {r} : /\ Holds(o)' = Holds(o) /\ (Writes(o)' <=> Writes(o))
                                  /\ row'[o] = row[o]
    BY DEF Others, Holds, Writes, Kind
  <1> SUFFICES ASSUME NEW p \in Requests, NEW o \in Requests, p # o
      PROVE  /\ Holds(p)' \cap Holds(o)' = {}
             /\ Writes(p)' /\ Writes(o)' => row'[p].key # row'[o].key
      BY DEF Apart
  <1>2. CASE p = r
    BY <1>1, <1>2
  <1>3. CASE o = r
    BY <1>1, <1>3
  <1>4. CASE p # r /\ o # r
    BY <1>1, <1>4 DEF Apart
  <1> QED BY <1>2, <1>3, <1>4

LEMMA RequestStep ==
  ASSUME RewardsInv, NEW r \in Requests, Others(r), RequestTypes', Good(r)',
         UNCHANGED <<now, tables, active>>, misread' \subseteq Accounts,
         \A o \in Requests \ {r} : Holds(o) \cap Holds(r)' = {},
         \A o \in Requests \ {r} : Writes(r)' /\ Writes(o) => row'[r].key # row[o].key
  PROVE  RewardsInv'
  <1> USE DEF tables
  <1>1. TypeOK'
    BY DEF RewardsInv, TypeOK, RequestTypes
  <1>2. IsFiniteSet(claims)' /\ Campaign'
    BY DEF RewardsInv, Campaign
  <1>3. Apart'
    BY OthersApart DEF RewardsInv
  <1>4. \A o \in Requests : Good(o)'
    <2> SUFFICES ASSUME NEW o \in Requests \ {r} PROVE Good(o)'
      OBVIOUS
    <2> QED BY OthersGood DEF RewardsInv
  <1>5. GiftUsesCounted' /\ CooldownKept'
    BY DEF RewardsInv, GiftUsesCounted, CooldownKept, Votes
  <1>6. DrawHonest'
    BY DEF RewardsInv, DrawHonest, Votes
  <1> QED BY <1>1, <1>2, <1>3, <1>4, <1>5, <1>6 DEF RewardsInv

(* The end of a transaction                                                 *)
LEMMA LeaveEffect ==
  ASSUME RequestTypes, NEW r \in Requests, NEW p \in Ended, Leave(r, p)
  PROVE  /\ Others(r) /\ RequestTypes'
         /\ phase'[r] = p /\ call'[r] = NoCall /\ row'[r] = NoRow
         /\ Holds(r)' = {} /\ ~Writes(r)' /\ Good(r)'
  <1>1. /\ phase'[r] = p /\ call'[r] = NoCall /\ seen'[r] = 0 /\ row'[r] = NoRow
        /\ picked'[r] = {} /\ p \in Phase
    BY DEF Leave, RequestTypes, Ended, Phase
  <1>2. Others(r)
    BY DEF Leave, Others, RequestTypes
  <1>3. RequestTypes'
    BY <1>1 DEF Leave, RequestTypes
  <1>4. Holds(r)' = {} /\ ~Writes(r)'
    BY <1>1 DEF Holds, Writes, Ended
  <1>5. Good(r)'
    BY <1>1, NotAtWork DEF Good, Asks, Wrote, Writes, UseLeft, CoolDown, Draws, Kind, Ended, AtWork
  <1> QED BY <1>1, <1>2, <1>3, <1>4, <1>5

LEMMA LeaveStep ==
  ASSUME RewardsInv, NEW r \in Requests, NEW p \in Ended, Leave(r, p),
         UNCHANGED <<now, tables, active>>, misread' = misread
  PROVE  RewardsInv'
  <1>1. RequestTypes /\ misread' \subseteq Accounts
    BY DEF RewardsInv, TypeOK, RequestTypes
  <1>2. /\ Others(r) /\ RequestTypes' /\ Good(r)' /\ Holds(r)' = {} /\ ~Writes(r)'
    BY <1>1, LeaveEffect
  <1> QED BY <1>1, <1>2, RequestStep

(* A step to another phase                                                  *)
LEMMA GotoEffect ==
  ASSUME RequestTypes, NEW r \in Requests, NEW p \in Phase, Goto(r, p)
  PROVE  /\ phase'[r] = p /\ phase' \in [Requests -> Phase]
         /\ \A o \in Requests \ {r} : phase'[o] = phase[o]
  BY DEF Goto, RequestTypes

LEMMA BeginStep ==
  ASSUME RewardsInv, NEW r \in Requests, NEW c \in Calls[r], Begin(r, c)
  PROVE  RewardsInv'
  <1>1. /\ RequestTypes /\ misread' \subseteq Accounts /\ row[r] = NoRow /\ now \in Nat
    BY DEF RewardsInv, TypeOK, RequestTypes, Begin, Good, Wrote, Writes
  <1>2. c \in Call /\ c.kind \in Kinds
    BY CallType
  <1>3. FirstPhase(c) \in {"lock", "read", "insert"}
    BY DEF FirstPhase
  <1>4. /\ phase'[r] = FirstPhase(c) /\ phase' \in [Requests -> Phase]
        /\ \A o \in Requests \ {r} : phase'[o] = phase[o]
    BY <1>1, <1>3, GotoEffect DEF Begin, Phase
  <1>5. /\ call'[r] = c /\ row' = row /\ picked' = picked /\ UNCHANGED <<now, tables, active>>
        /\ call' \in [Requests -> Call \cup {NoCall}]
        /\ \A o \in Requests \ {r} : call'[o] = call[o] /\ seen'[o] = seen[o]
    BY <1>1, <1>2 DEF Begin, RequestTypes
  <1>6. seen' \in [Requests -> Nat]
    BY <1>1, RewardsAssumption, DivNat DEF Begin, RequestTypes, Month
  <1>7. RequestTypes' /\ Others(r)
    BY <1>1, <1>4, <1>5, <1>6 DEF RequestTypes, Others
  <1>8. /\ FirstPhase(c) = "lock" => c.kind \in Locked
        /\ FirstPhase(c) = "read" => c.kind \in {"daily", "mission"}
        /\ FirstPhase(c) = "insert" => c.kind = "legacy" /\ ParentRows(c) = {}
    BY <1>2, Parents DEF FirstPhase, Kinds, Locked
  <1>9. Good(r)'
    BY <1>1, <1>3, <1>4, <1>5, <1>8
    DEF Good, Asks, Wrote, Writes, UseLeft, CoolDown, Draws, Kind, AtWork
  <1>10. Holds(r)' = {} /\ ~Writes(r)'
    BY <1>3, <1>4, <1>5, <1>8 DEF Holds, Writes
  <1> QED BY <1>1, <1>5, <1>7, <1>9, <1>10, RequestStep

(* A handler moves on without a write.                                      *)
LEMMA MoveStep ==
  ASSUME RewardsInv, NEW r \in Requests, NEW p \in {"insert", "commit"}, Goto(r, p),
         UNCHANGED <<now, tables, active, call>>, row'[r] = row[r],
         misread' \subseteq Accounts, RequestTypes', Others(r), Good(r)',
         \A o \in Requests \ {r} : Holds(o) \cap ParentRows(call[r]) = {},
         p = "commit" => Kind(r) = "draw"
  PROVE  RewardsInv'
  <1>1. phase'[r] = p
    BY GotoEffect DEF RewardsInv, TypeOK, RequestTypes, Phase
  <1>2. Holds(r)' = ParentRows(call[r]) /\ ~Writes(r)'
    BY <1>1 DEF Holds, Writes, Kind
  <1> QED BY <1>2, RequestStep

LEMMA LockStep ==
  ASSUME RewardsInv, NEW r \in Requests, Lock(r)
  PROVE  RewardsInv'
  <1> DEFINE c == call[r]
  <1>1. /\ phase[r] = "lock" /\ c \in Calls[r] /\ c.kind # "draw" /\ c.kind \in Locked
        /\ Free(ParentRows(c)) /\ row[r] = NoRow
    BY DEF Lock, RewardsInv, Good, Asks, Wrote, Writes, Kind, AtWork
  <1>2. RequestTypes /\ misread \subseteq Accounts /\ now \in Nat
    BY DEF RewardsInv, TypeOK, RequestTypes
  <1>3. CASE ~Grants(c)
    <2>1. Answer(c) \in Ended
      BY DEF Answer, Ended
    <2> QED BY <1>3, <2>1, LeaveStep DEF Lock
  <1>4. CASE Grants(c)
    <2>1. /\ Goto(r, "insert") /\ UNCHANGED <<call, seen, row, picked>>
          /\ UNCHANGED <<now, tables, active, misread>>
      BY <1>4 DEF Lock
    <2>2. /\ phase'[r] = "insert" /\ phase' \in [Requests -> Phase]
          /\ \A o \in Requests \ {r} : phase'[o] = phase[o]
      BY <1>2, <2>1, GotoEffect DEF Phase
    <2>3. RequestTypes' /\ Others(r)
      BY <1>2, <2>1, <2>2 DEF RequestTypes, Others
    <2>4. c.kind = "gift" => used[c.target] < MaxUses[c.target]
      BY <1>4 DEF Grants
    <2>5. c.kind = "vote" => Rested(c, now)
      <3> SUFFICES ASSUME c.kind = "vote", NEW v \in Votes, v.key[2] = c.target,
                          v.account = c.account \/ (c.net # None /\ v.net = c.net)
          PROVE  v.at <= now - Cooldown
          BY DEF Rested
      <3>1. ~(v.at > now - Cooldown)
        BY <1>4 DEF Grants, InCooldown
      <3>2. v.at \in Nat
        BY DEF Votes, RewardsInv, TypeOK, Rows
      <3> QED BY <1>2, <3>1, <3>2, RewardsAssumption
    <2>6. Asks(r)' /\ Wrote(r)' /\ Draws(r)'
      BY <1>1, <2>1, <2>2 DEF Asks, Wrote, Writes, Draws, Kind, AtWork
    <2>7. UseLeft(r)' /\ CoolDown(r)'
      BY <2>1, <2>2, <2>4, <2>5 DEF UseLeft, CoolDown, Rested, Votes, Kind, tables
    <2>8. \A o \in Requests \ {r} : Holds(o) \cap ParentRows(c) = {}
      BY <1>1 DEF Free
    <2> QED BY <1>2, <2>1, <2>3, <2>6, <2>7, <2>8, MoveStep DEF Good
  <1> QED BY <1>3, <1>4

LEMMA DrawnAccounts ==
  ASSUME NEW votes
  PROVE  Drawn(votes) \in SUBSET Accounts
  BY DEF Drawn

LEMMA DrawStep ==
  ASSUME RewardsInv, NEW r \in Requests, Draw(r)
  PROVE  RewardsInv'
  <1> DEFINE c == call[r]
             w == Drawn({v \in Votes : InCampaign(v)})
  <1>1. /\ phase[r] = "lock" /\ c \in Calls[r] /\ c.kind = "draw"
        /\ Free(ParentRows(c)) /\ row[r] = NoRow
    BY DEF Draw, RewardsInv, Good, Asks, Wrote, Writes, Kind, AtWork
  <1>2. RequestTypes /\ misread \subseteq Accounts
    BY DEF RewardsInv, TypeOK, RequestTypes
  <1>3. CASE ~MayDraw
    BY <1>3, LeaveStep DEF Draw, Ended
  <1>4. CASE MayDraw
    <2>1. /\ Goto(r, "commit") /\ UNCHANGED <<call, seen, row>>
          /\ picked' = [picked EXCEPT ![r] = w]
          /\ UNCHANGED <<now, tables, active, misread>>
      BY <1>4 DEF Draw
    <2>2. /\ phase'[r] = "commit" /\ phase' \in [Requests -> Phase]
          /\ \A o \in Requests \ {r} : phase'[o] = phase[o]
      BY <1>2, <2>1, GotoEffect DEF Phase
    <2>3. w \in SUBSET Accounts
      BY DrawnAccounts
    <2>4. Fair(w)
      <3>1. {v \in Votes \ {} : InCampaign(v)} = {v \in Votes : InCampaign(v)}
        OBVIOUS
      <3> QED BY <3>1 DEF Fair
    <2> HIDE DEF w
    <2>5. RequestTypes' /\ Others(r) /\ picked'[r] = w
      BY <1>2, <2>1, <2>2, <2>3 DEF RequestTypes, Others
    <2>6. Asks(r)' /\ Wrote(r)' /\ UseLeft(r)' /\ CoolDown(r)'
      BY <1>1, <2>1, <2>2 DEF Asks, Wrote, Writes, UseLeft, CoolDown, Kind, AtWork
    <2>7. Draws(r)'
      BY <1>4, <2>1, <2>4, <2>5 DEF Draws, MayDraw, Fair, Votes, tables
    <2>8. \A o \in Requests \ {r} : Holds(o) \cap ParentRows(c) = {}
      BY <1>1 DEF Free
    <2> QED BY <1>1, <1>2, <2>1, <2>5, <2>6, <2>7, <2>8, MoveStep DEF Good, Kind
  <1> QED BY <1>3, <1>4

LEMMA ReadStep ==
  ASSUME RewardsInv, NEW r \in Requests, phase[r] = "read", Goto(r, "insert"),
         UNCHANGED <<now, tables, active, call, row, picked>>, misread' \subseteq Accounts,
         \/ seen' = seen
         \/ \E s \in Nat : seen' = [seen EXCEPT ![r] = s]
  PROVE  RewardsInv'
  <1>1. /\ call[r] \in Calls[r] /\ Kind(r) \in {"daily", "mission"} /\ row[r] = NoRow
    BY DEF RewardsInv, Good, Asks, Wrote, Writes, AtWork
  <1>2. RequestTypes
    BY DEF RewardsInv, TypeOK, RequestTypes
  <1>3. /\ phase'[r] = "insert" /\ phase' \in [Requests -> Phase]
        /\ \A o \in Requests \ {r} : phase'[o] = phase[o]
    BY <1>2, GotoEffect DEF Phase
  <1>4. seen' \in [Requests -> Nat] /\ \A o \in Requests \ {r} : seen'[o] = seen[o]
    BY <1>2 DEF RequestTypes
  <1>5. RequestTypes' /\ Others(r)
    BY <1>2, <1>3, <1>4 DEF RequestTypes, Others
  <1>6. Good(r)'
    BY <1>1, <1>3 DEF Good, Asks, Wrote, Writes, UseLeft, CoolDown, Draws, Kind, AtWork
  <1>7. ParentRows(call[r]) = {}
    BY <1>1, Parents DEF Kind
  <1> QED BY <1>5, <1>6, <1>7, MoveStep

LEMMA ReadStreakStep ==
  ASSUME RewardsInv, NEW r \in Requests, ReadStreak(r)
  PROVE  RewardsInv'
  <1> DEFINE a == call[r].account
  <1>1. CASE ClaimedOn(a, Day(now))
    BY <1>1, LeaveStep DEF ReadStreak, Ended
  <1>2. CASE ~ClaimedOn(a, Day(now))
    <2>1. now \in Nat /\ claims \subseteq Rows /\ misread \subseteq Accounts
      BY DEF RewardsInv, TypeOK
    <2>2. Streak(a, Day(now)) \in Nat
      BY <2>1, RewardsAssumption, DivNat, StreakNat DEF Day
    <2> QED BY <1>2, <2>1, <2>2, ReadStep DEF ReadStreak
  <1> QED BY <1>1, <1>2

LEMMA StreakUnreadStep ==
  ASSUME RewardsInv, NEW r \in Requests, StreakUnread(r)
  PROVE  RewardsInv'
  <1>1. call[r].account \in Accounts
    BY CallType DEF StreakUnread, RewardsInv, Good, Asks, Kind, AtWork
  <1>2. misread' \subseteq Accounts
    BY <1>1 DEF StreakUnread, RewardsInv, TypeOK
  <1> QED BY <1>2, ReadStep DEF StreakUnread

LEMMA ReadProgressStep ==
  ASSUME RewardsInv, NEW r \in Requests, ReadProgress(r)
  PROVE  RewardsInv'
  <1>1. misread \subseteq Accounts
    BY DEF RewardsInv, TypeOK
  <1>2. CASE Leave(r, "refused")
    BY <1>2, LeaveStep DEF ReadProgress, Ended
  <1>3. CASE Goto(r, "insert") /\ UNCHANGED <<call, seen, row, picked>>
    BY <1>1, <1>3, ReadStep DEF ReadProgress
  <1> QED BY <1>2, <1>3 DEF ReadProgress

LEMMA AbandonStep ==
  ASSUME RewardsInv, NEW r \in Requests, Abandon(r)
  PROVE  RewardsInv'
  BY LeaveStep DEF Abandon, Ended

(* The insertion: the row carries the call, under a key that is free.       *)
LEMMA InsertStep ==
  ASSUME RewardsInv, NEW r \in Requests, Insert(r)
  PROVE  RewardsInv'
  <1> DEFINE c == call[r]
             k == Key(c, seen[r], now)
             w == [key |-> k, account |-> c.account, credits |-> Credits(c, seen[r]),
                   at |-> now, net |-> c.net]
  <1>1. CASE Exists(k)
    BY <1>1, LeaveStep DEF Insert, Ended
  <1>2. CASE ~Exists(k)
    <2>1. /\ phase[r] = "insert" /\ c \in Calls[r] /\ c.kind # "draw"
      BY DEF Insert, RewardsInv, Good, Asks, Kind, AtWork
    <2>2. RequestTypes /\ misread \subseteq Accounts /\ now \in Nat /\ seen[r] \in Nat
      BY DEF RewardsInv, TypeOK, RequestTypes
    <2>3. k \in Keys /\ k[1] = c.kind /\ k[2] = c.target
      BY <2>1, <2>2, KeyType
    <2>4. w \in Rows
      <3>1. c.account \in Accounts /\ c.net \in Nets \cup {None}
        BY <2>1, CallType
      <3>2. Credits(c, seen[r]) \in Nat
        BY <2>1, <2>2, CreditsNat
      <3> HIDE DEF k
      <3> QED BY <2>2, <2>3, <3>1, <3>2 DEF Rows
    <2>5. /\ row' = [row EXCEPT ![r] = w] /\ Goto(r, "commit")
          /\ UNCHANGED <<call, seen, picked>>
          /\ UNCHANGED <<now, tables, active, misread>>
          /\ \A o \in Requests : row[o].key # k
      BY <1>2 DEF Insert
    <2>6. /\ w.key = k /\ w.account = c.account /\ w.net = c.net /\ w.at = now
      OBVIOUS
    <2> HIDE DEF k, w
    <2>7. /\ phase'[r] = "commit" /\ phase' \in [Requests -> Phase]
          /\ \A o \in Requests \ {r} : phase'[o] = phase[o]
      BY <2>2, <2>5, GotoEffect DEF Phase
    <2>8. /\ row'[r] = w /\ row' \in [Requests -> Rows \cup {NoRow}]
          /\ \A o \in Requests \ {r} : row'[o] = row[o]
      BY <2>2, <2>4, <2>5 DEF RequestTypes
    <2>9. RequestTypes' /\ Others(r)
      BY <2>2, <2>5, <2>7, <2>8 DEF RequestTypes, Others
    <2>10. Asks(r)' /\ Draws(r)'
      BY <2>1, <2>5, <2>7 DEF Asks, Draws, Kind, AtWork
    <2>11. Wrote(r)'
      <3>1. Writes(r)'
        BY <2>1, <2>5, <2>7 DEF Writes, Kind
      <3>2. ~Exists(row[r].key)'
        BY <1>2, <2>5, <2>6, <2>8 DEF Exists, tables
      <3>3. /\ row'[r] = w /\ w \in Rows /\ w.account = call'[r].account
            /\ w.net = call'[r].net /\ w.key[1] = call'[r].kind /\ w.key[2] = call'[r].target
        BY <2>3, <2>4, <2>5, <2>6, <2>8
      <3> QED BY <3>1, <3>2, <3>3 DEF Wrote, Kind
    <2>12. UseLeft(r)' /\ CoolDown(r)'
      <3>1. UseLeft(r) /\ CoolDown(r)
        BY DEF RewardsInv, Good
      <3> QED BY <2>1, <2>5, <2>6, <2>7, <2>8, <3>1
              DEF UseLeft, CoolDown, Rested, Votes, Kind, tables
    <2>13. Holds(r)' = Holds(r)
      BY <2>1, <2>5, <2>7 DEF Holds
    <2>14. \A o \in Requests \ {r} : Holds(o) \cap Holds(r)' = {}
      BY <2>13 DEF RewardsInv, Apart
    <2>15. \A o \in Requests \ {r} : row'[r].key # row[o].key
      BY <2>5, <2>6, <2>8
    <2> QED BY <2>2, <2>5, <2>9, <2>10, <2>11, <2>12, <2>14, <2>15, RequestStep DEF Good
  <1> QED BY <1>1, <1>2

-----------------------------------------------------------------------------
(***************************************************************************)
(* Steps that change the tables.                                           *)
(***************************************************************************)
(* A row that counts for a code is counted once; used_count follows.        *)
LEMMA CommitGift ==
  ASSUME RewardsInv, NEW r \in Requests, Commit(r), NEW t \in Targets
  PROVE  /\ used'[t] = Cardinality({v \in claims' : v.key[1] = "gift" /\ v.key[2] = t})
         /\ used'[t] <= MaxUses[t]
  <1> DEFINE w == row[r]
             old == {v \in claims : v.key[1] = "gift" /\ v.key[2] = t}
             new == {v \in claims' : v.key[1] = "gift" /\ v.key[2] = t}
  <1>1. /\ phase[r] = "commit" /\ call[r] \in Calls[r] /\ Kind(r) # "draw"
        /\ ~Exists(w.key) /\ w.key[1] = Kind(r) /\ w.key[2] = call[r].target
        /\ claims' = claims \cup {w}
    BY DEF Commit, RewardsInv, Good, Asks, Wrote, Writes, Kind, AtWork
  <1>2. IsFiniteSet(old) /\ Cardinality(old) \in Nat
    BY FS_Subset, FS_CardinalityType DEF RewardsInv
  <1>3. used[t] = Cardinality(old) /\ used[t] <= MaxUses[t] /\ used \in [Targets -> Nat]
    BY DEF RewardsInv, GiftUsesCounted, TypeOK
  <1>4. w \notin old
    BY <1>1 DEF Exists
  <1>5. MaxUses[t] \in Nat
    BY RewardsAssumption
  <1>6. CASE Kind(r) = "gift" /\ call[r].target = t
    <2>1. new = old \cup {w}
      BY <1>1, <1>6
    <2>2. Cardinality(new) = Cardinality(old) + 1
      BY <1>2, <1>4, <2>1, FS_AddElement
    <2>3. used[t] < MaxUses[t]
      BY <1>1, <1>6 DEF RewardsInv, Good, UseLeft
    <2>4. used'[t] = used[t] + 1
      BY <1>3, <1>6 DEF Commit
    <2> HIDE DEF new, old
    <2>5. used'[t] = Cardinality(new) /\ used'[t] <= MaxUses[t]
      BY <1>2, <1>3, <1>5, <2>2, <2>3, <2>4
    <2> QED BY <2>5 DEF new
  <1>7. CASE ~(Kind(r) = "gift" /\ call[r].target = t)
    <2>1. new = old
      BY <1>1, <1>7
    <2>2. used'[t] = used[t]
      BY <1>3, <1>7 DEF Commit
    <2> QED BY <1>3, <2>1, <2>2
  <1> QED BY <1>6, <1>7

(* A vote that arrives after the end of the campaign is one that may miss.  *)
LEMMA StillFair ==
  ASSUME RewardsInv, NEW r \in Requests, Commit(r), now >= Ends, NEW w, Fair(w)
  PROVE  Fair(w)'
  <1> DEFINE v == row[r]
  <1>1. /\ claims' = claims \cup {v} /\ timely' = timely
        /\ now \in Nat /\ timely \subseteq claims
    BY RewardsAssumption, SMTT(30) DEF Commit, RewardsInv, TypeOK
  <1>2. v \notin claims
    BY DEF Commit, RewardsInv, Good, Wrote, Writes, Exists
  <1> HIDE DEF v
  <1>3. PICK missing \in SUBSET {u \in Votes \ timely : InCampaign(u)} :
          w = Drawn({u \in Votes \ missing : InCampaign(u)})
    BY DEF Fair
  <1>4. CASE v.key[1] = "vote" /\ InCampaign(v)
    <2> DEFINE more == missing \cup {v}
    <2>1. Votes' = Votes \cup {v}
      BY <1>1, <1>4 DEF Votes
    <2>2. more \subseteq {u \in Votes' \ timely' : InCampaign(u)}
      BY <1>1, <1>2, <1>4, <2>1
    <2>3. {u \in Votes' \ more : InCampaign(u)} = {u \in Votes \ missing : InCampaign(u)}
      BY <1>2, <2>1 DEF Votes
    <2>4. w = Drawn({u \in Votes' \ more : InCampaign(u)})
      BY <1>3, <2>3
    <2>5. Votes' = {u \in claims' : u.key[1] = "vote"}
      BY DEF Votes
    <2> HIDE DEF more
    <2> QED BY <2>2, <2>4 DEF Fair, Drawn, InCampaign
  <1>5. CASE ~(v.key[1] = "vote" /\ InCampaign(v))
    <2>1. {u \in Votes' \ missing : InCampaign(u)} = {u \in Votes \ missing : InCampaign(u)}
      BY <1>1, <1>5 DEF Votes
    <2>2. missing \subseteq {u \in Votes' \ timely' : InCampaign(u)}
      BY <1>1 DEF Votes
    <2>3. w = Drawn({u \in Votes' \ missing : InCampaign(u)})
      BY <1>3, <2>1
    <2> QED BY <2>2, <2>3 DEF Fair, Drawn, InCampaign
  <1> QED BY <1>4, <1>5

LEMMA CommitOthers ==
  ASSUME RewardsInv, NEW r \in Requests, Commit(r), Others(r), NEW o \in Requests \ {r}
  PROVE  Good(o)'
  <1> DEFINE w == row[r]
  <1>1. /\ phase[r] = "commit" /\ call[r] \in Calls[r] /\ Kind(r) # "draw" /\ Writes(r)
        /\ w.key[1] = Kind(r) /\ w.key[2] = call[r].target
        /\ claims' = claims \cup {w} /\ UNCHANGED <<now, drawn>>
    BY DEF Commit, RewardsInv, Good, Asks, Wrote, Writes, Kind, AtWork
  <1>2. /\ phase'[o] = phase[o] /\ call'[o] = call[o] /\ row'[o] = row[o]
        /\ picked'[o] = picked[o]
    BY DEF Others
  <1>3. Good(o) /\ Apart
    BY DEF RewardsInv
  <1> HIDE DEF w
  <1>4. Asks(o)'
    BY <1>2, <1>3 DEF Good, Asks, Kind
  <1>5. Wrote(o)'
    <2>1. Writes(o)' <=> Writes(o)
      BY <1>2 DEF Writes, Kind
    <2>2. Writes(o) => row[o].key # w.key
      BY <1>1, <1>3 DEF Apart, w
    <2>3. Writes(o) => ~Exists(row[o].key)'
      BY <1>1, <1>2, <1>3, <2>2 DEF Good, Wrote, Exists
    <2> QED BY <1>2, <1>3, <2>1, <2>3 DEF Good, Wrote, Kind
  <1>6. UseLeft(o)'
    <2> SUFFICES ASSUME phase[o] \in {"insert", "commit"}, Kind(o) = "gift"
        PROVE  used'[call[o].target] < MaxUses[call[o].target]
        BY <1>2 DEF UseLeft, Kind
    <2>1. ~(Kind(r) = "gift" /\ call[r].target = call[o].target)
      BY <1>1, <1>3, SameRow
    <2>2. used'[call[o].target] = used[call[o].target]
      BY <2>1 DEF Commit, RewardsInv, TypeOK
    <2> QED BY <1>3, <2>2 DEF Good, UseLeft
  <1>7. CoolDown(o)'
    <2> SUFFICES ASSUME phase[o] \in {"insert", "commit"}, Kind(o) = "vote"
        PROVE  CoolDown(o)'
        BY <1>2 DEF CoolDown, Kind
    <2>1. ~(Kind(r) = "vote" /\ call[r].target = call[o].target)
      BY <1>1, <1>3, SameRow
    <2>2. \A v \in Votes' : v.key[2] = call[o].target => v \in Votes
      BY <1>1, <2>1 DEF Votes
    <2> QED BY <1>1, <1>2, <1>3, <2>2 DEF Good, CoolDown, Rested, Kind
  <1>8. Draws(o)'
    <2> SUFFICES ASSUME phase[o] = "commit", Kind(o) = "draw"
        PROVE  ~drawn /\ now >= Ends /\ Fair(picked[o])'
        BY <1>1, <1>2 DEF Draws, Kind
    <2>1. ~drawn /\ now >= Ends /\ Fair(picked[o])
      BY <1>3 DEF Good, Draws
    <2>2. Fair(picked[o])'
      BY <1>2, <2>1, StillFair DEF Fair
    <2> QED BY <2>1, <2>2
  <1> QED BY <1>4, <1>5, <1>6, <1>7, <1>8 DEF Good

LEMMA CommitCooldown ==
  ASSUME RewardsInv, NEW r \in Requests, Commit(r)
  PROVE  CooldownKept'
  <1> DEFINE w == row[r]
             c == call[r]
             Near(v, u) == /\ v # u /\ v.key[2] = u.key[2]
                           /\ v.account = u.account \/ (v.net # None /\ v.net = u.net)
             Far(v, u) == v.at - u.at >= Cooldown \/ u.at - v.at >= Cooldown
  <1>1. /\ w \in Rows /\ w.key[1] = Kind(r) /\ w.key[2] = c.target
        /\ w.account = c.account /\ w.net = c.net /\ claims' = claims \cup {w}
    BY DEF Commit, RewardsInv, Good, Wrote, Writes, Kind
  <1>2. Kind(r) = "vote" => Rested(c, w.at)
    BY DEF Commit, RewardsInv, Good, CoolDown
  <1>3. /\ \A v \in Votes' : v \in Votes \/ (v = w /\ Kind(r) = "vote")
        /\ \A v \in Votes : v.at \in Nat
        /\ w.at \in Nat /\ Cooldown \in Nat
    BY <1>1, SMTT(30), RewardsAssumption DEF Votes, RewardsInv, TypeOK, Rows
  <1> HIDE DEF w, c
  <1>4. ASSUME NEW v \in Votes, Kind(r) = "vote", Near(v, w) \/ Near(w, v)
        PROVE  w.at - v.at >= Cooldown
    <2>1. v.key[2] = c.target /\ (v.account = c.account \/ (c.net # None /\ v.net = c.net))
      BY <1>1, <1>4
    <2>2. v.at <= w.at - Cooldown
      BY <1>2, <1>4, <2>1 DEF Rested
    <2> QED BY <1>3, <2>2
  <1> SUFFICES ASSUME NEW v \in Votes', NEW u \in Votes', Near(v, u)
      PROVE  Far(v, u)
      BY DEF CooldownKept
  <1>5. CASE v \in Votes /\ u \in Votes
    BY <1>5 DEF RewardsInv, CooldownKept
  <1>6. CASE v \notin Votes
    BY <1>3, <1>4, <1>6
  <1>7. CASE u \notin Votes
    BY <1>3, <1>4, <1>7
  <1> QED BY <1>5, <1>6, <1>7

LEMMA CommitStep ==
  ASSUME RewardsInv, NEW r \in Requests, Commit(r)
  PROVE  RewardsInv'
  <1> DEFINE w == row[r]
  <1>1. RequestTypes
    BY DEF RewardsInv, TypeOK, RequestTypes
  <1>2. /\ Others(r) /\ RequestTypes' /\ Good(r)' /\ Holds(r)' = {} /\ ~Writes(r)'
    BY <1>1, LeaveEffect DEF Commit, Ended
  <1>3. /\ w \in Rows /\ w.account \in Accounts /\ w.credits \in Nat
        /\ claims' = claims \cup {w}
        /\ UNCHANGED <<now, active, recruits, drawn, winners, misread>>
    BY DEF Commit, RewardsInv, Good, Wrote, Writes, Rows
  <1>4. /\ wallet' \in [Accounts -> Nat] /\ ledger' \in [Accounts -> Nat]
        /\ used' \in [Targets -> Nat] /\ timely' \subseteq claims'
    <2>1. Kind(r) = "gift" => call[r].target \in Targets
      BY CallType DEF Commit, RewardsInv, Good, Asks, AtWork, Kind, ByEvent
    <2>2. /\ wallet' = [wallet EXCEPT ![w.account] = @ + w.credits]
          /\ ledger' = [ledger EXCEPT ![w.account] = @ + w.credits]
          /\ wallet \in [Accounts -> Nat] /\ ledger \in [Accounts -> Nat]
      BY DEF Commit, RewardsInv, TypeOK
    <2>3. used' \in [Targets -> Nat]
      BY <2>1 DEF Commit, RewardsInv, TypeOK
    <2>4. timely' \subseteq claims'
      BY <1>3 DEF Commit, RewardsInv, TypeOK
    <2> HIDE DEF w
    <2>5. wallet' \in [Accounts -> Nat] /\ ledger' \in [Accounts -> Nat]
      BY <1>3, <2>2
    <2> QED BY <2>3, <2>4, <2>5
  <1>5. TypeOK'
    BY <1>2, <1>3, <1>4 DEF RewardsInv, TypeOK, RequestTypes
  <1>6. IsFiniteSet(claims)' /\ Campaign'
    BY <1>3, FS_AddElement DEF RewardsInv, Campaign
  <1>7. Apart'
    BY <1>2, OthersApart DEF RewardsInv
  <1>8. \A o \in Requests : Good(o)'
    BY <1>2, CommitOthers
  <1>9. GiftUsesCounted'
    BY CommitGift DEF GiftUsesCounted
  <1>10. CooldownKept'
    BY CommitCooldown
  <1>11. DrawHonest'
    <2> SUFFICES ASSUME drawn PROVE Fair(winners)'
      BY <1>3 DEF DrawHonest, Fair
    <2>1. now >= Ends /\ Fair(winners)
      BY DEF RewardsInv, Campaign, DrawHonest, Fair
    <2> QED BY <1>3, <2>1, StillFair DEF Fair
  <1> QED BY <1>5, <1>6, <1>7, <1>8, <1>9, <1>10, <1>11 DEF RewardsInv

(* One draw at a time holds the row of the campaign.                        *)
LEMMA CommitDrawStep ==
  ASSUME RewardsInv, NEW r \in Requests, CommitDraw(r)
  PROVE  RewardsInv'
  <1>1. RequestTypes /\ Apart /\ picked[r] \in SUBSET Accounts
    BY DEF RewardsInv, TypeOK, RequestTypes
  <1>2. /\ Others(r) /\ RequestTypes' /\ Good(r)' /\ Holds(r)' = {} /\ ~Writes(r)'
    BY <1>1, LeaveEffect DEF CommitDraw, Ended
  <1>3. /\ phase[r] = "commit" /\ Kind(r) = "draw" /\ call[r] \in Calls[r]
        /\ ~drawn /\ winners = {} /\ now >= Ends /\ Fair(picked[r])
    BY DEF CommitDraw, RewardsInv, Good, Asks, Draws, AtWork, Campaign
  <1>4. /\ drawn' = TRUE /\ winners' = picked[r]
        /\ UNCHANGED <<now, claims, used, recruits, wallet, ledger, timely, active, misread>>
    BY <1>3 DEF CommitDraw
  <1>5. TypeOK'
    BY <1>1, <1>2, <1>4 DEF RewardsInv, TypeOK, RequestTypes
  <1>6. IsFiniteSet(claims)' /\ Campaign'
    BY <1>3, <1>4 DEF RewardsInv, Campaign
  <1>7. Apart'
    BY <1>2, OthersApart DEF RewardsInv
  <1>8. ASSUME NEW o \in Requests \ {r} PROVE Good(o)'
    <2>1. Good(o)
      BY DEF RewardsInv
    <2>2. ~(phase[o] = "commit" /\ Kind(o) = "draw")
      <3> SUFFICES ASSUME phase[o] = "commit", Kind(o) = "draw" PROVE FALSE
        OBVIOUS
      <3>1. call[o] \in Calls[o]
        BY <2>1 DEF Good, Asks, AtWork
      <3>2. call[o].target = call[r].target
        BY <1>3, <3>1, OneCampaign DEF Kind
      <3> QED BY <1>1, <1>3, <3>2, SameRow
    <2>3. /\ phase'[o] = phase[o] /\ call'[o] = call[o] /\ row'[o] = row[o]
      BY <1>2 DEF Others
    <2>4. Asks(o)' /\ UseLeft(o)'
      BY <1>4, <2>1, <2>3 DEF Good, Asks, UseLeft, Kind
    <2>5. Wrote(o)'
      BY <1>4, <2>1, <2>3 DEF Good, Wrote, Writes, Kind, Exists
    <2>6. CoolDown(o)'
      BY <1>4, <2>1, <2>3 DEF Good, CoolDown, Rested, Votes, Kind
    <2>7. Draws(o)'
      BY <2>2, <2>3 DEF Draws, Kind
    <2> QED BY <2>4, <2>5, <2>6, <2>7 DEF Good
  <1>9. GiftUsesCounted' /\ CooldownKept'
    BY <1>4 DEF RewardsInv, GiftUsesCounted, CooldownKept, Votes
  <1>10. DrawHonest'
    BY <1>3, <1>4 DEF DrawHonest, Fair, Votes
  <1> QED BY <1>2, <1>5, <1>6, <1>7, <1>8, <1>9, <1>10 DEF RewardsInv

LEMMA RecruitStep ==
  ASSUME RewardsInv, NEW a \in Accounts, Recruit(a)
  PROVE  RewardsInv'
  <1>1. /\ UNCHANGED <<now, claims, used, drawn, winners, timely, active, misread>>
        /\ UNCHANGED <<phase, call, seen, row, picked>>
    BY DEF Recruit, request
  <1>2. TypeOK'
    <2>1. MaxRecruits \in Nat /\ RecruitCredits \in Nat
      BY RewardsAssumption
    <2>2. recruits' \in [Accounts -> 0..MaxRecruits]
      BY <2>1 DEF Recruit, RewardsInv, TypeOK
    <2>3. wallet' \in [Accounts -> Nat] /\ ledger' \in [Accounts -> Nat]
      BY <2>1 DEF Recruit, RewardsInv, TypeOK
    <2> QED BY <1>1, <2>2, <2>3 DEF RewardsInv, TypeOK
  <1>3. IsFiniteSet(claims)' /\ Campaign'
    BY <1>1 DEF RewardsInv, Campaign
  <1>4. Apart'
    BY <1>1 DEF RewardsInv, Apart, Holds, Writes, Kind
  <1>5. ASSUME NEW r \in Requests PROVE Good(r)'
    <2>1. Good(r)
      BY DEF RewardsInv
    <2>2. Asks(r)' /\ Wrote(r)' /\ UseLeft(r)'
      BY <1>1, <2>1 DEF Good, Asks, Wrote, Writes, UseLeft, Exists, Kind
    <2>3. CoolDown(r)'
      BY <1>1, <2>1 DEF Good, CoolDown, Rested, Votes, Kind
    <2>4. Draws(r)'
      BY <1>1, <2>1 DEF Good, Draws, Fair, Votes, Kind
    <2> QED BY <2>2, <2>3, <2>4 DEF Good
  <1>6. GiftUsesCounted' /\ CooldownKept' /\ DrawHonest'
    BY <1>1 DEF RewardsInv, GiftUsesCounted, CooldownKept, DrawHonest, Votes
  <1> QED BY <1>2, <1>3, <1>4, <1>5, <1>6 DEF RewardsInv

(* The clock and staff: what was checked holds later as well.               *)
LEMMA SurroundingStep ==
  ASSUME RewardsInv, UNCHANGED <<tables, request>>,
         now' \in 0..MaxNow, now <= now', active' \subseteq Targets, misread' \subseteq Accounts
  PROVE  RewardsInv'
  <1>1. /\ UNCHANGED <<claims, used, recruits, wallet, ledger, drawn, winners, timely>>
        /\ UNCHANGED <<phase, call, seen, row, picked>>
    BY DEF tables, request
  <1>2. /\ now \in Nat /\ now' \in Nat /\ Cooldown \in Nat /\ Ends \in Nat
        /\ \A v \in Votes : v.at \in Nat
    BY RewardsAssumption DEF RewardsInv, TypeOK, Votes, Rows
  <1>3. TypeOK'
    BY <1>1 DEF RewardsInv, TypeOK
  <1>4. IsFiniteSet(claims)' /\ Campaign'
    BY <1>1, <1>2 DEF RewardsInv, Campaign
  <1>5. Apart'
    BY <1>1 DEF RewardsInv, Apart, Holds, Writes, Kind
  <1>6. ASSUME NEW r \in Requests PROVE Good(r)'
    <2>1. Good(r)
      BY DEF RewardsInv
    <2>2. Asks(r)' /\ Wrote(r)' /\ UseLeft(r)'
      BY <1>1, <2>1 DEF Good, Asks, Wrote, Writes, UseLeft, Exists, Kind
    <2>3. CoolDown(r)'
      <3>1. CASE phase[r] = "insert" /\ Kind(r) = "vote"
        <4>1. Rested(call[r], now)
          BY <2>1, <3>1 DEF Good, CoolDown
        <4>2. Rested(call[r], now)'
          BY <1>1, <1>2, <4>1 DEF Rested, Votes
        <4> QED BY <1>1, <3>1, <4>2 DEF CoolDown, Kind
      <3>2. CASE ~(phase[r] = "insert" /\ Kind(r) = "vote")
        BY <1>1, <2>1, <3>2 DEF Good, CoolDown, Rested, Votes, Kind
      <3> QED BY <3>1, <3>2
    <2>4. Draws(r)'
      <3> SUFFICES ASSUME phase[r] = "commit", Kind(r) = "draw"
          PROVE  ~drawn /\ now' >= Ends /\ Fair(picked[r])'
          BY <1>1 DEF Draws, Kind
      <3>1. ~drawn /\ now >= Ends /\ Fair(picked[r])
        BY <2>1 DEF Good, Draws
      <3>2. Fair(picked[r])'
        BY <1>1, <3>1 DEF Fair, Votes
      <3>3. now' >= Ends
        BY <1>2, <3>1
      <3> QED BY <3>1, <3>2, <3>3
    <2> QED BY <2>2, <2>3, <2>4 DEF Good
  <1>7. GiftUsesCounted' /\ CooldownKept' /\ DrawHonest'
    BY <1>1 DEF RewardsInv, GiftUsesCounted, CooldownKept, DrawHonest, Votes
  <1> QED BY <1>3, <1>4, <1>5, <1>6, <1>7 DEF RewardsInv

LEMMA TickStep ==
  ASSUME RewardsInv, Tick
  PROVE  RewardsInv'
  <1>1. now' \in 0..MaxNow /\ now <= now' /\ active' \subseteq Targets
    BY RewardsAssumption DEF Tick, RewardsInv, TypeOK
  <1>2. \A r \in Requests : Kind(r) = "daily" => call[r].account \in Accounts
    BY CallType, NotAtWork DEF RewardsInv, Good, Asks, Kind, Kinds
  <1>3. misread' \subseteq Accounts
    BY <1>2 DEF Tick, RewardsInv, TypeOK
  <1> QED BY <1>1, <1>3, SurroundingStep DEF Tick

LEMMA DisableStep ==
  ASSUME RewardsInv, NEW t, Disable(t)
  PROVE  RewardsInv'
  <1>1. now \in 0..MaxNow /\ now <= now /\ now \in Nat
    BY RewardsAssumption DEF RewardsInv, TypeOK
  <1> QED BY <1>1, SurroundingStep DEF Disable, RewardsInv, TypeOK

-----------------------------------------------------------------------------
LEMMA RewardsStep == RewardsInv /\ [Next]_vars => RewardsInv'
  <1> SUFFICES ASSUME RewardsInv, [Next]_vars PROVE RewardsInv'
    OBVIOUS
  <1>1. ASSUME NEW r \in Requests, Step(r) PROVE RewardsInv'
    BY <1>1, LockStep, DrawStep, ReadStreakStep, StreakUnreadStep, ReadProgressStep, InsertStep,
       CommitStep, CommitDrawStep
    DEF Step
  <1>2. ASSUME NEW r \in Requests, NEW c \in Calls[r], Begin(r, c) PROVE RewardsInv'
    BY <1>2, BeginStep
  <1>3. ASSUME NEW r \in Requests, Abandon(r) PROVE RewardsInv'
    BY <1>3, AbandonStep
  <1>4. ASSUME NEW a \in Accounts, Recruit(a) PROVE RewardsInv'
    BY <1>4, RecruitStep
  <1>5. ASSUME NEW t \in Switched, Disable(t) PROVE RewardsInv'
    BY <1>5, DisableStep
  <1>6. CASE Tick
    BY <1>6, TickStep
  <1>7. CASE UNCHANGED vars
    <2>1. /\ now' \in 0..MaxNow /\ now <= now' /\ active' \subseteq Targets
          /\ misread' \subseteq Accounts
      BY <1>7, RewardsAssumption DEF vars, RewardsInv, TypeOK
    <2> QED BY <1>7, <2>1, SurroundingStep DEF vars
  <1> QED BY <1>1, <1>2, <1>3, <1>4, <1>5, <1>6, <1>7 DEF Next

LEMMA Invariance == Spec => []RewardsInv
  BY RewardsInit, RewardsStep, PTL DEF Spec

-----------------------------------------------------------------------------
(* The tables and the requests keep their types.                            *)
THEOREM RewardTypes == Spec => []TypeOK
  <1>1. RewardsInv => TypeOK
    BY DEF RewardsInv
  <1> QED BY <1>1, Invariance, PTL

(* A gift code's used_count is the number of its redemptions and never      *)
(* exceeds max_uses, for any number of requests (redeemGiftCode).           *)
THEOREM GiftCodesCounted == Spec => []GiftUsesCounted
  <1>1. RewardsInv => GiftUsesCounted
    BY DEF RewardsInv
  <1> QED BY <1>1, Invariance, PTL

(* Paid votes of one account, or one network, for one site are a cooldown   *)
(* apart (recordVerifiedVote).                                              *)
THEOREM VotesCooldown == Spec => []CooldownKept
  <1>1. RewardsInv => CooldownKept
    BY DEF RewardsInv
  <1> QED BY <1>1, Invariance, PTL

(* The winners of a campaign are the draw of its votes, but for votes that  *)
(* were committed after its end (drawVoteCampaign).                         *)
THEOREM WinnersDrawn == Spec => []DrawHonest
  <1>1. RewardsInv => DrawHonest
    BY DEF RewardsInv
  <1> QED BY <1>1, Invariance, PTL

(* A repeated callback of a paid vote is answered as a duplicate, and a     *)
(* drawn campaign keeps its winners.                                        *)
THEOREM Acknowledged == Spec => AnswersStand
  <1> DEFINE Acknowledges == \A r \in Requests :
        phase[r] = "lock" /\ phase'[r] = "refused" /\ Kind(r) = "vote" /\ call[r].target \in active
          => ~Recorded(call[r])
      Keeps == drawn => drawn' /\ winners' = winners
  <1>1. RewardsInv /\ [Next]_vars => [Acknowledges]_vars
    <2> SUFFICES ASSUME RewardsInv, Next, NEW r \in Requests, phase[r] = "lock",
                        phase'[r] = "refused", Kind(r) = "vote", call[r].target \in active
        PROVE  ~Recorded(call[r])
        BY DEF vars
    <2>1. RequestTypes
      BY DEF RewardsInv, TypeOK, RequestTypes
    <2>2. CASE Lock(r)
      <3>1. ~Grants(call[r]) /\ Leave(r, Answer(call[r]))
        BY <2>1, <2>2 DEF Lock, Goto, RequestTypes
      <3>2. Answer(call[r]) = "refused"
        BY <2>1, <3>1 DEF Leave, RequestTypes
      <3> QED BY <3>2 DEF Answer, Kind
    <2>3. ASSUME NEW o \in Requests, o # r, phase' = [phase EXCEPT ![o] = phase'[o]]
          PROVE FALSE
      BY <2>1, <2>3 DEF RequestTypes
    <2>4. CASE UNCHANGED phase
      BY <2>4
    <2>5. PICK o \in Requests :
            \/ Lock(r) \/ phase' = phase
            \/ o # r /\ phase' = [phase EXCEPT ![o] = phase'[o]]
      <3>1. ASSUME NEW o \in Requests, NEW p, phase' = [phase EXCEPT ![o] = p]
            PROVE  phase' = [phase EXCEPT ![o] = phase'[o]]
        BY <2>1, <3>1 DEF RequestTypes
      <3>2. ASSUME NEW o \in Requests, Step(o) \/ Abandon(o) \/ \E c \in Calls[o] : Begin(o, c)
            PROVE  \E p : phase' = [phase EXCEPT ![o] = p]
        BY <3>2 DEF Step, Abandon, Begin, Lock, Draw, ReadStreak, StreakUnread, ReadProgress,
                    Insert, Commit, CommitDraw, Leave, Goto
      <3>3. ASSUME Step(r) \/ Abandon(r) \/ \E c \in Calls[r] : Begin(r, c)
            PROVE  Lock(r)
        <4>1. ~Abandon(r)
          BY <2>1 DEF Abandon, Leave, RequestTypes
        <4> QED BY <3>3, <4>1 DEF Step, Begin, Draw, ReadStreak, StreakUnread, ReadProgress,
                                  Insert, Commit, CommitDraw
      <3>4. CASE \E o \in Requests : Step(o) \/ Abandon(o) \/ \E c \in Calls[o] : Begin(o, c)
        BY <3>1, <3>2, <3>3, <3>4
      <3>5. CASE (\E a \in Accounts : Recruit(a)) \/ (\E t \in Switched : Disable(t)) \/ Tick
        BY <3>5 DEF Recruit, Disable, Tick, request
      <3> QED BY <3>4, <3>5 DEF Next
    <2> QED BY <2>2, <2>3, <2>4, <2>5
  <1>2. RewardsInv /\ [Next]_vars => [Keeps]_vars
    <2> SUFFICES ASSUME RewardsInv, Next, drawn PROVE drawn' /\ winners' = winners
        BY DEF vars
    <2>1. \A r \in Requests : ~CommitDraw(r)
      BY DEF RewardsInv, Good, Draws, CommitDraw
    <2> QED
      BY <2>1 DEF Next, Step, Begin, Lock, Draw, ReadStreak, StreakUnread, ReadProgress, Insert,
                  Commit, Abandon, Recruit, Disable, Tick, tables
  <1> QED BY <1>1, <1>2, Invariance, PTL
          DEF Spec, AnswersStand, RetryAcknowledged, DrawIsFinal
-----------------------------------------------------------------------------
(***************************************************************************)
(* The credits of an account.                                              *)
(***************************************************************************)
Worth == [v \in claims |-> v.credits]

LEMMA ClaimsType ==
  ASSUME RewardsInv, NEW a
  PROVE  /\ ClaimsOf(a) \subseteq claims /\ IsFiniteSet(ClaimsOf(a))
         /\ \A v \in claims : Worth[v] \in Nat
  <1>1. ClaimsOf(a) \in SUBSET claims  BY DEF ClaimsOf
  <1>2. \A v \in claims : v.credits \in Nat  BY DEF RewardsInv, TypeOK, Rows
  <1> QED  BY <1>1, <1>2, FS_Subset DEF RewardsInv, Worth

(* A step that pays nobody.                                                 *)
LEMMA NothingPaid ==
  ASSUME Accounted, UNCHANGED <<claims, wallet, ledger, recruits>>
  PROVE  Accounted'
  BY DEF Accounted, ClaimsOf

(* The row that is committed is new, and the wallet of its account gets     *)
(* what it says.                                                            *)
LEMMA CommitPays ==
  ASSUME RewardsInv, Accounted, NEW r \in Requests, Commit(r)
  PROVE  Accounted'
  <1> SUFFICES ASSUME NEW a \in Accounts
               PROVE  /\ wallet'[a] = ledger'[a]
                      /\ wallet'[a] = Total(Worth', ClaimsOf(a)') + RecruitCredits * recruits'[a]
    BY DEF Accounted, Worth
  <1>1. PICK w : w = row[r]  OBVIOUS
  <1>2. /\ w \in Rows /\ w.account \in Accounts /\ w.credits \in Nat /\ w \notin claims
        /\ claims' = claims \cup {w} /\ recruits' = recruits
        /\ wallet' = [wallet EXCEPT ![w.account] = @ + w.credits]
        /\ ledger' = [ledger EXCEPT ![w.account] = @ + w.credits]
    BY <1>1 DEF Commit, RewardsInv, Good, Wrote, Writes, Exists, Rows
  <1>3. /\ wallet[a] \in Nat /\ ledger[a] \in Nat
        /\ wallet'[a] = IF a = w.account THEN wallet[a] + w.credits ELSE wallet[a]
        /\ ledger'[a] = IF a = w.account THEN ledger[a] + w.credits ELSE ledger[a]
    BY <1>2 DEF RewardsInv, TypeOK
  <1> DEFINE joined == RecruitCredits * recruits[a]
  <1>4. /\ wallet[a] = ledger[a] /\ wallet[a] = Total(Worth, ClaimsOf(a)) + joined
        /\ RecruitCredits * recruits'[a] = joined
    BY <1>2 DEF Accounted, Worth
  <1>5. joined \in Nat
    <2>1. RecruitCredits \in Nat /\ recruits[a] \in Nat
      BY RewardsAssumption DEF RewardsInv, TypeOK
    <2> QED  BY <2>1
  <1> HIDE DEF joined
  <1>6. /\ \A v \in claims : Worth'[v] = Worth[v]
        /\ \A v \in claims \cup {w} : Worth'[v] \in Nat
        /\ Worth'[w] = w.credits
    <2>1. \A v \in claims : v.credits \in Nat  BY DEF RewardsInv, TypeOK, Rows
    <2>2. Worth' = [v \in claims \cup {w} |-> v.credits]  BY <1>2 DEF Worth
    <2> QED  BY <1>2, <2>1, <2>2 DEF Worth
  <1>7. /\ ClaimsOf(a) \subseteq claims /\ IsFiniteSet(ClaimsOf(a))
        /\ Total(Worth', ClaimsOf(a)) = Total(Worth, ClaimsOf(a))
        /\ Total(Worth', ClaimsOf(a)) \in Nat
    <2>1. ClaimsOf(a) \subseteq claims /\ IsFiniteSet(ClaimsOf(a))  BY ClaimsType
    <2>2. \A v \in ClaimsOf(a) : Worth'[v] = Worth[v] /\ Worth'[v] \in Nat  BY <1>6, <2>1
    <2> QED  BY <2>1, <2>2, TotalSame, TotalType
  <1>8. CASE a = w.account
    <2>1. ClaimsOf(a)' = ClaimsOf(a) \cup {w}  BY <1>2, <1>8 DEF ClaimsOf
    <2>2. Total(Worth', ClaimsOf(a) \cup {w}) = Total(Worth', ClaimsOf(a)) + w.credits
      <3>1. w \notin ClaimsOf(a) /\ \A v \in ClaimsOf(a) \cup {w} : Worth'[v] \in Nat
        BY <1>2, <1>6, <1>7
      <3>2. Total(Worth', ClaimsOf(a) \cup {w}) = Total(Worth', ClaimsOf(a)) + Worth'[w]
        BY <1>7, <3>1, TotalWith
      <3> QED  BY <1>6, <3>2
    <2>3. wallet'[a] = ledger'[a]  BY <1>3, <1>4, <1>8
    <2>4. wallet'[a] = Total(Worth', ClaimsOf(a)) + w.credits + joined
      BY <1>2, <1>3, <1>4, <1>5, <1>7, <1>8
    <2> QED  BY <1>2, <1>4, <1>5, <1>7, <2>1, <2>2, <2>3, <2>4
  <1>9. CASE a # w.account
    <2>1. ClaimsOf(a)' = ClaimsOf(a)  BY <1>2, <1>9 DEF ClaimsOf
    <2> QED  BY <1>3, <1>4, <1>7, <1>9, <2>1
  <1> QED  BY <1>8, <1>9

LEMMA RecruitPays ==
  ASSUME RewardsInv, Accounted, NEW b \in Accounts, Recruit(b)
  PROVE  Accounted'
  <1> SUFFICES ASSUME NEW a \in Accounts
               PROVE  /\ wallet'[a] = ledger'[a]
                      /\ wallet'[a] = Total(Worth, ClaimsOf(a)) + RecruitCredits * recruits'[a]
    BY DEF Accounted, Worth, ClaimsOf, Recruit
  <1>1. /\ wallet[a] \in Nat /\ ledger[a] \in Nat /\ recruits[a] \in Nat /\ RecruitCredits \in Nat
        /\ wallet'[a] = IF a = b THEN wallet[a] + RecruitCredits ELSE wallet[a]
        /\ ledger'[a] = IF a = b THEN ledger[a] + RecruitCredits ELSE ledger[a]
        /\ recruits'[a] = IF a = b THEN recruits[a] + 1 ELSE recruits[a]
    BY RewardsAssumption DEF RewardsInv, TypeOK, Recruit
  <1>2. /\ wallet[a] = ledger[a]
        /\ wallet[a] = Total(Worth, ClaimsOf(a)) + RecruitCredits * recruits[a]
    BY DEF Accounted, Worth
  <1>3. Total(Worth, ClaimsOf(a)) \in Nat
    <2>1. \A v \in ClaimsOf(a) : Worth[v] \in Nat  BY ClaimsType
    <2> QED  BY <2>1, ClaimsType, TotalType
  <1>4. /\ RecruitCredits * (recruits[a] + 1) = RecruitCredits * recruits[a] + RecruitCredits
        /\ RecruitCredits * recruits[a] \in Nat
    <2>1. \A x, y \in Nat : x * (y + 1) = x * y + x /\ x * y \in Nat  OBVIOUS
    <2> QED  BY <1>1, <2>1
  <1> DEFINE joined == RecruitCredits * recruits[a]
  <1>5. CASE a = b
    <2>1. RecruitCredits * recruits'[a] = joined + RecruitCredits /\ joined \in Nat
      BY <1>1, <1>4, <1>5
    <2>2. wallet[a] = Total(Worth, ClaimsOf(a)) + joined  BY <1>2
    <2> HIDE DEF joined
    <2> QED  BY <1>1, <1>2, <1>3, <1>5, <2>1, <2>2
  <1>6. CASE a # b  BY <1>1, <1>2, <1>6
  <1> QED  BY <1>5, <1>6

(* Every credit of a wallet has one row that says why, and every row was     *)
(* paid once, for any number of callbacks, parallel requests and failed      *)
(* transactions (votes.go, gift_codes.go, dashboard.go, reward_progress.go,  *)
(* retention.go).                                                            *)
THEOREM CreditsHaveReasons == Spec => []Accounted
  <1>1. Init => Accounted
    <2> SUFFICES ASSUME Init, NEW a \in Accounts
                 PROVE  /\ wallet[a] = ledger[a]
                        /\ wallet[a] = Total(Worth, ClaimsOf(a)) + RecruitCredits * recruits[a]
      BY DEF Accounted, Worth
    <2>1. ClaimsOf(a) = {}  BY DEF Init, ClaimsOf
    <2>2. RecruitCredits * recruits[a] = 0
      <3>1. RecruitCredits \in Nat /\ recruits[a] = 0  BY RewardsAssumption DEF Init
      <3> QED  BY <3>1
    <2> QED  BY <2>1, <2>2, TotalEmpty DEF Init
  <1>2. RewardsInv /\ Accounted /\ [Next]_vars => Accounted'
    <2> SUFFICES ASSUME RewardsInv, Accounted, [Next]_vars PROVE Accounted'  OBVIOUS
    <2> USE DEF tables, request
    <2>1. ASSUME NEW r \in Requests, Commit(r) PROVE Accounted'  BY <2>1, CommitPays
    <2>2. ASSUME NEW a \in Accounts, Recruit(a) PROVE Accounted'  BY <2>2, RecruitPays
    <2>3. ASSUME NEW r \in Requests,
                 \/ \E c \in Calls[r] : Begin(r, c)
                 \/ Lock(r) \/ Draw(r) \/ ReadStreak(r) \/ StreakUnread(r) \/ ReadProgress(r)
                 \/ Insert(r) \/ CommitDraw(r) \/ Abandon(r)
          PROVE  UNCHANGED <<claims, wallet, ledger, recruits>>
      BY <2>3 DEF Begin, Lock, Draw, ReadStreak, StreakUnread, ReadProgress, Insert, CommitDraw,
         Abandon
    <2>4. CASE (\E t \in Switched : Disable(t)) \/ Tick \/ UNCHANGED vars
      BY <2>4, NothingPaid DEF Disable, Tick, vars
    <2> QED  BY <2>1, <2>2, <2>3, <2>4, NothingPaid DEF Next, Step
  <1> QED  BY <1>1, <1>2, Invariance, PTL DEF Spec

-----------------------------------------------------------------------------
(***************************************************************************)
(* The daily streak.                                                       *)
(***************************************************************************)
DailyDays(a) == {v.key[4] : v \in {w \in ClaimsOf(a) : w.key[1] = "daily"}}
Run(days, d) == {e \in days : d - StreakRows <= e /\ e < d /\ e .. d - 1 \subseteq days}
Earned(days, d) == Cycle[Cardinality(Run(days, d)) % Cardinality(DOMAIN Cycle)]

(* The key of a daily claim names its account and a day that has begun.     *)
Dated(v) ==
  v.key[1] = "daily" =>
    v.key = <<"daily", None, v.account, v.key[4]>> /\ v.key[4] \in Nat /\ v.key[4] <= Day(now)

(* Unless its account is misread, a claim that has read its streak knows the *)
(* days before today, or today was claimed meanwhile and its row will be a  *)
(* duplicate; one that has written its row wrote today's.                   *)
Counts(r) ==
  phase[r] = "insert" /\ Kind(r) = "daily" /\ call[r].account \notin misread =>
    \/ Day(now) \in DailyDays(call[r].account)
    \/ seen[r] = Cardinality(Run(DailyDays(call[r].account), Day(now)))
Claims(r) ==
  phase[r] = "commit" /\ Kind(r) = "daily" =>
    /\ Dated(row[r])
    /\ row[r].account \notin misread =>
         /\ row[r].key[4] = Day(now)
         /\ row[r].credits = Earned(DailyDays(row[r].account), Day(now))
Rewarded(v) ==
  v.key[1] = "daily" /\ v.account \notin misread =>
    v.credits = Earned(DailyDays(v.account), v.key[4])

StreakInv ==
  /\ \A v \in claims : Dated(v) /\ Rewarded(v)
  /\ \A r \in Requests : Counts(r) /\ Claims(r)

LEMMA DivMonotone ==
  ASSUME NEW a \in Nat, NEW b \in Nat, a <= b, NEW d \in Nat \ {0}
  PROVE  a \div d <= b \div d
  <1>1. PICK p, q \in Nat : p = a \div d /\ q = b \div d
    OBVIOUS
  <1>2. /\ d * p <= a /\ a < d * (p + 1)
        /\ d * q <= b /\ b < d * (q + 1)
    BY <1>1
  <1>3. ASSUME q < p PROVE FALSE
    <2>1. d * (q + 1) <= d * p
      BY <1>3
    <2> QED BY <1>2, <2>1
  <1> QED BY <1>1, <1>3

LEMMA DaysType ==
  ASSUME RewardsInv
  PROVE  now \in Nat /\ Day(now) \in Nat /\ \A a : DailyDays(a) \in SUBSET Nat
  <1>1. now \in Nat /\ Day(now) \in Nat
    <2>1. now \in Nat
      BY RewardsAssumption DEF RewardsInv, TypeOK
    <2> QED BY <2>1, RewardsAssumption, DivNat DEF Day
  <1>2. \A v \in claims : v.key[4] \in Nat
    BY DEF RewardsInv, TypeOK, Rows, Keys
  <1> QED BY <1>1, <1>2 DEF DailyDays, ClaimsOf

(* A day adds nothing to the runs that end before it.                       *)
LEMMA LaterDay ==
  ASSUME NEW days \in SUBSET Nat, NEW d \in Nat, NEW k \in Nat, k <= d
  PROVE  Run(days \cup {d}, k) = Run(days, k)
  <1>1. ASSUME NEW e \in Nat PROVE e .. k - 1 \subseteq days \cup {d} <=> e .. k - 1 \subseteq days
    <2>1. d \notin e .. k - 1
      OBVIOUS
    <2> QED BY <2>1
  <1>2. \A e \in Nat : e < k => e # d
    OBVIOUS
  <1>3. ASSUME NEW e PROVE e \in Run(days \cup {d}, k) <=> e \in Run(days, k)
    <2>1. /\ e \in Run(days \cup {d}, k) <=>
                /\ e \in days \cup {d} /\ k - StreakRows <= e /\ e < k
                /\ e .. k - 1 \subseteq days \cup {d}
          /\ e \in Run(days, k) <=>
                e \in days /\ k - StreakRows <= e /\ e < k /\ e .. k - 1 \subseteq days
      BY Zenon DEF Run
    <2>2. CASE e \in Nat
      BY <1>1, <1>2, <2>1, <2>2
    <2>3. CASE e \notin Nat
      BY <2>1, <2>3
    <2> QED BY <2>2, <2>3
  <1>4. Run(days \cup {d}, k) \subseteq Run(days, k) /\ Run(days, k) \subseteq Run(days \cup {d}, k)
    BY <1>3
  <1> QED BY <1>4

(* Of the days before an unclaimed one, the latest StreakRows are read; the *)
(* unbroken among them are those no further back.                           *)
Latest(days, d) ==
  {e \in days : e <= d /\ Cardinality({f \in days : e < f /\ f <= d}) < StreakRows}
Unbroken(rows, d) == {e \in rows : e <= d - 1 /\ e .. d - 1 \subseteq rows}

LEMMA RunIsRead ==
  ASSUME NEW days \in SUBSET Nat, NEW d \in Nat, d \notin days
  PROVE  Unbroken(Latest(days, d), d) = Run(days, d)
  <1> DEFINE rows == Latest(days, d)
  <1>0. StreakRows \in Nat \ {0}
    BY RewardsAssumption
  <1>1. ASSUME NEW e \in days, e < d, e .. d - 1 \subseteq days
        PROVE  e \in rows <=> d - StreakRows <= e
    <2>1. {f \in days : e < f /\ f <= d} = e + 1 .. d - 1
      <3>1. \A f \in days : f # d
        OBVIOUS
      <3>2. ASSUME NEW f PROVE (f \in days /\ e < f /\ f <= d) <=> f \in e + 1 .. d - 1
        <4>1. ASSUME f \in e + 1 .. d - 1 PROVE f \in days /\ e < f /\ f <= d
          <5>1. f \in e .. d - 1 /\ e < f /\ f <= d
            BY <4>1
          <5> QED BY <1>1, <5>1
        <4>2. ASSUME f \in days, e < f, f <= d PROVE f \in e + 1 .. d - 1
          BY <3>1, <4>2
        <4> QED BY <4>1, <4>2
      <3> QED BY <3>2
    <2>2. Cardinality(e + 1 .. d - 1) = d - 1 - e
      <3>1. PICK p, q \in Int : p = e + 1 /\ q = d - 1
        OBVIOUS
      <3>2. Cardinality(p .. q) = IF p > q THEN 0 ELSE q - p + 1
        BY FS_Interval
      <3> QED BY <1>1, <3>1, <3>2
    <2>3. e \in rows <=> e <= d /\ Cardinality({f \in days : e < f /\ f <= d}) < StreakRows
      BY Zenon DEF Latest
    <2>4. e \in rows <=> e <= d /\ d - 1 - e < StreakRows
      BY <2>1, <2>2, <2>3, Zenon
    <2> QED BY <1>0, <1>1, <2>4
  <1>11. rows \subseteq days
    BY Zenon DEF Latest
  <1> HIDE DEF rows
  <1>2. ASSUME NEW e \in Run(days, d)
        PROVE  e \in rows /\ e <= d - 1 /\ e .. d - 1 \subseteq rows
    <2>1. e \in days /\ d - StreakRows <= e /\ e < d /\ e .. d - 1 \subseteq days
      BY Zenon DEF Run
    <2>2. ASSUME NEW f \in e .. d - 1 PROVE f \in rows
      <3>1. f \in days /\ f < d /\ d - StreakRows <= f /\ f .. d - 1 \subseteq days
        BY <1>0, <2>1
      <3> QED BY <1>1, <3>1
    <2> QED BY <1>1, <2>1, <2>2
  <1>3. ASSUME NEW e \in rows, e <= d - 1, e .. d - 1 \subseteq rows
        PROVE  e \in Run(days, d)
    <2>1. e \in days /\ e < d /\ e .. d - 1 \subseteq days
      <3>1. e \in days
        BY <1>11
      <3>2. e < d
        BY <1>3, <3>1
      <3>3. e .. d - 1 \subseteq days
        BY <1>3, <1>11, Zenon
      <3> QED BY <3>1, <3>2, <3>3
    <2>2. d - StreakRows <= e
      BY <1>1, <1>3, <2>1
    <2> QED BY <2>1, <2>2, Zenon DEF Run
  <1>4. \A e : e \in Unbroken(rows, d) <=> e \in rows /\ e <= d - 1 /\ e .. d - 1 \subseteq rows
    BY Zenon DEF Unbroken
  <1>5. \A e : e \in Unbroken(rows, d) <=> e \in Run(days, d)
    BY <1>2, <1>3, <1>4, Zenon
  <1>6. Unbroken(rows, d) \subseteq Run(days, d) /\ Run(days, d) \subseteq Unbroken(rows, d)
    BY <1>5
  <1> QED BY <1>6 DEF rows

(* A step of one handler that leaves the claims and the clock alone.        *)
LEMMA StreakFrame ==
  ASSUME StreakInv, NEW r \in Requests, Others(r), UNCHANGED <<now, claims>>,
         misread \subseteq misread', Counts(r)', Claims(r)'
  PROVE  StreakInv'
  <1>1. \A a : DailyDays(a)' = DailyDays(a)
    BY DEF DailyDays, ClaimsOf
  <1>2. \A v \in claims' : Dated(v)' /\ Rewarded(v)'
    BY <1>1 DEF StreakInv, Dated, Rewarded
  <1>3. ASSUME NEW o \in Requests \ {r} PROVE Counts(o)' /\ Claims(o)'
    <2>1. /\ phase'[o] = phase[o] /\ call'[o] = call[o] /\ seen'[o] = seen[o]
          /\ row'[o] = row[o]
      BY DEF Others
    <2>2. Counts(o) /\ Claims(o)
      BY DEF StreakInv
    <2>3. Counts(o)'
      BY <1>1, <2>1, <2>2 DEF Counts, Kind
    <2>4. Claims(o)'
      BY <1>1, <2>1, <2>2 DEF Claims, Dated, Kind
    <2> QED BY <2>3, <2>4
  <1> QED BY <1>2, <1>3 DEF StreakInv

LEMMA StreakMove ==
  ASSUME RewardsInv, StreakInv, NEW r \in Requests, Others(r), UNCHANGED <<now, claims>>,
         misread \subseteq misread',
         phase'[r] \in {"insert", "commit"} => call'[r].kind # "daily"
  PROVE  StreakInv'
  <1>1. Counts(r)' /\ Claims(r)'
    BY DEF Counts, Claims, Kind
  <1> QED BY <1>1, StreakFrame

LEMMA StreakLeave ==
  ASSUME RewardsInv, StreakInv, NEW r \in Requests, NEW p \in Ended, Leave(r, p),
         UNCHANGED <<now, claims>>, misread' = misread
  PROVE  StreakInv'
  <1>1. RequestTypes
    BY DEF RewardsInv, TypeOK, RequestTypes
  <1>2. Others(r) /\ phase'[r] = p
    BY <1>1, LeaveEffect
  <1> QED BY <1>2, StreakMove DEF Ended

(* The streak that is read is the run of days up to yesterday.              *)
LEMMA StreakReads ==
  ASSUME RewardsInv, StreakInv, NEW r \in Requests, ReadStreak(r)
  PROVE  StreakInv'
  <1> DEFINE a == call[r].account
  <1>1. RequestTypes
    BY DEF RewardsInv, TypeOK, RequestTypes
  <1>2. CASE ClaimedOn(a, Day(now))
    BY <1>2, StreakLeave DEF ReadStreak, Ended, tables
  <1>3. CASE ~ClaimedOn(a, Day(now))
    <2>1. /\ Goto(r, "insert") /\ UNCHANGED <<call, row, picked>>
          /\ seen' = [seen EXCEPT ![r] = Streak(a, Day(now))]
          /\ UNCHANGED <<now, claims, misread>>
      BY <1>3 DEF ReadStreak, tables
    <2>2. /\ Others(r) /\ phase'[r] = "insert" /\ seen'[r] = Streak(a, Day(now))
      BY <1>1, <2>1, GotoEffect DEF Others, RequestTypes, Phase
    <2>3. Streak(a, Day(now)) = Cardinality(Run(DailyDays(a), Day(now)))
      <3>1. PICK days \in SUBSET Nat : days = DailyDays(a)
        BY DaysType
      <3>2. {v.key[4] : v \in {v \in claims : v.key[1] = "daily" /\ v.account = a}} = days
        BY <3>1 DEF DailyDays, ClaimsOf
      <3>3. Day(now) \notin days
        BY <1>3, <3>2 DEF ClaimedOn
      <3>4. PICK d \in Nat : d = Day(now)
        BY DaysType
      <3>5. DaysRead(a, d) = Latest(days, d)
        BY <3>2 DEF DaysRead, Latest
      <3>6. d \notin DaysRead(a, d)
        BY <3>3, <3>4, <3>5 DEF Latest
      <3>7. Streak(a, d) = Cardinality(Unbroken(DaysRead(a, d), d))
        BY <3>6, Zenon DEF Streak, Unbroken
      <3>8. Unbroken(Latest(days, d), d) = Run(days, d)
        BY <3>1, <3>3, <3>4, RunIsRead
      <3> QED BY <3>1, <3>4, <3>5, <3>7, <3>8, Zenon
    <2>4. Counts(r)' /\ Claims(r)'
      <3>1. DailyDays(a)' = DailyDays(a)
        BY <2>1 DEF DailyDays, ClaimsOf
      <3> QED BY <2>1, <2>2, <2>3, <3>1 DEF Counts, Claims, Kind
    <2> QED BY <2>1, <2>2, <2>4, StreakFrame
  <1> QED BY <1>2, <1>3

LEMMA StreakNotRead ==
  ASSUME RewardsInv, StreakInv, NEW r \in Requests, StreakUnread(r)
  PROVE  StreakInv'
  <1>1. RequestTypes
    BY DEF RewardsInv, TypeOK, RequestTypes
  <1>2. /\ Others(r) /\ phase'[r] = "insert" /\ call' = call
        /\ call[r].account \in misread'
        /\ misread \subseteq misread' /\ UNCHANGED <<now, claims>>
    BY <1>1, GotoEffect DEF StreakUnread, Others, RequestTypes, Phase, tables
  <1>3. Counts(r)' /\ Claims(r)'
    BY <1>2 DEF Counts, Claims
  <1> QED BY <1>2, <1>3, StreakFrame

(* The row is today's, which nobody has claimed: the streak was not read in *)
(* vain.                                                                    *)
LEMMA StreakInserts ==
  ASSUME RewardsInv, StreakInv, NEW r \in Requests, Insert(r)
  PROVE  StreakInv'
  <1> DEFINE c == call[r]
             k == Key(c, seen[r], now)
  <1>1. RequestTypes
    BY DEF RewardsInv, TypeOK, RequestTypes
  <1>2. CASE Exists(k)
    BY <1>2, StreakLeave DEF Insert, Ended, tables
  <1>3. CASE ~Exists(k)
    <2>1. PICK w : w = [key |-> k, account |-> c.account, credits |-> Credits(c, seen[r]),
                        at |-> now, net |-> c.net]
      OBVIOUS
    <2>2. /\ phase[r] = "insert" /\ c \in Calls[r]
      BY DEF Insert, RewardsInv, Good, Asks, AtWork
    <2>3. /\ row' = [row EXCEPT ![r] = w] /\ Goto(r, "commit")
          /\ UNCHANGED <<call, seen, picked, now, claims, misread>>
      BY <1>3, <2>1 DEF Insert, tables
    <2>4. /\ Others(r) /\ phase'[r] = "commit" /\ row'[r] = w
      <3>1. row'[r] = w /\ \A o \in Requests \ {r} : row'[o] = row[o]
        BY <1>1, <2>3 DEF RequestTypes
      <3> QED BY <1>1, <2>3, <3>1, GotoEffect DEF Others, Phase
    <2>5. CASE c.kind # "daily"
      BY <2>3, <2>4, <2>5, StreakMove
    <2>6. CASE c.kind = "daily"
      <3>1. c.target = None
        BY <2>2, RewardsAssumption, <2>6
      <3>2. PICK d \in Nat : d = Day(now)
        BY DaysType
      <3>3. k = <<"daily", None, c.account, d>>
        BY <2>6, <3>1, <3>2 DEF Key, ByEvent
      <3>4. /\ w.key = k /\ w.account = c.account
            /\ w.credits = Cycle[seen[r] % Cardinality(DOMAIN Cycle)]
        BY <2>1, <2>6 DEF Credits
      <3>5. Dated(w)'
        BY <2>3, <3>2, <3>3, <3>4 DEF Dated, Day
      <3>6. DailyDays(c.account)' = DailyDays(c.account)
        BY <2>3 DEF DailyDays, ClaimsOf
      <3>7. d \notin DailyDays(c.account)
        <4> SUFFICES ASSUME NEW v \in claims, v.key[1] = "daily", v.account = c.account,
                            v.key[4] = d
            PROVE  FALSE
            BY DEF DailyDays, ClaimsOf
        <4>1. v.key = <<"daily", None, c.account, d>>
          BY DEF StreakInv, Dated
        <4> QED BY <1>3, <3>3, <4>1 DEF Exists
      <3>8. c.account \notin misread => w.credits = Earned(DailyDays(c.account), d)
        BY <2>2, <2>6, <3>2, <3>4, <3>7 DEF StreakInv, Counts, Kind, Earned
      <3>9. Claims(r)'
        BY <2>3, <2>4, <3>2, <3>3, <3>4, <3>5, <3>6, <3>8 DEF Claims, Day, Earned
      <3>10. Counts(r)'
        BY <2>4 DEF Counts
      <3> QED BY <2>3, <2>4, <3>9, <3>10, StreakFrame
    <2> QED BY <2>5, <2>6
  <1> QED BY <1>2, <1>3

(* A committed day is today's and ends no earlier run; who else is about to  *)
(* claim it finds it claimed.                                               *)
LEMMA StreakCommits ==
  ASSUME RewardsInv, StreakInv, NEW r \in Requests, Commit(r)
  PROVE  StreakInv'
  <1>1. RequestTypes
    BY DEF RewardsInv, TypeOK, RequestTypes
  <1>2. Others(r) /\ phase'[r] = "done"
    BY <1>1, LeaveEffect DEF Commit, Ended
  <1>3. PICK w : w = row[r]
    OBVIOUS
  <1>4. /\ phase[r] = "commit" /\ Kind(r) # "draw" /\ Writes(r) /\ claims' = claims \cup {w}
        /\ w \in Rows /\ w.key[1] = Kind(r) /\ UNCHANGED <<now, misread>>
    BY <1>3 DEF Commit, RewardsInv, Good, Wrote, Writes
  <1>5. Claims(r)
    BY DEF StreakInv
  <1>6. Counts(r)' /\ Claims(r)'
    BY <1>2 DEF Counts, Claims
  <1>7. Dated(w)
    BY <1>3, <1>4, <1>5 DEF Claims, Dated
  <1>8. \A v \in claims' : Dated(v)'
    BY <1>4, <1>7 DEF StreakInv, Dated, Day
  <1>9. \A a : (w.key[1] # "daily" \/ a # w.account) => DailyDays(a)' = DailyDays(a)
    BY <1>4 DEF DailyDays, ClaimsOf
  <1>10. w.key[1] = "daily" => DailyDays(w.account)' = DailyDays(w.account) \cup {w.key[4]}
    BY <1>4 DEF DailyDays, ClaimsOf
  <1>11. PICK d \in Nat : d = Day(now) /\ d = Day(now)'
    BY <1>4, DaysType DEF Day
  <1> DEFINE Today == w.key[1] = "daily" /\ w.account \notin misread
  <1>12. Today => /\ w.key = <<"daily", None, w.account, d>> /\ w.key[4] = d
                  /\ w.credits = Earned(DailyDays(w.account), d)
    BY <1>3, <1>4, <1>5, <1>7, <1>11 DEF Claims, Dated
  <1>13. ASSUME NEW k \in Nat, k <= d, Today
         PROVE  Earned(DailyDays(w.account)', k) = Earned(DailyDays(w.account), k)
    <2>1. PICK days \in SUBSET Nat : days = DailyDays(w.account)
      BY DaysType
    <2>2. Run(days \cup {d}, k) = Run(days, k)
      BY <1>13, LaterDay
    <2>3. DailyDays(w.account)' = days \cup {d}
      BY <1>10, <1>12, <1>13, <2>1
    <2> QED BY <2>1, <2>2, <2>3 DEF Earned
  <1>14. ASSUME NEW v \in claims' PROVE Rewarded(v)'
    <2> SUFFICES ASSUME v.key[1] = "daily", v.account \notin misread
        PROVE  v.credits = Earned(DailyDays(v.account)', v.key[4])
        BY <1>4 DEF Rewarded, Earned
    <2>1. CASE v = w
      BY <1>12, <1>13, <2>1
    <2>2. CASE v \in claims
      <3>1. /\ v.credits = Earned(DailyDays(v.account), v.key[4])
            /\ v.key[4] \in Nat /\ v.key[4] <= d
        BY <1>11, <2>2 DEF StreakInv, Rewarded, Dated
      <3>2. CASE Today /\ v.account = w.account
        BY <1>13, <3>1, <3>2
      <3>3. CASE ~(Today /\ v.account = w.account)
        BY <1>9, <3>1, <3>3
      <3> QED BY <3>2, <3>3
    <2> QED BY <1>4, <2>1, <2>2
  <1>15. ASSUME NEW o \in Requests \ {r} PROVE Counts(o)' /\ Claims(o)'
    <2>1. /\ phase'[o] = phase[o] /\ call'[o] = call[o] /\ seen'[o] = seen[o]
          /\ row'[o] = row[o]
      BY <1>2 DEF Others
    <2>2. Counts(o) /\ Claims(o)
      BY DEF StreakInv
    <2>3. Counts(o)'
      <3> SUFFICES ASSUME phase[o] = "insert", Kind(o) = "daily", call[o].account \notin misread,
                          NEW a, a = call[o].account
          PROVE  d \in DailyDays(a)' \/ seen[o] = Cardinality(Run(DailyDays(a)', d))
          BY <1>4, <1>11, <2>1 DEF Counts, Kind, DailyDays, ClaimsOf
      <3>0. a \notin misread
        OBVIOUS
      <3>1. CASE Today /\ a = w.account
        BY <1>10, <1>12, <3>1
      <3>2. CASE ~(Today /\ a = w.account)
        <4>1. DailyDays(a)' = DailyDays(a)
          BY <1>9, <3>0, <3>2
        <4> QED BY <1>11, <2>2, <3>0, <4>1 DEF Counts
      <3> QED BY <3>1, <3>2
    <2>4. Claims(o)'
      <3> SUFFICES ASSUME phase[o] = "commit", Kind(o) = "daily"
          PROVE  Claims(o)'
          BY <2>1 DEF Claims, Kind
      <3>1. PICK u : u = row[o]
        OBVIOUS
      <3>2. /\ Dated(u) /\ u.key[1] = "daily"
            /\ u.account \notin misread =>
                 u.key[4] = d /\ u.credits = Earned(DailyDays(u.account), d)
        BY <1>11, <2>2, <3>1 DEF Claims, RewardsInv, Good, Wrote, Writes
      <3>3. Dated(u)'
        BY <1>4, <3>2 DEF Dated, Day
      <3>4. u.account \notin misread => ~(Today /\ u.account = w.account)
        <4> SUFFICES ASSUME Today, u.account = w.account PROVE FALSE
          OBVIOUS
        <4>1. u.key = w.key
          BY <1>12, <3>2 DEF Dated
        <4>2. Writes(o) /\ Writes(r)
          BY <1>4 DEF Writes
        <4> QED BY <1>3, <3>1, <4>1, <4>2 DEF RewardsInv, Apart
      <3>5. u.account \notin misread => u.credits = Earned(DailyDays(u.account)', d)
        BY <1>9, <3>2, <3>4
      <3> QED BY <1>4, <1>11, <2>1, <3>1, <3>2, <3>3, <3>5 DEF Claims, Earned
    <2> QED BY <2>3, <2>4
  <1> QED BY <1>6, <1>8, <1>14, <1>15 DEF StreakInv

(* Midnight makes every daily claim under way one that was misread.         *)
LEMMA StreakTick ==
  ASSUME RewardsInv, StreakInv, Tick
  PROVE  StreakInv'
  <1>1. /\ UNCHANGED <<claims, phase, call, seen, row>> /\ misread \subseteq misread'
        /\ now' = now + 1 /\ now \in Nat
    BY DaysType DEF Tick, tables, request
  <1>2. \A a : DailyDays(a)' = DailyDays(a)
    BY <1>1 DEF DailyDays, ClaimsOf
  <1>3. PICK d, e \in Nat : d = Day(now) /\ e = Day(now)' /\ d <= e
    <2>1. PICK t : t = now'
      OBVIOUS
    <2>2. now \in Nat /\ t \in Nat /\ now <= t /\ DayLength \in Nat \ {0}
      BY <1>1, <2>1, RewardsAssumption
    <2>3. /\ now \div DayLength \in Nat /\ t \div DayLength \in Nat
          /\ now \div DayLength <= t \div DayLength
      BY <2>2, DivNat, DivMonotone
    <2> QED BY <2>1, <2>3 DEF Day
  <1>4. ASSUME NEW v, Dated(v) PROVE Dated(v)'
    BY <1>3, <1>4 DEF Dated
  <1>5. \A v \in claims' : Dated(v)' /\ Rewarded(v)'
    BY <1>1, <1>2, <1>4 DEF StreakInv, Rewarded, Earned
  <1>6. ASSUME NEW r \in Requests PROVE Counts(r)' /\ Claims(r)'
    <2>1. d # e /\ Kind(r) = "daily" => call[r].account \in misread'
      BY <1>3 DEF Tick, Day
    <2>2. phase[r] = "commit" /\ Kind(r) = "daily" => row[r].account = call[r].account
      BY DEF RewardsInv, Good, Wrote, Writes
    <2>3. Counts(r)'
      BY <1>1, <1>2, <1>3, <2>1 DEF StreakInv, Counts, Kind
    <2>4. Claims(r)'
      <3>1. phase[r] = "commit" /\ Kind(r) = "daily" => Dated(row[r])'
        BY <1>1, <1>4 DEF StreakInv, Claims
      <3> QED BY <1>1, <1>2, <1>3, <2>1, <2>2, <3>1 DEF StreakInv, Claims, Kind, Earned
    <2> QED BY <2>3, <2>4
  <1> QED BY <1>5, <1>6 DEF StreakInv

(* The other steps of a handler write no day.                               *)
LEMMA StreakOther ==
  ASSUME RewardsInv, StreakInv, NEW r \in Requests,
         \/ \E c \in Calls[r] : Begin(r, c)
         \/ Lock(r) \/ Draw(r) \/ ReadProgress(r) \/ CommitDraw(r) \/ Abandon(r)
  PROVE  StreakInv'
  <1> USE DEF tables
  <1>1. RequestTypes
    BY DEF RewardsInv, TypeOK, RequestTypes
  <1>2. ASSUME NEW p \in {"insert", "commit"}, Goto(r, p), Kind(r) # "daily",
               UNCHANGED <<now, claims, misread, call, seen, row>>,
               \A o \in Requests \ {r} : picked'[o] = picked[o]
        PROVE  StreakInv'
    <2>1. Others(r)
      BY <1>1, <1>2, GotoEffect DEF Others, Phase
    <2> QED BY <1>2, <2>1, StreakMove DEF Kind
  <1>3. ASSUME NEW c \in Calls[r], Begin(r, c) PROVE StreakInv'
    <2>1. FirstPhase(c) \in Phase /\ (FirstPhase(c) \in {"insert", "commit"} => c.kind # "daily")
      BY DEF FirstPhase, Phase
    <2>2. /\ phase'[r] = FirstPhase(c) /\ \A o \in Requests \ {r} : phase'[o] = phase[o]
      BY <1>1, <1>3, <2>1, GotoEffect DEF Begin
    <2>3. call'[r] = c /\ Others(r)
      BY <1>1, <1>3, <2>2 DEF Begin, Others, RequestTypes
    <2> QED BY <1>3, <2>1, <2>2, <2>3, StreakMove DEF Begin
  <1>4. CASE Lock(r)
    <2>1. CASE Goto(r, "insert") /\ UNCHANGED <<call, seen, row, picked>>
      <3>1. Kind(r) # "daily"
        BY <1>4 DEF Lock, RewardsInv, Good, Asks, Locked
      <3> QED BY <1>2, <1>4, <2>1, <3>1 DEF Lock
    <2>2. CASE Leave(r, Answer(call[r]))
      BY <1>4, <2>2, StreakLeave DEF Lock, Answer, Ended
    <2> QED BY <1>4, <2>1, <2>2 DEF Lock
  <1>5. CASE Draw(r)
    <2>1. CASE MayDraw
      <3>1. \A o \in Requests \ {r} : picked'[o] = picked[o]
        BY <1>1, <1>5, <2>1 DEF Draw, RequestTypes
      <3> QED BY <1>2, <1>5, <2>1, <3>1 DEF Draw
    <2>2. CASE ~MayDraw
      BY <1>5, <2>2, StreakLeave DEF Draw, Ended
    <2> QED BY <2>1, <2>2
  <1>6. CASE ReadProgress(r)
    <2>1. CASE Leave(r, "refused")
      BY <1>6, <2>1, StreakLeave DEF ReadProgress, Ended
    <2>2. CASE Goto(r, "insert") /\ UNCHANGED <<call, seen, row, picked>>
      BY <1>2, <1>6, <2>2 DEF ReadProgress, Kind
    <2> QED BY <1>6, <2>1, <2>2 DEF ReadProgress
  <1>7. CASE CommitDraw(r)
    BY <1>7, StreakLeave DEF CommitDraw, Ended
  <1>8. CASE Abandon(r)
    BY <1>8, StreakLeave DEF Abandon, Ended
  <1> QED BY <1>3, <1>4, <1>5, <1>6, <1>7, <1>8

(* A daily claim pays the day of the cycle that the unbroken days before it *)
(* have earned, at most StreakRows of them, for any number of accounts,     *)
(* claims and connections and any StreakRows, unless a claim of the account *)
(* was under way at midnight or could not read its streak                   *)
(* (claimDailyReward, scanDailyRewardState).                                *)
THEOREM StreaksArePaid == Spec => []StreakPaid
  <1>1. Init => StreakInv
    BY DEF Init, StreakInv, Counts, Claims
  <1>2. RewardsInv /\ StreakInv /\ [Next]_vars => StreakInv'
    <2> SUFFICES ASSUME RewardsInv, StreakInv, [Next]_vars PROVE StreakInv'
      OBVIOUS
    <2>1. ASSUME NEW r \in Requests, Step(r) PROVE StreakInv'
      BY <2>1, StreakOther, StreakReads, StreakNotRead, StreakInserts, StreakCommits DEF Step
    <2>2. ASSUME NEW r \in Requests, Abandon(r) \/ \E c \in Calls[r] : Begin(r, c)
          PROVE  StreakInv'
      BY <2>2, StreakOther
    <2>3. CASE Tick
      BY <2>3, StreakTick
    <2>4. ASSUME UNCHANGED <<now, claims, phase, call, seen, row, misread>> PROVE StreakInv'
      <3>1. \A a : DailyDays(a)' = DailyDays(a)
        BY <2>4 DEF DailyDays, ClaimsOf
      <3> QED BY <2>4, <3>1 DEF StreakInv, Dated, Rewarded, Counts, Claims, Kind, Earned, Day
    <2>5. CASE \/ \E a \in Accounts : Recruit(a)
               \/ \E t \in Switched : Disable(t)
               \/ UNCHANGED vars
      BY <2>4, <2>5 DEF Recruit, Disable, vars, tables, request
    <2> QED BY <2>1, <2>2, <2>3, <2>5 DEF Next
  <1>3. RewardsInv /\ StreakInv => StreakPaid
    <2> SUFFICES ASSUME RewardsInv, StreakInv, NEW v \in claims, v.key[1] = "daily",
                        v.account \notin misread
        PROVE  LET days == DailyDays(v.account)
                   before == {e \in days : /\ v.key[4] - StreakRows <= e /\ e < v.key[4]
                                           /\ e .. v.key[4] \subseteq days}
               IN  v.credits = Cycle[Cardinality(before) % Cardinality(DOMAIN Cycle)]
        BY DEF StreakPaid, DailyDays
    <2>1. PICK days \in SUBSET Nat : days = DailyDays(v.account)
      BY DaysType
    <2>2. PICK k \in Nat : k = v.key[4] /\ k \in days
      BY <2>1 DEF StreakInv, Dated, DailyDays, ClaimsOf
    <2>3. v.credits = Earned(days, k)
      BY <2>1, <2>2 DEF StreakInv, Rewarded
    <2>4. \A e \in Nat : e < k => e .. k = (e .. k - 1) \cup {k}
      OBVIOUS
    <2>5. Run(days, k) = {e \in days : /\ k - StreakRows <= e /\ e < k
                                       /\ e .. k \subseteq days}
      BY <2>2, <2>4 DEF Run
    <2> QED BY <2>1, <2>2, <2>3, <2>5 DEF Earned
  <1> QED BY <1>1, <1>2, <1>3, Invariance, PTL DEF Spec
-----------------------------------------------------------------------------
(***************************************************************************)
(* Waiting.                                                                *)
(***************************************************************************)
(* A request may take its next step: what its action waits for is free.     *)
MayGoOn(r) ==
  CASE phase[r] = "lock" -> Free(ParentRows(call[r]))
    [] phase[r] = "read" -> FreeConns > 0
    [] phase[r] = "insert" ->
         \A o \in Requests : row[o].key # Key(call[r], seen[r], now)
    [] phase[r] = "commit" -> TRUE
    [] OTHER -> FALSE

(* Daily claims hold a connection while they wait for a second one.         *)
WantTwo == {r \in Requests : phase[r] = "read" /\ Kind(r) = "daily"}

(* Requests that cannot go on wait for the pool, never for each other's     *)
(* rows or keys: all its connections belong to daily claims.                *)
OnlyThePoolBlocks ==
  \/ \A r \in Requests : phase[r] \notin AtWork
  \/ \E r \in Requests : MayGoOn(r)
  \/ Conns <= Cardinality(WantTwo)

LEMMA KeysHaveParts ==
  ASSUME NEW c, NEW s, NEW t
  PROVE  Key(c, s, t) # NoRow.key
  <1>1. \A x, y, z, w : <<x, y, z, w>> # <<>>  OBVIOUS
  <1>2. NoRow.key = <<>>  BY DEF NoRow
  <1>3. \E x, y, z, w : Key(c, s, t) = <<x, y, z, w>>
    <2>1. CASE c.kind \in ByEvent  BY <2>1 DEF Key
    <2>2. CASE c.kind \notin ByEvent  BY <2>2 DEF Key
    <2> QED  BY <2>1, <2>2
  <1> QED  BY <1>1, <1>2, <1>3

(* Whoever holds a key commits, whoever holds a row inserts or commits, and *)
(* nobody who holds either waits for a row.                                 *)
LEMMA FurthestGoesOn ==
  ASSUME RewardsInv, NEW q \in Requests, phase[q] \in AtWork,
         \A r \in Requests : ~MayGoOn(r)
  PROVE  Conns <= Cardinality(WantTwo)
  <1>1. \A r \in Requests : phase[r] # "commit"
    BY DEF MayGoOn
  <1>2. \A r \in Requests : phase[r] # "insert"
    <2>1. \A o \in Requests : row[o] = NoRow
      BY <1>1 DEF RewardsInv, Good, Wrote, Writes
    <2> QED  BY <2>1, KeysHaveParts DEF MayGoOn
  <1>3. \A r \in Requests : phase[r] # "lock"
    <2>1. \A o \in Requests : Holds(o) = {}
      BY <1>1, <1>2 DEF Holds
    <2> QED  BY <2>1 DEF MayGoOn, Free
  <1>4. {r \in Requests : InTransaction(r)} = WantTwo
    BY <1>1, <1>2, <1>3 DEF InTransaction, WantTwo
  <1>5. ~(FreeConns > 0)
    <2>1. phase[q] = "read"  BY <1>1, <1>2, <1>3 DEF AtWork
    <2> QED  BY <2>1 DEF MayGoOn
  <1>6. Cardinality(WantTwo) \in Nat
    <2>1. WantTwo \in SUBSET Requests  BY DEF WantTwo
    <2> QED  BY <2>1, RewardsAssumption, FS_Subset, FS_CardinalityType
  <1>7. FreeConns = Conns - Cardinality(WantTwo)
    BY <1>4 DEF FreeConns
  <1> QED  BY <1>5, <1>6, <1>7, RewardsAssumption

(* Claims never wait for each other's rows or keys in a circle, whatever    *)
(* channels they use: some request can take its next step unless daily      *)
(* claims hold every connection of the pool (claimDailyReward reads the     *)
(* streak on a second one).                                                 *)
THEOREM NoCircle == Spec => []OnlyThePoolBlocks
  <1>1. RewardsInv => OnlyThePoolBlocks
    BY FurthestGoesOn DEF OnlyThePoolBlocks
  <1> QED  BY <1>1, Invariance, PTL
================================================================================
