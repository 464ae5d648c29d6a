-------------------------------- MODULE Rewards --------------------------------
(***************************************************************************)
(* The channels that credit a wallet without a payment: voting sites       *)
(* (internal/web/votes.go), the older voting callback and the daily reward *)
(* (dashboard.go), gift codes (gift_codes.go), monthly missions            *)
(* (reward_progress.go), referral milestones, Discord rewards and the draw *)
(* of a voting campaign (retention.go).                                    *)
(*                                                                         *)
(* All of them are one transaction with the same end: insert the row that  *)
(* says what was claimed, under a key that admits it once, and credit the  *)
(* wallet and the ledger.  They differ in what they look at before, and in *)
(* whether they look inside the transaction, under a lock, or outside it.  *)
(***************************************************************************)
EXTENDS Integers, FiniteSets, FiniteSetsExt, Totals

CONSTANTS
  Accounts, Targets, Events, Nets,
  None,          \* no target, event or network address
  Requests,      \* requests, each of them answered once
  Calls,         \* what each of them may ask for
  Switched,      \* the targets with a column `active'
  Cooldown,      \* of every voting site
  MaxUses, Expires,  \* of each gift code
  Recruits,      \* referral_count of each milestone
  Goal,          \* target_value of each mission, in verified votes
  Cycle,         \* credits of each day of the daily cycle (seven in the code)
  StreakRows,    \* the latest daily claims a streak is read from (365 in the code)
  Starts, Ends, MinVotes, WinnerCount,  \* of the campaign
  Ticket,        \* the order the seed gives to a vote of a site and event
  RecruitCredits,  \* credits of a successful referral
  DayLength, MonthLength,
  Conns,         \* connections in the pool
  MaxNow,        \* bound: the last instant
  MaxRecruits,   \* bound: recruits of an account
  MaxDisabled    \* bound: targets that staff disable

Kinds == {"vote", "legacy", "discord", "gift", "daily", "mission", "milestone", "draw"}
ByEvent == {"vote", "legacy", "discord"}
Call == [kind : Kinds, account : Accounts \cup {None}, target : Targets \cup {None},
         event : Events \cup {None}, net : Nets \cup {None}, credits : Nat]

ASSUME RewardsAssumption ==
  /\ None \notin Accounts \cup Targets \cup Events \cup Nets
  /\ Calls \in [Requests -> SUBSET Call]
  /\ \A r \in Requests : \A c \in Calls[r] :
       /\ c.account = None <=> c.kind = "draw"
       /\ c.event = None <=> c.kind \notin ByEvent
       /\ c.target = None <=> c.kind \in {"legacy", "discord", "daily"}
       /\ \A q \in Requests : \A d \in Calls[q] :   \* there is one campaign
            c.kind = "draw" /\ d.kind = "draw" => c.target = d.target
  /\ IsFiniteSet(Requests) /\ IsFiniteSet(Accounts)
  /\ Cooldown \in Nat /\ Starts \in Nat /\ Ends \in Nat
  /\ MinVotes \in Nat \ {0} /\ WinnerCount \in Nat \ {0}
  /\ MaxUses \in [Targets -> Nat] /\ Expires \in [Targets -> Nat]
  /\ Recruits \in [Targets -> Nat] /\ Goal \in [Targets -> Nat]
  /\ Cardinality(DOMAIN Cycle) \in Nat \ {0}
  /\ Cycle \in [0 .. Cardinality(DOMAIN Cycle) - 1 -> Nat]
  /\ StreakRows \in Nat \ {0}
  /\ Ticket \in [Targets \X Events -> Nat]
  /\ RecruitCredits \in Nat
  /\ DayLength \in Nat \ {0} /\ MonthLength \in Nat \ {0}
  /\ Conns \in Nat /\ Switched \subseteq Targets
  /\ MaxNow \in Nat /\ MaxRecruits \in Nat /\ MaxDisabled \in Nat

VARIABLES
  now,       \* the clock the portal and the database share
  claims,    \* the committed rows of the tables that admit a claim once
  used,      \* portal_gift_codes.used_count
  active,    \* the targets that staff have not disabled
  recruits,  \* portal_referrals.uses
  wallet,    \* portal_wallets.balance, less what was there at the start
  ledger,    \* sum of an account's amounts in portal_credit_ledger, likewise
  drawn,     \* portal_vote_campaigns.status = 'drawn'
  winners,   \* portal_vote_campaign_winners
  phase,     \* how far the handler of each request is
  call,      \* what the request asks for
  seen,      \* what it read before its transaction's writes: streak or month
  row,       \* the row it inserted and not yet committed
  picked,    \* the winners it inserted and not yet committed
  \* History, read by properties only.
  timely,    \* votes committed before the campaign ended
  misread    \* accounts whose streak was read on another day than it was
             \* claimed, or whose read of it failed

tables  == <<claims, used, recruits, wallet, ledger, drawn, winners, timely>>
request == <<phase, call, seen, row, picked>>
vars    == <<now, tables, active, request, misread>>

Day(t) == t \div DayLength
Month(t) == t \div MonthLength

Keys == Kinds \X (Accounts \cup Targets \cup {None}) \X (Accounts \cup Events) \X Nat
Rows == [key : Keys, account : Accounts, credits : Nat, at : Nat, net : Nets \cup {None}]
Phase == {"new", "lock", "read", "insert", "commit", "done", "duplicate", "refused", "failed"}
Ended == {"done", "duplicate", "refused", "failed"}
NoCall == [kind |-> "none"]
NoRow == [key |-> <<>>]

TypeOK ==
  /\ now \in 0..MaxNow
  /\ claims \subseteq Rows
  /\ used \in [Targets -> Nat]
  /\ active \subseteq Targets
  /\ recruits \in [Accounts -> 0..MaxRecruits]
  /\ wallet \in [Accounts -> Nat]
  /\ ledger \in [Accounts -> Nat]
  /\ drawn \in BOOLEAN
  /\ winners \subseteq Accounts
  /\ phase \in [Requests -> Phase]
  /\ call \in [Requests -> Call \cup {NoCall}]
  /\ seen \in [Requests -> Nat]
  /\ row \in [Requests -> Rows \cup {NoRow}]
  /\ picked \in [Requests -> SUBSET Accounts]
  /\ timely \subseteq claims
  /\ misread \subseteq Accounts

Kind(r) == call[r].kind
Votes == {v \in claims : v.key[1] = "vote"}
VotesOf(a) == {v \in Votes : v.account = a}

(***************************************************************************)
(* Locks and connections                                                   *)
(***************************************************************************)
(* The rows a handler reads FOR UPDATE.  A milestone is locked before the   *)
(* referral row, by everyone.                                               *)
ParentRows(c) ==
  CASE c.kind \in {"vote", "gift", "draw"} -> {<<c.kind, c.target>>}
    [] c.kind = "milestone" -> {<<c.kind, c.target>>, <<"referral", c.account>>}
    [] c.kind = "discord" -> {<<"identity", c.account>>}
    [] OTHER -> {}

\* Mutant: the rows are read without FOR UPDATE.
HoldsNothing(r) == {}
Holds(r) ==
  IF phase[r] \in {"insert", "commit"} THEN ParentRows(call[r]) ELSE {}
Free(rows) == \A r \in Requests : Holds(r) \cap rows = {}

(* A mission is looked at before its transaction begins, the daily streak   *)
(* inside the transaction but on another connection.                        *)
InTransaction(r) == \/ phase[r] \in {"lock", "insert", "commit"}
                    \/ phase[r] = "read" /\ Kind(r) = "daily"
FreeConns == Conns - Cardinality({r \in Requests : InTransaction(r)})

(***************************************************************************)
(* What is looked at                                                       *)
(***************************************************************************)
(* The latest days up to d on which the account claimed its daily reward.   *)
DaysRead(a, d) ==
  LET days == {v.key[4] : v \in {v \in claims : v.key[1] = "daily" /\ v.account = a}}
  IN  {e \in days : e <= d /\ Cardinality({f \in days : e < f /\ f <= d}) < StreakRows}

(* Those of them without a gap that end today or yesterday.                 *)
\* Mutant: a gap does not end the streak.
StreakWithGaps(a, d) == Cardinality(DaysRead(a, d))
Streak(a, d) ==
  LET last == IF d \in DaysRead(a, d) THEN d ELSE d - 1
  IN  Cardinality({e \in DaysRead(a, d) : e <= last /\ e..last \subseteq DaysRead(a, d)})
ClaimedOn(a, d) ==
  \E v \in claims : v.key[1] = "daily" /\ v.account = a /\ v.key[4] = d

Recorded(c) == \E v \in Votes : v.key[2] = c.target /\ v.key[3] = c.event
InCooldown(c) ==
  \E v \in Votes : /\ v.key[2] = c.target
                   /\ v.account = c.account \/ (c.net # None /\ v.net = c.net)
                   /\ v.at > now - Cooldown

\* Mutant: the code may be used once more.
GrantsOneMore(c) ==
  CASE c.kind = "vote" -> c.target \in active /\ ~Recorded(c) /\ ~InCooldown(c)
    [] c.kind = "gift" -> /\ c.target \in active /\ now < Expires[c.target]
                          /\ used[c.target] <= MaxUses[c.target]
    [] c.kind = "milestone" -> c.target \in active /\ recruits[c.account] >= Recruits[c.target]
    [] OTHER -> TRUE
(* What the handler checks once it holds its locks.                         *)
Grants(c) ==
  CASE c.kind = "vote" -> c.target \in active /\ ~Recorded(c) /\ ~InCooldown(c)
    [] c.kind = "gift" -> /\ c.target \in active /\ now < Expires[c.target]
                          /\ used[c.target] < MaxUses[c.target]
    [] c.kind = "milestone" -> c.target \in active /\ recruits[c.account] >= Recruits[c.target]
    [] OTHER -> TRUE

(***************************************************************************)
(* The draw: every vote of an account with enough of them is a ticket; the  *)
(* tickets are taken in the order of their hashes, at most one per account. *)
(***************************************************************************)
InCampaign(v) == Starts <= v.at /\ v.at < Ends

Drawn(votes) ==
  LET Of(a) == {v \in votes : v.account = a}
      Enough == {a \in Accounts : Cardinality(Of(a)) >= MinVotes}
      First(a) == Min({Ticket[<<v.key[2], v.key[3]>>] : v \in Of(a)})
  IN  {a \in Enough : Cardinality({b \in Enough : First(b) < First(a)}) < WinnerCount}

\* Mutant: the draw does not wait for the campaign to end.
MayDrawEarly == ~drawn
MayDraw == ~drawn /\ now >= Ends

(***************************************************************************)
(* The handlers                                                            *)
(***************************************************************************)
Init ==
  /\ now = 0
  /\ claims = {}
  /\ used = [t \in Targets |-> 0]
  /\ active = Targets
  /\ recruits = [a \in Accounts |-> 0]
  /\ wallet = [a \in Accounts |-> 0]
  /\ ledger = [a \in Accounts |-> 0]
  /\ drawn = FALSE
  /\ winners = {}
  /\ phase = [r \in Requests |-> "new"]
  /\ call = [r \in Requests |-> NoCall]
  /\ seen = [r \in Requests |-> 0]
  /\ row = [r \in Requests |-> NoRow]
  /\ picked = [r \in Requests |-> {}]
  /\ timely = {}
  /\ misread = {}

Goto(r, p) == phase' = [phase EXCEPT ![r] = p]

(* The transaction ends, by its commit or by the deferred Rollback.         *)
\* Mutant: the transaction is left open, with its row.
LeaveOpen(r, p) ==
  /\ phase' = [phase EXCEPT ![r] = p]
  /\ UNCHANGED <<call, seen, row, picked>>
Leave(r, p) ==
  /\ phase' = [phase EXCEPT ![r] = p]
  /\ call' = [call EXCEPT ![r] = NoCall]
  /\ seen' = [seen EXCEPT ![r] = 0]
  /\ row' = [row EXCEPT ![r] = NoRow]
  /\ picked' = [picked EXCEPT ![r] = {}]

FirstPhase(c) == CASE ParentRows(c) # {} -> "lock"
                   [] c.kind \in {"daily", "mission"} -> "read"
                   [] OTHER -> "insert"

(* A mission notes the month first; the others begin their transaction.     *)
Begin(r, c) ==
  /\ phase[r] = "new"
  /\ FreeConns > 0
  /\ c.kind = "mission" => c.target \in active
  /\ Goto(r, FirstPhase(c))
  /\ call' = [call EXCEPT ![r] = c]
  /\ seen' = [seen EXCEPT ![r] = IF c.kind = "mission" THEN Month(now) ELSE 0]
  /\ UNCHANGED <<now, tables, active, row, picked, misread>>

(* A repeated vote is told so before the cooldown is looked at.             *)
\* Mutant: the cooldown is looked at first.
CooldownFirst(c) ==
  IF c.kind = "vote" /\ c.target \in active /\ ~InCooldown(c) /\ Recorded(c)
    THEN "duplicate" ELSE "refused"
Answer(c) ==
  IF c.kind = "vote" /\ c.target \in active /\ Recorded(c) THEN "duplicate" ELSE "refused"

Lock(r) ==
  LET c == call[r]
  IN  /\ phase[r] = "lock"
      /\ Free(ParentRows(c))
      /\ c.kind # "draw"
      /\ \/ Grants(c) /\ Goto(r, "insert") /\ UNCHANGED <<call, seen, row, picked>>
         \/ ~Grants(c) /\ Leave(r, Answer(c))
      /\ UNCHANGED <<now, tables, active, misread>>

(* drawVoteCampaign: the votes are those committed when it reads them.      *)
Draw(r) ==
  /\ phase[r] = "lock" /\ Kind(r) = "draw"
  /\ Free(ParentRows(call[r]))
  /\ \/ /\ MayDraw
        /\ Goto(r, "commit")
        /\ picked' = [picked EXCEPT ![r] = Drawn({v \in Votes : InCampaign(v)})]
        /\ UNCHANGED <<call, seen, row>>
     \/ ~MayDraw /\ Leave(r, "refused")
  /\ UNCHANGED <<now, tables, active, misread>>

(* The read of the daily streak needs a second connection.                  *)
ReadStreak(r) ==
  LET a == call[r].account
  IN  /\ phase[r] = "read" /\ Kind(r) = "daily"
      /\ FreeConns > 0
      /\ \/ ClaimedOn(a, Day(now)) /\ Leave(r, "refused")
         \/ /\ ~ClaimedOn(a, Day(now))
            /\ seen' = [seen EXCEPT ![r] = Streak(a, Day(now))]
            /\ Goto(r, "insert")
            /\ UNCHANGED <<call, row, picked>>
      /\ UNCHANGED <<now, tables, active, misread>>

(* scanDailyRewardState hides an error of its query: nothing was claimed.   *)
StreakUnread(r) ==
  /\ phase[r] = "read" /\ Kind(r) = "daily"
  /\ FreeConns > 0
  /\ Goto(r, "insert")
  /\ misread' = misread \cup {call[r].account}
  /\ UNCHANGED <<now, tables, active, call, seen, row, picked>>

(* Counts the votes since the month noted before, and begins.               *)
ReadProgress(r) ==
  LET c == call[r]
      progress == Cardinality({v \in VotesOf(c.account) : Month(v.at) >= seen[r]})
  IN  /\ phase[r] = "read" /\ c.kind = "mission"
      /\ FreeConns > 0
      /\ \/ progress >= Goal[c.target] /\ Goto(r, "insert") /\ UNCHANGED <<call, seen, row, picked>>
         \/ progress < Goal[c.target] /\ Leave(r, "refused")
      /\ UNCHANGED <<now, tables, active, misread>>

(* What admits the claim once.                                              *)
\* Mutant: account and target are swapped.
SwappedKey(c, s, t) ==
  IF c.kind \in ByEvent THEN <<c.kind, c.target, c.event, 0>>
                        ELSE <<c.kind, c.account, c.target, 0>>
Key(c, s, t) ==
  IF c.kind \in ByEvent THEN <<c.kind, c.target, c.event, 0>>
  ELSE <<c.kind, c.target, c.account,
         CASE c.kind = "daily" -> Day(t) [] c.kind = "mission" -> s [] OTHER -> 0>>

Credits(c, s) ==
  IF c.kind = "daily" THEN Cycle[s % Cardinality(DOMAIN Cycle)] ELSE c.credits

\* Mutant: the number of inserted rows is not looked at.
NeverExists(k) == FALSE
Exists(k) == \E v \in claims : v.key = k

(* INSERT waits for another transaction that inserted the same key.  The    *)
(* day of a daily claim is the day of this statement.                       *)
Insert(r) ==
  LET c == call[r]
      k == Key(c, seen[r], now)
  IN  /\ phase[r] = "insert"
      /\ \A o \in Requests : row[o].key # k
      /\ \/ Exists(k) /\ Leave(r, "duplicate")
         \/ /\ ~Exists(k)
            /\ row' = [row EXCEPT ![r] = [key |-> k, account |-> c.account,
                         credits |-> Credits(c, seen[r]), at |-> now, net |-> c.net]]
            /\ Goto(r, "commit")
            /\ UNCHANGED <<call, seen, picked>>
      /\ UNCHANGED <<now, tables, active, misread>>

Commit(r) ==
  LET w == row[r]
      a == w.account
  IN  /\ phase[r] = "commit" /\ Kind(r) # "draw"
      /\ claims' = claims \cup {w}
      /\ wallet' = [wallet EXCEPT ![a] = @ + w.credits]
      /\ ledger' = [ledger EXCEPT ![a] = @ + w.credits]
      /\ used' = IF Kind(r) = "gift" THEN [used EXCEPT ![call[r].target] = @ + 1] ELSE used
      /\ timely' = IF Kind(r) = "vote" /\ now < Ends THEN timely \cup {w} ELSE timely
      /\ Leave(r, "done")
      /\ UNCHANGED <<now, active, recruits, drawn, winners, misread>>

CommitDraw(r) ==
  /\ phase[r] = "commit" /\ Kind(r) = "draw"
  /\ drawn' = TRUE
  /\ winners' = winners \cup picked[r]
  /\ Leave(r, "done")
  /\ UNCHANGED <<now, claims, used, recruits, wallet, ledger, timely, active, misread>>

(* A statement fails, the client is gone, the portal stops.                 *)
Abandon(r) ==
  /\ phase[r] \in {"lock", "read", "insert", "commit"}
  /\ Leave(r, "failed")
  /\ UNCHANGED <<now, tables, active, misread>>

(***************************************************************************)
(* The surroundings                                                        *)
(***************************************************************************)
(* What a registration with a referral code does to the recruiter.          *)
Recruit(a) ==
  /\ recruits[a] < MaxRecruits
  /\ Free({<<"referral", a>>})
  /\ recruits' = [recruits EXCEPT ![a] = @ + 1]
  /\ wallet' = [wallet EXCEPT ![a] = @ + RecruitCredits]
  /\ ledger' = [ledger EXCEPT ![a] = @ + RecruitCredits]
  /\ UNCHANGED <<now, claims, used, drawn, winners, timely, active, request, misread>>

(* Staff disable a voting site, a gift code, a mission or a milestone.      *)
Disable(t) ==
  /\ Cardinality(Targets \ active) < MaxDisabled
  /\ t \in active
  /\ Free({"vote", "gift", "milestone"} \X {t})
  /\ active' = active \ {t}
  /\ UNCHANGED <<now, tables, request, misread>>

Tick ==
  /\ now < MaxNow
  /\ now' = now + 1
  /\ misread' = misread \cup
       IF Day(now') = Day(now) THEN {}
       ELSE {call[r].account : r \in {q \in Requests : Kind(q) = "daily"}}
  /\ UNCHANGED <<tables, active, request>>

Step(r) == \/ Lock(r) \/ Draw(r) \/ ReadStreak(r) \/ StreakUnread(r)
           \/ ReadProgress(r) \/ Insert(r) \/ Commit(r) \/ CommitDraw(r)

Next ==
  \/ \E r \in Requests : (\E c \in Calls[r] : Begin(r, c)) \/ Step(r) \/ Abandon(r)
  \/ \E a \in Accounts : Recruit(a)
  \/ \E t \in Switched : Disable(t)
  \/ Tick

(* As long as some request can go on, some request does: the database       *)
(* grants a free lock and the pool a free connection, to whomever.          *)
Spec == Init /\ [][Next]_vars /\ WF_vars(\E r \in Requests : Step(r))

(***************************************************************************)
(* Properties                                                              *)
(***************************************************************************)
ClaimsOf(a) == {v \in claims : v.account = a}

(* Every credit of a wallet has one row that says why, and every row was    *)
(* paid once: retried callbacks, parallel requests and failed transactions  *)
(* leave wallet, ledger and claims in agreement.                            *)
Accounted ==
  \A a \in Accounts :
    /\ wallet[a] = ledger[a]
    /\ wallet[a] = Total([v \in claims |-> v.credits], ClaimsOf(a))
                   + RecruitCredits * recruits[a]

(* used_count counts the accounts that redeemed a code and stays within     *)
(* max_uses, however many redeem its last use at once.                      *)
GiftUsesCounted ==
  \A t \in Targets :
    /\ used[t] = Cardinality({v \in claims : v.key[1] = "gift" /\ v.key[2] = t})
    /\ used[t] <= MaxUses[t]

(* Two votes for one site that were paid to one account, or from one        *)
(* network, are a cooldown apart, also when callbacks arrive in parallel    *)
(* and commit long after their check.                                       *)
CooldownKept ==
  \A v, w \in Votes :
    v # w /\ v.key[2] = w.key[2] /\ (v.account = w.account \/ (v.net # None /\ v.net = w.net))
      => v.at - w.at >= Cooldown \/ w.at - v.at >= Cooldown

(* A provider that repeats the callback of a paid vote is told that it is a *)
(* duplicate, never that it came too early, as long as the site is active.  *)
RetryAcknowledged ==
  [][\A r \in Requests :
       phase[r] = "lock" /\ phase'[r] = "refused" /\ Kind(r) = "vote" /\ call[r].target \in active
         => ~Recorded(call[r])]_vars

(* A daily claim pays the day of the cycle that the unbroken days before it *)
(* have earned, of which those further back than StreakRows days no longer  *)
(* count, unless a claim of the account was under way at midnight or could  *)
(* not read its streak, which is read before the day is written.            *)
StreakPaid ==
  \A v \in {w \in claims : w.key[1] = "daily" /\ w.account \notin misread} :
    LET days == {w.key[4] : w \in {w \in ClaimsOf(v.account) : w.key[1] = "daily"}}
        before == {e \in days : /\ v.key[4] - StreakRows <= e /\ e < v.key[4]
                                /\ e..v.key[4] \subseteq days}
    IN  v.credits = Cycle[Cardinality(before) % Cardinality(DOMAIN Cycle)]

(* The published winners are the draw of the campaign's votes; all that may *)
(* be missing are votes cast before the end and committed after it.         *)
DrawHonest ==
  drawn => \E missing \in SUBSET {v \in Votes \ timely : InCampaign(v)} :
             winners = Drawn({v \in Votes \ missing : InCampaign(v)})

(* A drawn campaign keeps its winners, whatever votes still arrive and      *)
(* whoever draws again.                                                     *)
DrawIsFinal == [][drawn => drawn' /\ winners' = winners]_vars

(* What was answered once is answered again, whatever came in between: a paid *)
(* vote by its callback, a draw by its campaign.                              *)
AnswersStand == RetryAcknowledged /\ DrawIsFinal

(* Every request ends: locks, keys and connections are never waited for in  *)
(* a circle, provided the pool has more connections than daily claims at    *)
(* work, each of which holds one connection and asks for another.           *)
ClaimsEnd == <>[](\A r \in Requests : phase[r] \in Ended \cup {"new"})
================================================================================
