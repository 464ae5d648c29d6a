--------------------------- MODULE CompetitiveIngest ---------------------------
(* Raid, arena and battleground results that a collector on the realm delivers    *)
(* at least once (src/internal/web/competitive_ingest.go): each delivery is one    *)
(* transaction that first claims the id of the event.                              *)
EXTENDS Naturals

CONSTANTS
  Results,     \* ids of events of the realm
  Kind,        \* [Results -> "kill", "wipe", "arena" or "battleground"]
  Flawed,      \* results with a member that no table may hold
  Nameless,    \* kills without a guild, or whose difficulty names no raid size
  Default,     \* the kills that the default rules admit
  Workers,     \* deliveries handled at the same time
  None

VARIABLES
  claimed,     \* portal_competitive_events
  attempts,    \* [Results -> committed rows in the table of the kind]
  kills,       \* [Results -> committed rows in portal_raid_kills]
  ranked,      \* results whose kill is eligible for the public ranking
  admitted,    \* the kills that the raid eligibility rules admit
  acked,       \* results the collector knows to be stored
  worker       \* [Workers -> Worker]

vars == <<claimed, attempts, kills, ranked, admitted, acked, worker>>

Raids == {e \in Results : Kind[e] \in {"kill", "wipe"}}
Kills == {e \in Results : Kind[e] = "kill"}

(* short: the reasons against a place in the ranking, judged before the transaction *)
Worker == [at : {"idle", "begin", "match", "members", "kill", "commit", "answer"},
           result : Results \cup {None}, short : BOOLEAN]

Idle == [at |-> "idle", result |-> None, short |-> FALSE]

TypeOK ==
  /\ claimed \subseteq Results /\ ranked \subseteq Results /\ acked \subseteq Results
  /\ attempts \in [Results -> Nat] /\ kills \in [Results -> Nat] /\ admitted \subseteq Results
  /\ worker \in [Workers -> Worker]

(* Without rules of the realm the default ones hold. *)
Init ==
  /\ claimed = {} /\ ranked = {} /\ acked = {} /\ admitted = Default
  /\ attempts = [e \in Results |-> 0] /\ kills = [e \in Results |-> 0]
  /\ worker = [w \in Workers |-> Idle]

Go(w, stage) == worker' = [worker EXCEPT ![w].at = stage]
Done(w) == worker' = [worker EXCEPT ![w] = Idle]
Rows == <<claimed, attempts, kills, ranked, admitted>>

AnyRank(e) == TRUE   \* mutant: the guild and the difficulty are not looked at

(* A kill may be ranked that the rules admit, or the default ones where they cannot *)
(* be read; what has no guild or names no raid size never is.                       *)
MayRank(e) == e \in (admitted \cup Default) \ Nameless

(* The collector posts a result it has no answer for; a raid with a flawed roster *)
(* is refused at once.  A kill is also short once it is too old.                   *)
Post(w, e, short) ==
  /\ worker[w].at = "idle" /\ e \notin acked
  /\ IF e \in Kills THEN short \/ MayRank(e) ELSE ~short
  /\ ~(e \in Raids /\ e \in Flawed)
  /\ worker' = [worker EXCEPT ![w] = [at |-> "begin", result |-> e, short |-> short]]
  /\ UNCHANGED <<Rows, acked>>

NoWait(e) == TRUE   \* mutant: the id is looked up instead of inserted

(* INSERT IGNORE waits for a transaction that has inserted the same key. *)
KeyFree(e) == \A w \in Workers :
  worker[w].result = e => worker[w].at \in {"idle", "begin", "answer"}

ClaimEvent(w) ==
  /\ worker[w].at = "begin" /\ KeyFree(worker[w].result)
  /\ Go(w, IF worker[w].result \in claimed THEN "answer" ELSE "match")
  /\ UNCHANGED <<Rows, acked>>

StoreMatch(w) ==
  /\ worker[w].at = "match" /\ Go(w, "members") /\ UNCHANGED <<Rows, acked>>

(* An arena or battleground member is judged here: the deferred Rollback drops *)
(* the claim and the match.                                                    *)
StoreMembers(w) ==
  LET e == worker[w].result
  IN  /\ worker[w].at = "members"
      /\ IF e \in Flawed THEN Done(w) ELSE Go(w, IF e \in Kills THEN "kill" ELSE "commit")
      /\ UNCHANGED <<Rows, acked>>

StoreKill(w) == worker[w].at = "kill" /\ Go(w, "commit") /\ UNCHANGED <<Rows, acked>>

Commit(w) ==
  LET e == worker[w].result
  IN  /\ worker[w].at = "commit" /\ Go(w, "answer")
      /\ claimed' = claimed \cup {e} /\ attempts' = [attempts EXCEPT ![e] = @ + 1]
      /\ kills' = IF e \in Kills THEN [kills EXCEPT ![e] = @ + 1] ELSE kills
      /\ ranked' = IF e \in Kills /\ ~worker[w].short THEN ranked \cup {e} ELSE ranked
      /\ UNCHANGED <<admitted, acked>>

Answer(w, arrives) ==
  /\ worker[w].at = "answer" /\ Done(w)
  /\ acked' = IF arrives THEN acked \cup {worker[w].result} ELSE acked
  /\ UNCHANGED Rows

(* An error, a crash of the portal or a collector that hung up *)
Abort(w) ==
  /\ worker[w].at \notin {"idle", "answer"} /\ Done(w) /\ UNCHANGED <<Rows, acked>>

(* Staff change the rules between two deliveries of one result. *)
SetRules(rules) ==
  /\ admitted' = rules /\ UNCHANGED <<claimed, attempts, kills, ranked, acked, worker>>

Next ==
  \/ \E w \in Workers :
       \/ \E e \in Results, short \in BOOLEAN : Post(w, e, short)
       \/ ClaimEvent(w) \/ StoreMatch(w) \/ StoreMembers(w) \/ StoreKill(w)
       \/ Commit(w) \/ Abort(w) \/ \E arrives \in BOOLEAN : Answer(w, arrives)
  \/ \E rules \in SUBSET Kills : SetRules(rules)

Spec == Init /\ [][Next]_vars

--------------------------------------------------------------------------------
(* A result is stored whole and once, however often it is delivered and wherever  *)
(* a delivery breaks off (README: "repeated delivery is accepted without          *)
(* duplicating results"); what was acknowledged is stored; a result that cannot   *)
(* be stored leaves no claim that would let a corrected delivery pass as a         *)
(* duplicate.  Only stored kills are ranked, and none that lacks its guild or its  *)
(* raid size, whatever rules staff set between its deliveries.                     *)
IngestedOnce == \A e \in Results :
  /\ attempts[e] = (IF e \in claimed THEN 1 ELSE 0)
  /\ kills[e] = (IF e \in claimed \cap Kills THEN 1 ELSE 0)
  /\ e \in acked => e \in claimed
  /\ e \in Flawed => e \notin claimed
  /\ e \in ranked => kills[e] = 1 /\ e \notin Nameless
================================================================================
