-------------------------------- MODULE MCPortal --------------------------------
EXTENDS Portal, TLC

CONSTANTS p1, p2, w1, w2

MCKeysOf == [s \in Settings |-> Lines]
MCKind == [e \in Results |-> CASE e = "flawed" -> "arena" [] e = "pug" -> "kill" [] OTHER -> e]
MCKindOf == [s \in Subjects |-> s]

Symmetry == Permutations(Players) \cup Permutations(Handlers)

(* Bounds: what is left out of a behaviour because nothing it could meet is      *)
(* there.  Rewards are for an event with one place, whose registration is over    *)
(* after the first grant; passkeys and providers are not mixed, a second ticket   *)
(* is drawn with one account, and a step-up is confirmed where a flow asks for    *)
(* it; the file has both lines of the setting or none, differs from itself in one *)
(* way, and one look at it is in flight; character services and moderation are    *)
(* apart.                                                                         *)
Rewarding == \E h \in Handlers : handler[h].at \in {"reward", "attendance", "pay", "notify"}
Granted == \E p \in Players : grant[p] # None
Registering == \E h \in Handlers : handler[h].at \in {"register", "look", "reserve"}
Stepped == \E s \in Sessions : session[s] # None /\ session[s].stepped
Looks == {c \in Calls : call[c].route = "get" /\ call[c] # Agent!Idle}
Focused ==
  /\ Rewarding \/ Granted => event.limit = 1 /\ room = 1 /\ ~event.ahead
  /\ Granted => ~Registering
  /\ (\A u \in Users : provider[u] = None) \/ (\A k \in Keys : passkey[k] = None)
  /\ drawn > 0 => \A r \in Requests :
       request[r].at \notin {"link", "switch", "promote", "unlink", "delete", "forget"}
  /\ drawn > 0 /\ (\E k \in Keys : passkey[k] # None) => made = 1
  /\ (\E k \in Keys : passkey[k] # None) => ~Stepped
  /\ drawn = 0 /\ Stepped => \A r \in Requests : request[r].at \in {"idle", "start"}
  /\ drawn > 1 =>
       /\ \E k \in Keys : passkey[k] # None
       /\ \A t \in ticket : t.flow = "passkey"
       /\ \A r \in Requests : request[r].at \in {"idle", "check", "account", "advance", "issue"}
  /\ Cardinality(backups) + Cardinality(audit) <= 2
  /\ Cardinality(Looks) <= 1
  /\ conf["kill"] = None <=> conf["quest"] = None
  /\ conf["kill"] = 2 => conf["quest"] = 2
  /\ Cardinality(excused) <= 1
  /\ (services = {} /\ pending.at = "none") \/ \A e \in Entries : log[e] = None
================================================================================
