------------------------------ MODULE Identities -------------------------------
(* Master accounts (src/internal/web/identity.go): several game accounts linked *)
(* to one identity, the providers (oauth.go) and passkeys (passkeys.go) that    *)
(* sign in to it, and the one-time tickets of their flows.  A handler is a      *)
(* request that keeps what it has read between its statements.                  *)
EXTENDS Naturals, FiniteSets

CONSTANTS
  Names,       \* game accounts
  Sessions,    \* rows of portal_sessions (bound)
  Requests,    \* handlers that run at the same time
  Users,       \* accounts at an external provider (Discord or Google)
  Keys,        \* passkey credentials
  None,
  MaxIdentities, MaxTickets, MaxCount   \* bounds; MaxCount: of a passkey's counter

VARIABLES
  made,       \* identities made so far: 1 .. made
  member,     \* [Names -> portal_identity_accounts row or None]
  session,    \* [Sessions -> [name, identity, stepped] or None]
  ticket,     \* set of portal_oauth_states and portal_passkey_challenges rows
  drawn,      \* tickets made so far
  provider,   \* [Users -> identity or None]
  passkey,    \* [Keys -> [identity, count] or None]
  asked,      \* history: <<user or key, identity that was signed in when it was added>>
  request     \* [Requests -> Request]

vars == <<made, member, session, ticket, drawn, provider, passkey, asked, request>>

Ids == 1 .. MaxIdentities
Counts == 0 .. MaxCount
Flows == {"login", "link", "register", "passkey"}

(* Stages that need the identity of the active account, and the others. *)
Wanting == {"login", "link", "switch", "promote", "unlink", "start", "enrol", "linkback",
            "finish", "drop", "forget"}
Stages == Wanting \cup {"idle", "delete", "exchange", "callback", "find", "check",
                        "account", "issue", "advance"}

Ticket == [no : 1 .. MaxTickets, flow : Flows, identity : Ids \cup {None}]

(* active: the account auth returned; mine: its identity, once it is known;      *)
(* identity: that of the ticket, the provider or the passkey; old, new: counters *)
Request == [at : Stages, session : Sessions \cup {None}, active : Names \cup {None},
            name : Names \cup {None}, mine : Ids \cup {None}, identity : Ids \cup {None},
            flow : Flows \cup {None}, user : Users \cup {None}, key : Keys \cup {None},
            old : Counts, new : Counts]

Idle == [at |-> "idle", session |-> None, active |-> None, name |-> None, mine |-> None,
         identity |-> None, flow |-> None, user |-> None, key |-> None, old |-> 0, new |-> 0]

TypeOK ==
  /\ made \in 0 .. MaxIdentities /\ drawn \in 0 .. MaxTickets
  /\ member \in [Names -> [identity : 1 .. made, primary : BOOLEAN] \cup {None}]
  /\ session \in [Sessions -> [name : Names, identity : 0 .. made, stepped : BOOLEAN]
                              \cup {None}]
  /\ ticket \subseteq Ticket
  /\ provider \in [Users -> 1 .. made \cup {None}]
  /\ passkey \in [Keys -> [identity : 1 .. made, count : Counts] \cup {None}]
  /\ asked \subseteq (Users \cup Keys) \X Ids
  /\ request \in [Requests -> Request]

(* One session of a time before identities: identity_id is 0. *)
Init ==
  /\ made = 0 /\ drawn = 0
  /\ member = [n \in Names |-> None]
  /\ \E s \in Sessions, n \in Names : session = [t \in Sessions |->
       IF t = s THEN [name |-> n, identity |-> 0, stepped |-> FALSE] ELSE None]
  /\ ticket = {} /\ provider = [u \in Users |-> None]
  /\ passkey = [k \in Keys |-> None] /\ asked = {}
  /\ request = [r \in Requests |-> Idle]

Linked(n) == member[n] # None
Of(n) == member[n].identity
Live(s) == session[s] # None
Free(s) == ~Live(s) /\ \A r \in Requests : request[r].session # s
Done(r) == request' = [request EXCEPT ![r] = Idle]
Forget(x) == asked' = {p \in asked : p[1] # x}
Ready(r, stage) == request[r].at = stage /\ request[r].mine # None

--------------------------------------------------------------------------------
(* Requests of a session *)

(* auth; the stages of OAuth and passkey flows that begin with it are further below *)
Act(r, s, stage, n) ==
  /\ request[r].at = "idle" /\ Live(s)
  /\ stage \in {"link", "switch", "promote", "unlink", "start", "enrol", "drop", "forget"}
  /\ stage = "unlink" => n # session[s].name
  /\ stage = "start" => session[s].stepped
  /\ request' = [request EXCEPT ![r] = [Idle EXCEPT
       !.at = stage, !.session = s, !.active = session[s].name, !.name = n]]
  /\ UNCHANGED <<made, member, session, ticket, drawn, provider, passkey, asked>>

(* ensureIdentity: the identity of the active account, made when there is none.  *)
(* bindSessionIdentity gives it to a session that has none yet.                  *)
EnsureIdentity(r) ==
  LET n == request[r].active
      s == request[r].session
      mine == IF Linked(n) THEN Of(n) ELSE made + 1
  IN  /\ request[r].at \in Wanting /\ request[r].mine = None /\ mine <= MaxIdentities
      /\ made' = IF Linked(n) THEN made ELSE mine
      /\ member' = IF Linked(n) THEN member
                   ELSE [member EXCEPT ![n] = [identity |-> mine, primary |-> TRUE]]
      /\ session' = IF request[r].at \in {"link", "promote", "unlink"}
                       /\ Live(s) /\ session[s].identity = 0
                      THEN [session EXCEPT ![s].identity = mine] ELSE session
      /\ request' = [request EXCEPT ![r].mine = mine]
      /\ UNCHANGED <<ticket, drawn, provider, passkey, asked>>

(* The credentials of the account to be linked were checked; it may be linked by *)
(* now (unique account_id).                                                      *)
IdentityLinkAccount(r) ==
  LET n == request[r].name
  IN  /\ Ready(r, "link") /\ Done(r)
      /\ member' = IF Linked(n) THEN member
                   ELSE [member EXCEPT ![n] = [identity |-> request[r].mine,
                                               primary |-> FALSE]]
      /\ UNCHANGED <<made, session, ticket, drawn, provider, passkey, asked>>

IdentitySwitchAccount(r) ==
  LET s == request[r].session
      n == request[r].name
      i == request[r].mine
  IN  /\ Ready(r, "switch") /\ Done(r)
      /\ session' = IF Live(s) /\ session[s].identity = i /\ Linked(n) /\ Of(n) = i
                      THEN [session EXCEPT ![s].name = n, ![s].stepped = FALSE] ELSE session
      /\ UNCHANGED <<made, member, ticket, drawn, provider, passkey, asked>>

Promote(i, n) == member' = [m \in Names |->
  IF Linked(m) /\ Of(m) = i THEN [member[m] EXCEPT !.primary = (m = n)] ELSE member[m]]

(* The target is locked before all rows of the identity are updated. *)
IdentityPromoteAccount(r) ==
  LET n == request[r].name
      i == request[r].mine
  IN  /\ Ready(r, "promote") /\ Done(r)
      /\ IF Linked(n) /\ Of(n) = i THEN Promote(i, n) ELSE UNCHANGED member
      /\ UNCHANGED <<made, session, ticket, drawn, provider, passkey, asked>>

(* The look at is_primary, outside any transaction. *)
LookBeforeUnlink(r) ==
  LET n == request[r].name
  IN  /\ Ready(r, "unlink")
      /\ IF Linked(n) /\ Of(n) = request[r].mine /\ ~member[n].primary
           THEN request' = [request EXCEPT ![r].at = "delete"] ELSE Done(r)
      /\ UNCHANGED <<made, member, session, ticket, drawn, provider, passkey, asked>>

AnyRow(n, i) == Linked(n) /\ Of(n) = i   \* mutant: DELETE without is_primary=0

Deletable(n, i) == Linked(n) /\ Of(n) = i /\ ~member[n].primary

IdentityUnlinkAccount(r) ==
  LET n == request[r].name
  IN  /\ request[r].at = "delete" /\ Done(r)
      /\ member' = IF Deletable(n, request[r].mine)
                     THEN [member EXCEPT ![n] = None] ELSE member
      /\ UNCHANGED <<made, session, ticket, drawn, provider, passkey, asked>>

IdentityUnlinkProvider(r, u) ==
  /\ Ready(r, "forget") /\ Done(r)
  /\ provider[u] = request[r].mine
  /\ provider' = [provider EXCEPT ![u] = None] /\ Forget(u)
  /\ UNCHANGED <<made, member, session, ticket, drawn, passkey>>

PasskeyDelete(r, k) ==
  /\ Ready(r, "drop") /\ Done(r)
  /\ passkey[k] # None /\ passkey[k].identity = request[r].mine
  /\ passkey' = [passkey EXCEPT ![k] = None] /\ Forget(k)
  /\ UNCHANGED <<made, member, session, ticket, drawn, provider>>

(* login: the password was checked (modelled in Accounts, like the step-up). *)
Login(r, n) ==
  /\ request[r].at = "idle"
  /\ request' = [request EXCEPT ![r] = [Idle EXCEPT !.at = "login", !.active = n, !.name = n]]
  /\ UNCHANGED <<made, member, session, ticket, drawn, provider, passkey, asked>>

StepUp(s) ==
  /\ Live(s) /\ session' = [session EXCEPT ![s].stepped = ~@]
  /\ UNCHANGED <<made, member, ticket, drawn, provider, passkey, asked, request>>

Leave(s) ==
  /\ Live(s) /\ session' = [session EXCEPT ![s] = None]
  /\ UNCHANGED <<made, member, ticket, drawn, provider, passkey, asked, request>>

--------------------------------------------------------------------------------
(* Tickets: one row for each OAuth state and each passkey challenge *)

Draw(flow, i) ==
  /\ drawn < MaxTickets
  /\ drawn' = drawn + 1
  /\ ticket' = ticket \cup {[no |-> drawn + 1, flow |-> flow, identity |-> i]}

StartSignIn(flow) ==
  /\ flow \in {"login", "passkey"} /\ Draw(flow, None)
  /\ UNCHANGED <<made, member, session, provider, passkey, asked, request>>

(* Linking a provider wants a step-up before it starts (Act), a passkey does not. *)
StartLink(r) ==
  /\ request[r].at \in {"start", "enrol"} /\ request[r].mine # None
  /\ Draw(IF request[r].at = "start" THEN "link" ELSE "register", request[r].mine)
  /\ Done(r)
  /\ UNCHANGED <<made, member, session, provider, passkey, asked>>

TicketExpires(t) ==
  /\ t \in ticket /\ ticket' = ticket \ {t}
  /\ UNCHANGED <<made, member, session, drawn, provider, passkey, asked, request>>

(* SELECT ... FOR UPDATE and DELETE in one transaction *)
Consume(t) == t \in ticket /\ ticket' = ticket \ {t}

(* The browser comes back from the provider, with the session it has by then. *)
OAuthCallback(r, t, s) ==
  /\ request[r].at = "idle" /\ t.flow \in {"login", "link"} /\ Consume(t)
  /\ s # None => Live(s)
  /\ request' = [request EXCEPT ![r] = [Idle EXCEPT
       !.at = "exchange", !.session = s, !.flow = t.flow, !.identity = t.identity]]
  /\ UNCHANGED <<made, member, session, drawn, provider, passkey, asked>>

(* exchangeDiscordCode, exchangeGoogleCode: whoever signed in there *)
ExchangeCode(r, u) ==
  /\ request[r].at = "exchange"
  /\ request' = [request EXCEPT ![r].user = u,
                    ![r].at = IF request[r].flow = "link" THEN "callback" ELSE "find"]
  /\ UNCHANGED <<made, member, session, ticket, drawn, provider, passkey, asked>>

(* auth and stepUpValid once more *)
Reauthenticate(r) ==
  LET s == request[r].session
  IN  /\ request[r].at = "callback"
      /\ IF s # None /\ Live(s) /\ session[s].stepped
           THEN request' = [request EXCEPT ![r].at = "linkback", ![r].active = session[s].name]
           ELSE Done(r)
      /\ UNCHANGED <<made, member, session, ticket, drawn, provider, passkey, asked>>

AnyIdentity(r) == TRUE   \* mutant: the ticket's identity is not compared

SameIdentity(r) == request[r].identity = request[r].mine

(* linkExternalIdentity locks the rows it looks at. *)
LinkExternalIdentity(r) ==
  LET u == request[r].user
      i == request[r].identity
  IN  /\ Ready(r, "linkback") /\ Done(r)
      /\ IF /\ SameIdentity(r) /\ provider[u] \in {None, i}
            /\ \A v \in Users \ {u} : provider[v] # i
           THEN /\ provider' = [provider EXCEPT ![u] = i]
                /\ asked' = asked \cup {<<u, request[r].mine>>}
           ELSE UNCHANGED <<provider, asked>>
      /\ UNCHANGED <<made, member, session, ticket, drawn, passkey>>

(* passkeyRegistrationFinish: auth, then the challenge, then the identity *)
FinishRegistration(r, t, s, k) ==
  /\ request[r].at = "idle" /\ Live(s) /\ t.flow = "register" /\ Consume(t)
  /\ request' = [request EXCEPT ![r] = [Idle EXCEPT
       !.at = "finish", !.session = s, !.active = session[s].name, !.key = k,
       !.identity = t.identity]]
  /\ UNCHANGED <<made, member, session, drawn, provider, passkey, asked>>

StoreCredential(r, n) ==
  LET k == request[r].key
  IN  /\ Ready(r, "finish") /\ Done(r)
      /\ IF SameIdentity(r) /\ passkey[k] = None
           THEN /\ passkey' = [passkey EXCEPT ![k] =
                     [identity |-> request[r].identity, count |-> n]]
                /\ asked' = asked \cup {<<k, request[r].mine>>}
           ELSE UNCHANGED <<passkey, asked>>
      /\ UNCHANGED <<made, member, session, ticket, drawn, provider>>

--------------------------------------------------------------------------------
(* Signing in with a provider or a passkey *)

FindProvider(r) ==
  /\ request[r].at = "find"
  /\ IF provider[request[r].user] = None THEN Done(r)
       ELSE request' = [request EXCEPT ![r].at = "account",
                                       ![r].identity = provider[request[r].user]]
  /\ UNCHANGED <<made, member, session, ticket, drawn, provider, passkey, asked>>

ConsumeChallenge(r, t, k) ==
  /\ request[r].at = "idle" /\ t.flow = "passkey" /\ Consume(t)
  /\ request' = [request EXCEPT ![r] = [Idle EXCEPT
       !.at = "check", !.flow = "passkey", !.key = k]]
  /\ UNCHANGED <<made, member, session, drawn, provider, passkey, asked>>

(* The authenticator signs a counter; 0 is stored for one that has none. *)
Advanced(old, new) == old # 0 => new > old

CheckPasskey(r, n) ==
  LET k == request[r].key
  IN  /\ request[r].at = "check"
      /\ IF passkey[k] # None /\ Advanced(passkey[k].count, n)
           THEN request' = [request EXCEPT ![r].at = "account",
                  ![r].identity = passkey[k].identity, ![r].old = passkey[k].count,
                  ![r].new = n]
           ELSE Done(r)
      /\ UNCHANGED <<made, member, session, ticket, drawn, provider, passkey, asked>>

(* The primary account of the identity, if it is neither locked nor banned. *)
FindAccount(r, n) ==
  /\ request[r].at = "account"
  /\ Linked(n) /\ Of(n) = request[r].identity /\ member[n].primary
  /\ request' = [request EXCEPT ![r].name = n,
                    ![r].at = IF request[r].flow = "passkey" THEN "advance" ELSE "issue"]
  /\ UNCHANGED <<made, member, session, ticket, drawn, provider, passkey, asked>>

AnyCount(k, old) == passkey[k] # None   \* mutant: UPDATE without sign_count=?

Unmoved(k, old) == passkey[k] # None /\ passkey[k].count = old

(* The number of rows is not looked at: the session is issued either way. *)
AdvanceCounter(r) ==
  LET k == request[r].key
  IN  /\ request[r].at = "advance"
      /\ passkey' = IF Unmoved(k, request[r].old)
                      THEN [passkey EXCEPT ![k].count = request[r].new] ELSE passkey
      /\ request' = [request EXCEPT ![r].at = "issue"]
      /\ UNCHANGED <<made, member, session, ticket, drawn, provider, asked>>

(* login, issuePortalSession *)
IssuePortalSession(r, s) ==
  LET identity == IF request[r].at = "login" THEN request[r].mine ELSE request[r].identity
  IN  /\ request[r].at = "issue" \/ Ready(r, "login")
      /\ Free(s) /\ Done(r)
      /\ session' = [session EXCEPT ![s] =
           [name |-> request[r].name, identity |-> identity, stepped |-> FALSE]]
      /\ UNCHANGED <<made, member, ticket, drawn, provider, passkey, asked>>

(* A provider that does not answer, an error, or a client that went away *)
Refuse(r) ==
  /\ request[r].at \notin {"idle", "issue"} /\ Done(r)
  /\ UNCHANGED <<made, member, session, ticket, drawn, provider, passkey, asked>>

--------------------------------------------------------------------------------
Manage(r) ==
  \/ \E s \in Sessions, stage \in Wanting, n \in Names : Act(r, s, stage, n)
  \/ EnsureIdentity(r) \/ IdentityLinkAccount(r) \/ IdentitySwitchAccount(r)
  \/ IdentityPromoteAccount(r) \/ LookBeforeUnlink(r) \/ IdentityUnlinkAccount(r)
  \/ \E u \in Users : IdentityUnlinkProvider(r, u)
  \/ \E k \in Keys : PasskeyDelete(r, k)
  \/ StartLink(r) \/ Refuse(r)

Return(r) ==
  \/ \E t \in ticket, s \in Sessions \cup {None} : OAuthCallback(r, t, s)
  \/ \E u \in Users : ExchangeCode(r, u)
  \/ Reauthenticate(r) \/ LinkExternalIdentity(r) \/ FindProvider(r)
  \/ \E t \in ticket, s \in Sessions, k \in Keys : FinishRegistration(r, t, s, k)
  \/ \E t \in ticket, k \in Keys : ConsumeChallenge(r, t, k)
  \/ \E n \in Counts : StoreCredential(r, n) \/ CheckPasskey(r, n)
  \/ \E n \in Names : FindAccount(r, n) \/ Login(r, n)
  \/ AdvanceCounter(r) \/ \E s \in Sessions : IssuePortalSession(r, s)

Next ==
  \/ \E r \in Requests : Manage(r) \/ Return(r)
  \/ \E flow \in Flows : StartSignIn(flow)
  \/ \E t \in ticket : TicketExpires(t)
  \/ \E s \in Sessions : StepUp(s) \/ Leave(s)

Spec == Init /\ [][Next]_vars

--------------------------------------------------------------------------------
(* Every identity that has game accounts has exactly one primary among them,      *)
(* whatever linking, promoting and unlinking (identity.go) run at the same time:  *)
(* provider and passkey sign-in depend on it.                                     *)
OnePrimary == \A i \in 1 .. made :
  LET mine == {n \in Names : Linked(n) /\ Of(n) = i}
  IN  mine # {} => Cardinality({n \in mine : member[n].primary}) = 1

(* A provider account or a passkey signs in to the identity that was signed in    *)
(* when it was added (discordOAuthCallback, googleOAuthCallback,                  *)
(* passkeyRegistrationFinish), although the browser may have signed in to another *)
(* one since the flow began; and no identity has two accounts of one provider.    *)
AddedByOwner ==
  /\ \A u \in Users : provider[u] # None => <<u, provider[u]>> \in asked
  /\ \A k \in Keys : passkey[k] # None => <<k, passkey[k].identity>> \in asked
  /\ \A u, v \in Users : provider[u] = provider[v] /\ provider[u] # None => u = v

(* The stored counter of a credential never falls, however many sign-ins with it *)
(* run at the same time (passkeyAuthenticationFinish).                            *)
CounterNeverFalls == [][\A k \in Keys :
  passkey[k] # None /\ passkey'[k] # None => passkey'[k].count >= passkey[k].count]_vars
================================================================================
