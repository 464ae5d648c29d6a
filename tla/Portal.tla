--------------------------------- MODULE Portal ---------------------------------
(* Seven parts of the portal that share no state, one of them in each behaviour: *)
(* part says which.  The variables of the others keep one initial value.          *)
EXTENDS Events

CONSTANTS
  Parts,       \* those that are looked at
  Names, Sessions, Requests, Users, Keys, MaxIdentities, MaxTickets, MaxCount,
  Calls, Settings, Lines, KeysOf, Values,
  Results, Kind, Flawed, Nameless, Default, Workers,
  Cases, Agents, MaxReplies,
  Forms, Subjects, KindOf, Clerks,
  Entries, Targets, Moderators

VARIABLES
  part,
  made, member, session, ticket, drawn, provider, passkey, asked, request,
  conf, backups, profile, audit, call, settled, lost,
  claimed, attempts, kills, ranked, admitted, acked, worker,
  support, thread, logged, agent,
  form, clerk, recruiting, excused,
  log, sanction, appeal, moderator, carried, services, pending

Identity == INSTANCE Identities
Agent == INSTANCE RealmAgent
Ingest == INSTANCE CompetitiveIngest
Support == INSTANCE Tickets
Filed == INSTANCE PlayerRequests
Staff == INSTANCE Moderation

(* None stands for a row that is not there; ids of providers and credentials differ. *)
IdentityAssumed ==
  /\ MaxIdentities \in Nat \ {0} /\ MaxTickets \in Nat /\ MaxCount \in Nat
  /\ None \notin [identity : Identity!Ids, primary : BOOLEAN] /\ None \notin Sessions
  /\ None \notin [identity : Identity!Ids, count : Identity!Counts]
  /\ Users \cap Keys = {}

(* The table "allowed" of agent.go: every setting has lines, no two share one.     *)
TableOfSettings ==
  /\ KeysOf \in [Settings -> SUBSET Lines] /\ None \notin Values
  /\ \A s \in Settings : KeysOf[s] # {}
  /\ \A s, t \in Settings : s # t => KeysOf[s] \cap KeysOf[t] = {}

SupportAssumed ==
  None \notin Support!Ticket /\ None \notin Support!Statuses /\ MaxReplies \in Nat \ {0}

FiledAssumed ==
  /\ IsFiniteSet(Forms) /\ IsFiniteSet(Clerks) /\ KindOf \in [Subjects -> Filed!Kinds]
  /\ None \notin Subjects /\ None \notin Filed!Form

IngestAssumed == Default \subseteq Ingest!Kills

NoneApart == None \notin Staff!Entry \cup {"active", "lifted"}

ASSUME PortalAssumption ==
  /\ IdentityAssumed /\ TableOfSettings /\ IngestAssumed
  /\ SupportAssumed /\ FiledAssumed /\ NoneApart

identityVars ==
  <<made, member, session, ticket, drawn, provider, passkey, asked, request>>
agentVars == <<conf, backups, profile, audit, call, settled, lost>>
ingestVars == <<claimed, attempts, kills, ranked, admitted, acked, worker>>
supportVars == <<support, thread, logged, agent>>
filedVars == <<form, clerk, recruiting, excused>>
staffVars == <<log, sanction, appeal, moderator, carried, services, pending>>

(* Every part but the one of the behaviour stays as it is. *)
Others ==
  /\ UNCHANGED part
  /\ IF part = "events" THEN TRUE ELSE UNCHANGED vars
  /\ IF part = "identities" THEN TRUE ELSE UNCHANGED identityVars
  /\ IF part = "agent" THEN TRUE ELSE UNCHANGED agentVars
  /\ IF part = "ingest" THEN TRUE ELSE UNCHANGED ingestVars
  /\ IF part = "tickets" THEN TRUE ELSE UNCHANGED supportVars
  /\ IF part = "requests" THEN TRUE ELSE UNCHANGED filedVars
  /\ IF part = "moderation" THEN TRUE ELSE UNCHANGED staffVars

(* A passkey, or a provider, that was added in an earlier session *)
Earlier ==
  /\ made = 1 /\ drawn = 0 /\ ticket = {}
  /\ \E n \in Names : member = [m \in Names |->
       IF m = n THEN [identity |-> 1, primary |-> TRUE] ELSE None]
  /\ session = [s \in Sessions |-> None] /\ request = [r \in Requests |-> Identity!Idle]
  /\ \/ /\ passkey = [k \in Keys |-> [identity |-> 1, count |-> 0]]
        /\ provider = [u \in Users |-> None] /\ asked = {<<k, 1>> : k \in Keys}
     \/ /\ passkey = [k \in Keys |-> None]
        /\ \E v \in Users : /\ provider = [u \in Users |-> IF u = v THEN 1 ELSE None]
                             /\ asked = {<<v, 1>>}

PortalInit ==
  /\ part \in Parts
  /\ Init /\ (part # "events" => event = CHOOSE e \in Event : TRUE)
  /\ Identity!Init \/ (part = "identities" /\ Earlier)
  /\ Agent!Init
  /\ part # "agent" => conf = Agent!NoFile /\ profile = CHOOSE p \in Agent!Profiles : TRUE
  /\ Ingest!Init /\ Support!Init /\ Filed!Init /\ Staff!Init

PortalNext ==
  \/ part = "events" /\ Next /\ Others
  \/ part = "identities" /\ Identity!Next /\ Others
  \/ part = "agent" /\ Agent!Next /\ Others
  \/ part = "ingest" /\ Ingest!Next /\ Others
  \/ part = "tickets" /\ Support!Next /\ Others
  \/ part = "requests" /\ Filed!Next /\ Others
  \/ part = "moderation" /\ Staff!Next /\ Others

allvars ==
  <<part, vars, identityVars, agentVars, ingestVars, supportVars, filedVars, staffVars>>

PortalSpec == PortalInit /\ [][PortalNext]_allvars

--------------------------------------------------------------------------------
AllTypesOK ==
  /\ part = "events" => TypeOK
  /\ part = "identities" => Identity!TypeOK
  /\ part = "agent" => Agent!TypeOK
  /\ part = "ingest" => Ingest!TypeOK
  /\ part = "tickets" => Support!TypeOK
  /\ part = "requests" => Filed!TypeOK
  /\ part = "moderation" => Staff!TypeOK

(* Events.tla: registration sells no place twice (eventRegistrationAction), and    *)
(* nobody is paid twice or by halves (rewardEventAccount).                         *)
EventsKept == part = "events" => Capacity /\ PaidOnce

(* Identities.tla: one primary account for each identity under concurrent link,    *)
(* promote and unlink (identity.go); a provider or passkey signs in to whoever     *)
(* added it (oauth.go, passkeys.go).                                               *)
IdentitiesKept == part = "identities" => Identity!OnePrimary /\ Identity!AddedByOwner

(* What the portal's tables say of work done elsewhere, or in several statements,   *)
(* is true of it: results are stored whole and once (competitive_ingest.go), no     *)
(* configuration is lost and the audit names its backup (agent.go), a ticket is     *)
(* stamped while it is over (tickets.go), the forms that are open are those the      *)
(* count allows (transfers.go, privacy.go, recruitment.go), and a sanction stands on *)
(* a command the realm carried out (admin.go, moderation_cases.go).                 *)
RecordsTrue ==
  /\ part = "ingest" => Ingest!IngestedOnce
  /\ part = "agent" => Agent!NothingLost /\ Agent!AuditRecoverable
  /\ part = "tickets" => Support!ResolvedStamped
  /\ part = "requests" => Filed!FewOpen /\ Filed!StampsTrue
  /\ part = "moderation" => Staff!SanctionsReal

(* Steps: a passkey's counter never falls (passkeyAuthenticationFinish), credits    *)
(* are granted only while attendance is noted, at the prize of that moment           *)
(* (rewardEventAccount).                                                            *)
StepsKept == Identity!CounterNeverFalls /\ PaidForAttendance
================================================================================
