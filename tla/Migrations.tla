------------------------------ MODULE Migrations -------------------------------
(* The portal's schema: Migrate (src/internal/store/store.go) brings one auth *)
(* database from nothing to version 42 under a MySQL named lock and records    *)
(* each version in portal_schema_migrations; Open seeds the catalog after it,  *)
(* Connect only looks whether the schema is current.  Several processes do     *)
(* this at once.  A process may be interrupted between any two statements, and *)
(* the connection that holds the lock may be lost without the process noticing,*)
(* because database/sql then takes another one from its pool.                  *)
(*                                                                             *)
(* Statements of one version that can be repeated and stand next to each other *)
(* are one block; a statement that cannot be repeated is a block of its own.   *)
EXTENDS Naturals, Sequences, FiniteSetsExt

CONSTANTS
  Procs,        \* processes that open the database
  Mode,         \* [Procs -> {"migrate", "open", "connect"}]: how each opens it
  Services,     \* sequence: the products of SeedDefaultServices
  Sets,         \* sequence: the packages of SeedDefaultCatalog
  Bare,         \* services without contents
  Unresolved,   \* packages whose items the world database does not have
  None,         \* nobody holds the lock
  MaxCrashes,   \* bound: interrupted processes
  MaxLosses     \* bound: connections lost unnoticed

Last == 42
Versions == 1 .. Last
Seeds == Services \o Sets
Products == {Seeds[k] : k \in DOMAIN Seeds}

ASSUME MigrationsAssumption ==
  /\ Mode \in [Procs -> {"migrate", "open", "connect"}]
  /\ None \notin Procs /\ \A n \in 0 .. Last : None # 1 .. n
  /\ Services \in Seq({Services[k] : k \in DOMAIN Services}) /\ Len(Services) > 0
  /\ Sets \in Seq({Sets[k] : k \in DOMAIN Sets}) /\ Len(Sets) > 0
  /\ \A j, k \in DOMAIN Seeds : Seeds[j] = Seeds[k] => j = k
  /\ MaxCrashes \in Nat /\ MaxLosses \in Nat

--------------------------------------------------------------------------------
(* The script.  Create: CREATE TABLE IF NOT EXISTS.  Ensure: ensureColumn,     *)
(* ensureIndex, ensureUniqueIndex, MODIFY COLUMN and backfills, which may be   *)
(* repeated.  Checked: an index created after a look at information_schema.    *)
(* Once: a bare ADD COLUMN or CREATE INDEX, an error when it is there already. *)

Create(tables) == [op |-> "create", on |-> tables]
Ensure(tables) == [op |-> "ensure", on |-> tables]
Checked(table) == [op |-> "checked", on |-> {table}]
Once(table) == [op |-> "once", on |-> {table}]

BaselineTables ==
  Create({"competitive_events", "sessions", "account_security", "wallets", "products",
          "product_items", "orders", "order_items", "order_steps", "credit_ledger",
          "payment_events", "moderation_log", "command_log", "support_tickets",
          "password_resets", "email_verifications", "settings", "news", "coupons",
          "coupon_uses", "character_services", "admin_audit", "daily_rewards",
          "vote_rewards", "referrals", "raid_kills"})

BaselineColumns ==
  <<Ensure({"settings"}),
    Ensure({"products", "orders", "moderation_log", "command_log", "support_tickets",
            "character_services", "news", "sessions"}),
    Checked("products")>>

FirstFeatures ==      \* versions 2 to 6
  << <<Create({"vote_sites", "vote_clicks", "vote_events"})>>,
     <<Ensure({"email_verifications"})>>,
     <<Create({"notifications"})>>,
     <<Create({"staff_roles"})>>,
     <<Create({"ticket_messages"}), Ensure({"ticket_messages", "support_tickets"})>> >>

Publishing ==         \* versions 7 to 12
  << <<Create({"downloads"})>>,
     <<Ensure({"raid_kills"}), Create({"raid_members", "pvp_matches", "pvp_match_members"}),
       Ensure({"raid_kills"})>>,
     <<Ensure({"account_security"}), Create({"totp_recovery_codes"})>>,
     <<Ensure({"sessions"})>>,
     <<Create({"privacy_requests"})>>,
     <<Ensure({"news"}), Create({"news_revisions"}), Ensure({"news"})>> >>

SupportAndShop ==     \* versions 13 to 17
  << <<Ensure({"support_tickets"}), Create({"ticket_events", "canned_replies"})>>,
     <<Create({"pages", "page_revisions"})>>,
     <<Create({"events"})>>,
     <<Create({"transfer_requests"})>>,
     <<Create({"credit_packages", "gifts"})>> >>

Community ==          \* versions 18 to 23
  << <<Create({"gift_codes", "gift_code_uses"})>>,
     <<Ensure({"staff_roles"})>>,
     <<Create({"community_issues", "community_issue_votes", "community_issue_comments"})>>,
     <<Create({"guild_recruitment", "guild_applications"})>>,
     <<Create({"arena_seasons", "arena_snapshots"})>>,
     <<Create({"resources"})>> >>

AuditAndIdentity ==   \* versions 24 to 26
  << <<Create({"character_privacy"})>>,
     <<Create({"payment_transactions", "payment_webhooks"})>>,
     <<Once("admin_audit"), Once("admin_audit"), Once("sessions"), Once("sessions"),
       Create({"identities", "identity_accounts", "wishlist", "audit_filters",
               "battleground_matches", "battleground_members", "ranking_exclusions"})>> >>

SignIn ==             \* versions 27 and 28
  << <<Create({"identity_providers", "oauth_states"})>>,
     <<Create({"passkey_credentials", "passkey_challenges", "media_assets",
               "navigation_items"})>> >>

RankingAndShop ==     \* versions 29 and 30
  << <<Once("raid_kills"), Once("raid_kills"), Create({"raid_eligibility_rules"})>>,
     <<Ensure({"products", "orders", "coupons"}),
       Create({"product_variants", "product_variant_items", "shop_collections",
               "collection_products", "bundle_templates", "bundle_template_items",
               "stock_movements", "coupon_events"})>> >>

Retention ==          \* versions 31 to 34
  << <<Create({"external_reward_events", "referral_milestones", "referral_milestone_claims",
               "vote_campaigns", "vote_campaign_winners"})>>,
     <<Create({"sanctions", "sanction_notes", "sanction_appeals"})>>,
     <<Ensure({"pvp_matches"}), Create({"raid_attempts", "raid_attempt_members"}),
       Ensure({"pvp_matches"})>>,
     <<Create({"moderation_evidence"})>> >>

Operations ==         \* versions 35 to 42
  << <<Create({"missions", "mission_claims"})>>,
     <<Ensure({"guild_recruitment"})>>,
     <<Ensure({"downloads"})>>,
     <<Create({"forced_password_resets"})>>,
     <<Ensure({"downloads"}), Create({"launcher_patches"})>>,
     <<Ensure({"events"}), Create({"event_registrations", "event_reward_grants"})>>,
     <<Ensure({"vote_events"})>>,
     <<Ensure({"vote_campaigns"})>> >>

Script == << <<BaselineTables>> \o BaselineColumns >> \o FirstFeatures \o Publishing
            \o SupportAndShop \o Community \o AuditAndIdentity \o SignIn
            \o RankingAndShop \o Retention \o Operations

Blocks == {at \in Versions \X (1 .. 9) : at[2] <= Len(Script[at[1]])}
Block(at) == Script[at[1]][at[2]]
Tables == UNION {Block(at).on : at \in Blocks}

(* The blocks that create a table. *)
Creators == [table \in Tables |->
  {at \in Blocks : Block(at).op = "create" /\ table \in Block(at).on}]

--------------------------------------------------------------------------------
VARIABLES
  ledger,   \* versions in portal_schema_migrations; None before the table exists
  done,     \* [Versions -> Nat]: blocks of each version that are in effect
  lock,     \* the process whose connection holds the named lock
  proc,     \* [Procs -> Process]
  catalog,  \* [Products -> {"absent", "listed", "filled"}]
  crashes, losses

vars == <<ledger, done, lock, proc, catalog, crashes, losses>>

Stages == {"open", "locking", "reading", "running", "creating", "seeding",
           "inserting", "filling", "ready", "failed"}

(* version: the version being applied; block: its next block; seed: the next seed *)
Process == [stage : Stages, version : 0 .. Last + 1, block : 0 .. 9,
            seed : 0 .. Len(Seeds) + 1]

Fresh == [stage |-> "open", version |-> 0, block |-> 0, seed |-> 0]

TypeOK ==
  /\ ledger \in (SUBSET Versions) \cup {None}
  /\ done \in [Versions -> 0 .. 9] /\ \A v \in Versions : done[v] <= Len(Script[v])
  /\ lock \in Procs \cup {None}
  /\ proc \in [Procs -> Process]
  /\ \A p \in Procs : proc[p].stage \in {"seeding", "inserting", "filling"} =>
       proc[p].seed \in DOMAIN Seeds
  /\ catalog \in [Products -> {"absent", "listed", "filled"}]
  /\ crashes \in 0 .. MaxCrashes /\ losses \in 0 .. MaxLosses

Init ==
  /\ ledger = None
  /\ done = [v \in Versions |-> 0]
  /\ lock = None
  /\ proc = [p \in Procs |-> Fresh]
  /\ catalog = [s \in Products |-> "absent"]
  /\ crashes = 0 /\ losses = 0

InEffect(v, i) == done[v] >= i

Exists(table) == \E at \in Creators[table] : InEffect(at[1], at[2])

(* COALESCE(MAX(version), 0) *)
MaxVersion(S) == Max(S \cup {0})

(* The process gives up; its deferred RELEASE_LOCK runs on the connection it has. *)
Fail(p) ==
  /\ proc' = [proc EXCEPT ![p] = [Fresh EXCEPT !.stage = "failed"]]
  /\ lock' = IF lock = p THEN None ELSE lock
  /\ UNCHANGED <<ledger, done, catalog>>

--------------------------------------------------------------------------------
(* Migrate *)

Goto(p, stage) == proc' = [proc EXCEPT ![p].stage = stage]

CreateLedger(p) ==
  /\ proc[p].stage = "open" /\ Mode[p] # "connect"
  /\ ledger' = IF ledger = None THEN {} ELSE ledger
  /\ Goto(p, "locking")
  /\ UNCHANGED <<done, lock, catalog>>

GetLock(p) ==
  /\ proc[p].stage = "locking" /\ lock = None
  /\ lock' = p /\ Goto(p, "reading")
  /\ UNCHANGED <<ledger, done, catalog>>

(* GET_LOCK waits ten seconds. *)
LockTimeout(p) ==
  /\ proc[p].stage = "locking" /\ lock # None
  /\ Fail(p)

ReadVersion(p) ==
  /\ proc[p].stage = "reading"
  /\ proc' = [proc EXCEPT ![p].stage = "running", ![p].version = MaxVersion(ledger) + 1,
                          ![p].block = 1]
  /\ UNCHANGED <<ledger, done, lock, catalog>>

Advance(p) == proc' = [proc EXCEPT ![p].stage = "running", ![p].block = @ + 1]

(* What a block needs in order to succeed: its tables, and that a statement     *)
(* which cannot be repeated is executed for the first time.                     *)
CreatesOnly(b) == b.op = "create"   \* mutant: ensureColumn takes an existing column for an error

Repeatable(b) == b.op \in {"create", "ensure"}

Succeeds(v, i) ==
  LET b == Script[v][i]
  IN  /\ b.op = "create" \/ \A table \in b.on : Exists(table)
      /\ Repeatable(b) \/ ~InEffect(v, i)

Execute(p) ==
  LET v == proc[p].version
      i == proc[p].block
  IN  IF Succeeds(v, i)
        THEN /\ done' = [done EXCEPT ![v] = IF InEffect(v, i) THEN @ ELSE i]
             /\ Advance(p)
             /\ UNCHANGED <<ledger, lock, catalog>>
        ELSE Fail(p)

AtBlock(p) ==
  /\ proc[p].stage = "running" /\ proc[p].version \in Versions
  /\ proc[p].block <= Len(Script[proc[p].version])

Current(p) == Script[proc[p].version][proc[p].block]

Statement(p) ==
  /\ AtBlock(p) /\ Current(p).op # "checked"
  /\ Execute(p)

(* The look at information_schema and the CREATE UNIQUE INDEX are two statements. *)
LookForIndex(p) ==
  /\ AtBlock(p) /\ Current(p).op = "checked"
  /\ IF InEffect(proc[p].version, proc[p].block) THEN Advance(p) ELSE Goto(p, "creating")
  /\ UNCHANGED <<ledger, done, lock, catalog>>

CreateIndex(p) ==
  /\ proc[p].stage = "creating"
  /\ Execute(p)

(* Mutant: the version is recorded before its last block. *)
RecordEarly(p) ==
  LET v == proc[p].version
  IN  /\ proc[p].stage = "running" /\ v \in Versions /\ proc[p].block >= Len(Script[v])
      /\ ledger' = ledger \cup {v}
      /\ proc' = [proc EXCEPT ![p].version = v + 1, ![p].block = 1]
      /\ UNCHANGED <<done, lock, catalog>>

(* INSERT INTO portal_schema_migrations: the version is the primary key. *)
Record(p) ==
  LET v == proc[p].version
  IN  /\ proc[p].stage = "running" /\ v \in Versions /\ proc[p].block > Len(Script[v])
      /\ IF v \in ledger
           THEN Fail(p)
           ELSE /\ ledger' = ledger \cup {v}
                /\ proc' = [proc EXCEPT ![p].version = v + 1, ![p].block = 1]
                /\ UNCHANGED <<done, lock, catalog>>

(* Retention and expired sessions (errors ignored), then the deferred RELEASE_LOCK. *)
Release(p) ==
  /\ proc[p].stage = "running" /\ proc[p].version = Last + 1
  /\ lock' = IF lock = p THEN None ELSE lock
  /\ proc' = [proc EXCEPT ![p] =
       IF Mode[p] = "open" THEN [Fresh EXCEPT !.stage = "seeding", !.seed = 1]
                           ELSE [Fresh EXCEPT !.stage = "ready"]]
  /\ UNCHANGED <<ledger, done, catalog>>

--------------------------------------------------------------------------------
(* RequireCurrentSchema *)

(* Mutant: a schema that exists is taken for current. *)
RequireTable(p) ==
  /\ proc[p].stage = "open" /\ Mode[p] = "connect"
  /\ Goto(p, IF ledger # None THEN "ready" ELSE "failed")
  /\ UNCHANGED <<ledger, done, lock, catalog>>

Require(p) ==
  /\ proc[p].stage = "open" /\ Mode[p] = "connect"
  /\ IF ledger # None /\ MaxVersion(ledger) = Last
       THEN Goto(p, "ready")
       ELSE proc' = [proc EXCEPT ![p] = [Fresh EXCEPT !.stage = "failed"]]
  /\ UNCHANGED <<ledger, done, lock, catalog>>

--------------------------------------------------------------------------------
(* SeedDefaultServices, SeedDefaultCatalog: no lock is held; a product is put on *)
(* sale by one statement and given its contents by a transaction of its own.     *)

Seed(p) == Seeds[proc[p].seed]
IsService(k) == k <= Len(Services)

(* Mutant: the list of seeds has no end. *)
SeedWithoutEnd(p) == proc' = [proc EXCEPT ![p].seed = @ + 1, ![p].stage = "seeding"]

NextSeed(p) ==
  proc' = [proc EXCEPT ![p].seed = @ + 1,
             ![p].stage = IF proc[p].seed = Len(Seeds) THEN "ready" ELSE "seeding"]

(* A seed that cannot be finished is a warning: the services give way to the     *)
(* catalog, the catalog to the start of the server.                              *)
GiveUp(p) ==
  proc' = [proc EXCEPT ![p].seed = Len(Services) + 1,
             ![p].stage = IF IsService(proc[p].seed) THEN "seeding" ELSE "ready"]

(* resolveSet: the world database does not hold every item of the package.       *)
SkipSet(p) ==
  /\ proc[p].stage = "seeding" /\ Seed(p) \in Unresolved
  /\ NextSeed(p)
  /\ UNCHANGED <<ledger, done, lock, catalog>>

(* A service is upserted; a set of the catalog is looked for, then updated or    *)
(* inserted under the unique seed_key.                                           *)
Upsert(p) ==
  /\ proc[p].stage = "seeding" /\ IsService(proc[p].seed)
  /\ catalog' = [catalog EXCEPT ![Seed(p)] = IF @ = "absent" THEN "listed" ELSE @]
  /\ IF Seed(p) \in Bare THEN NextSeed(p) ELSE Goto(p, "filling")
  /\ UNCHANGED <<ledger, done, lock>>

FindProduct(p) ==
  /\ proc[p].stage = "seeding" /\ ~IsService(proc[p].seed) /\ Seed(p) \notin Unresolved
  /\ Goto(p, IF catalog[Seed(p)] = "absent" THEN "inserting" ELSE "filling")
  /\ UNCHANGED <<ledger, done, lock, catalog>>

InsertProduct(p) ==
  /\ proc[p].stage = "inserting"
  /\ IF catalog[Seed(p)] = "absent"
       THEN catalog' = [catalog EXCEPT ![Seed(p)] = "listed"] /\ Goto(p, "filling")
       ELSE GiveUp(p) /\ UNCHANGED catalog
  /\ UNCHANGED <<ledger, done, lock>>

(* DELETE and INSERT of the contents in one transaction, which may fail.         *)
Fill(p) ==
  /\ proc[p].stage = "filling"
  /\ \/ catalog' = [catalog EXCEPT ![Seed(p)] = "filled"] /\ NextSeed(p)
     \/ GiveUp(p) /\ UNCHANGED catalog
  /\ UNCHANGED <<ledger, done, lock>>

--------------------------------------------------------------------------------
(* Interruptions *)

Working(p) == proc[p].stage \notin {"ready", "failed"}

(* The process is killed, its context ends or a statement in flight loses its    *)
(* connection, before or after the statement took effect; the server ends the    *)
(* session and with it the lock.                                                 *)
Interrupt(p) ==
  /\ Working(p) /\ crashes < MaxCrashes
  /\ crashes' = crashes + 1
  /\ Fail(p)
  /\ UNCHANGED losses

(* The connection is lost while no statement is in flight: the server frees the  *)
(* lock, the next statement silently runs on another connection.                 *)
LoseConnection(p) ==
  /\ lock = p /\ losses < MaxLosses
  /\ losses' = losses + 1
  /\ lock' = None
  /\ UNCHANGED <<ledger, done, proc, catalog, crashes>>

(* The deployment starts a failed process again. *)
Restart(p) ==
  /\ proc[p].stage = "failed"
  /\ proc' = [proc EXCEPT ![p] = Fresh]
  /\ UNCHANGED <<ledger, done, lock, catalog>>

Migrate(p) ==
  /\ \/ CreateLedger(p) \/ GetLock(p) \/ LockTimeout(p) \/ ReadVersion(p)
     \/ Statement(p) \/ LookForIndex(p) \/ CreateIndex(p) \/ Record(p) \/ Release(p)
     \/ Restart(p)
  /\ UNCHANGED <<crashes, losses>>

SeedDefaults(p) ==
  /\ SkipSet(p) \/ Upsert(p) \/ FindProduct(p) \/ InsertProduct(p) \/ Fill(p)
  /\ UNCHANGED <<crashes, losses>>

RequireCurrentSchema(p) == Require(p) /\ UNCHANGED <<crashes, losses>>

Next ==
  \E p \in Procs : \/ Migrate(p) \/ SeedDefaults(p) \/ RequireCurrentSchema(p)
                    \/ Interrupt(p) \/ LoseConnection(p)

Migrating == {p \in Procs : Mode[p] # "connect"}

Spec == Init /\ [][Next]_vars /\ \A p \in Migrating : WF_vars(Migrate(p))

--------------------------------------------------------------------------------
(* Properties *)

(* A version in the ledger is wholly in effect, and so is every version before it: *)
(* what a later start reads as MAX(version) never hides a statement that did not   *)
(* run, whatever was interrupted and even when the lock was lost and two processes *)
(* migrate side by side.                                                           *)
LedgerTrue ==
  ledger # None =>
    \A v \in ledger : InEffect(v, Len(Script[v])) /\ (v > 1 => v - 1 \in ledger)

(* A process that is ready to serve stands on the complete schema: every block of  *)
(* every version is in effect.                                                     *)
ServesCurrent ==
  \A p \in Procs : proc[p].stage = "ready" =>
    \A v \in Versions : InEffect(v, Len(Script[v]))

(* Between statements that cannot be repeated, and after the last of them until    *)
(* the version is recorded: a process that starts here can never finish.           *)
Wedged ==
  /\ crashes > 0
  /\ \E v \in Versions : \E i \in 1 .. done[v] :
       Script[v][i].op = "once" /\ v \notin ledger

(* Migration comes to an end: the schema becomes current, unless a process was     *)
(* interrupted inside a version with a statement that cannot be repeated.  Losing  *)
(* the lock alone stops nothing: of two processes side by side one goes on.        *)
ComesToAnEnd == <>[](ledger = Versions \/ Wedged)
================================================================================
