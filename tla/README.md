# Verification of the Azeroth portal

TLA+ models of the parts of the portal where several actors work on the same
rows: the loop that fulfils shop orders through the worldserver, the purchase
transaction, the credits bought with Stripe, the rewards that credit a wallet for
free, realm events, accounts and their sessions, linked identities, schema
migration, the realm agent, and the smaller protocols between players and staff.
TLC checks every model on small instances; TLAPS proves every safety property of
the passing runs for every instance.

The portal is a Go server (`main.go`) on the MySQL databases of an AzerothCore
realm. Almost all state that matters lives in the `portal_*` tables of the auth
database (`internal/store/store.go`), so "state" below means rows, "operation"
means an HTTP handler or the delivery loop, and the interleaving that matters is
that of statements and transactions of different requests, processes, staff and
outside services (Stripe, the worldserver's SOAP console, voting sites, OAuth
providers, the agent on the realm's host).

## 1. Inventory

| Component | State | Operations | Hard behaviour | What makes it correct |
|---|---|---|---|---|
| Order delivery (`delivery.go`, `soap/client.go`) | `portal_orders.status`, `portal_order_steps` (status, attempts), the loop's position | claim, plan, run a step, review, finish; staff retry, resolve, refund; start-up sweep | several processes poll one queue; SOAP answers are lost or late; a 15 s deadline; crashes; staff act on an order in flight | nothing is executed twice unless staff said so; the ledger of steps is true; delivered means fulfilled; refunded means nothing fulfilled; no order is forgotten |
| Shop (`server.go` purchase, `shop_admin.go`, `merchandising.go`) | `portal_products` (stock, sold), `portal_coupons`, `portal_coupon_uses`, `portal_wallets`, `portal_credit_ledger`, `portal_orders` | purchase, product form, archive, stock adjustment, coupon disable, credit grant, refund | one transaction of many statements under row locks and a read view fixed half-way; a second connection inside the transaction | credits balance; limits, stock and coupons still hold at the commit; requests never wait in a circle |
| Stripe billing (`billing.go`) | `portal_payment_webhooks`, `_events`, `_transactions`, wallet | webhook, reversal, staff refund | repeated, reordered and concurrent events; a crash between credit and mark | one credit per payment; nothing taken or given back twice; success is answered only for what took effect |
| Rewards (`votes.go`, `gift_codes.go`, `dashboard.go`, `reward_progress.go`, `retention.go`) | one table of claims per channel, wallet | callbacks, redeem, claim, draw | repeated callbacks, parallel claims, midnight, a draw while votes arrive | one credit per event, code, day, month or milestone; a draw is what the campaign's votes say, and final |
| Realm events (`events.go`) | the event, registrations, grants, wallet, notice | register, cancel, attendance, edit, reward several accounts | the event is locked, the places counted and the row written in three statements; capacity and prize change; overlapping reward requests; a transaction of many lost half-way | no place is sold twice; one reward per attendant, at the prize of the moment |
| Accounts (`setup.go`, `server.go`, `security.go`, `bootstrap.go`) | accounts, access, sessions, authenticator, recovery codes | set up, register, log in, step up, change password and e-mail, revoke | a login reads the account, the forced reset and the code in separate statements; codes used in parallel; two browsers that set up | sessions stand for the present password; a code works once; one administrator |
| Recovery and e-mail (`recovery.go`, `email_verification.go`) | reset and forced-reset rows, one verification row per account | request, force, confirm, resend, verify | one row for activation and e-mail change; tokens renewed and expired; a reset while a login is under way | a reset ends all sessions; an address is set only by a letter sent to it |
| Identities (`identity.go`, `oauth.go`, `passkeys.go`) | identities, linked accounts, providers, passkeys, one-time tickets | link, switch, promote, unlink, start and finish a flow | the check for a primary account is outside the transaction; the browser comes back with another session; counters read before they are written | one primary account each; a provider or passkey belongs to whoever added it; counters never fall |
| Schema migration (`store.go`) | `portal_schema_migrations`, the tables, the named lock | start of every process, seeds | the lock is held by one connection that may be lost unnoticed; DDL is not transactional; some statements cannot be repeated | the ledger never claims more than is in effect; only a complete schema is served; a restart finishes the work |
| Realm agent (`realmagent/agent.go`, `realm_config.go`) | the configuration file, its backups, the displayed profile, the audit | get, apply | the portal stops waiting while the agent writes; crash between backup, file and answer; hand edits | no configuration is lost; the audit names a backup that has what was replaced |
| Competitive ingest (`competitive_ingest.go`) | claims of events, kills, attempts, ladders | ingest | repeated and concurrent deliveries; a crash between claim and rows | a result is stored whole, once, or can be delivered again |
| Tickets (`tickets.go`) | status, resolution stamp, thread | reply, player reply, staff update | staff decide on a row they read before | stamped exactly while it is over |
| Transfers, privacy, recruitment (`transfers.go`, `privacy.go`, `recruitment.go`) | one row with a status each, a switch | file, cancel, decide | count and insert apart; two clerks decide at once | no more open requests than the count admits; a decision is final and stamped |
| Moderation, character services (`admin.go`, `moderation_cases.go`, `character_services.go`) | the log, sanctions, appeals, paid services | command, sanction, appeal, restore | the realm may not answer; the command and its row are not one transaction | a sanction stands on a command that was carried out |
| Content, media, downloads, rankings, console, mock mode, front end | rows without a protocol | CRUD, queries | none between actors | - |

How they interact: the shop creates the orders the delivery loop fulfils and
shares the refund with it; purchase, refund, billing, grants and every reward
write the same wallet and ledger rows; every handler takes its connections from
one pool of ten; a session of `Accounts` is what identities switch and what every
other handler starts from; a registration with a recruiter's name and verified
votes feed the rewards; staff act on all of it through the console. `PROJECT.json` lists each component with its
status and every hazard with its line.

## 2. Modules

| Module | Models | How it corresponds |
|---|---|---|
| `OrderLifecycle` | what the shop promises about an order | abstract: status, fulfilled steps, orders taken from their fulfiller ("contested") |
| `OrderDelivery` | `delivery.go` | one action per statement, transaction or realm call of the loop; staff handlers are one transaction each; `Statement(w, done, ack)` separates what the database did from what the loop saw |
| `Shop` | `purchase`, `applyCoupon`, product and stock administration, the refund's money and stock | a purchase is its locks and reads, then the commit; what it writes is invisible before that, so its writes are one action; what happens to an order afterwards is an instance of `OrderLifecycle` |
| `StripeBilling` | `billingWebhook`, `applyStripeReversal`, `adminPaymentRefund` | one action per statement or transaction of a webhook request; Stripe is external: it creates events in the order of a charge's life and sends any of them any number of times |
| `Rewards` | the seven reward channels, the draw of a voting campaign, disabling a site or code | every handler is look, insert, commit: what it looks at and under which lock depends on the channel (`ParentRows`, `Grants`); a table of claims per channel is a kind of row in `claims` |
| `Events` | registration, cancellation, attendance, the event form, `adminEventRewards` | a handler keeps what it read between the event's lock, the count and the write; a reward request is one transaction per account; `LockForReward` and `LockRegistration` wait for the row locks others hold |
| `Accounts` | setup, registration, login, sessions, `/api/security/*`, resets, verification, `bootstrap-account` | `Read` is what a handler looks at outside its transaction; `Overtaken` marks the requests that looked before a password change or forced reset and never look again |
| `Identities` | linking, switching, promoting, unlinking; OAuth and passkey flows | `ticket` is the set of one-time rows, consumed by select-for-update and delete; one action per statement in between |
| `Migrations` | `Migrate`, `Open`, `Connect`, the seeds | `Script` is the whole list of 42 versions as blocks (`Create`, `Ensure`, `Checked`, `Once`: what may be repeated and what may not); the named lock belongs to a connection |
| `RealmAgent` | `agent.go` get and apply, `adminRealmConfig` | one call is read, backup, write, audit; the mutex, the portal's time-out and hand edits |
| `CompetitiveIngest` | `ingestRaidKill`, `ingestPvPMatch`, `ingestBattlegroundMatch`, the eligibility rules | validate, claim, write, commit; a kill may be ranked (`MayRank`) only if the realm's rules admit it, or the default ones where they cannot be read, and never without a guild id or a raid size (`Nameless`) |
| `Tickets`, `PlayerRequests`, `Moderation` | the protocols of players and staff | one small record per row, one action per statement |
| `Portal` | seven parts that share no state: `Events`, `Identities`, `RealmAgent`, `CompetitiveIngest`, `Tickets`, `PlayerRequests`, `Moderation` | `part` says which one a behaviour is about; it adds no behaviour, only one specification for all |
| `Totals` | `SELECT SUM(...)` | the sums that wallets and ledgers are compared with, as cardinalities |
| `MCOrderDelivery`, `MCShop`, `MCBilling`, `MCRewards`, `MCMigrations`, `MCAccounts`, `MCPortal` | - | constants for TLC |
| `OrderDeliveryProofs`, `ShopProofs`, `StripeBillingProofs`, `RewardsProofs`, `MigrationsProofs`, `AccountsProofs`, `PortalProofs`, `TotalsProofs` | - | theorems and lemmas |

`OrderDelivery` implements `OrderLifecycle` (property `KeepsLifecycle`, theorem
`ImplementsLifecycle`): a step is fulfilled when its ledger row says completed.
`Shop` uses the same `OrderLifecycle` for its orders, with a plan of one step,
and shows that purchase and refund fit it (`FollowsLifecycle`); this is how the
two modules compose.

Variables that start the history section of a module are read by properties
only. Definitions commented as mutants (`ClaimableInFlight`, `ProductUnlocked`,
`AnyGrant`, ...) are plausible bugs: put in the place of the definition that
follows them, each makes TLC find a violation of a property. `PROJECT.json` lists
one for each property; where a property is a conjunction of several promises
(`SessionsHonest`, `RecordsTrue`, ...) the others break its other conjuncts.

### Abstractions worth knowing

* An order's plan is a constant of the model. The code rebuilds it at each claim
  from `item_template`; what happens when a stack size changes in between is a
  listed hazard without a property.
* A realm call that fails may have been executed, may be executed later or never.
  The training step is a local transaction and is executed or not.
* MySQL runs at its default isolation: locking reads see the latest version and
  hold the row until the transaction ends, plain reads see the view fixed by the
  transaction's first plain read. A transaction is one action when nothing it
  decides on can change under it.
* Items, names, variants and gift recipients are reduced to what decides a price
  or a limit. Expiry dates of coupons are left out; disabling a coupon has the
  same effect at the same point.
* A payment has at most one dispute. A refund event is identified by the amount
  refunded so far, which Stripe never repeats.
* In `Rewards` portal and database share a clock and statements take no time. An
  instant, a day and a month are as long as the constants say. Votes of other
  accounts, codes and credits are members of small sets; the hashes of a draw are
  a fixed order of the votes (`Ticket`). Missions count verified votes; the other
  metrics count rows the portal only reads. `wallet` and `ledger` start at zero:
  what an account had before plays no part. A streak is counted in the latest
  `StreakRows` claims that are read back (365 in the code), so a longer one counts
  as 365 and pays the same day of the cycle every day.
* In `Shop` no order is contested: what staff may do to an order in flight is the
  subject of `OrderDelivery`.
* In `Accounts` a password is the number of times it was set, one recovery code
  stands for the ten of a set, and a mail is what a letter proves to have been
  received. In `Identities` a signature is genuine or the request ends: what is
  modelled is which rows it is checked against.
* In `Migrations` neighbouring statements of a version that may be repeated are one
  block, applied as a whole; a crash inside such a block leaves nothing a restart
  does not repeat. A statement that may not be repeated is a block of its own.
* A configuration is the values of the lines of one setting. The agent's temporary
  file and rename are one step; the file is never seen half-written.

## 3. Runs

| Run | Instance | Shows |
|---|---|---|
| `delivery_safety` | 2 processes, 1 order of a SOAP step and a training step, 1 staff intervention, 2 crashes, failing statements | at most one automatic execution, no blind replay, one fulfiller, a true ledger (`OutcomesTrue`: completed steps were executed, delivered orders fulfilled, refunded ones not, final states and notices final), the refinement |
| `delivery_queue` | 1 process, 2 orders, 1 crash, 1 intervention, weak fairness of the loop | `QueueServed`: queued orders are claimed whatever becomes of the others, and the loop always returns to the queue |
| `delivery_stuck` | 1 order | the code does not do what README.md:332 says (section 5) |
| `shop_safety` | 3 purchases of one product by 2 accounts, one coupon with one use, 2 forms (an account limit; one unit in stock), 2 staff edits, refunds, delivery | stock, coupon, account limit, life cycle |
| `shop_crossing` | 3 purchases of two products that contend pairwise for a product, a coupon and a wallet, 1 staff edit or grant, refunds, 4 connections | money (`Balanced`: two purchases, or a purchase and a refund, meet at one wallet), and every purchase ends |
| `shop_coupon` | 2 products | a defect (section 5) |
| `billing_safety` | 1 payment of 2 units for 3 credits, 2 concurrent requests, 4 Stripe events, 1 failure, 1 debit, 1 staff refund | credits, answers, what is taken back |
| `billing_dispute` | the same | a defect (section 5) |
| `rewards` | 3 requests of 2 accounts in one network: one for any channel, one that repeats or contends with it, one more draw or vote; 3 days, 2 months, a campaign that ends on the third day with one winner, one code with one use, streaks counted in 1 row, 4 connections | claims are paid once and rightly, cooldowns, streaks and draws hold, answers stand, every request ends |
| `migrations` | all 42 versions, 2 processes that migrate, one that only connects, 1 interruption, 1 connection lost unnoticed, seeds of both kinds | the ledger is true, only a complete schema is served, migration ends |
| `accounts` | 2 accounts of one identity, 2 requests, 1 session row, 1 password change, 1 set of codes, 2 letters | what a session and a step-up prove, one use of a code, proven addresses, one administrator |
| `portal` | the seven parts, each with 2 concurrent requests, errors and crashes | places and rewards, identities, stored results, configuration, tickets, forms, moderation |

The bounds on counters (`MaxStaff`, `MaxCrashes`, `MaxEvents`, `MaxSpends`,
`MaxFailures`, `MaxRequests`, `MaxNow`, `MaxRecruits`, `MaxDisabled`, `MaxLosses`,
`MaxChanges`, `MaxIssued`, `MaxLetters`, `MaxIdentities`, `MaxTickets`, `MaxCount`,
`MaxReplies`) are guards. Two runs also have a state constraint, `Focused`, written
out in `MCAccounts` and `MCPortal`: it drops behaviours that mix tables which
nothing relates. In `accounts` a behaviour uses recovery codes, or letters, or
password changes and resets, of one account, with all sessions and logins of both
accounts. In `portal`, rewards are paid for an event with one place; passkeys and
providers are not mixed; a second ticket is drawn where only passkeys are at work;
one look at the file is in flight; character services and moderation are apart.
Neither run checks a liveness property, so no counterexample can hide behind it
as a stutter.

The bounds are enough for the interesting cases. Two processes are needed for a
sweep that hits a live loop, two steps for a failure between steps, two crashes
for a restart that meets another restart; one retry replays a step. That longer
histories change nothing is what the theorems say: they hold for any number of
orders, processes, steps, interventions and crashes. Two orders are needed for one
to block the queue of the other. For the shop, three purchases let two meet at the
coupon while the third holds the stock; prices 1 to 3 against wallets of 2 and 3
make refusals happen. One product suffices for what its row serialises (stock,
limits, its coupon); purchases that only share a wallet need two, as in
`shop_crossing`. For billing, three credits for two units make the share of
half a refund a fraction, and three events after the payment are a refund, a
dispute and its end. For the rewards, two requests race for one claim, and a third
lets a vote commit between two draws; three days hold a streak, a gap, a cooldown
and a change of the month; with streaks counted in one row, the second day of a
streak already reaches the limit that the code sets at 365; four connections are
one more than the three daily claims that may each want a second. For migrations, one lost connection puts two
processes side by side in the same version and one interruption stops one of them
at any block. For accounts and the portal's parts every property is about two
requests and what lies between their statements; a third party (staff, a clock, a
letter) acts at any time besides.

Deadlock is not checked where the system may rest (an idle loop, handled
requests, answered events, a served schema); in `accounts` it is. That nothing
gets stuck is stated instead by `QueueServed`, `PurchasesEnd`, `ClaimsEnd` and
`ComesToAnEnd`.

### Fairness

`OrderDelivery!FairSpec` assumes weak fairness of each process's loop and nothing
else. The loop's ticker fires every few seconds, SOAP calls end after the
client's 12 s and statements with the tick's 15 s context, and a stopped process
is restarted by its supervisor. Staff, the realm, deadlines and crashes are not
assumed to happen. `Shop!Spec` assumes weak fairness of each purchase: a free lock
and a free connection are granted and a handler runs on. A lock or connection
that is not free disables the action, so this does not assume away waiting in a
circle. `PurchasesEnd` needs more connections than purchases at work: with three
connections for three purchases of bundles TLC finds all three inside their
transactions, each waiting for its second connection in `loadBundleItems`; in the
program the requests then wait until their contexts end. `Rewards!Spec` assumes
only that some request goes on while any can; `ClaimsEnd` needs more connections
than daily claims at work, for the same reason. `Migrations!Spec` assumes weak
fairness of each migrating process, restart included (`docker-compose.yml` says
`restart: unless-stopped`); a process that only connects, crashes and lost
connections are not assumed to come. The others are checked for safety only.

## 4. Proofs

Each invariant and each step property that a passing run checks is the statement
of a theorem, proved from assumptions on the constants alone (in parentheses
below) and so for any number of orders, requests, accounts, processes, repetitions
and crashes. The properties are seldom inductive by themselves; this is what their
invariants say besides.

`OrderDeliveryProofs` (`PlanAssumption`, `NoOrderAssumption`, `BoundAssumption`):

* `TaskOK`: a loop that works holds an order and is at a step of its plan;
* `LedgerOK`: step rows exist only for placed orders and steps of their plan, and
  a step without a row was never attempted;
* `Progress`: a loop whose order is not disturbed has completed every step before
  the one it is at, and the attempt it is making is the one the ledger shows;
* `Attempt`: disturbed or not, an attempt that succeeded was executed;
* `FirstClaim`: an order that staff did not requeue was claimed at most once, and
  its holder has not attempted what is still ahead.

Exclusivity comes from the status alone: a claim needs `pending`, only the holder,
a sweep or staff leave `delivering`, and the latter two make the order
`disturbed`, which the properties exclude. Of `OutcomesTrue` (theorem `Outcomes`),
completed steps need `Attempt` and delivered orders `Progress`, as does
`NoBlindReplay`; `AutomaticAtMostOnce` needs `FirstClaim`. `ImplementsLifecycle`
maps each action to a step of `OrderLifecycle` or a stutter, using the invariant
for `Fulfil` and `Deliver`.

`ShopProofs` (`ShopAssumption`). What makes the checks of a purchase hold at its
commit is that each is about a row that stays locked: `Exclusive` (one holder per
product, coupon and wallet), then one part per check (`Priced`, `Funded`,
`LimitHeld`, `CouponRoom`), each kept because whoever could invalidate it needs
the same lock. `Tracked` (a product without a limit is known as such) makes
`SoldCounted` inductive; `StockHolds` adds that a refund is refused only where
`sold_count` is 0 for a product once sold without a limit. `ViewCurrent` is the
reason the coupon's limit survives an old view: it is fixed after the product's
lock was taken, so it holds all uses of the coupon for this product, and none is
added before the lock is given up. It says nothing of other products, which is the
defect of `shop_coupon`. `CreditsBalanced` is inductive over these parts: a commit
takes the price of exactly the orders it adds (`Funded`, `Priced`), a refund gives
back the price of the one it removes (`BalanceStep`). No wallet is ever negative
(`TypeOK`), so nobody spends more than was there. `NoCircle` is the safety half
of `PurchasesEnd`, for any number of purchases: some purchase can take its next
step (`MayGoOn`, the guards of the actions) unless the pool is exhausted and a
bundle is being read. Locks are taken in the order product, coupon, wallet, so the
purchase that is furthest waits for no lock; that its commit is not refused needs
`StockLeft` (the stock checked under the product's lock is still there).

`StripeBillingProofs` (`BillingAssumption`). `TypeCorrect` rests on the lemma
`ShareBound`: the rounded-up share of a refund is at most the whole. For
`AnsweredWasApplied` the invariant says what each stage of a request has
established: `WorkOK` (a request about to mark an event has seen its payment
credited) and `MarkOK` (a mark says that the event took effect, so that a
duplicate may be answered from the mark alone). `CreditsAreAccounted` needs
`RowsOK`: a payment that was never credited has no row. `ReversalsSettle` needs to
know how Stripe's events follow one another and what the row says in between:
`OrderOK` (refunds of a payment grow, a dispute closes after it opened and once)
and `Settles` (as long as the reversals of a payment were applied in order and
none was left out, the row stands as the last of them says). When all are answered
the last one applied is the last one sent, and what the row says of it is what
Stripe has (`SettledOwes`); `ShareLeast` says that the computed share is the least
that covers the refund, so a later refund never needs less.

`RewardsProofs` (`RewardsAssumption`). `Good(r)` is what a request has established
at its stage, one part per channel: what it wrote is what it asked for (`Asks`,
`Wrote`), a code whose lock it holds has a use left (`UseLeft`), nobody voted
since it looked under the site's lock (`CoolDown`), and what it is about to draw
is what the votes say (`Draws`). `Apart` (two requests do not hold the same row)
is why another request's step keeps them, `Campaign` is the same for a campaign
that was drawn. `CreditsHaveReasons` is inductive over them. `StreaksArePaid` has
an invariant of its own: `Dated` (no day is claimed before it begins, so what an
account claimed before a day never changes once that day has come) and `Rewarded`
for the rows, `Counts` for a request that has read its streak (it knows the run
that ends yesterday, or today was claimed meanwhile and its row will be a
duplicate) and `Claims` for one that has written its row. The property asks for the
unbroken days among the last `StreakRows`, the code counts among the latest
`StreakRows` rows whatever their dates: the lemma `RunIsRead` says that the two are
the same days, for any number of days claimed and any `StreakRows`. Midnight makes the
accounts of such requests `misread`, which the property leaves out. `NoCircle` is
the safety half of `ClaimsEnd`: some claim can take its next step unless daily
claims, which want a second connection, hold all there are.

`Totals` makes sums provable: the total of `f` over a set is the cardinality of
the set of its units, so that the sums of the code (`SELECT SUM`) need no
recursion. `TotalsProofs` (no assumption) proves that nothing adds nothing, that
one more element adds its number, that one fewer takes it away, and that only the
numbers of the set count; `CreditsBalanced`, `CreditsAreAccounted` and
`CreditsHaveReasons` cite these lemmas.

`MigrationsProofs` (`MigrationsAssumption`), for the 42 versions of the code and
any processes, seeds, interruptions and lost connections. `LedgerOK` says that
versions are recorded without a gap and each with all its blocks in effect,
`Placed(p)` that every block before a process's own is in effect, whoever executed
it. The named lock appears in neither: with the lock lost two processes may be in
one version, and each block they execute is in effect for both. A served schema is
`Complete` because a process serves only after it found or recorded the last
version, and effects are never undone. The types of the script's blocks are read
off version by version (`ScriptType`), since the provers do not unfold a list of
42 entries at once.

`AccountsProofs` (`AccountsAssumption`) keeps one invariant per property over
`TypeInv` (a request past its first read knows its account and session):

* `SessionsStayHonest`: `LoginOK` (a login under way knows the present password,
  or was overtaken by a new one; past its look at forced resets it meets none that
  is older) and `StepUpOK` (a step-up whose session was neither dropped nor
  switched has read the present password);
* `CodesAreSpentOnce`: `CodesOK` (a code that is kept was made, not accepted, and
  is kept for one account);
* `AddressesAreProven`: `LetterOK` (a pending address is where the link was sent;
  only an active account has one) and `WriterOK` (whoever may store one is
  active);
* `OneSetup`: `SetupInv` (setup's row is held by the request that is in it, and is
  complete once an administrator was made).

`PortalProofs` (`PortalAssumption`, `EventsAssumption`) proves the properties of
the seven parts from one invariant each; `part` never changes, so the parts
compose (`PortalInv`). `PortalTypes` and `StepsAreKept` are the type invariants
and the step properties of all of them.

* `EventsAreKept`: `Exclusive` (one request holds the event's row); `Counted`
  (whoever is about to write a registration has counted, under that lock, fewer
  holders than places, and no one else has added one since); `EventsJudged`
  (whoever is about to pay holds the registration it found attended, and the prize
  it read is still the event's).
* `IdentitiesAreKept`: `RequestsFit` (what a request carries fits its stage, in
  particular a counter it is about to write has advanced on the one it read) and
  `Primaries` (every identity ever made has exactly one primary account).
* `RecordsAreTrue`: for the agent, `AgentInv` (the mutex; a call past its backup
  has what it is about to overwrite in the backups; what the portal was told),
  given a table in which every setting has a line and no two share one
  (`TableOfSettings`, which the table in `agent.go` satisfies); for competitive
  results, `Alone` (the unique key of a claim), `IngestJudged` (a delivery past
  its members has none that no table may hold) and `Eligible` (a delivery that will
  rank its kill was judged to have a guild and a raid size), given that the default
  rules admit kills only (`IngestAssumed`); for tickets, `Assigned`; for
  forms, `FiledInv` (`FewOpen` and `StampsTrue` are inductive over the types); for
  moderation, `StaffUnderway`, `StaffLogged` and `StaffServed` (each row a request
  is about to write, or wrote, stands on a command that was carried out).

Only model-checked: the liveness properties `QueueServed`, `PurchasesEnd`,
`ClaimsEnd` and `ComesToAnEnd`, since fairness and `ENABLED` are out of TLAPS's
reach here (what `PurchasesEnd` and `ClaimsEnd` need besides fairness is
`NoCircle`), and the three properties that the code violates (section 5).

## 5. Where code and documentation disagree

With a run that shows it:

1. `FailureReachesReview` (`delivery_stuck`): when a step fails because the 15 s
   context has expired, its failure and the order's review are written under that
   expired context. The order stays `delivering`, which neither retry nor refund
   accept, until a process restarts.
2. `CouponKept` (`shop_coupon`): the uses of a coupon are counted in a view that
   may be older than the coupon's lock, so purchases of two products exceed its
   limit. For one product the limit holds (`CouponKeptOnOneProduct`), because the
   product's lock comes before the view.
3. `WonRestoresHeld` (`billing_dispute`): a won dispute gives back what an earlier
   partial refund took as well.

Met while modelling, without a run of their own; the passing properties are
stated so that they hold next to them:

* A lost SOAP answer is recorded as a failed step (`delivery.go:227`), which a
  plain retry runs again although nobody reconciled it (README.md:332 speaks of
  preventing duplicate mail). `NoBlindReplay` counts a retry as a decision.
* Resolving a step of an order in flight makes it refundable while its loop goes
  on completing steps (`delivery.go:678`, AUDIT.md:460). Such orders are
  `disturbed` and `OutcomesTrue` excludes them.
* `sold_count-1` of an unsigned 0 is an error (`delivery.go:567`): an order bought
  while its product had no stock limit cannot be refunded once it has one.
  `RefusalsExplained`, part of `StockKept`, says that this is the only such case;
  those products are `untracked`.
* AUDIT.md:244-249 says that a forced reset blocks portal login until it is
  completed. `login` looks for it; sign-in with Discord, Google or a passkey and
  a switch of account do not. `ForcedUntilReset` speaks of password logins only.
* AUDIT.md:625 asks for "numbered, idempotent migrations". Versions 26 and 29
  contain statements that cannot be repeated; after an interruption between such
  a statement and the version's row every start fails. `ComesToAnEnd` names this
  case (`Wedged`). README.md:117 says that concurrent jobs cannot apply changes
  simultaneously because of the lock; that lasts as long as the connection that
  holds it, and `LedgerTrue` holds without it.
* AUDIT.md:484 says that character transfers have "duplicate-request protection",
  AUDIT.md:491 that guild applications have "duplicate prevention". Both count the
  open ones in a statement of its own before the insert (`transfers.go:125`,
  `recruitment.go:212`), with no lock or key in between: two requests that count at
  the same time both file, and a count of applications that fails passes for none.
  `FewOpen` therefore allows as many as counted together, and leaves out forms that
  staff open again or whose count failed (`excused`).

Other cases the passing properties exclude: payments with a refund before their
dispute, a dropped inquiry or reordered reversals (`SettledInOrder`); a daily claim
under way at midnight, or whose streak could not be read, pays the wrong day of
the cycle (`misread`, `StreakPaid`); votes cast before the end of a campaign and
committed after it are missing from its draw, although the published number of
entries includes them (`DrawHonest`); a login that has read the account before its
password changed opens a session afterwards, and a session switched to another
account and back keeps its step-up (`stale` and `via`, `SessionsHonest`); a place
that staff give back may exceed the capacity (`restored`, `Capacity`); a
configuration edited by hand while a call is being applied is overwritten
(`settled`, `NothingLost`).

## 6. What is left

### Plan

1. A plan of an order that changes between claims, in `OrderDelivery`
   (`delivery.go:122`).
2. The import of a catalog by staff (`catalog.go`), whose transaction meets the
   purchase's locks; the creation of a checkout session before its webhook.
3. Theorems for what these add, in the proof modules of their components.

### Not modelled

* Bans, the rate limiter and account locks other than registration's: they refuse
  requests and keep nothing a property here speaks of.
* `recovery.go:235` mails a link before its transaction commits: after a failed
  commit the player holds a dead link. Nothing in the tables shows it.
* `security.go:178` checks a code against a secret read before; which secret an
  authenticator has is not modelled. `moderation_cases.go` may apply a ban and lift
  it in another order than its rows say, and the minutes of a mute are left to the
  realm.
* A package of `catalog.go:172` without contents; a privacy request that staff
  decide after the player cancelled it (`privacy.go:292`), which is as the code
  writes it; the order in which the agent's
  mutex serves its callers.
* Rankings, seasons, listings, insights and exports are queries. Content, media,
  downloads, investigations, notes, notifications and Discord posts are single rows
  or are sent without being awaited. The console forwards a command and logs it.
* Mock mode is an in-memory stand-in for demonstrations; SRP6 and CBOR are pure
  data; configuration is parsing; the front end keeps no state the server relies on.
