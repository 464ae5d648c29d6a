------------------------------- MODULE Accounts --------------------------------
(* Game accounts as the portal keeps them: first-time setup, registration and  *)
(* activation (setup.go, server.go, email_verification.go), password login and *)
(* sessions (server.go), authenticator, recovery codes, step-up, password and  *)
(* e-mail change (security.go), password resets, requested or forced           *)
(* (recovery.go), and the bootstrap command (internal/store/bootstrap.go).     *)
(*                                                                             *)
(* A handler is a request that keeps what it has read; other requests run      *)
(* between its statements.  A transaction is one step when nothing it decides  *)
(* on can change under it.  A wrong password or code, like an expired token or *)
(* a request nobody continues, ends the request and changes nothing (Refuse).  *)
EXTENDS Naturals, FiniteSets

CONSTANTS
  Names,        \* accounts, by username
  Linked,       \* accounts of one identity, between which a session may switch
  Requests,     \* handlers that run at the same time
  Sessions,     \* rows of portal_sessions (bound)
  Addresses,    \* e-mail addresses
  Home,         \* [Names -> Addresses]: the address an account is made with
  Verified,     \* RequireEmailVerification
  None,
  MaxChanges,   \* bound: [Names -> passwords set after creation]
  MaxIssued,    \* bound: sets of recovery codes
  MaxLetters    \* bound: e-mail changes requested and links sent again

ASSUME AccountsAssumption ==
  /\ Linked \subseteq Names /\ Verified \in BOOLEAN
  /\ None \notin Addresses /\ None \notin Names /\ None \notin Sessions
  /\ None \notin Requests
  /\ Home \in [Names -> Addresses] /\ MaxChanges \in [Names -> Nat]
  /\ MaxIssued \in Nat /\ MaxLetters \in Nat

VARIABLES
  account,    \* [Names -> Account]
  setup,      \* [done, holder]: the row setup_complete and the request that locks it
  admins,     \* accounts with a row in account_access
  crowned,    \* history: accounts that first-time setup made administrator
  verify,     \* [Names -> rows of portal_email_verifications or None]
  proven,     \* history: [Names -> addresses whose link was followed]
  reset,      \* accounts with a valid row in portal_password_resets
  forced,     \* accounts with a row in portal_forced_password_resets
  totp,       \* [Names -> {"none", "pending", "on"}]
  codes,      \* [Names -> recovery codes that have not been used]
  issued,     \* recovery codes made so far (one stands for the ten of a set)
  spent,      \* history: [codes -> times accepted]
  sessions,   \* [Sessions -> Session or None]
  request,    \* [Requests -> Request]
  letters

vars == <<account, setup, admins, crowned, verify, proven, reset, forced, totp, codes,
          issued, spent, sessions, request, letters>>

Codes == 1 .. MaxIssued
Stale == SUBSET {"password", "forced"}
Kinds == {"stepup", "password", "email", "setup", "enable", "disable"}
Stages == Kinds \cup {"idle", "claim", "crown", "forced", "otp", "open", "link", "confirm", "grant",
                      "change", "letter", "enrol", "enabling", "disabling"}

(* password: how often it was set *)
Account == [status : {"absent", "locked", "active"}, password : Nat, email : Addresses]

(* password, step: the password that opened and that last confirmed the session;*)
(* stale: what changed while the login that opened it was under way             *)
Session == [name : Names, password : Nat, step : Nat \cup {None},
            stale : Stale, via : {"password", "provider", "switch"}]

Request == [at : Stages, name : Names \cup {None}, session : Sessions \cup {None},
            password : Nat, on : BOOLEAN, stale : Stale]

Idle == [at |-> "idle", name |-> None, session |-> None, password |-> 0, on |-> FALSE,
         stale |-> {}]

(* to: where the current link was sent; pending: the address it would set *)
Letter == [to : Addresses, pending : Addresses \cup {None}]

TypeOK ==
  /\ account \in [Names -> Account]
  /\ setup \in [done : BOOLEAN, holder : Requests \cup {None}]
  /\ admins \subseteq Names /\ crowned \subseteq admins
  /\ verify \in [Names -> Letter \cup {None}] /\ proven \in [Names -> SUBSET Addresses]
  /\ reset \subseteq Names /\ forced \subseteq Names
  /\ totp \in [Names -> {"none", "pending", "on"}]
  /\ codes \in [Names -> SUBSET Codes]
  /\ issued \in 0 .. MaxIssued /\ spent \in [Codes -> Nat]
  /\ sessions \in [Sessions -> Session \cup {None}]
  /\ request \in [Requests -> Request]
  /\ letters \in 0 .. MaxLetters

Init ==
  /\ account = [n \in Names |-> [status |-> "absent", password |-> 0, email |-> Home[n]]]
  /\ setup = [done |-> FALSE, holder |-> None]
  /\ admins = {} /\ crowned = {}
  /\ verify = [n \in Names |-> None] /\ proven = [n \in Names |-> {}]
  /\ reset = {} /\ forced = {}
  /\ totp = [n \in Names |-> "none"] /\ codes = [n \in Names |-> {}]
  /\ issued = 0 /\ spent = [c \in Codes |-> 0]
  /\ sessions = [s \in Sessions |-> None]
  /\ request = [r \in Requests |-> Idle]
  /\ letters = 0

setupVars == <<setup, admins, crowned>>
mailVars == <<verify, proven, letters>>
resetVars == <<reset, forced>>
codeVars == <<totp, codes, issued, spent>>

Live(s) == sessions[s] # None

(* Tokens are random: a row is used again only when nobody knows its old token. *)
Free(s) == ~Live(s) /\ \A r \in Requests : request[r].session # s

Goto(r, stage) == request' = [request EXCEPT ![r].at = stage]
Done(r) == request' = [request EXCEPT ![r] = Idle]
Signed(n) == [s \in Sessions |->
  IF Live(s) /\ sessions[s].name = n THEN None ELSE sessions[s]]

Make(n, status) == account' = [account EXCEPT ![n].status = status]

(* Requests that read the account before a change of kind w and do not look again. *)
Overtaken(n, stages, w) == [r \in Requests |->
  IF request[r].name = n /\ request[r].at \in stages
    THEN [request[r] EXCEPT !.stale = @ \cup {w}] ELSE request[r]]

--------------------------------------------------------------------------------
(* First-time setup, bootstrap-account and registration *)

RowIgnored == TRUE   \* mutant: setup reads setup_complete without locking it

(* SELECT ... FOR UPDATE waits for the request that has the row. *)
RowFree == setup.holder = None

ClaimSetup(r) ==
  /\ request[r].at = "idle" /\ RowFree /\ ~setup.done
  /\ setup' = [setup EXCEPT !.holder = r]
  /\ Goto(r, "claim")
  /\ UNCHANGED <<account, admins, crowned, mailVars, resetVars, codeVars, sessions>>

GrantNothing(n) == UNCHANGED admins   \* mutant: setup forgets account_access

Grant(n) == admins' = admins \cup {n}

(* A consistent read: another transaction may grant access before this one ends. *)
InspectAdmins(r) ==
  /\ request[r].at = "claim"
  /\ IF admins = {}
       THEN Goto(r, "crown") /\ UNCHANGED setup
       ELSE Done(r) /\ setup' = [setup EXCEPT !.holder = None]
  /\ UNCHANGED <<account, admins, crowned, mailVars, resetVars, codeVars, sessions>>

(* The transaction commits, or fails because the name is taken. *)
FinishSetup(r, n) ==
  /\ request[r].at = "crown" /\ Done(r)
  /\ IF account[n].status = "absent"
       THEN /\ Make(n, "active")
            /\ Grant(n) /\ crowned' = crowned \cup {n}
            /\ setup' = [done |-> TRUE, holder |-> None]
       ELSE /\ setup' = [setup EXCEPT !.holder = None]
            /\ UNCHANGED <<account, admins, crowned>>
  /\ UNCHANGED <<mailVars, resetVars, codeVars, sessions>>

(* The command may run beside a server; it keeps the password of an account. *)
BootstrapAccount(n) ==
  /\ IF account[n].status = "absent" THEN Make(n, "active") ELSE UNCHANGED account
  /\ Grant(n)
  /\ UNCHANGED <<setup, crowned, mailVars, resetVars, codeVars, sessions, request>>

(* isSetupComplete *)
SetupComplete == setup.done \/ admins # {}

Register(n) ==
  /\ SetupComplete /\ account[n].status = "absent"
  /\ Make(n, IF Verified THEN "locked" ELSE "active")
  /\ verify' = IF Verified THEN [verify EXCEPT ![n] = [to |-> Home[n], pending |-> None]] ELSE verify
  /\ UNCHANGED <<setupVars, proven, letters, resetVars, codeVars, sessions, request>>

(* createEmailVerification keeps the pending address of an existing row. *)
Renew(n, to) == verify' = [verify EXCEPT ![n] =
  [to |-> to, pending |-> IF @ = None THEN None ELSE @.pending]]

RowExists(n) == verify[n] # None   \* mutant: resend drops locked=1

MayResend(n) == verify[n] # None /\ account[n].status = "locked"

EmailVerificationResend(n) ==
  /\ letters < MaxLetters /\ MayResend(n)
  /\ letters' = letters + 1
  /\ Renew(n, account[n].email)
  /\ UNCHANGED <<account, setupVars, proven, resetVars, codeVars, sessions, request>>

EmailVerificationConfirm(n) ==
  /\ verify[n] # None
  /\ account' = [account EXCEPT
       ![n].email = IF verify[n].pending = None THEN @ ELSE verify[n].pending,
       ![n].status = IF verify[n].pending = None THEN "active" ELSE @]
  /\ proven' = [proven EXCEPT ![n] = @ \cup {verify[n].to}]
  /\ verify' = [verify EXCEPT ![n] = None]
  /\ UNCHANGED <<setupVars, letters, resetVars, codeVars, sessions, request>>

--------------------------------------------------------------------------------
(* Password login: the account is read, then the forced reset, then the code. *)

Login(r, n) ==
  /\ request[r].at = "idle" /\ account[n].status = "active"
  /\ request' = [request EXCEPT ![r] = [Idle EXCEPT
       !.at = "forced", !.name = n, !.password = account[n].password,
       !.on = totp[n] = "on"]]
  /\ UNCHANGED <<account, setupVars, mailVars, resetVars, codeVars, sessions>>

NeverBarred(n) == FALSE   \* mutant: login does not look at forced resets

MustReset(n) == n \in forced

CheckForcedReset(r) ==
  /\ request[r].at = "forced"
  /\ IF MustReset(request[r].name) THEN Done(r)
       ELSE Goto(r, IF request[r].on THEN "otp" ELSE "open")
  /\ UNCHANGED <<account, setupVars, mailVars, resetVars, codeVars, sessions>>

(* Where a request goes that was given a right code. *)
AfterCode == [otp |-> "open", confirm |-> "grant", link |-> "idle"]

Pass(r) == IF request[r].at = "link" THEN Done(r) ELSE Goto(r, AfterCode[request[r].at])

AnyMade(n) == 1 .. issued   \* mutant: the number of rows the DELETE affected is not looked at

Accepted(n) == codes[n]

(* consumeRecoveryCode: one DELETE, accepted when it removed a row *)
Spend(n, c) ==
  /\ c \in Accepted(n)
  /\ codes' = [codes EXCEPT ![n] = @ \ {c}]
  /\ spent' = [spent EXCEPT ![c] = @ + 1]

UseAuthenticator(r) ==
  /\ request[r].at \in DOMAIN AfterCode
  /\ Pass(r)
  /\ UNCHANGED <<account, setupVars, mailVars, resetVars, codeVars, sessions>>

ConsumeRecoveryCode(r, c) ==
  /\ request[r].at \in DOMAIN AfterCode
  /\ Spend(request[r].name, c)
  /\ Pass(r)
  /\ UNCHANGED <<account, setupVars, mailVars, resetVars, totp, issued, sessions>>

OpenSession(r, s) ==
  /\ request[r].at = "open" /\ Free(s)
  /\ sessions' = [sessions EXCEPT ![s] =
       [name |-> request[r].name, password |-> request[r].password, step |-> None,
        stale |-> request[r].stale, via |-> "password"]]
  /\ Done(r)
  /\ UNCHANGED <<account, setupVars, mailVars, resetVars, codeVars>>

(* issuePortalSession, after Discord, Google or a passkey *)
IssuePortalSession(n, s) ==
  /\ account[n].status = "active" /\ Free(s)
  /\ sessions' = [sessions EXCEPT ![s] =
       [name |-> n, password |-> account[n].password, step |-> None, stale |-> {},
        via |-> "provider"]]
  /\ UNCHANGED <<account, setupVars, mailVars, resetVars, codeVars, request>>

(* Linking reads and checks the credentials of the account to be linked. *)
LinkAccount(r, n) ==
  /\ request[r].at = "idle" /\ account[n].status = "active" /\ totp[n] = "on"
  /\ request' = [request EXCEPT ![r] = [Idle EXCEPT !.at = "link", !.name = n]]
  /\ UNCHANGED <<account, setupVars, mailVars, resetVars, codeVars, sessions>>

IdentitySwitchAccount(s, n) ==
  /\ Live(s) /\ {sessions[s].name, n} \subseteq Linked
  /\ sessions[s].name # n /\ account[n].status # "absent"
  /\ sessions' = [sessions EXCEPT ![s] =
       [name |-> n, password |-> account[n].password, step |-> None, stale |-> {},
        via |-> "switch"]]
  /\ UNCHANGED <<account, setupVars, mailVars, resetVars, codeVars, request>>

(* logout, a session revoked by its owner, and one that expired *)
DropSession(s) ==
  /\ Live(s)
  /\ sessions' = [sessions EXCEPT ![s] = None]
  /\ UNCHANGED <<account, setupVars, mailVars, resetVars, codeVars, request>>

AdminRevokeAccountSessions(n) ==
  /\ \E s \in Sessions : Live(s) /\ sessions[s].name = n
  /\ sessions' = Signed(n)
  /\ UNCHANGED <<account, setupVars, mailVars, resetVars, codeVars, request>>

--------------------------------------------------------------------------------
(* Requests of a session: auth, then a read, then a write. *)

Auth(r, s, kind) ==
  /\ request[r].at = "idle" /\ Live(s) /\ account[sessions[s].name].status = "active"
  /\ request' = [request EXCEPT ![r] = [Idle EXCEPT
       !.at = kind, !.name = sessions[s].name, !.session = s]]
  /\ UNCHANGED <<account, setupVars, mailVars, resetVars, codeVars, sessions>>

(* What each kind reads outside its transaction before it may go on. *)
Read(r) ==
  LET n == request[r].name
      next == [stepup |-> IF totp[n] = "on" THEN "confirm" ELSE "grant",
               password |-> "change", email |-> "letter", setup |-> "enrol",
               enable |-> "enabling", disable |-> "disabling"]
  IN  /\ request[r].at \in Kinds
      /\ (request[r].at = "setup") => totp[n] # "on"
      /\ (request[r].at = "enable") => totp[n] # "none"
      /\ (request[r].at = "disable") => totp[n] = "on"
      /\ request' = [request EXCEPT ![r].at = next[request[r].at],
                                    ![r].password = account[n].password]
      /\ UNCHANGED <<account, setupVars, mailVars, resetVars, codeVars, sessions>>

(* The row must still be there, and be the account's. *)
StillMine(r) ==
  LET s == request[r].session
  IN  Live(s) /\ sessions[s].name = request[r].name

SecurityStepUp(r) ==
  /\ request[r].at = "grant" /\ Done(r)
  /\ sessions' = IF StillMine(r)
       THEN [sessions EXCEPT ![request[r].session].step = request[r].password]
       ELSE sessions
  /\ UNCHANGED <<account, setupVars, mailVars, resetVars, codeVars>>

SetPassword(n) == account' = [account EXCEPT ![n].password = @ + 1]

KeepSessions(n) == UNCHANGED sessions   \* mutant: a new password leaves the sessions alone

SignOut(n) == sessions' = Signed(n)

SecurityPassword(r) ==
  LET n == request[r].name
  IN  /\ request[r].at = "change" /\ account[n].password < MaxChanges[n]
      /\ SetPassword(n) /\ SignOut(n)
      /\ request' = [Overtaken(n, {"forced", "otp", "open"}, "password") EXCEPT ![r] = Idle]
      /\ UNCHANGED <<setupVars, mailVars, resetVars, codeVars>>

SecurityEmail(r, e) ==
  LET n == request[r].name
  IN  /\ request[r].at = "letter" /\ letters < MaxLetters /\ e # account[n].email
      /\ letters' = letters + 1
      /\ verify' = [verify EXCEPT ![n] = [to |-> e, pending |-> e]]
      /\ Done(r)
      /\ UNCHANGED <<account, setupVars, proven, resetVars, codeVars, sessions>>

SecurityTOTPSetup(r) ==
  /\ request[r].at = "enrol" /\ Done(r)
  /\ totp' = [totp EXCEPT ![request[r].name] = "pending"]
  /\ UNCHANGED <<account, setupVars, mailVars, resetVars, codes, issued, spent, sessions>>

(* The secret was read, and the code checked against it, before the transaction. *)
SecurityTOTPEnable(r) ==
  /\ request[r].at = "enabling" /\ issued < MaxIssued /\ Done(r)
  /\ issued' = issued + 1
  /\ totp' = [totp EXCEPT ![request[r].name] = "on"]
  /\ codes' = [codes EXCEPT ![request[r].name] = {issued + 1}]
  /\ UNCHANGED <<account, setupVars, mailVars, resetVars, spent, sessions>>

(* With a recovery code its DELETE and the rest are one transaction. *)
SecurityTOTPDisable(r) ==
  LET n == request[r].name
  IN  /\ request[r].at = "disabling" /\ Done(r)
      /\ totp' = [totp EXCEPT ![n] = "none"] /\ codes' = [codes EXCEPT ![n] = {}]
      /\ spent' = spent \/ \E c \in Accepted(n) : spent' = [spent EXCEPT ![c] = @ + 1]
      /\ UNCHANGED <<account, setupVars, mailVars, resetVars, issued, sessions>>

(* A wrong password or code, an error, or a client that went away. *)
Refuse(r) ==
  /\ request[r].at \notin {"idle", "open", "grant"} /\ Done(r)
  /\ setup' = IF setup.holder = r THEN [setup EXCEPT !.holder = None] ELSE setup
  /\ UNCHANGED <<account, admins, crowned, mailVars, resetVars, codeVars, sessions>>

--------------------------------------------------------------------------------
(* Password resets *)

PasswordResetRequest(n) ==
  /\ account[n].status = "active"
  /\ reset' = reset \cup {n}
  /\ UNCHANGED <<account, setupVars, mailVars, forced, codeVars, sessions, request>>

ResetExpires(n) ==
  /\ n \in reset /\ reset' = reset \ {n}
  /\ UNCHANGED <<account, setupVars, mailVars, forced, codeVars, sessions, request>>

(* The mail goes out before the commit; when either fails nothing is changed. *)
AdminRequirePasswordReset(n) ==
  /\ account[n].status # "absent"
  /\ reset' = reset \cup {n} /\ forced' = forced \cup {n}
  /\ SignOut(n)
  /\ request' = Overtaken(n, {"otp", "open"}, "forced")
  /\ UNCHANGED <<account, setupVars, mailVars, codeVars>>

PasswordResetConfirm(n) ==
  /\ n \in reset /\ account[n].password < MaxChanges[n]
  /\ SetPassword(n) /\ SignOut(n)
  /\ reset' = reset \ {n} /\ forced' = forced \ {n}
  /\ request' = Overtaken(n, {"forced", "otp", "open"}, "password")
  /\ UNCHANGED <<setupVars, mailVars, codeVars>>

--------------------------------------------------------------------------------
SignIn(r) ==
  \/ \E n \in Names : Login(r, n) \/ LinkAccount(r, n)
  \/ CheckForcedReset(r) \/ UseAuthenticator(r)
  \/ \E c \in Codes : ConsumeRecoveryCode(r, c)
  \/ \E s \in Sessions : OpenSession(r, s)

Security(r) ==
  \/ \E s \in Sessions, kind \in Kinds : Auth(r, s, kind)
  \/ Read(r) \/ SecurityStepUp(r) \/ SecurityPassword(r)
  \/ \E e \in Addresses : SecurityEmail(r, e)
  \/ SecurityTOTPSetup(r) \/ SecurityTOTPEnable(r) \/ SecurityTOTPDisable(r)
  \/ Refuse(r)

Setup(r) ==
  \/ ClaimSetup(r) \/ InspectAdmins(r)
  \/ \E n \in Names : FinishSetup(r, n)

Elsewhere(n) ==
  \/ BootstrapAccount(n) \/ Register(n)
  \/ EmailVerificationResend(n) \/ EmailVerificationConfirm(n)
  \/ \E s \in Sessions : IssuePortalSession(n, s) \/ IdentitySwitchAccount(s, n)
  \/ AdminRevokeAccountSessions(n) \/ PasswordResetRequest(n) \/ ResetExpires(n)
  \/ AdminRequirePasswordReset(n) \/ PasswordResetConfirm(n)

Next ==
  \/ \E r \in Requests : SignIn(r) \/ Security(r) \/ Setup(r)
  \/ \E n \in Names : Elsewhere(n)
  \/ \E s \in Sessions : DropSession(s)

Spec == Init /\ [][Next]_vars

--------------------------------------------------------------------------------
(* A session stands for the account's present password, unless the password was *)
(* changed (securityPassword, passwordResetConfirm) while its login was between *)
(* reading the account and inserting the row; a step-up does unless its session *)
(* was switched to another account and back in the meantime; and nobody         *)
(* is signed in with a password under a forced reset (adminRequirePasswordReset)*)
(* who had not passed login's look at it before.                                *)
SignedOut == \A s \in Sessions : Live(s) =>
  \/ sessions[s].password = account[sessions[s].name].password
  \/ "password" \in sessions[s].stale

StepUpCurrent == \A s \in Sessions : Live(s) /\ sessions[s].via # "switch" =>
  sessions[s].step \in {None, account[sessions[s].name].password}

ForcedUntilReset == \A s \in Sessions :
  Live(s) /\ sessions[s].name \in forced /\ sessions[s].via = "password" =>
    "forced" \in sessions[s].stale

SessionsHonest == SignedOut /\ StepUpCurrent /\ ForcedUntilReset

(* A recovery code is accepted at most once, whichever of login, linking,        *)
(* step-up and disabling use it at the same time (consumeRecoveryCode), and a    *)
(* code that was used or replaced is not kept.                                   *)
RecoveryCodeOnce == \A c \in Codes :
  /\ spent[c] <= 1
  /\ \A n \in Names : c \in codes[n] => spent[c] = 0

(* The address of an account is the one it was made with or one whose own link   *)
(* was followed (securityEmail, emailVerificationConfirm, emailVerificationResend).*)
EmailProven == \A n \in Names :
  account[n].email \in proven[n] \cup {Home[n]}

(* First-time setup makes one administrator (setupDatabase), however many run.   *)
SetupOnce == Cardinality(crowned) <= 1
================================================================================
