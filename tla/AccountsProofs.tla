---------------------------- MODULE AccountsProofs ----------------------------
(***************************************************************************)
(* What holds of Accounts for any accounts, requests and sessions, and any *)
(* number of passwords, recovery codes and letters.                        *)
(***************************************************************************)
EXTENDS Accounts, FiniteSetTheorems, TLAPS

(***************************************************************************)
(* The parts of the inductive invariant.                                   *)
(***************************************************************************)
(* A request past its first read knows its account, and its session.        *)
RequestOK == \A r \in Requests :
  /\ request[r].at \notin {"idle", "claim", "crown"} => request[r].name \in Names
  /\ request[r].at \in {"stepup", "confirm", "grant"} => request[r].session \in Sessions

TypeInv == TypeOK /\ RequestOK

(* A login under way knows the present password, or was overtaken by a new  *)
(* one; past its look at forced resets it meets none that is older than it. *)
LoginOK == \A r \in Requests :
  /\ request[r].at \in {"forced", "otp", "open"} =>
       \/ request[r].password = account[request[r].name].password
       \/ "password" \in request[r].stale
  /\ request[r].at \in {"otp", "open"} /\ request[r].name \in forced =>
       "forced" \in request[r].stale

(* A step-up under way whose session was neither dropped nor switched has   *)
(* read the present password.                                               *)
StepUpOK == \A r \in Requests :
  /\ request[r].at \in {"confirm", "grant"}
  /\ Live(request[r].session)
  /\ sessions[request[r].session].name = request[r].name
  /\ sessions[request[r].session].via # "switch"
  => request[r].password = account[request[r].name].password

SessionInv == SessionsHonest /\ LoginOK /\ StepUpOK

(* Codes that are kept were made and not accepted, each for one account.    *)
CodesOK == \A c \in Codes :
  /\ spent[c] <= 1
  /\ c > issued => spent[c] = 0
  /\ \A n \in Names : c \in codes[n] => c <= issued /\ spent[c] = 0
  /\ \A n, m \in Names : c \in codes[n] /\ c \in codes[m] => n = m

(* A pending address is where the link was sent; only an active account has *)
(* one, or a request that may store one.                                    *)
LetterOK == \A n \in Names : verify[n] # None =>
  /\ verify[n].pending \in {None, verify[n].to}
  /\ account[n].status # "active" => verify[n].pending = None
WriterOK == \A r \in Requests : request[r].at \in Kinds \cup {"letter"} =>
  account[request[r].name].status = "active"

MailInv == EmailProven /\ LetterOK /\ WriterOK

(* The row of first-time setup is held by the request that is in it, and is *)
(* complete once an administrator was made.                                 *)
SetupInv ==
  /\ \A r \in Requests : request[r].at \in {"claim", "crown"} => setup.holder = r
  /\ setup.done => setup.holder = None
  /\ crowned # {} => setup.done
  /\ crowned = {} \/ \E n \in Names : crowned = {n}

IInv == TypeInv /\ SessionInv /\ CodesOK /\ MailInv /\ SetupInv
-----------------------------------------------------------------------------
(***************************************************************************)
(* What a step does to one request and to one session.                     *)
(***************************************************************************)
LEMMA StageOf ==
  ASSUME TypeInv, NEW r \in Requests
  PROVE  /\ request[r] \in Request /\ Idle \in Request
         /\ request[r].at \in Stages
         /\ request[r].at \notin {"idle", "claim", "crown"} => request[r].name \in Names
         /\ request[r].at \in {"stepup", "confirm", "grant"} => request[r].session \in Sessions
  BY DEF TypeInv, TypeOK, RequestOK, Request, Idle, Stages, Stale

LEMMA GotoEffect ==
  ASSUME TypeInv, NEW r \in Requests, NEW x \in Stages, Goto(r, x)
  PROVE  /\ request' \in [Requests -> Request]
         /\ \A q \in Requests : q # r => request'[q] = request[q]
         /\ request'[r].at = x
         /\ request'[r].name = request[r].name /\ request'[r].session = request[r].session
         /\ request'[r].password = request[r].password
         /\ request'[r].stale = request[r].stale
  BY DEF TypeInv, TypeOK, Goto, Request

LEMMA DoneEffect ==
  ASSUME TypeInv, NEW r \in Requests, Done(r)
  PROVE  /\ request' \in [Requests -> Request]
         /\ \A q \in Requests : q # r => request'[q] = request[q]
         /\ request'[r].at = "idle"
  BY DEF TypeInv, TypeOK, Done, Request, Idle, Stages, Stale

(* A request enters a stage with what it has just read.                     *)
LEMMA EnterEffect ==
  ASSUME TypeInv, NEW r \in Requests, NEW w \in Request,
         request' = [request EXCEPT ![r] = w]
  PROVE  /\ request' \in [Requests -> Request]
         /\ \A q \in Requests : q # r => request'[q] = request[q]
         /\ request'[r] = w
  BY DEF TypeInv, TypeOK

LEMMA LoginRow ==
  ASSUME NEW n \in Names, NEW p \in Nat, NEW b \in BOOLEAN, NEW x \in {"forced", "link"}
  PROVE  /\ [Idle EXCEPT !.at = x, !.name = n, !.password = p, !.on = b] \in Request
         /\ [Idle EXCEPT !.at = x, !.name = n] \in Request
  BY DEF Idle, Request, Stages, Stale

(* A login that has begun, and a link whose code is awaited.                *)
LEMMA LoginEffect ==
  ASSUME TypeInv, NEW r \in Requests, NEW n \in Names, Login(r, n) \/ LinkAccount(r, n)
  PROVE  /\ request' \in [Requests -> Request]
         /\ \A q \in Requests : q # r => request'[q] = request[q]
         /\ request'[r].name = n /\ request'[r].at \in {"forced", "link"}
         /\ request'[r].at = "forced" => request'[r].password = account[n].password
  <1> DEFINE b == totp[n] = "on"
             p == account[n].password
             v == [Idle EXCEPT !.at = "forced", !.name = n, !.password = p, !.on = b]
             w == [Idle EXCEPT !.at = "link", !.name = n]
  <1>1. b \in BOOLEAN /\ p \in Nat  BY DEF TypeInv, TypeOK, Account
  <1>2. request' = [request EXCEPT ![r] = v] \/ request' = [request EXCEPT ![r] = w]
    BY DEF Login, LinkAccount
  <1> HIDE DEF b, p
  <1>3. v \in Request /\ w \in Request  BY <1>1, LoginRow
  <1>4. /\ v.name = n /\ v.at = "forced" /\ v.password = p
        /\ w.name = n /\ w.at = "link"
    BY DEF Idle
  <1> HIDE DEF v, w
  <1> QED  BY <1>2, <1>3, <1>4, EnterEffect DEF p

LEMMA OvertakenEffect ==
  ASSUME TypeInv, NEW n \in Names, NEW st \in SUBSET Stages, NEW w \in {"password", "forced"}
  PROVE  /\ Overtaken(n, st, w) \in [Requests -> Request]
         /\ \A q \in Requests :
              /\ Overtaken(n, st, w)[q].at = request[q].at
              /\ Overtaken(n, st, w)[q].name = request[q].name
              /\ Overtaken(n, st, w)[q].session = request[q].session
              /\ Overtaken(n, st, w)[q].password = request[q].password
              /\ request[q].stale \subseteq Overtaken(n, st, w)[q].stale
              /\ request[q].name = n /\ request[q].at \in st =>
                   w \in Overtaken(n, st, w)[q].stale
  <1>1. /\ request \in [Requests -> Request]
        /\ \A q \in Requests : request[q].stale \cup {w} \in Stale
    BY DEF TypeInv, TypeOK, Request, Stale
  <1>2. \A q \in Requests : [request[q] EXCEPT !.stale = @ \cup {w}] \in Request
    BY <1>1 DEF Request
  <1>3. \A q \in Requests :
          /\ [request[q] EXCEPT !.stale = @ \cup {w}].at = request[q].at
          /\ [request[q] EXCEPT !.stale = @ \cup {w}].name = request[q].name
          /\ [request[q] EXCEPT !.stale = @ \cup {w}].session = request[q].session
          /\ [request[q] EXCEPT !.stale = @ \cup {w}].password = request[q].password
          /\ [request[q] EXCEPT !.stale = @ \cup {w}].stale = request[q].stale \cup {w}
    BY <1>1 DEF Request
  <1> QED  BY <1>1, <1>2, <1>3 DEF Overtaken

(* Where a request of a session goes after its first read.                  *)
LEMMA ReadGoesOn ==
  ASSUME NEW r \in Requests, Read(r)
  PROVE  \E x \in Stages :
           /\ x \in {"confirm", "grant"} => request[r].at = "stepup"
           /\ x = "letter" => request[r].at = "email"
           /\ x \notin Kinds \cup {"idle", "claim", "crown", "forced", "otp", "open"}
           /\ request' = [request EXCEPT ![r].at = x,
                            ![r].password = account[request[r].name].password]
  <1> DEFINE first == IF totp[request[r].name] = "on" THEN "confirm" ELSE "grant"
             nx == [stepup |-> first, password |-> "change", email |-> "letter",
                      setup |-> "enrol", enable |-> "enabling", disable |-> "disabling"]
             k == request[r].at
  <1>1. /\ k \in Kinds
        /\ request' = [request EXCEPT ![r].at = nx[k],
                         ![r].password = account[request[r].name].password]
    BY DEF Read
  <1>2. first \in {"confirm", "grant"}  OBVIOUS
  <1> HIDE DEF first
  <1>3. \/ k = "stepup" /\ nx[k] = first
        \/ k = "password" /\ nx[k] = "change"
        \/ k = "email" /\ nx[k] = "letter"
        \/ k = "setup" /\ nx[k] = "enrol"
        \/ k = "enable" /\ nx[k] = "enabling"
        \/ k = "disable" /\ nx[k] = "disabling"
    BY <1>1 DEF Kinds
  <1> HIDE DEF nx, k
  <1>4. nx[k] \in Stages  BY <1>2, <1>3 DEF Stages, Kinds
  <1>5. /\ nx[k] \in {"confirm", "grant"} => k = "stepup"
        /\ nx[k] = "letter" => k = "email"
        /\ nx[k] \notin Kinds \cup {"idle", "claim", "crown", "forced", "otp", "open"}
    BY <1>2, <1>3 DEF Kinds
  <1> QED  BY <1>1, <1>4, <1>5 DEF k

LEMMA MakeEffect ==
  ASSUME TypeInv, NEW n \in Names, NEW x \in {"absent", "locked", "active"}, Make(n, x)
  PROVE  /\ account' \in [Names -> Account]
         /\ \A m \in Names : m # n => account'[m] = account[m]
         /\ account'[n].status = x /\ account'[n].email = account[n].email
         /\ account'[n].password = account[n].password
  <1>1. account[n] \in Account  BY DEF TypeInv, TypeOK
  <1>2. [account[n] EXCEPT !.status = x] \in Account  BY <1>1 DEF Account
  <1>3. account' = [account EXCEPT ![n] = [account[n] EXCEPT !.status = x]]
    BY DEF Make
  <1>4. /\ [account[n] EXCEPT !.status = x].status = x
        /\ [account[n] EXCEPT !.status = x].email = account[n].email
        /\ [account[n] EXCEPT !.status = x].password = account[n].password
    BY <1>1 DEF Account
  <1> HIDE DEF Make
  <1> QED  BY <1>2, <1>3, <1>4 DEF TypeInv, TypeOK

(* A followed link activates the account, or sets the pending address.      *)
LEMMA ConfirmEffect ==
  ASSUME TypeInv, NEW n \in Names, EmailVerificationConfirm(n)
  PROVE  /\ account' \in [Names -> Account] /\ verify[n] \in Letter
         /\ \A m \in Names : m # n => account'[m] = account[m]
         /\ account'[n].password = account[n].password
         /\ account'[n].status = IF verify[n].pending = None THEN "active" ELSE account[n].status
         /\ account'[n].email = IF verify[n].pending = None THEN account[n].email
                                                           ELSE verify[n].pending
  <1> DEFINE e == IF verify[n].pending = None THEN account[n].email ELSE verify[n].pending
             x == IF verify[n].pending = None THEN "active" ELSE account[n].status
             w == [account[n] EXCEPT !.email = e, !.status = x]
  <1>1. verify[n] \in Letter /\ account[n] \in Account
    BY DEF TypeInv, TypeOK, EmailVerificationConfirm
  <1>2. e \in Addresses /\ x \in {"absent", "locked", "active"}
    BY <1>1 DEF Account, Letter
  <1>3. account' = [account EXCEPT ![n] = w]
    <2>1. account' = [account EXCEPT ![n].email = e, ![n].status = x]
      BY DEF EmailVerificationConfirm
    <2> HIDE DEF e, x
    <2> QED  BY <2>1, <1>1 DEF TypeInv, TypeOK
  <1> HIDE DEF e, x
  <1>4. w \in Account /\ w.email = e /\ w.status = x /\ w.password = account[n].password
    BY <1>1, <1>2 DEF Account
  <1> HIDE DEF w
  <1>5. /\ account' \in [Names -> Account] /\ account'[n] = w
        /\ \A m \in Names : m # n => account'[m] = account[m]
    BY <1>3, <1>4 DEF TypeInv, TypeOK
  <1> QED  BY <1>1, <1>4, <1>5 DEF e, x

LEMMA SignedEffect ==
  ASSUME TypeInv, NEW n \in Names, sessions' = Signed(n)
  PROVE  /\ sessions' \in [Sessions -> Session \cup {None}]
         /\ \A s \in Sessions :
              sessions'[s] # None => sessions'[s] = sessions[s] /\ sessions[s].name # n
  BY DEF TypeInv, TypeOK, Signed, Live

LEMMA SessionEffect ==
  ASSUME TypeInv, NEW s \in Sessions, NEW row \in Session \cup {None},
         sessions' = [sessions EXCEPT ![s] = row]
  PROVE  /\ sessions' \in [Sessions -> Session \cup {None}]
         /\ \A t \in Sessions : sessions'[t] = IF t = s THEN row ELSE sessions[t]
  BY DEF TypeInv, TypeOK
-----------------------------------------------------------------------------
(***************************************************************************)
(* Type correctness.                                                       *)
(***************************************************************************)
LEMMA TypeInit == Init => TypeInv
  <1> SUFFICES ASSUME Init PROVE TypeInv  OBVIOUS
  <1>1. Idle \in Request  BY DEF Idle, Request, Stages, Stale
  <1>2. TypeOK  BY <1>1, AccountsAssumption DEF Init, TypeOK, Account
  <1> QED  BY <1>2 DEF Init, TypeInv, RequestOK, Idle

LEMMA TypeStep == TypeInv /\ [Next]_vars => TypeInv'
  <1> SUFFICES ASSUME TypeInv, [Next]_vars PROVE TypeInv'  OBVIOUS
  <1> USE DEF setupVars, mailVars, resetVars, codeVars
  <1>1. ASSUME NEW r \in Requests, SignIn(r) PROVE TypeInv'
    <2>1. ASSUME NEW n \in Names, Login(r, n) \/ LinkAccount(r, n) PROVE TypeInv'
      <3>1. request' \in [Requests -> Request] /\ RequestOK'
        BY <2>1, LoginEffect DEF TypeInv, RequestOK
      <3> QED  BY <2>1, <3>1 DEF TypeInv, TypeOK, Login, LinkAccount
    <2>2. CASE CheckForcedReset(r)
      <3>1. CASE Done(r)
        BY <2>2, <3>1, DoneEffect DEF TypeInv, TypeOK, RequestOK, CheckForcedReset
      <3>2. CASE Goto(r, "otp") \/ Goto(r, "open")
        BY <2>2, <3>2, GotoEffect, StageOf
        DEF TypeInv, TypeOK, RequestOK, CheckForcedReset, Stages
      <3> QED  BY <2>2, <3>1, <3>2 DEF CheckForcedReset
    <2>3. CASE UseAuthenticator(r)
      <3>1. CASE Done(r)
        BY <2>3, <3>1, DoneEffect DEF TypeInv, TypeOK, RequestOK, UseAuthenticator
      <3>2. CASE Pass(r) /\ request[r].at # "link"
        BY <2>3, <3>2, GotoEffect, StageOf
        DEF TypeInv, TypeOK, RequestOK, UseAuthenticator, Pass, AfterCode, Stages
      <3> QED  BY <2>3, <3>1, <3>2 DEF UseAuthenticator, Pass
    <2>4. ASSUME NEW c \in Codes, ConsumeRecoveryCode(r, c) PROVE TypeInv'
      <3>1. request[r].name \in Names
        BY <2>4, StageOf DEF ConsumeRecoveryCode, AfterCode
      <3>2. codes' \in [Names -> SUBSET Codes] /\ spent' \in [Codes -> Nat]
        BY <2>4, <3>1 DEF TypeInv, TypeOK, ConsumeRecoveryCode, Spend
      <3>3. CASE Done(r)
        BY <2>4, <3>2, <3>3, DoneEffect
        DEF TypeInv, TypeOK, RequestOK, ConsumeRecoveryCode, Spend
      <3>4. CASE Pass(r) /\ request[r].at # "link"
        <4>1. Goto(r, "open") \/ Goto(r, "grant")
          BY <2>4, <3>4 DEF ConsumeRecoveryCode, Pass, AfterCode
        <4>2. request[r].at \in {"otp", "confirm"} /\ (Goto(r, "grant") => request[r].at = "confirm")
          BY <2>4, <3>4, GotoEffect, "open" # "grant" DEF ConsumeRecoveryCode, Pass, AfterCode, Stages
        <4>3. RequestOK' /\ request' \in [Requests -> Request]
          BY <4>1, <4>2, GotoEffect, StageOf DEF RequestOK, Stages, TypeInv
        <4> QED
          BY <2>4, <3>2, <4>3 DEF TypeInv, TypeOK, ConsumeRecoveryCode, Spend
      <3> QED  BY <2>4, <3>3, <3>4 DEF ConsumeRecoveryCode, Pass
    <2>5. ASSUME NEW s \in Sessions, OpenSession(r, s) PROVE TypeInv'
      <3>1. request[r].name \in Names  BY <2>5, StageOf DEF OpenSession
      <3>2. sessions' \in [Sessions -> Session \cup {None}]
        BY <2>5, <3>1, StageOf DEF TypeInv, TypeOK, OpenSession, Session, Request
      <3> QED
        BY <2>5, <3>2, DoneEffect DEF TypeInv, TypeOK, RequestOK, OpenSession
    <2> QED  BY <1>1, <2>1, <2>2, <2>3, <2>4, <2>5 DEF SignIn
  <1>2. ASSUME NEW r \in Requests, Security(r) PROVE TypeInv'
    <2>1. ASSUME NEW s \in Sessions, NEW kind \in Kinds, Auth(r, s, kind) PROVE TypeInv'
      <3> DEFINE w == [Idle EXCEPT !.at = kind, !.name = sessions[s].name, !.session = s]
      <3>1. sessions[s].name \in Names  BY <2>1 DEF TypeInv, TypeOK, Auth, Live, Session
      <3>2. w \in Request /\ w.at = kind /\ w.name \in Names /\ w.session = s
        BY <2>1, <3>1 DEF Request, Idle, Stages, Stale
      <3>3. request' = [request EXCEPT ![r] = w]  BY <2>1 DEF Auth
      <3> HIDE DEF w
      <3>4. RequestOK' /\ request' \in [Requests -> Request]
        BY <3>2, <3>3, EnterEffect DEF RequestOK, TypeInv
      <3> QED  BY <2>1, <3>4 DEF TypeInv, TypeOK, Auth
    <2>2. CASE Read(r)
      <3>1. request[r].at \in Kinds /\ request[r].name \in Names
        BY <2>2, StageOf DEF Read, Kinds
      <3>2. PICK x \in Stages :
              /\ x \in {"confirm", "grant"} => request[r].at = "stepup"
              /\ x \notin {"stepup", "idle"}
              /\ request' = [request EXCEPT ![r].at = x,
                               ![r].password = account[request[r].name].password]
        BY <2>2, ReadGoesOn DEF Kinds
      <3>3. account[request[r].name].password \in Nat
        BY <3>1 DEF TypeInv, TypeOK, Account
      <3> DEFINE w == [request[r] EXCEPT !.at = x, !.password = account[request[r].name].password]
      <3>4. /\ request' \in [Requests -> Request]
            /\ \A q \in Requests : q # r => request'[q] = request[q]
            /\ request'[r].at = x /\ request'[r].name = request[r].name
            /\ request'[r].session = request[r].session
        <4>1. request[r] \in Request  BY DEF TypeInv, TypeOK
        <4>2. w \in Request  BY <3>3, <4>1 DEF Request
        <4>3. w.at = x /\ w.name = request[r].name /\ w.session = request[r].session
          BY <4>1 DEF Request
        <4>4. request' = [request EXCEPT ![r] = w]  BY <3>2
        <4> HIDE DEF w
        <4> QED  BY <4>2, <4>3, <4>4 DEF TypeInv, TypeOK
      <3>5. RequestOK'  BY <3>1, <3>2, <3>4, StageOf DEF RequestOK, TypeInv
      <3> QED  BY <2>2, <3>4, <3>5 DEF TypeInv, TypeOK, Read
    <2>3. CASE SecurityStepUp(r)
      <3>1. request[r].session \in Sessions /\ request[r].password \in Nat
        BY <2>3, StageOf DEF SecurityStepUp, Request
      <3>2. sessions' \in [Sessions -> Session \cup {None}]
        BY <2>3, <3>1 DEF TypeInv, TypeOK, SecurityStepUp, StillMine, Live, Session
      <3> QED
        BY <2>3, <3>2, DoneEffect DEF TypeInv, TypeOK, RequestOK, SecurityStepUp
    <2>4. CASE SecurityPassword(r)
      <3> DEFINE n == request[r].name
                 o == Overtaken(n, {"forced", "otp", "open"}, "password")
      <3>1. n \in Names  BY <2>4, StageOf DEF SecurityPassword
      <3>2. account' \in [Names -> Account]
        <4>1. account' = [account EXCEPT ![n].password = @ + 1]
          BY <2>4 DEF SecurityPassword, SetPassword
        <4> HIDE DEF n
        <4>2. account[n] \in Account /\ account[n].password + 1 \in Nat
          BY <3>1 DEF TypeInv, TypeOK, Account
        <4>3. [account[n] EXCEPT !.password = @ + 1] \in Account
          BY <4>2 DEF Account
        <4> QED  BY <3>1, <4>1, <4>3 DEF TypeInv, TypeOK
      <3>3. sessions' \in [Sessions -> Session \cup {None}]
        BY <2>4, <3>1, SignedEffect DEF SecurityPassword, SignOut
      <3>4. /\ o \in [Requests -> Request]
            /\ \A q \in Requests :
                 /\ o[q].at = request[q].at /\ o[q].name = request[q].name
                 /\ o[q].session = request[q].session
        BY <3>1, OvertakenEffect, {"forced", "otp", "open"} \subseteq Stages DEF Stages
      <3>5. request' = [o EXCEPT ![r] = Idle]  BY <2>4 DEF SecurityPassword
      <3> HIDE DEF o
      <3>6. request' \in [Requests -> Request] /\ RequestOK'
        BY <3>4, <3>5, StageOf DEF RequestOK, Idle
      <3> QED  BY <2>4, <3>2, <3>3, <3>6 DEF TypeInv, TypeOK, SecurityPassword
    <2>5. ASSUME NEW e \in Addresses, SecurityEmail(r, e) PROVE TypeInv'
      <3>1. request[r].name \in Names  BY <2>5, StageOf DEF SecurityEmail
      <3>2. verify' \in [Names -> Letter \cup {None}] /\ letters' \in 0 .. MaxLetters
        BY <2>5, <3>1, AccountsAssumption DEF TypeInv, TypeOK, SecurityEmail, Letter
      <3> QED
        BY <2>5, <3>2, DoneEffect DEF TypeInv, TypeOK, RequestOK, SecurityEmail
    <2>6. CASE SecurityTOTPSetup(r) \/ SecurityTOTPEnable(r) \/ SecurityTOTPDisable(r)
      <3>1. request[r].name \in Names
        BY <2>6, StageOf DEF SecurityTOTPSetup, SecurityTOTPEnable, SecurityTOTPDisable
      <3>2. totp' \in [Names -> {"none", "pending", "on"}]
        BY <2>6, <3>1
        DEF TypeInv, TypeOK, SecurityTOTPSetup, SecurityTOTPEnable, SecurityTOTPDisable
      <3>3. /\ codes' \in [Names -> SUBSET Codes] /\ issued' \in 0 .. MaxIssued
            /\ spent' \in [Codes -> Nat]
        <4>1. CASE SecurityTOTPSetup(r)  BY <4>1 DEF TypeInv, TypeOK, SecurityTOTPSetup
        <4>2. CASE SecurityTOTPEnable(r)
          BY <3>1, <4>2, AccountsAssumption DEF TypeInv, TypeOK, SecurityTOTPEnable, Codes
        <4>3. CASE SecurityTOTPDisable(r)
          BY <3>1, <4>3 DEF TypeInv, TypeOK, SecurityTOTPDisable, Accepted
        <4> QED  BY <2>6, <4>1, <4>2, <4>3
      <3>4. Done(r)
        BY <2>6 DEF SecurityTOTPSetup, SecurityTOTPEnable, SecurityTOTPDisable
      <3>5. RequestOK' /\ request' \in [Requests -> Request]
        BY <3>4, DoneEffect DEF TypeInv, RequestOK
      <3> QED
        BY <2>6, <3>2, <3>3, <3>5
        DEF TypeInv, TypeOK, SecurityTOTPSetup, SecurityTOTPEnable, SecurityTOTPDisable
    <2>7. CASE Refuse(r)
      BY <2>7, DoneEffect DEF TypeInv, TypeOK, RequestOK, Refuse
    <2> QED  BY <1>2, <2>1, <2>2, <2>3, <2>4, <2>5, <2>6, <2>7 DEF Security
  <1>3. ASSUME NEW r \in Requests, Setup(r) PROVE TypeInv'
    <2>1. CASE ClaimSetup(r)
      <3>1. RequestOK' /\ request' \in [Requests -> Request]
        BY <2>1, GotoEffect, "claim" \in Stages DEF ClaimSetup, RequestOK, TypeInv, Stages
      <3> QED  BY <2>1, <3>1 DEF TypeInv, TypeOK, ClaimSetup
    <2>2. CASE InspectAdmins(r)
      <3>1. RequestOK' /\ request' \in [Requests -> Request]
        BY <2>2, GotoEffect, DoneEffect, "crown" \in Stages
        DEF InspectAdmins, RequestOK, TypeInv, Stages
      <3> QED  BY <2>2, <3>1 DEF TypeInv, TypeOK, InspectAdmins
    <2>3. ASSUME NEW n \in Names, FinishSetup(r, n) PROVE TypeInv'
      <3>1. RequestOK' /\ request' \in [Requests -> Request]
        BY <2>3, DoneEffect DEF FinishSetup, RequestOK, TypeInv
      <3>2. account' \in [Names -> Account]
        BY <2>3, MakeEffect DEF FinishSetup, TypeInv, TypeOK
      <3>3. setup' \in [done : BOOLEAN, holder : Requests \cup {None}]
        <4>1. CASE setup' = [done |-> TRUE, holder |-> None]  BY <4>1
        <4>2. CASE setup' = [setup EXCEPT !.holder = None]  BY <4>2 DEF TypeInv, TypeOK
        <4> QED  BY <2>3, <4>1, <4>2 DEF FinishSetup
      <3>4. admins' \subseteq Names /\ crowned' \subseteq admins'
        BY <2>3 DEF TypeInv, TypeOK, FinishSetup, Grant
      <3> QED  BY <2>3, <3>1, <3>2, <3>3, <3>4 DEF TypeInv, TypeOK, FinishSetup
    <2> QED  BY <1>3, <2>1, <2>2, <2>3 DEF Setup
  <1>4. ASSUME NEW n \in Names, Elsewhere(n) PROVE TypeInv'
    <2>1. CASE BootstrapAccount(n)
      <3>1. account' \in [Names -> Account]
        BY <2>1, MakeEffect DEF BootstrapAccount, TypeInv, TypeOK
      <3> QED  BY <2>1, <3>1 DEF TypeInv, TypeOK, RequestOK, BootstrapAccount, Grant
    <2>2. CASE Register(n)
      <3>1. account' \in [Names -> Account]
        BY <2>2, MakeEffect DEF Register
      <3>2. verify' \in [Names -> Letter \cup {None}]
        BY <2>2, AccountsAssumption DEF TypeInv, TypeOK, Register, Letter
      <3> QED  BY <2>2, <3>1, <3>2 DEF TypeInv, TypeOK, RequestOK, Register
    <2>3. CASE EmailVerificationResend(n)
      <3>1. verify' \in [Names -> Letter \cup {None}] /\ letters' \in 0 .. MaxLetters
        BY <2>3, AccountsAssumption
        DEF TypeInv, TypeOK, EmailVerificationResend, Renew, Letter, Account
      <3> QED  BY <2>3, <3>1 DEF TypeInv, TypeOK, RequestOK, EmailVerificationResend
    <2>4. CASE EmailVerificationConfirm(n)
      <3>1. verify[n] \in Letter /\ account' \in [Names -> Account]
        BY <2>4, ConfirmEffect
      <3>3. /\ verify' \in [Names -> Letter \cup {None}]
            /\ proven' \in [Names -> SUBSET Addresses]
        BY <2>4, <3>1 DEF TypeInv, TypeOK, EmailVerificationConfirm, Letter
      <3> QED  BY <2>4, <3>1, <3>3 DEF TypeInv, TypeOK, RequestOK, EmailVerificationConfirm
    <2>5. ASSUME NEW s \in Sessions, IssuePortalSession(n, s) \/ IdentitySwitchAccount(s, n)
          PROVE TypeInv'
      <3>1. sessions' \in [Sessions -> Session \cup {None}]
        BY <2>5 DEF TypeInv, TypeOK, IssuePortalSession, IdentitySwitchAccount, Session,
                    Account, Stale
      <3> QED
        BY <2>5, <3>1
        DEF TypeInv, TypeOK, RequestOK, IssuePortalSession, IdentitySwitchAccount
    <2>6. CASE AdminRevokeAccountSessions(n)
      BY <2>6, SignedEffect DEF TypeInv, TypeOK, RequestOK, AdminRevokeAccountSessions
    <2>7. CASE PasswordResetRequest(n) \/ ResetExpires(n)
      BY <2>7 DEF TypeInv, TypeOK, RequestOK, PasswordResetRequest, ResetExpires
    <2>8. CASE AdminRequirePasswordReset(n)
      <3>1. sessions' \in [Sessions -> Session \cup {None}]
        BY <2>8, SignedEffect DEF AdminRequirePasswordReset, SignOut
      <3>2. request' \in [Requests -> Request] /\ RequestOK'
        BY <2>8, OvertakenEffect, StageOf, {"otp", "open"} \subseteq Stages
        DEF AdminRequirePasswordReset, RequestOK, Stages
      <3> QED  BY <2>8, <3>1, <3>2 DEF TypeInv, TypeOK, AdminRequirePasswordReset
    <2>9. CASE PasswordResetConfirm(n)
      <3>1. sessions' \in [Sessions -> Session \cup {None}]
        BY <2>9, SignedEffect DEF PasswordResetConfirm, SignOut
      <3>2. request' \in [Requests -> Request] /\ RequestOK'
        BY <2>9, OvertakenEffect, StageOf, {"forced", "otp", "open"} \subseteq Stages
        DEF PasswordResetConfirm, RequestOK, Stages
      <3>3. account' \in [Names -> Account]
        BY <2>9 DEF TypeInv, TypeOK, PasswordResetConfirm, SetPassword, Account
      <3> QED  BY <2>9, <3>1, <3>2, <3>3 DEF TypeInv, TypeOK, PasswordResetConfirm
    <2> QED  BY <1>4, <2>1, <2>2, <2>3, <2>4, <2>5, <2>6, <2>7, <2>8, <2>9 DEF Elsewhere
  <1>5. ASSUME NEW s \in Sessions, DropSession(s) PROVE TypeInv'
    BY <1>5 DEF TypeInv, TypeOK, RequestOK, DropSession
  <1>6. CASE UNCHANGED vars  BY <1>6 DEF TypeInv, TypeOK, RequestOK, vars
  <1> QED  BY <1>1, <1>2, <1>3, <1>4, <1>5, <1>6 DEF Next
-----------------------------------------------------------------------------
(***************************************************************************)
(* Sessions.  A step either leaves what they rest on alone, or is one of   *)
(* the few that change a password, a forced reset, a login or a session.   *)
(***************************************************************************)
LEMMA SessionInit == Init => SessionInv
  BY DEF Init, SessionInv, SessionsHonest, SignedOut, StepUpCurrent, ForcedUntilReset,
         LoginOK, StepUpOK, Live, Idle

(* What the parts say of one request, whatever the others do.               *)
LoginOf(r) ==
  /\ request[r].at \in {"forced", "otp", "open"} =>
       \/ request[r].password = account[request[r].name].password
       \/ "password" \in request[r].stale
  /\ request[r].at \in {"otp", "open"} /\ request[r].name \in forced =>
       "forced" \in request[r].stale

StepUpOf(r) ==
  /\ request[r].at \in {"confirm", "grant"}
  /\ Live(request[r].session)
  /\ sessions[request[r].session].name = request[r].name
  /\ sessions[request[r].session].via # "switch"
  => request[r].password = account[request[r].name].password

(* Nothing but one request moves, and it still satisfies its part.          *)
LEMMA RequestMoves ==
  ASSUME TypeInv, SessionInv, NEW r \in Requests,
         \A q \in Requests : q # r => request'[q] = request[q],
         \A n \in Names : account'[n].password = account[n].password,
         sessions' = sessions, forced' \subseteq forced,
         LoginOf(r)', StepUpOf(r)'
  PROVE  SessionInv'
  <1>1. LoginOK'
    <2> SUFFICES ASSUME NEW q \in Requests, q # r PROVE LoginOf(q)'
      BY DEF LoginOK, LoginOf
    <2> QED  BY StageOf DEF LoginOK, LoginOf, SessionInv
  <1>2. StepUpOK'
    <2> SUFFICES ASSUME NEW q \in Requests, q # r PROVE StepUpOf(q)'
      BY DEF StepUpOK, StepUpOf
    <2> QED  BY StageOf DEF StepUpOK, StepUpOf, SessionInv, Live
  <1>3. SessionsHonest'
    <2>1. \A s \in Sessions : Live(s) => sessions[s].name \in Names
      BY DEF TypeInv, TypeOK, Live, Session
    <2> QED
      BY <2>1 DEF SessionInv, SessionsHonest, SignedOut, StepUpCurrent, ForcedUntilReset, Live
  <1> QED  BY <1>1, <1>2, <1>3 DEF SessionInv

(* No request moves; a session that is still there is as it was, or is one  *)
(* that was opened for nobody at work and with the present password.        *)
LEMMA SessionsMove ==
  ASSUME TypeInv, SessionInv, request' = request, forced' \subseteq forced,
         \A n \in Names : account'[n].password = account[n].password,
         \A s \in Sessions : Live(s)' => \/ sessions'[s] = sessions[s] /\ Live(s)
             \/ /\ sessions'[s].via \in {"provider", "switch"}
                /\ sessions'[s].name \in Names
                /\ sessions'[s].password = account[sessions'[s].name].password
                /\ sessions'[s].step = None
                /\ \A r \in Requests : request[r].session = s => sessions'[s].via = "switch"
  PROVE  SessionInv'
  <1>1. LoginOK'  BY StageOf DEF LoginOK, SessionInv
  <1>2. StepUpOK'
    <2> SUFFICES ASSUME NEW r \in Requests, request[r].at \in {"confirm", "grant"},
                        Live(request[r].session)',
                        sessions'[request[r].session].name = request[r].name,
                        sessions'[request[r].session].via # "switch"
                 PROVE  request[r].password = account'[request[r].name].password
      BY DEF StepUpOK
    <2> QED  BY StageOf DEF StepUpOK, SessionInv
  <1>3. \A s \in Sessions : Live(s) => sessions[s].name \in Names
    BY DEF TypeInv, TypeOK, Live, Session
  <1>4. SignedOut'  BY <1>3 DEF SessionInv, SessionsHonest, SignedOut
  <1>5. StepUpCurrent'  BY <1>3 DEF SessionInv, SessionsHonest, StepUpCurrent
  <1>6. ForcedUntilReset'  BY <1>3 DEF SessionInv, SessionsHonest, ForcedUntilReset
  <1> QED  BY <1>1, <1>2, <1>4, <1>5, <1>6 DEF SessionInv, SessionsHonest

(* A new password or a forced reset signs the account out and overtakes the *)
(* logins that have read what it changes.                                   *)
LEMMA Overtakes ==
  ASSUME TypeInv, SessionInv, NEW n \in Names,
         \A m \in Names : m # n => account'[m].password = account[m].password,
         forced' \subseteq forced \cup {n}, sessions' = Signed(n),
         \A q \in Requests :
           \/ request'[q].at = "idle"
           \/ /\ request'[q].at = request[q].at /\ request'[q].name = request[q].name
              /\ request'[q].session = request[q].session
              /\ request'[q].password = request[q].password
              /\ request[q].stale \subseteq request'[q].stale
              /\ request[q].name = n /\ request[q].at \in {"forced", "otp", "open"} =>
                   \/ account'[n].password = account[n].password
                   \/ "password" \in request'[q].stale
              /\ request[q].name = n /\ request[q].at \in {"otp", "open"} =>
                   \/ n \notin forced'
                   \/ "forced" \in request'[q].stale
  PROVE  SessionInv'
  <1>1. \A s \in Sessions :
          Live(s)' => Live(s) /\ sessions'[s] = sessions[s] /\ sessions[s].name \in Names \ {n}
    BY SignedEffect DEF Live, TypeInv, TypeOK, Session
  <1>2. LoginOK'
    <2> SUFFICES ASSUME NEW q \in Requests PROVE LoginOf(q)'
      BY DEF LoginOK, LoginOf
    <2>1. LoginOf(q)  BY DEF SessionInv, LoginOK, LoginOf
    <2> QED  BY <2>1, StageOf DEF LoginOf
  <1>3. StepUpOK'
    <2> SUFFICES ASSUME NEW q \in Requests PROVE StepUpOf(q)'
      BY DEF StepUpOK, StepUpOf
    <2>1. StepUpOf(q)  BY DEF SessionInv, StepUpOK, StepUpOf
    <2> QED  BY <1>1, <2>1, StageOf DEF StepUpOf
  <1>4. SignedOut'  BY <1>1 DEF SessionInv, SessionsHonest, SignedOut
  <1>5. StepUpCurrent'  BY <1>1 DEF SessionInv, SessionsHonest, StepUpCurrent
  <1>6. ForcedUntilReset'  BY <1>1 DEF SessionInv, SessionsHonest, ForcedUntilReset
  <1> QED  BY <1>2, <1>3, <1>4, <1>5, <1>6 DEF SessionInv, SessionsHonest

LEMMA SessionStep == TypeInv /\ SessionInv /\ [Next]_vars => SessionInv'
  <1> SUFFICES ASSUME TypeInv, SessionInv, [Next]_vars PROVE SessionInv'  OBVIOUS
  <1> USE DEF setupVars, mailVars, resetVars, codeVars
  <1>0. \A q \in Requests : LoginOf(q) /\ StepUpOf(q)
    BY DEF SessionInv, LoginOK, StepUpOK, LoginOf, StepUpOf
  <1>1. ASSUME NEW r \in Requests, SignIn(r) PROVE SessionInv'
    <2>1. ASSUME NEW n \in Names, Login(r, n) \/ LinkAccount(r, n) PROVE SessionInv'
      <3>1. /\ sessions' = sessions /\ account' = account /\ forced' = forced
        BY <2>1 DEF Login, LinkAccount
      <3>2. LoginOf(r)' /\ StepUpOf(r)'
        BY <2>1, <3>1, LoginEffect DEF LoginOf, StepUpOf
      <3> QED  BY <2>1, <3>1, <3>2, LoginEffect, RequestMoves
    <2>2. CASE CheckForcedReset(r)
      <3>1. /\ sessions' = sessions /\ account' = account /\ forced' = forced
            /\ request[r].at = "forced" /\ request[r].name \in Names
        BY <2>2, StageOf DEF CheckForcedReset
      <3>2. CASE Done(r)
        <4>1. LoginOf(r)' /\ StepUpOf(r)'  BY <3>2, DoneEffect DEF LoginOf, StepUpOf
        <4> QED  BY <3>1, <3>2, <4>1, DoneEffect, RequestMoves
      <3>3. ASSUME NEW x \in {"otp", "open"}, Goto(r, x), request[r].name \notin forced
            PROVE  SessionInv'
        <4>1. LoginOf(r)' /\ StepUpOf(r)'
          BY <1>0, <3>1, <3>3, GotoEffect, x \in Stages DEF LoginOf, StepUpOf, Stages
        <4> QED  BY <3>1, <3>3, <4>1, GotoEffect, RequestMoves DEF Stages
      <3> QED  BY <2>2, <3>2, <3>3 DEF CheckForcedReset, MustReset
    <2>3. ASSUME Pass(r), request[r].at \in DOMAIN AfterCode,
                 UNCHANGED <<sessions, account, forced>>
          PROVE  SessionInv'
      <3>1. CASE Done(r)
        <4>1. LoginOf(r)' /\ StepUpOf(r)'  BY <3>1, DoneEffect DEF LoginOf, StepUpOf
        <4> QED  BY <2>3, <3>1, <4>1, DoneEffect, RequestMoves
      <3>2. ASSUME Goto(r, "open"), request[r].at = "otp" PROVE SessionInv'
        <4>1. LoginOf(r)' /\ StepUpOf(r)'
          BY <1>0, <2>3, <3>2, GotoEffect, StageOf, "open" \in Stages
          DEF LoginOf, StepUpOf, Stages
        <4> QED  BY <2>3, <3>2, <4>1, GotoEffect, RequestMoves DEF Stages
      <3>3. ASSUME Goto(r, "grant"), request[r].at = "confirm" PROVE SessionInv'
        <4>1. LoginOf(r)' /\ StepUpOf(r)'
          BY <1>0, <2>3, <3>3, GotoEffect, StageOf, "grant" \in Stages
          DEF LoginOf, StepUpOf, Stages, Live
        <4> QED  BY <2>3, <3>3, <4>1, GotoEffect, RequestMoves DEF Stages
      <3> QED  BY <2>3, <3>1, <3>2, <3>3 DEF Pass, AfterCode
    <2>4. CASE UseAuthenticator(r)  BY <2>3, <2>4 DEF UseAuthenticator
    <2>5. ASSUME NEW c \in Codes, ConsumeRecoveryCode(r, c) PROVE SessionInv'
      BY <2>3, <2>5 DEF ConsumeRecoveryCode
    <2>6. ASSUME NEW s \in Sessions, OpenSession(r, s) PROVE SessionInv'
      <3> DEFINE row == [name |-> request[r].name, password |-> request[r].password,
                         step |-> None, stale |-> request[r].stale, via |-> "password"]
      <3>1. /\ account' = account /\ forced' = forced /\ request[r].at = "open"
            /\ request[r].name \in Names /\ Free(s)
        BY <2>6, StageOf DEF OpenSession
      <3>2. \A t \in Sessions : sessions'[t] = IF t = s THEN row ELSE sessions[t]
        BY <2>6 DEF OpenSession, TypeInv, TypeOK
      <3>3. /\ row.password = account[row.name].password \/ "password" \in row.stale
            /\ row.name \in forced => "forced" \in row.stale
            /\ row.step = None
        BY <1>0, <3>1 DEF LoginOf
      <3> HIDE DEF row
      <3>4. LoginOK' /\ StepUpOK'
        <4>1. \A q \in Requests : q # r => request'[q] = request[q] /\ request[q].session # s
          BY <2>6, <3>1, DoneEffect DEF OpenSession, Free
        <4>2. request'[r].at = "idle"  BY <2>6, DoneEffect DEF OpenSession
        <4>3. LoginOK'  BY <3>1, <4>1, <4>2 DEF SessionInv, LoginOK
        <4>4. StepUpOK'
          <5> SUFFICES ASSUME NEW q \in Requests, q # r PROVE StepUpOf(q)'
            BY <4>2 DEF StepUpOK, StepUpOf
          <5>1. StepUpOf(q)  BY <1>0
          <5> QED  BY <3>1, <3>2, <4>1, <5>1, StageOf DEF StepUpOf, Live
        <4> QED  BY <4>3, <4>4
      <3>5. SignedOut'
        BY <3>1, <3>2, <3>3 DEF SessionInv, SessionsHonest, SignedOut, Live
      <3>6. StepUpCurrent'
        BY <3>1, <3>2, <3>3 DEF SessionInv, SessionsHonest, StepUpCurrent, Live
      <3>7. ForcedUntilReset'
        BY <3>1, <3>2, <3>3 DEF SessionInv, SessionsHonest, ForcedUntilReset, Live
      <3> QED  BY <3>4, <3>5, <3>6, <3>7 DEF SessionInv, SessionsHonest
    <2> QED  BY <1>1, <2>1, <2>2, <2>4, <2>5, <2>6 DEF SignIn
  <1>2. ASSUME NEW r \in Requests, Security(r) PROVE SessionInv'
    <2>1. ASSUME UNCHANGED <<sessions, account, forced>>,
                 \A q \in Requests : q # r => request'[q] = request[q],
                 request'[r].at \notin {"forced", "otp", "open", "confirm", "grant"}
          PROVE  SessionInv'
      <3>1. LoginOf(r)' /\ StepUpOf(r)'  BY <2>1 DEF LoginOf, StepUpOf
      <3> QED  BY <2>1, <3>1, RequestMoves
    <2>2. ASSUME NEW s \in Sessions, NEW kind \in Kinds, Auth(r, s, kind) PROVE SessionInv'
      <3>1. request'[r].at = kind /\ \A q \in Requests : q # r => request'[q] = request[q]
        BY <2>2 DEF Auth, TypeInv, TypeOK, Idle
      <3> QED  BY <2>1, <2>2, <3>1 DEF Auth, Kinds
    <2>3. CASE Read(r)
      <3>1. request[r].name \in Names  BY <2>3, StageOf DEF Read, Kinds
      <3>2. PICK x \in Stages :
              /\ x \notin {"forced", "otp", "open"}
              /\ request' = [request EXCEPT ![r].at = x,
                               ![r].password = account[request[r].name].password]
        BY <2>3, ReadGoesOn
      <3>3. /\ \A q \in Requests : q # r => request'[q] = request[q]
            /\ request'[r].at = x /\ request'[r].name = request[r].name
            /\ request'[r].password = account[request[r].name].password
        BY <3>2 DEF TypeInv, TypeOK, Request
      <3>4. sessions' = sessions /\ account' = account /\ forced' = forced
        BY <2>3 DEF Read
      <3>5. LoginOf(r)' /\ StepUpOf(r)'  BY <3>2, <3>3, <3>4 DEF LoginOf, StepUpOf
      <3> QED  BY <3>3, <3>4, <3>5, RequestMoves
    <2>4. CASE SecurityStepUp(r)
      <3> DEFINE s == request[r].session
      <3>1. /\ account' = account /\ forced' = forced /\ request[r].at = "grant"
            /\ s \in Sessions /\ request[r].name \in Names
        BY <2>4, StageOf DEF SecurityStepUp
      <3>2. /\ \A q \in Requests : q # r => request'[q] = request[q]
            /\ request'[r].at = "idle"
        BY <2>4, DoneEffect DEF SecurityStepUp
      <3>3. CASE ~StillMine(r)
        <4>1. sessions' = sessions  BY <2>4, <3>3 DEF SecurityStepUp
        <4> QED  BY <2>1, <3>1, <3>2, <4>1
      <3>4. CASE StillMine(r)
        <4>1. sessions[s] \in Session /\ sessions[s].name = request[r].name /\ Live(s)
          BY <3>1, <3>4 DEF StillMine, Live, TypeInv, TypeOK
        <4>2. sessions' = [sessions EXCEPT ![s].step = request[r].password]
          BY <2>4, <3>4 DEF SecurityStepUp
        <4>3. /\ \A t \in Sessions : t # s => sessions'[t] = sessions[t]
              /\ sessions'[s].name = sessions[s].name /\ sessions'[s].via = sessions[s].via
              /\ sessions'[s].password = sessions[s].password
              /\ sessions'[s].stale = sessions[s].stale
              /\ sessions'[s].step = request[r].password
          BY <3>1, <4>1, <4>2 DEF TypeInv, TypeOK, Session
        <4>4. sessions[s].via # "switch" =>
                request[r].password = account[sessions[s].name].password
          BY <1>0, <3>1, <4>1 DEF StepUpOf
        <4>5. LoginOK'  BY <3>1, <3>2 DEF SessionInv, LoginOK
        <4>6. StepUpOK'
          <5> SUFFICES ASSUME NEW q \in Requests, q # r PROVE StepUpOf(q)'
            BY <3>2 DEF StepUpOK, StepUpOf
          <5>1. StepUpOf(q)  BY <1>0
          <5> QED  BY <3>1, <3>2, <4>1, <4>3, <5>1, StageOf DEF StepUpOf, Live
        <4> HIDE DEF s
        <4>7. SignedOut'
          BY <3>1, <4>1, <4>3 DEF SessionInv, SessionsHonest, SignedOut, Live
        <4>8. StepUpCurrent'
          BY <3>1, <4>1, <4>3, <4>4 DEF SessionInv, SessionsHonest, StepUpCurrent, Live
        <4>9. ForcedUntilReset'
          BY <3>1, <4>1, <4>3 DEF SessionInv, SessionsHonest, ForcedUntilReset, Live
        <4> QED  BY <4>5, <4>6, <4>7, <4>8, <4>9 DEF SessionInv, SessionsHonest
      <3> QED  BY <3>3, <3>4
    <2>5. CASE SecurityPassword(r)
      <3> DEFINE n == request[r].name
                 o == Overtaken(n, {"forced", "otp", "open"}, "password")
      <3>1. n \in Names  BY <2>5, StageOf DEF SecurityPassword
      <3>2. request' = [o EXCEPT ![r] = Idle] /\ forced' = forced /\ sessions' = Signed(n)
        BY <2>5 DEF SecurityPassword, SignOut
      <3>3. /\ o \in [Requests -> Request]
            /\ \A q \in Requests :
              /\ o[q].at = request[q].at /\ o[q].name = request[q].name
              /\ o[q].session = request[q].session /\ o[q].password = request[q].password
              /\ request[q].stale \subseteq o[q].stale
              /\ request[q].name = n /\ request[q].at \in {"forced", "otp", "open"} =>
                   "password" \in o[q].stale
        BY <3>1, OvertakenEffect, {"forced", "otp", "open"} \subseteq Stages DEF Stages
      <3>4. \A m \in Names : m # n => account'[m] = account[m]
        BY <2>5, <3>1 DEF SecurityPassword, SetPassword, TypeInv, TypeOK
      <3> HIDE DEF o
      <3>5. \A q \in Requests : request'[q].at = "idle" \/ request'[q] = o[q]
        BY <3>2, <3>3 DEF Idle
      <3>6. \A q \in Requests :
              request[q].name = n /\ request[q].at \in {"otp", "open"} =>
                n \notin forced' \/ "forced" \in o[q].stale
        BY <1>0, <3>2, <3>3 DEF LoginOf
      <3> HIDE DEF n
      <3> QED  BY <3>1, <3>2, <3>3, <3>4, <3>5, <3>6, Overtakes
    <2>6. CASE \E e \in Addresses : SecurityEmail(r, e)
      BY <2>1, <2>6, DoneEffect DEF SecurityEmail
    <2>7. CASE SecurityTOTPSetup(r) \/ SecurityTOTPEnable(r) \/ SecurityTOTPDisable(r)
      BY <2>1, <2>7, DoneEffect DEF SecurityTOTPSetup, SecurityTOTPEnable, SecurityTOTPDisable
    <2>8. CASE Refuse(r)  BY <2>1, <2>8, DoneEffect DEF Refuse
    <2> QED  BY <1>2, <2>2, <2>3, <2>4, <2>5, <2>6, <2>7, <2>8 DEF Security
  <1>3. ASSUME NEW r \in Requests, Setup(r) PROVE SessionInv'
    <2>1. /\ sessions' = sessions /\ forced' = forced
          /\ \A q \in Requests : q # r => request'[q] = request[q]
          /\ request'[r].at \in {"claim", "crown", "idle"}
      BY <1>3, GotoEffect, DoneEffect, {"claim", "crown"} \subseteq Stages
      DEF Setup, ClaimSetup, InspectAdmins, FinishSetup, Stages
    <2>2. \A m \in Names : account'[m].password = account[m].password
      <3>1. CASE account' = account  BY <3>1
      <3>2. ASSUME NEW n \in Names, Make(n, "active") PROVE account'[n].password = account[n].password
            /\ \A m \in Names : m # n => account'[m] = account[m]
        BY <3>2, MakeEffect
      <3> QED  BY <1>3, <3>1, <3>2 DEF Setup, ClaimSetup, InspectAdmins, FinishSetup
    <2>3. LoginOf(r)' /\ StepUpOf(r)'  BY <2>1 DEF LoginOf, StepUpOf
    <2> QED  BY <2>1, <2>2, <2>3, RequestMoves
  <1>4. ASSUME NEW n \in Names, Elsewhere(n) PROVE SessionInv'
    <2>1. CASE BootstrapAccount(n) \/ Register(n) \/ EmailVerificationConfirm(n)
      <3>1. \A m \in Names : account'[m].password = account[m].password
        BY <2>1, MakeEffect, ConfirmEffect DEF BootstrapAccount, Register
      <3> QED
        BY <2>1, <3>1, SessionsMove
        DEF BootstrapAccount, Register, EmailVerificationConfirm, Live
    <2>2. CASE \/ EmailVerificationResend(n) \/ PasswordResetRequest(n) \/ ResetExpires(n)
               \/ AdminRevokeAccountSessions(n)
      <3>1. /\ account' = account /\ forced' = forced /\ request' = request
            /\ \A s \in Sessions : Live(s)' => sessions'[s] = sessions[s] /\ Live(s)
        BY <2>2, SignedEffect
        DEF EmailVerificationResend, PasswordResetRequest, ResetExpires,
            AdminRevokeAccountSessions, Live
      <3> QED  BY <3>1, SessionsMove
    <2>3. ASSUME NEW s \in Sessions, IssuePortalSession(n, s) \/ IdentitySwitchAccount(s, n)
          PROVE SessionInv'
      <3>1. account' = account /\ forced' = forced /\ request' = request
        BY <2>3 DEF IssuePortalSession, IdentitySwitchAccount
      <3>2. /\ \A t \in Sessions : t # s => sessions'[t] = sessions[t]
            /\ sessions'[s].via \in {"provider", "switch"} /\ sessions'[s].name = n
            /\ sessions'[s].password = account[n].password /\ sessions'[s].step = None
            /\ sessions'[s].via # "switch" => \A r \in Requests : request[r].session # s
        BY <2>3 DEF IssuePortalSession, IdentitySwitchAccount, Free, TypeInv, TypeOK
      <3> QED  BY <3>1, <3>2, SessionsMove DEF Live
    <2>4. CASE AdminRequirePasswordReset(n)
      <3>1. /\ account' = account /\ forced' = forced \cup {n} /\ sessions' = Signed(n)
            /\ request' = Overtaken(n, {"otp", "open"}, "forced")
        BY <2>4 DEF AdminRequirePasswordReset, SignOut
      <3>2. \A q \in Requests :
              /\ request'[q].at = request[q].at /\ request'[q].name = request[q].name
              /\ request'[q].session = request[q].session
              /\ request'[q].password = request[q].password
              /\ request[q].stale \subseteq request'[q].stale
              /\ request[q].name = n /\ request[q].at \in {"otp", "open"} =>
                   "forced" \in request'[q].stale
        BY <3>1, OvertakenEffect, {"otp", "open"} \subseteq Stages DEF Stages
      <3> QED  BY <3>1, <3>2, Overtakes
    <2>5. CASE PasswordResetConfirm(n)
      <3>1. /\ forced' = forced \ {n} /\ sessions' = Signed(n)
            /\ request' = Overtaken(n, {"forced", "otp", "open"}, "password")
            /\ \A m \in Names : m # n => account'[m] = account[m]
        BY <2>5 DEF PasswordResetConfirm, SignOut, SetPassword, TypeInv, TypeOK
      <3>2. \A q \in Requests :
              /\ request'[q].at = request[q].at /\ request'[q].name = request[q].name
              /\ request'[q].session = request[q].session
              /\ request'[q].password = request[q].password
              /\ request[q].stale \subseteq request'[q].stale
              /\ request[q].name = n /\ request[q].at \in {"forced", "otp", "open"} =>
                   "password" \in request'[q].stale
        BY <3>1, OvertakenEffect, {"forced", "otp", "open"} \subseteq Stages DEF Stages
      <3> QED  BY <3>1, <3>2, Overtakes
    <2> QED  BY <1>4, <2>1, <2>2, <2>3, <2>4, <2>5 DEF Elsewhere
  <1>5. ASSUME NEW s \in Sessions, DropSession(s) PROVE SessionInv'
    <2>1. \A t \in Sessions : Live(t)' => sessions'[t] = sessions[t] /\ Live(t)
      BY <1>5 DEF DropSession, Live, TypeInv, TypeOK
    <2> QED  BY <1>5, <2>1, SessionsMove DEF DropSession
  <1>6. CASE UNCHANGED vars  BY <1>6, SessionsMove DEF vars, Live
  <1> QED  BY <1>1, <1>2, <1>3, <1>4, <1>5, <1>6 DEF Next
-----------------------------------------------------------------------------
(***************************************************************************)
(* Recovery codes.                                                         *)
(***************************************************************************)
LEMMA CodesInit == Init => CodesOK
  BY DEF Init, CodesOK

LEMMA CodesStep == TypeInv /\ CodesOK /\ [Next]_vars => CodesOK'
  <1> SUFFICES ASSUME TypeInv, CodesOK, [Next]_vars PROVE CodesOK'  OBVIOUS
  <1> USE DEF setupVars, mailVars, resetVars, codeVars
  <1>1. CASE UNCHANGED <<codes, issued, spent>>  BY <1>1 DEF CodesOK
  <1>2. ASSUME NEW r \in Requests, NEW c \in Codes, ConsumeRecoveryCode(r, c) PROVE CodesOK'
    <2> DEFINE n == request[r].name
    <2>1. /\ n \in Names /\ c \in codes[n] /\ issued' = issued
          /\ codes' = [codes EXCEPT ![n] = @ \ {c}] /\ spent' = [spent EXCEPT ![c] = @ + 1]
      BY <1>2, StageOf DEF ConsumeRecoveryCode, AfterCode, Spend, Accepted
    <2> HIDE DEF n
    <2>2. /\ \A m \in Names : codes'[m] = IF m = n THEN codes[m] \ {c} ELSE codes[m]
          /\ \A d \in Codes : spent'[d] = IF d = c THEN spent[d] + 1 ELSE spent[d]
      BY <2>1 DEF TypeInv, TypeOK
    <2>3. spent[c] = 0 /\ c <= issued /\ \A m \in Names : m # n => c \notin codes[m]
      BY <2>1 DEF CodesOK
    <2>4. \A d \in Codes : d > issued => d # c  BY <2>3 DEF TypeInv, TypeOK, Codes
    <2> QED  BY <2>1, <2>2, <2>3, <2>4 DEF CodesOK
  <1>3. ASSUME NEW r \in Requests, SecurityTOTPEnable(r) PROVE CodesOK'
    <2> DEFINE n == request[r].name
    <2>1. /\ n \in Names /\ issued < MaxIssued /\ issued' = issued + 1 /\ spent' = spent
          /\ codes' = [codes EXCEPT ![n] = {issued + 1}]
      BY <1>3, StageOf DEF SecurityTOTPEnable
    <2> HIDE DEF n
    <2>2. \A m \in Names : codes'[m] = IF m = n THEN {issued + 1} ELSE codes[m]
      BY <2>1 DEF TypeInv, TypeOK
    <2>3. issued \in Nat /\ issued + 1 \in Codes
      BY <2>1, AccountsAssumption DEF TypeInv, TypeOK, Codes
    <2>4. spent[issued + 1] = 0 /\ \A m \in Names : issued + 1 \notin codes[m]
      BY <2>3 DEF CodesOK
    <2>5. \A d \in Codes : d \in Nat  BY DEF Codes
    <2> QED  BY <2>1, <2>2, <2>3, <2>4, <2>5 DEF CodesOK
  <1>4. ASSUME NEW r \in Requests, SecurityTOTPDisable(r) PROVE CodesOK'
    <2> DEFINE n == request[r].name
    <2>1. /\ n \in Names /\ issued' = issued /\ codes' = [codes EXCEPT ![n] = {}]
          /\ spent' = spent \/ \E c \in codes[n] : spent' = [spent EXCEPT ![c] = @ + 1]
      BY <1>4, StageOf DEF SecurityTOTPDisable, Accepted
    <2> HIDE DEF n
    <2>2. \A m \in Names : codes'[m] = IF m = n THEN {} ELSE codes[m]
      BY <2>1 DEF TypeInv, TypeOK
    <2>3. CASE spent' = spent  BY <2>1, <2>2, <2>3 DEF CodesOK
    <2>4. ASSUME NEW c \in codes[n], spent' = [spent EXCEPT ![c] = @ + 1] PROVE CodesOK'
      <3>1. c \in Codes /\ spent[c] = 0 /\ c <= issued
        BY <2>1 DEF TypeInv, TypeOK, CodesOK
      <3>2. \A m \in Names : m # n => c \notin codes[m]  BY <2>1, <3>1 DEF CodesOK
      <3>3. \A d \in Codes : spent'[d] = IF d = c THEN spent[d] + 1 ELSE spent[d]
        BY <2>4, <3>1 DEF TypeInv, TypeOK
      <3>4. \A d \in Codes : d > issued => d # c
        BY <3>1 DEF TypeInv, TypeOK, Codes
      <3> QED  BY <2>1, <2>2, <3>1, <3>2, <3>3, <3>4 DEF CodesOK
    <2> QED  BY <2>1, <2>3, <2>4
  <1>5. ASSUME NEW r \in Requests, SignIn(r) PROVE CodesOK'
    BY <1>1, <1>2, <1>5
    DEF SignIn, Login, LinkAccount, CheckForcedReset, UseAuthenticator, OpenSession
  <1>6. ASSUME NEW r \in Requests, Security(r) PROVE CodesOK'
    BY <1>1, <1>3, <1>4, <1>6
    DEF Security, Auth, Read, SecurityStepUp, SecurityPassword, SecurityEmail,
        SecurityTOTPSetup, Refuse
  <1>7. ASSUME NEW r \in Requests, Setup(r) PROVE CodesOK'
    BY <1>1, <1>7 DEF Setup, ClaimSetup, InspectAdmins, FinishSetup
  <1>8. ASSUME NEW n \in Names, Elsewhere(n) PROVE CodesOK'
    BY <1>1, <1>8
    DEF Elsewhere, BootstrapAccount, Register, EmailVerificationResend,
        EmailVerificationConfirm, IssuePortalSession, IdentitySwitchAccount,
        AdminRevokeAccountSessions, PasswordResetRequest, ResetExpires,
        AdminRequirePasswordReset, PasswordResetConfirm
  <1> QED  BY <1>1, <1>5, <1>6, <1>7, <1>8 DEF Next, DropSession, vars
-----------------------------------------------------------------------------
(***************************************************************************)
(* E-mail addresses.                                                       *)
(***************************************************************************)
LEMMA MailInit == Init => MailInv
  BY DEF Init, MailInv, EmailProven, LetterOK, WriterOK, Idle, Kinds

Writing == Kinds \cup {"letter"}

(* Neither addresses nor letters change; accounts stay active, and a request*)
(* that may come to write a letter is for an active account.                *)
LEMMA MailFrame ==
  ASSUME TypeInv, MailInv, UNCHANGED <<verify, proven>>,
         \A n \in Names : /\ account'[n].email = account[n].email
                          /\ account[n].status = "active" => account'[n].status = "active",
         \A q \in Requests :
           \/ request'[q].at \notin Writing
           \/ request'[q].name \in Names /\ account'[request'[q].name].status = "active"
           \/ request[q].at \in Writing /\ request'[q].name = request[q].name
  PROVE  MailInv'
  <1>1. EmailProven'  BY DEF MailInv, EmailProven
  <1>2. LetterOK'  BY DEF MailInv, LetterOK
  <1>3. \A q \in Requests : request[q].at \in Writing => request[q].name \in Names
    BY StageOf DEF Writing, Kinds
  <1>4. WriterOK'  BY <1>3 DEF MailInv, WriterOK, Writing
  <1> QED  BY <1>1, <1>2, <1>4 DEF MailInv

LEMMA MailStep == TypeInv /\ MailInv /\ [Next]_vars => MailInv'
  <1> SUFFICES ASSUME TypeInv, MailInv, [Next]_vars PROVE MailInv'  OBVIOUS
  <1> USE DEF setupVars, mailVars, resetVars, codeVars
  <1>1. ASSUME UNCHANGED <<account, verify, proven>>, NEW r \in Requests,
               \A q \in Requests : q # r => request'[q] = request[q],
               request'[r].at \notin Writing
        PROVE  MailInv'
    BY <1>1, MailFrame
  <1>2. ASSUME NEW r \in Requests, SignIn(r) PROVE MailInv'
    <2>1. ASSUME NEW n \in Names, Login(r, n) \/ LinkAccount(r, n) PROVE MailInv'
      BY <1>1, <2>1, LoginEffect DEF Login, LinkAccount, Writing, Kinds
    <2>2. CASE CheckForcedReset(r)
      BY <1>1, <2>2, GotoEffect, DoneEffect, {"otp", "open"} \subseteq Stages
      DEF CheckForcedReset, Writing, Kinds, Stages
    <2>3. ASSUME Pass(r), request[r].at \in DOMAIN AfterCode, UNCHANGED <<account, verify, proven>>
          PROVE MailInv'
      <3>1. Done(r) \/ Goto(r, "open") \/ Goto(r, "grant")
        BY <2>3 DEF Pass, AfterCode
      <3> QED
        BY <1>1, <2>3, <3>1, GotoEffect, DoneEffect, {"grant", "open"} \subseteq Stages
        DEF Writing, Kinds, Stages
    <2>4. CASE UseAuthenticator(r)  BY <2>3, <2>4 DEF UseAuthenticator
    <2>5. ASSUME NEW c \in Codes, ConsumeRecoveryCode(r, c) PROVE MailInv'
      BY <2>3, <2>5 DEF ConsumeRecoveryCode
    <2>6. CASE \E s \in Sessions : OpenSession(r, s)
      BY <1>1, <2>6, DoneEffect DEF OpenSession, Writing, Kinds
    <2> QED  BY <1>2, <2>1, <2>2, <2>4, <2>5, <2>6 DEF SignIn
  <1>3. ASSUME NEW r \in Requests, Security(r) PROVE MailInv'
    <2>1. ASSUME UNCHANGED <<account, verify, proven>>, Done(r) PROVE MailInv'
      BY <1>1, <2>1, DoneEffect DEF Writing, Kinds
    <2>2. ASSUME NEW s \in Sessions, NEW kind \in Kinds, Auth(r, s, kind) PROVE MailInv'
      <3>1. sessions[s].name \in Names  BY <2>2 DEF TypeInv, TypeOK, Auth, Live, Session
      <3>2. /\ request'[r].name = sessions[s].name
            /\ \A q \in Requests : q # r => request'[q] = request[q]
        BY <2>2 DEF Auth, TypeInv, TypeOK, Idle
      <3>3. account[sessions[s].name].status = "active" /\ UNCHANGED <<account, verify, proven>>
        BY <2>2 DEF Auth
      <3>4. \A q \in Requests :
              \/ request'[q].name \in Names /\ account'[request'[q].name].status = "active"
              \/ request'[q] = request[q]
        BY <3>1, <3>2, <3>3
      <3> QED  BY <3>3, <3>4, MailFrame
    <2>3. CASE Read(r)
      <3>1. PICK x \in Stages :
              request' = [request EXCEPT ![r].at = x,
                            ![r].password = account[request[r].name].password]
        BY <2>3, ReadGoesOn
      <3>2. /\ request[r].at \in Writing
            /\ \A q \in Requests : q # r => request'[q] = request[q]
            /\ request'[r].name = request[r].name
        BY <2>3, <3>1 DEF TypeInv, TypeOK, Request, Read, Writing
      <3> QED  BY <2>3, <3>2, MailFrame DEF Read
    <2>4. CASE SecurityStepUp(r) \/ Refuse(r)
      BY <2>1, <2>4 DEF SecurityStepUp, Refuse
    <2>5. CASE SecurityTOTPSetup(r) \/ SecurityTOTPEnable(r) \/ SecurityTOTPDisable(r)
      BY <2>1, <2>5 DEF SecurityTOTPSetup, SecurityTOTPEnable, SecurityTOTPDisable
    <2>6. CASE SecurityPassword(r)
      <3> DEFINE n == request[r].name
                 o == Overtaken(n, {"forced", "otp", "open"}, "password")
      <3>1. n \in Names  BY <2>6, StageOf DEF SecurityPassword
      <3>2. request' = [o EXCEPT ![r] = Idle] /\ UNCHANGED <<verify, proven>>
        BY <2>6 DEF SecurityPassword
      <3>3. /\ o \in [Requests -> Request]
            /\ \A q \in Requests : o[q].at = request[q].at /\ o[q].name = request[q].name
        BY <3>1, OvertakenEffect, {"forced", "otp", "open"} \subseteq Stages DEF Stages
      <3>4. \A m \in Names :
              account'[m].email = account[m].email /\ account'[m].status = account[m].status
        BY <2>6, <3>1 DEF SecurityPassword, SetPassword, TypeInv, TypeOK, Account
      <3> HIDE DEF o
      <3>5. \A q \in Requests :
              \/ request'[q].at = "idle"
              \/ request'[q].at = request[q].at /\ request'[q].name = request[q].name
        BY <3>2, <3>3 DEF Idle
      <3> QED  BY <3>2, <3>4, <3>5, MailFrame DEF Writing, Kinds
    <2>7. ASSUME NEW e \in Addresses, SecurityEmail(r, e) PROVE MailInv'
      <3> DEFINE n == request[r].name
      <3>1. n \in Names /\ account[n].status = "active"
        BY <2>7, StageOf DEF SecurityEmail, MailInv, WriterOK
      <3>2. /\ account' = account /\ proven' = proven
            /\ verify' = [verify EXCEPT ![n] = [to |-> e, pending |-> e]]
        BY <2>7 DEF SecurityEmail
      <3> HIDE DEF n
      <3>3. \A m \in Names : verify'[m] = IF m = n THEN [to |-> e, pending |-> e] ELSE verify[m]
        BY <3>1, <3>2 DEF TypeInv, TypeOK
      <3>4. LetterOK'  BY <3>1, <3>2, <3>3 DEF MailInv, LetterOK
      <3>5. EmailProven' /\ WriterOK'
        BY <2>7, <3>2, DoneEffect DEF MailInv, EmailProven, WriterOK, SecurityEmail, Kinds
      <3> QED  BY <3>4, <3>5 DEF MailInv
    <2> QED  BY <1>3, <2>2, <2>3, <2>4, <2>5, <2>6, <2>7 DEF Security
  <1>4. ASSUME NEW n \in Names, account' = account \/ (Make(n, "active") /\ account[n].status = "absent"),
               UNCHANGED <<verify, proven>>,
               \A q \in Requests : request'[q] = request[q] \/ request'[q].at \notin Writing
        PROVE  MailInv'
    BY <1>4, MakeEffect, MailFrame
  <1>5. ASSUME NEW r \in Requests, Setup(r) PROVE MailInv'
    <2>1. \A q \in Requests : request'[q] = request[q] \/ request'[q].at \notin Writing
      BY <1>5, GotoEffect, DoneEffect, {"claim", "crown"} \subseteq Stages
      DEF Setup, ClaimSetup, InspectAdmins, FinishSetup, Stages, Writing, Kinds
    <2>2. CASE ClaimSetup(r) \/ InspectAdmins(r)
      BY <1>1, <2>2, GotoEffect, DoneEffect, {"claim", "crown"} \subseteq Stages
      DEF ClaimSetup, InspectAdmins, Stages, Writing, Kinds
    <2>3. ASSUME NEW n \in Names, FinishSetup(r, n) PROVE MailInv'
      BY <1>4, <2>1, <2>3 DEF FinishSetup
    <2> QED  BY <1>5, <2>2, <2>3 DEF Setup
  <1>6. ASSUME NEW n \in Names, Elsewhere(n) PROVE MailInv'
    <2>1. CASE BootstrapAccount(n)  BY <1>4, <2>1 DEF BootstrapAccount
    <2>2. CASE Register(n)
      <3>1. PICK x \in {"locked", "active"} : Make(n, x)  BY <2>2 DEF Register
      <3>2. /\ \A m \in Names : m # n => account'[m] = account[m]
            /\ account'[n].email = account[n].email /\ account[n].status = "absent"
        BY <2>2, <3>1, MakeEffect DEF Register
      <3>3. EmailProven'  BY <2>2, <3>2 DEF MailInv, EmailProven, Register
      <3>4. /\ WriterOK'
            /\ \A m \in Names : account[m].status = "active" => account'[m].status = "active"
        BY <2>2, <3>2, StageOf DEF MailInv, WriterOK, Register, Kinds
      <3>5. CASE verify' = verify  BY <3>3, <3>4, <3>5 DEF MailInv, LetterOK
      <3>6. CASE verify' = [verify EXCEPT ![n] = [to |-> Home[n], pending |-> None]]
        <4>1. \A m \in Names :
                verify'[m] = IF m = n THEN [to |-> Home[n], pending |-> None] ELSE verify[m]
          BY <3>6 DEF TypeInv, TypeOK
        <4> QED  BY <3>3, <3>4, <4>1 DEF MailInv, LetterOK
      <3> QED  BY <2>2, <3>3, <3>4, <3>5, <3>6 DEF MailInv, Register
    <2>3. CASE EmailVerificationResend(n)
      <3>1. /\ account' = account /\ proven' = proven /\ request' = request
            /\ verify[n] \in Letter /\ account[n].status = "locked"
            /\ verify[n] # None /\ Renew(n, account[n].email)
        BY <2>3 DEF EmailVerificationResend, MayResend, TypeInv, TypeOK
      <3>2. verify[n].pending = None  BY <3>1 DEF MailInv, LetterOK
      <3>3. \A m \in Names : verify'[m] = IF m = n
              THEN [to |-> account[n].email, pending |-> None] ELSE verify[m]
        BY <3>1, <3>2 DEF Renew, TypeInv, TypeOK
      <3>4. LetterOK'  BY <3>1, <3>3 DEF MailInv, LetterOK
      <3> QED  BY <3>1, <3>4 DEF MailInv, EmailProven, WriterOK
    <2>4. CASE EmailVerificationConfirm(n)
      <3>1. /\ \A m \in Names : /\ m # n => account'[m] = account[m] /\ proven'[m] = proven[m]
                                /\ verify'[m] = IF m = n THEN None ELSE verify[m]
            /\ proven'[n] = proven[n] \cup {verify[n].to}
            /\ verify[n].pending \in {None, verify[n].to}
        <4>1. \A m \in Names : m # n => account'[m] = account[m]
          BY <2>4, ConfirmEffect
        <4>2. /\ \A m \in Names : m # n => proven'[m] = proven[m]
              /\ proven'[n] = proven[n] \cup {verify[n].to}
          BY <2>4 DEF EmailVerificationConfirm, TypeInv, TypeOK
        <4>3. \A m \in Names : verify'[m] = IF m = n THEN None ELSE verify[m]
          BY <2>4 DEF EmailVerificationConfirm, TypeInv, TypeOK
        <4>4. verify[n] # None  BY <2>4 DEF EmailVerificationConfirm
        <4>5. verify[n].pending \in {None, verify[n].to}
          BY <4>4 DEF MailInv, LetterOK
        <4> QED  BY <4>1, <4>2, <4>3, <4>5
      <3>2. /\ account'[n].email = IF verify[n].pending = None THEN account[n].email
                                                             ELSE verify[n].pending
            /\ \A m \in Names : account[m].status = "active" => account'[m].status = "active"
        BY <2>4, <3>1, ConfirmEffect
      <3>3. EmailProven'  BY <3>1, <3>2 DEF MailInv, EmailProven
      <3>4. LetterOK'  BY <3>1 DEF MailInv, LetterOK
      <3>5. WriterOK'
        BY <2>4, <3>2, StageOf DEF MailInv, WriterOK, EmailVerificationConfirm, Kinds
      <3> QED  BY <3>3, <3>4, <3>5 DEF MailInv
    <2>5. CASE \/ \E s \in Sessions : IssuePortalSession(n, s) \/ IdentitySwitchAccount(s, n)
               \/ AdminRevokeAccountSessions(n) \/ PasswordResetRequest(n) \/ ResetExpires(n)
      BY <1>4, <2>5
      DEF IssuePortalSession, IdentitySwitchAccount, AdminRevokeAccountSessions,
          PasswordResetRequest, ResetExpires
    <2>6. CASE AdminRequirePasswordReset(n)
      <3>1. \A q \in Requests :
              request'[q].at = request[q].at /\ request'[q].name = request[q].name
        BY <2>6, OvertakenEffect, {"otp", "open"} \subseteq Stages
        DEF Stages, AdminRequirePasswordReset
      <3> QED  BY <2>6, <3>1, MailFrame DEF AdminRequirePasswordReset
    <2>7. CASE PasswordResetConfirm(n)
      <3>1. \A q \in Requests :
              request'[q].at = request[q].at /\ request'[q].name = request[q].name
        BY <2>7, OvertakenEffect, {"forced", "otp", "open"} \subseteq Stages
        DEF Stages, PasswordResetConfirm
      <3>2. \A m \in Names :
              account'[m].email = account[m].email /\ account'[m].status = account[m].status
        BY <2>7 DEF PasswordResetConfirm, SetPassword, TypeInv, TypeOK, Account
      <3> QED  BY <2>7, <3>1, <3>2, MailFrame DEF PasswordResetConfirm
    <2> QED  BY <1>6, <2>1, <2>2, <2>3, <2>4, <2>5, <2>6, <2>7 DEF Elsewhere
  <1>7. ASSUME NEW s \in Sessions, DropSession(s) PROVE MailInv'
    BY <1>7, MailFrame DEF DropSession
  <1>8. CASE UNCHANGED vars  BY <1>8, MailFrame DEF vars
  <1> QED  BY <1>2, <1>3, <1>5, <1>6, <1>7, <1>8 DEF Next
-----------------------------------------------------------------------------
(***************************************************************************)
(* First-time setup.                                                       *)
(***************************************************************************)
LEMMA SetupInit == Init => SetupInv
  BY DEF Init, SetupInv, Idle

LEMMA SetupStep == TypeInv /\ SetupInv /\ [Next]_vars => SetupInv'
  <1> SUFFICES ASSUME TypeInv, SetupInv, [Next]_vars PROVE SetupInv'  OBVIOUS
  <1> USE DEF setupVars, mailVars, resetVars, codeVars
  <1>1. ASSUME UNCHANGED <<setup, crowned>>,
               \A q \in Requests :
                 request'[q].at \notin {"claim", "crown"} \/ request'[q].at = request[q].at
        PROVE  SetupInv'
    BY <1>1 DEF SetupInv
  <1>2. ASSUME NEW r \in Requests, SignIn(r) PROVE SetupInv'
    <2>1. ASSUME NEW n \in Names, Login(r, n) \/ LinkAccount(r, n) PROVE SetupInv'
      BY <1>1, <2>1, LoginEffect DEF Login, LinkAccount
    <2>2. CASE CheckForcedReset(r)
      BY <1>1, <2>2, GotoEffect, DoneEffect, {"otp", "open"} \subseteq Stages
      DEF CheckForcedReset, Stages
    <2>3. ASSUME Pass(r), request[r].at \in DOMAIN AfterCode, UNCHANGED <<setup, crowned>>
          PROVE SetupInv'
      <3>1. Done(r) \/ Goto(r, "open") \/ Goto(r, "grant")
        BY <2>3 DEF Pass, AfterCode
      <3> QED
        BY <1>1, <2>3, <3>1, GotoEffect, DoneEffect, {"grant", "open"} \subseteq Stages
        DEF Stages
    <2>4. CASE UseAuthenticator(r)  BY <2>3, <2>4 DEF UseAuthenticator
    <2>5. ASSUME NEW c \in Codes, ConsumeRecoveryCode(r, c) PROVE SetupInv'
      BY <2>3, <2>5 DEF ConsumeRecoveryCode
    <2>6. CASE \E s \in Sessions : OpenSession(r, s)
      BY <1>1, <2>6, DoneEffect DEF OpenSession
    <2> QED  BY <1>2, <2>1, <2>2, <2>4, <2>5, <2>6 DEF SignIn
  <1>3. ASSUME NEW r \in Requests, Security(r) PROVE SetupInv'
    <2>1. ASSUME UNCHANGED <<setup, crowned>>, Done(r) PROVE SetupInv'
      BY <1>1, <2>1, DoneEffect
    <2>2. ASSUME NEW s \in Sessions, NEW kind \in Kinds, Auth(r, s, kind) PROVE SetupInv'
      <3>1. request'[r].at = kind /\ \A q \in Requests : q # r => request'[q] = request[q]
        BY <2>2 DEF Auth, TypeInv, TypeOK, Idle
      <3> QED  BY <1>1, <2>2, <3>1 DEF Auth, Kinds
    <2>3. CASE Read(r)
      <3>1. PICK x \in Stages :
              /\ x \notin {"claim", "crown"}
              /\ request' = [request EXCEPT ![r].at = x,
                               ![r].password = account[request[r].name].password]
        BY <2>3, ReadGoesOn
      <3>2. /\ \A q \in Requests : q # r => request'[q] = request[q]
            /\ request'[r].at = x
        BY <3>1 DEF TypeInv, TypeOK, Request
      <3> QED  BY <1>1, <2>3, <3>1, <3>2 DEF Read
    <2>4. CASE SecurityStepUp(r) \/ \E e \in Addresses : SecurityEmail(r, e)
      BY <2>1, <2>4 DEF SecurityStepUp, SecurityEmail
    <2>5. CASE SecurityTOTPSetup(r) \/ SecurityTOTPEnable(r) \/ SecurityTOTPDisable(r)
      BY <2>1, <2>5 DEF SecurityTOTPSetup, SecurityTOTPEnable, SecurityTOTPDisable
    <2>6. CASE SecurityPassword(r)
      <3> DEFINE n == request[r].name
                 o == Overtaken(n, {"forced", "otp", "open"}, "password")
      <3>1. n \in Names  BY <2>6, StageOf DEF SecurityPassword
      <3>2. request' = [o EXCEPT ![r] = Idle]  BY <2>6 DEF SecurityPassword
      <3>3. o \in [Requests -> Request] /\ \A q \in Requests : o[q].at = request[q].at
        BY <3>1, OvertakenEffect, {"forced", "otp", "open"} \subseteq Stages DEF Stages
      <3> HIDE DEF o
      <3>4. \A q \in Requests : request'[q].at = "idle" \/ request'[q].at = request[q].at
        BY <3>2, <3>3 DEF Idle
      <3> QED  BY <1>1, <2>6, <3>4 DEF SecurityPassword
    <2>7. CASE Refuse(r)
      <3>1. /\ \A q \in Requests : q # r => request'[q] = request[q]
            /\ request'[r].at = "idle" /\ crowned' = crowned
        BY <2>7, DoneEffect DEF Refuse
      <3>2. CASE setup' = setup  BY <1>1, <3>1, <3>2
      <3>3. CASE setup.holder = r /\ setup' = [setup EXCEPT !.holder = None]
        <4>1. setup'.holder = None /\ setup'.done = setup.done
          BY <3>3 DEF TypeInv, TypeOK
        <4>2. \A q \in Requests : request'[q].at \notin {"claim", "crown"}
          BY <3>1, <3>3 DEF SetupInv
        <4> QED  BY <3>1, <4>1, <4>2 DEF SetupInv
      <3> QED  BY <2>7, <3>2, <3>3 DEF Refuse
    <2> QED  BY <1>3, <2>2, <2>3, <2>4, <2>5, <2>6, <2>7 DEF Security
  <1>4. ASSUME NEW r \in Requests, Setup(r) PROVE SetupInv'
    <2>0. r # None  BY AccountsAssumption
    <2>1. CASE ClaimSetup(r)
      <3>1. /\ \A q \in Requests : q # r => request'[q] = request[q]
            /\ setup.holder = None /\ ~setup.done /\ crowned' = crowned
        BY <2>1, GotoEffect, "claim" \in Stages DEF ClaimSetup, RowFree, Stages
      <3>2. setup'.holder = r /\ setup'.done = setup.done
        BY <2>1 DEF ClaimSetup, TypeInv, TypeOK
      <3>3. \A q \in Requests : request[q].at \notin {"claim", "crown"}
        BY <3>1, AccountsAssumption DEF SetupInv
      <3> QED  BY <3>1, <3>2, <3>3 DEF SetupInv
    <2>2. ASSUME request[r].at \in {"claim", "crown"}, Done(r)
          PROVE  \A q \in Requests : request'[q].at \notin {"claim", "crown"}
      BY <2>2, DoneEffect DEF SetupInv
    <2>3. CASE InspectAdmins(r)
      <3>1. crowned' = crowned  BY <2>3 DEF InspectAdmins
      <3>2. CASE Goto(r, "crown") /\ setup' = setup
        <4>1. \A q \in Requests : request'[q].at \in {"claim", "crown"} =>
                request[q].at \in {"claim", "crown"}
          BY <2>3, <3>2, GotoEffect, "crown" \in Stages DEF InspectAdmins, Stages
        <4> QED  BY <3>1, <3>2, <4>1 DEF SetupInv
      <3>3. CASE Done(r) /\ setup' = [setup EXCEPT !.holder = None]
        <4>1. setup'.holder = None /\ setup'.done = setup.done
          BY <3>3 DEF TypeInv, TypeOK
        <4> QED  BY <2>2, <2>3, <3>1, <3>3, <4>1 DEF SetupInv, InspectAdmins
      <3> QED  BY <2>3, <3>2, <3>3 DEF InspectAdmins
    <2>4. ASSUME NEW n \in Names, FinishSetup(r, n) PROVE SetupInv'
      <3>1. \A q \in Requests : request'[q].at \notin {"claim", "crown"}
        BY <2>2, <2>4 DEF FinishSetup
      <3>2. setup.holder = r /\ ~setup.done /\ crowned = {}
        BY <2>0, <2>4 DEF FinishSetup, SetupInv
      <3>3. CASE account[n].status = "absent"
        <4>1. setup' = [done |-> TRUE, holder |-> None] /\ crowned' = {n}
          BY <2>4, <3>2, <3>3 DEF FinishSetup
        <4> QED  BY <3>1, <4>1 DEF SetupInv
      <3>4. CASE account[n].status # "absent"
        <4>1. setup' = [setup EXCEPT !.holder = None] /\ crowned' = crowned
          BY <2>4, <3>4 DEF FinishSetup
        <4>2. setup'.holder = None  BY <4>1 DEF TypeInv, TypeOK
        <4> QED  BY <3>1, <3>2, <4>1, <4>2 DEF SetupInv
      <3> QED  BY <3>3, <3>4
    <2> QED  BY <1>4, <2>1, <2>3, <2>4 DEF Setup
  <1>5. ASSUME NEW n \in Names, Elsewhere(n) PROVE SetupInv'
    <2>1. UNCHANGED <<setup, crowned>>
      BY <1>5
      DEF Elsewhere, BootstrapAccount, Register, EmailVerificationResend,
          EmailVerificationConfirm, IssuePortalSession, IdentitySwitchAccount,
          AdminRevokeAccountSessions, PasswordResetRequest, ResetExpires,
          AdminRequirePasswordReset, PasswordResetConfirm
    <2>2. \A st \in SUBSET Stages, w \in {"password", "forced"}, q \in Requests :
            Overtaken(n, st, w)[q].at = request[q].at
      BY OvertakenEffect
    <2>3. \/ request' = request \/ request' = Overtaken(n, {"otp", "open"}, "forced")
          \/ request' = Overtaken(n, {"forced", "otp", "open"}, "password")
      BY <1>5
      DEF Elsewhere, BootstrapAccount, Register, EmailVerificationResend,
          EmailVerificationConfirm, IssuePortalSession, IdentitySwitchAccount,
          AdminRevokeAccountSessions, PasswordResetRequest, ResetExpires,
          AdminRequirePasswordReset, PasswordResetConfirm
    <2>4. {"otp", "open"} \subseteq Stages /\ {"forced", "otp", "open"} \subseteq Stages
      BY DEF Stages
    <2>5. \A q \in Requests : request'[q].at = request[q].at  BY <2>2, <2>3, <2>4
    <2> QED  BY <1>1, <2>1, <2>5
  <1>6. CASE \E s \in Sessions : DropSession(s)  BY <1>1, <1>6 DEF DropSession
  <1>7. CASE UNCHANGED vars  BY <1>1, <1>7 DEF vars
  <1> QED  BY <1>2, <1>3, <1>4, <1>5, <1>6, <1>7 DEF Next
-----------------------------------------------------------------------------
(***************************************************************************)
(* The theorems.                                                           *)
(***************************************************************************)
(* The inductive invariant: types, honest sessions and logins, codes that    *)
(* are kept unspent, letters to the address they would set, one holder of    *)
(* first-time setup.                                                         *)
THEOREM Invariance == Spec => []IInv
  <1>1. Init => IInv
    BY TypeInit, SessionInit, CodesInit, MailInit, SetupInit DEF IInv
  <1>2. IInv /\ [Next]_vars => IInv'
    BY TypeStep, SessionStep, CodesStep, MailStep, SetupStep DEF IInv
  <1> QED  BY <1>1, <1>2, PTL DEF Spec

(* Every table and every request of the accounts keeps its type.             *)
THEOREM TypeCorrect == Spec => []TypeOK
  <1>1. IInv => TypeOK  BY DEF IInv, TypeInv
  <1> QED  BY <1>1, Invariance, PTL

(* A session stands for the present password and no forced reset, whatever   *)
(* logins, step-ups, switches, password changes and resets run beside it     *)
(* (server.go, security.go, recovery.go, identity.go).                       *)
THEOREM SessionsStayHonest == Spec => []SessionsHonest
  <1>1. IInv => SessionsHonest  BY DEF IInv, SessionInv
  <1> QED  BY <1>1, Invariance, PTL

(* A recovery code opens one door once, however many requests present it     *)
(* (consumeRecoveryCode), and a replaced code opens none.                    *)
THEOREM CodesAreSpentOnce == Spec => []RecoveryCodeOnce
  <1>1. IInv => RecoveryCodeOnce  BY DEF IInv, CodesOK, RecoveryCodeOnce
  <1> QED  BY <1>1, Invariance, PTL

(* No address gets into an account that its owner has not proven, although   *)
(* activation and change share a row and a resend renews it                  *)
(* (email_verification.go).                                                  *)
THEOREM AddressesAreProven == Spec => []EmailProven
  <1>1. IInv => EmailProven  BY DEF IInv, MailInv
  <1> QED  BY <1>1, Invariance, PTL

(* However many first-time setups run, beside bootstrap-account too, one     *)
(* administrator comes of them (setup.go).                                   *)
THEOREM OneSetup == Spec => []SetupOnce
  <1>1. IInv => SetupOnce
    <2> SUFFICES ASSUME IInv PROVE Cardinality(crowned) <= 1  BY DEF SetupOnce
    <2>1. CASE crowned = {}  BY <2>1, FS_EmptySet
    <2>2. ASSUME NEW n \in Names, crowned = {n} PROVE Cardinality(crowned) <= 1
      BY <2>2, FS_Singleton
    <2> QED  BY <2>1, <2>2 DEF IInv, SetupInv
  <1> QED  BY <1>1, Invariance, PTL
=============================================================================
