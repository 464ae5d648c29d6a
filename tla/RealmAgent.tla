------------------------------- MODULE RealmAgent -------------------------------
(* worldserver.conf as the realm agent (src/internal/realmagent/agent.go) and    *)
(* its operator write it, and the calls of the portal (realm_config.go) to the    *)
(* agent.  The agent works under one mutex on a file others may edit; the portal  *)
(* stops waiting after six seconds, the agent does not stop then.                 *)
EXTENDS Naturals, FiniteSets

CONSTANTS
  Calls,       \* requests of administrators at the portal (bound)
  Settings,    \* names the portal and the agent agree on
  Lines,       \* keys of worldserver.conf those names stand for
  KeysOf,      \* [Settings -> SUBSET Lines], no set empty and no two of them meeting:
               \* the agent's table "allowed"
  Values,
  None

Files == [Lines -> Values \cup {None}]
Profiles == [Settings -> Values]

VARIABLES
  conf,        \* worldserver.conf
  backups,     \* contents of the backup directory
  profile,     \* the displayed profile in portal_settings
  audit,       \* rows of portal_admin_audit: profile applied and backup named
  call,        \* [Calls -> Call]
  settled,     \* history: conf was not edited by hand since an apply under way read it
  lost         \* history: settled contents overwritten without a backup

vars == <<conf, backups, profile, audit, call, settled, lost>>
history == <<settled, lost>>

(* portal, agent: how far each side is; data: what apply has read *)
Call == [portal : {"idle", "waits", "gone", "answered"},
         agent : {"none", "queued", "read", "kept"},
         route : {"get", "apply"}, values : [Settings -> Values \cup {None}], data : Files,
         observed : [Settings -> Values \cup {None}]]

TypeOK ==
  /\ conf \in Files /\ backups \subseteq Files /\ profile \in Profiles
  /\ audit \subseteq Profiles \X Files /\ call \in [Calls -> Call]
  /\ settled \in BOOLEAN /\ lost \subseteq Files

Unknown == [s \in Settings |-> None]
NoFile == [l \in Lines |-> None]
Idle == [portal |-> "idle", agent |-> "none", route |-> "get", values |-> Unknown,
         data |-> NoFile, observed |-> Unknown]

(* A file nobody has managed yet *)
Init ==
  /\ conf \in Files /\ settled = TRUE /\ lost = {} /\ backups = {} /\ audit = {}
  /\ profile \in Profiles
  /\ call = [c \in Calls |-> Idle]

--------------------------------------------------------------------------------
(* Operators of the agent *)

(* replaceValues: every line of a setting is written or appended. *)
ReplaceValues(file, values) == [l \in Lines |->
  IF \E s \in Settings : l \in KeysOf[s]
    THEN values[CHOOSE s \in Settings : l \in KeysOf[s]] ELSE file[l]]

(* inspect: a value that all lines of the setting agree on *)
Inspect(file) == [s \in Settings |->
  IF \E v \in Values : \A l \in KeysOf[s] : file[l] = v
    THEN CHOOSE v \in Values : \A l \in KeysOf[s] : file[l] = v ELSE None]

(* realmConfigItems: what the administrator is shown *)
State(c, s) == IF call[c].observed[s] = None THEN "unknown"
               ELSE IF call[c].observed[s] = call[c].values[s] THEN "in_sync" ELSE "drifted"

Working == {c \in Calls : call[c].agent \in {"read", "kept"}}

NoMutex == TRUE   \* mutant: the file is read, kept and written without s.mu
MutexFree == Working = {}

--------------------------------------------------------------------------------
(* The portal *)

(* adminSettings *)
SaveSettings(p) ==
  /\ profile' = p /\ UNCHANGED <<conf, backups, audit, call, history>>

(* adminRealmConfig: the displayed profile is read, then the agent called. *)
AdminRealmConfig(c, route) ==
  /\ call[c].portal = "idle"
  /\ call' = [call EXCEPT ![c] = [portal |-> "waits", agent |-> "queued", route |-> route,
                values |-> profile, data |-> NoFile, observed |-> Unknown]]
  /\ UNCHANGED <<conf, backups, profile, audit, history>>

(* callRealmAgent gives up; the request is with the agent all the same. *)
GiveUp(c) ==
  /\ call[c].portal = "waits" /\ call' = [call EXCEPT ![c].portal = "gone"]
  /\ UNCHANGED <<conf, backups, profile, audit, history>>

(* The audit row is written after the answer, and its error ignored. *)
Record(c, ok) ==
  /\ call[c].portal = "answered" /\ call' = [call EXCEPT ![c] = Idle]
  /\ audit' = IF ok /\ call[c].route = "apply"
                THEN audit \cup {<<call[c].values, call[c].data>>} ELSE audit
  /\ UNCHANGED <<conf, backups, profile, history>>

--------------------------------------------------------------------------------
(* The agent *)

Answer(c, file) == call' = [call EXCEPT ![c] =
  IF @.portal = "waits"
    THEN [@ EXCEPT !.agent = "none", !.observed = Inspect(file), !.portal = "answered"]
    ELSE Idle]

Get(c) ==
  /\ call[c].agent = "queued" /\ call[c].route = "get" /\ MutexFree
  /\ Answer(c, conf) /\ UNCHANGED <<conf, backups, profile, audit, history>>

ReadConfig(c) ==
  /\ call[c].agent = "queued" /\ call[c].route = "apply" /\ MutexFree
  /\ call' = [call EXCEPT ![c].agent = "read", ![c].data = conf] /\ settled' = TRUE
  /\ UNCHANGED <<conf, backups, profile, audit, lost>>

Backup(c) ==
  /\ call[c].agent = "read"
  /\ backups' = backups \cup {call[c].data} /\ call' = [call EXCEPT ![c].agent = "kept"]
  /\ UNCHANGED <<conf, profile, audit, history>>

(* atomicWrite: a temporary file is renamed over the configuration. *)
AtomicWrite(c) ==
  LET updated == ReplaceValues(call[c].data, call[c].values)
  IN  /\ call[c].agent = "kept" /\ Answer(c, updated)
      /\ conf' = updated /\ settled' = TRUE
      /\ lost' = IF settled /\ conf \notin backups THEN lost \cup {conf} ELSE lost
      /\ UNCHANGED <<backups, profile, audit>>

(* The file or the backup directory cannot be read or written. *)
Fail(c) ==
  /\ call[c].agent # "none"
  /\ call' = [call EXCEPT ![c] = Idle]
  /\ UNCHANGED <<conf, backups, profile, audit, history>>

(* The agent is killed; what was renamed stays, what was not is a stray file. *)
Crash ==
  /\ call' = [c \in Calls |-> IF call[c].agent = "none" THEN call[c] ELSE Idle]
  /\ UNCHANGED <<conf, backups, profile, audit, history>>

(* The operator edits the file without the agent's mutex. *)
HandEdit(file) ==
  /\ conf' = file /\ settled' = (Working = {})
  /\ UNCHANGED <<backups, profile, audit, call, lost>>

--------------------------------------------------------------------------------
Next ==
  \/ \E c \in Calls :
       \/ \E route \in {"get", "apply"} : AdminRealmConfig(c, route)
       \/ GiveUp(c) \/ \E ok \in BOOLEAN : Record(c, ok)
       \/ Get(c) \/ ReadConfig(c) \/ Backup(c) \/ AtomicWrite(c) \/ Fail(c)
  \/ Crash
  \/ \E p \in Profiles : SaveSettings(p)
  \/ \E file \in Files : HandEdit(file)

Spec == Init /\ [][Next]_vars

--------------------------------------------------------------------------------
(* The agent never destroys a configuration (agent.go, apply: backup before       *)
(* atomicWrite, both under the mutex): what an apply replaced is in a             *)
(* backup, however calls, time-outs and crashes fall, unless an operator edited   *)
(* the file by hand while a call was being applied.                               *)
NothingLost == lost = {}

(* Every row of the portal's audit names a backup that exists, and what the       *)
(* administrator is shown of an answered apply is what he asked for.              *)
AuditRecoverable ==
  /\ \A a \in audit : a[2] \in backups
  /\ \A c \in Calls, s \in Settings :
       call[c].portal = "answered" /\ call[c].route = "apply" => State(c, s) = "in_sync"
=================================================================================
