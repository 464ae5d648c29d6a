------------------------------- MODULE Moderation -------------------------------
(* Moderation commands and their sanctions (admin.go, moderation_cases.go) and the *)
(* character services of players (character_services.go).  The realm carries a      *)
(* command out and may fail to answer; the portal's rows are separate statements.   *)
EXTENDS Naturals, FiniteSets

CONSTANTS
  Entries,     \* rows of portal_moderation_log (bound); a sanction names its row
  Targets,     \* accounts
  Moderators,  \* staff requests handled at the same time
  None

VARIABLES
  log,         \* [Entries -> Entry or None]
  sanction,    \* [Entries -> "active", "lifted" or None]: portal_sanctions
  appeal,      \* [Entries -> status of portal_sanction_appeals or None]
  moderator,   \* [Moderators -> Moderator]
  carried,     \* history: entries whose command the realm carried out
  services,    \* portal_character_services: success, and whether the realm ran it
  pending      \* the character service under way

vars == <<log, sanction, appeal, moderator, carried, services, pending>>

Actions == {"ban", "unban", "mute", "unmute", "kick"}
Undoing(action) == IF action = "ban" THEN "unban" ELSE "unmute"
Entry == [action : Actions, target : Targets, status : {"review", "executed"}]
Moderator == [at : {"idle", "command", "executed", "record"}, entry : Entries \cup {None}]
Reviewed == {"reviewing", "accepted", "declined"}
Service == [success : BOOLEAN, ran : BOOLEAN]
NoService == [at |-> "none", row |-> [success |-> FALSE, ran |-> FALSE]]

TypeOK ==
  /\ log \in [Entries -> Entry \cup {None}] /\ carried \subseteq Entries
  /\ sanction \in [Entries -> {"active", "lifted", None}]
  /\ appeal \in [Entries -> Reviewed \cup {"submitted", None}]
  /\ moderator \in [Moderators -> Moderator]
  /\ services \subseteq Service /\ pending \in [at : {"none", "sent", "answered"}, row : Service]

Idle == [at |-> "idle", entry |-> None]

Init ==
  /\ log = [e \in Entries |-> None] /\ sanction = [e \in Entries |-> None]
  /\ appeal = [e \in Entries |-> None] /\ carried = {} /\ services = {}
  /\ moderator = [m \in Moderators |-> Idle] /\ pending = NoService

Go(m, stage) == moderator' = [moderator EXCEPT ![m].at = stage]
Quiet == UNCHANGED <<services, pending>>

(* adminModeration: the row comes before the command. *)
LogAction(m, e, action, target) ==
  /\ moderator[m].at = "idle" /\ log[e] = None
  /\ log' = [log EXCEPT ![e] = [action |-> action, target |-> target, status |-> "review"]]
  /\ moderator' = [moderator EXCEPT ![m] = [at |-> "command", entry |-> e]]
  /\ UNCHANGED <<sanction, appeal, carried>> /\ Quiet

Optimistic(ran, answers) == TRUE   \* mutant: an error of the command is not looked at

Confirmed(ran, answers) == ran /\ answers

(* ran: the realm carried it out; answers: in time.  Otherwise the answer is       *)
(* "uncertain" and the row stays in review.                                        *)
Command(m, ran, answers) ==
  LET e == moderator[m].entry
  IN  /\ moderator[m].at = "command"
      /\ carried' = IF ran THEN carried \cup {e} ELSE carried
      /\ IF Confirmed(ran, answers) THEN Go(m, "executed")
           ELSE moderator' = [moderator EXCEPT ![m] = Idle]
      /\ UNCHANGED <<log, sanction, appeal>> /\ Quiet

(* Its error is ignored. *)
MarkExecuted(m, fails) ==
  /\ moderator[m].at = "executed" /\ Go(m, "record")
  /\ log' = IF fails THEN log ELSE [log EXCEPT ![moderator[m].entry].status = "executed"]
  /\ UNCHANGED <<sanction, appeal, carried>> /\ Quiet

RecordSanction(m) ==
  LET e == moderator[m].entry
      action == log[e].action
      lifts == {f \in Entries : /\ sanction[f] = "active" /\ log[f].target = log[e].target
                                /\ action = Undoing(log[f].action)}
  IN  /\ moderator[m].at = "record" /\ moderator' = [moderator EXCEPT ![m] = Idle]
      /\ sanction' = CASE action \in {"ban", "mute"} -> [sanction EXCEPT ![e] = "active"]
                       [] action \in {"unban", "unmute"} ->
                            [f \in Entries |-> IF f \in lifts THEN "lifted" ELSE sanction[f]]
                       [] OTHER -> sanction
      /\ UNCHANGED <<log, appeal, carried>> /\ Quiet

(* A crash, or an error of recordSanction, which is ignored *)
Drop(m) ==
  /\ moderator[m].at # "idle" /\ moderator' = [moderator EXCEPT ![m] = Idle]
  /\ UNCHANGED <<log, sanction, appeal, carried>> /\ Quiet

(* One appeal for each sanction (unique sanction_id), lifted ones as well *)
CreateSanctionAppeal(e) ==
  /\ sanction[e] # None /\ appeal[e] = None
  /\ appeal' = [appeal EXCEPT ![e] = "submitted"]
  /\ UNCHANGED <<log, sanction, moderator, carried>> /\ Quiet

(* A decision does not touch the sanction. *)
AdminSanctionAppeal(e, status) ==
  /\ appeal[e] # None /\ appeal' = [appeal EXCEPT ![e] = status]
  /\ UNCHANGED <<log, sanction, moderator, carried>> /\ Quiet

Unchanged == UNCHANGED <<log, sanction, appeal, moderator, carried>>

(* characterService: checks on the character, then the command *)
CharacterService ==
  /\ pending.at = "none" /\ pending' = [pending EXCEPT !.at = "sent"]
  /\ UNCHANGED services /\ Unchanged

ServiceCommand(ran, answers) ==
  /\ pending.at = "sent" /\ UNCHANGED services /\ Unchanged
  /\ pending' = [at |-> "answered", row |-> [success |-> Confirmed(ran, answers), ran |-> ran]]

(* The row comes after the command, its error is ignored: a crash leaves none. *)
RecordService(crashes) ==
  /\ pending.at = "answered" /\ pending' = NoService /\ Unchanged
  /\ services' = IF crashes THEN services ELSE services \cup {pending.row}

Next ==
  \/ \E m \in Moderators :
       \/ \E e \in Entries, action \in Actions, target \in Targets :
            LogAction(m, e, action, target)
       \/ \E ran, answers \in BOOLEAN : Command(m, ran, answers)
       \/ \E fails \in BOOLEAN : MarkExecuted(m, fails)
       \/ RecordSanction(m) \/ Drop(m)
  \/ \E e \in Entries : \/ CreateSanctionAppeal(e)
                        \/ \E status \in Reviewed : AdminSanctionAppeal(e, status)
  \/ CharacterService \/ \E ran, answers \in BOOLEAN : ServiceCommand(ran, answers)
  \/ \E crashes \in BOOLEAN : RecordService(crashes)

Spec == Init /\ [][Next]_vars

--------------------------------------------------------------------------------
(* What the portal tells players and staff of its moderation happened on the realm: *)
(* a row shown as executed, a sanction and a successful service each stand on a     *)
(* command that the realm carried out, a sanction counts as lifted only after a     *)
(* carried out command that undoes it, and an appeal is about a sanction.           *)
(* "Realm response was uncertain; verify status before retrying" is all it says of   *)
(* the others.                                                                      *)
SanctionsReal ==
  /\ \A e \in Entries :
       /\ log[e] # None => (log[e].status = "executed" => e \in carried)
       /\ sanction[e] # None => e \in carried /\ log[e].action \in {"ban", "mute"}
       /\ sanction[e] = "lifted" => \E f \in carried :
            log[f].target = log[e].target /\ log[f].action = Undoing(log[e].action)
       /\ appeal[e] # None => sanction[e] # None
  /\ \A row \in services : row.success => row.ran
=================================================================================
