----------------------------- MODULE PlayerRequests -----------------------------
(* What players file and staff decide: character transfers (transfers.go), privacy *)
(* requests (privacy.go), guild applications (recruitment.go).  All three count     *)
(* the requests that are open and insert a new one in two statements outside any    *)
(* transaction, and staff write a status over whatever is there.                    *)
EXTENDS Naturals, FiniteSets

CONSTANTS
  Forms,       \* rows of the three tables (bound)
  Subjects,    \* an account and, for a transfer or an application, character or guild
  KindOf,      \* [Subjects -> Kinds]
  Clerks,      \* filing requests handled at the same time
  None

Kinds == {"transfer", "privacy", "application"}

VARIABLES
  form,        \* [Forms -> Form or None]
  clerk,       \* [Clerks -> subject about to be inserted, or None; was it counted]
  recruiting,  \* portal_guild_recruitment.active
  excused      \* history: forms staff opened again after they were decided, and those
               \* inserted although the count had failed

vars == <<form, clerk, recruiting, excused>>

First(kind) == IF kind = "privacy" THEN "pending" ELSE "submitted"

SubmittedOnly(kind) == {First(kind)}   \* mutant: the count forgets forms in review

OpenStatuses(kind) ==
  CASE kind = "transfer"    -> {"submitted", "reviewing", "approved"}
    [] kind = "privacy"     -> {"pending", "processing"}
    [] kind = "application" -> {"submitted", "reviewing"}

(* What ends a form: the other statuses are those that block a new one. *)
Ending == {"rejected", "completed", "cancelled", "accepted", "declined", "withdrawn"}

(* privacyRequestCancel, withdrawGuildApplication: their WHERE, and what they set *)
Endable(kind) ==
  CASE kind = "transfer"    -> {}
    [] kind = "privacy"     -> {"pending"}
    [] kind = "application" -> {"submitted", "reviewing"}

Ended(kind) == IF kind = "privacy" THEN "cancelled" ELSE "withdrawn"

StaffStatuses(kind) ==
  CASE kind = "transfer"    -> {"submitted", "reviewing", "approved", "rejected", "completed"}
    [] kind = "privacy"     -> {"processing", "completed", "rejected"}
    [] kind = "application" -> {"submitted", "reviewing", "accepted", "declined"}

StatusesOf(kind) == StaffStatuses(kind) \cup {First(kind)}
  \cup (IF Endable(kind) = {} THEN {} ELSE {Ended(kind)})

(* stamped: completed_at *)
Form == [subject : Subjects, status : UNION {StatusesOf(kind) : kind \in Kinds},
         stamped : BOOLEAN]

Clerk == [subject : Subjects \cup {None}, counted : BOOLEAN]
Nothing == [subject |-> None, counted |-> FALSE]

TypeOK ==
  /\ form \in [Forms -> Form \cup {None}] /\ clerk \in [Clerks -> Clerk]
  /\ \A f \in Forms : form[f] # None =>
       /\ form[f].status \in StatusesOf(KindOf[form[f].subject])
       /\ form[f].stamped => KindOf[form[f].subject] # "application"
  /\ recruiting \in BOOLEAN /\ excused \subseteq Forms

Init ==
  /\ form = [f \in Forms |-> None] /\ clerk = [k \in Clerks |-> Nothing]
  /\ recruiting = FALSE /\ excused = {}

IsOpen(f) == form[f] # None /\ form[f].status \in OpenStatuses(KindOf[form[f].subject])
OpenOn(s) == {f \in Forms : IsOpen(f) /\ form[f].subject = s}

(* createTransfer, privacyDeletionRequest, createGuildApplication: SELECT COUNT.  *)
(* Only a transfer looks at its error: for the others a count that fails is 0.     *)
CountOpen(k, s, fails) ==
  /\ clerk[k] = Nothing
  /\ IF fails THEN KindOf[s] # "transfer" ELSE OpenOn(s) = {}
  /\ KindOf[s] = "application" => recruiting
  /\ clerk' = [clerk EXCEPT ![k] = [subject |-> s, counted |-> ~fails]]
  /\ UNCHANGED <<form, recruiting, excused>>

InsertForm(k, f) ==
  LET s == clerk[k].subject
  IN  /\ s # None /\ form[f] = None
      /\ form' = [form EXCEPT ![f] = [subject |-> s, stamped |-> FALSE,
                                      status |-> First(KindOf[s])]]
      /\ clerk' = [clerk EXCEPT ![k] = Nothing]
      /\ excused' = IF clerk[k].counted THEN excused ELSE excused \cup {f}
      /\ UNCHANGED recruiting

(* An error of the INSERT, a crash *)
Drop(k) ==
  /\ clerk[k] # Nothing /\ clerk' = [clerk EXCEPT ![k] = Nothing]
  /\ UNCHANGED <<form, recruiting, excused>>

PlayerEnds(f) ==
  /\ form[f] # None /\ form[f].status \in Endable(KindOf[form[f].subject])
  /\ form' = [form EXCEPT ![f].status = Ended(KindOf[form[f].subject])]
  /\ UNCHANGED <<clerk, recruiting, excused>>

StampAccepted(old, kind, status) ==   \* mutant: an accepted application is stamped
  (old /\ kind = "transfer") \/ status \in {"completed", "accepted"}

(* completed_at: kept by a transfer, computed anew by a privacy request *)
Stamp(old, kind, status) ==
  CASE kind = "transfer"    -> old \/ status = "completed"
    [] kind = "privacy"     -> status = "completed"
    [] kind = "application" -> FALSE

(* adminTransferUpdate, adminPrivacyRequestUpdate, adminGuildApplication: no look *)
(* at the status that is there                                                   *)
StaffDecide(f, status) ==
  LET kind == KindOf[form[f].subject]
  IN  /\ form[f] # None /\ status \in StaffStatuses(kind)
      /\ form' = [form EXCEPT ![f].status = status,
                              ![f].stamped = Stamp(form[f].stamped, kind, status)]
      /\ excused' = IF form[f].status \in Ending /\ status \notin Ending THEN excused \cup {f}
                     ELSE excused
      /\ UNCHANGED <<clerk, recruiting>>

AdminGuildRecruitment == recruiting' = ~recruiting /\ UNCHANGED <<form, clerk, excused>>

Next ==
  \/ \E k \in Clerks : \/ \E s \in Subjects, fails \in BOOLEAN : CountOpen(k, s, fails)
                       \/ \E f \in Forms : InsertForm(k, f)
                       \/ Drop(k)
  \/ \E f \in Forms : \/ PlayerEnds(f)
                      \/ form[f] # None /\ \E status \in StaffStatuses(KindOf[form[f].subject]) :
                           StaffDecide(f, status)
  \/ AdminGuildRecruitment

Spec == Init /\ [][Next]_vars

--------------------------------------------------------------------------------
(* "An active transfer request already exists for this character", "A deletion    *)
(* request is already active", "You already have an active application to this     *)
(* guild": the count and the insert race, so a subject may have as many open        *)
(* forms as were being filed at one time, and never more unless staff open some     *)
(* again or a count failed.                                                         *)
FewOpen == \A s \in Subjects :
  Cardinality({f \in Forms \ excused : /\ form[f] # None /\ form[f].subject = s
                                        /\ form[f].status \notin Ending})
    + Cardinality({k \in Clerks : clerk[k] = [subject |-> s, counted |-> TRUE]})
      <= Cardinality(Clerks)

(* A completed form has the time of its completion, and a privacy request only      *)
(* then, whatever decisions follow on each other: player and staff are shown it.    *)
StampsTrue == \A f \in Forms : form[f] # None =>
  CASE KindOf[form[f].subject] = "transfer"    -> form[f].status = "completed" => form[f].stamped
    [] KindOf[form[f].subject] = "privacy"     -> form[f].stamped <=> form[f].status = "completed"
    [] KindOf[form[f].subject] = "application" -> TRUE
=================================================================================
