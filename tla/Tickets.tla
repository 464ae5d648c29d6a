--------------------------------- MODULE Tickets ---------------------------------
(* Support tickets (src/internal/web/tickets.go).  A player's reply is one          *)
(* transaction on a locked row; staff read the row, merge what they were sent with   *)
(* it, and write all of it back with no lock in between.                             *)
EXTENDS Naturals, FiniteSets

CONSTANTS
  Cases,       \* rows of portal_support_tickets
  Agents,      \* staff requests handled at the same time
  None,
  MaxReplies   \* bound on the messages and the noted events of a ticket

VARIABLES
  support,     \* [Cases -> Ticket or None]
  thread,      \* [Cases -> [player, staff: number of portal_ticket_messages]]
  logged,      \* [Cases -> number of portal_ticket_events]
  agent        \* [Agents -> Agent]

vars == <<support, thread, logged, agent>>

Statuses == {"open", "answered", "pending_player", "pending_staff", "resolved", "closed"}
Over == {"resolved", "closed"}

(* stamped: resolved_at; first: first_response_at *)
Ticket == [status : Statuses, stamped : BOOLEAN, first : BOOLEAN]
Agent == [at : {"idle", "update", "message", "event"}, ticket : Cases \cup {None},
          status : Statuses, replies : BOOLEAN]
Idle == [at |-> "idle", ticket |-> None, status |-> "open", replies |-> FALSE]

TypeOK ==
  /\ support \in [Cases -> Ticket \cup {None}]
  /\ thread \in [Cases -> [player : 0 .. MaxReplies, staff : 0 .. MaxReplies]]
  /\ logged \in [Cases -> 0 .. MaxReplies] /\ agent \in [Agents -> Agent]

Init ==
  /\ support = [c \in Cases |-> None]
  /\ thread = [c \in Cases |-> [player |-> 0, staff |-> 0]]
  /\ logged = [c \in Cases |-> 0] /\ agent = [a \in Agents |-> Idle]

Log(c) == logged' = [logged EXCEPT ![c] = IF @ < MaxReplies THEN @ + 1 ELSE @]

(* Three statements; the ticket stays if the others fail. *)
CreateTicket(c, messaged) ==
  /\ support[c] = None
  /\ support' = [support EXCEPT ![c] = [status |-> "open", stamped |-> FALSE, first |-> FALSE]]
  /\ thread' = IF messaged THEN [thread EXCEPT ![c].player = 1] ELSE thread
  /\ IF messaged THEN Log(c) ELSE UNCHANGED logged
  /\ UNCHANGED agent

Keep(old) == [old EXCEPT !.status = "pending_staff"]   \* mutant: resolved_at stays

Reopened(old) == [old EXCEPT !.status = "pending_staff", !.stamped = FALSE]

(* The row is locked from the look at its status to the commit. *)
TicketMessage(c) ==
  /\ support[c] # None /\ support[c].status # "closed" /\ thread[c].player < MaxReplies
  /\ support' = [support EXCEPT ![c] = Reopened(support[c])]
  /\ thread' = [thread EXCEPT ![c].player = @ + 1] /\ Log(c)
  /\ UNCHANGED agent

(* adminTicketUpdate: the SELECT; a status that was not sent is the one read. *)
ReadTicket(a, c, status, replies) ==
  /\ agent[a].at = "idle" /\ support[c] # None
  /\ replies => thread[c].staff < MaxReplies
  /\ agent' = [agent EXCEPT ![a] = [at |-> "update", ticket |-> c, replies |-> replies,
                 status |-> IF status = None THEN support[c].status ELSE status]]
  /\ UNCHANGED <<support, thread, logged>>

(* The UPDATE keeps a stamp that is there. *)
WriteTicket(a) ==
  LET c == agent[a].ticket
      status == agent[a].status
  IN  /\ agent[a].at = "update"
      /\ support' = [support EXCEPT ![c] = [status |-> status, stamped |-> status \in Over,
                       first |-> @.first \/ agent[a].replies]]
      /\ agent' = [agent EXCEPT ![a].at = IF agent[a].replies THEN "message" ELSE "event"]
      /\ UNCHANGED <<thread, logged>>

(* The message of the thread is a statement of its own whose error is ignored. *)
PostReply(a, fails) ==
  LET c == agent[a].ticket
  IN  /\ agent[a].at = "message" /\ agent' = [agent EXCEPT ![a].at = "event"]
      /\ thread' = IF fails \/ thread[c].staff = MaxReplies THEN thread
                   ELSE [thread EXCEPT ![c].staff = @ + 1]
      /\ UNCHANGED <<support, logged>>

LogUpdate(a) ==
  /\ agent[a].at = "event" /\ agent' = [agent EXCEPT ![a] = Idle] /\ Log(agent[a].ticket)
  /\ UNCHANGED <<support, thread>>

(* A crash, an error of the first two statements, or an UPDATE that changes nothing *)
Drop(a) ==
  /\ agent[a].at # "idle" /\ agent' = [agent EXCEPT ![a] = Idle]
  /\ UNCHANGED <<support, thread, logged>>

Next ==
  \/ \E c \in Cases : TicketMessage(c) \/ \E messaged \in BOOLEAN : CreateTicket(c, messaged)
  \/ \E a \in Agents :
       \/ \E c \in Cases, status \in Statuses \cup {None}, replies \in BOOLEAN :
            ReadTicket(a, c, status, replies)
       \/ WriteTicket(a) \/ \E fails \in BOOLEAN : PostReply(a, fails)
       \/ LogUpdate(a) \/ Drop(a)

Spec == Init /\ [][Next]_vars

--------------------------------------------------------------------------------
(* A ticket carries the time of its resolution exactly while it is over, whatever  *)
(* replies and staff updates, among them updates with a status read before a reply, *)
(* follow on each other: the queue and its due times are computed from both.        *)
ResolvedStamped == \A c \in Cases :
  support[c] # None => (support[c].stamped <=> support[c].status \in Over)
================================================================================
