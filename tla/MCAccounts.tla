------------------------------- MODULE MCAccounts ------------------------------
(* Two accounts of one identity and two requests at a time.                      *)
EXTENDS Accounts, TLC

CONSTANTS r1, r2

MCHome == [n \in {"first", "second"} |-> "home"]
MCMaxChanges == [first |-> 1, second |-> 0]

Symmetry == Permutations({r1, r2})

(* Codes, letters and passwords are tables of their own: a behaviour uses one of *)
(* the three, for the first account, together with all sessions and logins of    *)
(* both; nobody is signed in before first-time setup is over.                    *)
UsesCodes == totp["first"] # "none"
UsesLetters == letters > 0
UsesPasswords == "first" \in reset \cup forced \/ account["first"].password > 0
Quiet(n) == n \notin reset \cup forced /\ totp[n] = "none"
SettingUp == \E r \in Requests : request[r].at \in {"claim", "crown"}
Focused ==
  /\ ~(UsesCodes /\ UsesLetters) /\ ~(UsesCodes /\ UsesPasswords)
  /\ ~(UsesLetters /\ UsesPasswords)
  /\ Quiet("second")
  /\ SettingUp \/ admins = Names => /\ \A s \in Sessions : ~Live(s)
                  /\ \A r \in Requests : request[r].at \in {"idle", "claim", "crown"}
================================================================================
