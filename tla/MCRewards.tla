------------------------------- MODULE MCRewards -------------------------------
(* An instance of Rewards.  Two accounts share a network and a gift code    *)
(* with one use; the campaign has one winner.                               *)
EXTENDS Rewards, TLC

CONSTANTS a1, a2, r1, r2, r3, site, code, mission, milestone, campaign, e1, e2, n1

Ask(k, a, t, e, n, c) ==
  [kind |-> k, account |-> a, target |-> t, event |-> e, net |-> n, credits |-> c]
Vote(a, e) == Ask("vote", a, site, e, n1, 1)
Gift(a) == Ask("gift", a, code, None, None, 4)
Legacy == Ask("legacy", a1, None, e1, None, 2)
Daily == Ask("daily", a1, None, None, None, 0)
Mission == Ask("mission", a1, mission, None, None, 5)
DrawIt == Ask("draw", None, campaign, None, None, 0)
Others == {Ask("discord", a1, None, e1, None, 3), Ask("milestone", a1, milestone, None, None, 6)}

(* The second request repeats or contends with the first, the third draws   *)
(* or votes, too.                                                           *)
MCCalls ==
  r1 :> ({Vote(a1, e1), Gift(a1), Legacy, Daily, Mission, DrawIt} \cup Others)
    @@ r2 :> {Vote(a1, e1), Gift(a2), Daily, Mission}
    @@ r3 :> {Vote(a2, e2), Daily, DrawIt}

MCMaxUses == [t \in Targets |-> 1]
MCExpires == [t \in Targets |-> 3]
MCCycle == 0 :> 7 @@ 1 :> 8
MCTicket == [v \in Targets \X Events |-> IF v[2] = e1 THEN 1 ELSE 2]
================================================================================
