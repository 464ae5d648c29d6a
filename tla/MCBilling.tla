------------------------------ MODULE MCBilling ------------------------------
(* Instances of StripeBilling: one payment of 2 for 3 credits, refunded in  *)
(* halves, so that the share of the first half is rounded.                  *)
EXTENDS StripeBilling, TLC

CONSTANTS a1, pay1, h1, h2

MCRecipient == pay1 :> a1
MCCredits == pay1 :> 3
MCAmount == pay1 :> 2
==============================================================================
