----------------------------- MODULE PaidCounts ------------------------------
(* What the readers of $$team-paid-count and $$item-orders rely on, whatever *)
(* writes them.                                                              *)
EXTENDS RamaTopology, FiniteSetsExt

VARIABLES playerSeasonPayment,  \* $$player-season-payment, by player and season
          teamPaidCount,        \* $$team-paid-count
          itemOrders            \* $$item-orders

PlayerKey(e) == <<e.steamId, e.seasonId>>

(* rama/README.md:54 "mark-paid, item order create/confirm/expire, team paid     *)
(* counts": once everything is answered, every player who paid for a season  *)
(* with a team has been counted once, for one team, whoever of mark-paid and *)
(* confirm-item-order came first and how often, and every completed order is *)
(* in its player's row.  (A player marked without a team first is never     *)
(* counted, so seasons here are paid either always with a team or never.)   *)
PlayerCountsOnce ==
  Quiescent =>
    /\ MapThenSumSet(LAMBDA t : teamPaidCount[t], DOMAIN teamPaidCount)
         = Cardinality({k \in DOMAIN playerSeasonPayment : playerSeasonPayment[k].teamId \notin {None, Empty}})
    /\ \A o \in DOMAIN itemOrders :
         itemOrders[o].status = "COMPLETED" => PlayerKey(itemOrders[o]) \in DOMAIN playerSeasonPayment
=============================================================================
