---------------------------- MODULE PaymentsModule ---------------------------
(***************************************************************************)
(* payments_module.rama: what a player paid for a season, the number of    *)
(* paid players of a team, item orders and the ledger of payments.  A      *)
(* player's status, a team's count and an order live on partitions of      *)
(* their own.                                                              *)
(*                                                                         *)
(* Left out: amounts, which no op compares.                                *)
(***************************************************************************)
EXTENDS PaidCounts

CONSTANT Events   \* the depot records that clients may append

VARIABLE payments  \* $$payments

storeVars == <<playerSeasonPayment, teamPaidCount, itemOrders, payments>>
vars == <<flightVars, storeVars>>

Paid == {"PAID", "EXEMPT"}
Row(status, source, team) == [status |-> status, source |-> source, teamId |-> team]

Init == FlightInit /\ playerSeasonPayment = <<>> /\ teamPaidCount = <<>> /\ itemOrders = <<>> /\ payments = <<>>

\* Mutant: a player who is paid already is counted again.
BumpAnyway(key, status, team) == status \in Paid /\ team \notin {None, Empty}
\* should-bump-paid-count?, with the status the row has before it is written.
ShouldBump(key, status, team) ==
  status \in Paid /\ team \notin {None, Empty}
  /\ ~(key \in DOMAIN playerSeasonPayment /\ playerSeasonPayment[key].status \in Paid)

Bumped(team) == Put(teamPaidCount, team, AtOr(teamPaidCount, team, 0) + 1)

---------------------------------------------------------------------------
(* mark-paid: the hop to the ledger and the hop to the team are each taken   *)
(* only when there is something to write there.                              *)

MarkPaidError(e) == Empty \in {e.steamId, e.seasonId} \/ e.status \notin Paid

MarkedRow(e) ==
  playerSeasonPayment' = Put(playerSeasonPayment, PlayerKey(e), Row(e.status, e.source, e.teamId))

MarkPaid(s, e) ==
  /\ e.op = "mark-paid" /\ ~MarkPaidError(e)
  /\ LET bump == ShouldBump(PlayerKey(e), e.status, e.teamId)
     IN \/ e.paymentId # None /\ Launch(s, e, e.steamId, e.paymentId, "paid@payment", [bump |-> bump])
        \/ e.paymentId = None /\ bump /\ Launch(s, e, e.steamId, e.teamId, "paid@team", NoLocals)
  /\ MarkedRow(e)
  /\ UNCHANGED <<teamPaidCount, itemOrders, payments>>

MarkPaidLocally(e) ==
  /\ e.op = "mark-paid" /\ ~MarkPaidError(e)
  /\ e.paymentId = None /\ ~ShouldBump(PlayerKey(e), e.status, e.teamId)
  /\ MarkedRow(e)
  /\ UNCHANGED <<flightVars, teamPaidCount, itemOrders, payments>>

PaidLedger(s) ==
  /\ Ready(s, "paid@payment")
  /\ LET e == event[s]
     IN /\ payments' = Put(payments, e.paymentId, [player |-> PlayerKey(e), row |-> Row(e.status, e.source, e.teamId)])
        /\ IF locals[s].bump THEN Hop(s, e.teamId, "paid@team", NoLocals) ELSE Finish(s)
  /\ UNCHANGED <<playerSeasonPayment, teamPaidCount, itemOrders>>

PaidCount(s) ==
  /\ Ready(s, "paid@team")
  /\ teamPaidCount' = Bumped(event[s].teamId)
  /\ Finish(s)
  /\ UNCHANGED <<playerSeasonPayment, itemOrders, payments>>

---------------------------------------------------------------------------
(* Item orders *)

CreateOrderError(e) == e.orderId \in DOMAIN itemOrders \/ e.steamId = Empty

CreateItemOrder(e) ==
  /\ e.op = "create-item-order" /\ ~CreateOrderError(e)
  /\ itemOrders' = Put(itemOrders, e.orderId,
       [steamId |-> e.steamId, teamId |-> e.teamId, seasonId |-> e.seasonId, status |-> "PENDING"])
  /\ UNCHANGED <<flightVars, playerSeasonPayment, teamPaidCount, payments>>

OrderActionError(e) == ~(e.orderId \in DOMAIN itemOrders /\ itemOrders[e.orderId].status = "PENDING")
OrderStatus(e, status) == itemOrders' = [itemOrders EXCEPT ![e.orderId].status = status]

\* An order without team or season fails its casts, and stays as it is.
ConfirmItemOrder(s, e) ==
  /\ e.op = "confirm-item-order" /\ ~OrderActionError(e)
  /\ LET order == itemOrders[e.orderId]
     IN /\ None \notin {order.teamId, order.seasonId}
        /\ OrderStatus(e, "COMPLETED")
        /\ Launch(s, e, e.orderId, order.steamId, "confirm@player", order)
  /\ UNCHANGED <<playerSeasonPayment, teamPaidCount, payments>>

ConfirmPaid(s) ==
  /\ Ready(s, "confirm@player")
  /\ LET order == locals[s]
         key == PlayerKey(order)
     IN /\ playerSeasonPayment' = Put(playerSeasonPayment, key, Row("PAID", "ITEM", order.teamId))
        /\ IF ShouldBump(key, "PAID", order.teamId) THEN Hop(s, order.teamId, "confirm@team", order) ELSE Finish(s)
  /\ UNCHANGED <<teamPaidCount, itemOrders, payments>>

ConfirmCount(s) ==
  /\ Ready(s, "confirm@team")
  /\ teamPaidCount' = Bumped(locals[s].teamId)
  /\ Finish(s)
  /\ UNCHANGED <<playerSeasonPayment, itemOrders, payments>>

ExpireItemOrder(e) ==
  /\ e.op = "expire-item-order" /\ ~OrderActionError(e)
  /\ OrderStatus(e, "EXPIRED")
  /\ UNCHANGED <<flightVars, playerSeasonPayment, teamPaidCount, payments>>

---------------------------------------------------------------------------
Submit(s, e) == MarkPaid(s, e) \/ ConfirmItemOrder(s, e)
Resume(s) == PaidLedger(s) \/ PaidCount(s) \/ ConfirmPaid(s) \/ ConfirmCount(s)
SubmitLocal(e) == MarkPaidLocally(e) \/ CreateItemOrder(e) \/ ExpireItemOrder(e)

Next ==
  \/ \E s \in Slots, e \in Events : Submit(s, e)
  \/ \E s \in Slots : Resume(s)
  \/ \E e \in Events : SubmitLocal(e)
Spec == Init /\ [][Next]_vars
=============================================================================
