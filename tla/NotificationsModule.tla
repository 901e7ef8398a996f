------------------------- MODULE NotificationsModule -------------------------
(***************************************************************************)
(* notifications_module.rama: the notifications of a user and the count of *)
(* unread ones, on one partition; no op hops.                              *)
(*                                                                         *)
(* Left out: the text, link and time of a notification.                    *)
(***************************************************************************)
EXTENDS UnreadCounts, RamaTopology

CONSTANT Events   \* the depot records that clients may append

vars == <<flightVars, notifications, unreadCount>>

Init == FlightInit /\ notifications = <<>> /\ unreadCount = <<>>

NotificationKey(e) == <<e.steamId, e.id>>

\* Mutant: a notification that exists is written again.
NotifyErrorIds(e) == Empty \in {e.steamId, e.id}
NotifyError(e) == Empty \in {e.steamId, e.id} \/ NotificationKey(e) \in DOMAIN notifications

Notify(e) ==
  /\ e.op = "notify" /\ ~NotifyError(e)
  /\ notifications' = Put(notifications, NotificationKey(e), FALSE)
  /\ unreadCount' = Put(unreadCount, e.steamId, AtOr(unreadCount, e.steamId, 0) + 1)

MarkRead(e) ==
  /\ e.op = "mark-read"
  /\ AtOr(notifications, NotificationKey(e), TRUE) = FALSE
  /\ notifications' = Put(notifications, NotificationKey(e), TRUE)
  /\ unreadCount' = IF AtOr(unreadCount, e.steamId, 0) > 0
                    THEN [unreadCount EXCEPT ![e.steamId] = @ - 1] ELSE unreadCount

MarkAllRead(e) ==
  /\ e.op = "mark-all-read"
  /\ unreadCount' = Put(unreadCount, e.steamId, 0)
  /\ UNCHANGED notifications

SubmitLocal(e) == (Notify(e) \/ MarkRead(e) \/ MarkAllRead(e)) /\ UNCHANGED flightVars

Next == \E e \in Events : SubmitLocal(e)
Spec == Init /\ [][Next]_vars
=============================================================================
