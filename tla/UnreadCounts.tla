----------------------------- MODULE UnreadCounts -----------------------------
(* What the readers of $$unread-count rely on, whatever writes it. *)
EXTENDS Integers, FiniteSets

VARIABLES notifications,  \* $$notifications, by user and id: is it read?
          unreadCount     \* $$unread-count

UnreadRows(u) == {k \in DOMAIN notifications : k[1] = u /\ ~notifications[k]}

(* rama/README.md:55 "unread count": it never shows more than the user has        *)
(* unread and is never negative, in any order of notifying, reading and      *)
(* marking all read.  (It may show less: mark-all-read resets the count and  *)
(* leaves the rows unread, and reading one of those later counts down a row  *)
(* notified since.)                                                          *)
UnreadNeverOvercounts ==
  \A u \in DOMAIN unreadCount : unreadCount[u] \in 0..Cardinality(UnreadRows(u))
=============================================================================
