----------------------------- MODULE SeasonSeats -----------------------------
(***************************************************************************)
(* What TeamsModule promises about a player and a season, whatever the     *)
(* partitions do: the player has at most one seat; it is claimed for one   *)
(* team, taken, given up, and only then free for another team.  No claim   *)
(* is dropped and no seat passes from one team to another directly.        *)
(***************************************************************************)
CONSTANTS Teams, Players, Seasons

VARIABLE seat

Free == [phase |-> "free"]
SeatOf(t, ph) == [phase |-> ph, team |-> t]
Seat == {Free} \cup {SeatOf(t, ph) : t \in Teams, ph \in {"claimed", "taken", "leaving"}}

Init == seat = [p \in Players |-> [n \in Seasons |-> Free]]

Move(p, n, before, after) ==
  /\ seat[p][n] = before
  /\ seat' = [seat EXCEPT ![p][n] = after]

Claim(p, n, t) == Move(p, n, Free, SeatOf(t, "claimed"))
Take(p, n, t) == Move(p, n, SeatOf(t, "claimed"), SeatOf(t, "taken"))
Leave(p, n, t) == Move(p, n, SeatOf(t, "taken"), SeatOf(t, "leaving"))
Release(p, n, t) == Move(p, n, SeatOf(t, "leaving"), Free)

Next == \E p \in Players, n \in Seasons, t \in Teams :
  Claim(p, n, t) \/ Take(p, n, t) \/ Leave(p, n, t) \/ Release(p, n, t)

Spec == Init /\ [][Next]_seat

\* A claim ends in a seat, and a seat given up becomes free.
FairSpec ==
  /\ Spec
  /\ \A p \in Players, n \in Seasons, t \in Teams :
       WF_seat(Take(p, n, t)) /\ WF_seat(Release(p, n, t))

TypeOK == seat \in [Players -> [Seasons -> Seat]]
=============================================================================
