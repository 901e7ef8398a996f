------------------------------- MODULE MCMatch -------------------------------
(* Instances of MatchModule for TLC.                                        *)
(* A behaviour has one load, chosen at the start: the events its clients    *)
(* submit, any number of times each, and how many are under way at once.    *)
EXTENDS MatchModule, TLC

CONSTANTS m1, m2, h, a, w1, c1, c2, x1, d1, d2,
          Loads

VARIABLE load

MCKeys == UNION {Matches, TeamIds, Weeks, Statuses}

\* Every key on a task of its own: the most interleavings, for PStates that are
\* only accessed on the task of their key.
ApartTaskOf == [k \in MCKeys |-> k]
\* m1 on the task of one of its teams, m2 on a task of its own: submit-score
\* ends on the match's task or on another, as the loser's key has it.
SharedTaskOf == [k \in MCKeys |-> IF k = m1 THEN h ELSE k]

SlotSymmetry == Permutations(Slots)
ArenaNumbers == 1..10

Create(m, home, away, bo, pool) ==
  [op |-> "create-match", matchId |-> m, homeTeamId |-> home, awayTeamId |-> away,
   weekKey |-> w1, boGames |-> bo, pool |-> pool, matchDateTime |-> d2, arenaId |-> Empty]
Score(m, x, y) == [op |-> "submit-score", matchId |-> m, homeScore |-> x, awayScore |-> y]
Bans(m, pool) == {[op |-> "ban-map", matchId |-> m, teamId |-> t, arenaId |-> r] : t \in {h, a}, r \in pool}
Status(m, st) == [op |-> "set-match-status", matchId |-> m, status |-> st]
Request(m, c, d) == [op |-> "request-reschedule", matchId |-> m, commId |-> c, reschedule |-> d]
Respond(m, c, r, x) == [op |-> "respond-reschedule", matchId |-> m, commId |-> c,
                        response |-> r, responseCommId |-> x]
Post(m, c) == [op |-> "post-comm", matchId |-> m, commId |-> c]
Schedule(m, d) == [op |-> "set-schedule", matchId |-> m, matchDateTime |-> d]

\* A whole ban phase of each length, every arena in any order.
BanEvents ==
  {Create(m1, h, a, bo, 1..TotalBanActions(bo)) : bo \in {2, 3, 5, 7}}
  \cup {Create(m1, h, a, 3, 1..7)} \cup Bans(m1, 1..10)

\* Two matches between the same teams, scores of every kind submitted at once.
ScoreEvents ==
  {Create(m1, h, a, 2, {}), Create(m2, a, h, 1, {})}
  \cup {Score(m, x, y) : m \in {m1, m2}, x \in 0..2, y \in 0..2}

\* Index writes of one match that cross.
CrossingEvents ==
  {Create(m1, h, a, 1, {}), Score(m1, 1, 0), Status(m1, "DISPUTE"), Status(m1, "PLAYED")}

\* The life of one match, for clients that wait for each answer.
MatchEvents ==
  {Create(m1, h, a, 1, 1..6), Create(m2, h, a, 0, 1..6), Score(m1, 1, 0), Score(m2, 0, 1),
   Schedule(m1, d1), [op |-> "set-arena", matchId |-> m1, arenaId |-> 1]}
  \cup {Status(m1, st) : st \in {"UNPLAYED", "PLAYED", "DISPUTE", "LOST"}}

\* Reschedule requests with message ids of their own; the match is played, and
\* opened again.
RescheduleEvents ==
  {Create(m1, h, a, 1, 1..6), Score(m1, 0, 1), Score(m1, 1, 0), Schedule(m1, d1), Post(m1, x1)}
  \cup {Request(m1, c1, d1), Request(m1, c1, Empty), Request(m1, c2, d2)}
  \cup {Respond(m1, c, r, x1) : c \in {c1, c2}, r \in {"accept", "deny", "cancel", "maybe"}}
  \cup {Status(m1, "UNPLAYED")}

\* A score and a reschedule request.
OpenRequestEvents == {Create(m1, h, a, 1, {}), Score(m1, 0, 1), Request(m1, c1, d1)}

\* A score while the match is still being listed.
ListingEvents == {Create(m1, h, a, 1, {}), Score(m1, 1, 0)}

\* A dispute resolved by playing again.
ReplayEvents == {Create(m1, h, a, 1, {}), Score(m1, 1, 0), Status(m1, "DISPUTE"), Status(m1, "UNPLAYED")}

AllEvents ==
  UNION {BanEvents, ScoreEvents, CrossingEvents, MatchEvents, RescheduleEvents, OpenRequestEvents, ListingEvents, ReplayEvents}

Load(events, n) == [events |-> events, inFlight |-> n]
PlayLoads == {Load(BanEvents, 1), Load(MatchEvents, 1), Load(RescheduleEvents, 1)}
ScoreLoads == {Load(ScoreEvents, 3), Load(CrossingEvents, 3)}
OpenRequestLoad == {Load(OpenRequestEvents, 1)}
ListingLoad == {Load(ListingEvents, 2)}
ReplayLoad == {Load(ReplayEvents, 1)}

---------------------------------------------------------------------------
Room == Cardinality({s \in Slots : ~Idle(s)}) < load.inFlight

MCInit == Init /\ load \in Loads

MCNext ==
  /\ UNCHANGED load
  /\ \/ \E s \in Slots, e \in load.events : Room /\ Submit(s, e)
     \/ \E s \in Slots : Resume(s)
     \/ \E e \in load.events : SubmitLocal(e)

MCSpec == MCInit /\ [][MCNext]_<<vars, load>>
MCFairSpec == MCSpec /\ \A s \in Slots : WF_vars(Resume(s))
=============================================================================
