----------------------------- MODULE MatchModule -----------------------------
(***************************************************************************)
(* match_module.rama: matches, the map-ban phase, team standings, the      *)
(* indexes by team, week and status, and reschedule requests.              *)
(*                                                                         *)
(* $$match-comms and $$pending-reschedule are kept per task, because       *)
(* submit-score writes them after it has hopped away from the match; every *)
(* other PState is only accessed on the task of its key and is a function  *)
(* of the key.  The season and week number are one week key.  Left out:    *)
(* scores, who submitted them and when, authors and texts of messages, and *)
(* the arena and type in an action, none of which an op reads.             *)
(***************************************************************************)
EXTENDS RamaTopology, Integers, Sequences

CONSTANTS Matches, TeamIds, Weeks, Arenas, Comms, Times,
          Events,    \* the depot records that clients may append
          MaxWins    \* bound: no score is submitted for a team with so many wins

VARIABLES matches,            \* $$matches
          mapBans,            \* $$map-bans
          teamStats,          \* $$team-stats, nil read as zero
          matchesByTeam, matchesByWeek, matchesByStatus,
          matchComms,         \* matchComms[task][match][comm]
          pendingReschedule   \* pendingReschedule[task][match]

indexVars == <<matchesByTeam, matchesByWeek, matchesByStatus>>
commVars == <<matchComms, pendingReschedule>>
storeVars == <<matches, mapBans, teamStats, indexVars, commVars>>
vars == <<flightVars, storeVars>>

---------------------------------------------------------------------------
(* Data *)

Statuses == {"UNPLAYED", "PLAYED", "DISPUTE"}
Responses == {"accept", "deny", "cancel"}
Moments == Times \cup {Empty, None}

Match == [homeTeamId: TeamIds, awayTeamId: TeamIds, status: Statuses,
          winnerId: TeamIds \cup {Empty}, boGames: Nat,
          matchDateTime: Moments, arenaId: Arenas \cup {Empty}]
MapBan == [turn: {0, 1}, homeTeamId: TeamIds, awayTeamId: TeamIds,
           remaining: SUBSET Arenas, actions: Seq(TeamIds),
           banPhaseComplete: BOOLEAN, boSeries: Nat]
TeamStat == [wins: Nat, losses: Nat, points: Nat]
MatchComm == [reschedule: Moments, rescheduleStatus: -1..3]

CreateEvent == [op: {"create-match"}, matchId: Matches, homeTeamId: TeamIds,
                awayTeamId: TeamIds, weekKey: Weeks, boGames: Nat, pool: SUBSET Arenas,
                matchDateTime: Times \cup {Empty}, arenaId: Arenas \cup {Empty}]
Event ==
       CreateEvent
  \cup [op: {"ban-map"}, matchId: Matches, teamId: TeamIds, arenaId: Arenas]
  \cup [op: {"submit-score"}, matchId: Matches, homeScore: Nat, awayScore: Nat]
  \cup [op: {"set-schedule"}, matchId: Matches, matchDateTime: Times \cup {Empty}]
  \cup [op: {"set-arena"}, matchId: Matches, arenaId: Arenas \cup {Empty}]
  \cup [op: {"set-match-status"}, matchId: Matches, status: STRING]
  \cup [op: {"post-comm"}, matchId: Matches, commId: Comms]
  \cup [op: {"request-reschedule"}, matchId: Matches, commId: Comms,
        reschedule: Times \cup {Empty}]
  \cup [op: {"respond-reschedule"}, matchId: Matches, commId: Comms,
        response: STRING, responseCommId: Comms]

ASSUME EventsAssumption == Events \subseteq Event
ASSUME ConstantsAssumption ==
  /\ MaxWins \in Nat
  /\ None \notin Match \cup MapBan \cup MatchComm
  /\ {None, Empty} \cap (Comms \cup Times \cup TeamIds \cup Arenas) = {}
  /\ None # Empty
  /\ UNION {Matches, TeamIds, Weeks, Statuses} \subseteq Keys

Labels == {"create@home", "create@away", "create@week", "create@status",
           "score@unplayed", "score@played", "score@winner", "score@loser",
           "status@old", "status@new"}

Init ==
  /\ FlightInit
  /\ matches = [m \in Matches |-> None]
  /\ mapBans = [m \in Matches |-> None]
  /\ teamStats = [t \in TeamIds |-> [wins |-> 0, losses |-> 0, points |-> 0]]
  /\ matchesByTeam = [t \in TeamIds |-> {}]
  /\ matchesByWeek = [w \in Weeks |-> {}]
  /\ matchesByStatus = [st \in Statuses |-> {}]
  /\ matchComms = [k \in Tasks |-> [m \in Matches |-> [c \in Comms |-> None]]]
  /\ pendingReschedule = [k \in Tasks |-> [m \in Matches |-> None]]

---------------------------------------------------------------------------
(* create-match *)

CreateMatch(s, e) ==
  /\ e.op = "create-match"
  /\ matches[e.matchId] = None
  /\ matches' = [matches EXCEPT ![e.matchId] =
       [homeTeamId |-> e.homeTeamId, awayTeamId |-> e.awayTeamId, status |-> "UNPLAYED",
        winnerId |-> Empty, boGames |-> e.boGames,
        matchDateTime |-> e.matchDateTime, arenaId |-> e.arenaId]]
  /\ mapBans' = [mapBans EXCEPT ![e.matchId] =
       [turn |-> 1, homeTeamId |-> e.homeTeamId, awayTeamId |-> e.awayTeamId,
        remaining |-> e.pool, actions |-> <<>>, banPhaseComplete |-> FALSE,
        boSeries |-> e.boGames]]
  /\ pendingReschedule' = [pendingReschedule EXCEPT ![TaskOf[e.matchId]][e.matchId] = Empty]
  /\ Launch(s, e, e.matchId, e.homeTeamId, "create@home", NoLocals)
  /\ UNCHANGED <<teamStats, indexVars, matchComms>>

ListUnderTeam(s, team) ==
  /\ matchesByTeam' = [matchesByTeam EXCEPT ![team] = @ \cup {event[s].matchId}]
  /\ UNCHANGED <<matches, mapBans, teamStats, matchesByWeek, matchesByStatus, commVars>>

CreateHome(s) ==
  /\ Ready(s, "create@home")
  /\ ListUnderTeam(s, event[s].homeTeamId)
  /\ Hop(s, event[s].awayTeamId, "create@away", NoLocals)

\* Mutant: the home team is listed twice.
CreateAwayHome(s) ==
  /\ Ready(s, "create@away")
  /\ ListUnderTeam(s, event[s].homeTeamId)
  /\ Hop(s, event[s].weekKey, "create@week", NoLocals)

CreateAway(s) ==
  /\ Ready(s, "create@away")
  /\ ListUnderTeam(s, event[s].awayTeamId)
  /\ Hop(s, event[s].weekKey, "create@week", NoLocals)

CreateWeek(s) ==
  /\ Ready(s, "create@week")
  /\ matchesByWeek' = [matchesByWeek EXCEPT ![event[s].weekKey] = @ \cup {event[s].matchId}]
  /\ Hop(s, "UNPLAYED", "create@status", NoLocals)
  /\ UNCHANGED <<matches, mapBans, teamStats, matchesByTeam, matchesByStatus, commVars>>

SetStatusIndex(s, status, listed) ==
  /\ matchesByStatus' = [matchesByStatus EXCEPT ![status] =
       IF listed THEN @ \cup {event[s].matchId} ELSE @ \ {event[s].matchId}]
  /\ UNCHANGED <<matches, mapBans, teamStats, matchesByTeam, matchesByWeek, commVars>>

CreateStatus(s) ==
  /\ Ready(s, "create@status")
  /\ SetStatusIndex(s, "UNPLAYED", TRUE)
  /\ Finish(s)

---------------------------------------------------------------------------
(* ban-map: hop-free *)

TotalBanActions(bo) == CASE bo = 5 -> 8 [] bo = 7 -> 10 [] OTHER -> 6

\* Mutant: the phase ends one action early.
PhaseCompleteEarly(n, bo) == n + 1 >= TotalBanActions(bo)

PhaseComplete(n, bo) == n >= TotalBanActions(bo)

\* Mutant: every series is played like the shortest.
SwitchAfterShort(bo) == {0, 2, 4}

\* The action counts after which the turn passes to the other team.
SwitchAfter(bo) ==
  {0, 2, 4} \cup (CASE bo = 5 -> {5, 6} [] bo = 7 -> {5, 6, 7, 8} [] OTHER -> {})

ExpectedTeam(ban) == IF ban.turn = 0 THEN ban.homeTeamId ELSE ban.awayTeamId

\* A match without ban state is refused: its nil teams break ban-error's contract.
BanMap(e) ==
  /\ e.op = "ban-map"
  /\ mapBans[e.matchId] # None
  /\ LET ban == mapBans[e.matchId]
         n == Len(ban.actions)
     IN /\ ~ban.banPhaseComplete
        /\ e.teamId = ExpectedTeam(ban)
        /\ e.arenaId \in ban.remaining
        /\ mapBans' = [mapBans EXCEPT ![e.matchId] =
             [ban EXCEPT !.remaining = @ \ {e.arenaId},
                         !.actions = Append(@, e.teamId),
                         !.turn = IF n \in SwitchAfter(ban.boSeries) THEN 1 - @ ELSE @,
                         !.banPhaseComplete = PhaseComplete(n + 1, ban.boSeries)]]
  /\ UNCHANGED <<flightVars, matches, teamStats, indexVars, commVars>>

---------------------------------------------------------------------------
(* submit-score *)

\* One side has won the series and leads.
ValidScore(home, away, bo) == (home >= bo /\ home > away) \/ (away >= bo /\ away > home)

\* Mutant: a played match is scored again.
ScoreErrorAnyStatus(match, home, away) == ~ValidScore(home, away, match.boGames)

ScoreError(match, home, away) ==
  match.status # "UNPLAYED" \/ ~ValidScore(home, away, match.boGames)

SubmitScore(s, e) ==
  /\ e.op = "submit-score"
  /\ matches[e.matchId] # None
  /\ LET match == matches[e.matchId]
         winner == IF e.homeScore > e.awayScore THEN match.homeTeamId ELSE match.awayTeamId
         loser == IF winner = match.homeTeamId THEN match.awayTeamId ELSE match.homeTeamId
     IN /\ ~ScoreError(match, e.homeScore, e.awayScore)
        /\ teamStats[winner].wins < MaxWins
        /\ matches' = [matches EXCEPT ![e.matchId].status = "PLAYED",
                                      ![e.matchId].winnerId = winner]
        /\ Launch(s, e, e.matchId, "UNPLAYED", "score@unplayed",
                  [winnerId |-> winner, loserId |-> loser,
                   pendingId |-> pendingReschedule[TaskOf[e.matchId]][e.matchId]])
  /\ UNCHANGED <<mapBans, teamStats, indexVars, commVars>>

ScoreUnlist(s) ==
  /\ Ready(s, "score@unplayed")
  /\ SetStatusIndex(s, "UNPLAYED", FALSE)
  /\ Hop(s, "PLAYED", "score@played", locals[s])

ScoreList(s) ==
  /\ Ready(s, "score@played")
  /\ SetStatusIndex(s, "PLAYED", TRUE)
  /\ Hop(s, locals[s].winnerId, "score@winner", locals[s])

\* Mutant: the loser gets the win.
ScoreWinnerSwapped(s) ==
  /\ Ready(s, "score@winner")
  /\ teamStats' = [teamStats EXCEPT ![locals[s].loserId].wins = @ + 1,
                                    ![locals[s].loserId].points = @ + 1]
  /\ Hop(s, locals[s].loserId, "score@loser", locals[s])
  /\ UNCHANGED <<matches, mapBans, indexVars, commVars>>

ScoreWinner(s) ==
  /\ Ready(s, "score@winner")
  /\ teamStats' = [teamStats EXCEPT ![locals[s].winnerId].wins = @ + 1,
                                    ![locals[s].winnerId].points = @ + 1]
  /\ Hop(s, locals[s].loserId, "score@loser", locals[s])
  /\ UNCHANGED <<matches, mapBans, indexVars, commVars>>

\* The last segment also closes the pending reschedule, on the loser's task.
CloseReschedule(task, m, pendingId) ==
  IF pendingId \in Comms
  THEN /\ matchComms' = [matchComms EXCEPT ![task][m][pendingId] =
            IF @ = None THEN [reschedule |-> None, rescheduleStatus |-> 3]
                        ELSE [@ EXCEPT !.rescheduleStatus = 3]]
       /\ UNCHANGED pendingReschedule
  ELSE /\ pendingReschedule' = [pendingReschedule EXCEPT ![task][m] = Empty]
       /\ UNCHANGED matchComms

ScoreLoser(s) ==
  /\ Ready(s, "score@loser")
  /\ teamStats' = [teamStats EXCEPT ![locals[s].loserId].losses = @ + 1]
  /\ CloseReschedule(via[s][2], event[s].matchId, locals[s].pendingId)
  /\ Finish(s)
  /\ UNCHANGED <<matches, mapBans, indexVars>>

---------------------------------------------------------------------------
(* set-match-status *)

\* Mutant: any text is a status.
AnyStatus(status) == TRUE

ValidStatus(status) == status \in Statuses

SetMatchStatus(s, e) ==
  /\ e.op = "set-match-status"
  /\ ValidStatus(e.status)
  /\ matches[e.matchId] # None
  /\ matches' = [matches EXCEPT ![e.matchId].status = e.status]
  /\ Launch(s, e, e.matchId, matches[e.matchId].status, "status@old",
            [oldStatus |-> matches[e.matchId].status])
  /\ UNCHANGED <<mapBans, teamStats, indexVars, commVars>>

\* Mutant: the entry under the old status stays.
StatusUnlistLost(s) ==
  /\ Ready(s, "status@old")
  /\ Hop(s, event[s].status, "status@new", NoLocals)
  /\ UNCHANGED storeVars

StatusUnlist(s) ==
  /\ Ready(s, "status@old")
  /\ SetStatusIndex(s, locals[s].oldStatus, FALSE)
  /\ Hop(s, event[s].status, "status@new", NoLocals)

\* Mutant: the entry under the new status goes too.
StatusListRemoves(s) ==
  /\ Ready(s, "status@new")
  /\ SetStatusIndex(s, event[s].status, FALSE)
  /\ Finish(s)

StatusList(s) ==
  /\ Ready(s, "status@new")
  /\ SetStatusIndex(s, event[s].status, TRUE)
  /\ Finish(s)

---------------------------------------------------------------------------
(* set-schedule, set-arena, post-comm, request- and respond-reschedule:    *)
(* hop-free, all on the match's own task.                                  *)

SetSchedule(e) ==
  /\ e.op = "set-schedule"
  /\ matches[e.matchId] # None
  /\ matches' = [matches EXCEPT ![e.matchId].matchDateTime = e.matchDateTime]
  /\ UNCHANGED <<flightVars, mapBans, teamStats, indexVars, commVars>>

SetArena(e) ==
  /\ e.op = "set-arena"
  /\ matches[e.matchId] # None
  /\ matches' = [matches EXCEPT ![e.matchId].arenaId = e.arenaId]
  /\ UNCHANGED <<flightVars, mapBans, teamStats, indexVars, commVars>>

PlainComm == [reschedule |-> Empty, rescheduleStatus |-> -1]

PostComm(e) ==
  /\ e.op = "post-comm"
  /\ matches[e.matchId] # None
  /\ matchComms' = [matchComms EXCEPT ![TaskOf[e.matchId]][e.matchId][e.commId] = PlainComm]
  /\ UNCHANGED <<flightVars, matches, mapBans, teamStats, indexVars, pendingReschedule>>

\* Mutant: an open request does not stop the next one.
RescheduleErrorPlayed(m) == matches[m] = None \/ matches[m].status # "UNPLAYED"

RescheduleError(m) ==
  \/ matches[m] = None
  \/ matches[m].status # "UNPLAYED"
  \/ pendingReschedule[TaskOf[m]][m] \in Comms

RequestReschedule(e) ==
  /\ e.op = "request-reschedule"
  /\ ~RescheduleError(e.matchId)
  /\ LET here == TaskOf[e.matchId]
     IN /\ matchComms' = [matchComms EXCEPT ![here][e.matchId][e.commId] =
             [reschedule |-> e.reschedule, rescheduleStatus |-> 0]]
        /\ pendingReschedule' = [pendingReschedule EXCEPT ![here][e.matchId] = e.commId]
  /\ UNCHANGED <<flightVars, matches, mapBans, teamStats, indexVars>>

\* Mutant: the codes start at zero.
ResponseStatusFromZero(response) ==
  CASE response = "accept" -> 0 [] response = "deny" -> 1 [] OTHER -> 2

ResponseStatus(response) == CASE response = "accept" -> 1 [] response = "deny" -> 2 [] OTHER -> 3

RespondReschedule(e) ==
  /\ e.op = "respond-reschedule"
  /\ e.response \in Responses
  /\ matches[e.matchId] # None
  /\ LET here == TaskOf[e.matchId]
         comms == matchComms[here][e.matchId]
     IN /\ pendingReschedule[here][e.matchId] = e.commId
        /\ pendingReschedule' = [pendingReschedule EXCEPT ![here][e.matchId] = Empty]
        /\ matchComms' = [matchComms EXCEPT ![here][e.matchId] =
             [[comms EXCEPT ![e.commId].rescheduleStatus = ResponseStatus(e.response)]
                     EXCEPT ![e.responseCommId] = PlainComm]]
        /\ matches' = IF e.response = "accept"
                      THEN [matches EXCEPT ![e.matchId].matchDateTime = comms[e.commId].reschedule]
                      ELSE matches
  /\ UNCHANGED <<flightVars, mapBans, teamStats, indexVars>>

---------------------------------------------------------------------------
Submit(s, e) == CreateMatch(s, e) \/ SubmitScore(s, e) \/ SetMatchStatus(s, e)

Resume(s) ==
  \/ CreateHome(s) \/ CreateAway(s) \/ CreateWeek(s) \/ CreateStatus(s)
  \/ ScoreUnlist(s) \/ ScoreList(s) \/ ScoreWinner(s) \/ ScoreLoser(s)
  \/ StatusUnlist(s) \/ StatusList(s)

SubmitLocal(e) ==
  \/ BanMap(e) \/ SetSchedule(e) \/ SetArena(e)
  \/ PostComm(e) \/ RequestReschedule(e) \/ RespondReschedule(e)

Next ==
  \/ \E s \in Slots, e \in Events : Submit(s, e)
  \/ \E s \in Slots : Resume(s)
  \/ \E e \in Events : SubmitLocal(e)

Spec == Init /\ [][Next]_vars

\* A task keeps taking continuations off its queues.
FairSpec == Spec /\ \A s \in Slots : WF_vars(Resume(s))

---------------------------------------------------------------------------
(* Properties *)

\* The type invariant.
TypeOK ==
  /\ FlightTypeOK(Labels, Events)
  /\ matches \in [Matches -> Match \cup {None}]
  /\ mapBans \in [Matches -> MapBan \cup {None}]
  /\ teamStats \in [TeamIds -> TeamStat]
  /\ matchesByTeam \in [TeamIds -> SUBSET Matches]
  /\ matchesByWeek \in [Weeks -> SUBSET Matches]
  /\ matchesByStatus \in [Statuses -> SUBSET Matches]
  /\ matchComms \in [Tasks -> [Matches -> [Comms -> MatchComm \cup {None}]]]
  /\ pendingReschedule \in [Tasks -> [Matches -> Comms \cup {Empty, None}]]

Turns(ban, team) == Cardinality({i \in DOMAIN ban.actions : ban.actions[i] = team})

\* Every action takes one arena out of the pool the match was created with,
\* and the phase is complete exactly when the series' number is reached; so a
\* pool with that many arenas never runs dry before the phase is complete.
BanLedger ==
  \A m \in Matches : mapBans[m] # None =>
    LET ban == mapBans[m]
    IN /\ \E e \in Events : /\ e.op = "create-match" /\ e.matchId = m
                            /\ ban.remaining \subseteq e.pool
                            /\ Cardinality(e.pool \ ban.remaining) = Len(ban.actions)
       /\ Len(ban.actions) <= TotalBanActions(ban.boSeries)
       /\ ban.banPhaseComplete <=> Len(ban.actions) = TotalBanActions(ban.boSeries)

\* The switch tables give both teams equally many actions in a finished phase,
\* and at no point is a team more than one action ahead of an even share.
BanFairness ==
  \A m \in Matches : mapBans[m] # None /\ mapBans[m].homeTeamId # mapBans[m].awayTeamId =>
    LET ban == mapBans[m]
        home == Turns(ban, ban.homeTeamId)
        away == Turns(ban, ban.awayTeamId)
    IN /\ ban.banPhaseComplete => home = away
       /\ home - away \in -1..1

\* README: "standings mirrors".  Once all submitted events are answered, a
\* team's points are its won matches and its losses the matches it lost.
StandingsMirror ==
  Quiescent => \A t \in TeamIds :
    LET Won(m) == matches[m] # None /\ matches[m].winnerId = t
        Lost(m) == /\ matches[m] # None
                   /\ matches[m].winnerId \notin {Empty, t}
                   /\ t \in {matches[m].homeTeamId, matches[m].awayTeamId}
    IN /\ teamStats[t].wins = Cardinality({m \in Matches : Won(m)})
       /\ teamStats[t].points = teamStats[t].wins
       /\ teamStats[t].losses = Cardinality({m \in Matches : Lost(m)})

Shown(m) == {st \in Statuses : m \in matchesByStatus[st]}

\* Once all submitted events are answered, a match is in the status index under
\* its own status and no other, for clients that wait for each answer.
StatusIndexAgrees ==
  Quiescent => \A m \in Matches : matches[m] # None => Shown(m) = {matches[m].status}

\* match_module.rama:335, 405-409 and 471-475: creates, scores and status
\* changes of one match cross on the way to the index and may leave it under a
\* status it does not have, but once all events are answered no match has
\* dropped out of the index: a list by status misses no match altogether.
NeverUnlisted ==
  Quiescent => \A m \in Matches : matches[m] # None => Shown(m) # {}

\* Every match is eventually listed under both of its teams, for any load.
ListedUnderTeams ==
  \A m \in Matches, t \in TeamIds :
    (matches[m] # None /\ t \in {matches[m].homeTeamId, matches[m].awayTeamId})
      ~> m \in matchesByTeam[t]

\* A scored match reaches the standings: no result is lost on the way.
ResultCounts ==
  \A t \in TeamIds :
    (\E m \in Matches : matches[m] # None /\ matches[m].winnerId = t) ~> teamStats[t].points > 0

Comm(m, c) == matchComms[TaskOf[m]][m][c]
Open(m) == {c \in Comms : Comm(m, c) # None /\ Comm(m, c).rescheduleStatus = 0}

Pending(m) == pendingReschedule[TaskOf[m]][m]

\* Until its first score a match has at most one open request, and it is the one
\* that pendingReschedule names, whatever the order of requests, responses and
\* messages.  From then on the entry may outlive its request, but only in one
\* way: match_module.rama:421-425 closes the request and keeps the entry when
\* a team of the match has its key on the task of the match.
OneOpenReschedule ==
  \A m \in Matches : matches[m] # None =>
    /\ matches[m].winnerId = Empty => Open(m) = {Pending(m)} \ {Empty}
    /\ Pending(m) \in Comms \ Open(m) =>
         /\ Comm(m, Pending(m)).rescheduleStatus = 3
         /\ matches[m].winnerId # Empty
         /\ TaskOf[m] \in {TaskOf[matches[m].homeTeamId], TaskOf[matches[m].awayTeamId]}

\* match_module.rama:537-549: the date of a match moves only by set-schedule, or
\* by accepting what the pending entry names: then to a date that a client
\* proposed in a request with that id, although scores and messages write
\* comms too and the request may have been closed by a score before.
AcceptedDateWasProposed ==
  [][\A m \in Matches : matches[m] # None
        /\ matches'[m].matchDateTime # matches[m].matchDateTime
        /\ pendingReschedule' # pendingReschedule =>
       \E e \in Events : /\ e.op = "request-reschedule" /\ e.matchId = m
                         /\ e.commId = Pending(m)
                         /\ e.reschedule = matches'[m].matchDateTime
                         /\ Comm(m, e.commId)'.rescheduleStatus = 1]_vars

\* match_module.rama:421-425: submit-score closes the pending reschedule, so a
\* played match keeps no open request.
ScoreClosesReschedule ==
  Quiescent => \A m \in Matches : matches[m] # None /\ matches[m].status = "PLAYED" => Open(m) = {}
=============================================================================
