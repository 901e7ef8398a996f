----------------------------- MODULE MatchProofs -----------------------------
(***************************************************************************)
(* Proofs about MatchModule, for every number of matches, teams, arenas,   *)
(* comms, slots and tasks, every placement of keys and every set of        *)
(* events: type correctness, the ban phase, reschedule requests, standings *)
(* and the status index.                                                   *)
(***************************************************************************)
EXTENDS MatchModule, FiniteSetTheorems, SequenceTheorems

CreateLabels == {"create@home", "create@away", "create@week", "create@status"}
ScoreLabels == {"score@unplayed", "score@played", "score@winner", "score@loser"}
StatusLabels == {"status@old", "status@new"}

\* What a continuation carries: an event of the right kind and the values that
\* the segments before the hop put in locals.
Carries(s) ==
  /\ pc[s] \in Labels => event[s] \in Events
  /\ pc[s] \in CreateLabels => event[s].op = "create-match"
  /\ pc[s] \in ScoreLabels => /\ locals[s].winnerId \in TeamIds
                              /\ locals[s].loserId \in TeamIds
                              /\ locals[s].pendingId \in Comms \cup {Empty, None}
  /\ pc[s] \in StatusLabels => event[s].op = "set-match-status" /\ event[s].status \in Statuses
  /\ pc[s] = "status@old" => locals[s].oldStatus \in Statuses

\* A request that is named as pending has been written.
PendingExists ==
  \A k \in Tasks, m \in Matches :
    pendingReschedule[k][m] \in Comms => matchComms[k][m][pendingReschedule[k][m]] # None

TypeInv == TypeOK /\ PendingExists /\ \A s \in Slots : Carries(s)

StoresOK ==
  /\ matches \in [Matches -> Match \cup {None}]
  /\ mapBans \in [Matches -> MapBan \cup {None}]
  /\ teamStats \in [TeamIds -> TeamStat]
  /\ matchesByTeam \in [TeamIds -> SUBSET Matches]
  /\ matchesByWeek \in [Weeks -> SUBSET Matches]
  /\ matchesByStatus \in [Statuses -> SUBSET Matches]
  /\ matchComms \in [Tasks -> [Matches -> [Comms -> MatchComm \cup {None}]]]
  /\ pendingReschedule \in [Tasks -> [Matches -> Comms \cup {Empty, None}]]
  /\ PendingExists

\* Facts about constants: labels, keys and the fields of events.
LEMMA LabelFacts ==
  /\ "idle" \notin Labels
  /\ Labels = CreateLabels \cup ScoreLabels \cup StatusLabels
  /\ \A l \in ScoreLabels : l \notin CreateLabels \cup StatusLabels
  /\ \A l \in StatusLabels : l \notin CreateLabels \cup ScoreLabels
  BY DEF Labels, CreateLabels, ScoreLabels, StatusLabels

LEMMA KeyFacts ==
  Matches \subseteq Keys /\ TeamIds \subseteq Keys /\ Weeks \subseteq Keys /\ Statuses \subseteq Keys
  BY ConstantsAssumption

LEMMA EventFacts ==
  ASSUME NEW e \in Events
  PROVE  /\ e.matchId \in Matches
         /\ e.op = "create-match" => e \in CreateEvent
         /\ e.op = "ban-map" => e.teamId \in TeamIds /\ e.arenaId \in Arenas
         /\ e.op = "submit-score" => e.homeScore \in Nat /\ e.awayScore \in Nat
         /\ e.op = "set-schedule" => e.matchDateTime \in Times \cup {Empty}
         /\ e.op = "set-arena" => e.arenaId \in Arenas \cup {Empty}
         /\ e.op = "post-comm" => e.commId \in Comms
         /\ e.op = "request-reschedule" => e.commId \in Comms /\ e.reschedule \in Times \cup {Empty}
         /\ e.op = "respond-reschedule" => e.commId \in Comms /\ e.responseCommId \in Comms
  BY EventsAssumption DEF Event, CreateEvent

LEMMA CreateFacts ==
  ASSUME NEW e \in CreateEvent
  PROVE  /\ e.homeTeamId \in TeamIds /\ e.awayTeamId \in TeamIds /\ e.weekKey \in Weeks
         /\ e.boGames \in Nat /\ e.pool \subseteq Arenas
         /\ e.matchDateTime \in Moments /\ e.arenaId \in Arenas \cup {Empty}
  BY DEF CreateEvent, Moments

LEMMA NoneFacts == None \notin Match /\ None \notin MapBan /\ None \notin MatchComm
                   /\ None \notin Comms /\ Empty \notin Comms /\ Empty \notin TeamIds
  BY ConstantsAssumption

---------------------------------------------------------------------------
(* Type correctness: what starts, hops and ends. *)

\* A continuation that starts, hops or ends leaves the others as they were, and
\* the flight state well formed.
LEMMA StartType ==
  ASSUME TypeInv, StoresOK', NEW s \in Slots, NEW e \in Events, NEW key \in Keys,
         NEW dest \in Keys, NEW label \in Labels, NEW mem,
         Launch(s, e, key, dest, label, mem), Carries(s)'
  PROVE  TypeInv'
<1>1. FlightTypeOK(Labels, Events) /\ "idle" \notin Labels
  BY LabelFacts DEF TypeInv, TypeOK
<1>2. FlightTypeOK(Labels, Events)'
  BY <1>1, LaunchType, SMT
<1>3. ASSUME NEW o \in Slots, o # s PROVE Carries(o)'
  BY <1>3 DEF TypeInv, TypeOK, FlightTypeOK, Launch, Carries
<1>4. QED
  BY <1>2, <1>3 DEF TypeInv, TypeOK, StoresOK

LEMMA HopStep ==
  ASSUME TypeInv, StoresOK', NEW s \in Slots, ~Idle(s), NEW dest \in Keys,
         NEW label \in Labels, NEW mem, Hop(s, dest, label, mem), Carries(s)'
  PROVE  TypeInv'
<1>1. FlightTypeOK(Labels, Events) /\ "idle" \notin Labels
  BY LabelFacts DEF TypeInv, TypeOK
<1>2. FlightTypeOK(Labels, Events)'
  BY <1>1, HopType, SMT
<1>3. ASSUME NEW o \in Slots, o # s PROVE Carries(o)'
  BY <1>3 DEF TypeInv, TypeOK, FlightTypeOK, Hop, Carries
<1>4. QED
  BY <1>2, <1>3 DEF TypeInv, TypeOK, StoresOK

LEMMA FinishStep ==
  ASSUME TypeInv, StoresOK', NEW s \in Slots, Finish(s)
  PROVE  TypeInv'
<1>1. FlightTypeOK(Labels, Events)'
  BY FinishType DEF TypeInv, TypeOK
<1>2. pc'[s] = "idle"
  BY DEF TypeInv, TypeOK, FlightTypeOK, Finish
<1>3. Carries(s)'
  BY <1>2, LabelFacts DEF Carries
<1>4. ASSUME NEW o \in Slots, o # s PROVE Carries(o)'
  BY <1>4 DEF TypeInv, TypeOK, FlightTypeOK, Finish, Carries
<1>5. QED
  BY <1>1, <1>3, <1>4 DEF TypeInv, TypeOK, StoresOK

\* A step that moves no continuation.
LEMMA LocalStep ==
  ASSUME TypeInv, StoresOK', UNCHANGED flightVars
  PROVE  TypeInv'
<1>1. FlightTypeOK(Labels, Events)' /\ \A s \in Slots : Carries(s)'
  BY DEF flightVars, TypeInv, TypeOK, FlightTypeOK, Idle, Carries
<1>2. QED
  BY <1>1 DEF TypeInv, TypeOK, StoresOK

LEMMA StoresTyped == ASSUME TypeInv PROVE StoresOK
  BY DEF TypeInv, TypeOK, StoresOK

\* What a step leaves in the slot that it moves, and that it moves no other.
LEMMA LaunchSlot ==
  ASSUME TypeInv, NEW s \in Slots, NEW e, NEW key, NEW dest, NEW label, NEW mem,
         Launch(s, e, key, dest, label, mem)
  PROVE  /\ Idle(s) /\ pc'[s] = label /\ event'[s] = e /\ locals'[s] = mem
         /\ \A o \in Slots \ {s} : /\ pc'[o] = pc[o] /\ event'[o] = event[o]
                                  /\ locals'[o] = locals[o] /\ via'[o] = via[o]
  BY DEF TypeInv, TypeOK, FlightTypeOK, Launch, Enqueue

LEMMA HopSlot ==
  ASSUME TypeInv, NEW s \in Slots, NEW dest, NEW label, NEW mem, Hop(s, dest, label, mem)
  PROVE  /\ pc'[s] = label /\ event' = event /\ locals'[s] = mem /\ via'[s][2] = TaskOf[dest]
         /\ \A o \in Slots \ {s} : pc'[o] = pc[o] /\ locals'[o] = locals[o] /\ via'[o] = via[o]
  BY DEF TypeInv, TypeOK, FlightTypeOK, Hop, Enqueue

LEMMA FinishSlot ==
  ASSUME TypeInv, NEW s \in Slots, Finish(s)
  PROVE  /\ pc'[s] = "idle"
         /\ \A o \in Slots \ {s} : /\ pc'[o] = pc[o] /\ event'[o] = event[o]
                                  /\ locals'[o] = locals[o] /\ via'[o] = via[o]
  BY DEF TypeInv, TypeOK, FlightTypeOK, Finish

\* A continuation that is ready is one of its label.
LEMMA ReadySlot ==
  ASSUME TypeInv, NEW s \in Slots, NEW label \in Labels, Ready(s, label)
  PROVE  pc[s] = label /\ ~Idle(s) /\ Carries(s) /\ event[s] \in Events
  BY LabelFacts DEF TypeInv, Ready, Idle, Carries

LEMMA BusySlot ==
  ASSUME TypeInv, NEW s \in Slots, ~Idle(s)
  PROVE  pc[s] \in Labels /\ event[s] \in Events /\ event[s].matchId \in Matches /\ Carries(s)
<1>1. pc[s] \in Labels
  BY DEF TypeInv, TypeOK, FlightTypeOK, Idle
<1>2. QED
  BY <1>1, EventFacts DEF TypeInv, Carries

---------------------------------------------------------------------------
(* Type correctness: what the writes leave in the stores. *)

LEMMA RowWrite ==
  ASSUME StoresOK, NEW m \in Matches, NEW row \in Match, matches' = [matches EXCEPT ![m] = row],
         UNCHANGED <<mapBans, teamStats, indexVars, commVars>>
  PROVE  StoresOK'
  BY DEF StoresOK, indexVars, commVars, PendingExists

LEMMA StatusIndexWrite ==
  ASSUME TypeInv, NEW s \in Slots, NEW st \in Statuses, NEW listed, event[s].matchId \in Matches,
         SetStatusIndex(s, st, listed)
  PROVE  StoresOK'
  BY StoresTyped DEF SetStatusIndex, StoresOK, commVars, PendingExists

LEMMA CommWrite ==
  ASSUME StoresOK, NEW k \in Tasks, NEW m \in Matches, NEW c \in Comms, NEW comm \in MatchComm,
         matchComms' = [matchComms EXCEPT ![k][m][c] = comm],
         UNCHANGED <<matches, mapBans, teamStats, indexVars, pendingReschedule>>
  PROVE  StoresOK'
<1>1. matchComms' \in [Tasks -> [Matches -> [Comms -> MatchComm \cup {None}]]]
  BY DEF StoresOK
<1>2. \A j \in Tasks, n \in Matches, d \in Comms :
        matchComms[j][n][d] # None => matchComms'[j][n][d] # None
  BY NoneFacts DEF StoresOK
<1>3. QED
  BY <1>1, <1>2 DEF StoresOK, indexVars, PendingExists

\* Nothing pending is fine for the comms.
LEMMA PendingClear ==
  ASSUME pendingReschedule \in [Tasks -> [Matches -> Comms \cup {Empty, None}]], PendingExists,
         NEW k, NEW m,
         pendingReschedule' = [pendingReschedule EXCEPT ![k][m] = Empty], UNCHANGED matchComms
  PROVE  pendingReschedule' \in [Tasks -> [Matches -> Comms \cup {Empty, None}]] /\ PendingExists'
<1>1. \A j \in Tasks, n \in Matches :
        pendingReschedule'[j][n] = pendingReschedule[j][n] \/ pendingReschedule'[j][n] = Empty
  OBVIOUS
<1>2. PendingExists'
  BY <1>1, NoneFacts DEF PendingExists
<1>3. QED
  BY <1>2

---------------------------------------------------------------------------
(* Type correctness, one lemma per op. *)

\* create-match

LEMMA CreateMatchType ==
  ASSUME TypeInv, NEW s \in Slots, NEW e \in Events, CreateMatch(s, e)
  PROVE  TypeInv'
<1>1. e \in CreateEvent /\ e.matchId \in Matches
  BY EventFacts DEF CreateMatch
<1>2. /\ e.homeTeamId \in TeamIds /\ e.awayTeamId \in TeamIds /\ e.weekKey \in Weeks
      /\ e.boGames \in Nat /\ e.pool \subseteq Arenas
      /\ e.matchDateTime \in Moments /\ e.arenaId \in Arenas \cup {Empty}
  BY <1>1, CreateFacts
<1>3. [homeTeamId |-> e.homeTeamId, awayTeamId |-> e.awayTeamId, status |-> "UNPLAYED",
       winnerId |-> Empty, boGames |-> e.boGames,
       matchDateTime |-> e.matchDateTime, arenaId |-> e.arenaId] \in Match
  BY <1>2 DEF Match, Statuses
<1>4. [turn |-> 1, homeTeamId |-> e.homeTeamId, awayTeamId |-> e.awayTeamId,
       remaining |-> e.pool, actions |-> <<>>, banPhaseComplete |-> FALSE,
       boSeries |-> e.boGames] \in MapBan
  BY <1>2 DEF MapBan
<1>5. matches' \in [Matches -> Match \cup {None}]
  BY <1>1, <1>3, StoresTyped DEF CreateMatch, StoresOK
<1>6. mapBans' \in [Matches -> MapBan \cup {None}]
  BY <1>1, <1>4, StoresTyped DEF CreateMatch, StoresOK
<1>7. pendingReschedule' \in [Tasks -> [Matches -> Comms \cup {Empty, None}]] /\ PendingExists'
  <2>1. /\ pendingReschedule' = [pendingReschedule EXCEPT ![TaskOf[e.matchId]][e.matchId] = Empty]
        /\ matchComms' = matchComms
    BY DEF CreateMatch
  <2>2. QED
    BY <2>1, StoresTyped, PendingClear DEF StoresOK
<1>8. StoresOK'
  BY <1>5, <1>6, <1>7, StoresTyped DEF CreateMatch, StoresOK, indexVars
<1>9. Launch(s, e, e.matchId, e.homeTeamId, "create@home", NoLocals) /\ "create@home" \in Labels
  BY DEF CreateMatch, Labels
<1>10. Carries(s)'
  BY <1>9, LaunchSlot DEF CreateMatch, Carries, Labels, CreateLabels, ScoreLabels, StatusLabels
<1>11. e.matchId \in Keys /\ e.homeTeamId \in Keys
  BY <1>1, <1>2, KeyFacts
<1>12. QED
  BY <1>8, <1>9, <1>10, <1>11, StartType

\* A hop of a create keeps its record.
LEMMA CreateHop ==
  ASSUME TypeInv, StoresOK', NEW s \in Slots, NEW from \in CreateLabels, Ready(s, from),
         NEW dest \in Keys, NEW label \in CreateLabels, Hop(s, dest, label, NoLocals)
  PROVE  TypeInv'
<1>1. label \in Labels /\ from \in Labels
  BY LabelFacts
<1>2. Carries(s) /\ pc[s] = from /\ ~Idle(s) /\ event[s] \in Events
  BY <1>1, ReadySlot
<1>3. pc'[s] = label /\ event'[s] = event[s]
  BY HopSlot
<1>4. Carries(s)'
  BY <1>2, <1>3 DEF Carries, CreateLabels, ScoreLabels, StatusLabels
<1>5. QED
  BY <1>1, <1>2, <1>4, HopStep

LEMMA CreateSlot ==
  ASSUME TypeInv, NEW s \in Slots, NEW from \in CreateLabels, Ready(s, from)
  PROVE  /\ event[s].matchId \in Matches /\ event[s].homeTeamId \in TeamIds
         /\ event[s].awayTeamId \in TeamIds /\ event[s].weekKey \in Weeks
<1>1. Carries(s) /\ pc[s] = from /\ event[s] \in Events
  BY LabelFacts, ReadySlot
<1>2. event[s] \in CreateEvent /\ event[s].matchId \in Matches
  BY <1>1, EventFacts DEF Carries
<1>3. QED
  BY <1>2, CreateFacts

LEMMA CreateListType ==
  ASSUME TypeInv, NEW s \in Slots, CreateHome(s) \/ CreateAway(s) \/ CreateWeek(s) \/ CreateStatus(s)
  PROVE  TypeInv'
<1>1. CASE CreateHome(s)
  <2>1. Ready(s, "create@home") /\ Hop(s, event[s].awayTeamId, "create@away", NoLocals)
    BY <1>1 DEF CreateHome
  <2>2. StoresOK'
    BY <1>1, <2>1, CreateSlot, StoresTyped
       DEF CreateHome, ListUnderTeam, StoresOK, commVars, PendingExists, CreateLabels
  <2>3. QED
    BY <2>1, <2>2, CreateSlot, CreateHop, KeyFacts DEF CreateLabels
<1>2. CASE CreateAway(s)
  <2>1. Ready(s, "create@away") /\ Hop(s, event[s].weekKey, "create@week", NoLocals)
    BY <1>2 DEF CreateAway
  <2>2. StoresOK'
    BY <1>2, <2>1, CreateSlot, StoresTyped
       DEF CreateAway, ListUnderTeam, StoresOK, commVars, PendingExists, CreateLabels
  <2>3. QED
    BY <2>1, <2>2, CreateSlot, CreateHop, KeyFacts DEF CreateLabels
<1>3. CASE CreateWeek(s)
  <2>1. Ready(s, "create@week") /\ Hop(s, "UNPLAYED", "create@status", NoLocals)
    BY <1>3 DEF CreateWeek
  <2>2. StoresOK'
    BY <1>3, <2>1, CreateSlot, StoresTyped
       DEF CreateWeek, StoresOK, commVars, PendingExists, CreateLabels
  <2>3. QED
    BY <2>1, <2>2, CreateHop, KeyFacts DEF CreateLabels, Statuses
<1>4. CASE CreateStatus(s)
  <2>1. event[s].matchId \in Matches
    BY <1>4, CreateSlot DEF CreateStatus, CreateLabels
  <2>2. StoresOK'
    BY <1>4, <2>1, StatusIndexWrite DEF CreateStatus, Statuses
  <2>3. QED
    BY <1>4, <2>2, FinishStep DEF CreateStatus
<1>5. QED
  BY <1>1, <1>2, <1>3, <1>4

\* ban-map

\* What an accepted action makes of the ban state.
LEMMA BanWrite ==
  ASSUME TypeInv, NEW e \in Events, BanMap(e)
  PROVE  \E ban, next \in MapBan :
           /\ ban = mapBans[e.matchId] /\ mapBans' = [mapBans EXCEPT ![e.matchId] = next]
           /\ ~ban.banPhaseComplete /\ e.teamId = ExpectedTeam(ban) /\ e.arenaId \in ban.remaining
           /\ next.homeTeamId = ban.homeTeamId /\ next.awayTeamId = ban.awayTeamId
           /\ next.boSeries = ban.boSeries
           /\ next.remaining = ban.remaining \ {e.arenaId}
           /\ next.actions = Append(ban.actions, e.teamId)
           /\ next.turn = IF Len(ban.actions) \in SwitchAfter(ban.boSeries) THEN 1 - ban.turn ELSE ban.turn
           /\ next.banPhaseComplete = PhaseComplete(Len(ban.actions) + 1, ban.boSeries)
<1>1. e.matchId \in Matches /\ e.teamId \in TeamIds
  BY EventFacts DEF BanMap
<1>2. PICK ban : ban = mapBans[e.matchId]
  OBVIOUS
<1>3. ban \in MapBan
  BY <1>1, <1>2, StoresTyped DEF BanMap, StoresOK
<1>4. PICK next : next = [ban EXCEPT !.remaining = @ \ {e.arenaId},
                         !.actions = Append(@, e.teamId),
                         !.turn = IF Len(ban.actions) \in SwitchAfter(ban.boSeries) THEN 1 - @ ELSE @,
                         !.banPhaseComplete = PhaseComplete(Len(ban.actions) + 1, ban.boSeries)]
  OBVIOUS
<1>5. ban.turn \in {0, 1} /\ Append(ban.actions, e.teamId) \in Seq(TeamIds)
      /\ PhaseComplete(Len(ban.actions) + 1, ban.boSeries) \in BOOLEAN
      /\ ban.remaining \in SUBSET Arenas
  BY <1>1, <1>3 DEF MapBan, PhaseComplete
<1>6. /\ next.homeTeamId = ban.homeTeamId /\ next.awayTeamId = ban.awayTeamId
      /\ next.boSeries = ban.boSeries
      /\ next.remaining = ban.remaining \ {e.arenaId}
      /\ next.actions = Append(ban.actions, e.teamId)
      /\ next.turn = IF Len(ban.actions) \in SwitchAfter(ban.boSeries) THEN 1 - ban.turn ELSE ban.turn
      /\ next.banPhaseComplete = PhaseComplete(Len(ban.actions) + 1, ban.boSeries)
  BY <1>3, <1>4 DEF MapBan
<1>7. next \in MapBan
  <2>1. next.turn \in {0, 1}
    BY <1>5, <1>6
  <2>2. QED
    BY <1>3, <1>4, <1>5, <1>6, <2>1 DEF MapBan
<1>8. /\ mapBans' = [mapBans EXCEPT ![e.matchId] = next]
      /\ ~ban.banPhaseComplete /\ e.teamId = ExpectedTeam(ban) /\ e.arenaId \in ban.remaining
  BY <1>2, <1>4 DEF BanMap
<1>9. QED
  BY <1>2, <1>3, <1>6, <1>7, <1>8

LEMMA BanMapType ==
  ASSUME TypeInv, NEW e \in Events, BanMap(e)
  PROVE  TypeInv'
<1>1. mapBans' \in [Matches -> MapBan \cup {None}]
  BY BanWrite, StoresTyped DEF StoresOK
<1>2. StoresOK'
  BY <1>1, StoresTyped DEF BanMap, StoresOK, indexVars, commVars, PendingExists
<1>3. QED
  BY <1>2, LocalStep DEF BanMap

\* submit-score

\* The row that an accepted score writes, and what its continuation carries.
LEMMA ScoreRow ==
  ASSUME TypeInv, NEW s \in Slots, NEW e \in Events, SubmitScore(s, e)
  PROVE  \E match \in Match, winner, loser \in TeamIds :
           /\ match = matches[e.matchId] /\ e.matchId \in Matches
           /\ match.status = "UNPLAYED"
           /\ {winner, loser} = {match.homeTeamId, match.awayTeamId}
           /\ matches' = [matches EXCEPT ![e.matchId] =
                [match EXCEPT !.status = "PLAYED", !.winnerId = winner]]
           /\ [match EXCEPT !.status = "PLAYED", !.winnerId = winner] \in Match
           /\ Launch(s, e, e.matchId, "UNPLAYED", "score@unplayed",
                     [winnerId |-> winner, loserId |-> loser,
                      pendingId |-> pendingReschedule[TaskOf[e.matchId]][e.matchId]])
<1>1. e.matchId \in Matches
  BY EventFacts
<1>2. PICK match : match = matches[e.matchId]
  OBVIOUS
<1>3. match \in Match
  BY <1>1, <1>2, StoresTyped DEF SubmitScore, StoresOK
<1>4. PICK winner : winner = IF e.homeScore > e.awayScore THEN match.homeTeamId ELSE match.awayTeamId
  OBVIOUS
<1>5. PICK loser : loser = IF winner = match.homeTeamId THEN match.awayTeamId ELSE match.homeTeamId
  OBVIOUS
<1>6. winner \in TeamIds /\ loser \in TeamIds /\ {winner, loser} = {match.homeTeamId, match.awayTeamId}
  BY <1>3, <1>4, <1>5 DEF Match
<1>7. [match EXCEPT !.status = "PLAYED", !.winnerId = winner] \in Match
  BY <1>3, <1>6 DEF Match, Statuses
<1>8. match.status = "UNPLAYED"
  BY <1>2 DEF SubmitScore, ScoreError
<1>9. matches' = [matches EXCEPT ![e.matchId].status = "PLAYED", ![e.matchId].winnerId = winner]
  BY <1>2, <1>4 DEF SubmitScore
<1>10. matches' = [matches EXCEPT ![e.matchId] = [match EXCEPT !.status = "PLAYED", !.winnerId = winner]]
  BY <1>1, <1>2, <1>9, StoresTyped DEF StoresOK
<1>11. Launch(s, e, e.matchId, "UNPLAYED", "score@unplayed",
              [winnerId |-> winner, loserId |-> loser,
               pendingId |-> pendingReschedule[TaskOf[e.matchId]][e.matchId]])
  BY <1>2, <1>4, <1>5 DEF SubmitScore
<1>12. QED
  BY <1>1, <1>2, <1>3, <1>6, <1>7, <1>8, <1>10, <1>11

LEMMA SubmitScoreType ==
  ASSUME TypeInv, NEW s \in Slots, NEW e \in Events, SubmitScore(s, e)
  PROVE  TypeInv'
<1>1. PICK match \in Match, winner, loser \in TeamIds :
           /\ e.matchId \in Matches
           /\ matches' = [matches EXCEPT ![e.matchId] =
                [match EXCEPT !.status = "PLAYED", !.winnerId = winner]]
           /\ [match EXCEPT !.status = "PLAYED", !.winnerId = winner] \in Match
           /\ Launch(s, e, e.matchId, "UNPLAYED", "score@unplayed",
                     [winnerId |-> winner, loserId |-> loser,
                      pendingId |-> pendingReschedule[TaskOf[e.matchId]][e.matchId]])
  BY ScoreRow
<1>2. StoresOK'
  BY <1>1, RowWrite, StoresTyped DEF SubmitScore
<1>3. PICK pending : pending = pendingReschedule[TaskOf[e.matchId]][e.matchId]
  OBVIOUS
<1>4. PICK mem : mem = [winnerId |-> winner, loserId |-> loser, pendingId |-> pending]
  OBVIOUS
<1>5. Launch(s, e, e.matchId, "UNPLAYED", "score@unplayed", mem) /\ "score@unplayed" \in Labels
  BY <1>1, <1>3, <1>4 DEF Labels
<1>6. e.matchId \in Keys /\ "UNPLAYED" \in Keys
  BY <1>1, KeyFacts DEF Statuses
<1>7. pending \in Comms \cup {Empty, None}
  BY <1>1, <1>3, <1>6, TaskOfAssumption, StoresTyped DEF StoresOK
<1>8. pc'[s] = "score@unplayed" /\ event'[s] = e /\ locals'[s] = mem
  BY <1>5, LaunchSlot
<1>9. Carries(s)'
  BY <1>4, <1>7, <1>8 DEF Carries, CreateLabels, StatusLabels
<1>10. QED
  BY <1>2, <1>5, <1>6, <1>9, StartType

\* A hop of a score keeps what it carries.
LEMMA ScoreHop ==
  ASSUME TypeInv, StoresOK', NEW s \in Slots, NEW from \in ScoreLabels, Ready(s, from),
         NEW dest \in Keys, NEW label \in ScoreLabels, Hop(s, dest, label, locals[s])
  PROVE  TypeInv'
<1>1. label \in Labels /\ from \in Labels
  BY LabelFacts
<1>2. Carries(s) /\ pc[s] = from /\ ~Idle(s) /\ event[s] \in Events
  BY <1>1, ReadySlot
<1>3. PICK mem : mem = locals[s]
  OBVIOUS
<1>4. Hop(s, dest, label, mem)
  BY <1>3
<1>5. pc'[s] = label /\ event'[s] = event[s] /\ locals'[s] = locals[s]
  BY <1>3, <1>4, HopSlot
<1>6. Carries(s)'
  BY <1>2, <1>5 DEF Carries, CreateLabels, ScoreLabels, StatusLabels
<1>7. QED
  BY <1>1, <1>2, <1>4, <1>6, HopStep

LEMMA ScoreSlot ==
  ASSUME TypeInv, NEW s \in Slots, NEW from \in ScoreLabels, Ready(s, from)
  PROVE  /\ pc[s] = from /\ event[s].matchId \in Matches
         /\ locals[s].winnerId \in TeamIds /\ locals[s].loserId \in TeamIds
         /\ locals[s].pendingId \in Comms \cup {Empty, None}
<1>1. Carries(s) /\ pc[s] = from /\ event[s] \in Events
  BY LabelFacts, ReadySlot
<1>2. QED
  BY <1>1, EventFacts DEF Carries

LEMMA StatWrite ==
  ASSUME StoresOK, NEW t \in TeamIds, NEW stat \in TeamStat, teamStats' = [teamStats EXCEPT ![t] = stat],
         UNCHANGED <<matches, mapBans, indexVars, commVars>>
  PROVE  StoresOK'
  BY DEF StoresOK, indexVars, commVars, PendingExists

\* The wins and losses that a score adds.
LEMMA WinStat ==
  ASSUME NEW st \in TeamStat
  PROVE  LET next == [st EXCEPT !.wins = @ + 1, !.points = @ + 1]
         IN /\ next \in TeamStat /\ next.losses = st.losses
            /\ next.wins = st.wins + 1 /\ next.points = st.points + 1
<1> DEFINE w == st.wins + 1
           p == st.points + 1
           won == [st EXCEPT !.wins = w]
<1>1. w \in Nat /\ p \in Nat
  BY DEF TeamStat
<1> HIDE DEF w, p
<1>2. won \in TeamStat /\ won.losses = st.losses /\ won.wins = w
  BY <1>1 DEF TeamStat
<1> HIDE DEF won
<1>3. /\ [won EXCEPT !.points = p] \in TeamStat
      /\ [won EXCEPT !.points = p].losses = won.losses
      /\ [won EXCEPT !.points = p].wins = won.wins
      /\ [won EXCEPT !.points = p].points = p
  BY <1>1, <1>2 DEF TeamStat
<1>4. QED
  BY <1>2, <1>3 DEF w, p, won

LEMMA WinWrite ==
  ASSUME TypeInv, NEW s \in Slots, ScoreWinner(s)
  PROVE  LET t == locals[s].winnerId
             stat == [teamStats[t] EXCEPT !.wins = @ + 1, !.points = @ + 1]
         IN t \in TeamIds /\ teamStats[t] \in TeamStat /\ stat \in TeamStat
            /\ teamStats' = [teamStats EXCEPT ![t] = stat]
<1>1. PICK t : t = locals[s].winnerId
  OBVIOUS
<1>2. t \in TeamIds /\ teamStats[t] \in TeamStat
  BY <1>1, ScoreSlot, StoresTyped DEF ScoreWinner, ScoreLabels, StoresOK
<1>3. [teamStats[t] EXCEPT !.wins = @ + 1, !.points = @ + 1] \in TeamStat
  BY <1>2, WinStat
<1>4. teamStats' = [teamStats EXCEPT ![t].wins = @ + 1, ![t].points = @ + 1]
  BY <1>1 DEF ScoreWinner
<1>5. teamStats' = [teamStats EXCEPT ![t] = [teamStats[t] EXCEPT !.wins = @ + 1, !.points = @ + 1]]
  <2>1. PICK f : f = [teamStats EXCEPT ![t].wins = @ + 1]
    OBVIOUS
  <2>2. teamStats' = [f EXCEPT ![t].points = @ + 1]
    BY <1>4, <2>1
  <2>3. f[t] = [teamStats[t] EXCEPT !.wins = @ + 1] /\ DOMAIN f = TeamIds
        /\ \A o \in TeamIds \ {t} : f[o] = teamStats[o]
    BY <1>2, <2>1, StoresTyped DEF StoresOK
  <2>4. teamStats'[t] = [teamStats[t] EXCEPT !.wins = @ + 1, !.points = @ + 1]
    BY <1>2, <2>2, <2>3 DEF TeamStat
  <2>5. teamStats' = [o \in TeamIds |-> IF o = t THEN teamStats'[t] ELSE teamStats[o]]
    BY <1>2, <2>2, <2>3
  <2>6. QED
    BY <1>2, <2>4, <2>5, StoresTyped DEF StoresOK
<1>6. QED
  BY <1>1, <1>2, <1>3, <1>5

LEMMA LossWrite ==
  ASSUME TypeInv, NEW s \in Slots, ScoreLoser(s)
  PROVE  LET t == locals[s].loserId
             stat == [teamStats[t] EXCEPT !.losses = @ + 1]
         IN t \in TeamIds /\ teamStats[t] \in TeamStat /\ stat \in TeamStat
            /\ teamStats' = [teamStats EXCEPT ![t] = stat]
<1>1. PICK t : t = locals[s].loserId
  OBVIOUS
<1>2. t \in TeamIds /\ teamStats[t] \in TeamStat
  BY <1>1, ScoreSlot, StoresTyped DEF ScoreLoser, ScoreLabels, StoresOK
<1>3. [teamStats[t] EXCEPT !.losses = @ + 1] \in TeamStat
  BY <1>2 DEF TeamStat
<1>4. teamStats' = [teamStats EXCEPT ![t] = [teamStats[t] EXCEPT !.losses = @ + 1]]
  BY <1>1 DEF ScoreLoser
<1>5. QED
  BY <1>1, <1>2, <1>3, <1>4

\* The comm that the last segment of a score closes.
LEMMA CloseType ==
  ASSUME StoresOK, NEW k \in Tasks, NEW m \in Matches, NEW c \in Comms \cup {Empty, None},
         CloseReschedule(k, m, c)
  PROVE  /\ matchComms' \in [Tasks -> [Matches -> [Comms -> MatchComm \cup {None}]]]
         /\ pendingReschedule' \in [Tasks -> [Matches -> Comms \cup {Empty, None}]]
         /\ PendingExists'
<1>1. CASE c \in Comms
  <2>1. PICK comm : comm = IF matchComms[k][m][c] = None
                           THEN [reschedule |-> None, rescheduleStatus |-> 3]
                           ELSE [matchComms[k][m][c] EXCEPT !.rescheduleStatus = 3]
    OBVIOUS
  <2>2. comm \in MatchComm
    <3>1. matchComms[k][m][c] \in MatchComm \cup {None}
      BY <1>1 DEF StoresOK
    <3>2. [reschedule |-> None, rescheduleStatus |-> 3] \in MatchComm
      BY DEF MatchComm, Moments
    <3>3. matchComms[k][m][c] \in MatchComm => [matchComms[k][m][c] EXCEPT !.rescheduleStatus = 3] \in MatchComm
      BY DEF MatchComm
    <3>4. QED
      BY <2>1, <3>1, <3>2, <3>3
  <2>3. matchComms' = [matchComms EXCEPT ![k][m][c] = comm] /\ UNCHANGED pendingReschedule
    BY <1>1, <2>1 DEF CloseReschedule
  <2>4. matchComms' \in [Tasks -> [Matches -> [Comms -> MatchComm \cup {None}]]]
    BY <2>2, <2>3 DEF StoresOK
  <2>5. \A j \in Tasks, n \in Matches, d \in Comms :
          matchComms[j][n][d] # None => matchComms'[j][n][d] # None
    BY <2>2, <2>3, NoneFacts DEF StoresOK
  <2>6. QED
    BY <2>3, <2>4, <2>5 DEF StoresOK, PendingExists
<1>2. CASE c \notin Comms
  <2>1. /\ pendingReschedule' = [pendingReschedule EXCEPT ![k][m] = Empty]
        /\ UNCHANGED matchComms
    BY <1>2 DEF CloseReschedule
  <2>2. QED
    BY <2>1, PendingClear DEF StoresOK
<1>3. QED
  BY <1>1, <1>2

LEMMA ViaType ==
  ASSUME TypeInv, NEW s \in Slots, ~Idle(s)
  PROVE  via[s] \in Links /\ via[s][2] \in Tasks
  BY DEF TypeInv, TypeOK, FlightTypeOK, Links

LEMMA ScoreListType ==
  ASSUME TypeInv, NEW s \in Slots, ScoreUnlist(s) \/ ScoreList(s) \/ ScoreWinner(s) \/ ScoreLoser(s)
  PROVE  TypeInv'
<1>1. CASE ScoreUnlist(s)
  <2>1. Ready(s, "score@unplayed") /\ Hop(s, "PLAYED", "score@played", locals[s])
    BY <1>1 DEF ScoreUnlist
  <2>2. StoresOK'
    BY <1>1, <2>1, ScoreSlot, StatusIndexWrite DEF ScoreUnlist, Statuses, ScoreLabels
  <2>3. QED
    BY <2>1, <2>2, ScoreHop, KeyFacts DEF Statuses, ScoreLabels
<1>2. CASE ScoreList(s)
  <2>1. Ready(s, "score@played") /\ Hop(s, locals[s].winnerId, "score@winner", locals[s])
    BY <1>2 DEF ScoreList
  <2>2. StoresOK'
    BY <1>2, <2>1, ScoreSlot, StatusIndexWrite DEF ScoreList, Statuses, ScoreLabels
  <2>3. locals[s].winnerId \in Keys
    BY <2>1, ScoreSlot, KeyFacts DEF ScoreLabels
  <2>4. QED
    BY <2>1, <2>2, <2>3, ScoreHop DEF ScoreLabels
<1>3. CASE ScoreWinner(s)
  <2>1. Ready(s, "score@winner") /\ Hop(s, locals[s].loserId, "score@loser", locals[s])
    BY <1>3 DEF ScoreWinner
  <2>2. StoresOK'
    BY <1>3, WinWrite, StatWrite, StoresTyped DEF ScoreWinner
  <2>3. locals[s].loserId \in Keys
    BY <2>1, ScoreSlot, KeyFacts DEF ScoreLabels
  <2>4. QED
    BY <2>1, <2>2, <2>3, ScoreHop DEF ScoreLabels
<1>4. CASE ScoreLoser(s)
  <2>1. Ready(s, "score@loser") /\ ~Idle(s) /\ Finish(s)
    BY <1>4, ReadySlot DEF ScoreLoser, Labels
  <2>2. CloseReschedule(via[s][2], event[s].matchId, locals[s].pendingId)
    BY <1>4 DEF ScoreLoser
  <2>3. /\ matchComms' \in [Tasks -> [Matches -> [Comms -> MatchComm \cup {None}]]]
        /\ pendingReschedule' \in [Tasks -> [Matches -> Comms \cup {Empty, None}]]
        /\ PendingExists'
    BY <2>1, <2>2, ScoreSlot, ViaType, CloseType, StoresTyped DEF ScoreLabels
  <2>4. teamStats' \in [TeamIds -> TeamStat]
    BY <1>4, LossWrite, StoresTyped DEF StoresOK
  <2>5. StoresOK'
    BY <1>4, <2>3, <2>4, StoresTyped DEF ScoreLoser, StoresOK, indexVars
  <2>6. QED
    BY <2>1, <2>5, FinishStep
<1>5. QED
  BY <1>1, <1>2, <1>3, <1>4

\* set-match-status

LEMMA StatusRow ==
  ASSUME TypeInv, NEW s \in Slots, NEW e \in Events, SetMatchStatus(s, e)
  PROVE  \E match \in Match :
           /\ match = matches[e.matchId] /\ e.matchId \in Matches
           /\ e.op = "set-match-status" /\ e.status \in Statuses
           /\ [match EXCEPT !.status = e.status] \in Match
           /\ matches' = [matches EXCEPT ![e.matchId] = [match EXCEPT !.status = e.status]]
           /\ Launch(s, e, e.matchId, match.status, "status@old", [oldStatus |-> match.status])
<1>1. e.matchId \in Matches /\ e.op = "set-match-status" /\ e.status \in Statuses
  BY EventFacts DEF SetMatchStatus, ValidStatus
<1>2. PICK match : match = matches[e.matchId]
  OBVIOUS
<1>3. match \in Match
  BY <1>1, <1>2, StoresTyped DEF SetMatchStatus, StoresOK
<1>4. [match EXCEPT !.status = e.status] \in Match
  BY <1>1, <1>3 DEF Match
<1>5. matches' = [matches EXCEPT ![e.matchId] = [match EXCEPT !.status = e.status]]
  BY <1>2 DEF SetMatchStatus
<1>6. Launch(s, e, e.matchId, match.status, "status@old", [oldStatus |-> match.status])
  BY <1>2 DEF SetMatchStatus
<1>7. QED
  BY <1>1, <1>2, <1>3, <1>4, <1>5, <1>6

LEMMA SetMatchStatusType ==
  ASSUME TypeInv, NEW s \in Slots, NEW e \in Events, SetMatchStatus(s, e)
  PROVE  TypeInv'
<1>1. PICK match \in Match :
           /\ e.matchId \in Matches
           /\ e.op = "set-match-status" /\ e.status \in Statuses
           /\ [match EXCEPT !.status = e.status] \in Match
           /\ matches' = [matches EXCEPT ![e.matchId] = [match EXCEPT !.status = e.status]]
           /\ Launch(s, e, e.matchId, match.status, "status@old", [oldStatus |-> match.status])
  BY StatusRow
<1>2. StoresOK'
  BY <1>1, RowWrite, StoresTyped DEF SetMatchStatus
<1>3. PICK old, mem : old = match.status /\ mem = [oldStatus |-> old]
  OBVIOUS
<1>4. Launch(s, e, e.matchId, old, "status@old", mem) /\ "status@old" \in Labels
  BY <1>1, <1>3 DEF Labels
<1>5. old \in Statuses /\ old \in Keys /\ e.matchId \in Keys
  BY <1>1, <1>3, KeyFacts DEF Match
<1>6. pc'[s] = "status@old" /\ event'[s] = e /\ locals'[s] = mem
  BY <1>4, LaunchSlot
<1>7. Carries(s)'
  BY <1>1, <1>3, <1>5, <1>6 DEF Carries, CreateLabels, ScoreLabels
<1>8. QED
  BY <1>2, <1>4, <1>5, <1>7, StartType

LEMMA StatusSlot ==
  ASSUME TypeInv, NEW s \in Slots, NEW from \in StatusLabels, Ready(s, from)
  PROVE  /\ pc[s] = from /\ ~Idle(s) /\ event[s] \in Events /\ event[s].matchId \in Matches
         /\ event[s].op = "set-match-status" /\ event[s].status \in Statuses
         /\ from = "status@old" => locals[s].oldStatus \in Statuses
<1>1. Carries(s) /\ pc[s] = from /\ ~Idle(s) /\ event[s] \in Events
  BY LabelFacts, ReadySlot
<1>2. QED
  BY <1>1, EventFacts DEF Carries

LEMMA StatusListType ==
  ASSUME TypeInv, NEW s \in Slots, StatusUnlist(s) \/ StatusList(s)
  PROVE  TypeInv'
<1>1. CASE StatusUnlist(s)
  <2>1. Ready(s, "status@old") /\ Hop(s, event[s].status, "status@new", NoLocals) /\ "status@new" \in Labels
    BY <1>1 DEF StatusUnlist, Labels
  <2>2. /\ pc[s] = "status@old" /\ ~Idle(s) /\ event[s] \in Events /\ event[s].matchId \in Matches
        /\ event[s].op = "set-match-status" /\ event[s].status \in Statuses
        /\ locals[s].oldStatus \in Statuses
    BY <2>1, StatusSlot DEF StatusLabels
  <2>3. StoresOK'
    BY <1>1, <2>2, StatusIndexWrite DEF StatusUnlist
  <2>4. pc'[s] = "status@new" /\ event'[s] = event[s]
    BY <2>1, HopSlot
  <2>5. Carries(s)'
    BY <2>2, <2>4 DEF Carries, CreateLabels, ScoreLabels
  <2>6. QED
    BY <2>1, <2>2, <2>3, <2>5, HopStep, KeyFacts
<1>2. CASE StatusList(s)
  <2>1. event[s].matchId \in Matches /\ event[s].status \in Statuses
    BY <1>2, StatusSlot DEF StatusList, StatusLabels
  <2>2. StoresOK'
    BY <1>2, <2>1, StatusIndexWrite DEF StatusList
  <2>3. QED
    BY <1>2, <2>2, FinishStep DEF StatusList
<1>3. QED
  BY <1>1, <1>2

\* set-schedule, set-arena and the comms: hop-free

\* The row that a new date or arena leaves.
LEMMA MatchFieldRow ==
  ASSUME TypeInv, NEW e \in Events, SetSchedule(e) \/ SetArena(e)
  PROVE  /\ e.matchId \in Matches /\ matches[e.matchId] \in Match
         /\ \E row \in Match : /\ matches' = [matches EXCEPT ![e.matchId] = row]
                               /\ row.homeTeamId = matches[e.matchId].homeTeamId
                               /\ row.awayTeamId = matches[e.matchId].awayTeamId
                               /\ row.winnerId = matches[e.matchId].winnerId
                               /\ row.status = matches[e.matchId].status
<1>1. e.matchId \in Matches /\ matches[e.matchId] \in Match
  BY EventFacts, StoresTyped DEF SetSchedule, SetArena, StoresOK
<1>2. PICK match \in Match : match = matches[e.matchId]
  BY <1>1
<1>3. CASE SetSchedule(e)
  <2>1. PICK row : row = [match EXCEPT !.matchDateTime = e.matchDateTime]
    OBVIOUS
  <2>2. e.matchDateTime \in Moments
    BY <1>3, EventFacts DEF SetSchedule, Moments
  <2>3. /\ row \in Match /\ row.homeTeamId = match.homeTeamId /\ row.awayTeamId = match.awayTeamId
        /\ row.winnerId = match.winnerId /\ row.status = match.status
    BY <2>1, <2>2 DEF Match
  <2>4. matches' = [matches EXCEPT ![e.matchId] = row]
    BY <1>2, <1>3, <2>1 DEF SetSchedule
  <2>5. QED
    BY <1>1, <1>2, <2>3, <2>4
<1>4. CASE SetArena(e)
  <2>1. PICK row : row = [match EXCEPT !.arenaId = e.arenaId]
    OBVIOUS
  <2>2. e.arenaId \in Arenas \cup {Empty}
    BY <1>4, EventFacts DEF SetArena
  <2>3. /\ row \in Match /\ row.homeTeamId = match.homeTeamId /\ row.awayTeamId = match.awayTeamId
        /\ row.winnerId = match.winnerId /\ row.status = match.status
    BY <2>1, <2>2 DEF Match
  <2>4. matches' = [matches EXCEPT ![e.matchId] = row]
    BY <1>2, <1>4, <2>1 DEF SetArena
  <2>5. QED
    BY <1>1, <1>2, <2>3, <2>4
<1>5. QED
  BY <1>3, <1>4

LEMMA MatchFieldType ==
  ASSUME TypeInv, NEW e \in Events, SetSchedule(e) \/ SetArena(e)
  PROVE  TypeInv'
<1>1. UNCHANGED <<flightVars, mapBans, teamStats, indexVars, commVars>>
  BY DEF SetSchedule, SetArena
<1>2. StoresOK'
  BY <1>1, MatchFieldRow, RowWrite, StoresTyped
<1>3. QED
  BY <1>1, <1>2, LocalStep

LEMMA HomeTask == ASSUME NEW m \in Matches PROVE TaskOf[m] \in Tasks
  BY KeyFacts, TaskOfAssumption

LEMMA PlainCommType == PlainComm \in MatchComm
  BY DEF PlainComm, MatchComm, Moments

LEMMA PostCommType ==
  ASSUME TypeInv, NEW e \in Events, PostComm(e)
  PROVE  TypeInv'
<1>1. e.matchId \in Matches /\ e.commId \in Comms /\ TaskOf[e.matchId] \in Tasks
  BY EventFacts, HomeTask DEF PostComm
<1>2. StoresOK'
  BY <1>1, PlainCommType, CommWrite, StoresTyped DEF PostComm
<1>3. QED
  BY <1>2, LocalStep DEF PostComm

LEMMA RequestRescheduleType ==
  ASSUME TypeInv, NEW e \in Events, RequestReschedule(e)
  PROVE  TypeInv'
<1>1. PICK k, m, c : k = TaskOf[e.matchId] /\ m = e.matchId /\ c = e.commId
  OBVIOUS
<1>2. k \in Tasks /\ m \in Matches /\ c \in Comms
  BY <1>1, EventFacts, HomeTask DEF RequestReschedule
<1>3. PICK comm \in MatchComm : matchComms' = [matchComms EXCEPT ![k][m][c] = comm]
  <2>1. [reschedule |-> e.reschedule, rescheduleStatus |-> 0] \in MatchComm
    BY EventFacts DEF RequestReschedule, MatchComm, Moments
  <2>2. QED
    BY <1>1, <2>1 DEF RequestReschedule
<1>4. pendingReschedule' = [pendingReschedule EXCEPT ![k][m] = c]
  BY <1>1 DEF RequestReschedule
<1>5. /\ matchComms' \in [Tasks -> [Matches -> [Comms -> MatchComm \cup {None}]]]
      /\ pendingReschedule' \in [Tasks -> [Matches -> Comms \cup {Empty, None}]]
  BY <1>2, <1>3, <1>4, StoresTyped DEF StoresOK
<1>6. PendingExists'
  <2>1. \A j \in Tasks, n \in Matches, d \in Comms :
          matchComms[j][n][d] # None => matchComms'[j][n][d] # None
    BY <1>2, <1>3, StoresTyped, NoneFacts DEF StoresOK
  <2>2. matchComms'[k][m][c] # None
    BY <1>2, <1>3, StoresTyped, NoneFacts DEF StoresOK
  <2>3. ASSUME NEW j \in Tasks, NEW n \in Matches, pendingReschedule'[j][n] \in Comms
        PROVE  matchComms'[j][n][pendingReschedule'[j][n]] # None
    <3>1. CASE j = k /\ n = m
      BY <1>2, <1>4, <2>2, <3>1, StoresTyped DEF StoresOK
    <3>2. CASE ~(j = k /\ n = m)
      <4>1. pendingReschedule'[j][n] = pendingReschedule[j][n]
        BY <1>2, <1>4, <3>2, StoresTyped DEF StoresOK
      <4>2. QED
        BY <2>1, <2>3, <4>1, StoresTyped DEF StoresOK, PendingExists
    <3>3. QED
      BY <3>1, <3>2
  <2>4. QED
    BY <2>3 DEF PendingExists
<1>7. UNCHANGED <<flightVars, matches, mapBans, teamStats, indexVars>>
  BY DEF RequestReschedule
<1>8. StoresOK'
  BY <1>5, <1>6, <1>7, StoresTyped DEF StoresOK, indexVars
<1>9. QED
  BY <1>7, <1>8, LocalStep

\* What a response does to the request, the messages and the match.
Responded(e, k, m, c, x, comm, answer) ==
  /\ k = TaskOf[e.matchId] /\ m = e.matchId /\ c = e.commId /\ x = e.responseCommId
  /\ matches[m] \in Match
  /\ pendingReschedule[k][m] = c /\ comm = matchComms[k][m][c]
  /\ answer.reschedule = comm.reschedule /\ answer.rescheduleStatus = ResponseStatus(e.response)
  /\ pendingReschedule' = [pendingReschedule EXCEPT ![k][m] = Empty]
  /\ matchComms' = [matchComms EXCEPT ![k][m] = [[@ EXCEPT ![c] = answer] EXCEPT ![x] = PlainComm]]
  /\ matches' = IF e.response = "accept"
                THEN [matches EXCEPT ![m] = [matches[m] EXCEPT !.matchDateTime = comm.reschedule]]
                ELSE matches

LEMMA RespondWrite ==
  ASSUME TypeInv, NEW e \in Events, RespondReschedule(e)
  PROVE  \E k \in Tasks, m \in Matches, c, x \in Comms, comm, answer \in MatchComm :
           Responded(e, k, m, c, x, comm, answer)
<1>1. PICK k, m, c, x : k = TaskOf[e.matchId] /\ m = e.matchId /\ c = e.commId /\ x = e.responseCommId
  OBVIOUS
<1>2. k \in Tasks /\ m \in Matches /\ c \in Comms /\ x \in Comms
  BY <1>1, EventFacts, HomeTask DEF RespondReschedule
<1>3. pendingReschedule[k][m] = c /\ matches[m] \in Match
  BY <1>1, <1>2, StoresTyped DEF RespondReschedule, StoresOK
<1>4. PICK comm : comm = matchComms[k][m][c]
  OBVIOUS
<1>5. comm \in MatchComm
  BY <1>2, <1>3, <1>4, StoresTyped DEF StoresOK, PendingExists
<1>6. PICK answer : answer = [comm EXCEPT !.rescheduleStatus = ResponseStatus(e.response)]
  OBVIOUS
<1>7. /\ answer \in MatchComm /\ answer.reschedule = comm.reschedule
      /\ answer.rescheduleStatus = ResponseStatus(e.response)
  BY <1>5, <1>6 DEF MatchComm, ResponseStatus
<1>8. /\ pendingReschedule' = [pendingReschedule EXCEPT ![k][m] = Empty]
      /\ matchComms' = [matchComms EXCEPT ![k][m] = [[@ EXCEPT ![c] = answer] EXCEPT ![x] = PlainComm]]
      /\ matches' = IF e.response = "accept"
                    THEN [matches EXCEPT ![m] = [matches[m] EXCEPT !.matchDateTime = comm.reschedule]]
                    ELSE matches
  BY <1>1, <1>4, <1>6 DEF RespondReschedule
<1>9. QED
  BY <1>1, <1>2, <1>3, <1>4, <1>5, <1>7, <1>8 DEF Responded

\* The comms after a response: the request answered and a message added.
LEMMA RespondedComms ==
  ASSUME StoresOK, NEW e, NEW k \in Tasks, NEW m \in Matches, NEW c \in Comms, NEW x \in Comms,
         NEW comm, NEW answer, Responded(e, k, m, c, x, comm, answer)
  PROVE  \A j \in Tasks, n \in Matches, d \in Comms :
           matchComms'[j][n][d] = IF j = k /\ n = m /\ d = x THEN PlainComm
                                  ELSE IF j = k /\ n = m /\ d = c THEN answer
                                  ELSE matchComms[j][n][d]
<1>1. PICK comms : comms = [[matchComms[k][m] EXCEPT ![c] = answer] EXCEPT ![x] = PlainComm]
  OBVIOUS
<1>2. matchComms' = [matchComms EXCEPT ![k][m] = comms]
  BY <1>1 DEF Responded
<1>3. \A j \in Tasks, n \in Matches :
        matchComms'[j][n] = IF j = k /\ n = m THEN comms ELSE matchComms[j][n]
  BY <1>2 DEF StoresOK
<1>4. \A d \in Comms :
        comms[d] = IF d = x THEN PlainComm ELSE IF d = c THEN answer ELSE matchComms[k][m][d]
  BY <1>1 DEF StoresOK
<1>5. QED
  BY <1>3, <1>4

LEMMA RespondRescheduleType ==
  ASSUME TypeInv, NEW e \in Events, RespondReschedule(e)
  PROVE  TypeInv'
<1>1. PICK k \in Tasks, m \in Matches, c \in Comms, x \in Comms, comm \in MatchComm, answer \in MatchComm :
           Responded(e, k, m, c, x, comm, answer)
  BY RespondWrite
<1>2. matches' \in [Matches -> Match \cup {None}]
  <2>1. PICK row, date : row = matches[m] /\ date = comm.reschedule
    OBVIOUS
  <2>2. row \in Match /\ date \in Moments
    BY <1>1, <2>1 DEF MatchComm, Responded
  <2>3. [row EXCEPT !.matchDateTime = date] \in Match
    BY <2>2 DEF Match
  <2>4. QED
    BY <1>1, <2>1, <2>3, StoresTyped DEF StoresOK, Responded
<1>11. \A j \in Tasks, n \in Matches, d \in Comms :
           matchComms'[j][n][d] = IF j = k /\ n = m /\ d = x THEN PlainComm
                                  ELSE IF j = k /\ n = m /\ d = c THEN answer
                                  ELSE matchComms[j][n][d]
  <2>1. StoresOK
    BY StoresTyped
  <2>2. QED
    BY <1>1, <2>1, RespondedComms
<1>3. ASSUME NEW j \in Tasks, NEW n \in Matches, NEW d \in Comms
      PROVE  /\ matchComms'[j][n][d] \in MatchComm \cup {None}
             /\ matchComms[j][n][d] # None => matchComms'[j][n][d] # None
  <2>1. matchComms'[j][n][d] \in {PlainComm, answer, matchComms[j][n][d]}
    BY <1>11
  <2>2. matchComms[j][n][d] \in MatchComm \cup {None}
    BY StoresTyped DEF StoresOK
  <2>3. QED
    BY <2>1, <2>2, PlainCommType, NoneFacts
<1>4. matchComms' \in [Tasks -> [Matches -> [Comms -> MatchComm \cup {None}]]]
  <2>1. PICK comms : comms = [[matchComms[k][m] EXCEPT ![c] = answer] EXCEPT ![x] = PlainComm]
    OBVIOUS
  <2>2. comms \in [Comms -> MatchComm \cup {None}]
    <3>1. matchComms[k][m] \in [Comms -> MatchComm \cup {None}]
      BY StoresTyped DEF StoresOK
    <3>2. QED
      BY <2>1, <3>1, PlainCommType
  <2>3. matchComms' = [matchComms EXCEPT ![k][m] = comms]
    BY <1>1, <2>1 DEF Responded
  <2>4. QED
    BY <2>2, <2>3, StoresTyped DEF StoresOK
<1>5. \A j \in Tasks, n \in Matches :
        pendingReschedule'[j][n] = pendingReschedule[j][n] \/ pendingReschedule'[j][n] = Empty
  BY <1>1, StoresTyped DEF StoresOK, Responded
<1>6. PendingExists'
  <2>1. ASSUME NEW j \in Tasks, NEW n \in Matches, pendingReschedule'[j][n] \in Comms
        PROVE  matchComms'[j][n][pendingReschedule'[j][n]] # None
    <3>1. pendingReschedule'[j][n] = pendingReschedule[j][n]
      BY <1>5, <2>1, NoneFacts
    <3>2. QED
      BY <1>3, <2>1, <3>1, StoresTyped DEF StoresOK, PendingExists
  <2>2. QED
    BY <2>1 DEF PendingExists
<1>7. pendingReschedule' \in [Tasks -> [Matches -> Comms \cup {Empty, None}]]
  BY <1>1, StoresTyped DEF StoresOK, Responded
<1>8. UNCHANGED <<flightVars, mapBans, teamStats, indexVars>>
  BY DEF RespondReschedule
<1>9. StoresOK'
  BY <1>2, <1>4, <1>6, <1>7, <1>8, StoresTyped DEF StoresOK, indexVars
<1>10. QED
  BY <1>8, <1>9, LocalStep

LEMMA TypeAtStart == Init => TypeInv
<1> SUFFICES ASSUME Init PROVE TypeInv
  OBVIOUS
<1>1. FlightTypeOK(Labels, Events)
  BY InitType DEF Init
<1>2. \A s \in Slots : Carries(s)
  BY DEF Init, FlightInit, Carries, Labels, CreateLabels, ScoreLabels, StatusLabels
<1>3. teamStats \in [TeamIds -> TeamStat]
  BY DEF Init, TeamStat
<1>4. PendingExists
  BY NoneFacts DEF Init, PendingExists
<1>5. QED
  BY <1>1, <1>2, <1>3, <1>4 DEF Init, TypeInv, TypeOK

LEMMA TypeStep == TypeInv /\ [Next]_vars => TypeInv'
<1> SUFFICES ASSUME TypeInv, [Next]_vars PROVE TypeInv'
  OBVIOUS
<1>1. ASSUME NEW s \in Slots, NEW e \in Events, Submit(s, e) PROVE TypeInv'
  BY <1>1, CreateMatchType, SubmitScoreType, SetMatchStatusType DEF Submit
<1>2. ASSUME NEW s \in Slots, Resume(s) PROVE TypeInv'
  BY <1>2, CreateListType, ScoreListType, StatusListType DEF Resume
<1>3. ASSUME NEW e \in Events, SubmitLocal(e) PROVE TypeInv'
  BY <1>3, BanMapType, MatchFieldType, PostCommType, RequestRescheduleType, RespondRescheduleType
     DEF SubmitLocal
<1>4. CASE UNCHANGED vars
  <2>1. StoresOK'
    BY <1>4, StoresTyped DEF vars, storeVars, indexVars, commVars, StoresOK, PendingExists
  <2>2. QED
    BY <1>4, <2>1, LocalStep DEF vars
<1>5. QED
  BY <1>1, <1>2, <1>3, <1>4 DEF Next

\* The inductive invariant of all that follows: the stores are well typed, a
\* pending request has been written, and every continuation has what its next
\* segments read.
THEOREM TypeInvariant == Spec => []TypeInv
<1>1. QED
  BY TypeAtStart, TypeStep, PTL DEF Spec

\* Type correctness of matches, ban states, standings, indexes, comms and
\* continuations.
THEOREM MatchTypeCorrect == Spec => []TypeOK
<1>1. TypeInv => TypeOK
  BY DEF TypeInv
<1>2. QED
  BY <1>1, TypeInvariant, PTL

---------------------------------------------------------------------------
(* The ban phase *)

\* Who acts after n actions, and how many of these are the home team's: the
\* same in every series, as long as the series goes on.
TurnAt(n) == IF n \in {0, 3, 4, 6, 8} THEN 1 ELSE 0

HomeTurns(n) ==
  IF n < 2 THEN 0 ELSE IF n < 3 THEN 1 ELSE IF n < 6 THEN 2
  ELSE IF n < 8 THEN 3 ELSE IF n < 10 THEN 4 ELSE 5

PoolOK(m, ban) ==
  \E e \in Events : /\ e.op = "create-match" /\ e.matchId = m
                    /\ ban.remaining \subseteq e.pool
                    /\ IsFiniteSet(e.pool \ ban.remaining)
                    /\ Cardinality(e.pool \ ban.remaining) = Len(ban.actions)

PhaseOK(ban) ==
  LET n == Len(ban.actions)
  IN /\ n <= TotalBanActions(ban.boSeries)
     /\ ban.banPhaseComplete <=> n = TotalBanActions(ban.boSeries)
     /\ ~ban.banPhaseComplete => ban.turn = TurnAt(n)

TurnsOK(ban) ==
  ban.homeTeamId # ban.awayTeamId =>
    /\ Turns(ban, ban.homeTeamId) = HomeTurns(Len(ban.actions))
    /\ Turns(ban, ban.awayTeamId) = Len(ban.actions) - HomeTurns(Len(ban.actions))

BanInv ==
  \A m \in Matches : mapBans[m] # None =>
    PoolOK(m, mapBans[m]) /\ PhaseOK(mapBans[m]) /\ TurnsOK(mapBans[m])

\* An action counts for the team that took it.
LEMMA TurnsAppend ==
  ASSUME NEW ban \in MapBan, NEW next \in MapBan, NEW t \in TeamIds,
         next.actions = Append(ban.actions, t), NEW team
  PROVE  /\ Turns(ban, team) \in Nat
         /\ Turns(next, team) = IF t = team THEN Turns(ban, team) + 1 ELSE Turns(ban, team)
<1> DEFINE n == Len(ban.actions)
           old == {i \in DOMAIN ban.actions : ban.actions[i] = team}
           new == {i \in DOMAIN next.actions : next.actions[i] = team}
<1>1. ban.actions \in Seq(TeamIds) /\ n \in Nat /\ DOMAIN ban.actions = 1..n
  BY DEF MapBan
<1>2. IsFiniteSet(1..n)
  BY <1>1, FS_Interval
<1>3. IsFiniteSet(old) /\ Cardinality(old) \in Nat
  BY <1>1, <1>2, FS_Subset, FS_CardinalityType
<1>4. /\ DOMAIN next.actions = 1..(n + 1)
      /\ \A i \in 1..n : next.actions[i] = ban.actions[i]
      /\ next.actions[n + 1] = t
  BY <1>1, AppendProperties
<1>5. CASE t = team
  <2>1. new = old \cup {n + 1} /\ n + 1 \notin old
    BY <1>1, <1>4, <1>5
  <2>2. Cardinality(new) = Cardinality(old) + 1
    BY <1>3, <2>1, FS_AddElement
  <2>3. QED
    BY <1>3, <1>5, <2>2 DEF Turns
<1>6. CASE t # team
  <2>1. new = old
    BY <1>1, <1>4, <1>6
  <2>2. QED
    BY <1>3, <1>6, <2>1 DEF Turns
<1>7. QED
  BY <1>5, <1>6

\* An arena that is taken was in the pool.
LEMMA PoolShrinks ==
  ASSUME NEW pool, NEW remaining \in SUBSET pool, NEW a \in remaining, IsFiniteSet(pool \ remaining)
  PROVE  /\ remaining \ {a} \subseteq pool
         /\ IsFiniteSet(pool \ (remaining \ {a}))
         /\ Cardinality(pool \ (remaining \ {a})) = Cardinality(pool \ remaining) + 1
<1>1. pool \ (remaining \ {a}) = (pool \ remaining) \cup {a} /\ a \notin pool \ remaining
  OBVIOUS
<1>2. QED
  BY <1>1, FS_AddElement

\* The two tables of the ban phase, read out.
LEMMA BanTable ==
  ASSUME NEW bo
  PROVE  /\ TotalBanActions(bo) = IF bo = 5 THEN 8 ELSE IF bo = 7 THEN 10 ELSE 6
         /\ bo = 5 => SwitchAfter(bo) = {0, 2, 4, 5, 6}
         /\ bo = 7 => SwitchAfter(bo) = {0, 2, 4, 5, 6, 7, 8}
         /\ bo \notin {5, 7} => SwitchAfter(bo) = {0, 2, 4}
<1>1. TotalBanActions(bo) = IF bo = 5 THEN 8 ELSE IF bo = 7 THEN 10 ELSE 6
  BY DEF TotalBanActions
<1>2. bo = 5 => SwitchAfter(bo) = {0, 2, 4, 5, 6}
  BY DEF SwitchAfter
<1>3. bo = 7 => SwitchAfter(bo) = {0, 2, 4, 5, 6, 7, 8}
  BY DEF SwitchAfter
<1>4. bo \notin {5, 7} => SwitchAfter(bo) = {0, 2, 4}
  BY DEF SwitchAfter
<1>5. QED
  BY <1>1, <1>2, <1>3, <1>4

LEMMA BanStarts ==
  ASSUME TypeInv, BanInv, NEW s \in Slots, NEW e \in Events, CreateMatch(s, e)
  PROVE  BanInv'
<1>1. e.matchId \in Matches /\ e.op = "create-match"
  BY EventFacts DEF CreateMatch
<1>2. PICK ban : ban = [turn |-> 1, homeTeamId |-> e.homeTeamId, awayTeamId |-> e.awayTeamId,
                        remaining |-> e.pool, actions |-> <<>>, banPhaseComplete |-> FALSE,
                        boSeries |-> e.boGames]
  OBVIOUS
<1>3. mapBans' = [mapBans EXCEPT ![e.matchId] = ban]
  BY <1>2 DEF CreateMatch
<1>4. PoolOK(e.matchId, ban)
  <2>1. e.pool \ ban.remaining = {} /\ Len(ban.actions) = 0
    BY <1>2
  <2>2. QED
    BY <1>1, <1>2, <2>1, FS_EmptySet DEF PoolOK
<1>5. PhaseOK(ban)
  BY <1>2 DEF PhaseOK, TotalBanActions, TurnAt
<1>6. TurnsOK(ban)
  <2>1. ASSUME NEW team PROVE Turns(ban, team) = 0
    <3>1. {i \in DOMAIN ban.actions : ban.actions[i] = team} = {}
      BY <1>2
    <3>2. QED
      BY <3>1, FS_EmptySet DEF Turns
  <2>2. Len(ban.actions) = 0
    BY <1>2
  <2>3. QED
    BY <2>1, <2>2 DEF TurnsOK, HomeTurns
<1>7. QED
  BY <1>1, <1>3, <1>4, <1>5, <1>6, StoresTyped DEF BanInv, StoresOK

LEMMA BanGoesOn ==
  ASSUME TypeInv, BanInv, NEW e \in Events, BanMap(e)
  PROVE  BanInv'
<1>1. PICK ban \in MapBan, next \in MapBan :
           /\ ban = mapBans[e.matchId] /\ mapBans' = [mapBans EXCEPT ![e.matchId] = next]
           /\ ~ban.banPhaseComplete /\ e.teamId = ExpectedTeam(ban) /\ e.arenaId \in ban.remaining
           /\ next.homeTeamId = ban.homeTeamId /\ next.awayTeamId = ban.awayTeamId
           /\ next.boSeries = ban.boSeries
           /\ next.remaining = ban.remaining \ {e.arenaId}
           /\ next.actions = Append(ban.actions, e.teamId)
           /\ next.turn = IF Len(ban.actions) \in SwitchAfter(ban.boSeries) THEN 1 - ban.turn ELSE ban.turn
           /\ next.banPhaseComplete = PhaseComplete(Len(ban.actions) + 1, ban.boSeries)
  BY BanWrite
<1>2. e.matchId \in Matches /\ e.teamId \in TeamIds /\ ban # None
  BY <1>1, EventFacts, NoneFacts DEF BanMap
<1>3. PoolOK(e.matchId, ban) /\ PhaseOK(ban) /\ TurnsOK(ban)
  BY <1>1, <1>2 DEF BanInv
<1>4. PICK n \in Nat : n = Len(ban.actions) /\ Len(next.actions) = n + 1
  BY <1>1, <1>2 DEF MapBan
<1>5. ban.turn \in {0, 1} /\ ban.boSeries \in Nat
  BY DEF MapBan
<1>6. n < TotalBanActions(ban.boSeries) /\ ban.turn = TurnAt(n) /\ TotalBanActions(ban.boSeries) \in {6, 8, 10}
  BY <1>1, <1>3, <1>4, <1>5 DEF PhaseOK, TotalBanActions
<1>7. PoolOK(e.matchId, next)
  <2>1. PICK f \in Events : /\ f.op = "create-match" /\ f.matchId = e.matchId
                            /\ ban.remaining \subseteq f.pool
                            /\ IsFiniteSet(f.pool \ ban.remaining)
                            /\ Cardinality(f.pool \ ban.remaining) = n
    BY <1>3, <1>4 DEF PoolOK
  <2>2. /\ next.remaining \subseteq f.pool
        /\ IsFiniteSet(f.pool \ next.remaining)
        /\ Cardinality(f.pool \ next.remaining) = n + 1
    <3>1. PICK pool, left, a : pool = f.pool /\ left = ban.remaining /\ a = e.arenaId
      OBVIOUS
    <3>2. left \in SUBSET pool /\ a \in left /\ IsFiniteSet(pool \ left) /\ Cardinality(pool \ left) = n
      BY <1>1, <2>1, <3>1
    <3>3. /\ left \ {a} \subseteq pool /\ IsFiniteSet(pool \ (left \ {a}))
          /\ Cardinality(pool \ (left \ {a})) = n + 1
      BY <3>2, PoolShrinks
    <3>4. QED
      BY <1>1, <3>1, <3>3
  <2>3. QED
    BY <1>4, <2>1, <2>2 DEF PoolOK
<1>8. PhaseOK(next)
  <2>1. next.banPhaseComplete <=> n + 1 = TotalBanActions(next.boSeries)
    <3>1. PICK total \in Nat : total = TotalBanActions(ban.boSeries) /\ n < total
      BY <1>6
    <3>2. (n + 1 >= total) <=> (n + 1 = total)
      BY <3>1
    <3>3. next.banPhaseComplete = (n + 1 >= total) /\ next.banPhaseComplete \in BOOLEAN
      BY <1>1, <1>4, <3>1 DEF PhaseComplete, MapBan
    <3>4. next.boSeries = ban.boSeries
      BY <1>1
    <3>5. QED
      BY <3>1, <3>2, <3>3, <3>4
  <2>2. ~next.banPhaseComplete => next.turn = TurnAt(n + 1)
    <3> SUFFICES ASSUME ~next.banPhaseComplete PROVE next.turn = TurnAt(n + 1)
      OBVIOUS
    <3>1. next.turn = IF n \in SwitchAfter(ban.boSeries) THEN 1 - TurnAt(n) ELSE TurnAt(n)
      BY <1>1, <1>4, <1>6
    <3>2. n + 1 < TotalBanActions(ban.boSeries)
      BY <1>1, <1>6, <2>1
    <3>3. CASE ban.boSeries = 5
      <4>1. n + 1 < 8 /\ SwitchAfter(ban.boSeries) = {0, 2, 4, 5, 6}
        BY <3>2, <3>3, BanTable
      <4>2. QED
        BY <3>1, <4>1 DEF TurnAt
    <3>4. CASE ban.boSeries = 7
      <4>1. n + 1 < 10 /\ SwitchAfter(ban.boSeries) = {0, 2, 4, 5, 6, 7, 8}
        BY <3>2, <3>4, BanTable
      <4>2. QED
        BY <3>1, <4>1 DEF TurnAt
    <3>5. CASE ban.boSeries \notin {5, 7}
      <4>1. n + 1 < 6 /\ SwitchAfter(ban.boSeries) = {0, 2, 4}
        BY <3>2, <3>5, BanTable
      <4>2. QED
        BY <3>1, <4>1 DEF TurnAt
    <3>6. QED
      BY <3>3, <3>4, <3>5
  <2>3. QED
    BY <1>1, <1>4, <1>6, <2>1, <2>2 DEF PhaseOK
<1>9. TurnsOK(next)
  <2>1. CASE ban.homeTeamId = ban.awayTeamId
    BY <1>1, <2>1 DEF TurnsOK
  <2>2. CASE ban.homeTeamId # ban.awayTeamId
    <3>1. Turns(ban, ban.homeTeamId) = HomeTurns(n) /\ Turns(ban, ban.awayTeamId) = n - HomeTurns(n)
      BY <1>3, <1>4, <2>2 DEF TurnsOK
    <3>2. e.teamId = IF TurnAt(n) = 0 THEN ban.homeTeamId ELSE ban.awayTeamId
      BY <1>1, <1>6 DEF ExpectedTeam
    <3>3. /\ Turns(next, ban.homeTeamId) = IF TurnAt(n) = 0 THEN HomeTurns(n) + 1 ELSE HomeTurns(n)
          /\ Turns(next, ban.awayTeamId) = IF TurnAt(n) = 0 THEN n - HomeTurns(n) ELSE n - HomeTurns(n) + 1
      <4>1. PICK t \in TeamIds : t = e.teamId /\ next.actions = Append(ban.actions, t)
        BY <1>1, <1>2
      <4>2. \A team : Turns(next, team) = IF t = team THEN Turns(ban, team) + 1 ELSE Turns(ban, team)
        BY <4>1, TurnsAppend
      <4>3. QED
        BY <2>2, <3>1, <3>2, <4>1, <4>2
    <3>4. HomeTurns(n + 1) = IF TurnAt(n) = 0 THEN HomeTurns(n) + 1 ELSE HomeTurns(n)
      <4>1. n < 10
        BY <1>6
      <4>2. QED
        BY <4>1 DEF TurnAt, HomeTurns
    <3>5. HomeTurns(n) \in Nat
      BY DEF HomeTurns
    <3>6. /\ Turns(next, ban.homeTeamId) = HomeTurns(n + 1)
          /\ Turns(next, ban.awayTeamId) = (n + 1) - HomeTurns(n + 1)
      BY <1>4, <3>3, <3>4, <3>5
    <3>7. QED
      BY <1>1, <1>4, <3>6 DEF TurnsOK
  <2>3. QED
    BY <2>1, <2>2
<1>10. QED
  BY <1>1, <1>2, <1>7, <1>8, <1>9, StoresTyped DEF BanInv, StoresOK

LEMMA BanStep == TypeInv /\ BanInv /\ [Next]_vars => BanInv'
<1> SUFFICES ASSUME TypeInv, BanInv, [Next]_vars PROVE BanInv'
  OBVIOUS
<1>1. ASSUME mapBans' = mapBans PROVE BanInv'
  BY <1>1 DEF BanInv
<1>2. ASSUME NEW s \in Slots, NEW e \in Events, Submit(s, e) PROVE BanInv'
  BY <1>1, <1>2, BanStarts DEF Submit, SubmitScore, SetMatchStatus
<1>3. ASSUME NEW s \in Slots, Resume(s) PROVE BanInv'
  BY <1>1, <1>3 DEF Resume, CreateHome, CreateAway, CreateWeek, CreateStatus, ListUnderTeam,
     SetStatusIndex, ScoreUnlist, ScoreList, ScoreWinner, ScoreLoser, StatusUnlist, StatusList
<1>4. ASSUME NEW e \in Events, SubmitLocal(e) PROVE BanInv'
  BY <1>1, <1>4, BanGoesOn DEF SubmitLocal, SetSchedule, SetArena, PostComm, RequestReschedule,
     RespondReschedule
<1>5. CASE UNCHANGED vars
  BY <1>1, <1>5 DEF vars, storeVars
<1>6. QED
  BY <1>2, <1>3, <1>4, <1>5 DEF Next

THEOREM BanInvariant == Spec => []BanInv
<1>1. Init => BanInv
  BY DEF Init, BanInv
<1>2. QED
  BY <1>1, TypeInvariant, BanStep, PTL DEF Spec

\* Every accepted action takes an arena of the match's pool, and the phase ends
\* exactly at its number, for every pool and every series.
THEOREM BansFollowTheLedger == Spec => []BanLedger
<1>1. BanInv => BanLedger
  BY DEF BanInv, BanLedger, PoolOK, PhaseOK
<1>2. QED
  BY <1>1, BanInvariant, PTL

\* The turn tables are fair at every point of every series: who acts after n
\* actions depends on n alone, and the two teams' counts follow.
THEOREM BansAreFair == Spec => []BanFairness
<1>1. TypeInv /\ BanInv => BanFairness
  <2> SUFFICES ASSUME TypeInv, BanInv, NEW m \in Matches, mapBans[m] # None,
                      mapBans[m].homeTeamId # mapBans[m].awayTeamId
               PROVE  LET ban == mapBans[m]
                          home == Turns(ban, ban.homeTeamId)
                          away == Turns(ban, ban.awayTeamId)
                      IN (ban.banPhaseComplete => home = away) /\ home - away \in -1..1
    BY DEF BanFairness
  <2>1. PICK ban \in MapBan : ban = mapBans[m]
    BY StoresTyped DEF StoresOK
  <2>2. PICK n \in Nat : n = Len(ban.actions)
    BY DEF MapBan
  <2>3. PhaseOK(ban) /\ TurnsOK(ban)
    BY <2>1 DEF BanInv
  <2>4. Turns(ban, ban.homeTeamId) = HomeTurns(n) /\ Turns(ban, ban.awayTeamId) = n - HomeTurns(n)
    BY <2>1, <2>2, <2>3 DEF TurnsOK
  <2>5. n <= 10 /\ (ban.banPhaseComplete => n \in {6, 8, 10})
    <3>1. PICK total \in {6, 8, 10} : total = TotalBanActions(ban.boSeries)
      BY BanTable
    <3>2. n <= total /\ (ban.banPhaseComplete <=> n = total)
      BY <2>2, <2>3, <3>1 DEF PhaseOK
    <3>3. QED
      BY <3>1, <3>2
  <2>6. n \in {6, 8, 10} => HomeTurns(n) = n - HomeTurns(n)
    BY DEF HomeTurns
  <2>7. HomeTurns(n) - (n - HomeTurns(n)) \in -1..1
    BY <2>5 DEF HomeTurns
  <2>8. ban.banPhaseComplete => Turns(ban, ban.homeTeamId) = Turns(ban, ban.awayTeamId)
    BY <2>4, <2>5, <2>6
  <2>9. Turns(ban, ban.homeTeamId) - Turns(ban, ban.awayTeamId) \in -1..1
    BY <2>4, <2>7
  <2>10. QED
    BY <2>1, <2>8, <2>9
<1>2. QED
  BY <1>1, TypeInvariant, BanInvariant, PTL

---------------------------------------------------------------------------
(* What steps leave of the rows of matches *)

\* A row that changes in nothing but its date and its arena.
RowKept(m) ==
  \/ matches'[m] = matches[m]
  \/ /\ matches[m] \in Match /\ matches'[m] \in Match
     /\ matches'[m].homeTeamId = matches[m].homeTeamId
     /\ matches'[m].awayTeamId = matches[m].awayTeamId
     /\ matches'[m].winnerId = matches[m].winnerId
     /\ matches'[m].status = matches[m].status

LEMMA FieldKept ==
  ASSUME TypeInv, NEW e \in Events, SetSchedule(e) \/ SetArena(e) \/ RespondReschedule(e), NEW m \in Matches
  PROVE  RowKept(m)
<1>1. ASSUME NEW n \in Matches, NEW row \in Match, matches[n] \in Match,
             row.homeTeamId = matches[n].homeTeamId, row.awayTeamId = matches[n].awayTeamId,
             row.winnerId = matches[n].winnerId, row.status = matches[n].status,
             matches' = [matches EXCEPT ![n] = row]
      PROVE  RowKept(m)
  <2>1. CASE m = n
    <3>1. matches'[m] = row
      BY <1>1, <2>1, StoresTyped DEF StoresOK
    <3>2. QED
      BY <1>1, <2>1, <3>1 DEF RowKept
  <2>2. CASE m # n
    BY <1>1, <2>2, StoresTyped DEF RowKept, StoresOK
  <2>3. QED
    BY <2>1, <2>2
<1>2. CASE SetSchedule(e) \/ SetArena(e)
  <2>1. PICK n \in Matches : n = e.matchId
    BY EventFacts
  <2>2. matches[n] \in Match
    BY <1>2, <2>1, MatchFieldRow
  <2>3. PICK row \in Match : /\ matches' = [matches EXCEPT ![n] = row]
                             /\ row.homeTeamId = matches[n].homeTeamId
                             /\ row.awayTeamId = matches[n].awayTeamId
                             /\ row.winnerId = matches[n].winnerId
                             /\ row.status = matches[n].status
    BY <1>2, <2>1, MatchFieldRow
  <2>4. QED
    BY <1>1, <2>2, <2>3
<1>3. CASE RespondReschedule(e)
  <2>1. PICK k \in Tasks, n \in Matches, c \in Comms, x \in Comms, comm \in MatchComm, answer \in MatchComm :
          Responded(e, k, n, c, x, comm, answer)
    BY <1>3, RespondWrite
  <2>2. PICK match, date : match = matches[n] /\ date = comm.reschedule
    OBVIOUS
  <2>3. PICK row : row = [match EXCEPT !.matchDateTime = date]
    OBVIOUS
  <2>4. match \in Match /\ date \in Moments /\ (matches' = matches \/ matches' = [matches EXCEPT ![n] = row])
    BY <2>1, <2>2, <2>3 DEF Responded, MatchComm
  <2>5. /\ row \in Match /\ row.homeTeamId = match.homeTeamId /\ row.awayTeamId = match.awayTeamId
        /\ row.winnerId = match.winnerId /\ row.status = match.status
    BY <2>3, <2>4 DEF Match
  <2>6. matches' = matches => RowKept(m)
    BY DEF RowKept
  <2>7. QED
    BY <1>1, <2>2, <2>4, <2>5, <2>6
<1>4. QED
  BY <1>2, <1>3

\* A match that is there stays, between the same teams, and once it has a winner
\* it keeps having one; only create-match adds a row.
Evolves(m) ==
  /\ matches[m] = None => matches'[m] = None
  /\ matches[m] # None => /\ matches'[m] # None
                          /\ matches'[m].homeTeamId = matches[m].homeTeamId
                          /\ matches'[m].awayTeamId = matches[m].awayTeamId
                          /\ matches[m].winnerId # Empty => matches'[m].winnerId # Empty
Created(m) == \E s \in Slots, e \in Events : CreateMatch(s, e) /\ e.matchId = m

LEMMA RowsEvolve ==
  ASSUME TypeInv, [Next]_vars, NEW m \in Matches
  PROVE  Evolves(m) \/ Created(m)
<1>1. ASSUME matches'[m] = matches[m] PROVE Evolves(m)
  BY <1>1 DEF Evolves
<1>2. ASSUME NEW n \in Matches, NEW row \in Match, NEW match \in Match, match = matches[n],
             row.homeTeamId = match.homeTeamId, row.awayTeamId = match.awayTeamId,
             match.winnerId # Empty => row.winnerId # Empty, matches' = [matches EXCEPT ![n] = row]
      PROVE  Evolves(m)
  <2>1. CASE m = n
    <3>1. matches'[m] = row
      BY <1>2, <2>1, StoresTyped DEF StoresOK
    <3>2. QED
      BY <1>2, <2>1, <3>1, NoneFacts DEF Evolves
  <2>2. CASE m # n
    BY <1>1, <1>2, <2>2, StoresTyped DEF StoresOK
  <2>3. QED
    BY <2>1, <2>2
<1>3. ASSUME NEW s \in Slots, NEW e \in Events, CreateMatch(s, e), e.matchId # m PROVE Evolves(m)
  BY <1>1, <1>3, StoresTyped DEF CreateMatch, StoresOK
<1>4. ASSUME NEW s \in Slots, NEW e \in Events, SubmitScore(s, e) PROVE Evolves(m)
  <2>1. PICK match \in Match, winner, loser \in TeamIds :
          /\ match = matches[e.matchId] /\ e.matchId \in Matches
          /\ matches' = [matches EXCEPT ![e.matchId] =
               [match EXCEPT !.status = "PLAYED", !.winnerId = winner]]
          /\ [match EXCEPT !.status = "PLAYED", !.winnerId = winner] \in Match
    BY <1>4, ScoreRow
  <2>2. PICK row : row = [match EXCEPT !.status = "PLAYED", !.winnerId = winner]
    OBVIOUS
  <2>3. /\ row \in Match /\ row.homeTeamId = match.homeTeamId /\ row.awayTeamId = match.awayTeamId
        /\ row.winnerId # Empty
    BY <2>1, <2>2, NoneFacts DEF Match
  <2>4. QED
    BY <1>2, <2>1, <2>2, <2>3
<1>5. ASSUME NEW s \in Slots, NEW e \in Events, SetMatchStatus(s, e) PROVE Evolves(m)
  <2>1. PICK match \in Match :
          /\ match = matches[e.matchId] /\ e.matchId \in Matches
          /\ [match EXCEPT !.status = e.status] \in Match
          /\ matches' = [matches EXCEPT ![e.matchId] = [match EXCEPT !.status = e.status]]
    BY <1>5, StatusRow
  <2>2. PICK row : row = [match EXCEPT !.status = e.status]
    OBVIOUS
  <2>3. /\ row \in Match /\ row.homeTeamId = match.homeTeamId /\ row.awayTeamId = match.awayTeamId
        /\ row.winnerId = match.winnerId
    BY <2>1, <2>2 DEF Match
  <2>4. QED
    BY <1>2, <2>1, <2>2, <2>3
<1>6. ASSUME NEW s \in Slots, Resume(s) PROVE Evolves(m)
  BY <1>1, <1>6 DEF Resume, CreateHome, CreateAway, CreateWeek, CreateStatus, ListUnderTeam,
     SetStatusIndex, ScoreUnlist, ScoreList, ScoreWinner, ScoreLoser, StatusUnlist, StatusList
<1>7. ASSUME NEW e \in Events, SetSchedule(e) \/ SetArena(e) \/ RespondReschedule(e) PROVE Evolves(m)
  BY <1>7, FieldKept, NoneFacts DEF RowKept, Evolves
<1>8. ASSUME NEW e \in Events, BanMap(e) \/ PostComm(e) \/ RequestReschedule(e) PROVE Evolves(m)
  BY <1>1, <1>8 DEF BanMap, PostComm, RequestReschedule
<1>9. CASE UNCHANGED vars
  BY <1>1, <1>9 DEF vars, storeVars
<1>10. QED
  BY <1>3, <1>4, <1>5, <1>6, <1>7, <1>8, <1>9 DEF Next, Submit, SubmitLocal, Created

LEMMA RowsStay ==
  ASSUME TypeInv, [Next]_vars, NEW m \in Matches, matches[m] # None
  PROVE  Evolves(m)
<1>1. ~Created(m)
  BY DEF Created, CreateMatch
<1>2. QED
  BY <1>1, RowsEvolve

---------------------------------------------------------------------------
(* Reschedule requests *)

\* Messages and responses get ids that are not the id of a request.
OwnMessageIds ==
  \A e, f \in Events :
    e.op = "post-comm" /\ f.op = "request-reschedule" /\ e.matchId = f.matchId => e.commId # f.commId
OwnResponseIds ==
  \A e, f \in Events :
    e.op = "respond-reschedule" /\ f.op = "request-reschedule" /\ e.matchId = f.matchId
      => e.responseCommId # f.commId

\* The request with id c of match m, and what it proposed.
Proposed(m, c, date) ==
  \E e \in Events : /\ e.op = "request-reschedule" /\ e.matchId = m /\ e.commId = c
                    /\ e.reschedule = date

HasWinner(m) == matches[m] # None /\ matches[m].winnerId # Empty
TeamsOf(m) == {matches[m].homeTeamId, matches[m].awayTeamId}

\* What a pending entry names: a request as it was made, open or closed by the
\* score of a match that has a team on its own task.
PendingOK(m) ==
  Pending(m) \in Comms =>
    /\ matches[m] # None
    /\ Proposed(m, Pending(m), Comm(m, Pending(m)).reschedule)
    /\ Comm(m, Pending(m)).rescheduleStatus \in {0, 3}
    /\ Comm(m, Pending(m)).rescheduleStatus = 3 =>
         HasWinner(m) /\ \E t \in TeamsOf(m) : TaskOf[t] = TaskOf[m]

CommOK(m) ==
  /\ matches[m] = None => Open(m) = {}
  /\ matches[m] # None /\ matches[m].winnerId = Empty => Open(m) = {Pending(m)} \ {Empty}
  /\ PendingOK(m)

\* A score under way: of a match with a winner, and one of its teams as loser,
\* on whose task the last segment runs.
ScoreUnderWay(s) ==
  /\ pc[s] \in ScoreLabels => /\ HasWinner(event[s].matchId)
                              /\ locals[s].loserId \in TeamsOf(event[s].matchId)
  /\ pc[s] = "score@loser" => via[s][2] = TaskOf[locals[s].loserId]

RescheduleInv == (\A s \in Slots : ScoreUnderWay(s)) /\ \A m \in Matches : CommOK(m)

\* How a segment leaves its slot.
LEMMA ResumeMoves ==
  ASSUME NEW s, Resume(s)
  PROVE  \/ Finish(s)
         \/ /\ Ready(s, "score@winner") /\ Hop(s, locals[s].loserId, "score@loser", locals[s])
         \/ /\ Ready(s, "score@unplayed") \/ Ready(s, "score@played")
            /\ \E dest : \E label \in {"score@played", "score@winner"} : Hop(s, dest, label, locals[s])
         \/ \E dest : \E label \in CreateLabels \cup StatusLabels : Hop(s, dest, label, NoLocals)
  BY DEF Resume, CreateHome, CreateAway, CreateWeek, CreateStatus, ScoreUnlist, ScoreList,
         ScoreWinner, ScoreLoser, StatusUnlist, StatusList, CreateLabels, StatusLabels

\* A score that is not moved, or moves on with what it carries, stays one.
LEMMA ScoreGoesOn ==
  ASSUME TypeInv, [Next]_vars, NEW r \in Slots, ScoreUnderWay(r), pc[r] \in ScoreLabels,
         event'[r] = event[r], locals'[r] = locals[r],
         pc'[r] = "score@loser" => via'[r][2] = TaskOf[locals[r].loserId]
  PROVE  ScoreUnderWay(r)'
<1>1. PICK m, l : m = event[r].matchId /\ l = locals[r].loserId
  OBVIOUS
<1>2. m \in Matches
  BY <1>1, BusySlot, LabelFacts DEF Idle
<1>3. HasWinner(m) /\ l \in TeamsOf(m)
  BY <1>1 DEF ScoreUnderWay
<1>4. HasWinner(m)' /\ l \in TeamsOf(m)'
  BY <1>2, <1>3, RowsStay DEF HasWinner, TeamsOf, Evolves
<1>5. event'[r].matchId = m /\ locals'[r].loserId = l
  BY <1>1
<1>6. HasWinner(event[r].matchId)' /\ locals'[r].loserId \in TeamsOf(event[r].matchId)'
  BY <1>4, <1>5 DEF HasWinner, TeamsOf
<1>7. QED
  BY <1>1, <1>5, <1>6 DEF ScoreUnderWay

LEMMA ScoreUnderWayStep ==
  ASSUME TypeInv, [Next]_vars, NEW r \in Slots, ScoreUnderWay(r)
  PROVE  ScoreUnderWay(r)'
<1>1. ASSUME pc'[r] \notin ScoreLabels PROVE ScoreUnderWay(r)'
  BY <1>1 DEF ScoreUnderWay, ScoreLabels
<1>2. ASSUME pc'[r] = pc[r], event'[r] = event[r], locals'[r] = locals[r], via'[r] = via[r]
      PROVE  ScoreUnderWay(r)'
  BY <1>1, <1>2, ScoreGoesOn DEF ScoreUnderWay
<1>3. ASSUME NEW s \in Slots, NEW e \in Events, Submit(s, e), r # s PROVE ScoreUnderWay(r)'
  <2>1. PICK key, dest, mem, label : Launch(s, e, key, dest, label, mem)
    BY <1>3 DEF Submit, CreateMatch, SubmitScore, SetMatchStatus
  <2>2. QED
    BY <1>2, <1>3, <2>1, LaunchSlot
<1>4. ASSUME NEW s \in Slots, NEW e \in Events, CreateMatch(s, e) \/ SetMatchStatus(s, e), r = s
      PROVE  ScoreUnderWay(r)'
  <2>1. PICK key, dest, mem : \/ Launch(s, e, key, dest, "create@home", mem)
                              \/ Launch(s, e, key, dest, "status@old", mem)
    BY <1>4 DEF CreateMatch, SetMatchStatus
  <2>2. QED
    BY <1>1, <1>4, <2>1, LaunchSlot DEF ScoreLabels
<1>5. ASSUME NEW s \in Slots, NEW e \in Events, SubmitScore(s, e), r = s PROVE ScoreUnderWay(r)'
  <2>1. PICK match \in Match, winner, loser \in TeamIds :
           /\ match = matches[e.matchId] /\ e.matchId \in Matches
           /\ {winner, loser} = {match.homeTeamId, match.awayTeamId}
           /\ matches' = [matches EXCEPT ![e.matchId] =
                [match EXCEPT !.status = "PLAYED", !.winnerId = winner]]
           /\ [match EXCEPT !.status = "PLAYED", !.winnerId = winner] \in Match
           /\ Launch(s, e, e.matchId, "UNPLAYED", "score@unplayed",
                     [winnerId |-> winner, loserId |-> loser,
                      pendingId |-> pendingReschedule[TaskOf[e.matchId]][e.matchId]])
    BY <1>5, ScoreRow
  <2>2. PICK row, m, mem : /\ row = [match EXCEPT !.status = "PLAYED", !.winnerId = winner]
                           /\ m = e.matchId
                           /\ mem = [winnerId |-> winner, loserId |-> loser,
                                     pendingId |-> pendingReschedule[TaskOf[e.matchId]][e.matchId]]
    OBVIOUS
  <2>3. /\ row # None /\ row.winnerId # Empty
        /\ loser \in {row.homeTeamId, row.awayTeamId}
    BY <2>1, <2>2, NoneFacts DEF Match
  <2>4. matches'[m] = row
    BY <2>1, <2>2, StoresTyped DEF StoresOK
  <2>5. Launch(s, e, m, "UNPLAYED", "score@unplayed", mem)
    BY <2>1, <2>2
  <2>6. pc'[s] = "score@unplayed" /\ event'[s] = e /\ locals'[s] = mem
    BY <2>5, LaunchSlot
  <2>7. mem.loserId = loser
    BY <2>2
  <2>8. QED
    BY <1>5, <2>2, <2>3, <2>4, <2>6, <2>7 DEF ScoreUnderWay, HasWinner, TeamsOf
<1>6. ASSUME NEW s \in Slots, Resume(s), r # s PROVE ScoreUnderWay(r)'
  <2>1. \/ Finish(s)
        \/ \E dest, mem, label : Hop(s, dest, label, mem)
    BY <1>6, ResumeMoves
  <2>2. pc'[r] = pc[r] /\ event'[r] = event[r] /\ locals'[r] = locals[r] /\ via'[r] = via[r]
    BY <1>6, <2>1, FinishSlot, HopSlot
  <2>3. QED
    BY <1>2, <2>2
<1>7. ASSUME Resume(r) PROVE ScoreUnderWay(r)'
  <2>1. PICK mem, loser : mem = locals[r] /\ loser = locals[r].loserId
    OBVIOUS
  <2>2. CASE Finish(r)
    BY <1>1, <2>2, FinishSlot DEF ScoreLabels
  <2>3. CASE Ready(r, "score@winner") /\ Hop(r, loser, "score@loser", mem)
    <3>1. pc[r] \in ScoreLabels
      BY <2>3 DEF Ready, ScoreLabels
    <3>2. event'[r] = event[r] /\ locals'[r] = locals[r] /\ via'[r][2] = TaskOf[loser]
      BY <2>1, <2>3, HopSlot
    <3>3. QED
      BY <2>1, <3>1, <3>2, ScoreGoesOn
  <2>4. CASE /\ Ready(r, "score@unplayed") \/ Ready(r, "score@played")
             /\ \E dest : \E label \in {"score@played", "score@winner"} : Hop(r, dest, label, mem)
    <3>1. pc[r] \in ScoreLabels
      BY <2>4 DEF Ready, ScoreLabels
    <3>2. event'[r] = event[r] /\ locals'[r] = locals[r] /\ pc'[r] # "score@loser"
      BY <2>1, <2>4, HopSlot
    <3>3. QED
      BY <2>1, <3>1, <3>2, ScoreGoesOn
  <2>5. CASE \E dest : \E label \in CreateLabels \cup StatusLabels : Hop(r, dest, label, NoLocals)
    BY <1>1, <2>5, HopSlot, LabelFacts
  <2>6. QED
    BY <1>7, <2>1, <2>2, <2>3, <2>4, <2>5, ResumeMoves
<1>8. ASSUME UNCHANGED flightVars PROVE ScoreUnderWay(r)'
  BY <1>2, <1>8 DEF flightVars
<1>9. ASSUME NEW e \in Events, SubmitLocal(e) PROVE UNCHANGED flightVars
  BY <1>9 DEF SubmitLocal, BanMap, SetSchedule, SetArena, PostComm, RequestReschedule, RespondReschedule
<1>10. CASE UNCHANGED vars
  BY <1>8, <1>10 DEF vars
<1>11. QED
  BY <1>3, <1>4, <1>5, <1>6, <1>7, <1>8, <1>9, <1>10 DEF Next, Submit

\* A match whose comms and pending entry are left alone.
LEMMA CommKept ==
  ASSUME NEW m \in Matches, CommOK(m), Evolves(m),
         matchComms'[TaskOf[m]][m] = matchComms[TaskOf[m]][m],
         pendingReschedule'[TaskOf[m]][m] = pendingReschedule[TaskOf[m]][m]
  PROVE  CommOK(m)'
<1>1. /\ Open(m)' = Open(m) /\ Pending(m)' = Pending(m)
      /\ \A c : Comm(m, c)' = Comm(m, c)
  BY DEF Open, Comm, Pending
<1>2. PICK p, comm : p = Pending(m) /\ comm = Comm(m, p)
  OBVIOUS
<1>3. Pending(m)' = p /\ Comm(m, Pending(m))' = comm
  BY <1>1, <1>2 DEF Comm
<1>4. HasWinner(m) => HasWinner(m)' /\ TeamsOf(m)' = TeamsOf(m)
  BY DEF Evolves, HasWinner, TeamsOf
<1>5. PendingOK(m)'
  <2>1. p \in Comms => /\ matches[m] # None
                       /\ Proposed(m, p, comm.reschedule)
                       /\ comm.rescheduleStatus \in {0, 3}
                       /\ comm.rescheduleStatus = 3 =>
                            HasWinner(m) /\ \E t \in TeamsOf(m) : TaskOf[t] = TaskOf[m]
    BY <1>2 DEF CommOK, PendingOK
  <2>2. p \in Comms => Proposed(m, p, comm.reschedule)'
    BY <2>1 DEF Proposed
  <2>3. QED
    BY <1>3, <1>4, <2>1, <2>2 DEF PendingOK, Evolves, Proposed
<1>6. QED
  BY <1>1, <1>5 DEF CommOK, Evolves

LEMMA PendingType ==
  ASSUME TypeInv, NEW m \in Matches
  PROVE  Pending(m) \in Comms \cup {Empty, None} /\ (Pending(m) \in Comms => Comm(m, Pending(m)) \in MatchComm)
<1>1. TaskOf[m] \in Tasks
  BY HomeTask
<1>2. Pending(m) \in Comms \cup {Empty, None}
  BY <1>1, StoresTyped DEF StoresOK, Pending
<1>3. Pending(m) \in Comms => Comm(m, Pending(m)) \in MatchComm \cup {None} /\ Comm(m, Pending(m)) # None
  BY <1>1, StoresTyped DEF StoresOK, Pending, Comm, PendingExists
<1>4. QED
  BY <1>2, <1>3

\* What each op that writes comms leaves of the requests.
LEMMA CreateComms ==
  ASSUME TypeInv, RescheduleInv, [Next]_vars, NEW s \in Slots, NEW e \in Events, CreateMatch(s, e),
         NEW m \in Matches
  PROVE  CommOK(m)'
<1>1. CommOK(m)
  BY DEF RescheduleInv
<1>2. PICK n, k : n = e.matchId /\ k = TaskOf[n]
  OBVIOUS
<1>3. /\ n \in Matches /\ k \in Tasks /\ matches[n] = None
      /\ pendingReschedule' = [pendingReschedule EXCEPT ![k][n] = Empty] /\ UNCHANGED matchComms
  BY <1>2, EventFacts, HomeTask DEF CreateMatch
<1>4. CASE m # n
  <2>1. pendingReschedule'[TaskOf[m]][m] = pendingReschedule[TaskOf[m]][m]
    BY <1>3, <1>4, HomeTask, StoresTyped DEF StoresOK
  <2>2. Evolves(m)
    BY <1>2, <1>4, StoresTyped DEF CreateMatch, Evolves, StoresOK
  <2>3. QED
    BY <1>1, <1>3, <2>1, <2>2, CommKept
<1>5. CASE m = n
  <2>1. Open(m) = {}
    BY <1>1, <1>3, <1>5 DEF CommOK
  <2>2. Open(m)' = {}
    BY <1>3, <2>1 DEF Open, Comm
  <2>3. Pending(m)' = Empty
    BY <1>2, <1>3, <1>5, StoresTyped DEF StoresOK, Pending
  <2>4. QED
    BY <2>2, <2>3, NoneFacts DEF CommOK, PendingOK
<1>6. QED
  BY <1>4, <1>5

\* On the task of the match, the last segment of a score closes the request that
\* was pending, or clears the entry.
LEMMA LoserHere ==
  ASSUME TypeInv, NEW m \in Matches, CommOK(m), HasWinner(m), Evolves(m),
         \E t \in TeamsOf(m) : TaskOf[t] = TaskOf[m],
         NEW c \in Comms \cup {Empty, None}, CloseReschedule(TaskOf[m], m, c)
  PROVE  CommOK(m)'
<1>1. HasWinner(m)' /\ TeamsOf(m)' = TeamsOf(m) /\ matches'[m] # None
  BY DEF HasWinner, TeamsOf, Evolves
<1>2. TaskOf[m] \in Tasks
  BY HomeTask
<1>3. PICK p, comm : p = Pending(m) /\ comm = Comm(m, p)
  OBVIOUS
<1>4. p \in Comms \cup {Empty, None} /\ (p \in Comms => comm \in MatchComm)
  BY <1>3, PendingType
<1>5. p \in Comms => Proposed(m, p, comm.reschedule) /\ comm.rescheduleStatus \in {0, 3}
  BY <1>3 DEF CommOK, PendingOK
<1>6. PendingOK(m)'
  <2>1. CASE c \notin Comms
    <3>1. Pending(m)' = Empty
      BY <1>2, <2>1, StoresTyped DEF CloseReschedule, StoresOK, Pending
    <3>2. QED
      BY <3>1, NoneFacts DEF PendingOK
  <2>2. CASE c \in Comms
    <3>1. PICK closed : closed = IF matchComms[TaskOf[m]][m][c] = None
                                 THEN [reschedule |-> None, rescheduleStatus |-> 3]
                                 ELSE [matchComms[TaskOf[m]][m][c] EXCEPT !.rescheduleStatus = 3]
      OBVIOUS
    <3>2. /\ matchComms' = [matchComms EXCEPT ![TaskOf[m]][m][c] = closed]
          /\ UNCHANGED pendingReschedule
      BY <2>2, <3>1 DEF CloseReschedule
    <3>3. Pending(m)' = p
      BY <1>3, <3>2 DEF Pending
    <3>4. \A d \in Comms : Comm(m, d)' = IF d = c THEN closed ELSE Comm(m, d)
      BY <1>2, <2>2, <3>2, StoresTyped DEF StoresOK, Comm
    <3>5. p = c => closed.reschedule = comm.reschedule /\ closed.rescheduleStatus = 3
      <4>1. SUFFICES ASSUME p = c PROVE closed.reschedule = comm.reschedule /\ closed.rescheduleStatus = 3
        OBVIOUS
      <4>2. comm \in MatchComm /\ comm = matchComms[TaskOf[m]][m][c]
        BY <1>3, <1>4, <2>2, <4>1 DEF Comm
      <4>3. closed = [comm EXCEPT !.rescheduleStatus = 3]
        BY <3>1, <4>2, NoneFacts
      <4>4. QED
        BY <4>2, <4>3 DEF MatchComm
    <3>6. PICK comm2 : comm2 = Comm(m, p)'
      OBVIOUS
    <3>7. p \in Comms => comm2.reschedule = comm.reschedule /\ comm2.rescheduleStatus \in {0, 3}
      BY <1>3, <1>5, <3>4, <3>5, <3>6
    <3>8. p \in Comms => Proposed(m, p, comm2.reschedule)
      BY <1>5, <3>7
    <3>9. p \in Comms => Proposed(m, p, comm2.reschedule)'
      BY <3>8 DEF Proposed
    <3>10. Comm(m, Pending(m))' = comm2
      BY <3>3, <3>6 DEF Comm
    <3>11. QED
      BY <1>1, <3>3, <3>7, <3>9, <3>10 DEF PendingOK, Proposed
  <2>3. QED
    BY <2>1, <2>2
<1>7. QED
  BY <1>1, <1>6 DEF CommOK, HasWinner

LEMMA LoserComms ==
  ASSUME TypeInv, RescheduleInv, [Next]_vars, NEW s \in Slots, ScoreLoser(s), NEW m \in Matches
  PROVE  CommOK(m)'
<1>1. PICK t, k, n, c : t = locals[s].loserId /\ k = via[s][2] /\ n = event[s].matchId /\ c = locals[s].pendingId
  OBVIOUS
<1>2. pc[s] = "score@loser" /\ n \in Matches /\ c \in Comms \cup {Empty, None}
  BY <1>1, ScoreSlot DEF ScoreLoser, ScoreLabels
<1>3. HasWinner(n) /\ t \in TeamsOf(n) /\ TaskOf[t] = k
  BY <1>1, <1>2 DEF RescheduleInv, ScoreUnderWay, ScoreLabels
<1>4. CloseReschedule(k, n, c) /\ UNCHANGED matches
  BY <1>1 DEF ScoreLoser
<1>5. CommOK(m) /\ Evolves(m)
  BY <1>4 DEF RescheduleInv, Evolves
<1>6. CASE m # n \/ TaskOf[m] # k
  <2>1. matchComms'[TaskOf[m]][m] = matchComms[TaskOf[m]][m]
        /\ pendingReschedule'[TaskOf[m]][m] = pendingReschedule[TaskOf[m]][m]
    <3>1. CASE c \in Comms
      <4>1. PICK closed : closed = IF matchComms[k][n][c] = None
                                   THEN [reschedule |-> None, rescheduleStatus |-> 3]
                                   ELSE [matchComms[k][n][c] EXCEPT !.rescheduleStatus = 3]
        OBVIOUS
      <4>2. matchComms' = [matchComms EXCEPT ![k][n][c] = closed] /\ UNCHANGED pendingReschedule
        BY <1>4, <3>1, <4>1 DEF CloseReschedule
      <4>3. QED
        BY <1>6, <4>2, HomeTask, StoresTyped DEF StoresOK
    <3>2. CASE c \notin Comms
      BY <1>4, <1>6, <3>2, HomeTask, StoresTyped DEF CloseReschedule, StoresOK
    <3>3. QED
      BY <3>1, <3>2
  <2>2. QED
    BY <1>5, <2>1, CommKept
<1>7. CASE m = n /\ TaskOf[m] = k
  BY <1>2, <1>3, <1>4, <1>5, <1>7, LoserHere
<1>8. QED
  BY <1>6, <1>7

LEMMA PostComms ==
  ASSUME TypeInv, RescheduleInv, OwnMessageIds, NEW e \in Events, PostComm(e), NEW m \in Matches
  PROVE  CommOK(m)'
<1>1. CommOK(m)
  BY DEF RescheduleInv
<1>2. PICK n, k, c : n = e.matchId /\ k = TaskOf[n] /\ c = e.commId
  OBVIOUS
<1>3. /\ n \in Matches /\ k \in Tasks /\ c \in Comms
      /\ matchComms' = [matchComms EXCEPT ![k][n][c] = PlainComm]
      /\ UNCHANGED <<matches, pendingReschedule>>
  BY <1>2, EventFacts, HomeTask DEF PostComm
<1>4. CASE m # n
  <2>1. matchComms'[TaskOf[m]][m] = matchComms[TaskOf[m]][m]
    BY <1>3, <1>4, HomeTask, StoresTyped DEF StoresOK
  <2>2. QED
    BY <1>1, <1>3, <2>1, CommKept DEF Evolves
<1>5. CASE m = n
  <2>1. Pending(m) # c
    BY <1>1, <1>2, <1>3, <1>5 DEF CommOK, PendingOK, Proposed, OwnMessageIds, PostComm
  <2>2. \A d \in Comms : Comm(m, d)' = IF d = c THEN PlainComm ELSE Comm(m, d)
    BY <1>2, <1>3, <1>5, StoresTyped DEF StoresOK, Comm
  <2>3. Open(m)' = Open(m) \ {c}
    BY <2>2 DEF Open, PlainComm
  <2>4. PICK p : p = Pending(m)
    OBVIOUS
  <2>5. Pending(m)' = p /\ (p \in Comms => Comm(m, p)' = Comm(m, p))
    BY <1>3, <2>1, <2>2, <2>4 DEF Pending
  <2>6. PendingOK(m)'
    <3>1. PICK comm : comm = Comm(m, p)
      OBVIOUS
    <3>2. p \in Comms => Comm(m, Pending(m))' = comm
      BY <2>5, <3>1 DEF Comm
    <3>3. QED
      BY <1>1, <1>3, <2>4, <2>5, <3>1, <3>2 DEF CommOK, PendingOK, Proposed, HasWinner, TeamsOf
  <2>7. matches[m] # None
    BY <1>2, <1>5 DEF PostComm
  <2>8. QED
    BY <1>1, <1>3, <2>1, <2>3, <2>4, <2>5, <2>6, <2>7 DEF CommOK
<1>6. QED
  BY <1>4, <1>5

LEMMA RequestComms ==
  ASSUME TypeInv, RescheduleInv, NEW e \in Events, RequestReschedule(e), NEW m \in Matches
  PROVE  CommOK(m)'
<1>1. CommOK(m)
  BY DEF RescheduleInv
<1>2. PICK n, k, c, comm : /\ n = e.matchId /\ k = TaskOf[n] /\ c = e.commId
                           /\ comm = [reschedule |-> e.reschedule, rescheduleStatus |-> 0]
  OBVIOUS
<1>3. /\ n \in Matches /\ k \in Tasks /\ c \in Comms /\ comm # None
      /\ matchComms' = [matchComms EXCEPT ![k][n][c] = comm]
      /\ pendingReschedule' = [pendingReschedule EXCEPT ![k][n] = c]
      /\ matches[n] # None /\ pendingReschedule[k][n] \notin Comms /\ UNCHANGED matches
  <2>1. comm \in MatchComm
    BY <1>2, EventFacts DEF RequestReschedule, MatchComm, Moments
  <2>2. QED
    BY <1>2, <2>1, EventFacts, HomeTask, NoneFacts DEF RequestReschedule, RescheduleError
<1>4. CASE m # n
  <2>1. matchComms'[TaskOf[m]][m] = matchComms[TaskOf[m]][m]
        /\ pendingReschedule'[TaskOf[m]][m] = pendingReschedule[TaskOf[m]][m]
    BY <1>3, <1>4, HomeTask, StoresTyped DEF StoresOK
  <2>2. QED
    BY <1>1, <1>3, <2>1, CommKept DEF Evolves
<1>5. CASE m = n
  <2>1. matches[m].winnerId = Empty => Open(m) = {}
    <3>1. Pending(m) \notin Comms
      BY <1>2, <1>3, <1>5 DEF Pending
    <3>2. Open(m) \subseteq Comms
      BY DEF Open
    <3>3. QED
      BY <1>1, <1>3, <1>5, <3>1, <3>2 DEF CommOK
  <2>2. \A d \in Comms : Comm(m, d)' = IF d = c THEN comm ELSE Comm(m, d)
    BY <1>2, <1>3, <1>5, StoresTyped DEF StoresOK, Comm
  <2>3. Open(m)' = Open(m) \cup {c}
    BY <1>2, <1>3, <2>2 DEF Open
  <2>4. Pending(m)' = c
    BY <1>2, <1>3, <1>5, StoresTyped DEF StoresOK, Pending
  <2>5. Proposed(m, c, comm.reschedule)
    BY <1>2, <1>5 DEF Proposed, RequestReschedule
  <2>6. Comm(m, Pending(m))' = comm
    BY <1>3, <2>2, <2>4 DEF Comm
  <2>7. PendingOK(m)'
    BY <1>2, <1>3, <1>5, <2>4, <2>5, <2>6 DEF PendingOK, Proposed
  <2>8. QED
    BY <1>3, <1>5, <2>1, <2>3, <2>4, <2>7, NoneFacts DEF CommOK
<1>6. QED
  BY <1>4, <1>5

LEMMA RespondComms ==
  ASSUME TypeInv, RescheduleInv, [Next]_vars, NEW e \in Events, RespondReschedule(e), NEW m \in Matches
  PROVE  CommOK(m)'
<1>1. CommOK(m)
  BY DEF RescheduleInv
<1>2. PICK k \in Tasks, n \in Matches, c \in Comms, x \in Comms, comm \in MatchComm, answer \in MatchComm :
        Responded(e, k, n, c, x, comm, answer)
  BY RespondWrite
<1>3. \A j \in Tasks, q \in Matches, d \in Comms :
           matchComms'[j][q][d] = IF j = k /\ q = n /\ d = x THEN PlainComm
                                  ELSE IF j = k /\ q = n /\ d = c THEN answer
                                  ELSE matchComms[j][q][d]
  <2>1. StoresOK
    BY StoresTyped
  <2>2. QED
    BY <1>2, <2>1, RespondedComms
<1>4. \A j \in Tasks, q \in Matches :
        pendingReschedule'[j][q] = IF j = k /\ q = n THEN Empty ELSE pendingReschedule[j][q]
  BY <1>2, StoresTyped DEF Responded, StoresOK
<1>5. Evolves(m)
  BY FieldKept, NoneFacts DEF RowKept, Evolves
<1>6. CASE m # n
  <2>1. pendingReschedule'[TaskOf[m]][m] = pendingReschedule[TaskOf[m]][m]
    BY <1>4, <1>6, HomeTask
  <2>2. matchComms'[TaskOf[m]][m] = matchComms[TaskOf[m]][m]
    BY <1>2, <1>6, HomeTask, StoresTyped DEF Responded, StoresOK
  <2>3. QED
    BY <1>1, <1>5, <2>1, <2>2, CommKept
<1>7. CASE m = n
  <2>1. /\ k = TaskOf[m] /\ Pending(m) = c /\ answer.rescheduleStatus \in {1, 2, 3}
        /\ matches[m] # None
    BY <1>2, <1>7, NoneFacts DEF Responded, ResponseStatus, Pending
  <2>2. matches[m].winnerId = Empty => Open(m) \subseteq {c}
    BY <1>1, <2>1 DEF CommOK
  <2>3. \A d \in Comms : Comm(m, d)' = IF d = x THEN PlainComm
                                       ELSE IF d = c THEN answer ELSE Comm(m, d)
    BY <1>3, <1>7, <2>1 DEF Comm
  <2>4. matches[m].winnerId = Empty => Open(m)' = {}
    BY <2>1, <2>2, <2>3 DEF Open, PlainComm
  <2>5. Pending(m)' = Empty
    BY <1>4, <1>7, <2>1 DEF Pending
  <2>6. PendingOK(m)'
    BY <2>5, NoneFacts DEF PendingOK
  <2>7. QED
    BY <1>5, <2>1, <2>4, <2>5, <2>6 DEF CommOK, Evolves
<1>8. QED
  BY <1>6, <1>7

LEMMA RescheduleStep ==
  ASSUME OwnMessageIds
  PROVE  TypeInv /\ RescheduleInv /\ [Next]_vars => RescheduleInv'
<1> SUFFICES ASSUME TypeInv, RescheduleInv, [Next]_vars, NEW m \in Matches PROVE CommOK(m)'
  BY ScoreUnderWayStep DEF RescheduleInv
<1>1. ASSUME UNCHANGED commVars, Evolves(m) PROVE CommOK(m)'
  BY <1>1, CommKept DEF RescheduleInv, commVars
<1>2. ASSUME NEW s \in Slots, NEW e \in Events, Submit(s, e) PROVE CommOK(m)'
  <2>1. CASE CreateMatch(s, e)
    BY <2>1, CreateComms
  <2>2. CASE SubmitScore(s, e) \/ SetMatchStatus(s, e)
    <3>1. matches[e.matchId] # None /\ UNCHANGED commVars
      BY <2>2 DEF SubmitScore, SetMatchStatus
    <3>2. ~Created(m)
      <4>1. ASSUME NEW r \in Slots, NEW f \in Events, CreateMatch(r, f) PROVE FALSE
        <5>1. pc'[r] = "create@home" /\ Idle(r)
          BY <4>1, LaunchSlot DEF CreateMatch
        <5>2. pc'[s] \in {"score@unplayed", "status@old"} /\ \A o \in Slots \ {s} : pc'[o] = pc[o]
          BY <2>2, LaunchSlot DEF SubmitScore, SetMatchStatus
        <5>3. QED
          BY <5>1, <5>2 DEF Idle
      <4>2. QED
        BY <4>1 DEF Created
    <3>3. QED
      BY <1>1, <3>1, <3>2, RowsEvolve
  <2>3. QED
    BY <1>2, <2>1, <2>2 DEF Submit
<1>3. ASSUME NEW s \in Slots, Resume(s) PROVE CommOK(m)'
  <2>1. CASE ScoreLoser(s)
    BY <2>1, LoserComms
  <2>2. CASE ~ScoreLoser(s)
    <3>1. UNCHANGED <<matches, commVars>>
      BY <1>3, <2>2 DEF Resume, CreateHome, CreateAway, CreateWeek, CreateStatus, ListUnderTeam,
         SetStatusIndex, ScoreUnlist, ScoreList, ScoreWinner, StatusUnlist, StatusList
    <3>2. QED
      BY <1>1, <3>1 DEF Evolves
  <2>3. QED
    BY <2>1, <2>2
<1>4. ASSUME NEW e \in Events, SubmitLocal(e) PROVE CommOK(m)'
  <2>1. CASE SetSchedule(e) \/ SetArena(e)
    <3>1. Evolves(m)
      BY <2>1, FieldKept, NoneFacts DEF RowKept, Evolves
    <3>2. QED
      BY <1>1, <2>1, <3>1 DEF SetSchedule, SetArena
  <2>2. CASE BanMap(e)
    BY <1>1, <2>2 DEF BanMap, Evolves
  <2>3. QED
    BY <1>4, <2>1, <2>2, PostComms, RequestComms, RespondComms DEF SubmitLocal
<1>5. CASE UNCHANGED vars
  BY <1>1, <1>5 DEF vars, storeVars, Evolves
<1>6. QED
  BY <1>2, <1>3, <1>4, <1>5 DEF Next

THEOREM RescheduleInvariant ==
  ASSUME OwnMessageIds
  PROVE  Spec => []RescheduleInv
<1>1. Init => RescheduleInv
  <2> SUFFICES ASSUME Init PROVE RescheduleInv
    OBVIOUS
  <2>1. \A s \in Slots : ScoreUnderWay(s)
    BY DEF Init, FlightInit, ScoreUnderWay, ScoreLabels
  <2>2. ASSUME NEW m \in Matches PROVE CommOK(m)
    <3>1. Pending(m) = None /\ matches[m] = None /\ \A c \in Comms : Comm(m, c) = None
      BY HomeTask DEF Init, Comm, Pending
    <3>2. QED
      BY <3>1, NoneFacts DEF CommOK, PendingOK, Open
  <2>3. QED
    BY <2>1, <2>2 DEF RescheduleInv
<1>2. QED
  BY <1>1, TypeInvariant, RescheduleStep, PTL DEF Spec

\* For every placement of keys on tasks: until its first score a match has at
\* most one open request, the pending one; later a pending entry may name a
\* request that a score closed, where a team of the match shares its task, and
\* never one that was answered.  What it rests on: no message reuses the id of
\* a request.
THEOREM OneOpenRequest ==
  ASSUME OwnMessageIds
  PROVE  Spec => []OneOpenReschedule
<1>1. TypeInv /\ RescheduleInv => OneOpenReschedule
  <2> SUFFICES ASSUME TypeInv, RescheduleInv, NEW m \in Matches, matches[m] # None
               PROVE  /\ matches[m].winnerId = Empty => Open(m) = {Pending(m)} \ {Empty}
                      /\ Pending(m) \in Comms \ Open(m) =>
                           /\ Comm(m, Pending(m)).rescheduleStatus = 3
                           /\ matches[m].winnerId # Empty
                           /\ TaskOf[m] \in {TaskOf[matches[m].homeTeamId], TaskOf[matches[m].awayTeamId]}
    BY DEF OneOpenReschedule
  <2>1. CommOK(m)
    BY DEF RescheduleInv
  <2>2. Pending(m) \in Comms \ Open(m) => Comm(m, Pending(m)).rescheduleStatus = 3
    BY <2>1, PendingType, NoneFacts DEF CommOK, PendingOK, Open
  <2>3. QED
    BY <2>1, <2>2 DEF CommOK, PendingOK, HasWinner, TeamsOf
<1>2. QED
  BY <1>1, RescheduleInvariant, TypeInvariant, PTL

LEMMA AcceptStep ==
  ASSUME OwnResponseIds, TypeInv, RescheduleInv, NEW e \in Events, RespondReschedule(e),
         NEW m \in Matches, matches'[m].matchDateTime # matches[m].matchDateTime
  PROVE  \E f \in Events : /\ f.op = "request-reschedule" /\ f.matchId = m
                           /\ f.commId = Pending(m) /\ f.reschedule = matches'[m].matchDateTime
                           /\ Comm(m, f.commId)'.rescheduleStatus = 1
<1>1. PICK k \in Tasks, n \in Matches, c \in Comms, x \in Comms, comm \in MatchComm, answer \in MatchComm :
        Responded(e, k, n, c, x, comm, answer)
  BY RespondWrite
<1>2. PICK row, date : row = matches[n] /\ date = comm.reschedule
  OBVIOUS
<1>3. e.response = "accept" /\ matches' = [matches EXCEPT ![n] = [row EXCEPT !.matchDateTime = date]]
  BY <1>1, <1>2 DEF Responded
<1>4. m = n /\ matches'[m].matchDateTime = date
  <2>1. m = n
    BY <1>3, StoresTyped DEF StoresOK
  <2>2. matches'[n] = [row EXCEPT !.matchDateTime = date]
    BY <1>3, StoresTyped DEF StoresOK
  <2>3. row \in Match
    BY <1>1, <1>2 DEF Responded
  <2>4. QED
    BY <2>1, <2>2, <2>3 DEF Match
<1>5. Pending(m) = c /\ Comm(m, c) = comm /\ k = TaskOf[m]
  BY <1>1, <1>4 DEF Responded, Pending, Comm
<1>6. PICK f \in Events : /\ f.op = "request-reschedule" /\ f.matchId = m /\ f.commId = c
                          /\ f.reschedule = date
  BY <1>2, <1>5 DEF RescheduleInv, CommOK, PendingOK, Proposed
<1>7. c # x
  <2>1. e.op = "respond-reschedule" /\ e.matchId = m /\ e.responseCommId = x
    BY <1>1, <1>4 DEF Responded, RespondReschedule
  <2>2. QED
    BY <1>6, <2>1 DEF OwnResponseIds
<1>8. Comm(m, c)' = answer
  <2>1. StoresOK
    BY StoresTyped
  <2>2. \A j \in Tasks, q \in Matches, d \in Comms :
           matchComms'[j][q][d] = IF j = k /\ q = n /\ d = x THEN PlainComm
                                  ELSE IF j = k /\ q = n /\ d = c THEN answer
                                  ELSE matchComms[j][q][d]
    BY <1>1, <2>1, RespondedComms
  <2>3. matchComms'[k][n][c] = answer
    BY <1>7, <2>2
  <2>4. QED
    BY <1>4, <1>5, <2>3 DEF Comm
<1>9. answer.rescheduleStatus = 1
  BY <1>1, <1>3 DEF Responded, ResponseStatus
<1>10. QED
  BY <1>4, <1>5, <1>6, <1>8, <1>9 DEF Comm

\* A date that moves together with the pending entry moves to what the pending
\* request proposed, and that request is left as accepted, for every placement
\* of keys and whatever scores did to the request before: the reuse of ids by
\* messages and responses is all that has to be ruled out.
THEOREM AcceptedDates ==
  ASSUME OwnMessageIds, OwnResponseIds
  PROVE  Spec => AcceptedDateWasProposed
<1> DEFINE Step == \A m \in Matches : matches[m] # None
             /\ matches'[m].matchDateTime # matches[m].matchDateTime
             /\ pendingReschedule' # pendingReschedule =>
               \E e \in Events : /\ e.op = "request-reschedule" /\ e.matchId = m
                                 /\ e.commId = Pending(m)
                                 /\ e.reschedule = matches'[m].matchDateTime
                                 /\ Comm(m, e.commId)'.rescheduleStatus = 1
<1>1. TypeInv /\ RescheduleInv /\ [Next]_vars => Step
  <2> SUFFICES ASSUME TypeInv, RescheduleInv, [Next]_vars, NEW m \in Matches, matches[m] # None,
                      matches'[m].matchDateTime # matches[m].matchDateTime,
                      pendingReschedule' # pendingReschedule
               PROVE  \E e \in Events : /\ e.op = "request-reschedule" /\ e.matchId = m
                                        /\ e.commId = Pending(m)
                                        /\ e.reschedule = matches'[m].matchDateTime
                                        /\ Comm(m, e.commId)'.rescheduleStatus = 1
    OBVIOUS
  <2>1. ASSUME NEW s \in Slots, NEW e \in Events, Submit(s, e) PROVE FALSE
    <3>1. CASE CreateMatch(s, e)
      <4>1. e.matchId \in Matches /\ e.matchId # m
        BY <3>1, EventFacts DEF CreateMatch
      <4>2. QED
        BY <3>1, <4>1, StoresTyped DEF CreateMatch, StoresOK
    <3>2. QED
      BY <2>1, <3>1 DEF Submit, SubmitScore, SetMatchStatus, commVars
  <2>2. ASSUME NEW s \in Slots, Resume(s) PROVE FALSE
    BY <2>2 DEF Resume, CreateHome, CreateAway, CreateWeek, CreateStatus, ListUnderTeam,
       SetStatusIndex, ScoreUnlist, ScoreList, ScoreWinner, ScoreLoser, StatusUnlist, StatusList
  <2>3. ASSUME NEW e \in Events, SubmitLocal(e) PROVE RespondReschedule(e)
    BY <2>3 DEF SubmitLocal, BanMap, SetSchedule, SetArena, PostComm, RequestReschedule, commVars
  <2>4. ~ UNCHANGED vars
    BY DEF vars, storeVars, commVars
  <2>5. PICK e \in Events : RespondReschedule(e)
    BY <2>1, <2>2, <2>3, <2>4 DEF Next
  <2>6. QED
    BY <2>5, AcceptStep
<1>2. Spec => []RescheduleInv
  BY RescheduleInvariant
<1>3. QED
  BY <1>1, <1>2, TypeInvariant, PTL DEF Spec, AcceptedDateWasProposed

---------------------------------------------------------------------------
(* Standings *)

\* No match is set back to unplayed, and no match is created with one team.
NoReopen == \A e \in Events : e.op = "set-match-status" => e.status # "UNPLAYED"
TwoTeams == \A e \in Events : e.op = "create-match" => e.homeTeamId # e.awayTeamId

WinLabels == {"score@unplayed", "score@played", "score@winner"}

\* Which results have reached the statistics: a win is paid when its
\* continuation leaves the winner, a loss when it ends.
Scoring(m, labels) == \E s \in Slots : pc[s] \in labels /\ event[s].matchId = m
WonBy(m, t) == matches[m] # None /\ matches[m].winnerId = t
LostBy(m, t) == /\ matches[m] # None
                /\ matches[m].winnerId \notin {Empty, t}
                /\ t \in {matches[m].homeTeamId, matches[m].awayTeamId}
PaidWins(t) == {m \in Matches : WonBy(m, t) /\ ~Scoring(m, WinLabels)}
PaidLosses(t) == {m \in Matches : LostBy(m, t) /\ ~Scoring(m, ScoreLabels)}

ResultOK(m) ==
  /\ matches[m].homeTeamId # matches[m].awayTeamId
  /\ matches[m].winnerId \in {Empty, matches[m].homeTeamId, matches[m].awayTeamId}
  /\ matches[m].status = "UNPLAYED" => matches[m].winnerId = Empty
ScoreOK(s) ==
  /\ matches[event[s].matchId] # None
  /\ matches[event[s].matchId].status # "UNPLAYED"
  /\ matches[event[s].matchId].winnerId = locals[s].winnerId
  /\ {locals[s].winnerId, locals[s].loserId}
       = {matches[event[s].matchId].homeTeamId, matches[event[s].matchId].awayTeamId}
OneScorer ==
  \A s, r \in Slots : pc[s] \in ScoreLabels /\ pc[r] \in ScoreLabels
                      /\ event[s].matchId = event[r].matchId => s = r
Tally(t) ==
  /\ IsFiniteSet(PaidWins(t)) /\ teamStats[t].wins = Cardinality(PaidWins(t))
  /\ teamStats[t].points = teamStats[t].wins
  /\ IsFiniteSet(PaidLosses(t)) /\ teamStats[t].losses = Cardinality(PaidLosses(t))

StandingsInv ==
  /\ \A m \in Matches : matches[m] # None => ResultOK(m)
  /\ \A s \in Slots : pc[s] \in ScoreLabels => ScoreOK(s)
  /\ OneScorer
  /\ \A t \in TeamIds : Tally(t)

\* A step that leaves the result of a match alone, and one that leaves alone
\* what a slot still has to pay.
ResultKept(m) ==
  \/ matches'[m] = matches[m]
  \/ /\ matches[m] = None /\ matches'[m] \in Match
     /\ matches'[m].homeTeamId # matches'[m].awayTeamId /\ matches'[m].winnerId = Empty
  \/ /\ matches[m] \in Match /\ matches'[m] \in Match
     /\ matches'[m].homeTeamId = matches[m].homeTeamId
     /\ matches'[m].awayTeamId = matches[m].awayTeamId
     /\ matches'[m].winnerId = matches[m].winnerId
     /\ matches'[m].status \in {matches[m].status} \cup (Statuses \ {"UNPLAYED"})
DutyKept(s) ==
  /\ pc'[s] \in WinLabels <=> pc[s] \in WinLabels
  /\ pc'[s] = "score@loser" <=> pc[s] = "score@loser"
  /\ pc[s] \in ScoreLabels => event'[s] = event[s] /\ locals'[s] = locals[s]

LEMMA ScoreLabelFacts == ScoreLabels = WinLabels \cup {"score@loser"} /\ "score@loser" \notin WinLabels
                         /\ "idle" \notin ScoreLabels
  BY DEF ScoreLabels, WinLabels

LEMMA ScorerMatch ==
  ASSUME TypeInv, NEW s \in Slots, pc[s] \in ScoreLabels
  PROVE  /\ event[s].matchId \in Matches
         /\ locals[s].winnerId \in TeamIds /\ locals[s].loserId \in TeamIds
  BY LabelFacts, EventFacts DEF TypeInv, Carries

LEMMA StandingsKept ==
  ASSUME TypeInv, StandingsInv, \A m \in Matches : ResultKept(m), \A s \in Slots : DutyKept(s),
         teamStats' = teamStats
  PROVE  StandingsInv'
<1>1. \A s \in Slots : /\ pc'[s] \in ScoreLabels <=> pc[s] \in ScoreLabels
                       /\ pc[s] \in ScoreLabels => event'[s] = event[s] /\ locals'[s] = locals[s]
  BY ScoreLabelFacts DEF DutyKept
<1>2. ASSUME NEW m \in Matches
      PROVE  /\ Scoring(m, WinLabels)' = Scoring(m, WinLabels)
             /\ Scoring(m, ScoreLabels)' = Scoring(m, ScoreLabels)
  <2>1. \A s \in Slots : pc'[s] \in ScoreLabels /\ event'[s].matchId = m
                         <=> pc[s] \in ScoreLabels /\ event[s].matchId = m
    BY <1>1
  <2>2. \A s \in Slots : pc'[s] \in WinLabels /\ event'[s].matchId = m
                         <=> pc[s] \in WinLabels /\ event[s].matchId = m
    BY ScoreLabelFacts DEF DutyKept
  <2>3. QED
    BY <2>1, <2>2 DEF Scoring
<1>3. ASSUME NEW m \in Matches, NEW t \in TeamIds
      PROVE  WonBy(m, t)' = WonBy(m, t) /\ LostBy(m, t)' = LostBy(m, t)
  <2>1. ResultKept(m)
    OBVIOUS
  <2>2. QED
    BY <2>1, NoneFacts DEF ResultKept, WonBy, LostBy
<1>4. ASSUME NEW t \in TeamIds PROVE Tally(t)'
  <2>1. PaidWins(t)' = PaidWins(t) /\ PaidLosses(t)' = PaidLosses(t)
    BY <1>2, <1>3 DEF PaidWins, PaidLosses
  <2>2. Tally(t)
    BY DEF StandingsInv
  <2>3. QED
    BY <2>1, <2>2 DEF Tally
<1>5. ASSUME NEW m \in Matches, matches'[m] # None PROVE ResultOK(m)'
  <2>1. ResultKept(m) /\ (matches[m] # None => ResultOK(m))
    BY DEF StandingsInv
  <2>2. QED
    BY <1>5, <2>1, NoneFacts DEF ResultKept, ResultOK
<1>6. ASSUME NEW s \in Slots, pc'[s] \in ScoreLabels PROVE ScoreOK(s)'
  <2>1. pc[s] \in ScoreLabels /\ event'[s] = event[s] /\ locals'[s] = locals[s] /\ ScoreOK(s)
    BY <1>1, <1>6 DEF StandingsInv
  <2>2. PICK m \in Matches : m = event[s].matchId
    BY <2>1, ScorerMatch
  <2>3. ResultKept(m)
    OBVIOUS
  <2>4. QED
    BY <2>1, <2>2, <2>3, NoneFacts DEF ScoreOK, ResultKept
<1>7. OneScorer'
  BY <1>1 DEF StandingsInv, OneScorer
<1>8. QED
  BY <1>4, <1>5, <1>6, <1>7 DEF StandingsInv

\* A score that is accepted: nothing about its match has been paid, and its
\* continuation is the only one of the match.
LEMMA ScoreAccepted ==
  ASSUME TypeInv, StandingsInv, NEW s \in Slots, NEW e \in Events, SubmitScore(s, e)
  PROVE  StandingsInv'
<1>1. PICK match \in Match, winner, loser \in TeamIds :
           /\ match = matches[e.matchId] /\ e.matchId \in Matches
           /\ match.status = "UNPLAYED"
           /\ {winner, loser} = {match.homeTeamId, match.awayTeamId}
           /\ matches' = [matches EXCEPT ![e.matchId] =
                [match EXCEPT !.status = "PLAYED", !.winnerId = winner]]
           /\ [match EXCEPT !.status = "PLAYED", !.winnerId = winner] \in Match
           /\ Launch(s, e, e.matchId, "UNPLAYED", "score@unplayed",
                     [winnerId |-> winner, loserId |-> loser,
                      pendingId |-> pendingReschedule[TaskOf[e.matchId]][e.matchId]])
  BY ScoreRow
<1>2. PICK m, mem, row : /\ m = e.matchId /\ row = [match EXCEPT !.status = "PLAYED", !.winnerId = winner]
                         /\ mem = [winnerId |-> winner, loserId |-> loser,
                                   pendingId |-> pendingReschedule[TaskOf[e.matchId]][e.matchId]]
  OBVIOUS
<1>3. /\ m \in Matches /\ row \in Match /\ row.status = "PLAYED" /\ row.winnerId = winner
      /\ row.homeTeamId = match.homeTeamId /\ row.awayTeamId = match.awayTeamId
      /\ mem.winnerId = winner /\ mem.loserId = loser
      /\ match = matches[m] /\ match # None
  BY <1>1, <1>2, NoneFacts DEF Match
<1>4. matches'[m] = row /\ \A n \in Matches \ {m} : matches'[n] = matches[n]
  BY <1>1, <1>2, <1>3, StoresTyped DEF StoresOK
<1>5. /\ pc[s] = "idle" /\ pc'[s] = "score@unplayed" /\ event'[s].matchId = m /\ locals'[s] = mem
      /\ \A o \in Slots \ {s} : pc'[o] = pc[o] /\ event'[o] = event[o] /\ locals'[o] = locals[o]
  <2>1. Launch(s, e, e.matchId, "UNPLAYED", "score@unplayed", mem)
    BY <1>1, <1>2
  <2>2. QED
    BY <1>2, <2>1, LaunchSlot DEF Idle
<1>6. \A o \in Slots : ~(pc[o] \in ScoreLabels /\ event[o].matchId = m)
  BY <1>1, <1>3 DEF StandingsInv, ScoreOK
<1>7. match.homeTeamId # match.awayTeamId /\ match.winnerId = Empty
  BY <1>1, <1>3 DEF StandingsInv, ResultOK
<1>8. pc'[s] \in WinLabels /\ pc'[s] \in ScoreLabels /\ WinLabels \subseteq ScoreLabels /\ pc[s] \notin ScoreLabels
  BY <1>5 DEF WinLabels, ScoreLabels
<1>9. ASSUME NEW t \in TeamIds PROVE Tally(t)'
  <2>1. ~WonBy(m, t) /\ ~LostBy(m, t)
    BY <1>3, <1>7, NoneFacts DEF WonBy, LostBy
  <2>2. Scoring(m, WinLabels)' /\ Scoring(m, ScoreLabels)'
    BY <1>5, <1>8 DEF Scoring
  <2>3. ASSUME NEW n \in Matches, n # m
        PROVE  /\ WonBy(n, t)' = WonBy(n, t) /\ LostBy(n, t)' = LostBy(n, t)
               /\ Scoring(n, WinLabels)' = Scoring(n, WinLabels)
               /\ Scoring(n, ScoreLabels)' = Scoring(n, ScoreLabels)
    <3>1. \A o \in Slots : /\ pc'[o] \in WinLabels /\ event'[o].matchId = n
                              <=> pc[o] \in WinLabels /\ event[o].matchId = n
                           /\ pc'[o] \in ScoreLabels /\ event'[o].matchId = n
                              <=> pc[o] \in ScoreLabels /\ event[o].matchId = n
      BY <1>5, <1>8, <2>3
    <3>2. matches'[n] = matches[n]
      BY <1>4, <2>3
    <3>3. QED
      BY <3>1, <3>2 DEF Scoring, WonBy, LostBy
  <2>4. PaidWins(t)' = PaidWins(t) /\ PaidLosses(t)' = PaidLosses(t)
    BY <2>1, <2>2, <2>3 DEF PaidWins, PaidLosses
  <2>5. Tally(t) /\ teamStats' = teamStats
    BY DEF StandingsInv, SubmitScore
  <2>6. QED
    BY <2>4, <2>5 DEF Tally
<1>10. ASSUME NEW n \in Matches, matches'[n] # None PROVE ResultOK(n)'
  <2>1. CASE n = m
    BY <1>1, <1>3, <1>4, <1>7, <2>1 DEF ResultOK
  <2>2. CASE n # m
    BY <1>4, <1>10, <2>2 DEF ResultOK, StandingsInv
  <2>3. QED
    BY <2>1, <2>2
<1>11. ASSUME NEW o \in Slots, pc'[o] \in ScoreLabels PROVE ScoreOK(o)'
  <2>1. CASE o = s
    <3>1. matches'[m] # None
      BY <1>3, <1>4, NoneFacts
    <3>2. event'[o].matchId = m /\ locals'[o] = mem
      BY <1>5, <2>1
    <3>3. /\ row.status # "UNPLAYED" /\ row.winnerId = mem.winnerId
          /\ {mem.winnerId, mem.loserId} = {row.homeTeamId, row.awayTeamId}
      BY <1>1, <1>3
    <3>4. QED
      BY <1>4, <3>1, <3>2, <3>3 DEF ScoreOK
  <2>2. CASE o # s
    <3>1. pc[o] \in ScoreLabels /\ event'[o] = event[o] /\ locals'[o] = locals[o] /\ ScoreOK(o)
      BY <1>5, <1>11, <2>2 DEF StandingsInv
    <3>2. PICK n \in Matches : n = event[o].matchId
      BY <3>1, ScorerMatch
    <3>3. n # m
      BY <1>6, <3>1, <3>2
    <3>4. matches'[n] = matches[n]
      BY <1>4, <3>3
    <3>5. QED
      BY <3>1, <3>2, <3>4 DEF ScoreOK
  <2>3. QED
    BY <2>1, <2>2
<1>12. OneScorer'
  BY <1>5, <1>6 DEF OneScorer, StandingsInv
<1>13. QED
  BY <1>9, <1>10, <1>11, <1>12 DEF StandingsInv

\* The match and the teams of a continuation that has a result to pay.
LEMMA PayFacts ==
  ASSUME TypeInv, StandingsInv, NEW s \in Slots, pc[s] \in ScoreLabels
  PROVE  \E m \in Matches, winner, loser \in TeamIds :
           /\ m = event[s].matchId /\ winner = locals[s].winnerId /\ loser = locals[s].loserId
           /\ matches[m] # None /\ winner # loser
           /\ \A t \in TeamIds : (WonBy(m, t) <=> t = winner) /\ (LostBy(m, t) <=> t = loser)
           /\ \A o \in Slots \ {s} : ~(pc[o] \in ScoreLabels /\ event[o].matchId = m)
<1>1. PICK m \in Matches, winner \in TeamIds, loser \in TeamIds :
        m = event[s].matchId /\ winner = locals[s].winnerId /\ loser = locals[s].loserId
  BY ScorerMatch
<1>2. /\ matches[m] # None /\ matches[m].winnerId = winner
      /\ {winner, loser} = {matches[m].homeTeamId, matches[m].awayTeamId}
      /\ matches[m].homeTeamId # matches[m].awayTeamId
  BY <1>1 DEF StandingsInv, ScoreOK, ResultOK
<1>3. winner # loser /\ winner # Empty
  BY <1>2, NoneFacts
<1>4. \A t \in TeamIds : (WonBy(m, t) <=> t = winner) /\ (LostBy(m, t) <=> t = loser)
  BY <1>2, <1>3 DEF WonBy, LostBy
<1>5. \A o \in Slots \ {s} : ~(pc[o] \in ScoreLabels /\ event[o].matchId = m)
  BY <1>1 DEF StandingsInv, OneScorer
<1>6. QED
  BY <1>1, <1>2, <1>3, <1>4, <1>5

\* A payment changes no row and no other slot, and leaves the rest as it was.
LEMMA PayKeeps ==
  ASSUME TypeInv, StandingsInv, NEW s \in Slots, pc[s] \in ScoreLabels, UNCHANGED matches,
         pc'[s] \in ScoreLabels => event'[s] = event[s] /\ locals'[s] = locals[s],
         \A o \in Slots \ {s} : pc'[o] = pc[o] /\ event'[o] = event[o] /\ locals'[o] = locals[o],
         \A t \in TeamIds : Tally(t)'
  PROVE  StandingsInv'
<1>1. \A o \in Slots : pc'[o] \in ScoreLabels =>
        pc[o] \in ScoreLabels /\ event'[o] = event[o] /\ locals'[o] = locals[o]
  OBVIOUS
<1>2. \A m \in Matches : matches'[m] # None => ResultOK(m)'
  BY DEF StandingsInv, ResultOK
<1>3. \A o \in Slots : pc'[o] \in ScoreLabels => ScoreOK(o)'
  BY <1>1 DEF StandingsInv, ScoreOK
<1>4. OneScorer'
  BY <1>1 DEF StandingsInv, OneScorer
<1>5. QED
  BY <1>2, <1>3, <1>4 DEF StandingsInv

\* A team's statistics after a set has grown by one match or not at all.
LEMMA CountOneMore ==
  ASSUME NEW S, IsFiniteSet(S), NEW m, m \notin S
  PROVE  IsFiniteSet(S \cup {m}) /\ Cardinality(S \cup {m}) = Cardinality(S) + 1
  BY FS_AddElement

LEMMA WinPaid ==
  ASSUME TypeInv, StandingsInv, NEW s \in Slots, ScoreWinner(s)
  PROVE  StandingsInv'
<1>1. pc[s] = "score@winner" /\ pc[s] \in ScoreLabels
  BY ScoreSlot DEF ScoreWinner, ScoreLabels
<1>2. PICK m \in Matches, winner \in TeamIds, loser \in TeamIds :
           /\ m = event[s].matchId /\ winner = locals[s].winnerId /\ loser = locals[s].loserId
           /\ matches[m] # None /\ winner # loser
           /\ \A t \in TeamIds : (WonBy(m, t) <=> t = winner) /\ (LostBy(m, t) <=> t = loser)
           /\ \A o \in Slots \ {s} : ~(pc[o] \in ScoreLabels /\ event[o].matchId = m)
  BY <1>1, PayFacts
<1>3. /\ pc'[s] = "score@loser" /\ event' = event /\ locals'[s] = locals[s]
      /\ \A o \in Slots \ {s} : pc'[o] = pc[o] /\ locals'[o] = locals[o]
  <2>1. PICK dest, mem : dest = locals[s].loserId /\ mem = locals[s]
    OBVIOUS
  <2>2. Hop(s, dest, "score@loser", mem)
    BY <2>1 DEF ScoreWinner
  <2>3. QED
    BY <2>1, <2>2, HopSlot
<1>4. matches' = matches
  BY DEF ScoreWinner
<1>5. PICK old, next \in TeamStat : /\ old = teamStats[winner] /\ next.losses = old.losses
                                   /\ next.wins = old.wins + 1 /\ next.points = old.points + 1
                                   /\ teamStats' = [teamStats EXCEPT ![winner] = next]
  <2>1. PICK old : old = teamStats[winner]
    OBVIOUS
  <2>2. PICK next : next = [old EXCEPT !.wins = @ + 1, !.points = @ + 1]
    OBVIOUS
  <2>3. old \in TeamStat /\ next \in TeamStat /\ teamStats' = [teamStats EXCEPT ![winner] = next]
    BY <1>2, <2>1, <2>2, WinWrite
  <2>4. next.losses = old.losses /\ next.wins = old.wins + 1 /\ next.points = old.points + 1
    BY <2>2, <2>3, WinStat
  <2>5. QED
    BY <2>1, <2>3, <2>4
<1>6. ASSUME NEW t \in TeamIds PROVE Tally(t)'
  <2>1. ASSUME NEW n \in Matches
        PROVE  /\ WonBy(n, t)' = WonBy(n, t) /\ LostBy(n, t)' = LostBy(n, t)
               /\ Scoring(n, ScoreLabels)' = Scoring(n, ScoreLabels)
               /\ Scoring(n, WinLabels)' = (Scoring(n, WinLabels) /\ n # m)
    <3>1. WonBy(n, t)' = WonBy(n, t) /\ LostBy(n, t)' = LostBy(n, t)
      BY <1>4 DEF WonBy, LostBy
    <3>2. \A o \in Slots : pc'[o] \in ScoreLabels <=> pc[o] \in ScoreLabels
      BY <1>1, <1>3, ScoreLabelFacts
    <3>3. \A o \in Slots : pc'[o] \in WinLabels /\ event'[o].matchId = n
                           <=> pc[o] \in WinLabels /\ event[o].matchId = n /\ n # m
      BY <1>2, <1>3, ScoreLabelFacts
    <3>4. QED
      BY <1>3, <3>1, <3>2, <3>3 DEF Scoring
  <2>2. PaidLosses(t)' = PaidLosses(t)
    BY <2>1 DEF PaidLosses
  <2>3. Tally(t) /\ teamStats[t] \in TeamStat
    BY StoresTyped DEF StandingsInv, StoresOK
  <2>4. CASE t = winner
    <3>1. Scoring(m, WinLabels)
      BY <1>1, <1>2 DEF Scoring, WinLabels
    <3>2. m \notin PaidWins(t) /\ PaidWins(t)' = PaidWins(t) \cup {m}
      BY <1>2, <2>1, <2>4, <3>1 DEF PaidWins
    <3>3. teamStats'[t] = next
      BY <1>5, <2>4, StoresTyped DEF StoresOK
    <3>4. IsFiniteSet(PaidWins(t)') /\ Cardinality(PaidWins(t)') = Cardinality(PaidWins(t)) + 1
      <4>1. PICK S : S = PaidWins(t)
        OBVIOUS
      <4>2. IsFiniteSet(S) /\ m \notin S
        BY <2>3, <3>2, <4>1 DEF Tally
      <4>3. QED
        BY <3>2, <4>1, <4>2, CountOneMore
    <3>5. QED
      BY <1>5, <2>2, <2>3, <2>4, <3>3, <3>4 DEF Tally
  <2>5. CASE t # winner
    <3>1. PaidWins(t)' = PaidWins(t)
      BY <1>2, <2>1, <2>5 DEF PaidWins
    <3>2. teamStats'[t] = teamStats[t]
      BY <1>5, <2>5, StoresTyped DEF StoresOK
    <3>3. QED
      BY <2>2, <2>3, <3>1, <3>2 DEF Tally
  <2>6. QED
    BY <2>4, <2>5
<1>7. QED
  BY <1>1, <1>3, <1>4, <1>6, PayKeeps

LEMMA LossPaid ==
  ASSUME TypeInv, StandingsInv, NEW s \in Slots, ScoreLoser(s)
  PROVE  StandingsInv'
<1>1. pc[s] = "score@loser" /\ pc[s] \in ScoreLabels
  BY ScoreSlot DEF ScoreLoser, ScoreLabels
<1>2. PICK m \in Matches, winner \in TeamIds, loser \in TeamIds :
           /\ m = event[s].matchId /\ winner = locals[s].winnerId /\ loser = locals[s].loserId
           /\ matches[m] # None /\ winner # loser
           /\ \A t \in TeamIds : (WonBy(m, t) <=> t = winner) /\ (LostBy(m, t) <=> t = loser)
           /\ \A o \in Slots \ {s} : ~(pc[o] \in ScoreLabels /\ event[o].matchId = m)
  BY <1>1, PayFacts
<1>3. /\ pc'[s] = "idle"
      /\ \A o \in Slots \ {s} : pc'[o] = pc[o] /\ event'[o] = event[o] /\ locals'[o] = locals[o]
  BY FinishSlot DEF ScoreLoser
<1>4. matches' = matches
  BY DEF ScoreLoser
<1>5. PICK old, next \in TeamStat : /\ old = teamStats[loser] /\ next.losses = old.losses + 1
                                   /\ next.wins = old.wins /\ next.points = old.points
                                   /\ teamStats' = [teamStats EXCEPT ![loser] = next]
  <2>1. PICK old : old = teamStats[loser]
    OBVIOUS
  <2>2. PICK next : next = [old EXCEPT !.losses = @ + 1]
    OBVIOUS
  <2>3. old \in TeamStat /\ next \in TeamStat /\ teamStats' = [teamStats EXCEPT ![loser] = next]
    BY <1>2, <2>1, <2>2, LossWrite
  <2>4. next.losses = old.losses + 1 /\ next.wins = old.wins /\ next.points = old.points
    BY <2>2, <2>3 DEF TeamStat
  <2>5. QED
    BY <2>1, <2>3, <2>4
<1>6. ASSUME NEW t \in TeamIds PROVE Tally(t)'
  <2>1. ASSUME NEW n \in Matches
        PROVE  /\ WonBy(n, t)' = WonBy(n, t) /\ LostBy(n, t)' = LostBy(n, t)
               /\ Scoring(n, WinLabels)' = Scoring(n, WinLabels)
               /\ Scoring(n, ScoreLabels)' = (Scoring(n, ScoreLabels) /\ n # m)
    <3>1. WonBy(n, t)' = WonBy(n, t) /\ LostBy(n, t)' = LostBy(n, t)
      BY <1>4 DEF WonBy, LostBy
    <3>2. \A o \in Slots : pc'[o] \in WinLabels /\ event'[o].matchId = n
                           <=> pc[o] \in WinLabels /\ event[o].matchId = n
      BY <1>1, <1>3, ScoreLabelFacts
    <3>3. \A o \in Slots : pc'[o] \in ScoreLabels /\ event'[o].matchId = n
                           <=> pc[o] \in ScoreLabels /\ event[o].matchId = n /\ n # m
      BY <1>2, <1>3, ScoreLabelFacts
    <3>4. QED
      BY <3>1, <3>2, <3>3 DEF Scoring
  <2>2. PaidWins(t)' = PaidWins(t)
    BY <2>1 DEF PaidWins
  <2>3. Tally(t) /\ teamStats[t] \in TeamStat
    BY StoresTyped DEF StandingsInv, StoresOK
  <2>4. CASE t = loser
    <3>1. Scoring(m, ScoreLabels)
      BY <1>1, <1>2 DEF Scoring
    <3>2. m \notin PaidLosses(t) /\ PaidLosses(t)' = PaidLosses(t) \cup {m}
      BY <1>2, <2>1, <2>4, <3>1 DEF PaidLosses
    <3>3. teamStats'[t] = next
      BY <1>5, <2>4, StoresTyped DEF StoresOK
    <3>4. IsFiniteSet(PaidLosses(t)') /\ Cardinality(PaidLosses(t)') = Cardinality(PaidLosses(t)) + 1
      <4>1. PICK S : S = PaidLosses(t)
        OBVIOUS
      <4>2. IsFiniteSet(S) /\ m \notin S
        BY <2>3, <3>2, <4>1 DEF Tally
      <4>3. QED
        BY <3>2, <4>1, <4>2, CountOneMore
    <3>5. QED
      BY <1>5, <2>2, <2>3, <2>4, <3>3, <3>4 DEF Tally
  <2>5. CASE t # loser
    <3>1. PaidLosses(t)' = PaidLosses(t)
      BY <1>2, <2>1, <2>5 DEF PaidLosses
    <3>2. teamStats'[t] = teamStats[t]
      BY <1>5, <2>5, StoresTyped DEF StoresOK
    <3>3. QED
      BY <2>2, <2>3, <3>1, <3>2 DEF Tally
  <2>6. QED
    BY <2>4, <2>5
<1>7. QED
  BY <1>1, <1>3, <1>4, <1>6, PayKeeps, ScoreLabelFacts

\* The rows that the other ops write.
LEMMA CreateResult ==
  ASSUME TypeInv, TwoTeams, NEW s \in Slots, NEW e \in Events, CreateMatch(s, e),
         NEW m \in Matches
  PROVE  ResultKept(m)
<1>1. PICK n \in Matches : n = e.matchId
  BY EventFacts
<1>2. CASE m = n
  <2>1. matches[m] = None
    BY <1>1, <1>2 DEF CreateMatch
  <2>2. /\ matches'[m].homeTeamId = e.homeTeamId /\ matches'[m].awayTeamId = e.awayTeamId
        /\ matches'[m].winnerId = Empty /\ matches'[m] \in Match
    <3>1. PICK row : row = [homeTeamId |-> e.homeTeamId, awayTeamId |-> e.awayTeamId, status |-> "UNPLAYED",
                             winnerId |-> Empty, boGames |-> e.boGames,
                             matchDateTime |-> e.matchDateTime, arenaId |-> e.arenaId]
      OBVIOUS
    <3>2. matches'[m] = row
      BY <1>1, <1>2, <3>1, StoresTyped DEF CreateMatch, StoresOK
    <3>3. e \in CreateEvent
      BY EventFacts DEF CreateMatch
    <3>4. row \in Match
      BY <3>1, <3>3, CreateFacts DEF Match, Statuses
    <3>5. QED
      BY <3>1, <3>2, <3>4
  <2>3. e.homeTeamId # e.awayTeamId
    BY DEF TwoTeams, CreateMatch
  <2>4. QED
    BY <2>1, <2>2, <2>3 DEF ResultKept
<1>3. CASE m # n
  BY <1>1, <1>3, StoresTyped DEF CreateMatch, StoresOK, ResultKept
<1>4. QED
  BY <1>2, <1>3

LEMMA StatusResult ==
  ASSUME TypeInv, NoReopen, NEW s \in Slots, NEW e \in Events, SetMatchStatus(s, e), NEW m \in Matches
  PROVE  ResultKept(m)
<1>1. PICK match \in Match :
           /\ match = matches[e.matchId] /\ e.matchId \in Matches
           /\ e.op = "set-match-status" /\ e.status \in Statuses
           /\ [match EXCEPT !.status = e.status] \in Match
           /\ matches' = [matches EXCEPT ![e.matchId] = [match EXCEPT !.status = e.status]]
  BY StatusRow
<1>2. PICK n, row : n = e.matchId /\ row = [match EXCEPT !.status = e.status]
  OBVIOUS
<1>3. /\ row \in Match /\ row.homeTeamId = match.homeTeamId /\ row.awayTeamId = match.awayTeamId
      /\ row.winnerId = match.winnerId /\ row.status = e.status
  BY <1>1, <1>2 DEF Match
<1>4. n \in Matches /\ matches[n] = match /\ matches' = [matches EXCEPT ![n] = row]
  BY <1>1, <1>2
<1>5. e.status \in Statuses \ {"UNPLAYED"}
  BY <1>1 DEF NoReopen
<1>6. CASE m = n
  <2>1. matches'[m] = row /\ matches[m] = match
    BY <1>4, <1>6, StoresTyped DEF StoresOK
  <2>2. QED
    BY <1>3, <1>5, <2>1 DEF ResultKept
<1>7. CASE m # n
  BY <1>4, <1>7, StoresTyped DEF ResultKept, StoresOK
<1>8. QED
  BY <1>6, <1>7

LEMMA FieldResult ==
  ASSUME TypeInv, NEW e \in Events, SetSchedule(e) \/ SetArena(e) \/ RespondReschedule(e), NEW m \in Matches
  PROVE  ResultKept(m)
<1>1. RowKept(m)
  BY FieldKept
<1>2. QED
  BY <1>1 DEF RowKept, ResultKept

\* A continuation that is not that of a score, or that only lists the match,
\* keeps what it has to pay.
LEMMA LaunchDuty ==
  ASSUME TypeInv, NEW s \in Slots, NEW e, NEW key, NEW dest, NEW label \in Labels \ ScoreLabels,
         NEW mem, Launch(s, e, key, dest, label, mem)
  PROVE  \A o \in Slots : DutyKept(o)
<1>1. /\ pc[s] = "idle" /\ pc'[s] = label
      /\ \A o \in Slots \ {s} : pc'[o] = pc[o] /\ event'[o] = event[o] /\ locals'[o] = locals[o]
  BY LaunchSlot DEF Idle
<1>2. QED
  BY <1>1, ScoreLabelFacts DEF DutyKept

LEMMA HopDuty ==
  ASSUME TypeInv, NEW s \in Slots, NEW dest, NEW label \in Labels, NEW mem, Hop(s, dest, label, mem),
         pc[s] \in WinLabels <=> label \in WinLabels, pc[s] # "score@loser", label # "score@loser",
         pc[s] \in WinLabels => mem = locals[s]
  PROVE  \A o \in Slots : DutyKept(o)
<1>1. /\ pc'[s] = label /\ event' = event /\ locals'[s] = mem
      /\ \A o \in Slots \ {s} : pc'[o] = pc[o] /\ locals'[o] = locals[o]
  BY HopSlot
<1>2. QED
  BY <1>1, ScoreLabelFacts DEF DutyKept

LEMMA FinishDuty ==
  ASSUME TypeInv, NEW s \in Slots, Finish(s), pc[s] \notin ScoreLabels
  PROVE  \A o \in Slots : DutyKept(o)
<1>1. /\ pc'[s] = "idle"
      /\ \A o \in Slots \ {s} : pc'[o] = pc[o] /\ event'[o] = event[o] /\ locals'[o] = locals[o]
  BY FinishSlot
<1>2. QED
  BY <1>1, ScoreLabelFacts DEF DutyKept

LEMMA ResumeDuty ==
  ASSUME TypeInv, NEW s \in Slots, Resume(s), ~ScoreWinner(s), ~ScoreLoser(s)
  PROVE  \A o \in Slots : DutyKept(o)
<1>1. PICK dest1, dest2, mem : dest1 = event[s].awayTeamId /\ dest2 = event[s].weekKey /\ mem = locals[s]
  OBVIOUS
<1>2. PICK dest3, dest4 : dest3 = event[s].status /\ dest4 = locals[s].winnerId
  OBVIOUS
<1>3. CASE CreateHome(s)
  <2>1. pc[s] = "create@home" /\ Hop(s, dest1, "create@away", NoLocals)
    BY <1>1, <1>3 DEF CreateHome, Ready
  <2>2. QED
    BY <2>1, HopDuty DEF Labels, WinLabels
<1>4. CASE CreateAway(s)
  <2>1. pc[s] = "create@away" /\ Hop(s, dest2, "create@week", NoLocals)
    BY <1>1, <1>4 DEF CreateAway, Ready
  <2>2. QED
    BY <2>1, HopDuty DEF Labels, WinLabels
<1>5. CASE CreateWeek(s)
  <2>1. pc[s] = "create@week" /\ Hop(s, "UNPLAYED", "create@status", NoLocals)
    BY <1>5 DEF CreateWeek, Ready
  <2>2. QED
    BY <2>1, HopDuty DEF Labels, WinLabels
<1>6. CASE StatusUnlist(s)
  <2>1. pc[s] = "status@old" /\ Hop(s, dest3, "status@new", NoLocals)
    BY <1>2, <1>6 DEF StatusUnlist, Ready
  <2>2. QED
    BY <2>1, HopDuty DEF Labels, WinLabels
<1>7. CASE ScoreUnlist(s)
  <2>1. pc[s] = "score@unplayed" /\ Hop(s, "PLAYED", "score@played", mem)
    BY <1>1, <1>7 DEF ScoreUnlist, Ready
  <2>2. QED
    BY <1>1, <2>1, HopDuty DEF Labels, WinLabels
<1>8. CASE ScoreList(s)
  <2>1. pc[s] = "score@played" /\ Hop(s, dest4, "score@winner", mem)
    BY <1>1, <1>2, <1>8 DEF ScoreList, Ready
  <2>2. QED
    BY <1>1, <2>1, HopDuty DEF Labels, WinLabels
<1>9. CASE CreateStatus(s) \/ StatusList(s)
  <2>1. pc[s] \in {"create@status", "status@new"} /\ Finish(s)
    BY <1>9 DEF CreateStatus, StatusList, Ready
  <2>2. QED
    BY <2>1, FinishDuty DEF ScoreLabels
<1>10. QED
  BY <1>3, <1>4, <1>5, <1>6, <1>7, <1>8, <1>9 DEF Resume

LEMMA StandingsStep ==
  ASSUME NoReopen, TwoTeams
  PROVE  TypeInv /\ StandingsInv /\ [Next]_vars => StandingsInv'
<1> SUFFICES ASSUME TypeInv, StandingsInv, [Next]_vars PROVE StandingsInv'
  OBVIOUS
<1>1. TypeInv'
  BY TypeStep
<1>2. matches' = matches => \A m \in Matches : ResultKept(m)
  BY DEF ResultKept
<1>3. UNCHANGED flightVars => \A o \in Slots : DutyKept(o)
  BY DEF flightVars, DutyKept
<1>4. ASSUME NEW s \in Slots, NEW e \in Events, CreateMatch(s, e) PROVE StandingsInv'
  <2>1. PICK key, dest : Launch(s, e, key, dest, "create@home", NoLocals)
    BY <1>4 DEF CreateMatch
  <2>2. \A o \in Slots : DutyKept(o)
    BY <2>1, LaunchDuty DEF Labels, ScoreLabels
  <2>3. QED
    BY <1>1, <1>4, <2>2, CreateResult, StandingsKept DEF CreateMatch
<1>5. ASSUME NEW s \in Slots, NEW e \in Events, SetMatchStatus(s, e) PROVE StandingsInv'
  <2>1. PICK key, dest, mem : Launch(s, e, key, dest, "status@old", mem)
    BY <1>5 DEF SetMatchStatus
  <2>2. \A o \in Slots : DutyKept(o)
    BY <2>1, LaunchDuty DEF Labels, ScoreLabels
  <2>3. QED
    BY <1>5, <2>2, StatusResult, StandingsKept DEF SetMatchStatus
<1>6. ASSUME NEW s \in Slots, Resume(s) PROVE StandingsInv'
  <2>1. CASE ScoreWinner(s) \/ ScoreLoser(s)
    BY <2>1, WinPaid, LossPaid
  <2>2. CASE ~ScoreWinner(s) /\ ~ScoreLoser(s)
    <3>1. \A o \in Slots : DutyKept(o)
      BY <1>6, <2>2, ResumeDuty
    <3>2. matches' = matches /\ teamStats' = teamStats
      BY <1>6, <2>2 DEF Resume, CreateHome, CreateAway, CreateWeek, CreateStatus, ListUnderTeam,
         SetStatusIndex, ScoreUnlist, ScoreList, StatusUnlist, StatusList
    <3>3. QED
      BY <1>2, <3>1, <3>2, StandingsKept
  <2>3. QED
    BY <2>1, <2>2
<1>7. ASSUME NEW e \in Events, SubmitLocal(e) PROVE StandingsInv'
  <2>1. UNCHANGED <<flightVars, teamStats>>
    BY <1>7 DEF SubmitLocal, BanMap, SetSchedule, SetArena, PostComm, RequestReschedule, RespondReschedule
  <2>2. \A m \in Matches : ResultKept(m)
    BY <1>2, <1>7, FieldResult DEF SubmitLocal, BanMap, PostComm, RequestReschedule
  <2>3. QED
    BY <1>3, <2>1, <2>2, StandingsKept
<1>8. CASE UNCHANGED vars
  BY <1>2, <1>3, <1>8, StandingsKept DEF vars, storeVars
<1>9. QED
  BY <1>4, <1>5, <1>6, <1>7, <1>8, ScoreAccepted DEF Next, Submit

THEOREM StandingsInvariant ==
  ASSUME NoReopen, TwoTeams
  PROVE  Spec => []StandingsInv
<1>1. Init => StandingsInv
  <2> SUFFICES ASSUME Init PROVE StandingsInv
    OBVIOUS
  <2>1. \A m \in Matches : matches[m] = None
    BY DEF Init
  <2>2. \A s \in Slots : pc[s] \notin ScoreLabels
    BY ScoreLabelFacts DEF Init, FlightInit
  <2>3. ASSUME NEW t \in TeamIds PROVE Tally(t)
    <3>1. PaidWins(t) = {} /\ PaidLosses(t) = {}
      BY <2>1 DEF PaidWins, PaidLosses, WonBy, LostBy
    <3>2. teamStats[t] = [wins |-> 0, losses |-> 0, points |-> 0]
      BY DEF Init
    <3>3. QED
      BY <3>1, <3>2, FS_EmptySet DEF Tally
  <2>4. QED
    BY <2>1, <2>2, <2>3 DEF StandingsInv, OneScorer
<1>2. QED
  BY <1>1, TypeInvariant, StandingsStep, PTL DEF Spec

\* Once every submitted event is answered, the standings are the results of the
\* matches, for any number of events in flight: unless a match is set back to
\* unplayed, or was created with one team twice.
THEOREM StandingsMirrorMatches ==
  ASSUME NoReopen, TwoTeams
  PROVE  Spec => []StandingsMirror
<1>1. TypeInv /\ StandingsInv => StandingsMirror
  <2> SUFFICES ASSUME TypeInv, StandingsInv, Quiescent, NEW t \in TeamIds
               PROVE  /\ teamStats[t].wins = Cardinality({m \in Matches : WonBy(m, t)})
                      /\ teamStats[t].points = teamStats[t].wins
                      /\ teamStats[t].losses = Cardinality({m \in Matches : LostBy(m, t)})
    BY DEF StandingsMirror, WonBy, LostBy
  <2>1. \A m : ~Scoring(m, WinLabels) /\ ~Scoring(m, ScoreLabels)
    BY ScoreLabelFacts DEF Scoring, Quiescent, Idle
  <2>2. PaidWins(t) = {m \in Matches : WonBy(m, t)} /\ PaidLosses(t) = {m \in Matches : LostBy(m, t)}
    BY <2>1 DEF PaidWins, PaidLosses
  <2>3. QED
    BY <2>2 DEF StandingsInv, Tally
<1>2. Spec => []StandingsInv
  BY StandingsInvariant
<1>3. QED
  BY <1>1, <1>2, TypeInvariant, PTL

---------------------------------------------------------------------------
(* Status index *)

\* A continuation at one of these labels still has to list its match under a
\* status: every segment that takes an entry out leads to one.
ListLabels == CreateLabels \cup StatusLabels \cup {"score@unplayed", "score@played"}
Coming(m) == \E s \in Slots : pc[s] \in ListLabels /\ event[s].matchId = m

Listed(m) == matches[m] # None => Shown(m) # {} \/ Coming(m)
ListedInv == \A m \in Matches : Listed(m)

LEMMA ListLabelFacts ==
  /\ ListLabels \subseteq Labels /\ "idle" \notin ListLabels
  /\ \A l \in ScoreLabels : l \in ListLabels <=> l \in {"score@unplayed", "score@played"}
  BY DEF ListLabels, Labels, CreateLabels, StatusLabels, ScoreLabels

\* What an index write does to the statuses that show a match.
LEMMA ShownWrite ==
  ASSUME TypeInv, NEW s \in Slots, NEW st \in Statuses, NEW listed \in BOOLEAN, NEW m, m = event[s].matchId,
         SetStatusIndex(s, st, listed)
  PROVE  /\ matches' = matches
         /\ Shown(m)' = IF listed THEN Shown(m) \cup {st} ELSE Shown(m) \ {st}
         /\ \A n \in Matches \ {m} : Shown(n)' = Shown(n)
<1>1. /\ matches' = matches
      /\ matchesByStatus' = [matchesByStatus EXCEPT ![st] = IF listed THEN @ \cup {m} ELSE @ \ {m}]
  BY DEF SetStatusIndex
<1>2. \A x \in Statuses : matchesByStatus'[x]
        = IF x = st THEN (IF listed THEN matchesByStatus[x] \cup {m} ELSE matchesByStatus[x] \ {m})
          ELSE matchesByStatus[x]
  BY <1>1, StoresTyped DEF StoresOK
<1>3. QED
  BY <1>1, <1>2 DEF Shown

\* A step of slot s keeps a match listed if s is about to list it, if it is in
\* the index, or if it is not the match that s was to list.
LEMMA ListedKept ==
  ASSUME NEW m \in Matches, Listed(m), matches'[m] # None => matches[m] # None, NEW s \in Slots,
         \A o \in Slots \ {s} : pc'[o] = pc[o] /\ event'[o] = event[o],
         \/ pc'[s] \in ListLabels /\ event'[s].matchId = m
         \/ Shown(m)' # {}
         \/ Shown(m)' = Shown(m) /\ (pc[s] \in ListLabels => event[s].matchId # m)
  PROVE  Listed(m)'
<1>1. CASE pc'[s] \in ListLabels /\ event'[s].matchId = m
  BY <1>1 DEF Listed, Coming
<1>2. CASE Shown(m)' # {}
  BY <1>2 DEF Listed
<1>3. CASE Shown(m)' = Shown(m) /\ (pc[s] \in ListLabels => event[s].matchId # m)
  <2>1. Coming(m) => Coming(m)'
    BY <1>3 DEF Coming
  <2>2. QED
    BY <1>3, <2>1 DEF Listed
<1>4. QED
  BY <1>1, <1>2, <1>3

\* A new event will list its match; other matches are as they were.
LEMMA ListedSubmit ==
  ASSUME TypeInv, [Next]_vars, NEW s \in Slots, NEW e \in Events, Submit(s, e), NEW m \in Matches, Listed(m)
  PROVE  Listed(m)'
<1>1. PICK label \in {"create@home", "score@unplayed", "status@old"} :
        \E key, dest, mem : Launch(s, e, key, dest, label, mem)
  BY DEF Submit, CreateMatch, SubmitScore, SetMatchStatus
<1>2. /\ Idle(s) /\ pc'[s] = label /\ event'[s] = e
      /\ \A o \in Slots \ {s} : pc'[o] = pc[o] /\ event'[o] = event[o]
  BY <1>1, LaunchSlot
<1>3. label \in ListLabels
  BY DEF ListLabels, CreateLabels, StatusLabels
<1>4. CASE e.matchId = m
  BY <1>2, <1>3, <1>4 DEF Listed, Coming
<1>5. CASE e.matchId # m
  <2>1. Shown(m)' = Shown(m)
    BY DEF Submit, CreateMatch, SubmitScore, SetMatchStatus, indexVars, Shown
  <2>2. matches'[m] # None => matches[m] # None
    <3>1. Created(m) => FALSE
      <4>1. ASSUME NEW r \in Slots, NEW f \in Events, CreateMatch(r, f), f.matchId = m PROVE FALSE
        <5>1. Idle(r) /\ pc'[r] = "create@home" /\ event'[r] = f
          BY <4>1, LaunchSlot DEF CreateMatch
        <5>2. r = s
          BY <1>2, <5>1 DEF Idle
        <5>3. QED
          BY <1>2, <1>5, <4>1, <5>1, <5>2
      <4>2. QED
        BY <4>1 DEF Created
    <3>2. QED
      BY <3>1, RowsEvolve DEF Evolves
  <2>3. pc[s] \notin ListLabels
    BY <1>2, ListLabelFacts DEF Idle
  <2>4. QED
    BY <1>2, <2>1, <2>2, <2>3, ListedKept
<1>6. QED
  BY <1>4, <1>5

\* A segment of slot s, whose event is about match n.
LEMMA ListedResume ==
  ASSUME TypeInv, NEW s \in Slots, Resume(s), NEW m \in Matches, Listed(m)
  PROVE  Listed(m)'
<1>1. matches' = matches
  BY DEF Resume, CreateHome, CreateAway, CreateWeek, CreateStatus, ListUnderTeam,
     SetStatusIndex, ScoreUnlist, ScoreList, ScoreWinner, ScoreLoser, StatusUnlist, StatusList
<1>2. \A o \in Slots \ {s} : pc'[o] = pc[o] /\ event'[o] = event[o]
  <2>1. Finish(s) \/ \E dest, mem, label : Hop(s, dest, label, mem)
    BY ResumeMoves
  <2>2. QED
    BY <2>1, FinishSlot, HopSlot
<1>3. PICK n : n = event[s].matchId
  OBVIOUS
\* Segments that write no index and lead to a segment that does.
<1>4. CASE CreateHome(s) \/ CreateAway(s) \/ CreateWeek(s)
  <2>1. PICK label \in CreateLabels : \E dest : Hop(s, dest, label, NoLocals)
    BY <1>4 DEF CreateHome, CreateAway, CreateWeek, CreateLabels
  <2>2. pc'[s] \in ListLabels /\ event'[s].matchId = n
    BY <1>3, <2>1, HopSlot DEF ListLabels
  <2>3. Shown(m)' = Shown(m)
    BY <1>4 DEF CreateHome, CreateAway, CreateWeek, ListUnderTeam, Shown
  <2>4. QED
    BY <1>1, <1>2, <1>3, <2>2, <2>3, ListedKept
\* Segments that take an entry out and lead to one that puts one in.
<1>5. ASSUME NEW st \in Statuses, SetStatusIndex(s, st, FALSE),
             NEW label \in ListLabels, NEW dest, NEW mem, Hop(s, dest, label, mem)
      PROVE  Listed(m)'
  <2>1. pc'[s] \in ListLabels /\ event'[s].matchId = n
    BY <1>3, <1>5, HopSlot
  <2>2. m # n => Shown(m)' = Shown(m)
    BY <1>3, <1>5, ShownWrite
  <2>3. QED
    BY <1>1, <1>2, <1>3, <2>1, <2>2, ListedKept
<1>6. CASE ScoreUnlist(s)
  <2>1. PICK mem : Hop(s, "PLAYED", "score@played", mem)
    BY <1>6 DEF ScoreUnlist
  <2>2. SetStatusIndex(s, "UNPLAYED", FALSE) /\ "UNPLAYED" \in Statuses /\ "score@played" \in ListLabels
    BY <1>6 DEF ScoreUnlist, Statuses, ListLabels
  <2>3. QED
    BY <1>5, <2>1, <2>2
<1>7. CASE StatusUnlist(s)
  <2>1. PICK old, dest : old = locals[s].oldStatus /\ Hop(s, dest, "status@new", NoLocals)
    BY <1>7 DEF StatusUnlist
  <2>2. old \in Statuses /\ SetStatusIndex(s, old, FALSE) /\ "status@new" \in ListLabels
    BY <1>7, <2>1, StatusSlot DEF StatusUnlist, StatusLabels, ListLabels
  <2>3. QED
    BY <1>5, <2>1, <2>2
\* Segments that put an entry in.
<1>8. ASSUME NEW st \in Statuses, SetStatusIndex(s, st, TRUE)
      PROVE  Listed(m)'
  <2>1. CASE m = n
    <3>1. Shown(m)' = Shown(m) \cup {st}
      BY <1>3, <1>8, <2>1, ShownWrite
    <3>2. QED
      BY <1>1, <1>2, <3>1, ListedKept
  <2>2. CASE m # n
    <3>1. Shown(m)' = Shown(m)
      BY <1>3, <1>8, <2>2, ShownWrite
    <3>2. QED
      BY <1>1, <1>2, <1>3, <2>2, <3>1, ListedKept
  <2>3. QED
    BY <2>1, <2>2
<1>9. CASE CreateStatus(s) \/ ScoreList(s)
  BY <1>8, <1>9 DEF CreateStatus, ScoreList, Statuses
<1>10. CASE StatusList(s)
  <2>1. PICK st : st = event[s].status
    OBVIOUS
  <2>2. st \in Statuses /\ SetStatusIndex(s, st, TRUE)
    BY <1>10, <2>1, StatusSlot DEF StatusList, StatusLabels
  <2>3. QED
    BY <1>8, <2>2
\* Segments after the index.
<1>11. CASE ScoreWinner(s) \/ ScoreLoser(s)
  <2>1. Shown(m)' = Shown(m)
    BY <1>11 DEF ScoreWinner, ScoreLoser, indexVars, Shown
  <2>2. pc[s] \notin ListLabels
    BY <1>11, ListLabelFacts DEF ScoreWinner, ScoreLoser, Ready, ScoreLabels
  <2>3. QED
    BY <1>1, <1>2, <2>1, <2>2, ListedKept
<1>12. QED
  BY <1>4, <1>6, <1>7, <1>9, <1>10, <1>11 DEF Resume

LEMMA ListedStep == TypeInv /\ ListedInv /\ [Next]_vars => ListedInv'
<1> SUFFICES ASSUME TypeInv, ListedInv, [Next]_vars, NEW m \in Matches PROVE Listed(m)'
  BY DEF ListedInv
<1>1. Listed(m)
  BY DEF ListedInv
<1>2. ASSUME UNCHANGED <<flightVars, matchesByStatus>>, Evolves(m) PROVE Listed(m)'
  <2>1. Shown(m)' = Shown(m) /\ (Coming(m) => Coming(m)')
    BY <1>2 DEF flightVars, Shown, Coming
  <2>2. QED
    BY <1>1, <1>2, <2>1 DEF Listed, Evolves
<1>3. ASSUME NEW e \in Events, SubmitLocal(e) PROVE Listed(m)'
  <2>1. UNCHANGED <<flightVars, matchesByStatus>>
    BY <1>3 DEF SubmitLocal, BanMap, SetSchedule, SetArena, PostComm, RequestReschedule,
       RespondReschedule, indexVars
  <2>2. RowKept(m)
    BY <1>3, FieldKept DEF SubmitLocal, BanMap, PostComm, RequestReschedule, RowKept
  <2>3. Evolves(m)
    BY <2>2, NoneFacts DEF RowKept, Evolves
  <2>4. QED
    BY <1>2, <2>1, <2>3
<1>4. CASE UNCHANGED vars
  BY <1>2, <1>4 DEF vars, storeVars, indexVars, Evolves
<1>5. QED
  BY <1>1, <1>3, <1>4, ListedSubmit, ListedResume DEF Next

\* Events about one match may cross on the way to the index and leave it under a
\* status that it does not have, but no crossing takes a match out of the index
\* for good: once all events are answered every match is under some status.
\* For every placement of keys and every set of events, without assumptions on
\* how clients submit them.
THEOREM MatchesStayListed == Spec => []NeverUnlisted
<1>1. Init => ListedInv
  BY DEF Init, ListedInv, Listed
<1>2. ListedInv => NeverUnlisted
  BY ListLabelFacts DEF ListedInv, Listed, Coming, NeverUnlisted, Quiescent, Idle
<1>3. QED
  BY <1>1, <1>2, TypeInvariant, ListedStep, PTL DEF Spec
=============================================================================
