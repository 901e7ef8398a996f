----------------------------- MODULE TeamsProofs -----------------------------
(***************************************************************************)
(* Proofs about TeamsModule for every number of teams, players, seasons,   *)
(* slots and tasks, every placement of keys, and every set of events:      *)
(* type correctness; seats (rosters and season slots never drift apart, a  *)
(* player is on one roster per season); that TeamsModule implements        *)
(* SeasonSeats; that the status index follows the rows; by how much racing *)
(* joins can pass the roster cap; and the pending indexes, for clients that *)
(* let an approval end before they touch its request again.                *)
(*                                                                         *)
(* Every step of the module is one of six kinds, as far as seats are       *)
(* concerned.  StepKinds sorts the actions; the proofs about seats argue   *)
(* about the kinds only.  The proofs about the indexes argue about queues: *)
(* what goes from one task to another arrives in order.                    *)
(***************************************************************************)
EXTENDS TeamsModule, FiniteSetTheorems

CreateLabels == {"create@player", "create@team", "create@season"}
SnapshotLabels == {"join@player", "request@player", "approve@player"}
MemberLabels == Labels \ (CreateLabels \cup {"status@season"})

\* What a continuation carries: an event of the right kind and the values that
\* the segments before the hop put in locals.
Carries(s) ==
  /\ pc[s] \in CreateLabels => event[s] \in CreateEvent
  /\ pc[s] \in MemberLabels => event[s] \in MemberEvent
  /\ pc[s] = "status@season" =>
       /\ event[s] \in StatusEvent
       /\ event[s].status \in Statuses
       /\ locals[s].seasonId \in Seasons
  /\ pc[s] \in SnapshotLabels => locals[s].team \in Team \cup {None}
  /\ pc[s] = "leave@player" => locals[s].seasonId \in Seasons

TypeInv == TypeOK /\ \A s \in Slots : Carries(s)

\* The op of an event decides its kind.
LEMMA EventKinds ==
  ASSUME NEW e \in Events
  PROVE  /\ e.op = "create-team" => e \in CreateEvent
         /\ e.op \in MemberOps => e \in MemberEvent
         /\ e.op = "set-status" => e \in StatusEvent
         /\ e.op = "set-member-permission" => e \in PermissionEvent
         /\ e.op = "set-member-payment" => e \in PaymentEvent
  BY EventsAssumption DEF Event, CreateEvent, MemberEvent, StatusEvent, PermissionEvent,
       PaymentEvent, MemberOps

\* Labels are told apart and none of them is "idle".
LEMMA LabelFacts ==
  /\ "idle" \notin Labels
  /\ Labels = CreateLabels \cup MemberLabels \cup {"status@season"}
  /\ SnapshotLabels \subseteq MemberLabels
  /\ "leave@player" \in MemberLabels
  BY DEF Labels, CreateLabels, MemberLabels, SnapshotLabels

\* The keys that the ops hash on are keys of the partitioner.
LEMMA KeyFacts ==
  Teams \subseteq Keys /\ Players \subseteq Keys /\ Seasons \subseteq Keys /\ All \in Keys
  BY KeysAssumption

\* A continuation that starts leaves the others as they were.
LEMMA CarriesLaunch ==
  ASSUME TypeInv, NEW s \in Slots, NEW e \in Events, NEW key, NEW dest, NEW label, NEW mem,
         Launch(s, e, key, dest, label, mem), Carries(s)'
  PROVE  \A o \in Slots : Carries(o)'
  BY DEF TypeInv, TypeOK, FlightTypeOK, Launch, Carries

\* A continuation that hops leaves the others as they were.
LEMMA CarriesHop ==
  ASSUME TypeInv, NEW s \in Slots, NEW dest, NEW label, NEW mem,
         Hop(s, dest, label, mem), Carries(s)'
  PROVE  \A o \in Slots : Carries(o)'
  BY DEF TypeInv, TypeOK, FlightTypeOK, Hop, Carries

\* A continuation that ends leaves the others as they were.
LEMMA CarriesFinish ==
  ASSUME TypeInv, NEW s \in Slots, Finish(s)
  PROVE  \A o \in Slots : Carries(o)'
<1>1. pc'[s] = "idle"
  BY DEF TypeInv, TypeOK, FlightTypeOK, Finish
<1>2. Carries(s)'
  BY <1>1, LabelFacts DEF Carries, CreateLabels, MemberLabels, SnapshotLabels
<1>3. ASSUME NEW o \in Slots, o # s PROVE Carries(o)'
  BY <1>3 DEF TypeInv, TypeOK, FlightTypeOK, Finish, Carries
<1>4. QED
  BY <1>2, <1>3

---------------------------------------------------------------------------
(* Type correctness: how a step keeps TypeInv once the stores stay well    *)
(* typed, then one lemma per group of actions.                             *)

StoresOK ==
  /\ teams \in [Teams -> Team \cup {None}]
  /\ roster \in [Teams -> [Players -> Member \cup {None}]]
  /\ playerSeason \in [Players -> [Seasons -> Teams \cup {None}]]
  /\ pending \in [Teams -> [Players -> {Invited, Awaiting, None}]]
  /\ pendingByPlayer \in [Players -> [Teams -> {Invited, Awaiting, None}]]
  /\ pendingAwaiting \subseteq Teams \X Players
  /\ teamIdsBySeason \in [Seasons -> [Teams -> Statuses \cup {None}]]

\* An event starts with an event of its label's kind and typed locals.
LEMMA StartType ==
  ASSUME TypeInv, StoresOK', NEW s \in Slots, NEW e \in Events, NEW key \in Keys,
         NEW dest \in Keys, NEW label \in Labels, NEW mem,
         Launch(s, e, key, dest, label, mem),
         label \in CreateLabels => e \in CreateEvent,
         label \in MemberLabels => e \in MemberEvent,
         label = "status@season" =>
           e \in StatusEvent /\ e.status \in Statuses /\ mem.seasonId \in Seasons,
         label \in SnapshotLabels => mem.team \in Team \cup {None},
         label = "leave@player" => mem.seasonId \in Seasons
  PROVE  TypeInv'
<1>1. /\ FlightTypeOK(Labels, Events)'
      /\ pc'[s] = label /\ event'[s] = e /\ locals'[s] = mem
  <2>1. FlightTypeOK(Labels, Events) /\ "idle" \notin Labels
    BY LabelFacts DEF TypeInv, TypeOK
  <2>2. FlightTypeOK(Labels, Events)'
    BY <2>1, LaunchType, SMT
  <2>3. pc'[s] = label /\ event'[s] = e /\ locals'[s] = mem
    BY <2>1 DEF Launch, FlightTypeOK
  <2>4. QED
    BY <2>2, <2>3
<1>2. Carries(s)'
  BY <1>1 DEF Carries
<1>3. \A o \in Slots : Carries(o)'
  BY <1>2, CarriesLaunch
<1>4. QED
  BY <1>1, <1>3 DEF TypeInv, TypeOK, StoresOK

\* A hop to a label of the same kind that needs no locals.
LEMMA HopStep ==
  ASSUME TypeInv, StoresOK', NEW s \in Slots, ~Idle(s), NEW dest \in Keys,
         NEW label \in Labels, Hop(s, dest, label, NoLocals),
         label \notin SnapshotLabels \cup {"leave@player", "status@season"},
         label \in CreateLabels => event[s] \in CreateEvent,
         label \in MemberLabels => event[s] \in MemberEvent
  PROVE  TypeInv'
<1>1. /\ FlightTypeOK(Labels, Events)'
      /\ pc'[s] = label /\ event' = event
  BY HopType, LabelFacts DEF TypeInv, TypeOK
<1>2. Carries(s)'
  BY <1>1 DEF Carries
<1>3. \A o \in Slots : Carries(o)'
  BY <1>2, CarriesHop
<1>4. QED
  BY <1>1, <1>3 DEF TypeInv, TypeOK, StoresOK

\* The end of an event.
LEMMA FinishStep ==
  ASSUME TypeInv, StoresOK', NEW s \in Slots, Finish(s)
  PROVE  TypeInv'
<1>1. FlightTypeOK(Labels, Events)'
  BY FinishType DEF TypeInv, TypeOK
<1>2. QED
  BY <1>1, CarriesFinish DEF TypeInv, TypeOK, StoresOK

\* A label that a continuation waits at says what its event is.
LEMMA WaitingEvent ==
  ASSUME TypeInv, NEW s \in Slots, NEW label \in Labels, Ready(s, label)
  PROVE  /\ ~Idle(s)
         /\ label \in CreateLabels =>
              /\ event[s] \in CreateEvent
              /\ event[s].teamId \in Teams /\ event[s].steamId \in Players
              /\ event[s].seasonId \in Seasons
         /\ label \in MemberLabels =>
              /\ event[s] \in MemberEvent
              /\ event[s].teamId \in Teams /\ event[s].steamId \in Players
         /\ label \in SnapshotLabels => locals[s].team \in Team \cup {None}
         /\ label = "leave@player" => locals[s].seasonId \in Seasons
         /\ label = "status@season" =>
              /\ event[s].teamId \in Teams /\ event[s].status \in Statuses
              /\ locals[s].seasonId \in Seasons
  BY LabelFacts DEF TypeInv, Carries, Ready, Idle, CreateEvent, MemberEvent, StatusEvent

\* The rows that the ops write.
LEMMA RowTypes ==
  /\ \A level \in Levels : NewMember(level) \in Member
  /\ "STATUS" \in Levels /\ "MEMBER" \in Levels /\ "UNREADY" \in Statuses
  /\ \A e \in CreateEvent :
       [seasonId |-> e.seasonId, formatId |-> e.formatId,
        status |-> "UNREADY", createdBy |-> e.steamId] \in Team
  BY DEF NewMember, Member, Levels, Payments, Statuses, Team, CreateEvent

LEMMA StoresTyped == TypeInv => StoresOK
  BY DEF TypeInv, TypeOK, StoresOK

\* What a single write to a store has to write.
LEMMA StoresUnchanged ==
  ASSUME StoresOK, UNCHANGED storeVars
  PROVE  StoresOK'
  BY DEF StoresOK, storeVars, pendingVars

LEMMA PlayerSeasonWrite ==
  ASSUME StoresOK, NEW p \in Players, NEW n \in Seasons, NEW v \in Teams \cup {None},
         playerSeason' = [playerSeason EXCEPT ![p][n] = v],
         UNCHANGED <<teams, roster, pendingVars, teamIdsBySeason>>
  PROVE  StoresOK'
  BY DEF StoresOK, pendingVars

LEMMA RosterWrite ==
  ASSUME StoresOK, NEW t \in Teams, NEW p \in Players, NEW v \in Member \cup {None},
         roster' = [roster EXCEPT ![t][p] = v],
         UNCHANGED <<teams, playerSeason, pendingVars, teamIdsBySeason>>
  PROVE  StoresOK'
  BY DEF StoresOK, pendingVars

LEMMA PendingWrite ==
  ASSUME StoresOK, NEW t \in Teams, NEW p \in Players, NEW v \in {Invited, Awaiting, None},
         pending' = [pending EXCEPT ![t][p] = v],
         UNCHANGED <<teams, roster, playerSeason, pendingByPlayer, pendingAwaiting,
                     teamIdsBySeason>>
  PROVE  StoresOK'
  BY DEF StoresOK

LEMMA MirrorWrite ==
  ASSUME StoresOK, NEW p \in Players, NEW t \in Teams, NEW v \in {Invited, Awaiting, None},
         pendingByPlayer' = [pendingByPlayer EXCEPT ![p][t] = v],
         UNCHANGED <<teams, roster, playerSeason, pending, pendingAwaiting, teamIdsBySeason>>
  PROVE  StoresOK'
  BY DEF StoresOK

LEMMA IndexWrite ==
  ASSUME StoresOK, NEW n \in Seasons, NEW t \in Teams, NEW v \in Statuses,
         teamIdsBySeason' = [teamIdsBySeason EXCEPT ![n][t] = v],
         UNCHANGED <<teams, roster, playerSeason, pendingVars>>
  PROVE  StoresOK'
  BY DEF StoresOK, pendingVars

\* create-team keeps TypeInv.
LEMMA CreateType ==
  ASSUME TypeInv, NEW s \in Slots,
         (\E e \in Events : CreateTeam(s, e)) \/ CreateClaim(s) \/ CreateRow(s) \/ CreateIndex(s)
  PROVE  TypeInv'
<1> USE StoresTyped, KeyFacts
<1>1. ASSUME NEW e \in Events, CreateTeam(s, e) PROVE TypeInv'
  <2>1. e \in CreateEvent /\ e.teamId \in Keys /\ e.steamId \in Keys
    BY <1>1, EventKinds DEF CreateTeam, CreateEvent
  <2>2. StoresOK'
    BY <1>1 DEF CreateTeam, storeVars, pendingVars, StoresOK
  <2>3. "create@player" \in Labels /\ "create@player" \in CreateLabels
        /\ "create@player" \notin MemberLabels \cup SnapshotLabels
    BY DEF Labels, CreateLabels, MemberLabels, SnapshotLabels
  <2>4. QED
    BY <1>1, <2>1, <2>2, <2>3, StartType DEF CreateTeam
<1>2. ASSUME CreateClaim(s) PROVE TypeInv'
  <2>1. "create@player" \in Labels \cap CreateLabels /\ "create@team" \in Labels \cap CreateLabels
        /\ "create@team" \notin MemberLabels \cup SnapshotLabels
    BY DEF Labels, CreateLabels, MemberLabels, SnapshotLabels
  <2>2. /\ ~Idle(s) /\ event[s] \in CreateEvent /\ event[s].teamId \in Teams
        /\ event[s].steamId \in Players /\ event[s].seasonId \in Seasons
    BY <1>2, <2>1, WaitingEvent DEF CreateClaim
  <2>3. CASE Finish(s) /\ UNCHANGED playerSeason
    <3>1. StoresOK'
      BY <1>2, <2>3, StoresUnchanged DEF CreateClaim, storeVars
    <3>2. QED
      BY <2>3, <3>1, FinishStep
  <2>4. CASE /\ playerSeason' =
                  [playerSeason EXCEPT ![event[s].steamId][event[s].seasonId] = event[s].teamId]
             /\ Hop(s, event[s].teamId, "create@team", NoLocals)
    <3>1. StoresOK'
      BY <1>2, <2>2, <2>4, PlayerSeasonWrite DEF CreateClaim
    <3>2. QED
      BY <2>1, <2>2, <2>4, <3>1, HopStep
  <2>5. QED
    BY <1>2, <2>3, <2>4 DEF CreateClaim
<1>3. ASSUME CreateRow(s) PROVE TypeInv'
  <2>1. "create@team" \in Labels \cap CreateLabels /\ "create@season" \in Labels \cap CreateLabels
        /\ "create@season" \notin MemberLabels \cup SnapshotLabels
    BY DEF Labels, CreateLabels, MemberLabels, SnapshotLabels
  <2>2. /\ ~Idle(s) /\ event[s] \in CreateEvent /\ event[s].teamId \in Teams
        /\ event[s].steamId \in Players /\ event[s].seasonId \in Seasons
    BY <1>3, <2>1, WaitingEvent DEF CreateRow
  <2>3. StoresOK'
    BY <1>3, <2>2, RowTypes DEF CreateRow, pendingVars, StoresOK
  <2>4. QED
    BY <1>3, <2>1, <2>2, <2>3, HopStep DEF CreateRow
<1>4. ASSUME CreateIndex(s) PROVE TypeInv'
  <2>1. "create@season" \in Labels \cap CreateLabels
    BY DEF Labels, CreateLabels
  <2>2. event[s].teamId \in Teams /\ event[s].seasonId \in Seasons
    BY <1>4, <2>1, WaitingEvent DEF CreateIndex
  <2>3. StoresOK'
    BY <1>4, <2>2, RowTypes DEF CreateIndex, pendingVars, StoresOK
  <2>4. QED
    BY <1>4, <2>3, FinishStep DEF CreateIndex
<1>5. QED
  BY <1>1, <1>2, <1>3, <1>4

\* The labels that a member event hops to without locals.
SeatLabels == {"join@team", "request@team", "request@player-index", "request@all",
               "approve@team", "approve@all", "decline@player", "decline@all",
               "invite@player", "accept@player", "accept@all"}

LEMMA MemberLabelFacts ==
  /\ SeatLabels \cup SnapshotLabels \cup {"leave@player"} \subseteq MemberLabels \cap Labels
  /\ SeatLabels \cap SnapshotLabels = {}
  /\ "leave@player" \notin SeatLabels \cup SnapshotLabels
  /\ MemberLabels \cap (CreateLabels \cup {"status@season"}) = {}
  BY DEF SeatLabels, SnapshotLabels, MemberLabels, Labels, CreateLabels

\* A member event that waits for a segment.
LEMMA MemberWaiting ==
  ASSUME TypeInv, NEW s \in Slots, NEW label \in MemberLabels, Ready(s, label)
  PROVE  /\ ~Idle(s) /\ event[s] \in MemberEvent
         /\ event[s].teamId \in Teams /\ event[s].steamId \in Players
  BY WaitingEvent, LabelFacts

\* A hop of a member event.
LEMMA MemberHop ==
  ASSUME TypeInv, StoresOK', NEW s \in Slots, ~Idle(s), event[s] \in MemberEvent,
         NEW dest \in Keys, NEW label \in SeatLabels, Hop(s, dest, label, NoLocals)
  PROVE  TypeInv'
  BY HopStep, MemberLabelFacts

\* A member event that starts without locals.
LEMMA MemberStart ==
  ASSUME TypeInv, StoresOK', NEW s \in Slots, NEW e \in Events, e \in MemberEvent,
         NEW label \in SeatLabels, Launch(s, e, e.teamId, e.steamId, label, NoLocals)
  PROVE  TypeInv'
<1>1. e.teamId \in Keys /\ e.steamId \in Keys
  BY KeyFacts DEF MemberEvent
<1>2. QED
  BY <1>1, StartType, MemberLabelFacts

\* Reading the team for a later decision keeps TypeInv.
LEMMA SnapshotType ==
  ASSUME TypeInv, NEW s \in Slots, NEW e \in Events, e \in MemberEvent,
         NEW label \in SnapshotLabels, NEW row, ReadTeam(s, e, label, row)
  PROVE  TypeInv'
<1>1. e.teamId \in Keys /\ e.steamId \in Keys /\ e.teamId \in Teams
  BY KeyFacts DEF MemberEvent
<1>2. Snapshot(e.teamId, row).team \in Team \cup {None}
  BY <1>1, StoresTyped DEF Snapshot, StoresOK
<1>3. StoresOK'
  BY StoresTyped, StoresUnchanged DEF ReadTeam
<1>4. QED
  BY <1>1, <1>2, <1>3, StartType, MemberLabelFacts DEF ReadTeam

\* join-team, request-join and approve-pending keep TypeInv up to the claim.
LEMMA JudgeType ==
  ASSUME TypeInv, NEW s \in Slots,
         \/ \E e \in Events : JoinTeam(s, e) \/ RequestJoin(s, e) \/ ApprovePending(s, e)
         \/ JoinClaim(s) \/ RequestCheck(s) \/ ApproveClaim(s)
  PROVE  TypeInv'
<1> USE StoresTyped, KeyFacts, MemberLabelFacts
<1>1. ASSUME NEW e \in Events, JoinTeam(s, e) \/ RequestJoin(s, e) \/ ApprovePending(s, e)
      PROVE TypeInv'
  <2>1. e \in MemberEvent
    BY <1>1, EventKinds DEF JoinTeam, RequestJoin, ApprovePending, MemberOps
  <2>2. {"join@player", "request@player", "approve@player"} \subseteq SnapshotLabels
    BY DEF SnapshotLabels
  <2>3. QED
    BY <1>1, <2>1, <2>2, SnapshotType DEF JoinTeam, RequestJoin, ApprovePending
<1>2. ASSUME JoinClaim(s) PROVE TypeInv'
  <2>1. "join@player" \in SnapshotLabels /\ "join@team" \in SeatLabels
    BY DEF SnapshotLabels, SeatLabels
  <2>2. /\ ~Idle(s) /\ event[s] \in MemberEvent /\ event[s].teamId \in Teams
        /\ event[s].steamId \in Players /\ locals[s].team \in Team \cup {None}
    BY <1>2, <2>1, MemberWaiting, WaitingEvent DEF JoinClaim
  <2>3. CASE Finish(s) /\ UNCHANGED playerSeason
    <3>1. StoresOK'
      BY <1>2, <2>3, StoresUnchanged DEF JoinClaim, storeVars
    <3>2. QED
      BY <2>3, <3>1, FinishStep
  <2>4. CASE /\ ~JoinError(locals[s], event[s].steamId)
             /\ playerSeason' = [playerSeason EXCEPT
                  ![event[s].steamId][locals[s].team.seasonId] = event[s].teamId]
             /\ Hop(s, event[s].teamId, "join@team", NoLocals)
    <3>1. locals[s].team.seasonId \in Seasons
      BY <2>2, <2>4 DEF JoinError, SnapshotRefuses, Team
    <3>2. StoresOK'
      BY <1>2, <2>2, <2>4, <3>1, PlayerSeasonWrite DEF JoinClaim
    <3>3. QED
      BY <2>1, <2>2, <2>4, <3>2, MemberHop
  <2>5. QED
    BY <1>2, <2>3, <2>4 DEF JoinClaim
<1>3. ASSUME RequestCheck(s) PROVE TypeInv'
  <2>1. "request@player" \in SnapshotLabels /\ "request@team" \in SeatLabels
    BY DEF SnapshotLabels, SeatLabels
  <2>2. ~Idle(s) /\ event[s] \in MemberEvent /\ event[s].teamId \in Teams
    BY <1>3, <2>1, MemberWaiting DEF RequestCheck
  <2>3. StoresOK'
    BY <1>3, StoresUnchanged DEF RequestCheck
  <2>4. CASE Finish(s)
    BY <2>3, <2>4, FinishStep
  <2>5. CASE Hop(s, event[s].teamId, "request@team", NoLocals)
    BY <2>1, <2>2, <2>3, <2>5, MemberHop
  <2>6. QED
    BY <1>3, <2>4, <2>5 DEF RequestCheck
<1>4. ASSUME ApproveClaim(s) PROVE TypeInv'
  <2>1. "approve@player" \in SnapshotLabels /\ "approve@team" \in SeatLabels
    BY DEF SnapshotLabels, SeatLabels
  <2>2. /\ ~Idle(s) /\ event[s] \in MemberEvent /\ event[s].teamId \in Teams
        /\ event[s].steamId \in Players /\ locals[s].team \in Team \cup {None}
    BY <1>4, <2>1, MemberWaiting, WaitingEvent DEF ApproveClaim
  <2>3. CASE Finish(s) /\ UNCHANGED <<playerSeason, pendingByPlayer>>
    <3>1. StoresOK'
      BY <1>4, <2>3, StoresUnchanged DEF ApproveClaim, storeVars, pendingVars
    <3>2. QED
      BY <2>3, <3>1, FinishStep
  <2>4. CASE /\ ~JoinError(locals[s], event[s].steamId)
             /\ playerSeason' = [playerSeason EXCEPT
                  ![event[s].steamId][locals[s].team.seasonId] = event[s].teamId]
             /\ pendingByPlayer' =
                  [pendingByPlayer EXCEPT ![event[s].steamId][event[s].teamId] = None]
             /\ Hop(s, event[s].teamId, "approve@team", NoLocals)
    <3>1. locals[s].team.seasonId \in Seasons
      BY <2>2, <2>4 DEF JoinError, SnapshotRefuses, Team
    <3>2. playerSeason' \in [Players -> [Seasons -> Teams \cup {None}]]
      BY <2>2, <2>4, <3>1 DEF StoresOK
    <3>3. pendingByPlayer' \in [Players -> [Teams -> {Invited, Awaiting, None}]]
      BY <2>2, <2>4 DEF StoresOK
    <3>4. StoresOK'
      BY <1>4, <3>2, <3>3 DEF ApproveClaim, StoresOK
    <3>5. QED
      BY <2>1, <2>2, <2>4, <3>4, MemberHop
  <2>5. QED
    BY <1>4, <2>3, <2>4 DEF ApproveClaim
<1>5. QED
  BY <1>1, <1>2, <1>3, <1>4

\* Writing a roster row and the pending row of the same member.
LEMMA SeatType ==
  ASSUME TypeInv, NEW s \in Slots, JoinSeat(s) \/ ApproveSeat(s)
  PROVE  TypeInv'
<1> USE StoresTyped, KeyFacts, RowTypes
<1>1. {"join@team", "approve@team"} \subseteq MemberLabels /\ "approve@all" \in SeatLabels
  BY MemberLabelFacts DEF SeatLabels
<1>2. /\ ~Idle(s) /\ event[s] \in MemberEvent /\ event[s].teamId \in Teams
      /\ event[s].steamId \in Players /\ NewMember("MEMBER") \in Member
  BY <1>1, MemberWaiting DEF JoinSeat, ApproveSeat
<1>3. CASE JoinSeat(s)
  <2>1. StoresOK'
    BY <1>2, <1>3, RosterWrite DEF JoinSeat
  <2>2. QED
    BY <1>3, <2>1, FinishStep DEF JoinSeat
<1>4. CASE ApproveSeat(s)
  <2>1. roster' \in [Teams -> [Players -> Member \cup {None}]]
    BY <1>2, <1>4 DEF ApproveSeat, StoresOK
  <2>2. pending' \in [Teams -> [Players -> {Invited, Awaiting, None}]]
    BY <1>2, <1>4 DEF ApproveSeat, StoresOK
  <2>3. StoresOK'
    BY <1>4, <2>1, <2>2 DEF ApproveSeat, StoresOK
  <2>4. QED
    BY <1>1, <1>2, <1>4, <2>3, MemberHop DEF ApproveSeat
<1>5. QED
  BY <1>3, <1>4

\* decline-pending, create-invite and accept-invite, and the row a request
\* writes, keep TypeInv.
LEMMA PendingType ==
  ASSUME TypeInv, NEW s \in Slots,
         \/ \E e \in Events : DeclinePending(s, e) \/ CreateInvite(s, e) \/ AcceptInvite(s, e)
         \/ RequestRow(s)
  PROVE  TypeInv'
<1> USE StoresTyped, KeyFacts
<1>1. ASSUME NEW e \in Events, NEW row \in {Invited, Awaiting, None}, NEW label \in SeatLabels,
             e.op \in MemberOps, SetPending(e, row, s, label)
      PROVE  TypeInv'
  <2>1. e \in MemberEvent
    BY <1>1, EventKinds
  <2>2. e.teamId \in Teams /\ e.steamId \in Players
    BY <2>1 DEF MemberEvent
  <2>3. StoresOK'
    BY <1>1, <2>2, PendingWrite DEF SetPending
  <2>4. QED
    BY <1>1, <2>1, <2>3, MemberStart DEF SetPending
<1>2. {"decline@player", "invite@player", "accept@player", "request@player-index"} \subseteq SeatLabels
      /\ {"decline-pending", "create-invite", "accept-invite"} \subseteq MemberOps
  BY DEF SeatLabels, MemberOps
<1>3. ASSUME NEW e \in Events, DeclinePending(s, e) \/ CreateInvite(s, e) \/ AcceptInvite(s, e)
      PROVE TypeInv'
  BY <1>1, <1>2, <1>3 DEF DeclinePending, CreateInvite, AcceptInvite
<1>4. ASSUME RequestRow(s) PROVE TypeInv'
  <2>1. "request@team" \in MemberLabels
    BY MemberLabelFacts DEF SeatLabels
  <2>2. /\ ~Idle(s) /\ event[s] \in MemberEvent /\ event[s].teamId \in Teams
        /\ event[s].steamId \in Players
    BY <1>4, <2>1, MemberWaiting DEF RequestRow
  <2>3. StoresOK'
    BY <1>4, <2>2, PendingWrite DEF RequestRow
  <2>4. QED
    BY <1>2, <1>4, <2>2, <2>3, MemberHop DEF RequestRow
<1>5. QED
  BY <1>3, <1>4

\* The steps that copy a pending row to the player's index keep TypeInv.
LEMMA MirrorType ==
  ASSUME TypeInv, NEW s \in Slots,
         RequestMirror(s) \/ DeclineMirror(s) \/ InviteMirror(s) \/ AcceptMirror(s)
  PROVE  TypeInv'
<1> USE StoresTyped, KeyFacts
<1>1. /\ {"request@player-index", "decline@player", "invite@player", "accept@player"}
           \subseteq MemberLabels
      /\ {"request@all", "decline@all", "accept@all"} \subseteq SeatLabels
  BY MemberLabelFacts DEF SeatLabels
<1>2. /\ ~Idle(s) /\ event[s] \in MemberEvent /\ event[s].teamId \in Teams
      /\ event[s].steamId \in Players
  BY <1>1, MemberWaiting DEF RequestMirror, DeclineMirror, InviteMirror, AcceptMirror
<1>3. ASSUME NEW row \in {Invited, Awaiting, None}, SetPendingByPlayer(s, row)
      PROVE StoresOK'
  BY <1>2, <1>3, MirrorWrite DEF SetPendingByPlayer
<1>4. StoresOK'
  BY <1>3 DEF RequestMirror, DeclineMirror, InviteMirror, AcceptMirror
<1>5. CASE InviteMirror(s)
  BY <1>4, <1>5, FinishStep DEF InviteMirror
<1>6. CASE RequestMirror(s) \/ DeclineMirror(s) \/ AcceptMirror(s)
  BY <1>1, <1>2, <1>4, <1>6, MemberHop DEF RequestMirror, DeclineMirror, AcceptMirror
<1>7. QED
  BY <1>5, <1>6

\* The two steps on the awaiting index keep TypeInv.
LEMMA AwaitingType ==
  ASSUME TypeInv, NEW s \in Slots, AwaitingAdd(s) \/ AwaitingRemove(s)
  PROVE  TypeInv'
<1>1. {"request@all", "accept@all", "approve@all", "decline@all"} \subseteq MemberLabels
  BY MemberLabelFacts DEF SeatLabels
<1>2. event[s].teamId \in Teams /\ event[s].steamId \in Players
  BY <1>1, MemberWaiting DEF AwaitingAdd, AwaitingRemove
<1>3. StoresOK'
  BY <1>2, StoresTyped DEF AwaitingAdd, AwaitingRemove, PendingKey, StoresOK
<1>4. QED
  BY <1>3, FinishStep DEF AwaitingAdd, AwaitingRemove

\* leave-team keeps TypeInv.
LEMMA LeaveType ==
  ASSUME TypeInv, NEW s \in Slots, (\E e \in Events : LeaveTeam(s, e)) \/ LeaveRelease(s)
  PROVE  TypeInv'
<1> USE StoresTyped, KeyFacts, MemberLabelFacts
<1>1. ASSUME NEW e \in Events, LeaveTeam(s, e) PROVE TypeInv'
  <2>1. e \in MemberEvent /\ e.teamId \in Teams /\ e.steamId \in Players
    BY <1>1, EventKinds DEF LeaveTeam, MemberOps, MemberEvent
  <2>2. teams[e.teamId].seasonId \in Seasons
    BY <1>1, <2>1 DEF LeaveTeam, StoresOK, Team
  <2>3. StoresOK'
    BY <1>1, <2>1, RosterWrite DEF LeaveTeam
  <2>4. Launch(s, e, e.teamId, e.steamId, "leave@player", [seasonId |-> teams[e.teamId].seasonId])
    BY <1>1 DEF LeaveTeam
  <2>5. QED
    BY <2>1, <2>2, <2>3, <2>4, StartType
<1>2. ASSUME LeaveRelease(s) PROVE TypeInv'
  <2>1. /\ event[s] \in MemberEvent /\ event[s].steamId \in Players
        /\ locals[s].seasonId \in Seasons
    BY <1>2, MemberWaiting, WaitingEvent DEF LeaveRelease
  <2>2. StoresOK'
    BY <1>2, <2>1, PlayerSeasonWrite DEF LeaveRelease
  <2>3. QED
    BY <1>2, <2>2, FinishStep DEF LeaveRelease
<1>3. QED
  BY <1>1, <1>2

\* set-status keeps TypeInv.
LEMMA StatusType ==
  ASSUME TypeInv, NEW s \in Slots, (\E e \in Events : SetStatus(s, e)) \/ StatusIndex(s)
  PROVE  TypeInv'
<1> USE StoresTyped, KeyFacts
<1>1. /\ "status@season" \in Labels
      /\ "status@season" \notin CreateLabels \cup MemberLabels \cup SnapshotLabels
  BY DEF Labels, CreateLabels, MemberLabels, SnapshotLabels
<1>2. ASSUME NEW e \in Events, SetStatus(s, e) PROVE TypeInv'
  <2>1. e \in StatusEvent /\ e.teamId \in Teams /\ e.status \in Statuses
    BY <1>2, EventKinds DEF SetStatus, ValidStatus, StatusEvent
  <2>2. teams[e.teamId] \in Team
    BY <1>2, <2>1 DEF SetStatus, StoresOK
  <2>3. teams[e.teamId].seasonId \in Seasons
    BY <2>2 DEF Team
  <2>4. [teams[e.teamId] EXCEPT !.status = e.status] \in Team
    BY <2>1, <2>2 DEF Team
  <2>5. StoresOK'
    <3>1. teams' = [teams EXCEPT ![e.teamId] = [teams[e.teamId] EXCEPT !.status = e.status]]
      BY <1>2, <2>1 DEF SetStatus, StoresOK
    <3>2. teams' \in [Teams -> Team \cup {None}]
      BY <2>1, <2>4, <3>1 DEF StoresOK
    <3>3. QED
      BY <1>2, <3>2 DEF SetStatus, StoresOK, pendingVars
  <2>6. Launch(s, e, e.teamId, teams[e.teamId].seasonId, "status@season",
               [seasonId |-> teams[e.teamId].seasonId])
    BY <1>2 DEF SetStatus
  <2>7. QED
    BY <1>1, <2>1, <2>3, <2>5, <2>6, StartType
<1>3. ASSUME StatusIndex(s) PROVE TypeInv'
  <2>1. event[s].teamId \in Teams /\ event[s].status \in Statuses /\ locals[s].seasonId \in Seasons
    BY <1>1, <1>3, WaitingEvent DEF StatusIndex
  <2>2. StoresOK'
    BY <1>3, <2>1, IndexWrite DEF StatusIndex
  <2>3. QED
    BY <1>3, <2>2, FinishStep DEF StatusIndex
<1>4. QED
  BY <1>2, <1>3

\* The ops without a hop replace a member row by a member row.
LEMMA MemberFieldRow ==
  ASSUME TypeInv, NEW e \in Events, SetMemberPermission(e) \/ SetMemberPayment(e)
  PROVE  /\ e.teamId \in Teams /\ e.steamId \in Players
         /\ roster[e.teamId][e.steamId] \in Member
         /\ \E row \in Member : roster' = [roster EXCEPT ![e.teamId][e.steamId] = row]
<1>1. e.teamId \in Teams /\ e.steamId \in Players
  BY EventKinds DEF SetMemberPermission, SetMemberPayment, PermissionEvent, PaymentEvent
<1>2. roster[e.teamId][e.steamId] \in Member
  BY <1>1, StoresTyped DEF SetMemberPermission, SetMemberPayment, OnRoster, StoresOK
<1>3. \E row \in Member : roster' = [roster EXCEPT ![e.teamId][e.steamId] = row]
  <2>1. CASE SetMemberPermission(e)
    <3>1. [roster[e.teamId][e.steamId] EXCEPT !.permissionLevel = e.permissionLevel] \in Member
      BY <1>2, <2>1 DEF SetMemberPermission, Member
    <3>2. roster' = [roster EXCEPT ![e.teamId][e.steamId] =
                       [roster[e.teamId][e.steamId] EXCEPT !.permissionLevel = e.permissionLevel]]
      BY <1>1, <2>1, StoresTyped DEF SetMemberPermission, StoresOK
    <3>3. QED
      BY <3>1, <3>2
  <2>2. CASE SetMemberPayment(e)
    <3>1. [roster[e.teamId][e.steamId] EXCEPT !.paymentStatus = e.paymentStatus] \in Member
      BY <1>2, <2>2 DEF SetMemberPayment, Member
    <3>2. roster' = [roster EXCEPT ![e.teamId][e.steamId] =
                       [roster[e.teamId][e.steamId] EXCEPT !.paymentStatus = e.paymentStatus]]
      BY <1>1, <2>2, StoresTyped DEF SetMemberPayment, StoresOK
    <3>3. QED
      BY <3>1, <3>2
  <2>3. QED
    BY <2>1, <2>2
<1>4. QED
  BY <1>1, <1>2, <1>3

\* The ops without a hop keep TypeInv.
LEMMA MemberFieldType ==
  ASSUME TypeInv, NEW e \in Events, SetMemberPermission(e) \/ SetMemberPayment(e)
  PROVE  TypeInv'
<1>1. StoresOK' /\ UNCHANGED flightVars
  BY MemberFieldRow, StoresTyped, RosterWrite DEF SetMemberPermission, SetMemberPayment
<1>2. FlightTypeOK(Labels, Events)' /\ \A s \in Slots : Carries(s)'
  BY <1>1 DEF flightVars, TypeInv, TypeOK, FlightTypeOK, Idle, Carries
<1>3. QED
  BY <1>1, <1>2 DEF TypeInv, TypeOK, StoresOK

\* TypeInv holds at the start.
LEMMA TypeAtStart == Init => TypeInv
<1> SUFFICES ASSUME Init PROVE TypeInv
  OBVIOUS
<1>1. FlightTypeOK(Labels, Events)
  BY InitType DEF Init
<1>2. \A s \in Slots : Carries(s)
  BY LabelFacts DEF Init, FlightInit, Carries, CreateLabels, MemberLabels, SnapshotLabels
<1>3. QED
  BY <1>1, <1>2 DEF Init, TypeInv, TypeOK

\* Every step keeps TypeInv.
LEMMA TypeStep == TypeInv /\ [Next]_vars => TypeInv'
<1> SUFFICES ASSUME TypeInv, [Next]_vars PROVE TypeInv'
  OBVIOUS
<1>1. ASSUME NEW s \in Slots, NEW e \in Events, Submit(s, e) PROVE TypeInv'
  BY <1>1, CreateType, JudgeType, PendingType, LeaveType, StatusType DEF Submit
<1>2. ASSUME NEW s \in Slots, Resume(s) PROVE TypeInv'
  BY <1>2, CreateType, JudgeType, SeatType, PendingType, MirrorType, AwaitingType,
     LeaveType, StatusType DEF Resume
<1>3. ASSUME NEW e \in Events, SetMemberPermission(e) \/ SetMemberPayment(e) PROVE TypeInv'
  BY <1>3, MemberFieldType
<1>4. CASE UNCHANGED vars
  BY <1>4 DEF vars, flightVars, storeVars, pendingVars, TypeInv, TypeOK, FlightTypeOK, Idle, Carries
<1>5. QED
  BY <1>1, <1>2, <1>3, <1>4 DEF Next

\* Every reachable state is well typed: no interleaving writes a value of the
\* wrong kind to a store, loses the place of a continuation or leaves a
\* segment without the values that it reads.
THEOREM TypeInvariant == Spec => []TypeInv
<1>1. QED
  BY TypeAtStart, TypeStep, PTL DEF Spec

\* The part of it that TLC checks too.
THEOREM TypeCorrect == Spec => []TypeOK
<1>1. TypeInv => TypeOK
  BY DEF TypeInv
<1>2. QED
  BY <1>1, TypeInvariant, PTL

---------------------------------------------------------------------------
(* Seats: the invariant *)

\* Some client creates team t in season n.
Plays(t, n) ==
  \E e \in Events : e.op = "create-team" /\ e.teamId = t /\ e.seasonId = n

SeatingLabels == {"create@team", "join@team", "approve@team"}
TransitLabels == SeatingLabels \cup {"leave@player"}

Traveller(s, t, p) == pc[s] \in TransitLabels /\ Concerns(s, t, p)

\* The season that a continuation carries is its team's, and a member event
\* that got past its check is about an existing team.
FlightSeason(s) ==
  /\ pc[s] \in SnapshotLabels /\ locals[s].team # None =>
       /\ teams[event[s].teamId] # None
       /\ Plays(event[s].teamId, locals[s].team.seasonId)
  /\ pc[s] \in {"join@team", "approve@team"} => teams[event[s].teamId] # None
  /\ pc[s] = "leave@player" => Plays(event[s].teamId, locals[s].seasonId)

SeasonInv ==
  /\ \A t \in Teams : teams[t] # None => Plays(t, teams[t].seasonId)
  /\ \A t \in Teams, p \in Players : OnRoster(t, p) => teams[t] # None
  /\ \A t \in Teams, p \in Players, n \in Seasons : playerSeason[p][n] = t => Plays(t, n)
  /\ \A s \in Slots : FlightSeason(s)

HasSlot(t, p) == \E n \in Seasons : playerSeason[p][n] = t

\* SlotMatchesRoster, slot by slot.
SeatInv ==
  \A t \in Teams, p \in Players :
    /\ HasSlot(t, p) => OnRoster(t, p) \/ \E s \in Slots : Traveller(s, t, p)
    /\ OnRoster(t, p) => HasSlot(t, p)
    /\ \A s \in Slots : Traveller(s, t, p) => HasSlot(t, p) /\ ~OnRoster(t, p)
    /\ \A s, r \in Slots : Traveller(s, t, p) /\ Traveller(r, t, p) => s = r

LEMMA SeatInvIsSlotMatchesRoster == SeatInv <=> SlotMatchesRoster
<1>1. \A t \in Teams, p \in Players : InTransit(t, p) = {s \in Slots : Traveller(s, t, p)}
  BY DEF InTransit, Seating, Leaving, Traveller, TransitLabels, SeatingLabels
<1>2. QED
  BY <1>1 DEF SeatInv, SlotMatchesRoster, HasSlot

---------------------------------------------------------------------------
(* The kinds of steps *)

\* Only the continuation in s moves.
Others(s) ==
  \A o \in Slots \ {s} : pc'[o] = pc[o] /\ event'[o] = event[o] /\ locals'[o] = locals[o]

\* Team rows may change, but not whether they exist nor their season.
SameTeams ==
  \A t \in Teams : /\ teams'[t] = None <=> teams[t] = None
                   /\ teams[t] # None => teams'[t].seasonId = teams[t].seasonId
SameRosters == \A t \in Teams, p \in Players : OnRoster(t, p)' <=> OnRoster(t, p)

\* Nothing moves.
StillStep ==
  UNCHANGED <<pc, event, locals>> /\ SameTeams /\ SameRosters /\ UNCHANGED playerSeason

\* A continuation that has no seat to bring moves.
QuietStep(s) ==
  /\ Others(s) /\ SameTeams /\ SameRosters /\ UNCHANGED playerSeason
  /\ pc[s] \notin TransitLabels /\ pc'[s] \notin TransitLabels
  /\ pc'[s] \in SnapshotLabels =>
       event'[s].teamId \in Teams /\ locals'[s].team = teams[event'[s].teamId]

\* A free slot is claimed.
ClaimStep(s, t, p, n) ==
  /\ Others(s) /\ UNCHANGED <<teams, roster>>
  /\ playerSeason[p][n] = None
  /\ playerSeason' = [playerSeason EXCEPT ![p][n] = t]
  /\ pc[s] \notin TransitLabels /\ pc'[s] \in SeatingLabels
  /\ event'[s] = event[s] /\ Concerns(s, t, p)
  /\ Plays(t, n)
  /\ pc'[s] # "create@team" => teams[t] # None

\* The claimed seat is taken.
TakeStep(s, t, p) ==
  /\ Others(s) /\ UNCHANGED playerSeason
  /\ \A u \in Teams \ {t} : teams'[u] = teams[u]
  /\ teams'[t] # None /\ Plays(t, teams'[t].seasonId)
  /\ \A u \in Teams, q \in Players :
       OnRoster(u, q)' <=> OnRoster(u, q) \/ (u = t /\ q = p)
  /\ pc[s] \in SeatingLabels /\ Concerns(s, t, p)
  /\ pc'[s] \notin TransitLabels \cup SnapshotLabels

\* A seat is given up.
LeaveStep(s, t, p) ==
  /\ Others(s) /\ UNCHANGED <<teams, playerSeason>>
  /\ OnRoster(t, p) /\ teams[t] # None
  /\ \A u \in Teams, q \in Players : OnRoster(u, q)' <=> OnRoster(u, q) /\ ~(u = t /\ q = p)
  /\ pc[s] = "idle" /\ pc'[s] = "leave@player" /\ Concerns(s, t, p)'
  /\ locals'[s].seasonId = teams[t].seasonId

\* The slot of a seat given up is freed.
ReleaseStep(s, t, p, n) ==
  /\ Others(s) /\ UNCHANGED <<teams, roster>>
  /\ playerSeason' = [playerSeason EXCEPT ![p][n] = None]
  /\ pc[s] = "leave@player" /\ Concerns(s, t, p) /\ locals[s].seasonId = n
  /\ pc'[s] = "idle"

SeatStep ==
  \/ StillStep
  \/ \E s \in Slots : QuietStep(s)
  \/ \E s \in Slots, t \in Teams, p \in Players : TakeStep(s, t, p) \/ LeaveStep(s, t, p)
  \/ \E s \in Slots, t \in Teams, p \in Players, n \in Seasons :
       ClaimStep(s, t, p, n) \/ ReleaseStep(s, t, p, n)

\* How the three moves of a continuation look from outside.
LEMMA LaunchMoves ==
  ASSUME TypeInv, NEW s \in Slots, NEW e, NEW key, NEW dest, NEW label, NEW mem,
         Launch(s, e, key, dest, label, mem)
  PROVE  /\ Others(s) /\ pc[s] = "idle"
         /\ pc'[s] = label /\ event'[s] = e /\ locals'[s] = mem
  BY DEF TypeInv, TypeOK, FlightTypeOK, Launch, Others, Idle

LEMMA HopMoves ==
  ASSUME TypeInv, NEW s \in Slots, NEW dest, NEW label, NEW mem, Hop(s, dest, label, mem)
  PROVE  Others(s) /\ pc'[s] = label /\ event'[s] = event[s] /\ locals'[s] = mem
  BY DEF TypeInv, TypeOK, FlightTypeOK, Hop, Others

LEMMA FinishMoves ==
  ASSUME TypeInv, NEW s \in Slots, Finish(s)
  PROVE  Others(s) /\ pc'[s] = "idle"
  BY DEF TypeInv, TypeOK, FlightTypeOK, Finish, Others

\* nil is neither a row nor a team.
LEMMA NoneFacts == None \notin Team /\ None \notin Member /\ None \notin Teams
  BY NoneAssumption

\* A continuation that starts, hops or ends without a seat is a quiet step.
LEMMA QuietLaunch ==
  ASSUME TypeInv, NEW s \in Slots, NEW e, NEW key, NEW dest, NEW label, NEW mem,
         Launch(s, e, key, dest, label, mem),
         SameTeams, SameRosters, UNCHANGED playerSeason,
         label \notin TransitLabels,
         label \in SnapshotLabels => e.teamId \in Teams /\ mem.team = teams[e.teamId]
  PROVE  QuietStep(s)
<1>1. "idle" \notin TransitLabels
  BY DEF TransitLabels, SeatingLabels
<1>2. QED
  BY <1>1, LaunchMoves DEF QuietStep

LEMMA QuietHop ==
  ASSUME TypeInv, NEW s \in Slots, NEW dest, NEW label, NEW mem, Hop(s, dest, label, mem),
         UNCHANGED <<teams, playerSeason>>, SameRosters, pc[s] \notin TransitLabels,
         label \notin TransitLabels \cup SnapshotLabels
  PROVE  QuietStep(s)
  BY HopMoves DEF QuietStep, SameTeams

LEMMA QuietFinish ==
  ASSUME TypeInv, NEW s \in Slots, Finish(s), UNCHANGED <<teams, playerSeason>>, SameRosters,
         pc[s] \notin TransitLabels
  PROVE  QuietStep(s)
<1>1. "idle" \notin TransitLabels \cup SnapshotLabels
  BY DEF TransitLabels, SeatingLabels, SnapshotLabels
<1>2. QED
  BY <1>1, FinishMoves DEF QuietStep, SameTeams

\* A step that leaves the rosters alone leaves their members.
LEMMA RostersUnchanged == UNCHANGED roster => SameRosters
  BY DEF SameRosters, OnRoster

\* Events that read before they decide.
LEMMA ReadKind ==
  ASSUME TypeInv, NEW s \in Slots, NEW e \in Events,
         CreateTeam(s, e) \/ JoinTeam(s, e) \/ RequestJoin(s, e) \/ ApprovePending(s, e)
  PROVE  QuietStep(s)
<1>1. CASE CreateTeam(s, e)
  <2>1. "create@player" \notin TransitLabels \cup SnapshotLabels
    BY DEF TransitLabels, SeatingLabels, SnapshotLabels
  <2>2. SameTeams /\ SameRosters /\ UNCHANGED playerSeason
    BY <1>1, RostersUnchanged DEF CreateTeam, storeVars, SameTeams
  <2>3. Launch(s, e, e.teamId, e.steamId, "create@player", [existing |-> teams[e.teamId] # None])
    BY <1>1 DEF CreateTeam
  <2>4. QED
    BY <2>1, <2>2, <2>3, QuietLaunch
<1>2. ASSUME NEW label \in SnapshotLabels, NEW row, e.op \in MemberOps, ReadTeam(s, e, label, row)
      PROVE  QuietStep(s)
  <2>1. e.teamId \in Teams
    BY <1>2, EventKinds DEF MemberEvent
  <2>2. label \notin TransitLabels
    BY <1>2 DEF TransitLabels, SeatingLabels, SnapshotLabels
  <2>3. SameTeams /\ SameRosters /\ UNCHANGED playerSeason
    BY <1>2, RostersUnchanged DEF ReadTeam, storeVars, SameTeams
  <2>4. Launch(s, e, e.teamId, e.steamId, label, Snapshot(e.teamId, row))
    BY <1>2 DEF ReadTeam
  <2>5. Snapshot(e.teamId, row).team = teams[e.teamId]
    BY DEF Snapshot
  <2>6. QED
    BY <2>1, <2>2, <2>3, <2>4, <2>5, QuietLaunch
<1>3. /\ "join@player" \in SnapshotLabels /\ "request@player" \in SnapshotLabels
      /\ "approve@player" \in SnapshotLabels
      /\ {"join-team", "request-join", "approve-pending"} \subseteq MemberOps
  BY DEF SnapshotLabels, MemberOps
<1>4. QED
  BY <1>1, <1>2, <1>3 DEF JoinTeam, RequestJoin, ApprovePending

\* Steps on the pending rows and indexes.
LEMMA PendingKind ==
  ASSUME TypeInv, NEW s \in Slots,
         \/ \E e \in Events : DeclinePending(s, e) \/ CreateInvite(s, e) \/ AcceptInvite(s, e)
         \/ RequestCheck(s) \/ RequestRow(s) \/ RequestMirror(s) \/ DeclineMirror(s)
         \/ InviteMirror(s) \/ AcceptMirror(s) \/ AwaitingAdd(s) \/ AwaitingRemove(s)
  PROVE  QuietStep(s)
<1> DEFINE Calm == SeatLabels \ {"join@team", "approve@team"}
<1>1. Calm \cap (TransitLabels \cup SnapshotLabels) = {} /\ "request@player" \notin TransitLabels
  BY DEF SeatLabels, TransitLabels, SeatingLabels, SnapshotLabels
<1>2. ASSUME NEW e \in Events, NEW row, NEW label \in Calm, SetPending(e, row, s, label)
      PROVE  QuietStep(s)
  <2>1. SameTeams /\ SameRosters /\ UNCHANGED playerSeason
    BY <1>2, RostersUnchanged DEF SetPending, SameTeams
  <2>2. QED
    BY <1>1, <1>2, <2>1, QuietLaunch DEF SetPending
<1>3. "decline@player" \in Calm /\ "invite@player" \in Calm /\ "accept@player" \in Calm
  BY DEF SeatLabels
<1>4. CASE \E e \in Events : DeclinePending(s, e) \/ CreateInvite(s, e) \/ AcceptInvite(s, e)
  BY <1>2, <1>3, <1>4 DEF DeclinePending, CreateInvite, AcceptInvite
<1>5. CASE \/ RequestCheck(s) \/ RequestRow(s) \/ RequestMirror(s) \/ DeclineMirror(s)
           \/ InviteMirror(s) \/ AcceptMirror(s) \/ AwaitingAdd(s) \/ AwaitingRemove(s)
  <2>1. UNCHANGED <<teams, playerSeason>> /\ SameRosters
    BY <1>5, RostersUnchanged DEF RequestCheck, RequestRow, RequestMirror, DeclineMirror,
         InviteMirror, AcceptMirror, AwaitingAdd, AwaitingRemove, SetPendingByPlayer, storeVars
  <2>2. pc[s] \in Calm \cup {"request@player"}
    BY <1>5 DEF RequestCheck, RequestRow, RequestMirror, DeclineMirror, InviteMirror,
         AcceptMirror, AwaitingAdd, AwaitingRemove, Ready, SeatLabels
  <2>3. \/ Finish(s)
        \/ \E dest, label, mem : label \in Calm /\ Hop(s, dest, label, mem)
    <3>1. /\ "request@team" \in Calm /\ "request@player-index" \in Calm
          /\ "request@all" \in Calm /\ "decline@all" \in Calm /\ "accept@all" \in Calm
      BY DEF SeatLabels
    <3>2. CASE RequestCheck(s) \/ RequestRow(s) \/ RequestMirror(s)
      BY <3>1, <3>2 DEF RequestCheck, RequestRow, RequestMirror
    <3>3. CASE DeclineMirror(s) \/ AcceptMirror(s)
      BY <3>1, <3>3 DEF DeclineMirror, AcceptMirror
    <3>4. CASE InviteMirror(s) \/ AwaitingAdd(s) \/ AwaitingRemove(s)
      BY <3>4 DEF InviteMirror, AwaitingAdd, AwaitingRemove
    <3>5. QED
      BY <1>5, <3>2, <3>3, <3>4
  <2>4. pc[s] \notin TransitLabels
    BY <1>1, <2>2
  <2>5. QED
    BY <1>1, <2>1, <2>3, <2>4, QuietHop, QuietFinish
<1>6. QED
  BY <1>4, <1>5

\* Writes of team rows and index rows that seat nobody.
LEMMA StatusKind ==
  ASSUME TypeInv, NEW s \in Slots,
         (\E e \in Events : SetStatus(s, e)) \/ CreateIndex(s) \/ StatusIndex(s)
  PROVE  QuietStep(s)
<1>1. {"status@season", "create@season"} \cap (TransitLabels \cup SnapshotLabels) = {}
  BY DEF TransitLabels, SeatingLabels, SnapshotLabels
<1>2. ASSUME NEW e \in Events, SetStatus(s, e) PROVE QuietStep(s)
  <2>1. e.teamId \in Teams
    BY <1>2, EventKinds DEF SetStatus, StatusEvent
  <2>2. teams[e.teamId] \in Team /\ teams \in [Teams -> Team \cup {None}]
    BY <1>2, <2>1, StoresTyped DEF SetStatus, StoresOK
  <2>3. teams' = [teams EXCEPT ![e.teamId] = [teams[e.teamId] EXCEPT !.status = e.status]]
    BY <1>2, <2>2 DEF SetStatus
  <2>4. /\ [teams[e.teamId] EXCEPT !.status = e.status].seasonId = teams[e.teamId].seasonId
        /\ [teams[e.teamId] EXCEPT !.status = e.status] # None
    <3>1. e.status \in Statuses
      BY <1>2 DEF SetStatus, ValidStatus
    <3>2. [teams[e.teamId] EXCEPT !.status = e.status] \in Team
      BY <2>2, <3>1 DEF Team
    <3>3. QED
      BY <2>2, <3>2, NoneFacts DEF Team
  <2>5. SameTeams
    BY <2>1, <2>2, <2>3, <2>4, NoneFacts DEF SameTeams
  <2>6. SameRosters /\ UNCHANGED playerSeason
    BY <1>2, RostersUnchanged DEF SetStatus
  <2>7. Launch(s, e, e.teamId, teams[e.teamId].seasonId, "status@season",
               [seasonId |-> teams[e.teamId].seasonId])
    BY <1>2 DEF SetStatus
  <2>8. QED
    BY <1>1, <2>5, <2>6, <2>7, QuietLaunch
<1>3. ASSUME CreateIndex(s) \/ StatusIndex(s) PROVE QuietStep(s)
  BY <1>1, <1>3, RostersUnchanged, QuietFinish DEF CreateIndex, StatusIndex, Ready
<1>4. QED
  BY <1>2, <1>3

\* A claim of a slot, or a refusal.
LEMMA ClaimKind ==
  ASSUME TypeInv, SeasonInv, NEW s \in Slots, CreateClaim(s) \/ JoinClaim(s) \/ ApproveClaim(s)
  PROVE  \/ QuietStep(s)
         \/ \E t \in Teams, p \in Players, n \in Seasons : ClaimStep(s, t, p, n)
<1>1. /\ {"create@player", "join@player", "approve@player"} \cap TransitLabels = {}
      /\ "create@player" \in Labels \cap CreateLabels
      /\ "join@player" \in SnapshotLabels \cap MemberLabels \cap Labels
      /\ "approve@player" \in SnapshotLabels \cap MemberLabels \cap Labels
      /\ {"create@team", "join@team", "approve@team"} \subseteq SeatingLabels
  BY DEF TransitLabels, SeatingLabels, Labels, CreateLabels, MemberLabels, SnapshotLabels
<1>2. CASE Finish(s) /\ UNCHANGED playerSeason
  <2>1. pc[s] \notin TransitLabels
    BY <1>1 DEF CreateClaim, JoinClaim, ApproveClaim, Ready
  <2>2. UNCHANGED <<teams, playerSeason>> /\ SameRosters
    BY <1>2, RostersUnchanged DEF CreateClaim, JoinClaim, ApproveClaim
  <2>3. QED
    BY <1>2, <2>1, <2>2, QuietFinish
<1>3. CASE CreateClaim(s) /\ ~CreateError(s)
  <2> DEFINE e == event[s]
  <2>1. /\ pc[s] = "create@player" /\ e \in CreateEvent /\ e.teamId \in Teams
        /\ e.steamId \in Players /\ e.seasonId \in Seasons
    BY <1>1, <1>3, WaitingEvent DEF CreateClaim, Ready
  <2>2. e \in Events
    <3>1. e \in Events \cup {NoEvent}
      BY DEF TypeInv, TypeOK, FlightTypeOK
    <3>2. e.op = "create-team" /\ NoEvent.op = "none"
      BY <2>1 DEF CreateEvent, NoEvent
    <3>3. QED
      BY <3>1, <3>2
  <2>3. Plays(e.teamId, e.seasonId)
    BY <2>1, <2>2 DEF Plays, CreateEvent
  <2>4. Others(s) /\ pc'[s] = "create@team" /\ event'[s] = e
    BY <1>3, HopMoves DEF CreateClaim
  <2>5. ClaimStep(s, e.teamId, e.steamId, e.seasonId)
    BY <1>1, <1>3, <2>1, <2>3, <2>4 DEF CreateClaim, CreateError, ClaimStep, Concerns
  <2>6. QED
    BY <2>1, <2>5
<1>4. ASSUME NEW from \in {"join@player", "approve@player"}, Ready(s, from),
             NEW to \in {"join@team", "approve@team"},
             ~JoinError(locals[s], event[s].steamId),
             playerSeason' = [playerSeason EXCEPT
               ![event[s].steamId][locals[s].team.seasonId] = event[s].teamId],
             Hop(s, event[s].teamId, to, NoLocals), UNCHANGED <<teams, roster>>
      PROVE  \E t \in Teams, p \in Players, n \in Seasons : ClaimStep(s, t, p, n)
  <2> DEFINE e == event[s]
  <2> DEFINE n == locals[s].team.seasonId
  <2>1. pc[s] = from /\ from \in MemberLabels /\ from \in SnapshotLabels
    BY <1>1, <1>4 DEF Ready
  <2>2. e.teamId \in Teams /\ e.steamId \in Players /\ locals[s].team \in Team \cup {None}
    BY <1>1, <1>4, <2>1, WaitingEvent
  <2>3. locals[s].team # None /\ playerSeason[e.steamId][n] = None
    BY <1>4 DEF JoinError, SnapshotRefuses
  <2>4. n \in Seasons
    BY <2>2, <2>3 DEF Team
  <2>5. teams[e.teamId] # None /\ Plays(e.teamId, n)
    BY <2>1, <2>3 DEF SeasonInv, FlightSeason
  <2>6. Others(s) /\ pc'[s] = to /\ event'[s] = e
    BY <1>4, HopMoves
  <2>7. pc[s] \notin TransitLabels /\ to \in SeatingLabels
    BY <1>1, <2>1
  <2>8. ClaimStep(s, e.teamId, e.steamId, n)
    BY <1>4, <2>3, <2>5, <2>6, <2>7 DEF ClaimStep, Concerns
  <2>9. QED
    BY <2>2, <2>4, <2>8
<1>5. CASE JoinClaim(s) /\ ~JoinError(locals[s], event[s].steamId)
  BY <1>4, <1>5 DEF JoinClaim
<1>6. CASE ApproveClaim(s) /\ ~(locals[s].pending # Awaiting \/ JoinError(locals[s], event[s].steamId))
  BY <1>4, <1>6 DEF ApproveClaim
<1>7. QED
  BY <1>2, <1>3, <1>5, <1>6 DEF CreateClaim, JoinClaim, ApproveClaim

\* The roster row of a claimed seat.
LEMMA TakeKind ==
  ASSUME TypeInv, SeasonInv, NEW s \in Slots, CreateRow(s) \/ JoinSeat(s) \/ ApproveSeat(s)
  PROVE  \E t \in Teams, p \in Players : TakeStep(s, t, p)
<1> DEFINE e == event[s]
<1>1. /\ "create@team" \in Labels \cap CreateLabels
      /\ "join@team" \in Labels \cap MemberLabels /\ "approve@team" \in Labels \cap MemberLabels
      /\ {"idle", "create@season", "approve@all"} \cap (TransitLabels \cup SnapshotLabels) = {}
      /\ SeatingLabels = {"create@team", "join@team", "approve@team"}
  BY DEF TransitLabels, SeatingLabels, Labels, CreateLabels, MemberLabels, SnapshotLabels
<1>2. e.teamId \in Teams /\ e.steamId \in Players /\ pc[s] \in SeatingLabels
  BY <1>1, WaitingEvent DEF CreateRow, JoinSeat, ApproveSeat, Ready
<1>3. ASSUME NEW level \in Levels,
             roster' = [roster EXCEPT ![e.teamId][e.steamId] = NewMember(level)]
      PROVE  \A u \in Teams, q \in Players :
               OnRoster(u, q)' <=> OnRoster(u, q) \/ (u = e.teamId /\ q = e.steamId)
  <2>1. NewMember(level) # None
    BY <1>3, RowTypes, NoneFacts
  <2>2. roster \in [Teams -> [Players -> Member \cup {None}]]
    BY StoresTyped DEF StoresOK
  <2>3. QED
    BY <1>2, <1>3, <2>1, <2>2 DEF OnRoster
<1>4. CASE CreateRow(s)
  <2> DEFINE row == [seasonId |-> e.seasonId, formatId |-> e.formatId,
                     status |-> "UNREADY", createdBy |-> e.steamId]
  <2>1. e \in CreateEvent
    BY <1>1, <1>4, WaitingEvent DEF CreateRow
  <2>2. row \in Team /\ row # None /\ row.seasonId = e.seasonId
    BY <2>1, RowTypes, NoneFacts
  <2>3. e \in Events
    <3>1. e \in Events \cup {NoEvent}
      BY DEF TypeInv, TypeOK, FlightTypeOK
    <3>2. e.op = "create-team" /\ NoEvent.op = "none"
      BY <2>1 DEF CreateEvent, NoEvent
    <3>3. QED
      BY <3>1, <3>2
  <2>4. Plays(e.teamId, row.seasonId)
    BY <2>1, <2>2, <2>3 DEF Plays, CreateEvent
  <2>5. teams' = [teams EXCEPT ![e.teamId] = row] /\ teams \in [Teams -> Team \cup {None}]
    BY <1>4, StoresTyped DEF CreateRow, StoresOK
  <2>6. /\ \A u \in Teams \ {e.teamId} : teams'[u] = teams[u]
        /\ teams'[e.teamId] # None /\ Plays(e.teamId, teams'[e.teamId].seasonId)
    BY <1>2, <2>2, <2>4, <2>5
  <2>7. Others(s) /\ pc'[s] = "create@season"
    BY <1>4, HopMoves DEF CreateRow
  <2>8. \A u \in Teams, q \in Players :
          OnRoster(u, q)' <=> OnRoster(u, q) \/ (u = e.teamId /\ q = e.steamId)
    BY <1>3, <1>4, RowTypes DEF CreateRow
  <2>9. TakeStep(s, e.teamId, e.steamId)
    BY <1>1, <1>2, <1>4, <2>6, <2>7, <2>8 DEF TakeStep, CreateRow, Concerns
  <2>10. QED
    BY <1>2, <2>9
<1>5. CASE JoinSeat(s) \/ ApproveSeat(s)
  <2>1. Others(s) /\ pc'[s] \in {"idle", "approve@all"}
    <3>1. CASE JoinSeat(s)
      BY <3>1, FinishMoves DEF JoinSeat
    <3>2. CASE ApproveSeat(s)
      BY <3>2, HopMoves DEF ApproveSeat
    <3>3. QED
      BY <1>5, <3>1, <3>2
  <2>2. UNCHANGED <<teams, playerSeason>>
    BY <1>5 DEF JoinSeat, ApproveSeat
  <2>3. pc[s] \in {"join@team", "approve@team"}
    BY <1>5 DEF JoinSeat, ApproveSeat, Ready
  <2>4. teams[e.teamId] # None /\ Plays(e.teamId, teams[e.teamId].seasonId)
    BY <1>2, <2>3 DEF SeasonInv, FlightSeason
  <2>5. \A u \in Teams, q \in Players :
          OnRoster(u, q)' <=> OnRoster(u, q) \/ (u = e.teamId /\ q = e.steamId)
    BY <1>3, <1>5, RowTypes DEF JoinSeat, ApproveSeat
  <2>6. TakeStep(s, e.teamId, e.steamId)
    BY <1>1, <1>2, <2>1, <2>2, <2>4, <2>5 DEF TakeStep, Concerns
  <2>7. QED
    BY <1>2, <2>6
<1>6. QED
  BY <1>4, <1>5

\* A member leaves; later the slot is freed.
LEMMA LeaveKind ==
  ASSUME TypeInv, NEW s \in Slots, NEW e \in Events, LeaveTeam(s, e)
  PROVE  \E t \in Teams, p \in Players : LeaveStep(s, t, p)
<1>1. e.teamId \in Teams /\ e.steamId \in Players
  BY EventKinds DEF LeaveTeam, MemberOps, MemberEvent
<1>2. /\ Others(s) /\ pc[s] = "idle" /\ pc'[s] = "leave@player" /\ event'[s] = e
      /\ locals'[s] = [seasonId |-> teams[e.teamId].seasonId]
  BY LaunchMoves DEF LeaveTeam
<1>3. \A u \in Teams, q \in Players :
        OnRoster(u, q)' <=> OnRoster(u, q) /\ ~(u = e.teamId /\ q = e.steamId)
  <2>1. roster \in [Teams -> [Players -> Member \cup {None}]]
    BY StoresTyped DEF StoresOK
  <2>2. QED
    BY <1>1, <2>1 DEF LeaveTeam, OnRoster
<1>4. LeaveStep(s, e.teamId, e.steamId)
  BY <1>2, <1>3 DEF LeaveTeam, LeaveStep, Concerns
<1>5. QED
  BY <1>1, <1>4

\* The answer to a leave frees the slot.
LEMMA ReleaseKind ==
  ASSUME TypeInv, NEW s \in Slots, LeaveRelease(s)
  PROVE  \E t \in Teams, p \in Players, n \in Seasons : ReleaseStep(s, t, p, n)
<1>1. "leave@player" \in Labels \cap MemberLabels
  BY DEF Labels, MemberLabels, CreateLabels
<1>2. /\ event[s].teamId \in Teams /\ event[s].steamId \in Players
      /\ locals[s].seasonId \in Seasons
  BY <1>1, WaitingEvent DEF LeaveRelease
<1>3. Others(s) /\ pc'[s] = "idle"
  BY FinishMoves DEF LeaveRelease
<1>4. ReleaseStep(s, event[s].teamId, event[s].steamId, locals[s].seasonId)
  BY <1>3 DEF LeaveRelease, ReleaseStep, Ready, Concerns
<1>5. QED
  BY <1>2, <1>4

\* Writing a field of a member row.
LEMMA FieldKind ==
  ASSUME TypeInv, NEW e \in Events, SetMemberPermission(e) \/ SetMemberPayment(e)
  PROVE  StillStep
<1>1. /\ e.teamId \in Teams /\ e.steamId \in Players
      /\ roster[e.teamId][e.steamId] \in Member
      /\ \E row \in Member : roster' = [roster EXCEPT ![e.teamId][e.steamId] = row]
  BY MemberFieldRow
<1>2. roster \in [Teams -> [Players -> Member \cup {None}]]
  BY StoresTyped DEF StoresOK
<1>3. SameRosters
  BY <1>1, <1>2, NoneFacts DEF SameRosters, OnRoster
<1>4. QED
  BY <1>3 DEF StillStep, SetMemberPermission, SetMemberPayment, flightVars, SameTeams

\* Every step is of one of the kinds.
LEMMA StepKinds == TypeInv /\ SeasonInv /\ [Next]_vars => SeatStep
<1> SUFFICES ASSUME TypeInv, SeasonInv, [Next]_vars PROVE SeatStep
  OBVIOUS
<1>1. ASSUME NEW s \in Slots, NEW e \in Events, Submit(s, e) PROVE SeatStep
  BY <1>1, ReadKind, PendingKind, StatusKind, LeaveKind DEF Submit, SeatStep
<1>2. ASSUME NEW s \in Slots, Resume(s) PROVE SeatStep
  BY <1>2, ClaimKind, TakeKind, PendingKind, StatusKind, ReleaseKind DEF Resume, SeatStep
<1>3. ASSUME NEW e \in Events, SetMemberPermission(e) \/ SetMemberPayment(e) PROVE SeatStep
  BY <1>3, FieldKind DEF SeatStep
<1>4. CASE UNCHANGED vars
  BY <1>4, RostersUnchanged DEF vars, flightVars, storeVars, SeatStep, StillStep, SameTeams
<1>5. QED
  BY <1>1, <1>2, <1>3, <1>4 DEF Next

---------------------------------------------------------------------------
(* The kinds preserve SeasonInv *)

\* The labels about seats are told apart.
LEMMA TravelFacts ==
  /\ TransitLabels \cap SnapshotLabels = {} /\ SeatingLabels \subseteq TransitLabels
  /\ "leave@player" \in TransitLabels \ SeatingLabels
  /\ "idle" \notin TransitLabels \cup SnapshotLabels
  /\ SeatingLabels = {"create@team", "join@team", "approve@team"}
  BY DEF TransitLabels, SeatingLabels, SnapshotLabels

\* A continuation about a seat is about a team and a player.
LEMMA FlightKeys ==
  ASSUME TypeInv, NEW s \in Slots, pc[s] \in TransitLabels \cup SnapshotLabels
  PROVE  event[s].teamId \in Teams /\ event[s].steamId \in Players
<1>1. pc[s] \in CreateLabels \cup MemberLabels
  BY DEF TransitLabels, SeatingLabels, SnapshotLabels, CreateLabels, MemberLabels, Labels
<1>2. event[s] \in CreateEvent \cup MemberEvent
  BY <1>1 DEF TypeInv, Carries
<1>3. QED
  BY <1>2 DEF CreateEvent, MemberEvent

\* No step removes a team, so a continuation that does not move stays right.
LEMMA FlightKept ==
  ASSUME TypeInv, SeasonInv, NEW o \in Slots,
         pc'[o] = pc[o], event'[o] = event[o], locals'[o] = locals[o],
         \A t \in Teams : teams[t] # None => teams'[t] # None
  PROVE  FlightSeason(o)'
<1>1. FlightSeason(o)
  BY DEF SeasonInv
<1>2. pc[o] \in TransitLabels \cup SnapshotLabels => event[o].teamId \in Teams
  BY FlightKeys
<1>3. QED
  BY <1>1, <1>2, TravelFacts DEF FlightSeason, Plays

\* Every kind of step keeps SeasonInv.
LEMMA SeasonStep == TypeInv /\ SeasonInv /\ SeatStep => SeasonInv'
<1> SUFFICES ASSUME TypeInv, SeasonInv, SeatStep PROVE SeasonInv'
  OBVIOUS
<1> DEFINE TeamsKept == \A t \in Teams : teams[t] # None => teams'[t] # None
           Rows == \A t \in Teams : teams'[t] # None => Plays(t, teams'[t].seasonId)
           Members == \A t \in Teams, p \in Players : OnRoster(t, p)' => teams'[t] # None
           Holds == \A t \in Teams, p \in Players, n \in Seasons :
                      playerSeason'[p][n] = t => Plays(t, n)
<1>1. ASSUME TeamsKept, Rows, Members, Holds, \A o \in Slots : FlightSeason(o)'
      PROVE  SeasonInv'
  BY <1>1 DEF SeasonInv, Plays
<1>2. ASSUME NEW s \in Slots, Others(s), TeamsKept
      PROVE  \A o \in Slots \ {s} : FlightSeason(o)'
  BY <1>2, FlightKept DEF Others
<1>3. playerSeason \in [Players -> [Seasons -> Teams \cup {None}]]
  BY StoresTyped DEF StoresOK
<1>4. ASSUME SameTeams, SameRosters, UNCHANGED playerSeason
      PROVE  TeamsKept /\ Rows /\ Members /\ Holds
  <2>1. TeamsKept
    BY <1>4 DEF SameTeams
  <2>2. Rows
    BY <1>4 DEF SameTeams, SeasonInv
  <2>3. Members
    BY <1>4, <2>1 DEF SameRosters, SeasonInv
  <2>4. Holds
    BY <1>4 DEF SeasonInv
  <2>5. QED
    BY <2>1, <2>2, <2>3, <2>4
<1>5. CASE StillStep
  <2>1. TeamsKept /\ Rows /\ Members /\ Holds
    BY <1>4, <1>5 DEF StillStep
  <2>2. \A o \in Slots : FlightSeason(o)'
    BY <1>5, <2>1, FlightKept DEF StillStep
  <2>3. QED
    BY <1>1, <2>1, <2>2
<1>6. ASSUME NEW s \in Slots, QuietStep(s) PROVE SeasonInv'
  <2>1. TeamsKept /\ Rows /\ Members /\ Holds
    BY <1>4, <1>6 DEF QuietStep
  <2>2. FlightSeason(s)'
    <3>1. ASSUME pc'[s] \in SnapshotLabels, locals'[s].team # None
          PROVE  /\ teams'[event'[s].teamId] # None
                 /\ Plays(event'[s].teamId, locals'[s].team.seasonId)
      BY <1>6, <2>1, <3>1 DEF QuietStep, SeasonInv
    <3>2. QED
      BY <1>6, <3>1, TravelFacts DEF QuietStep, FlightSeason, Plays
  <2>3. QED
    BY <1>1, <1>2, <1>6, <2>1, <2>2 DEF QuietStep
<1>7. ASSUME NEW s \in Slots, NEW t \in Teams, NEW p \in Players, NEW n \in Seasons,
             ClaimStep(s, t, p, n)
      PROVE  SeasonInv'
  <2>1. TeamsKept /\ Rows /\ Members
    BY <1>7 DEF ClaimStep, SeasonInv, OnRoster
  <2>2. Holds
    <3>1. ASSUME NEW u \in Teams, NEW q \in Players, NEW m \in Seasons, playerSeason'[q][m] = u
          PROVE  Plays(u, m)
      <4>1. CASE q = p /\ m = n
        BY <1>3, <1>7, <3>1, <4>1 DEF ClaimStep
      <4>2. CASE ~(q = p /\ m = n)
        BY <1>3, <1>7, <3>1, <4>2 DEF ClaimStep, SeasonInv
      <4>3. QED
        BY <4>1, <4>2
    <3>2. QED
      BY <3>1
  <2>3. FlightSeason(s)'
    BY <1>7, TravelFacts DEF ClaimStep, FlightSeason, Concerns
  <2>4. QED
    BY <1>1, <1>2, <1>7, <2>1, <2>2, <2>3 DEF ClaimStep
<1>8. ASSUME NEW s \in Slots, NEW t \in Teams, NEW p \in Players, TakeStep(s, t, p)
      PROVE  SeasonInv'
  <2>1. TeamsKept /\ Rows /\ Holds
    BY <1>8 DEF TakeStep, SeasonInv
  <2>2. Members
    BY <1>8, <2>1 DEF TakeStep, SeasonInv
  <2>3. FlightSeason(s)'
    BY <1>8, TravelFacts DEF TakeStep, FlightSeason
  <2>4. QED
    BY <1>1, <1>2, <1>8, <2>1, <2>2, <2>3 DEF TakeStep
<1>9. ASSUME NEW s \in Slots, NEW t \in Teams, NEW p \in Players, LeaveStep(s, t, p)
      PROVE  SeasonInv'
  <2>1. TeamsKept /\ Rows /\ Members /\ Holds
    BY <1>9 DEF LeaveStep, SeasonInv
  <2>2. Plays(t, teams[t].seasonId)
    BY <1>9 DEF LeaveStep, SeasonInv
  <2>3. FlightSeason(s)'
    BY <1>9, <2>2, TravelFacts DEF LeaveStep, FlightSeason, Concerns, Plays
  <2>4. QED
    BY <1>1, <1>2, <1>9, <2>1, <2>3 DEF LeaveStep
<1>10. ASSUME NEW s \in Slots, NEW t \in Teams, NEW p \in Players, NEW n \in Seasons,
              ReleaseStep(s, t, p, n)
       PROVE  SeasonInv'
  <2>1. TeamsKept /\ Rows /\ Members
    BY <1>10 DEF ReleaseStep, SeasonInv, OnRoster
  <2>2. Holds
    BY <1>3, <1>10, NoneFacts DEF ReleaseStep, SeasonInv
  <2>3. FlightSeason(s)'
    BY <1>10, TravelFacts DEF ReleaseStep, FlightSeason
  <2>4. QED
    BY <1>1, <1>2, <1>10, <2>1, <2>2, <2>3 DEF ReleaseStep
<1>11. QED
  BY <1>5, <1>6, <1>7, <1>8, <1>9, <1>10 DEF SeatStep

---------------------------------------------------------------------------
(* The kinds preserve SeatInv *)

\* What the hypothesis says of a team.
LEMMA OneSeason ==
  ASSUME OneSeasonPerTeam, NEW t, NEW n, NEW m, Plays(t, n), Plays(t, m)
  PROVE  n = m
  BY DEF OneSeasonPerTeam, Plays

\* How the continuations on their way change when only s moves.
LEMMA TravellersKept ==
  ASSUME NEW s \in Slots, Others(s), NEW o \in Slots, o # s, NEW t, NEW p
  PROVE  Traveller(o, t, p)' <=> Traveller(o, t, p)
  BY DEF Others, Traveller, Concerns

\* A step after which every team and player has the same seats as before.
LEMMA SeatInvKept ==
  ASSUME SeatInv, SameRosters, UNCHANGED playerSeason,
         \A o \in Slots, t \in Teams, p \in Players : Traveller(o, t, p)' <=> Traveller(o, t, p)
  PROVE  SeatInv'
  BY DEF SeatInv, SameRosters, HasSlot

\* A claim for (t, p) finds no seat of (t, p): a seat would be in the team's
\* only season, where the slot is free.
LEMMA ClaimFindsNoSeat ==
  ASSUME SeasonInv, OneSeasonPerTeam,
         NEW s \in Slots, NEW t \in Teams, NEW p \in Players, NEW n \in Seasons,
         ClaimStep(s, t, p, n)
  PROVE  ~HasSlot(t, p)
<1>1. ASSUME NEW m \in Seasons, playerSeason[p][m] = t PROVE FALSE
  <2>1. Plays(t, m) /\ Plays(t, n)
    BY <1>1 DEF SeasonInv, ClaimStep
  <2>2. m = n
    BY <2>1, OneSeason
  <2>3. QED
    BY <1>1, <2>2, NoneFacts DEF ClaimStep
<1>2. QED
  BY <1>1 DEF HasSlot

\* A claim adds one slot and the one continuation that goes with it.
LEMMA ClaimSeats ==
  ASSUME TypeInv, SeasonInv, SeatInv, OneSeasonPerTeam,
         NEW s \in Slots, NEW t \in Teams, NEW p \in Players, NEW n \in Seasons,
         ClaimStep(s, t, p, n)
  PROVE  SeatInv'
<1>1. playerSeason \in [Players -> [Seasons -> Teams \cup {None}]]
  BY StoresTyped DEF StoresOK
<1>2. ~HasSlot(t, p)
  BY ClaimFindsNoSeat
<1>3. HasSlot(t, p)'
  BY <1>1 DEF HasSlot, ClaimStep
<1>4. ASSUME NEW u \in Teams, NEW q \in Players, ~(u = t /\ q = p)
      PROVE  HasSlot(u, q)' <=> HasSlot(u, q)
  <2>1. ASSUME NEW m \in Seasons PROVE playerSeason'[q][m] = u <=> playerSeason[q][m] = u
    <3>1. CASE q = p /\ m = n
      BY <1>1, <1>4, <3>1, NoneFacts DEF ClaimStep
    <3>2. CASE ~(q = p /\ m = n)
      BY <1>1, <3>2 DEF ClaimStep
    <3>3. QED
      BY <3>1, <3>2
  <2>2. QED
    BY <2>1 DEF HasSlot
<1>5. \A u \in Teams, q \in Players : OnRoster(u, q)' <=> OnRoster(u, q)
  BY DEF ClaimStep, OnRoster
<1>6. ASSUME NEW o \in Slots, NEW u \in Teams, NEW q \in Players
      PROVE  Traveller(o, u, q)' <=> Traveller(o, u, q) \/ (o = s /\ u = t /\ q = p)
  <2>1. CASE o # s
    BY <2>1, TravellersKept DEF ClaimStep
  <2>2. CASE o = s
    BY <2>2, TravelFacts DEF ClaimStep, Traveller, Concerns
  <2>3. QED
    BY <2>1, <2>2
<1>7. QED
  BY <1>2, <1>3, <1>4, <1>5, <1>6 DEF SeatInv

\* Taking the seat ends the only continuation on its way to it.
LEMMA TakeSeats ==
  ASSUME SeatInv, NEW s \in Slots, NEW t \in Teams, NEW p \in Players, TakeStep(s, t, p)
  PROVE  SeatInv'
<1>1. Traveller(s, t, p) /\ ~OnRoster(t, p)
  BY TravelFacts DEF TakeStep, Traveller, SeatInv
<1>2. \A u \in Teams, q \in Players : HasSlot(u, q)' <=> HasSlot(u, q)
  BY DEF TakeStep, HasSlot
<1>3. \A u \in Teams, q \in Players :
        OnRoster(u, q)' <=> OnRoster(u, q) \/ (u = t /\ q = p)
  BY DEF TakeStep
<1>4. ASSUME NEW o \in Slots, NEW u \in Teams, NEW q \in Players
      PROVE  Traveller(o, u, q)' <=> Traveller(o, u, q) /\ o # s
  <2>1. CASE o # s
    BY <2>1, TravellersKept DEF TakeStep
  <2>2. CASE o = s
    BY <2>2 DEF TakeStep, Traveller
  <2>3. QED
    BY <2>1, <2>2
<1>5. \A u \in Teams, q \in Players : Traveller(s, u, q) => u = t /\ q = p
  BY <1>1 DEF Traveller, Concerns
<1>6. QED
  BY <1>1, <1>2, <1>3, <1>4, <1>5 DEF SeatInv

\* Leaving sends one continuation to free the slot.
LEMMA LeaveSeats ==
  ASSUME SeatInv, NEW s \in Slots, NEW t \in Teams, NEW p \in Players, LeaveStep(s, t, p)
  PROVE  SeatInv'
<1>1. \A u \in Teams, q \in Players : HasSlot(u, q)' <=> HasSlot(u, q)
  BY DEF LeaveStep, HasSlot
<1>2. \A u \in Teams, q \in Players :
        OnRoster(u, q)' <=> OnRoster(u, q) /\ ~(u = t /\ q = p)
  BY DEF LeaveStep
<1>3. OnRoster(t, p)
  BY DEF LeaveStep
<1>4. ASSUME NEW o \in Slots, NEW u \in Teams, NEW q \in Players
      PROVE  Traveller(o, u, q)' <=> Traveller(o, u, q) \/ (o = s /\ u = t /\ q = p)
  <2>1. CASE o # s
    BY <2>1, TravellersKept DEF LeaveStep
  <2>2. CASE o = s
    BY <2>2, TravelFacts DEF LeaveStep, Traveller, Concerns
  <2>3. QED
    BY <2>1, <2>2
<1>5. QED
  BY <1>1, <1>2, <1>3, <1>4 DEF SeatInv

\* The slot that is freed is the one of the seat given up, because the
\* continuation carries the team's only season.
LEMMA ReleaseSeats ==
  ASSUME TypeInv, SeasonInv, SeatInv, OneSeasonPerTeam,
         NEW s \in Slots, NEW t \in Teams, NEW p \in Players, NEW n \in Seasons,
         ReleaseStep(s, t, p, n)
  PROVE  SeatInv'
<1>1. playerSeason \in [Players -> [Seasons -> Teams \cup {None}]]
  BY StoresTyped DEF StoresOK
<1>2. Traveller(s, t, p) /\ ~OnRoster(t, p) /\ HasSlot(t, p)
  BY TravelFacts DEF ReleaseStep, Traveller, SeatInv
<1>3. \A m \in Seasons : playerSeason[p][m] = t => m = n
  <2>1. Plays(t, n)
    BY DEF ReleaseStep, SeasonInv, FlightSeason, Concerns
  <2>2. \A m \in Seasons : playerSeason[p][m] = t => Plays(t, m)
    BY DEF SeasonInv
  <2>3. QED
    BY <2>1, <2>2, OneSeason
<1>4. playerSeason[p][n] = t
  BY <1>2, <1>3 DEF HasSlot
<1>5. ~HasSlot(t, p)'
  BY <1>1, <1>3, NoneFacts DEF HasSlot, ReleaseStep
<1>6. ASSUME NEW u \in Teams, NEW q \in Players, ~(u = t /\ q = p)
      PROVE  HasSlot(u, q)' <=> HasSlot(u, q)
  <2>1. ASSUME NEW m \in Seasons PROVE playerSeason'[q][m] = u <=> playerSeason[q][m] = u
    <3>1. CASE q = p /\ m = n
      BY <1>1, <1>4, <1>6, <3>1, NoneFacts DEF ReleaseStep
    <3>2. CASE ~(q = p /\ m = n)
      BY <1>1, <3>2 DEF ReleaseStep
    <3>3. QED
      BY <3>1, <3>2
  <2>2. QED
    BY <2>1 DEF HasSlot
<1>7. \A u \in Teams, q \in Players : OnRoster(u, q)' <=> OnRoster(u, q)
  BY DEF ReleaseStep, OnRoster
<1>8. ASSUME NEW o \in Slots, NEW u \in Teams, NEW q \in Players
      PROVE  Traveller(o, u, q)' <=> Traveller(o, u, q) /\ o # s
  <2>1. CASE o # s
    BY <2>1, TravellersKept DEF ReleaseStep
  <2>2. CASE o = s
    BY <2>2, TravelFacts DEF ReleaseStep, Traveller
  <2>3. QED
    BY <2>1, <2>2
<1>9. \A u \in Teams, q \in Players : Traveller(s, u, q) => u = t /\ q = p
  BY <1>2 DEF Traveller, Concerns
<1>10. QED
  BY <1>2, <1>5, <1>6, <1>7, <1>8, <1>9 DEF SeatInv

\* Steps that bring no seat.
LEMMA OtherSeats ==
  ASSUME SeatInv, StillStep \/ \E s \in Slots : QuietStep(s)
  PROVE  SeatInv'
<1>1. CASE StillStep
  <2>1. \A o \in Slots, t \in Teams, p \in Players : Traveller(o, t, p)' <=> Traveller(o, t, p)
    BY <1>1 DEF StillStep, Traveller, Concerns
  <2>2. QED
    BY <1>1, <2>1, SeatInvKept DEF StillStep
<1>2. ASSUME NEW s \in Slots, QuietStep(s) PROVE SeatInv'
  <2>1. ASSUME NEW o \in Slots, NEW t \in Teams, NEW p \in Players
        PROVE  Traveller(o, t, p)' <=> Traveller(o, t, p)
    <3>1. CASE o # s
      BY <1>2, <3>1, TravellersKept DEF QuietStep
    <3>2. CASE o = s
      BY <1>2, <3>2 DEF QuietStep, Traveller
    <3>3. QED
      BY <3>1, <3>2
  <2>2. QED
    BY <1>2, <2>1, SeatInvKept DEF QuietStep
<1>3. QED
  BY <1>1, <1>2

---------------------------------------------------------------------------
(* The theorems *)

SafeSeats == TypeInv /\ SeasonInv /\ SeatInv

\* The invariant holds at the start.
LEMMA SeatsAtStart == Init => SafeSeats
<1> SUFFICES ASSUME Init PROVE SafeSeats
  OBVIOUS
<1>1. TypeInv
  BY TypeAtStart
<1>2. \A s \in Slots : pc[s] = "idle"
  BY DEF Init, FlightInit
<1>3. SeasonInv
  BY <1>2, TravelFacts, NoneFacts DEF Init, SeasonInv, FlightSeason, OnRoster
<1>4. SeatInv
  BY <1>2, TravelFacts, NoneFacts DEF Init, SeatInv, HasSlot, OnRoster, Traveller
<1>5. QED
  BY <1>1, <1>3, <1>4 DEF SafeSeats

\* Every step keeps the invariant.
LEMMA SeatsStep == OneSeasonPerTeam /\ SafeSeats /\ [Next]_vars => SafeSeats'
<1> SUFFICES ASSUME OneSeasonPerTeam, SafeSeats, [Next]_vars PROVE SafeSeats'
  OBVIOUS
<1>1. TypeInv /\ SeasonInv /\ SeatInv
  BY DEF SafeSeats
<1>2. SeatStep
  BY <1>1, StepKinds
<1>3. TypeInv' /\ SeasonInv'
  BY <1>1, <1>2, TypeStep, SeasonStep
<1>4. SeatInv'
  BY <1>1, <1>2, ClaimSeats, TakeSeats, LeaveSeats, ReleaseSeats, OtherSeats DEF SeatStep
<1>5. QED
  BY <1>3, <1>4 DEF SafeSeats

\* A roster row and the season slot behind it never drift apart, in any
\* interleaving of the ops of teams_module.rama, as long as the creates of a
\* team id agree on its season.
THEOREM SeatsNeverDrift == ASSUME OneSeasonPerTeam PROVE Spec => []SlotMatchesRoster
<1>1. SafeSeats => SlotMatchesRoster
  BY SeatInvIsSlotMatchesRoster DEF SafeSeats
<1>2. SafeSeats /\ [Next]_vars => SafeSeats'
  BY SeatsStep
<1>3. QED
  BY <1>1, <1>2, SeatsAtStart, PTL DEF Spec

\* README "season uniqueness": no interleaving puts a player on the rosters
\* of two teams of one season.
THEOREM OneTeamPerSeason == ASSUME OneSeasonPerTeam PROVE Spec => []SeasonUniqueness
<1>1. SafeSeats => SeasonUniqueness
  <2> SUFFICES ASSUME SafeSeats, NEW p \in Players, NEW t \in Teams, NEW u \in Teams,
                      OnRoster(t, p), OnRoster(u, p), teams[t].seasonId = teams[u].seasonId
               PROVE  t = u
    BY DEF SeasonUniqueness
  <2> DEFINE n == teams[t].seasonId
  <2>1. ASSUME NEW v \in {t, u} PROVE playerSeason[p][n] = v
    <3>1. Plays(v, n)
      BY DEF SafeSeats, SeasonInv
    <3>2. PICK m \in Seasons : playerSeason[p][m] = v
      BY DEF SafeSeats, SeatInv, HasSlot
    <3>3. m = n
      BY <3>1, <3>2, OneSeason DEF SafeSeats, SeasonInv
    <3>4. QED
      BY <3>2, <3>3
  <2>2. QED
    BY <2>1
<1>2. SafeSeats /\ [Next]_vars => SafeSeats'
  BY SeatsStep
<1>3. QED
  BY <1>1, <1>2, SeatsAtStart, PTL DEF Spec

---------------------------------------------------------------------------
(* The view, seat by seat *)

Phase(t, p) ==
  IF OnRoster(t, p) THEN "taken"
  ELSE IF \E s \in Slots : Seating(s, t, p) THEN "claimed" ELSE "leaving"

Cell(p, n) ==
  IF playerSeason[p][n] = None THEN Seats!Free
  ELSE Seats!SeatOf(playerSeason[p][n], Phase(playerSeason[p][n], p))

\* The view is made of cells, before and after a step.
LEMMA ViewByCells ==
  /\ seatView = [p \in Players |-> [n \in Seasons |-> Cell(p, n)]]
  /\ seatView' = [p \in Players |-> [n \in Seasons |-> Cell(p, n)']]
  BY DEF seatView, Cell, Phase, Seats!Free, Seats!SeatOf

\* No seat changes: a stuttering step of the registry.
LEMMA NoCellMoves ==
  ASSUME \A p \in Players, n \in Seasons : Cell(p, n)' = Cell(p, n)
  PROVE  UNCHANGED seatView
  BY ViewByCells

\* One seat changes: a move of the registry.
LEMMA OneCellMoves ==
  ASSUME NEW p \in Players, NEW n \in Seasons, NEW before, NEW after,
         Cell(p, n) = before, Cell(p, n)' = after,
         \A q \in Players, m \in Seasons : ~(q = p /\ m = n) => Cell(q, m)' = Cell(q, m)
  PROVE  Seats!Move(p, n, before, after)
<1>1. seatView[p][n] = before
  BY ViewByCells
<1>2. seatView' = [seatView EXCEPT ![p][n] = after]
  BY ViewByCells
<1>3. QED
  BY <1>1, <1>2 DEF Seats!Move

\* Who is on the way to the roster, before and after a step.
LEMMA SeatingIsTravelling ==
  ASSUME NEW s \in Slots, NEW t, NEW p
  PROVE  /\ Seating(s, t, p) <=> pc[s] \in SeatingLabels /\ Concerns(s, t, p)
         /\ Seating(s, t, p)' <=> pc'[s] \in SeatingLabels /\ Concerns(s, t, p)'
  BY DEF Seating, SeatingLabels

\* The phase of a seat that the moving continuation does not concern.
LEMMA PhaseKept ==
  ASSUME NEW s \in Slots, Others(s), NEW t, NEW p, OnRoster(t, p)' <=> OnRoster(t, p),
         Seating(s, t, p)' <=> Seating(s, t, p)
  PROVE  Phase(t, p)' = Phase(t, p)
<1>1. \A o \in Slots : Seating(o, t, p)' <=> Seating(o, t, p)
  BY SeatingIsTravelling DEF Others, Concerns
<1>2. QED
  BY <1>1 DEF Phase

\* A player holds one slot for a team.
LEMMA OneSlot ==
  ASSUME SeasonInv, OneSeasonPerTeam, NEW t \in Teams, NEW p \in Players,
         NEW n \in Seasons, NEW m \in Seasons, playerSeason[p][n] = t, playerSeason[p][m] = t
  PROVE  n = m
  BY OneSeason DEF SeasonInv

---------------------------------------------------------------------------
(* The kinds of steps are steps of the registry *)

\* A step that brings no seat.
LEMMA OtherIsStutter ==
  ASSUME TypeInv, StillStep \/ \E s \in Slots : QuietStep(s)
  PROVE  UNCHANGED seatView
<1>1. playerSeason \in [Players -> [Seasons -> Teams \cup {None}]]
  BY StoresTyped DEF StoresOK
<1>2. \A t \in Teams, p \in Players : Phase(t, p)' = Phase(t, p)
  <2>1. CASE StillStep
    BY <2>1 DEF StillStep, SameRosters, Phase, Seating, Concerns
  <2>2. ASSUME NEW s \in Slots, QuietStep(s), NEW t \in Teams, NEW p \in Players
        PROVE  Phase(t, p)' = Phase(t, p)
    BY <2>2, PhaseKept, SeatingIsTravelling, TravelFacts DEF QuietStep, SameRosters
  <2>3. QED
    BY <2>1, <2>2
<1>3. UNCHANGED playerSeason
  BY DEF StillStep, QuietStep
<1>4. \A p \in Players, n \in Seasons : Cell(p, n)' = Cell(p, n)
  BY <1>1, <1>2, <1>3 DEF Cell
<1>5. QED
  BY <1>4, NoCellMoves

\* Create, join or approve claims a free seat.
LEMMA ClaimIsClaim ==
  ASSUME SafeSeats, SafeSeats', OneSeasonPerTeam,
         NEW s \in Slots, NEW t \in Teams, NEW p \in Players, NEW n \in Seasons,
         ClaimStep(s, t, p, n)
  PROVE  Seats!Claim(p, n, t)
<1>1. playerSeason \in [Players -> [Seasons -> Teams \cup {None}]]
  BY StoresTyped DEF StoresOK, SafeSeats
<1>2. ~HasSlot(t, p)
  BY ClaimFindsNoSeat DEF SafeSeats
<1>3. Cell(p, n) = Seats!Free
  BY DEF ClaimStep, Cell
<1>4. Seating(s, t, p)' /\ ~OnRoster(t, p)'
  <2>1. Seating(s, t, p)'
    BY SeatingIsTravelling DEF ClaimStep, Concerns
  <2>2. Traveller(s, t, p)'
    BY <2>1 DEF Traveller, Seating, TransitLabels, SeatingLabels
  <2>3. QED
    BY <2>1, <2>2 DEF SafeSeats, SeatInv
<1>5. Cell(p, n)' = Seats!SeatOf(t, "claimed")
  <2>1. playerSeason'[p][n] = t
    BY <1>1 DEF ClaimStep
  <2>2. Phase(t, p)' = "claimed"
    BY <1>4 DEF Phase
  <2>3. QED
    BY <2>1, <2>2, NoneFacts DEF Cell
<1>6. ASSUME NEW q \in Players, NEW m \in Seasons, ~(q = p /\ m = n)
      PROVE  Cell(q, m)' = Cell(q, m)
  <2>1. PICK u \in Teams \cup {None} : u = playerSeason[q][m]
    BY <1>1
  <2>2. playerSeason'[q][m] = u
    BY <1>1, <1>6, <2>1 DEF ClaimStep
  <2>3. ~(u = t /\ q = p)
    BY <1>2, <2>1 DEF HasSlot
  <2>4. Seating(s, u, q)' <=> Seating(s, u, q)
    BY <2>3, SeatingIsTravelling, TravelFacts DEF ClaimStep, Concerns
  <2>5. OnRoster(u, q)' <=> OnRoster(u, q)
    BY DEF ClaimStep, OnRoster
  <2>6. Phase(u, q)' = Phase(u, q)
    BY <2>4, <2>5, PhaseKept DEF ClaimStep
  <2>7. QED
    BY <2>1, <2>2, <2>6 DEF Cell
<1>7. QED
  BY <1>3, <1>5, <1>6, OneCellMoves DEF Seats!Claim

\* The roster row is written.
LEMMA TakeIsTake ==
  ASSUME SafeSeats, OneSeasonPerTeam,
         NEW s \in Slots, NEW t \in Teams, NEW p \in Players, TakeStep(s, t, p)
  PROVE  \E n \in Seasons : Seats!Take(p, n, t)
<1>1. playerSeason \in [Players -> [Seasons -> Teams \cup {None}]]
  BY StoresTyped DEF StoresOK, SafeSeats
<1>2. Seating(s, t, p) /\ Traveller(s, t, p)
  BY SeatingIsTravelling, TravelFacts DEF TakeStep, Traveller
<1>3. ~OnRoster(t, p) /\ HasSlot(t, p)
  BY <1>2 DEF SafeSeats, SeatInv
<1>4. PICK n \in Seasons : playerSeason[p][n] = t
  BY <1>3 DEF HasSlot
<1>5. Cell(p, n) = Seats!SeatOf(t, "claimed")
  BY <1>2, <1>3, <1>4, NoneFacts DEF Cell, Phase
<1>6. Cell(p, n)' = Seats!SeatOf(t, "taken")
  <2>1. Phase(t, p)' = "taken"
    BY DEF TakeStep, Phase
  <2>2. QED
    BY <1>4, <2>1, NoneFacts DEF TakeStep, Cell
<1>7. ASSUME NEW q \in Players, NEW m \in Seasons, ~(q = p /\ m = n)
      PROVE  Cell(q, m)' = Cell(q, m)
  <2>1. PICK u \in Teams \cup {None} : u = playerSeason[q][m]
    BY <1>1
  <2>2. ASSUME u # None PROVE Phase(u, q)' = Phase(u, q)
    <3>1. u \in Teams /\ ~(u = t /\ q = p)
      BY <1>4, <1>7, <2>1, <2>2, OneSlot DEF SafeSeats
    <3>2. Seating(s, u, q)' <=> Seating(s, u, q)
      BY <3>1, SeatingIsTravelling, TravelFacts DEF TakeStep, Concerns
    <3>3. OnRoster(u, q)' <=> OnRoster(u, q)
      BY <3>1 DEF TakeStep
    <3>4. QED
      BY <3>2, <3>3, PhaseKept DEF TakeStep
  <2>3. QED
    BY <2>1, <2>2 DEF TakeStep, Cell
<1>8. Seats!Take(p, n, t)
  BY <1>5, <1>6, <1>7, OneCellMoves DEF Seats!Take
<1>9. QED
  BY <1>8

\* The roster row is removed.
LEMMA LeaveIsLeave ==
  ASSUME SafeSeats, OneSeasonPerTeam,
         NEW s \in Slots, NEW t \in Teams, NEW p \in Players, LeaveStep(s, t, p)
  PROVE  \E n \in Seasons : Seats!Leave(p, n, t)
<1>1. playerSeason \in [Players -> [Seasons -> Teams \cup {None}]]
  BY StoresTyped DEF StoresOK, SafeSeats
<1>2. OnRoster(t, p) /\ HasSlot(t, p) /\ \A o \in Slots : ~Traveller(o, t, p)
  BY DEF LeaveStep, SafeSeats, SeatInv
<1>3. PICK n \in Seasons : playerSeason[p][n] = t
  BY <1>2 DEF HasSlot
<1>4. Cell(p, n) = Seats!SeatOf(t, "taken")
  BY <1>2, <1>3, NoneFacts DEF Cell, Phase
<1>5. Cell(p, n)' = Seats!SeatOf(t, "leaving")
  <2>1. \A o \in Slots : ~Seating(o, t, p)'
    <3>1. ASSUME NEW o \in Slots, o # s PROVE ~Seating(o, t, p)'
      BY <1>2, <3>1, SeatingIsTravelling, TravelFacts DEF LeaveStep, Others, Concerns, Traveller
    <3>2. ~Seating(s, t, p)'
      BY SeatingIsTravelling, TravelFacts DEF LeaveStep
    <3>3. QED
      BY <3>1, <3>2
  <2>2. ~OnRoster(t, p)'
    BY DEF LeaveStep
  <2>3. Phase(t, p)' = "leaving"
    BY <2>1, <2>2 DEF Phase
  <2>4. QED
    BY <1>3, <2>3, NoneFacts DEF LeaveStep, Cell
<1>6. ASSUME NEW q \in Players, NEW m \in Seasons, ~(q = p /\ m = n)
      PROVE  Cell(q, m)' = Cell(q, m)
  <2>1. PICK u \in Teams \cup {None} : u = playerSeason[q][m]
    BY <1>1
  <2>2. ASSUME u # None PROVE Phase(u, q)' = Phase(u, q)
    <3>1. u \in Teams /\ ~(u = t /\ q = p)
      BY <1>3, <1>6, <2>1, <2>2, OneSlot DEF SafeSeats
    <3>2. Seating(s, u, q)' <=> Seating(s, u, q)
      BY SeatingIsTravelling, TravelFacts DEF LeaveStep
    <3>3. OnRoster(u, q)' <=> OnRoster(u, q)
      BY <3>1 DEF LeaveStep
    <3>4. QED
      BY <3>2, <3>3, PhaseKept DEF LeaveStep
  <2>3. QED
    BY <2>1, <2>2 DEF LeaveStep, Cell
<1>7. Seats!Leave(p, n, t)
  BY <1>4, <1>5, <1>6, OneCellMoves DEF Seats!Leave
<1>8. QED
  BY <1>7

\* The slot is freed.
LEMMA ReleaseIsRelease ==
  ASSUME SafeSeats, OneSeasonPerTeam,
         NEW s \in Slots, NEW t \in Teams, NEW p \in Players, NEW n \in Seasons,
         ReleaseStep(s, t, p, n)
  PROVE  Seats!Release(p, n, t)
<1>1. playerSeason \in [Players -> [Seasons -> Teams \cup {None}]]
  BY StoresTyped DEF StoresOK, SafeSeats
<1>2. Traveller(s, t, p)
  BY TravelFacts DEF ReleaseStep, Traveller
<1>3. ~OnRoster(t, p) /\ HasSlot(t, p) /\ \A o \in Slots : Traveller(o, t, p) => o = s
  BY <1>2 DEF SafeSeats, SeatInv
<1>4. playerSeason[p][n] = t
  <2>1. PICK m \in Seasons : playerSeason[p][m] = t
    BY <1>3 DEF HasSlot
  <2>2. Plays(t, m) /\ Plays(t, n)
    BY <2>1 DEF SafeSeats, SeasonInv, ReleaseStep, FlightSeason, Concerns
  <2>3. QED
    BY <2>1, <2>2, OneSeason
<1>5. Cell(p, n) = Seats!SeatOf(t, "leaving")
  <2>1. \A o \in Slots : ~Seating(o, t, p)
    BY <1>3, SeatingIsTravelling, TravelFacts DEF ReleaseStep, Traveller
  <2>2. QED
    BY <1>3, <1>4, <2>1, NoneFacts DEF Cell, Phase
<1>6. Cell(p, n)' = Seats!Free
  BY <1>1 DEF ReleaseStep, Cell
<1>7. ASSUME NEW q \in Players, NEW m \in Seasons, ~(q = p /\ m = n)
      PROVE  Cell(q, m)' = Cell(q, m)
  <2>1. PICK u \in Teams \cup {None} : u = playerSeason[q][m]
    BY <1>1
  <2>2. playerSeason'[q][m] = u
    BY <1>1, <1>7, <2>1 DEF ReleaseStep
  <2>3. Seating(s, u, q)' <=> Seating(s, u, q)
    BY SeatingIsTravelling, TravelFacts DEF ReleaseStep
  <2>4. OnRoster(u, q)' <=> OnRoster(u, q)
    BY DEF ReleaseStep, OnRoster
  <2>5. Phase(u, q)' = Phase(u, q)
    BY <2>3, <2>4, PhaseKept DEF ReleaseStep
  <2>6. QED
    BY <2>1, <2>2, <2>5 DEF Cell
<1>8. QED
  BY <1>5, <1>6, <1>7, OneCellMoves DEF Seats!Release

\* Every step of the module is a step of the registry or a stutter.
LEMMA SeatsSimulated ==
  ASSUME OneSeasonPerTeam, SafeSeats, [Next]_vars
  PROVE  [Seats!Next]_seatView
<1>1. SafeSeats' /\ SeatStep
  BY SeatsStep, StepKinds DEF SafeSeats
<1>2. CASE StillStep \/ \E s \in Slots : QuietStep(s)
  BY <1>2, OtherIsStutter DEF SafeSeats
<1>3. ASSUME NEW s \in Slots, NEW t \in Teams, NEW p \in Players,
             TakeStep(s, t, p) \/ LeaveStep(s, t, p)
      PROVE  Seats!Next
  BY <1>3, TakeIsTake, LeaveIsLeave DEF Seats!Next
<1>4. ASSUME NEW s \in Slots, NEW t \in Teams, NEW p \in Players, NEW n \in Seasons,
             ClaimStep(s, t, p, n) \/ ReleaseStep(s, t, p, n)
      PROVE  Seats!Next
  BY <1>1, <1>4, ClaimIsClaim, ReleaseIsRelease DEF Seats!Next
<1>5. QED
  BY <1>1, <1>2, <1>3, <1>4 DEF SeatStep

\* All seats are free at the start.
LEMMA SeatsSimulatedAtStart == Init => Seats!Init
<1> SUFFICES ASSUME Init PROVE Seats!Init
  OBVIOUS
<1>1. \A p \in Players, n \in Seasons : Cell(p, n) = Seats!Free
  BY DEF Init, Cell
<1>2. QED
  BY <1>1, ViewByCells DEF Seats!Init

\* The ops of teams_module.rama, interleaved segment by segment, are the seat
\* registry: a seat is claimed, taken, given up and freed in that order, and
\* never passes from one team to another directly.
THEOREM TeamsImplementSeats == ASSUME OneSeasonPerTeam PROVE Spec => ImplementsSeats
<1>1. SafeSeats /\ [Next]_vars => SafeSeats'
  BY SeatsStep
<1>2. SafeSeats /\ [Next]_vars => [Seats!Next]_seatView
  BY SeatsSimulated
<1>3. QED
  BY <1>1, <1>2, SeatsAtStart, SeatsSimulatedAtStart, PTL DEF Spec, ImplementsSeats, Seats!Spec

---------------------------------------------------------------------------
(* Queues: what follows one link arrives in the order in which it left. *)

LEMMA LaunchJoins ==
  ASSUME TypeInv, NEW s \in Slots, NEW e, NEW key, NEW dest, NEW label, NEW mem,
         Launch(s, e, key, dest, label, mem)
  PROVE  /\ Aside(s) /\ Joins(s, <<TaskOf[key], TaskOf[dest]>>)
         /\ pc[s] = "idle" /\ pc'[s] = label /\ event'[s] = e /\ locals'[s] = mem
  BY DEF TypeInv, TypeOK, FlightTypeOK, Launch, Enqueue, Aside, Joins, Idle

LEMMA HopJoins ==
  ASSUME TypeInv, NEW s \in Slots, NEW dest, NEW label, NEW mem, Hop(s, dest, label, mem),
         NEW k, k = via[s][2]
  PROVE  /\ Aside(s) /\ Joins(s, <<k, TaskOf[dest]>>)
         /\ pc'[s] = label /\ event'[s] = event[s] /\ locals'[s] = mem
  BY DEF TypeInv, TypeOK, FlightTypeOK, Hop, Enqueue, Aside, Joins

LEMMA FinishLeaves ==
  ASSUME TypeInv, NEW s \in Slots, Finish(s)
  PROVE  Aside(s) /\ pc'[s] = "idle" /\ event'[s] = NoEvent
  BY DEF TypeInv, TypeOK, FlightTypeOK, Finish, Aside

---------------------------------------------------------------------------
(* The status index: every write of it comes over the link from the team's *)
(* task to its season's, so the last write on the link has the last word.  *)

WriteLabels == {"create@season", "status@season"}
Writers(t) == {s \in Slots : pc[s] \in WriteLabels /\ event[s].teamId = t}

\* What a writer brings, and where.
Carried(s) == IF pc[s] = "create@season" THEN "UNREADY" ELSE event[s].status
SeasonOf(s) == IF pc[s] = "create@season" THEN event[s].seasonId ELSE locals[s].seasonId

WriterOK(s, t) ==
  /\ teams[t] # None /\ SeasonOf(s) = teams[t].seasonId
  /\ via[s] = <<TaskOf[t], TaskOf[teams[t].seasonId]>>
  /\ IsLast(s, Writers(t)) => Carried(s) = teams[t].status

StatusQueue(t) ==
  /\ Ordered(Writers(t)) /\ \A s \in Writers(t) : WriterOK(s, t)
  /\ teams[t] # None /\ Writers(t) = {} => teamIdsBySeason[teams[t].seasonId][t] = teams[t].status

OnTeamsTask(s) == pc[s] = "create@team" => via[s][2] = TaskOf[event[s].teamId]

StatusInv == (\A s \in Slots : OnTeamsTask(s)) /\ \A t \in Teams : StatusQueue(t)

LEMMA OthersOnTask ==
  ASSUME NEW s \in Slots, Aside(s), \A o \in Slots : OnTeamsTask(o), OnTeamsTask(s)'
  PROVE  \A o \in Slots : OnTeamsTask(o)'
<1>1. ASSUME NEW o \in Slots \ {s} PROVE OnTeamsTask(o)'
  <2>1. OnTeamsTask(o)
    OBVIOUS
  <2>2. QED
    BY <2>1 DEF Aside, OnTeamsTask
<1>2. QED
  BY <1>1

\* A step that is not about the status of t.
LEMMA StatusKept ==
  ASSUME NEW s \in Slots, NEW t \in Teams, Aside(s), StatusQueue(t),
         s \notin Writers(t), s \notin Writers(t)', teams'[t] = teams[t],
         \A n : teamIdsBySeason'[n][t] = teamIdsBySeason[n][t]
  PROVE  StatusQueue(t)'
<1>1. PICK W : W = Writers(t)
  OBVIOUS
<1>2. Writers(t)' = W /\ W \subseteq Slots \ {s}
  BY <1>1 DEF Writers, Aside
<1>3. Ordered(W)' /\ \A w \in W : IsLast(w, W)' => IsLast(w, W)
  BY <1>1, <1>2, QueueKept DEF StatusQueue
<1>4. ASSUME NEW w \in W PROVE WriterOK(w, t)'
  <2>1. WriterOK(w, t)
    BY <1>1, <1>4 DEF StatusQueue
  <2>2. Carried(w)' = Carried(w) /\ SeasonOf(w)' = SeasonOf(w) /\ via'[w] = via[w]
    BY <1>2 DEF Aside, Carried, SeasonOf
  <2>3. IsLast(w, Writers(t))' => IsLast(w, Writers(t))
    BY <1>1, <1>2, <1>3 DEF IsLast
  <2>4. QED
    BY <2>1, <2>2, <2>3 DEF WriterOK
<1>5. Ordered(Writers(t))'
  BY <1>2, <1>3 DEF Ordered
<1>6. QED
  BY <1>1, <1>2, <1>4, <1>5 DEF StatusQueue

\* A new status and the write of the index that goes with it.
LEMMA StatusStarts ==
  ASSUME NEW s \in Slots, NEW t \in Teams, NEW n, NEW st, StatusQueue(t),
         Aside(s), Joins(s, <<TaskOf[t], TaskOf[n]>>),
         s \notin Writers(t), s \in Writers(t)', SeasonOf(s)' = n, Carried(s)' = st,
         teams[t] # None => teams[t].seasonId = n,
         teams'[t] # None /\ teams'[t].seasonId = n /\ teams'[t].status = st
  PROVE  StatusQueue(t)'
<1>1. PICK W : W = Writers(t)
  OBVIOUS
<1>2. Writers(t)' = W \cup {s} /\ W \subseteq Slots \ {s}
  BY <1>1 DEF Writers, Aside
<1>3. \A w \in W : WriterOK(w, t)
  BY <1>1 DEF StatusQueue
<1>4. Ordered(W \cup {s})' /\ \A w \in W : ~IsLast(w, W \cup {s})'
  <2>1. PICK link : link = <<TaskOf[t], TaskOf[n]>>
    OBVIOUS
  <2>2. \A w \in W : via[w] = link
    BY <1>3, <2>1 DEF WriterOK
  <2>3. Joins(s, link)
    BY <2>1
  <2>4. QED
    BY <1>1, <1>2, <2>2, <2>3, QueueJoin DEF StatusQueue
<1>5. ASSUME NEW w \in W PROVE WriterOK(w, t)'
  <2>1. SeasonOf(w)' = SeasonOf(w) /\ via'[w] = via[w]
    BY <1>2 DEF Aside, SeasonOf
  <2>2. ~IsLast(w, Writers(t))'
    BY <1>2, <1>4 DEF IsLast
  <2>3. QED
    BY <1>3, <2>1, <2>2 DEF WriterOK
<1>6. WriterOK(s, t)'
  BY DEF WriterOK, Joins
<1>7. Ordered(Writers(t))'
  BY <1>2, <1>4 DEF Ordered
<1>8. QED
  BY <1>2, <1>5, <1>6, <1>7 DEF StatusQueue

\* The write of the index.
LEMMA StatusEnds ==
  ASSUME NEW s \in Slots, NEW t \in Teams, StatusQueue(t), s \in Writers(t),
         Aside(s), ahead[s] = {}, pc'[s] = "idle", teams' = teams,
         Writers(t) = {s} => teamIdsBySeason'[SeasonOf(s)][t] = Carried(s)
  PROVE  StatusQueue(t)'
<1>1. PICK W : W = Writers(t)
  OBVIOUS
<1>2. Writers(t)' = W \ {s} /\ W \subseteq Slots
  BY <1>1 DEF Writers, Aside, WriteLabels
<1>3. \A w \in W : WriterOK(w, t)
  BY <1>1 DEF StatusQueue
<1>4. Ordered(W \ {s})' /\ \A w \in W \ {s} : IsLast(w, W \ {s})' => IsLast(w, W)
  BY <1>1, <1>2, QueueLeave DEF StatusQueue
<1>5. ASSUME NEW w \in W \ {s} PROVE WriterOK(w, t)'
  <2>1. Carried(w)' = Carried(w) /\ SeasonOf(w)' = SeasonOf(w) /\ via'[w] = via[w]
    BY <1>2 DEF Aside, Carried, SeasonOf
  <2>2. IsLast(w, Writers(t))' => IsLast(w, Writers(t))
    BY <1>1, <1>2, <1>4 DEF IsLast
  <2>3. QED
    BY <1>3, <2>1, <2>2 DEF WriterOK
<1>6. ASSUME Writers(t)' = {} PROVE teamIdsBySeason'[teams[t].seasonId][t] = teams[t].status
  <2>1. Writers(t) = {s}
    BY <1>1, <1>2, <1>6
  <2>2. IsLast(s, Writers(t)) /\ WriterOK(s, t)
    BY <1>1, <1>3, <2>1 DEF IsLast
  <2>3. QED
    BY <2>1, <2>2 DEF WriterOK
<1>7. Ordered(Writers(t))'
  BY <1>2, <1>4 DEF Ordered
<1>8. QED
  BY <1>2, <1>5, <1>6, <1>7 DEF StatusQueue

\* A step that is about no status at all.
LEMMA StatusRests ==
  ASSUME StatusInv, NEW s \in Slots, Aside(s), UNCHANGED <<teams, teamIdsBySeason>>,
         pc[s] \notin WriteLabels, pc'[s] \notin WriteLabels, OnTeamsTask(s)'
  PROVE  StatusInv'
<1>1. \A t \in Teams : s \notin Writers(t) /\ s \notin Writers(t)'
  BY DEF Writers
<1>2. \A t \in Teams : StatusQueue(t)'
  BY <1>1, StatusKept DEF StatusInv
<1>3. QED
  BY <1>2, OthersOnTask DEF StatusInv

LEMMA StatusOnHop ==
  ASSUME TypeInv, StatusInv, NEW s \in Slots, NEW dest, NEW label, Hop(s, dest, label, NoLocals),
         UNCHANGED <<teams, teamIdsBySeason>>, pc[s] \notin WriteLabels, label \notin WriteLabels,
         label = "create@team" => dest = event[s].teamId
  PROVE  StatusInv'
<1>1. PICK k : k = via[s][2]
  OBVIOUS
<1>2. Aside(s) /\ Joins(s, <<k, TaskOf[dest]>>) /\ pc'[s] = label /\ event'[s] = event[s]
  BY <1>1, HopJoins
<1>3. OnTeamsTask(s)'
  BY <1>2 DEF OnTeamsTask, Joins
<1>4. QED
  BY <1>2, <1>3, StatusRests

LEMMA StatusOnLaunch ==
  ASSUME TypeInv, StatusInv, NEW s \in Slots, NEW e, NEW key, NEW dest, NEW label, NEW mem,
         Launch(s, e, key, dest, label, mem), UNCHANGED <<teams, teamIdsBySeason>>,
         label \notin WriteLabels \cup {"create@team"}
  PROVE  StatusInv'
<1>1. Aside(s) /\ pc[s] = "idle" /\ pc'[s] = label
  BY LaunchJoins
<1>2. QED
  BY <1>1, StatusRests DEF WriteLabels, OnTeamsTask

LEMMA StatusOnFinish ==
  ASSUME TypeInv, StatusInv, NEW s \in Slots, Finish(s), UNCHANGED <<teams, teamIdsBySeason>>,
         pc[s] \notin WriteLabels
  PROVE  StatusInv'
<1>1. Aside(s) /\ pc'[s] = "idle"
  BY FinishLeaves
<1>2. QED
  BY <1>1, StatusRests DEF WriteLabels, OnTeamsTask

\* create-team rewrites a row only with the season that it has.
LEMMA CreateRowStatus ==
  ASSUME TypeInv, SeasonInv, OneSeasonPerTeam, StatusInv, NEW s \in Slots, CreateRow(s)
  PROVE  StatusInv'
<1>1. PICK e : e = event[s]
  OBVIOUS
<1>2. pc[s] = "create@team" /\ "create@team" \in Labels \cap CreateLabels
  BY DEF CreateRow, Ready, Labels, CreateLabels
<1>3. e \in CreateEvent /\ e.teamId \in Teams /\ e.steamId \in Players /\ e.seasonId \in Seasons
  BY <1>1, <1>2, WaitingEvent DEF CreateRow
<1>4. PICK t, n : t = e.teamId /\ n = e.seasonId
  OBVIOUS
<1>5. Plays(t, n)
  <2>1. e \in Events
    <3>1. e \in Events \cup {NoEvent} /\ e.op = "create-team" /\ NoEvent.op = "none"
      BY <1>1, <1>3 DEF TypeInv, TypeOK, FlightTypeOK, CreateEvent, NoEvent
    <3>2. QED
      BY <3>1
  <2>2. QED
    BY <1>3, <1>4, <2>1 DEF Plays, CreateEvent
<1>6. via[s][2] = TaskOf[t]
  BY <1>1, <1>2, <1>4 DEF StatusInv, OnTeamsTask
<1>7. /\ Aside(s) /\ Joins(s, <<TaskOf[t], TaskOf[n]>>)
      /\ pc'[s] = "create@season" /\ event'[s] = e
  <2>1. PICK k : k = via[s][2]
    OBVIOUS
  <2>2. Hop(s, n, "create@season", NoLocals)
    BY <1>1, <1>4 DEF CreateRow
  <2>3. QED
    BY <1>1, <1>6, <2>1, <2>2, HopJoins
<1>8. PICK row : row = [seasonId |-> n, formatId |-> e.formatId, status |-> "UNREADY", createdBy |-> e.steamId]
  OBVIOUS
<1>9. row # None /\ row.seasonId = n /\ row.status = "UNREADY"
  BY <1>3, <1>4, <1>8, RowTypes, NoneFacts
<1>10. teams' = [teams EXCEPT ![t] = row] /\ teamIdsBySeason' = teamIdsBySeason
  BY <1>1, <1>4, <1>8 DEF CreateRow
<1>11. teams'[t] = row /\ \A u \in Teams \ {t} : teams'[u] = teams[u]
  BY <1>3, <1>4, <1>10, StoresTyped DEF StoresOK
<1>12. /\ s \notin Writers(t) /\ s \in Writers(t)' /\ SeasonOf(s)' = n /\ Carried(s)' = "UNREADY"
       /\ \A u \in Teams \ {t} : s \notin Writers(u) /\ s \notin Writers(u)'
  BY <1>2, <1>4, <1>7 DEF Writers, WriteLabels, SeasonOf, Carried
<1>13. StatusQueue(t)'
  <2>1. teams[t] # None => teams[t].seasonId = n
    BY <1>3, <1>4, <1>5, OneSeason DEF SeasonInv
  <2>2. QED
    BY <1>3, <1>4, <1>7, <1>9, <1>11, <1>12, <2>1, StatusStarts DEF StatusInv
<1>14. ASSUME NEW u \in Teams \ {t} PROVE StatusQueue(u)'
  BY <1>7, <1>10, <1>11, <1>12, <1>14, StatusKept DEF StatusInv
<1>15. OnTeamsTask(s)'
  BY <1>7 DEF OnTeamsTask
<1>16. QED
  BY <1>7, <1>13, <1>14, <1>15, OthersOnTask DEF StatusInv

LEMMA SetStatusStatus ==
  ASSUME TypeInv, StatusInv, NEW s \in Slots, NEW e \in Events, SetStatus(s, e)
  PROVE  StatusInv'
<1>1. PICK t, n : t = e.teamId /\ n = teams[t].seasonId
  OBVIOUS
<1>2. t \in Teams /\ teams[t] \in Team /\ e.status \in Statuses /\ e \in StatusEvent
  BY <1>1, EventKinds, StoresTyped DEF SetStatus, ValidStatus, StatusEvent, StoresOK
<1>3. PICK mem : mem = [seasonId |-> n]
  OBVIOUS
<1>4. Launch(s, e, t, n, "status@season", mem)
  BY <1>1, <1>3 DEF SetStatus
<1>5. /\ Aside(s) /\ Joins(s, <<TaskOf[t], TaskOf[n]>>)
      /\ pc[s] = "idle" /\ pc'[s] = "status@season" /\ event'[s] = e /\ locals'[s] = mem
  BY <1>4, LaunchJoins
<1>6. PICK row : row = [teams[t] EXCEPT !.status = e.status]
  OBVIOUS
<1>7. row # None /\ row.seasonId = n /\ row.status = e.status
  <2>1. row \in Team
    BY <1>2, <1>6 DEF Team
  <2>2. QED
    BY <1>1, <1>2, <1>6, <2>1, NoneFacts DEF Team
<1>8. teams' = [teams EXCEPT ![t] = row] /\ teamIdsBySeason' = teamIdsBySeason
  BY <1>1, <1>6 DEF SetStatus
<1>9. teams'[t] = row /\ \A u \in Teams \ {t} : teams'[u] = teams[u]
  BY <1>2, <1>8, StoresTyped DEF StoresOK
<1>10. /\ s \notin Writers(t) /\ s \in Writers(t)' /\ SeasonOf(s)' = n /\ Carried(s)' = e.status
       /\ \A u \in Teams \ {t} : s \notin Writers(u) /\ s \notin Writers(u)'
  BY <1>1, <1>3, <1>5 DEF Writers, WriteLabels, SeasonOf, Carried
<1>11. StatusQueue(t)'
  BY <1>1, <1>2, <1>5, <1>7, <1>9, <1>10, StatusStarts DEF StatusInv
<1>12. ASSUME NEW u \in Teams \ {t} PROVE StatusQueue(u)'
  BY <1>5, <1>8, <1>9, <1>10, <1>12, StatusKept DEF StatusInv
<1>13. OnTeamsTask(s)'
  BY <1>5 DEF OnTeamsTask
<1>14. QED
  BY <1>5, <1>11, <1>12, <1>13, OthersOnTask DEF StatusInv

LEMMA IndexStatus ==
  ASSUME TypeInv, StatusInv, NEW s \in Slots, CreateIndex(s) \/ StatusIndex(s)
  PROVE  StatusInv'
<1>1. PICK t, n, st : t = event[s].teamId /\ n = SeasonOf(s) /\ st = Carried(s)
  OBVIOUS
<1>2. pc[s] \in WriteLabels /\ ahead[s] = {} /\ Finish(s) /\ teams' = teams
  BY DEF CreateIndex, StatusIndex, Ready, WriteLabels
<1>3. t \in Teams /\ n \in Seasons
  BY <1>1, <1>2, WaitingEvent DEF CreateIndex, StatusIndex, Labels, CreateLabels, SeasonOf, Ready
<1>4. teamIdsBySeason' = [teamIdsBySeason EXCEPT ![n][t] = st]
  BY <1>1 DEF CreateIndex, StatusIndex, Ready, SeasonOf, Carried
<1>5. Aside(s) /\ pc'[s] = "idle"
  BY <1>2, FinishLeaves
<1>6. teamIdsBySeason \in [Seasons -> [Teams -> Statuses \cup {None}]]
  BY StoresTyped DEF StoresOK
<1>7. teamIdsBySeason'[n][t] = st
  BY <1>3, <1>4, <1>6
<1>8. StatusQueue(t)'
  <2>1. s \in Writers(t)
    BY <1>1, <1>2 DEF Writers
  <2>2. QED
    BY <1>1, <1>2, <1>3, <1>5, <1>7, <2>1, StatusEnds DEF StatusInv
<1>9. ASSUME NEW u \in Teams \ {t} PROVE StatusQueue(u)'
  <2>1. s \notin Writers(u) /\ s \notin Writers(u)'
    BY <1>1, <1>5, <1>9 DEF Writers, WriteLabels
  <2>2. \A m : teamIdsBySeason'[m][u] = teamIdsBySeason[m][u]
    BY <1>3, <1>4, <1>6, <1>9
  <2>3. QED
    BY <1>2, <1>5, <1>9, <2>1, <2>2, StatusKept DEF StatusInv
<1>10. OnTeamsTask(s)'
  BY <1>5 DEF OnTeamsTask
<1>11. QED
  BY <1>5, <1>8, <1>9, <1>10, OthersOnTask DEF StatusInv

LEMMA SubmitStatus ==
  ASSUME TypeInv, StatusInv, NEW s \in Slots, NEW e \in Events, Submit(s, e)
  PROVE  StatusInv'
<1> USE DEF WriteLabels, storeVars, pendingVars
<1>1. CASE CreateTeam(s, e)
  BY <1>1, StatusOnLaunch DEF CreateTeam
<1>2. CASE JoinTeam(s, e) \/ RequestJoin(s, e) \/ ApprovePending(s, e)
  BY <1>2, StatusOnLaunch DEF JoinTeam, RequestJoin, ApprovePending, ReadTeam
<1>3. CASE DeclinePending(s, e) \/ CreateInvite(s, e) \/ AcceptInvite(s, e)
  BY <1>3, StatusOnLaunch DEF DeclinePending, CreateInvite, AcceptInvite, SetPending
<1>4. CASE LeaveTeam(s, e)
  BY <1>4, StatusOnLaunch DEF LeaveTeam
<1>5. QED
  BY <1>1, <1>2, <1>3, <1>4, SetStatusStatus DEF Submit

LEMMA ResumeStatus ==
  ASSUME TypeInv, SeasonInv, OneSeasonPerTeam, StatusInv, NEW s \in Slots, Resume(s)
  PROVE  StatusInv'
<1> USE DEF WriteLabels, storeVars, pendingVars, Ready
<1>1. CASE CreateClaim(s)
  BY <1>1, StatusOnHop, StatusOnFinish DEF CreateClaim
<1>2. CASE JoinClaim(s)
  BY <1>2, StatusOnHop, StatusOnFinish DEF JoinClaim
<1>3. CASE ApproveClaim(s)
  BY <1>3, StatusOnHop, StatusOnFinish DEF ApproveClaim
<1>4. CASE RequestCheck(s)
  BY <1>4, StatusOnHop, StatusOnFinish DEF RequestCheck
<1>5. CASE RequestRow(s) \/ ApproveSeat(s)
  BY <1>5, StatusOnHop DEF RequestRow, ApproveSeat
<1>6. CASE RequestMirror(s) \/ DeclineMirror(s) \/ AcceptMirror(s)
  BY <1>6, StatusOnHop DEF RequestMirror, DeclineMirror, AcceptMirror, SetPendingByPlayer
<1>7. CASE JoinSeat(s) \/ InviteMirror(s)
  BY <1>7, StatusOnFinish DEF JoinSeat, InviteMirror, SetPendingByPlayer
<1>8. CASE AwaitingAdd(s) \/ AwaitingRemove(s) \/ LeaveRelease(s)
  BY <1>8, StatusOnFinish DEF AwaitingAdd, AwaitingRemove, LeaveRelease
<1>9. QED
  BY <1>1, <1>2, <1>3, <1>4, <1>5, <1>6, <1>7, <1>8, CreateRowStatus, IndexStatus DEF Resume

\* A step in which nothing of the index, the rows or the queues changes.
LEMMA StatusStill ==
  ASSUME StatusInv, UNCHANGED <<flightVars, teams, teamIdsBySeason>>
  PROVE  StatusInv'
  BY DEF flightVars, StatusInv, OnTeamsTask, StatusQueue, Writers, WriterOK, Ordered, IsLast, Carried, SeasonOf

LEMMA StatusStep ==
  OneSeasonPerTeam /\ TypeInv /\ SeasonInv /\ StatusInv /\ [Next]_vars => StatusInv'
<1> SUFFICES ASSUME OneSeasonPerTeam, TypeInv, SeasonInv, StatusInv, [Next]_vars PROVE StatusInv'
  OBVIOUS
<1>1. ASSUME NEW e \in Events, SetMemberPermission(e) \/ SetMemberPayment(e) PROVE StatusInv'
  BY <1>1, StatusStill DEF SetMemberPermission, SetMemberPayment
<1>2. CASE UNCHANGED vars
  BY <1>2, StatusStill DEF vars, storeVars
<1>3. QED
  BY <1>1, <1>2, SubmitStatus, ResumeStatus DEF Next

LEMMA StatusAtStart == Init => StatusInv
<1> SUFFICES ASSUME Init PROVE StatusInv
  OBVIOUS
<1>1. \A s \in Slots : pc[s] = "idle"
  BY DEF Init, FlightInit
<1>2. \A t \in Teams : teams[t] = None /\ Writers(t) = {}
  BY <1>1 DEF Init, Writers, WriteLabels
<1>3. QED
  BY <1>1, <1>2 DEF StatusInv, OnTeamsTask, StatusQueue, Ordered

\* The status index never goes stale, whatever set-status and create-team
\* events race: when no write of a team is on its way the entry is its status.
THEOREM StatusIndexFollows == ASSUME OneSeasonPerTeam PROVE Spec => []StatusIndexAgrees
<1>1. StatusInv => StatusIndexAgrees
  <2> SUFFICES ASSUME StatusInv, NEW t \in Teams, teams[t] # None,
                      \A s \in Slots : pc[s] \in {"create@season", "status@season"} => event[s].teamId # t
               PROVE  teamIdsBySeason[teams[t].seasonId][t] = teams[t].status
    BY DEF StatusIndexAgrees
  <2>1. Writers(t) = {}
    BY DEF Writers, WriteLabels
  <2>2. QED
    BY <2>1 DEF StatusInv, StatusQueue
<1>2. Init => SafeSeats /\ StatusInv
  BY SeatsAtStart, StatusAtStart
<1>3. SafeSeats /\ StatusInv /\ [Next]_vars => SafeSeats' /\ StatusInv'
  BY SeatsStep, StatusStep DEF SafeSeats
<1>4. QED
  BY <1>1, <1>2, <1>3, PTL DEF Spec

---------------------------------------------------------------------------
(* The roster cap.  A claim is judged by a snapshot of the roster, so       *)
(* claims that race can pass the cap together.  What bounds them: members   *)
(* and the claims that may still bring one are, together, below the cap     *)
(* plus the number of slots.  A claim is added only when a seat is free,    *)
(* and seating a member uses one up.                                        *)

\* Slot s may still bring team t a member.
Brings(s, t) ==
  /\ event[s].teamId = t
  /\ \/ pc[s] \in SeatingLabels
     \/ pc[s] = "create@player" /\ ~locals[s].existing
     \/ pc[s] \in {"join@player", "approve@player"} /\ locals[s].team # None /\ ~Full(locals[s])

Coming(t) == {s \in Slots : Brings(s, t)}
Members(t) == {p \in Players : OnRoster(t, p)}

\* The rows of a team follow the creates of its id, and a join or an approve
\* that goes on has seen a team.
FormatKept ==
  \A e \in Events : e.op = "create-team" /\ teams[e.teamId] # None => teams[e.teamId].formatId = e.formatId
JoinsExisting ==
  \A s \in Slots, t \in Teams :
    Brings(s, t) /\ pc[s] \notin {"create@player", "create@team"} => teams[t] # None

TeamCap(t) ==
  /\ IsFiniteSet(Members(t))
  /\ teams[t] = None => Members(t) = {}
  /\ teams[t] # None =>
       Cardinality(Members(t)) + Cardinality(Coming(t)) < MaxRoster(teams[t].formatId) + Cardinality(Slots)

CapInv == FormatKept /\ JoinsExisting /\ \A t \in Teams : TeamCap(t)

\* A step that leaves no team more members, and keeps its format.
Calm(t) ==
  /\ teams'[t] = None <=> teams[t] = None
  /\ teams[t] # None => teams'[t].formatId = teams[t].formatId
  /\ Members(t)' \subseteq Members(t)

\* There is a seat for one more.
SeatFree(t) == teams[t] # None /\ Cardinality(Members(t)) < MaxRoster(teams[t].formatId)

LEMMA MaxRosterType == \A format : MaxRoster(format) \in {1, 3}
  BY DEF MaxRoster

\* A subset of a finite set is finite and not larger.
LEMMA Fewer ==
  ASSUME NEW S, NEW T, IsFiniteSet(S), T \subseteq S
  PROVE  /\ IsFiniteSet(T) /\ Cardinality(S) \in Nat /\ Cardinality(T) \in Nat
         /\ Cardinality(T) <= Cardinality(S) /\ (T # S => Cardinality(T) < Cardinality(S))
  BY FS_Subset, FS_CardinalityType

\* What a step of slot s changes about the claims of a team.
LEMMA OthersBring ==
  ASSUME NEW s \in Slots, Aside(s), NEW t
  PROVE  \A o \in Slots \ {s} : Brings(o, t)' <=> Brings(o, t)
<1>1. ASSUME NEW snap PROVE Full(snap)' <=> Full(snap)
  BY DEF Full, MaxRoster
<1>2. SUFFICES ASSUME NEW o \in Slots \ {s} PROVE Brings(o, t)' <=> Brings(o, t)
  OBVIOUS
<1>3. pc'[o] = pc[o] /\ event'[o] = event[o] /\ locals'[o] = locals[o]
  BY DEF Aside
<1>4. PICK mem : mem = locals[o]
  OBVIOUS
<1>5. QED
  BY <1>1, <1>3, <1>4 DEF Brings, SeatingLabels

\* A team's room is kept when only members leave, unless s adds a claim of its
\* own: then there was no team yet or a seat was free.
LEMMA CalmTeam ==
  ASSUME IsFiniteSet(Slots), NEW s \in Slots, Aside(s), NEW t, TeamCap(t), Calm(t),
         Brings(s, t)' => Brings(s, t) \/ SeatFree(t) \/ teams[t] = None
  PROVE  TeamCap(t)'
<1>1. PICK M, N : M = Members(t) /\ N = Members(t)'
  OBVIOUS
<1>2. /\ IsFiniteSet(N) /\ Cardinality(M) \in Nat /\ Cardinality(N) \in Nat
      /\ Cardinality(N) <= Cardinality(M)
  BY <1>1, Fewer DEF TeamCap, Calm
<1>3. teams'[t] = None => N = {}
  BY <1>1 DEF TeamCap, Calm
<1>4. ASSUME teams'[t] # None
      PROVE  Cardinality(N) + Cardinality(Coming(t)') < MaxRoster(teams'[t].formatId) + Cardinality(Slots)
  <2>1. PICK C, D, max : C = Coming(t) /\ D = Coming(t)' /\ max = MaxRoster(teams[t].formatId)
    OBVIOUS
  <2>2. teams[t] # None /\ teams'[t].formatId = teams[t].formatId
    BY <1>4 DEF Calm
  <2>3. Cardinality(M) + Cardinality(C) < max + Cardinality(Slots) /\ max \in {1, 3}
    BY <1>1, <2>1, <2>2, MaxRosterType DEF TeamCap
  <2>4. C \subseteq Slots /\ D \subseteq Slots
    BY <2>1 DEF Coming
  <2>5. /\ IsFiniteSet(C) /\ Cardinality(C) \in Nat /\ Cardinality(D) \in Nat /\ Cardinality(Slots) \in Nat
        /\ Cardinality(D) <= Cardinality(Slots)
    BY <2>4, Fewer
  <2>6. CASE Brings(s, t)' => Brings(s, t)
    <3>1. D \subseteq C
      BY <2>1, <2>6, OthersBring DEF Coming
    <3>2. Cardinality(D) <= Cardinality(C)
      BY <2>5, <3>1, Fewer
    <3>3. QED
      BY <1>2, <2>1, <2>2, <2>3, <2>5, <3>2
  <2>7. CASE SeatFree(t)
    <3>1. Cardinality(M) < max
      BY <1>1, <2>1, <2>7 DEF SeatFree
    <3>2. QED
      BY <1>2, <2>1, <2>2, <2>3, <2>5, <3>1
  <2>8. QED
    BY <2>2, <2>6, <2>7
<1>5. QED
  BY <1>1, <1>2, <1>3, <1>4 DEF TeamCap

\* The claim of s becomes a member.
LEMMA FilledTeam ==
  ASSUME IsFiniteSet(Slots), NEW s \in Slots, Aside(s), NEW t, TeamCap(t), NEW p,
         Brings(s, t), ~Brings(s, t)', Members(t)' \subseteq Members(t) \cup {p},
         teams'[t] # None, teams[t] # None => teams'[t].formatId = teams[t].formatId
  PROVE  TeamCap(t)'
<1>1. PICK M, N, C, D, max : /\ M = Members(t) /\ N = Members(t)' /\ C = Coming(t) /\ D = Coming(t)'
                             /\ max = MaxRoster(teams'[t].formatId)
  OBVIOUS
<1>2. /\ IsFiniteSet(M \cup {p}) /\ Cardinality(M) \in Nat /\ Cardinality(M \cup {p}) \in Nat
      /\ Cardinality(M \cup {p}) <= Cardinality(M) + 1
  <2>1. IsFiniteSet(M)
    BY <1>1 DEF TeamCap
  <2>2. /\ IsFiniteSet(M \cup {p})
        /\ Cardinality(M \cup {p}) = IF p \in M THEN Cardinality(M) ELSE Cardinality(M) + 1
    BY <2>1, FS_AddElement
  <2>3. Cardinality(M) \in Nat
    BY <2>1, FS_CardinalityType
  <2>4. QED
    BY <2>2, <2>3
<1>3. IsFiniteSet(N) /\ Cardinality(N) \in Nat /\ Cardinality(N) <= Cardinality(M \cup {p})
  BY <1>1, <1>2, Fewer
<1>4. C \subseteq Slots /\ D \subseteq C /\ D # C
  BY <1>1, OthersBring DEF Coming
<1>5. /\ IsFiniteSet(C) /\ Cardinality(C) \in Nat /\ Cardinality(Slots) \in Nat
      /\ Cardinality(C) <= Cardinality(Slots)
  BY <1>4, Fewer
<1>6. Cardinality(D) \in Nat /\ Cardinality(D) < Cardinality(C)
  BY <1>4, <1>5, Fewer
<1>7. max \in {1, 3}
  BY <1>1, MaxRosterType
<1>8. Cardinality(N) + Cardinality(D) < max + Cardinality(Slots)
  <2>1. CASE teams[t] = None
    <3>1. Cardinality(M) = 0
      BY <1>1, <2>1, FS_EmptySet DEF TeamCap
    <3>2. QED
      BY <1>2, <1>3, <1>5, <1>6, <1>7, <3>1
  <2>2. CASE teams[t] # None
    <3>1. Cardinality(M) + Cardinality(C) < max + Cardinality(Slots)
      BY <1>1, <2>2 DEF TeamCap
    <3>2. QED
      BY <1>2, <1>3, <1>5, <1>6, <1>7, <3>1
  <2>3. QED
    BY <2>1, <2>2
<1>9. QED
  BY <1>1, <1>3, <1>8 DEF TeamCap

\* What is left to show for a step of slot s.
LEMMA CapKept ==
  ASSUME CapInv, NEW s \in Slots, Aside(s), FormatKept', \A t \in Teams : TeamCap(t)',
         \A t \in Teams : teams[t] # None => teams'[t] # None,
         \A t \in Teams : Brings(s, t)' /\ pc'[s] \notin {"create@player", "create@team"} => teams'[t] # None
  PROVE  CapInv'
<1>1. ASSUME NEW o \in Slots \ {s}, NEW t \in Teams, Brings(o, t)',
             pc'[o] \notin {"create@player", "create@team"}
      PROVE  teams'[t] # None
  BY <1>1, OthersBring DEF CapInv, JoinsExisting, Aside
<1>2. QED
  BY <1>1 DEF CapInv, JoinsExisting

LEMMA CalmFormats ==
  ASSUME CapInv, \A t \in Teams : Calm(t)
  PROVE  FormatKept'
<1>1. SUFFICES ASSUME NEW e \in Events, e.op = "create-team", teams'[e.teamId] # None
               PROVE  teams'[e.teamId].formatId = e.formatId
  BY DEF FormatKept
<1>2. e.teamId \in Teams
  BY <1>1, EventKinds DEF CreateEvent
<1>3. QED
  BY <1>1, <1>2 DEF Calm, CapInv, FormatKept

\* How s may come to bring team t a member.
BringsWell(s, t) ==
  \/ Brings(s, t) /\ (pc[s] \in {"create@player", "create@team"} => pc'[s] = "create@team")
  \/ SeatFree(t)
  \/ teams[t] = None /\ pc'[s] = "create@player"

\* A step that brings no team a member.
LEMMA CapCalm ==
  ASSUME IsFiniteSet(Slots), CapInv, NEW s \in Slots, Aside(s), \A t \in Teams : Calm(t),
         \A t \in Teams : Brings(s, t)' => BringsWell(s, t)
  PROVE  CapInv'
<1>1. \A t \in Teams : TeamCap(t)'
  BY CalmTeam DEF CapInv, BringsWell
<1>2. ASSUME NEW t \in Teams, Brings(s, t)', pc'[s] \notin {"create@player", "create@team"}
      PROVE  teams'[t] # None
  <2>1. CASE SeatFree(t)
    BY <2>1 DEF SeatFree, Calm
  <2>2. CASE Brings(s, t) /\ pc[s] \notin {"create@player", "create@team"}
    BY <2>2 DEF CapInv, JoinsExisting, Calm
  <2>3. QED
    BY <1>2, <2>1, <2>2 DEF BringsWell
<1>3. \A t \in Teams : teams[t] # None => teams'[t] # None
  BY DEF Calm
<1>4. QED
  BY <1>1, <1>2, <1>3, CapKept, CalmFormats

LEMMA HopGoes ==
  ASSUME TypeInv, NEW s \in Slots, NEW dest, NEW label, Hop(s, dest, label, NoLocals)
  PROVE  Aside(s) /\ pc'[s] = label /\ event'[s] = event[s] /\ locals'[s] = NoLocals
<1>1. PICK k, mem : k = via[s][2] /\ mem = NoLocals
  OBVIOUS
<1>2. Hop(s, dest, label, mem)
  BY <1>1
<1>3. Aside(s) /\ Joins(s, <<k, TaskOf[dest]>>) /\ pc'[s] = label /\ event'[s] = event[s] /\ locals'[s] = mem
  BY <1>1, <1>2, HopJoins
<1>4. QED
  BY <1>1, <1>3

LEMMA AllCalm ==
  ASSUME UNCHANGED <<teams, roster>>
  PROVE  \A t \in Teams : Calm(t)
  BY DEF Calm, Members, OnRoster

\* The labels at which a slot can bring a team a member.
ClaimLabels == SeatingLabels \cup {"create@player", "join@player", "approve@player"}

LEMMA CapRests ==
  ASSUME IsFiniteSet(Slots), CapInv, NEW s \in Slots, Aside(s), \A t \in Teams : Calm(t),
         pc'[s] \notin ClaimLabels
  PROVE  CapInv'
<1>1. \A t \in Teams : ~Brings(s, t)'
  BY DEF Brings, ClaimLabels, SeatingLabels
<1>2. QED
  BY <1>1, CapCalm

\* The snapshot of a claim has the members of its moment.
LEMMA ReadCap ==
  ASSUME IsFiniteSet(Slots), TypeInv, CapInv, NEW s \in Slots, NEW e \in Events,
         NEW label \in SnapshotLabels, NEW row, ReadTeam(s, e, label, row), e.teamId \in Teams
  PROVE  CapInv'
<1>1. PICK t, mem : t = e.teamId /\ mem = Snapshot(t, row)
  OBVIOUS
<1>2. Aside(s) /\ pc'[s] = label /\ event'[s] = e /\ locals'[s] = mem
  <2>1. PICK p : p = e.steamId
    OBVIOUS
  <2>2. Launch(s, e, t, p, label, mem)
    BY <1>1, <2>1 DEF ReadTeam
  <2>3. QED
    BY <2>2, LaunchJoins
<1>3. \A u \in Teams : Calm(u)
  BY AllCalm DEF ReadTeam, storeVars
<1>4. ASSUME NEW u \in Teams, Brings(s, u)' PROVE SeatFree(u)
  <2>1. u = t /\ mem.team # None /\ ~Full(mem)
    BY <1>1, <1>2, <1>4 DEF Brings, SeatingLabels, SnapshotLabels, Full
  <2>2. mem.team = teams[t] /\ {q \in Players : mem.roster[q] # None} = Members(t)
    BY <1>1 DEF Snapshot, Members, OnRoster
  <2>3. PICK n, max : n = Cardinality(Members(t)) /\ max = MaxRoster(teams[t].formatId)
    OBVIOUS
  <2>4. n \in Nat /\ max \in {1, 3}
    BY <1>1, <2>3, FS_CardinalityType, MaxRosterType DEF CapInv, TeamCap
  <2>5. ~(n >= max)
    BY <2>1, <2>2, <2>3 DEF Full
  <2>6. QED
    BY <2>1, <2>2, <2>3, <2>4, <2>5 DEF SeatFree
<1>5. QED
  BY <1>2, <1>3, <1>4, CapCalm DEF BringsWell

LEMMA SubmitCap ==
  ASSUME IsFiniteSet(Slots), TypeInv, CapInv, NEW s \in Slots, NEW e \in Events, Submit(s, e)
  PROVE  CapInv'
<1>1. CASE CreateTeam(s, e)
  <2>1. PICK t, mem : t = e.teamId /\ mem = [existing |-> teams[t] # None]
    OBVIOUS
  <2>2. Aside(s) /\ pc'[s] = "create@player" /\ event'[s] = e /\ locals'[s] = mem
    <3>1. PICK p : p = e.steamId
      OBVIOUS
    <3>2. Launch(s, e, t, p, "create@player", mem)
      BY <1>1, <2>1, <3>1 DEF CreateTeam
    <3>3. QED
      BY <3>2, LaunchJoins
  <2>3. UNCHANGED <<teams, roster>>
    BY <1>1 DEF CreateTeam, storeVars
  <2>4. \A u \in Teams : Brings(s, u)' => teams[u] = None
    <3>1. ~mem.existing => teams[t] = None
      BY <2>1
    <3>2. \A u \in Teams : Brings(s, u)' => u = t /\ ~mem.existing
      BY <2>1, <2>2 DEF Brings, SeatingLabels
    <3>3. QED
      BY <3>1, <3>2
  <2>5. QED
    BY <2>2, <2>3, <2>4, AllCalm, CapCalm DEF BringsWell
<1>2. CASE JoinTeam(s, e) \/ RequestJoin(s, e) \/ ApprovePending(s, e)
  <2>1. e.teamId \in Teams
    BY <1>2, EventKinds DEF JoinTeam, RequestJoin, ApprovePending, MemberOps, MemberEvent
  <2>2. QED
    BY <1>2, <2>1, ReadCap DEF JoinTeam, RequestJoin, ApprovePending, SnapshotLabels
<1>3. CASE DeclinePending(s, e) \/ CreateInvite(s, e) \/ AcceptInvite(s, e)
  <2>1. PICK row \in {None, Invited, Awaiting}, label \in {"decline@player", "invite@player", "accept@player"} :
          SetPending(e, row, s, label)
    BY <1>3 DEF DeclinePending, CreateInvite, AcceptInvite
  <2>2. Aside(s) /\ pc'[s] = label /\ UNCHANGED <<teams, roster>>
    BY <2>1, LaunchJoins DEF SetPending
  <2>3. QED
    BY <2>2, AllCalm, CapRests DEF ClaimLabels, SeatingLabels
<1>4. CASE LeaveTeam(s, e)
  <2>1. e.teamId \in Teams /\ e.steamId \in Players
    BY <1>4, EventKinds DEF LeaveTeam, MemberOps, MemberEvent
  <2>2. Aside(s) /\ pc'[s] = "leave@player"
    <3>1. PICK t, p, mem : t = e.teamId /\ p = e.steamId /\ mem = [seasonId |-> teams[t].seasonId]
      OBVIOUS
    <3>2. Launch(s, e, t, p, "leave@player", mem)
      BY <1>4, <3>1 DEF LeaveTeam
    <3>3. QED
      BY <3>2, LaunchJoins
  <2>3. \A t \in Teams : Calm(t)
    BY <1>4, <2>1, StoresTyped DEF LeaveTeam, StoresOK, Calm, Members, OnRoster
  <2>4. QED
    BY <2>2, <2>3, CapRests DEF ClaimLabels, SeatingLabels
<1>5. CASE SetStatus(s, e)
  <2>1. e.teamId \in Teams /\ e.status \in Statuses
    BY <1>5, EventKinds DEF SetStatus, ValidStatus, StatusEvent
  <2>2. teams[e.teamId] \in Team /\ teams \in [Teams -> Team \cup {None}]
    BY <1>5, <2>1, StoresTyped DEF SetStatus, StoresOK
  <2>3. PICK row : row = [teams[e.teamId] EXCEPT !.status = e.status]
    OBVIOUS
  <2>4. row # None /\ row.formatId = teams[e.teamId].formatId
    <3>1. row \in Team
      BY <2>1, <2>2, <2>3 DEF Team
    <3>2. QED
      BY <2>2, <2>3, <3>1, NoneFacts DEF Team
  <2>5. teams' = [teams EXCEPT ![e.teamId] = row] /\ roster' = roster
    BY <1>5, <2>3 DEF SetStatus
  <2>6. \A t \in Teams : Calm(t)
    BY <2>1, <2>2, <2>4, <2>5, NoneFacts DEF Calm, Members, OnRoster
  <2>7. Aside(s) /\ pc'[s] = "status@season"
    <3>1. PICK t, n, mem : t = e.teamId /\ n = teams[t].seasonId /\ mem = [seasonId |-> n]
      OBVIOUS
    <3>2. Launch(s, e, t, n, "status@season", mem)
      BY <1>5, <3>1 DEF SetStatus
    <3>3. QED
      BY <3>2, LaunchJoins
  <2>8. QED
    BY <2>6, <2>7, CapRests DEF ClaimLabels, SeatingLabels
<1>6. QED
  BY <1>1, <1>2, <1>3, <1>4, <1>5 DEF Submit

\* The events of the claims name a team and a player.
LEMMA ClaimKeys ==
  ASSUME TypeInv, NEW s \in Slots, pc[s] \in ClaimLabels
  PROVE  event[s].teamId \in Teams /\ event[s].steamId \in Players
<1>1. pc[s] \in CreateLabels \cup MemberLabels
  BY DEF ClaimLabels, SeatingLabels, CreateLabels, MemberLabels, Labels
<1>2. event[s] \in CreateEvent \cup MemberEvent
  BY <1>1 DEF TypeInv, Carries
<1>3. QED
  BY <1>2 DEF CreateEvent, MemberEvent

\* The row of a team: its creator becomes a member.  If another create of the
\* id got there first, the row keeps its format, as all creates of it agree.
LEMMA CreateRowCap ==
  ASSUME OneFormatPerTeam, IsFiniteSet(Slots), TypeInv, CapInv, NEW s \in Slots, CreateRow(s)
  PROVE  CapInv'
<1>1. PICK e, t, p : e = event[s] /\ t = e.teamId /\ p = e.steamId
  OBVIOUS
<1>2. pc[s] = "create@team" /\ pc[s] \in ClaimLabels
  BY DEF CreateRow, Ready, ClaimLabels, SeatingLabels
<1>3. e \in CreateEvent /\ t \in Teams /\ p \in Players /\ e \in Events
  <2>1. e \in CreateEvent /\ t \in Teams /\ p \in Players
    BY <1>1, <1>2, ClaimKeys DEF TypeInv, Carries, CreateLabels
  <2>2. e \in Events \cup {NoEvent}
    BY <1>1 DEF TypeInv, TypeOK, FlightTypeOK
  <2>3. QED
    BY <2>1, <2>2 DEF CreateEvent, NoEvent
<1>4. Aside(s) /\ pc'[s] = "create@season"
  <2>1. PICK n : n = e.seasonId
    OBVIOUS
  <2>2. Hop(s, n, "create@season", NoLocals)
    BY <1>1, <2>1 DEF CreateRow
  <2>3. QED
    BY <2>2, HopGoes
<1>5. PICK row : row = [seasonId |-> e.seasonId, formatId |-> e.formatId, status |-> "UNREADY", createdBy |-> p]
  OBVIOUS
<1>6. /\ teams' = [teams EXCEPT ![t] = row] /\ roster' = [roster EXCEPT ![t][p] = NewMember("STATUS")]
      /\ row # None /\ teams \in [Teams -> Team \cup {None}]
  BY <1>1, <1>3, <1>5, RowTypes, NoneFacts, StoresTyped DEF CreateRow, StoresOK
<1>7. Members(t)' \subseteq Members(t) \cup {p} /\ \A u \in Teams \ {t} : Members(u)' = Members(u) /\ teams'[u] = teams[u]
  BY <1>3, <1>6, StoresTyped DEF StoresOK, Members, OnRoster
<1>8. Brings(s, t) /\ \A u \in Teams : ~Brings(s, u)'
  BY <1>1, <1>2, <1>4 DEF Brings, SeatingLabels
<1>9. teams'[t] = row /\ (teams[t] # None => teams[t].formatId = row.formatId)
  BY <1>1, <1>3, <1>5, <1>6 DEF CapInv, FormatKept, CreateEvent
<1>10. \A u \in Teams : TeamCap(u)'
  <2>1. TeamCap(t)'
    BY <1>3, <1>4, <1>6, <1>7, <1>8, <1>9, FilledTeam DEF CapInv
  <2>2. ASSUME NEW u \in Teams \ {t} PROVE TeamCap(u)'
    <3>1. Calm(u)
      BY <1>7, <2>2 DEF Calm
    <3>2. QED
      BY <1>4, <1>8, <2>2, <3>1, CalmTeam DEF CapInv
  <2>3. QED
    BY <2>1, <2>2
<1>11. FormatKept'
  <2>1. SUFFICES ASSUME NEW f \in Events, f.op = "create-team", teams'[f.teamId] # None
                 PROVE  teams'[f.teamId].formatId = f.formatId
    BY DEF FormatKept
  <2>2. f.teamId \in Teams
    BY <2>1, EventKinds DEF CreateEvent
  <2>3. CASE f.teamId = t
    BY <1>1, <1>3, <1>5, <1>9, <2>1, <2>3 DEF OneFormatPerTeam, CreateEvent
  <2>4. CASE f.teamId # t
    BY <1>7, <2>1, <2>2, <2>4 DEF CapInv, FormatKept
  <2>5. QED
    BY <2>3, <2>4
<1>12. \A u \in Teams : teams[u] # None => teams'[u] # None
  BY <1>6, <1>7, <1>9
<1>13. QED
  BY <1>4, <1>8, <1>10, <1>11, <1>12, CapKept

\* The seat that a claim was given.
LEMMA SeatCap ==
  ASSUME IsFiniteSet(Slots), TypeInv, CapInv, NEW s \in Slots, JoinSeat(s) \/ ApproveSeat(s)
  PROVE  CapInv'
<1>1. PICK t, p : t = event[s].teamId /\ p = event[s].steamId
  OBVIOUS
<1>2. pc[s] \in {"join@team", "approve@team"} /\ pc[s] \in ClaimLabels
  BY DEF JoinSeat, ApproveSeat, Ready, ClaimLabels, SeatingLabels
<1>3. t \in Teams /\ p \in Players
  BY <1>1, <1>2, ClaimKeys
<1>4. Aside(s) /\ pc'[s] \notin ClaimLabels
  <2>1. CASE JoinSeat(s)
    BY <2>1, FinishLeaves DEF JoinSeat, ClaimLabels, SeatingLabels
  <2>2. CASE ApproveSeat(s)
    <3>1. Hop(s, All, "approve@all", NoLocals)
      BY <2>2 DEF ApproveSeat
    <3>2. QED
      BY <3>1, HopGoes DEF ClaimLabels, SeatingLabels
  <2>3. QED
    BY <2>1, <2>2
<1>5. Brings(s, t) /\ \A u \in Teams : ~Brings(s, u)'
  BY <1>1, <1>2, <1>4 DEF Brings, SeatingLabels, ClaimLabels
<1>6. teams' = teams /\ roster' = [roster EXCEPT ![t][p] = NewMember("MEMBER")]
  BY <1>1 DEF JoinSeat, ApproveSeat
<1>7. teams[t] # None
  BY <1>2, <1>3, <1>5 DEF CapInv, JoinsExisting
<1>8. Members(t)' \subseteq Members(t) \cup {p} /\ \A u \in Teams \ {t} : Members(u)' = Members(u)
  BY <1>3, <1>6, StoresTyped DEF StoresOK, Members, OnRoster
<1>9. \A u \in Teams : TeamCap(u)'
  <2>1. TeamCap(t)'
    BY <1>3, <1>4, <1>5, <1>6, <1>7, <1>8, FilledTeam DEF CapInv
  <2>2. ASSUME NEW u \in Teams \ {t} PROVE TeamCap(u)'
    <3>1. Calm(u)
      BY <1>6, <1>8, <2>2 DEF Calm
    <3>2. QED
      BY <1>4, <1>5, <2>2, <3>1, CalmTeam DEF CapInv
  <2>3. QED
    BY <2>1, <2>2
<1>10. FormatKept'
  BY <1>6 DEF CapInv, FormatKept
<1>11. QED
  BY <1>4, <1>5, <1>6, <1>9, <1>10, CapKept

\* A claim that goes on: what brought it this far still counts.
LEMMA ClaimCap ==
  ASSUME IsFiniteSet(Slots), TypeInv, CapInv, NEW s \in Slots, CreateClaim(s) \/ JoinClaim(s) \/ ApproveClaim(s)
  PROVE  CapInv'
<1>1. PICK t, mem : t = event[s].teamId /\ mem = locals[s]
  OBVIOUS
<1>2. \A u \in Teams : Calm(u)
  BY AllCalm DEF CreateClaim, JoinClaim, ApproveClaim
<1>3. CASE Finish(s)
  BY <1>2, <1>3, FinishLeaves, CapRests DEF ClaimLabels, SeatingLabels
<1>4. CASE CreateClaim(s) /\ ~CreateError(s)
  <2>1. pc[s] = "create@player" /\ ~mem.existing /\ Hop(s, t, "create@team", NoLocals)
    BY <1>1, <1>4 DEF CreateClaim, CreateError, Ready
  <2>2. Aside(s) /\ pc'[s] = "create@team" /\ event'[s] = event[s]
    BY <2>1, HopGoes
  <2>3. \A u \in Teams : Brings(s, u)' => Brings(s, u)
    BY <1>1, <2>1, <2>2 DEF Brings
  <2>4. QED
    BY <1>2, <2>2, <2>3, CapCalm DEF BringsWell
<1>5. ASSUME pc[s] \in {"join@player", "approve@player"}, NEW label \in {"join@team", "approve@team"},
             ~JoinError(mem, event[s].steamId), Hop(s, t, label, NoLocals)
      PROVE  CapInv'
  <2>1. mem.team # None /\ ~Full(mem)
    BY <1>5 DEF JoinError, SnapshotRefuses
  <2>2. Aside(s) /\ pc'[s] = label /\ event'[s] = event[s]
    BY <1>5, HopGoes
  <2>3. \A u \in Teams : Brings(s, u)' => Brings(s, u)
    BY <1>1, <1>5, <2>1, <2>2 DEF Brings
  <2>4. QED
    BY <1>2, <1>5, <2>2, <2>3, CapCalm DEF BringsWell
<1>6. CASE JoinClaim(s) /\ ~JoinError(locals[s], event[s].steamId)
  BY <1>1, <1>5, <1>6 DEF JoinClaim, Ready
<1>7. CASE ApproveClaim(s) /\ ~(locals[s].pending # Awaiting \/ JoinError(locals[s], event[s].steamId))
  BY <1>1, <1>5, <1>7 DEF ApproveClaim, Ready
<1>8. QED
  BY <1>3, <1>4, <1>6, <1>7 DEF CreateClaim, JoinClaim, ApproveClaim

LEMMA ResumeCap ==
  ASSUME OneFormatPerTeam, IsFiniteSet(Slots), TypeInv, CapInv, NEW s \in Slots, Resume(s)
  PROVE  CapInv'
<1> USE DEF storeVars, pendingVars
<1>1. ASSUME NEW label \in {"request@team", "request@player-index", "request@all", "decline@all", "accept@all"},
             NEW dest, Hop(s, dest, label, NoLocals), UNCHANGED <<teams, roster>>
      PROVE  CapInv'
  <2>1. Aside(s) /\ pc'[s] = label
    BY <1>1, HopGoes
  <2>2. QED
    BY <1>1, <2>1, AllCalm, CapRests DEF ClaimLabels, SeatingLabels
<1>2. ASSUME Finish(s), UNCHANGED <<teams, roster>> PROVE CapInv'
  BY <1>2, FinishLeaves, AllCalm, CapRests DEF ClaimLabels, SeatingLabels
<1>3. CASE RequestCheck(s)
  BY <1>1, <1>2, <1>3 DEF RequestCheck
<1>4. CASE RequestRow(s)
  BY <1>1, <1>4 DEF RequestRow
<1>5. CASE RequestMirror(s) \/ DeclineMirror(s) \/ AcceptMirror(s)
  BY <1>1, <1>5 DEF RequestMirror, DeclineMirror, AcceptMirror, SetPendingByPlayer
<1>6. CASE InviteMirror(s) \/ CreateIndex(s) \/ StatusIndex(s)
  BY <1>2, <1>6 DEF InviteMirror, SetPendingByPlayer, CreateIndex, StatusIndex
<1>7. CASE AwaitingAdd(s) \/ AwaitingRemove(s) \/ LeaveRelease(s)
  BY <1>2, <1>7 DEF AwaitingAdd, AwaitingRemove, LeaveRelease
<1>8. QED
  BY <1>3, <1>4, <1>5, <1>6, <1>7, CreateRowCap, SeatCap, ClaimCap DEF Resume

\* No claim moves and no roster grows.
LEMMA CapStill ==
  ASSUME IsFiniteSet(Slots), CapInv, UNCHANGED flightVars, \A t \in Teams : Calm(t)
  PROVE  CapInv'
<1>1. \A o \in Slots, t \in Teams : Brings(o, t)' <=> Brings(o, t)
  BY DEF Brings, flightVars, Full, MaxRoster
<1>2. ASSUME NEW t \in Teams PROVE TeamCap(t)'
  <2>1. PICK M, N : M = Members(t) /\ N = Members(t)'
    OBVIOUS
  <2>2. Coming(t)' = Coming(t)
    BY <1>1 DEF Coming
  <2>3. /\ IsFiniteSet(N) /\ Cardinality(M) \in Nat /\ Cardinality(N) \in Nat
        /\ Cardinality(N) <= Cardinality(M)
    BY <2>1, Fewer DEF CapInv, TeamCap, Calm
  <2>4. PICK c, k, max : /\ c = Cardinality(Coming(t)) /\ k = Cardinality(Slots)
                         /\ max = MaxRoster(teams[t].formatId)
    OBVIOUS
  <2>5. Coming(t) \subseteq Slots
    BY DEF Coming
  <2>6. c \in Nat /\ k \in Nat /\ max \in {1, 3}
    BY <2>4, <2>5, Fewer, MaxRosterType
  <2>7. teams[t] = None => M = {} /\ N = {}
    BY <2>1 DEF CapInv, TeamCap, Calm
  <2>8. teams'[t] # None => /\ max = MaxRoster(teams'[t].formatId) /\ Cardinality(M) + c < max + k
    BY <2>1, <2>4 DEF CapInv, TeamCap, Calm
  <2>9. teams'[t] # None => Cardinality(N) + c < max + k
    BY <2>3, <2>6, <2>8
  <2>10. QED
    BY <2>1, <2>2, <2>3, <2>4, <2>7, <2>8, <2>9 DEF TeamCap, Calm
<1>3. JoinsExisting'
  BY <1>1 DEF CapInv, JoinsExisting, Calm, flightVars
<1>4. QED
  BY <1>2, <1>3, CalmFormats DEF CapInv

LEMMA CapStep ==
  ASSUME OneFormatPerTeam, IsFiniteSet(Slots)
  PROVE  TypeInv /\ CapInv /\ [Next]_vars => CapInv'
<1> SUFFICES ASSUME TypeInv, CapInv, [Next]_vars PROVE CapInv'
  OBVIOUS
<1>1. ASSUME NEW e \in Events, SetMemberPermission(e) \/ SetMemberPayment(e) PROVE CapInv'
  <2>1. UNCHANGED <<flightVars, teams>> /\ SameRosters
    BY <1>1, FieldKind DEF SetMemberPermission, SetMemberPayment, StillStep
  <2>2. \A t \in Teams : Calm(t)
    BY <2>1 DEF Calm, Members, SameRosters
  <2>3. QED
    BY <2>1, <2>2, CapStill
<1>2. CASE UNCHANGED vars
  BY <1>2, AllCalm, CapStill DEF vars, storeVars
<1>3. QED
  BY <1>1, <1>2, SubmitCap, ResumeCap DEF Next

LEMMA CapAtStart == Init => CapInv
<1> SUFFICES ASSUME Init PROVE CapInv
  OBVIOUS
<1>1. \A s \in Slots, t \in Teams : ~Brings(s, t)
  BY DEF Init, FlightInit, Brings, SeatingLabels
<1>2. \A t \in Teams : teams[t] = None /\ Members(t) = {}
  BY DEF Init, Members, OnRoster
<1>3. IsFiniteSet({})
  BY FS_EmptySet
<1>4. \A e \in Events : e.op = "create-team" => e.teamId \in Teams
  BY EventKinds DEF CreateEvent
<1>5. QED
  BY <1>1, <1>2, <1>3, <1>4 DEF CapInv, TeamCap, FormatKept, JoinsExisting

\* Whatever creates, joins, approves and leaves race: a roster exceeds the cap
\* of its format by fewer members than events can be under way at once, and a
\* single slot never exceeds it.
THEOREM RostersCapped == ASSUME OneFormatPerTeam, IsFiniteSet(Slots) PROVE Spec => []RosterCap
<1>1. CapInv => RosterCap
  <2> SUFFICES ASSUME CapInv, NEW t \in Teams, teams[t] # None
               PROVE  Cardinality(Members(t)) < MaxRoster(teams[t].formatId) + Cardinality(Slots)
    BY DEF RosterCap, Members
  <2>1. PICK n, c, k, max : /\ n = Cardinality(Members(t)) /\ c = Cardinality(Coming(t))
                            /\ k = Cardinality(Slots) /\ max = MaxRoster(teams[t].formatId)
    OBVIOUS
  <2>2. n + c < max + k /\ IsFiniteSet(Members(t))
    BY <2>1 DEF CapInv, TeamCap
  <2>3. n \in Nat /\ c \in Nat /\ k \in Nat /\ max \in {1, 3}
    <3>1. Coming(t) \subseteq Slots
      BY DEF Coming
    <3>2. QED
      BY <2>1, <2>2, <3>1, Fewer, FS_CardinalityType, MaxRosterType
  <2>4. QED
    BY <2>1, <2>2, <2>3
<1>2. Init => CapInv
  BY CapAtStart
<1>3. QED
  BY <1>1, <1>2, CapStep, TypeInvariant, PTL DEF Spec

---------------------------------------------------------------------------
(* The pending indexes.  Rows travel from the team's task to the player's, *)
(* flags from the player's to the task of "all"; each link keeps its order, *)
(* so the last row and the last flag on their way decide what the mirrors  *)
(* will say.  An approve clears the mirror before the row it mirrors: no   *)
(* order helps then, and the premise below keeps it alone with its request. *)

RowLabels == {"request@player-index", "decline@player", "invite@player", "accept@player"}
FlagLabels == {"request@all", "accept@all", "decline@all"}
ApproveLabels == {"approve@team", "approve@all"}
PendingLabels == RowLabels \cup FlagLabels \cup ApproveLabels

\* The premise about behaviours: while an approve clears a request, nothing
\* else about that team and player is on its way to the two indexes.
ApprovesAlone ==
  \A s, r \in Slots :
    /\ pc[s] \in ApproveLabels /\ pc[r] \in PendingLabels
    /\ event[s].teamId = event[r].teamId /\ event[s].steamId = event[r].steamId
    => s = r

RowWriters(t, p) == {s \in Slots : pc[s] \in RowLabels /\ Concerns(s, t, p)}
FlagWriters(t, p) == {s \in Slots : pc[s] \in FlagLabels /\ Concerns(s, t, p)}
Approvers(t, p) == {s \in Slots : pc[s] \in ApproveLabels /\ Concerns(s, t, p)}

\* What a row writer brings to the mirror, and a flag writer to the index.
RowOf(s) == IF pc[s] = "decline@player" THEN None
            ELSE IF pc[s] = "invite@player" THEN Invited ELSE Awaiting
Flag(s) == pc[s] # "decline@all"

\* What the mirror, and the index, will say once the writers of V are through.
MirrorSays(t, p, V, row) ==
  /\ V = {} => pendingByPlayer[p][t] = row
  /\ \A w \in V : IsLast(w, V) => RowOf(w) = row
IndexSays(t, p, V) ==
  /\ V = {} => (<<t, p>> \in pendingAwaiting <=> pendingByPlayer[p][t] = Awaiting)
  /\ \A w \in V : IsLast(w, V) => (Flag(w) <=> pendingByPlayer[p][t] = Awaiting)

\* An invite writes no flag; it need not, for it finds the mirror empty.
RowsOK(t, p) ==
  /\ Ordered(RowWriters(t, p))
  /\ \A w \in RowWriters(t, p) : via[w] = <<TaskOf[t], TaskOf[p]>>
  /\ MirrorSays(t, p, RowWriters(t, p), pending[t][p])
  /\ \A w \in RowWriters(t, p) :
       pc[w] = "invite@player" => MirrorSays(t, p, RowWriters(t, p) \cap ahead[w], None)
FlagsOK(t, p) ==
  /\ Ordered(FlagWriters(t, p))
  /\ \A w \in FlagWriters(t, p) : via[w] = <<TaskOf[p], TaskOf[All]>>
  /\ IndexSays(t, p, FlagWriters(t, p))
ApprovalOK(t, p) ==
  \A w \in Approvers(t, p) :
    /\ pendingByPlayer[p][t] = None
    /\ pc[w] = "approve@all" => pending[t][p] = None

PairOK(t, p) ==
  /\ Approvers(t, p) = {} => RowsOK(t, p) /\ FlagsOK(t, p)
  /\ ApprovalOK(t, p)

OnRowsTask(s) == pc[s] = "request@team" => via[s][2] = TaskOf[event[s].teamId]

PendingInv == (\A s \in Slots : OnRowsTask(s)) /\ \A t \in Teams, p \in Players : PairOK(t, p)

\* The mirror's last word, when s is not of the queue, is at its front, and
\* joins it.
LEMMA MirrorKept ==
  ASSUME NEW t, NEW p, NEW row, NEW V \in SUBSET Slots, NEW s \in Slots \ V, Aside(s),
         MirrorSays(t, p, V, row), pendingByPlayer'[p][t] = pendingByPlayer[p][t]
  PROVE  MirrorSays(t, p, V, row)'
<1>1. \A w \in V : ahead'[w] = ahead[w] \ {s} /\ RowOf(w)' = RowOf(w)
  BY DEF Aside, RowOf
<1>2. QED
  BY <1>1 DEF MirrorSays, IsLast

LEMMA MirrorFront ==
  ASSUME NEW t, NEW p, NEW row, NEW V \in SUBSET Slots, NEW s \in V, Aside(s), ahead[s] = {},
         Ordered(V), MirrorSays(t, p, V, row), pendingByPlayer'[p][t] = RowOf(s)
  PROVE  MirrorSays(t, p, V \ {s}, row)'
<1>1. \A w \in V \ {s} : RowOf(w)' = RowOf(w)
  BY DEF Aside, RowOf
<1>2. \A w \in V \ {s} : IsLast(w, V \ {s})' => IsLast(w, V)
  BY QueueLeave
<1>3. V \ {s} = {} => RowOf(s) = row
  BY DEF MirrorSays, IsLast
<1>4. QED
  BY <1>1, <1>2, <1>3 DEF MirrorSays

LEMMA MirrorLast ==
  ASSUME NEW t, NEW p, NEW W \in SUBSET Slots, NEW s \in Slots \ W, NEW link, NEW row,
         Aside(s), Joins(s, link), \A w \in W : via[w] = link, Ordered(W), RowOf(s)' = row
  PROVE  MirrorSays(t, p, W \cup {s}, row)'
<1>1. \A w \in W : ~IsLast(w, W \cup {s})'
  BY QueueJoin
<1>2. QED
  BY <1>1 DEF MirrorSays

LEMMA IndexKept ==
  ASSUME NEW t, NEW p, NEW V \in SUBSET Slots, NEW s \in Slots \ V, Aside(s), IndexSays(t, p, V),
         <<t, p>> \in pendingAwaiting' <=> <<t, p>> \in pendingAwaiting,
         pendingByPlayer'[p][t] = Awaiting <=> pendingByPlayer[p][t] = Awaiting
  PROVE  IndexSays(t, p, V)'
<1>1. \A w \in V : ahead'[w] = ahead[w] \ {s} /\ Flag(w)' = Flag(w)
  BY DEF Aside, Flag
<1>2. QED
  BY <1>1 DEF IndexSays, IsLast

\* A step that is not about the pair.
LEMMA RowsKept ==
  ASSUME NEW t, NEW p, NEW s \in Slots, Aside(s), RowsOK(t, p),
         s \notin RowWriters(t, p), s \notin RowWriters(t, p)',
         pending'[t][p] = pending[t][p], pendingByPlayer'[p][t] = pendingByPlayer[p][t]
  PROVE  RowsOK(t, p)'
<1>1. PICK W, row : W = RowWriters(t, p) /\ row = pending[t][p]
  OBVIOUS
<1>2. RowWriters(t, p)' = W /\ W \in SUBSET (Slots \ {s})
  BY <1>1 DEF RowWriters, Concerns, Aside
<1>3. Ordered(W)' /\ \A w \in W : via'[w] = <<TaskOf[t], TaskOf[p]>>
  BY <1>1, <1>2, QueueKept DEF RowsOK, Aside
<1>4. MirrorSays(t, p, W, row)'
  BY <1>1, <1>2, MirrorKept DEF RowsOK
<1>5. ASSUME NEW w \in W, pc'[w] = "invite@player" PROVE MirrorSays(t, p, W \cap ahead[w], None)'
  <2>1. PICK V : V = W \cap ahead[w]
    OBVIOUS
  <2>2. V = (W \cap ahead[w])'
    BY <1>2, <2>1 DEF Aside
  <2>3. MirrorSays(t, p, V, None)
    BY <1>1, <1>2, <1>5, <2>1 DEF RowsOK, Aside
  <2>4. MirrorSays(t, p, V, None)'
    BY <1>2, <2>1, <2>3, MirrorKept
  <2>5. QED
    BY <2>2, <2>4 DEF MirrorSays, IsLast
<1>6. QED
  BY <1>1, <1>2, <1>3, <1>4, <1>5 DEF RowsOK, Ordered, MirrorSays, IsLast

LEMMA FlagsKept ==
  ASSUME NEW t, NEW p, NEW s \in Slots, Aside(s), FlagsOK(t, p),
         s \notin FlagWriters(t, p), s \notin FlagWriters(t, p)',
         <<t, p>> \in pendingAwaiting' <=> <<t, p>> \in pendingAwaiting,
         pendingByPlayer'[p][t] = Awaiting <=> pendingByPlayer[p][t] = Awaiting
  PROVE  FlagsOK(t, p)'
<1>1. PICK W : W = FlagWriters(t, p)
  OBVIOUS
<1>2. FlagWriters(t, p)' = W /\ W \in SUBSET (Slots \ {s})
  BY <1>1 DEF FlagWriters, Concerns, Aside
<1>3. Ordered(W)' /\ \A w \in W : via'[w] = <<TaskOf[p], TaskOf[All]>>
  BY <1>1, <1>2, QueueKept DEF FlagsOK, Aside
<1>4. IndexSays(t, p, W)'
  BY <1>1, <1>2, IndexKept DEF FlagsOK
<1>5. QED
  BY <1>2, <1>3, <1>4 DEF FlagsOK, Ordered, IndexSays, IsLast

\* A row that sets out: it is the last, and $$pending says what it says.
LEMMA RowsJoin ==
  ASSUME NEW t, NEW p, NEW s \in Slots, Aside(s), Joins(s, <<TaskOf[t], TaskOf[p]>>), RowsOK(t, p),
         s \notin RowWriters(t, p), s \in RowWriters(t, p)', pending'[t][p] = RowOf(s)',
         pc'[s] = "invite@player" => pending[t][p] = None,
         pendingByPlayer'[p][t] = pendingByPlayer[p][t]
  PROVE  RowsOK(t, p)'
<1>1. PICK W, row, link : W = RowWriters(t, p) /\ row = RowOf(s)' /\ link = <<TaskOf[t], TaskOf[p]>>
  OBVIOUS
<1>2. RowWriters(t, p)' = W \cup {s} /\ W \in SUBSET (Slots \ {s})
  BY <1>1 DEF RowWriters, Concerns, Aside
<1>3. Joins(s, link) /\ Ordered(W) /\ \A w \in W : via[w] = link
  BY <1>1 DEF RowsOK
<1>4. Ordered(W \cup {s})' /\ \A w \in W \cup {s} : via'[w] = link
  BY <1>2, <1>3, QueueJoin DEF Aside, Joins
<1>5. MirrorSays(t, p, W \cup {s}, row)'
  BY <1>1, <1>2, <1>3, MirrorLast
<1>6. ASSUME NEW w \in W \cup {s}, pc'[w] = "invite@player"
      PROVE  MirrorSays(t, p, (W \cup {s}) \cap ahead[w], None)'
  <2>1. PICK V : V = IF w = s THEN W ELSE W \cap ahead[w]
    OBVIOUS
  <2>2. V = ((W \cup {s}) \cap ahead[w])' /\ V \in SUBSET (Slots \ {s})
    BY <1>2, <1>3, <2>1 DEF Aside, Joins
  <2>3. MirrorSays(t, p, V, None)
    BY <1>1, <1>2, <1>6, <2>1 DEF RowsOK, Aside
  <2>4. MirrorSays(t, p, V, None)'
    BY <2>2, <2>3, MirrorKept
  <2>5. QED
    BY <2>2, <2>4 DEF MirrorSays, IsLast
<1>7. QED
  BY <1>1, <1>2, <1>4, <1>5, <1>6 DEF RowsOK, Ordered, MirrorSays, IsLast

\* A row that arrives: it was the first, and the mirror says what it says.
LEMMA RowsFront ==
  ASSUME NEW t, NEW p, NEW s \in Slots, Aside(s), ahead[s] = {}, RowsOK(t, p),
         s \in RowWriters(t, p), s \notin RowWriters(t, p)', pending'[t][p] = pending[t][p],
         pendingByPlayer'[p][t] = RowOf(s)
  PROVE  RowsOK(t, p)'
<1>1. PICK W, row : W = RowWriters(t, p) /\ row = pending[t][p]
  OBVIOUS
<1>2. RowWriters(t, p)' = W \ {s} /\ W \in SUBSET Slots /\ s \in W
  BY <1>1 DEF RowWriters, Concerns, Aside
<1>3. Ordered(W)
  BY <1>1 DEF RowsOK
<1>4. Ordered(W \ {s})' /\ \A w \in W \ {s} : via'[w] = <<TaskOf[t], TaskOf[p]>>
  BY <1>1, <1>2, <1>3, QueueLeave DEF RowsOK, Aside
<1>5. MirrorSays(t, p, W \ {s}, row)'
  BY <1>1, <1>2, <1>3, MirrorFront DEF RowsOK
<1>6. ASSUME NEW w \in W \ {s}, pc'[w] = "invite@player"
      PROVE  MirrorSays(t, p, (W \ {s}) \cap ahead[w], None)'
  <2>1. PICK V : V = W \cap ahead[w]
    OBVIOUS
  <2>2. s \in V /\ V \in SUBSET Slots /\ V \ {s} = ((W \ {s}) \cap ahead[w])' /\ Ordered(V)
    BY <1>2, <1>3, <2>1 DEF Aside, Ordered
  <2>3. MirrorSays(t, p, V, None)
    BY <1>1, <1>2, <1>6, <2>1 DEF RowsOK, Aside
  <2>4. MirrorSays(t, p, V \ {s}, None)'
    BY <2>2, <2>3, MirrorFront
  <2>5. QED
    BY <2>2, <2>4 DEF MirrorSays, IsLast
<1>7. QED
  BY <1>1, <1>2, <1>4, <1>5, <1>6 DEF RowsOK, Ordered, MirrorSays, IsLast

\* An invite that arrives finds an empty mirror.
LEMMA InviteFront ==
  ASSUME NEW t, NEW p, NEW s \in RowWriters(t, p), ahead[s] = {}, RowsOK(t, p), pc[s] = "invite@player"
  PROVE  pendingByPlayer[p][t] = None
<1>1. RowWriters(t, p) \cap ahead[s] = {}
  OBVIOUS
<1>2. QED
  BY <1>1 DEF RowsOK, MirrorSays

\* A flag that sets out with what the mirror now says, and one that arrives.
LEMMA FlagsJoin ==
  ASSUME NEW t, NEW p, NEW s \in Slots, Aside(s), Joins(s, <<TaskOf[p], TaskOf[All]>>), FlagsOK(t, p),
         s \notin FlagWriters(t, p), s \in FlagWriters(t, p)',
         Flag(s)' <=> pendingByPlayer'[p][t] = Awaiting
  PROVE  FlagsOK(t, p)'
<1>1. PICK W, link : W = FlagWriters(t, p) /\ link = <<TaskOf[p], TaskOf[All]>>
  OBVIOUS
<1>2. FlagWriters(t, p)' = W \cup {s} /\ W \in SUBSET (Slots \ {s})
  BY <1>1 DEF FlagWriters, Concerns, Aside
<1>3. Joins(s, link) /\ Ordered(W) /\ \A w \in W : via[w] = link
  BY <1>1 DEF FlagsOK
<1>4. Ordered(W \cup {s})' /\ \A w \in W : ~IsLast(w, W \cup {s})'
  BY <1>2, <1>3, QueueJoin
<1>5. \A w \in W \cup {s} : via'[w] = link
  BY <1>2, <1>3 DEF Aside, Joins
<1>6. IndexSays(t, p, W \cup {s})'
  BY <1>4 DEF IndexSays
<1>7. QED
  BY <1>1, <1>2, <1>4, <1>5, <1>6 DEF FlagsOK, Ordered, IndexSays, IsLast

LEMMA FlagsFront ==
  ASSUME NEW t, NEW p, NEW s \in Slots, Aside(s), ahead[s] = {}, FlagsOK(t, p),
         s \in FlagWriters(t, p), s \notin FlagWriters(t, p)',
         <<t, p>> \in pendingAwaiting' <=> Flag(s),
         pendingByPlayer'[p][t] = pendingByPlayer[p][t]
  PROVE  FlagsOK(t, p)'
<1>1. PICK W : W = FlagWriters(t, p)
  OBVIOUS
<1>2. FlagWriters(t, p)' = W \ {s} /\ W \in SUBSET Slots /\ s \in W
  BY <1>1 DEF FlagWriters, Concerns, Aside
<1>3. Ordered(W) /\ IndexSays(t, p, W)
  BY <1>1 DEF FlagsOK
<1>4. Ordered(W \ {s})' /\ \A w \in W \ {s} : IsLast(w, W \ {s})' => IsLast(w, W)
  BY <1>2, <1>3, QueueLeave
<1>5. \A w \in W \ {s} : via'[w] = <<TaskOf[p], TaskOf[All]>>
  BY <1>1, <1>2 DEF FlagsOK, Aside
<1>6. IndexSays(t, p, W \ {s})'
  <2>1. \A w \in W \ {s} : Flag(w)' = Flag(w)
    BY <1>2 DEF Aside, Flag
  <2>2. W \ {s} = {} => IsLast(s, W)
    BY <1>2 DEF IsLast
  <2>3. QED
    BY <1>2, <1>3, <1>4, <2>1, <2>2 DEF IndexSays
<1>7. QED
  BY <1>2, <1>4, <1>5, <1>6 DEF FlagsOK, Ordered, IndexSays, IsLast

\* What a step may change: the rows of one pair, in which one slot moves.
OnlyPair(t, p) ==
  \A u \in Teams, q \in Players : <<u, q>> # <<t, p>> =>
    /\ pending'[u][q] = pending[u][q] /\ pendingByPlayer'[q][u] = pendingByPlayer[q][u]
    /\ <<u, q>> \in pendingAwaiting' <=> <<u, q>> \in pendingAwaiting

LEMMA PairKept ==
  ASSUME NEW s \in Slots, NEW t, NEW p, Aside(s), PairOK(t, p),
         pc[s] \in PendingLabels => ~Concerns(s, t, p),
         pc'[s] \in PendingLabels => ~Concerns(s, t, p)',
         pending'[t][p] = pending[t][p], pendingByPlayer'[p][t] = pendingByPlayer[p][t],
         <<t, p>> \in pendingAwaiting' <=> <<t, p>> \in pendingAwaiting
  PROVE  PairOK(t, p)'
<1>1. /\ s \notin RowWriters(t, p) /\ s \notin RowWriters(t, p)'
      /\ s \notin FlagWriters(t, p) /\ s \notin FlagWriters(t, p)'
  BY DEF RowWriters, FlagWriters, PendingLabels
<1>2. Approvers(t, p)' = Approvers(t, p) /\ \A w \in Approvers(t, p) : pc'[w] = pc[w]
  BY DEF Approvers, PendingLabels, Concerns, Aside
<1>3. RowsOK(t, p) => RowsOK(t, p)'
  BY <1>1, RowsKept
<1>4. FlagsOK(t, p) => FlagsOK(t, p)'
  BY <1>1, FlagsKept
<1>5. ApprovalOK(t, p)'
  BY <1>2 DEF ApprovalOK, PairOK
<1>6. QED
  BY <1>2, <1>3, <1>4, <1>5 DEF PairOK

\* The pairs that a step is not about.
LEMMA OtherPairs ==
  ASSUME PendingInv, NEW s \in Slots, NEW t \in Teams, NEW p \in Players, Aside(s), OnlyPair(t, p),
         pc[s] \in PendingLabels => Concerns(s, t, p),
         pc'[s] \in PendingLabels => Concerns(s, t, p)',
         OnRowsTask(s)', PairOK(t, p)'
  PROVE  PendingInv'
<1>1. ASSUME NEW o \in Slots \ {s} PROVE OnRowsTask(o)'
  <2>1. OnRowsTask(o)
    BY DEF PendingInv
  <2>2. QED
    BY <2>1 DEF Aside, OnRowsTask
<1>2. ASSUME NEW u \in Teams, NEW q \in Players, <<u, q>> # <<t, p>> PROVE PairOK(u, q)'
  <2>1. PairOK(u, q)
    BY DEF PendingInv
  <2>2. /\ pc[s] \in PendingLabels => ~Concerns(s, u, q)
        /\ pc'[s] \in PendingLabels => ~Concerns(s, u, q)'
    BY <1>2 DEF Concerns
  <2>3. /\ pending'[u][q] = pending[u][q] /\ pendingByPlayer'[q][u] = pendingByPlayer[q][u]
        /\ <<u, q>> \in pendingAwaiting' <=> <<u, q>> \in pendingAwaiting
    BY <1>2 DEF OnlyPair
  <2>4. QED
    BY <2>1, <2>2, <2>3, PairKept
<1>3. QED
  BY <1>1, <1>2 DEF PendingInv

\* A step about no pair at all.
LEMMA PendingRests ==
  ASSUME PendingInv, NEW s \in Slots, Aside(s), UNCHANGED pendingVars, OnRowsTask(s)',
         pc[s] \notin PendingLabels, pc'[s] \notin PendingLabels
  PROVE  PendingInv'
<1>1. ASSUME NEW o \in Slots \ {s} PROVE OnRowsTask(o)'
  <2>1. OnRowsTask(o)
    BY DEF PendingInv
  <2>2. QED
    BY <2>1 DEF Aside, OnRowsTask
<1>2. ASSUME NEW u \in Teams, NEW q \in Players PROVE PairOK(u, q)'
  <2>1. PairOK(u, q)
    BY DEF PendingInv
  <2>2. QED
    BY <2>1, PairKept DEF pendingVars
<1>3. QED
  BY <1>1, <1>2 DEF PendingInv

\* What the premise says of one pair.
LEMMA NoApprover ==
  ASSUME ApprovesAlone, NEW s \in Slots, NEW t, NEW p, Concerns(s, t, p),
         pc[s] \in RowLabels \cup FlagLabels
  PROVE  Approvers(t, p) = {}
  BY DEF ApprovesAlone, Approvers, Concerns, PendingLabels, RowLabels, FlagLabels, ApproveLabels

LEMMA ApproverAlone ==
  ASSUME ApprovesAlone, NEW s \in Slots, NEW t, NEW p, Concerns(s, t, p), pc[s] \in ApproveLabels
  PROVE  Approvers(t, p) = {s} /\ RowWriters(t, p) = {} /\ FlagWriters(t, p) = {}
  BY DEF ApprovesAlone, Approvers, RowWriters, FlagWriters, Concerns, PendingLabels,
       RowLabels, FlagLabels, ApproveLabels

\* $$pending is written and its row sets out for the mirror.
LEMMA RowStarts ==
  ASSUME PendingInv, ApprovesAlone', NEW s \in Slots, NEW t \in Teams, NEW p \in Players,
         Aside(s), Joins(s, <<TaskOf[t], TaskOf[p]>>), OnlyPair(t, p),
         pc[s] \notin PendingLabels, pc'[s] \in RowLabels, Concerns(s, t, p)',
         pending'[t][p] = RowOf(s)', pc'[s] = "invite@player" => pending[t][p] = None,
         UNCHANGED <<pendingByPlayer, pendingAwaiting>>
  PROVE  PendingInv'
<1>1. Approvers(t, p)' = {}
  BY DEF ApprovesAlone, Approvers, Concerns, PendingLabels, RowLabels, ApproveLabels
<1>2. Approvers(t, p) = {}
  BY <1>1 DEF Approvers, Concerns, Aside, PendingLabels
<1>3. RowsOK(t, p) /\ FlagsOK(t, p)
  BY <1>2 DEF PendingInv, PairOK
<1>4. s \notin RowWriters(t, p) /\ s \in RowWriters(t, p)'
  BY DEF RowWriters, PendingLabels
<1>5. s \notin FlagWriters(t, p) /\ s \notin FlagWriters(t, p)'
  BY DEF FlagWriters, PendingLabels, RowLabels, FlagLabels
<1>6. RowsOK(t, p)'
  BY <1>3, <1>4, RowsJoin
<1>7. FlagsOK(t, p)'
  BY <1>3, <1>5, FlagsKept
<1>8. PairOK(t, p)'
  BY <1>1, <1>6, <1>7 DEF PairOK, ApprovalOK
<1>9. OnRowsTask(s)'
  BY DEF OnRowsTask, RowLabels
<1>10. QED
  BY <1>8, <1>9, OtherPairs

\* A row arrives: the mirror takes it, and its flag sets out.
LEMMA RowArrives ==
  ASSUME PendingInv, ApprovesAlone, NEW s \in Slots, NEW t \in Teams, NEW p \in Players,
         Aside(s), ahead[s] = {}, OnlyPair(t, p), pc[s] \in RowLabels, Concerns(s, t, p),
         UNCHANGED <<pending, pendingAwaiting>>, pendingByPlayer'[p][t] = RowOf(s),
         \/ /\ pc'[s] \in FlagLabels /\ Concerns(s, t, p)' /\ Joins(s, <<TaskOf[p], TaskOf[All]>>)
            /\ Flag(s)' <=> RowOf(s) = Awaiting
         \/ pc[s] = "invite@player" /\ pc'[s] = "idle"
  PROVE  PendingInv'
<1>1. Approvers(t, p) = {} /\ Approvers(t, p)' = {}
  <2>1. Approvers(t, p) = {}
    BY NoApprover
  <2>2. pc'[s] \notin ApproveLabels
    BY DEF FlagLabels, ApproveLabels
  <2>3. QED
    BY <2>1, <2>2 DEF Approvers, Concerns, Aside
<1>2. RowsOK(t, p) /\ FlagsOK(t, p)
  BY <1>1 DEF PendingInv, PairOK
<1>3. s \in RowWriters(t, p) /\ s \notin RowWriters(t, p)'
  BY DEF RowWriters, RowLabels, FlagLabels
<1>4. s \notin FlagWriters(t, p)
  BY DEF FlagWriters, RowLabels, FlagLabels
<1>5. RowsOK(t, p)'
  BY <1>2, <1>3, RowsFront
<1>6. FlagsOK(t, p)'
  <2>1. CASE pc'[s] \in FlagLabels
    <3>1. s \in FlagWriters(t, p)' /\ Joins(s, <<TaskOf[p], TaskOf[All]>>) /\ (Flag(s)' <=> RowOf(s) = Awaiting)
      BY <2>1 DEF FlagWriters, FlagLabels
    <3>2. QED
      BY <1>2, <1>4, <3>1, FlagsJoin
  <2>2. CASE pc[s] = "invite@player" /\ pc'[s] = "idle"
    <3>1. pendingByPlayer[p][t] = None /\ pendingByPlayer'[p][t] = Invited
      BY <1>2, <1>3, <2>2, InviteFront DEF RowOf
    <3>2. None # Awaiting /\ Invited # Awaiting
      BY NoneAssumption DEF Invited, Awaiting
    <3>3. s \notin FlagWriters(t, p)'
      BY <2>2 DEF FlagWriters, FlagLabels
    <3>4. QED
      BY <1>2, <1>4, <3>1, <3>2, <3>3, FlagsKept
  <2>3. QED
    BY <2>1, <2>2
<1>7. PairOK(t, p)'
  BY <1>1, <1>5, <1>6 DEF PairOK, ApprovalOK
<1>8. OnRowsTask(s)' /\ (pc'[s] \in PendingLabels => Concerns(s, t, p)')
  BY DEF OnRowsTask, PendingLabels, RowLabels, FlagLabels, ApproveLabels
<1>9. QED
  BY <1>7, <1>8, OtherPairs

\* A flag arrives: the index takes it.
LEMMA FlagArrives ==
  ASSUME PendingInv, ApprovesAlone, NEW s \in Slots, NEW t \in Teams, NEW p \in Players,
         Aside(s), ahead[s] = {}, OnlyPair(t, p), pc[s] \in FlagLabels, Concerns(s, t, p),
         UNCHANGED <<pending, pendingByPlayer>>, <<t, p>> \in pendingAwaiting' <=> Flag(s),
         pc'[s] = "idle"
  PROVE  PendingInv'
<1>1. Approvers(t, p) = {} /\ Approvers(t, p)' = {}
  <2>1. Approvers(t, p) = {}
    BY NoApprover
  <2>2. QED
    BY <2>1 DEF Approvers, Concerns, Aside, ApproveLabels
<1>2. RowsOK(t, p) /\ FlagsOK(t, p)
  BY <1>1 DEF PendingInv, PairOK
<1>3. s \in FlagWriters(t, p) /\ s \notin FlagWriters(t, p)'
  BY DEF FlagWriters, FlagLabels
<1>4. s \notin RowWriters(t, p) /\ s \notin RowWriters(t, p)'
  BY DEF RowWriters, RowLabels, FlagLabels
<1>5. RowsOK(t, p)'
  BY <1>2, <1>4, RowsKept
<1>6. FlagsOK(t, p)'
  BY <1>2, <1>3, FlagsFront
<1>7. PairOK(t, p)'
  BY <1>1, <1>5, <1>6 DEF PairOK, ApprovalOK
<1>8. OnRowsTask(s)' /\ pc'[s] \notin PendingLabels
  BY DEF OnRowsTask, PendingLabels, RowLabels, FlagLabels, ApproveLabels
<1>9. QED
  BY <1>7, <1>8, OtherPairs

\* An approve starts with the mirror and goes on to the row.
LEMMA ApproveMoves ==
  ASSUME PendingInv, ApprovesAlone', NEW s \in Slots, NEW t \in Teams, NEW p \in Players,
         Aside(s), OnlyPair(t, p), pc[s] \notin RowLabels \cup FlagLabels,
         pc[s] \in PendingLabels => Concerns(s, t, p),
         pc'[s] \in ApproveLabels, Concerns(s, t, p)', pendingByPlayer'[p][t] = None,
         pc'[s] = "approve@all" => pending'[t][p] = None
  PROVE  PendingInv'
<1>1. Approvers(t, p)' = {s}
  BY DEF ApprovesAlone, Approvers, Concerns, PendingLabels
<1>2. PairOK(t, p)'
  BY <1>1 DEF PairOK, ApprovalOK
<1>3. OnRowsTask(s)'
  BY DEF OnRowsTask, ApproveLabels
<1>4. QED
  BY <1>2, <1>3, OtherPairs

\* An approve ends with the index.
LEMMA ApproveEnds ==
  ASSUME PendingInv, ApprovesAlone, NEW s \in Slots, NEW t \in Teams, NEW p \in Players,
         Aside(s), OnlyPair(t, p), pc[s] = "approve@all", Concerns(s, t, p), pc'[s] = "idle",
         UNCHANGED <<pending, pendingByPlayer>>, <<t, p>> \notin pendingAwaiting'
  PROVE  PendingInv'
<1>1. pendingByPlayer[p][t] = None /\ pending[t][p] = None
  BY DEF PendingInv, PairOK, ApprovalOK, Approvers, ApproveLabels
<1>2. Approvers(t, p) = {s} /\ RowWriters(t, p) = {} /\ FlagWriters(t, p) = {}
  BY ApproverAlone DEF ApproveLabels
<1>3. Approvers(t, p)' = {} /\ RowWriters(t, p)' = {} /\ FlagWriters(t, p)' = {}
  BY <1>2 DEF Approvers, RowWriters, FlagWriters, Concerns, Aside, RowLabels, FlagLabels, ApproveLabels
<1>4. None # Awaiting
  BY NoneAssumption
<1>5. RowsOK(t, p)' /\ FlagsOK(t, p)'
  BY <1>1, <1>3, <1>4 DEF RowsOK, FlagsOK, Ordered, MirrorSays, IndexSays
<1>6. PairOK(t, p)'
  BY <1>3, <1>5 DEF PairOK, ApprovalOK
<1>7. OnRowsTask(s)' /\ pc'[s] \notin PendingLabels
  BY DEF OnRowsTask, PendingLabels, RowLabels, FlagLabels, ApproveLabels
<1>8. QED
  BY <1>6, <1>7, OtherPairs DEF PendingLabels, ApproveLabels

\* One write of $$pending, and one of its mirror.
LEMMA OneRow ==
  ASSUME TypeInv, NEW t \in Teams, NEW p \in Players, NEW row, pending' = [pending EXCEPT ![t][p] = row],
         UNCHANGED <<pendingByPlayer, pendingAwaiting>>
  PROVE  pending'[t][p] = row /\ OnlyPair(t, p)
<1>1. pending \in [Teams -> [Players -> {Invited, Awaiting, None}]]
  BY StoresTyped DEF StoresOK
<1>2. QED
  BY <1>1 DEF OnlyPair

LEMMA OneMirror ==
  ASSUME TypeInv, NEW t \in Teams, NEW p \in Players, NEW row,
         pendingByPlayer' = [pendingByPlayer EXCEPT ![p][t] = row], UNCHANGED <<pending, pendingAwaiting>>
  PROVE  pendingByPlayer'[p][t] = row /\ OnlyPair(t, p)
<1>1. pendingByPlayer \in [Players -> [Teams -> {Invited, Awaiting, None}]]
  BY StoresTyped DEF StoresOK
<1>2. QED
  BY <1>1 DEF OnlyPair

\* The pair that a continuation is about.
LEMMA PendingPair ==
  ASSUME TypeInv, NEW s \in Slots, pc[s] \in PendingLabels \cup {"request@team", "approve@player"}
  PROVE  event[s].teamId \in Teams /\ event[s].steamId \in Players
<1>1. pc[s] \in MemberLabels
  BY DEF PendingLabels, RowLabels, FlagLabels, ApproveLabels, MemberLabels, CreateLabels, Labels
<1>2. event[s] \in MemberEvent
  BY <1>1 DEF TypeInv, Carries
<1>3. QED
  BY <1>2 DEF MemberEvent

LEMMA PendingOnLaunch ==
  ASSUME TypeInv, PendingInv, NEW s \in Slots, NEW e, NEW key, NEW dest, NEW label, NEW mem,
         Launch(s, e, key, dest, label, mem), UNCHANGED pendingVars,
         label \notin PendingLabels \cup {"request@team"}
  PROVE  PendingInv'
<1>1. Aside(s) /\ pc[s] = "idle" /\ pc'[s] = label
  BY LaunchJoins
<1>2. pc[s] \notin PendingLabels /\ OnRowsTask(s)'
  BY <1>1 DEF PendingLabels, RowLabels, FlagLabels, ApproveLabels, OnRowsTask
<1>3. QED
  BY <1>1, <1>2, PendingRests

LEMMA PendingOnHop ==
  ASSUME TypeInv, PendingInv, NEW s \in Slots, NEW dest, NEW label, Hop(s, dest, label, NoLocals),
         UNCHANGED pendingVars, pc[s] \notin PendingLabels, label \notin PendingLabels,
         label = "request@team" => dest = event[s].teamId
  PROVE  PendingInv'
<1>1. PICK k : k = via[s][2]
  OBVIOUS
<1>2. Aside(s) /\ Joins(s, <<k, TaskOf[dest]>>) /\ pc'[s] = label /\ event'[s] = event[s]
  BY <1>1, HopJoins
<1>3. OnRowsTask(s)'
  BY <1>2 DEF OnRowsTask, Joins
<1>4. QED
  BY <1>2, <1>3, PendingRests

LEMMA PendingOnFinish ==
  ASSUME TypeInv, PendingInv, NEW s \in Slots, Finish(s), UNCHANGED pendingVars, pc[s] \notin PendingLabels
  PROVE  PendingInv'
<1>1. Aside(s) /\ pc'[s] = "idle"
  BY FinishLeaves
<1>2. pc'[s] \notin PendingLabels /\ OnRowsTask(s)'
  BY <1>1 DEF PendingLabels, RowLabels, FlagLabels, ApproveLabels, OnRowsTask
<1>3. QED
  BY <1>1, <1>2, PendingRests

LEMMA SetPendingPending ==
  ASSUME TypeInv, PendingInv, ApprovesAlone', NEW s \in Slots, NEW e \in Events,
         DeclinePending(s, e) \/ CreateInvite(s, e) \/ AcceptInvite(s, e)
  PROVE  PendingInv'
<1>1. PICK t, p : t = e.teamId /\ p = e.steamId
  OBVIOUS
<1>2. t \in Teams /\ p \in Players
  BY <1>1, EventKinds DEF DeclinePending, CreateInvite, AcceptInvite, MemberOps, MemberEvent
<1>3. PICK row \in {None, Invited, Awaiting}, label \in {"decline@player", "invite@player", "accept@player"} :
        /\ SetPending(e, row, s, label)
        /\ row = (IF label = "decline@player" THEN None ELSE IF label = "invite@player" THEN Invited ELSE Awaiting)
        /\ label = "invite@player" => pending[t][p] = None
  BY <1>1 DEF DeclinePending, CreateInvite, AcceptInvite
<1>4. pending' = [pending EXCEPT ![t][p] = row] /\ UNCHANGED <<pendingByPlayer, pendingAwaiting>>
  BY <1>1, <1>3 DEF SetPending
<1>5. /\ Aside(s) /\ Joins(s, <<TaskOf[t], TaskOf[p]>>)
      /\ pc[s] = "idle" /\ pc'[s] = label /\ event'[s] = e
  <2>1. PICK mem : mem = NoLocals
    OBVIOUS
  <2>2. Launch(s, e, t, p, label, mem)
    BY <1>1, <1>3, <2>1 DEF SetPending
  <2>3. QED
    BY <2>2, LaunchJoins
<1>6. pending'[t][p] = row /\ OnlyPair(t, p)
  BY <1>2, <1>4, OneRow
<1>7. RowOf(s)' = row
  BY <1>3, <1>5 DEF RowOf
<1>8. Concerns(s, t, p)' /\ pc[s] \notin PendingLabels /\ pc'[s] \in RowLabels
  BY <1>1, <1>5 DEF Concerns, PendingLabels, RowLabels, FlagLabels, ApproveLabels
<1>9. QED
  BY <1>2, <1>3, <1>4, <1>5, <1>6, <1>7, <1>8, RowStarts

LEMMA RequestRowPending ==
  ASSUME TypeInv, PendingInv, ApprovesAlone', NEW s \in Slots, RequestRow(s)
  PROVE  PendingInv'
<1>1. PICK t, p, k : t = event[s].teamId /\ p = event[s].steamId /\ k = via[s][2]
  OBVIOUS
<1>2. pc[s] = "request@team"
  BY DEF RequestRow, Ready
<1>3. t \in Teams /\ p \in Players
  BY <1>1, <1>2, PendingPair
<1>4. k = TaskOf[t]
  BY <1>1, <1>2 DEF PendingInv, OnRowsTask
<1>5. pending' = [pending EXCEPT ![t][p] = Awaiting] /\ UNCHANGED <<pendingByPlayer, pendingAwaiting>>
  BY <1>1 DEF RequestRow
<1>6. /\ Aside(s) /\ Joins(s, <<k, TaskOf[p]>>)
      /\ pc'[s] = "request@player-index" /\ event'[s] = event[s]
  <2>1. PICK mem : mem = NoLocals
    OBVIOUS
  <2>2. Hop(s, p, "request@player-index", mem)
    BY <1>1, <2>1 DEF RequestRow
  <2>3. QED
    BY <1>1, <2>2, HopJoins
<1>7. pending'[t][p] = Awaiting /\ OnlyPair(t, p)
  BY <1>3, <1>5, OneRow
<1>8. RowOf(s)' = Awaiting /\ pc'[s] # "invite@player"
  BY <1>6 DEF RowOf
<1>9. Concerns(s, t, p)' /\ pc[s] \notin PendingLabels /\ pc'[s] \in RowLabels
  BY <1>1, <1>2, <1>6 DEF Concerns, PendingLabels, RowLabels, FlagLabels, ApproveLabels
<1>10. QED
  BY <1>3, <1>4, <1>5, <1>6, <1>7, <1>8, <1>9, RowStarts

LEMMA MirrorPending ==
  ASSUME TypeInv, PendingInv, ApprovesAlone, NEW s \in Slots,
         RequestMirror(s) \/ DeclineMirror(s) \/ InviteMirror(s) \/ AcceptMirror(s)
  PROVE  PendingInv'
<1>1. PICK t, p, k, row : t = event[s].teamId /\ p = event[s].steamId /\ k = via[s][2] /\ row = RowOf(s)
  OBVIOUS
<1>2. pc[s] \in RowLabels /\ ahead[s] = {} /\ Concerns(s, t, p)
  BY <1>1 DEF RequestMirror, DeclineMirror, InviteMirror, AcceptMirror, Ready, RowLabels, Concerns
<1>3. t \in Teams /\ p \in Players
  BY <1>1, <1>2, PendingPair DEF PendingLabels
<1>4. k = TaskOf[p]
  <2>1. RowsOK(t, p)
    BY <1>2, <1>3, NoApprover DEF PendingInv, PairOK
  <2>2. via[s] = <<TaskOf[t], TaskOf[p]>>
    BY <1>2, <2>1 DEF RowsOK, RowWriters
  <2>3. QED
    BY <1>1, <2>2
<1>5. pendingByPlayer' = [pendingByPlayer EXCEPT ![p][t] = row] /\ UNCHANGED <<pending, pendingAwaiting>>
  BY <1>1 DEF RequestMirror, DeclineMirror, InviteMirror, AcceptMirror, SetPendingByPlayer, Ready, RowOf
<1>6. pendingByPlayer'[p][t] = RowOf(s) /\ OnlyPair(t, p)
  <2>1. pendingByPlayer'[p][t] = row /\ OnlyPair(t, p)
    BY <1>3, <1>5, OneMirror
  <2>2. QED
    BY <1>1, <2>1
<1>7. ASSUME NEW label \in FlagLabels, Hop(s, All, label, NoLocals), label # "decline@all" <=> RowOf(s) = Awaiting
      PROVE  PendingInv'
  <2>1. Aside(s) /\ Joins(s, <<k, TaskOf[All]>>) /\ pc'[s] = label /\ event'[s] = event[s]
    <3>1. PICK mem, dest : mem = NoLocals /\ dest = All
      OBVIOUS
    <3>2. Hop(s, dest, label, mem)
      BY <1>7, <3>1
    <3>3. Aside(s) /\ Joins(s, <<k, TaskOf[dest]>>) /\ pc'[s] = label /\ event'[s] = event[s]
      BY <1>1, <3>2, HopJoins
    <3>4. QED
      BY <3>1, <3>3
  <2>2. Concerns(s, t, p)' /\ pc'[s] \in FlagLabels /\ (Flag(s)' <=> RowOf(s) = Awaiting)
    BY <1>2, <1>7, <2>1 DEF Concerns, Flag
  <2>3. QED
    BY <1>2, <1>3, <1>4, <1>5, <1>6, <2>1, <2>2, RowArrives
<1>8. None # Awaiting
  BY NoneAssumption
<1>9. CASE RequestMirror(s)
  BY <1>7, <1>9 DEF RequestMirror, Ready, RowOf, FlagLabels
<1>10. CASE DeclineMirror(s)
  BY <1>7, <1>8, <1>10 DEF DeclineMirror, Ready, RowOf, FlagLabels
<1>11. CASE AcceptMirror(s)
  BY <1>7, <1>11 DEF AcceptMirror, Ready, RowOf, FlagLabels
<1>12. CASE InviteMirror(s)
  <2>1. pc[s] = "invite@player" /\ Finish(s)
    BY <1>12 DEF InviteMirror, Ready
  <2>2. Aside(s) /\ pc'[s] = "idle"
    BY <2>1, FinishLeaves
  <2>3. QED
    BY <1>2, <1>3, <1>5, <1>6, <2>1, <2>2, RowArrives
<1>13. QED
  BY <1>9, <1>10, <1>11, <1>12

LEMMA AwaitingPending ==
  ASSUME TypeInv, PendingInv, ApprovesAlone, NEW s \in Slots, AwaitingAdd(s) \/ AwaitingRemove(s)
  PROVE  PendingInv'
<1>1. PICK t, p : t = event[s].teamId /\ p = event[s].steamId
  OBVIOUS
<1>2. pc[s] \in FlagLabels \cup {"approve@all"} /\ ahead[s] = {} /\ Concerns(s, t, p) /\ Finish(s)
  BY <1>1 DEF AwaitingAdd, AwaitingRemove, Ready, FlagLabels, Concerns
<1>3. t \in Teams /\ p \in Players
  BY <1>1, <1>2, PendingPair DEF PendingLabels, ApproveLabels
<1>4. Aside(s) /\ pc'[s] = "idle"
  BY <1>2, FinishLeaves
<1>5. /\ UNCHANGED <<pending, pendingByPlayer>> /\ OnlyPair(t, p)
      /\ <<t, p>> \in pendingAwaiting' <=> pc[s] \in {"request@all", "accept@all"}
  BY <1>1 DEF AwaitingAdd, AwaitingRemove, Ready, OnlyPair, PendingKey
<1>6. CASE pc[s] \in FlagLabels
  <2>1. <<t, p>> \in pendingAwaiting' <=> Flag(s)
    BY <1>5, <1>6 DEF Flag, FlagLabels
  <2>2. QED
    BY <1>2, <1>3, <1>4, <1>5, <1>6, <2>1, FlagArrives
<1>7. CASE pc[s] = "approve@all"
  BY <1>2, <1>3, <1>4, <1>5, <1>7, ApproveEnds
<1>8. QED
  BY <1>2, <1>6, <1>7

LEMMA ApprovePendings ==
  ASSUME TypeInv, PendingInv, ApprovesAlone', NEW s \in Slots, ApproveClaim(s) \/ ApproveSeat(s)
  PROVE  PendingInv'
<1>1. PICK t, p : t = event[s].teamId /\ p = event[s].steamId
  OBVIOUS
<1>2. pc[s] \in {"approve@player", "approve@team"} /\ Concerns(s, t, p)
  BY <1>1 DEF ApproveClaim, ApproveSeat, Ready, Concerns
<1>3. t \in Teams /\ p \in Players
  BY <1>1, <1>2, PendingPair DEF PendingLabels, ApproveLabels
<1>4. pc[s] \notin RowLabels \cup FlagLabels /\ (pc[s] \in PendingLabels => Concerns(s, t, p))
  BY <1>2 DEF RowLabels, FlagLabels
<1>5. CASE ApproveClaim(s)
  <2>1. CASE Finish(s) /\ UNCHANGED pendingVars
    <3>1. pc[s] \notin PendingLabels
      BY <1>5 DEF ApproveClaim, Ready, PendingLabels, RowLabels, FlagLabels, ApproveLabels
    <3>2. QED
      BY <2>1, <3>1, PendingOnFinish
  <2>2. CASE /\ pendingByPlayer' = [pendingByPlayer EXCEPT ![p][t] = None]
             /\ Hop(s, t, "approve@team", NoLocals)
    <3>1. Aside(s) /\ pc'[s] = "approve@team" /\ event'[s] = event[s]
      BY <2>2, HopGoes
    <3>2. pendingByPlayer'[p][t] = None /\ OnlyPair(t, p)
      BY <1>3, <1>5, <2>2, OneMirror DEF ApproveClaim
    <3>3. Concerns(s, t, p)' /\ pc'[s] \in ApproveLabels
      BY <1>2, <3>1 DEF Concerns, ApproveLabels
    <3>4. QED
      BY <1>3, <1>4, <3>1, <3>2, <3>3, ApproveMoves
  <2>3. QED
    BY <1>1, <1>5, <2>1, <2>2 DEF ApproveClaim, pendingVars
<1>6. CASE ApproveSeat(s)
  <2>1. /\ pc[s] = "approve@team" /\ Hop(s, All, "approve@all", NoLocals)
        /\ pending' = [pending EXCEPT ![t][p] = None] /\ UNCHANGED <<pendingByPlayer, pendingAwaiting>>
    BY <1>1, <1>6 DEF ApproveSeat, Ready
  <2>2. Aside(s) /\ pc'[s] = "approve@all" /\ event'[s] = event[s]
    BY <2>1, HopGoes
  <2>3. pending'[t][p] = None /\ OnlyPair(t, p)
    BY <1>3, <2>1, OneRow
  <2>4. pendingByPlayer'[p][t] = None
    BY <1>2, <1>3, <2>1 DEF PendingInv, PairOK, ApprovalOK, Approvers, ApproveLabels
  <2>5. Concerns(s, t, p)' /\ pc'[s] \in ApproveLabels
    BY <1>2, <2>2 DEF Concerns, ApproveLabels
  <2>6. QED
    BY <1>3, <1>4, <2>2, <2>3, <2>4, <2>5, ApproveMoves
<1>7. QED
  BY <1>5, <1>6

LEMMA SubmitPending ==
  ASSUME TypeInv, PendingInv, ApprovesAlone', NEW s \in Slots, NEW e \in Events, Submit(s, e)
  PROVE  PendingInv'
<1> USE DEF PendingLabels, RowLabels, FlagLabels, ApproveLabels, storeVars
<1>1. CASE CreateTeam(s, e)
  BY <1>1, PendingOnLaunch DEF CreateTeam
<1>2. CASE JoinTeam(s, e) \/ RequestJoin(s, e) \/ ApprovePending(s, e)
  BY <1>2, PendingOnLaunch DEF JoinTeam, RequestJoin, ApprovePending, ReadTeam
<1>3. CASE LeaveTeam(s, e)
  BY <1>3, PendingOnLaunch DEF LeaveTeam
<1>4. CASE SetStatus(s, e)
  BY <1>4, PendingOnLaunch DEF SetStatus
<1>5. QED
  BY <1>1, <1>2, <1>3, <1>4, SetPendingPending DEF Submit

LEMMA ResumePending ==
  ASSUME TypeInv, PendingInv, ApprovesAlone, ApprovesAlone', NEW s \in Slots, Resume(s)
  PROVE  PendingInv'
<1> USE DEF PendingLabels, RowLabels, FlagLabels, ApproveLabels, storeVars, Ready
<1>1. CASE CreateClaim(s)
  BY <1>1, PendingOnHop, PendingOnFinish DEF CreateClaim
<1>2. CASE JoinClaim(s)
  BY <1>2, PendingOnHop, PendingOnFinish DEF JoinClaim
<1>3. CASE RequestCheck(s)
  BY <1>3, PendingOnHop, PendingOnFinish DEF RequestCheck
<1>4. CASE CreateRow(s)
  BY <1>4, PendingOnHop DEF CreateRow
<1>5. CASE JoinSeat(s) \/ CreateIndex(s) \/ LeaveRelease(s) \/ StatusIndex(s)
  BY <1>5, PendingOnFinish DEF JoinSeat, CreateIndex, LeaveRelease, StatusIndex
<1>6. QED
  BY <1>1, <1>2, <1>3, <1>4, <1>5, RequestRowPending, MirrorPending, AwaitingPending, ApprovePendings
     DEF Resume

\* A step in which nothing of the pending rows or the queues changes.
LEMMA PendingStill ==
  ASSUME PendingInv, UNCHANGED <<flightVars, pendingVars>>
  PROVE  PendingInv'
<1>1. ASSUME NEW t \in Teams, NEW p \in Players PROVE PairOK(t, p)'
  <2>1. PairOK(t, p)
    BY DEF PendingInv
  <2>2. QED
    BY <2>1 DEF flightVars, pendingVars, PairOK, ApprovalOK, RowsOK, FlagsOK, MirrorSays, IndexSays,
         RowWriters, FlagWriters, Approvers, Concerns, Ordered, IsLast, RowOf, Flag
<1>2. \A s \in Slots : OnRowsTask(s)'
  BY DEF PendingInv, OnRowsTask, flightVars
<1>3. QED
  BY <1>1, <1>2 DEF PendingInv

LEMMA PendingStep ==
  TypeInv /\ PendingInv /\ ApprovesAlone /\ ApprovesAlone' /\ [Next]_vars => PendingInv'
<1> SUFFICES ASSUME TypeInv, PendingInv, ApprovesAlone, ApprovesAlone', [Next]_vars PROVE PendingInv'
  OBVIOUS
<1>1. ASSUME NEW e \in Events, SetMemberPermission(e) \/ SetMemberPayment(e) PROVE PendingInv'
  BY <1>1, PendingStill DEF SetMemberPermission, SetMemberPayment
<1>2. CASE UNCHANGED vars
  BY <1>2, PendingStill DEF vars, storeVars
<1>3. QED
  BY <1>1, <1>2, SubmitPending, ResumePending DEF Next

LEMMA PendingAtStart == Init => PendingInv
<1> SUFFICES ASSUME Init PROVE PendingInv
  OBVIOUS
<1>1. \A s \in Slots : pc[s] = "idle"
  BY DEF Init, FlightInit
<1>2. None # Awaiting
  BY NoneAssumption
<1>3. ASSUME NEW t \in Teams, NEW p \in Players PROVE PairOK(t, p)
  <2>1. RowWriters(t, p) = {} /\ FlagWriters(t, p) = {} /\ Approvers(t, p) = {}
    BY <1>1 DEF RowWriters, FlagWriters, Approvers, RowLabels, FlagLabels, ApproveLabels
  <2>2. pending[t][p] = None /\ pendingByPlayer[p][t] = None /\ <<t, p>> \notin pendingAwaiting
    BY DEF Init
  <2>3. QED
    BY <1>2, <2>1, <2>2 DEF PairOK, ApprovalOK, RowsOK, FlagsOK, MirrorSays, IndexSays, Ordered
<1>4. QED
  BY <1>1, <1>3 DEF PendingInv, OnRowsTask

\* Once nothing is in flight the two indexes say what $$pending says, whatever
\* requests, invites, accepts and declines raced, for clients that leave an
\* approve alone with its request.
THEOREM PendingRowsMirrored == Spec /\ []ApprovesAlone => []PendingMirroredAtRest
<1>1. PendingInv => PendingMirroredAtRest
  <2> SUFFICES ASSUME PendingInv, Quiescent, NEW t \in Teams, NEW p \in Players
               PROVE  /\ pendingByPlayer[p][t] = pending[t][p]
                      /\ <<t, p>> \in pendingAwaiting <=> pending[t][p] = Awaiting
    BY DEF PendingMirroredAtRest, PendingMirrored
  <2>1. RowWriters(t, p) = {} /\ FlagWriters(t, p) = {} /\ Approvers(t, p) = {}
    BY DEF RowWriters, FlagWriters, Approvers, RowLabels, FlagLabels, ApproveLabels, Quiescent, Idle
  <2>2. QED
    BY <2>1 DEF PendingInv, PairOK, RowsOK, FlagsOK, MirrorSays, IndexSays
<1>2. Init => PendingInv
  BY PendingAtStart
<1>3. QED
  BY <1>1, <1>2, PendingStep, TypeInvariant, PTL DEF Spec
=============================================================================
