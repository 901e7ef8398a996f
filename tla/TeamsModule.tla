----------------------------- MODULE TeamsModule -----------------------------
(***************************************************************************)
(* teams_module.rama: rosters, the player-season slots that make a player  *)
(* belong to one team per season, join requests and invites with their two *)
(* derived indexes, and the per-season team status index.                  *)
(*                                                                         *)
(* A PState is a function of its key, because every access in this module  *)
(* comes right after a hop to the key.  Left out: name, acronym, division, *)
(* region and joinPassword, which no op reads; `active`, which is only     *)
(* ever written true; the acknowledgments.  An event refused in its first  *)
(* segment changes nothing, so its refusal is a stuttering step.           *)
(***************************************************************************)
EXTENDS RamaTopology

CONSTANTS Teams, Players, Seasons,
          All,       \* the key "all" of the awaiting index
          Events     \* the depot records that clients may append

VARIABLES teams,            \* $$teams
          roster,           \* $$roster
          playerSeason,     \* $$player-season
          pending,          \* $$pending
          pendingByPlayer,  \* $$pending-by-player
          pendingAwaiting,  \* $$pending-awaiting, the entries of key "all"
          teamIdsBySeason   \* $$team-ids-by-season

pendingVars == <<pending, pendingByPlayer, pendingAwaiting>>
storeVars == <<teams, roster, playerSeason, pendingVars, teamIdsBySeason>>
vars == <<flightVars, storeVars>>

---------------------------------------------------------------------------
(* Data *)

Formats == {"1", "2"}
Statuses == {"UNREADY", "PENDING", "READY", "DEAD", "PLACEMENT"}
Levels == {"MEMBER", "ADMIN", "STATUS"}
Payments == {"UNPAID", "PAID", "EXEMPT"}
Invited == 0     \* invite-status
Awaiting == 1    \* awaiting-status

Team == [seasonId: Seasons, formatId: Formats, status: Statuses, createdBy: Players]
Member == [permissionLevel: Levels, paymentStatus: Payments]

CreateEvent == [op: {"create-team"}, teamId: Teams, steamId: Players,
                seasonId: Seasons, formatId: Formats]
MemberOps == {"join-team", "request-join", "approve-pending", "decline-pending",
              "create-invite", "accept-invite", "leave-team"}
MemberEvent == [op: MemberOps, teamId: Teams, steamId: Players]
StatusEvent == [op: {"set-status"}, teamId: Teams, status: STRING]
PermissionEvent == [op: {"set-member-permission"}, teamId: Teams,
                    steamId: Players, permissionLevel: STRING]
PaymentEvent == [op: {"set-member-payment"}, teamId: Teams,
                 steamId: Players, paymentStatus: STRING]
Event == CreateEvent \cup MemberEvent \cup StatusEvent \cup PermissionEvent \cup PaymentEvent

ASSUME EventsAssumption == Events \subseteq Event
ASSUME NoneAssumption == None \notin UNION {Team, Member, Teams, Statuses, {Invited, Awaiting}}
ASSUME KeysAssumption == UNION {Teams, Players, Seasons, {All}} \subseteq Keys

Labels == {"create@player", "create@team", "create@season",
           "join@player", "join@team",
           "request@player", "request@team", "request@player-index", "request@all",
           "approve@player", "approve@team", "approve@all",
           "decline@player", "decline@all", "invite@player",
           "accept@player", "accept@all", "leave@player", "status@season"}

MaxRoster(format) == IF format = "1" THEN 1 ELSE 3
OnRoster(t, p) == roster[t][p] # None
NewMember(level) == [permissionLevel |-> level, paymentStatus |-> "UNPAID"]

---------------------------------------------------------------------------
(* Initial state *)

Init ==
  /\ FlightInit
  /\ teams = [t \in Teams |-> None]
  /\ roster = [t \in Teams |-> [p \in Players |-> None]]
  /\ playerSeason = [p \in Players |-> [n \in Seasons |-> None]]
  /\ pending = [t \in Teams |-> [p \in Players |-> None]]
  /\ pendingByPlayer = [p \in Players |-> [t \in Teams |-> None]]
  /\ pendingAwaiting = {}
  /\ teamIdsBySeason = [n \in Seasons |-> [t \in Teams |-> None]]

---------------------------------------------------------------------------
(* create-team *)

CreateTeam(s, e) ==
  /\ e.op = "create-team"
  /\ Launch(s, e, e.teamId, e.steamId, "create@player",
            [existing |-> teams[e.teamId] # None])
  /\ UNCHANGED storeVars

\* Mutant: the player's season slot is not looked at.
CreateErrorNoSlot(s) == locals[s].existing

CreateError(s) ==
  locals[s].existing \/ playerSeason[event[s].steamId][event[s].seasonId] # None

CreateClaim(s) ==
  /\ Ready(s, "create@player")
  /\ LET e == event[s]
     IN IF CreateError(s)
        THEN Finish(s) /\ UNCHANGED playerSeason
        ELSE /\ playerSeason' = [playerSeason EXCEPT ![e.steamId][e.seasonId] = e.teamId]
             /\ Hop(s, e.teamId, "create@team", NoLocals)
  /\ UNCHANGED <<teams, roster, pendingVars, teamIdsBySeason>>

CreateRow(s) ==
  /\ Ready(s, "create@team")
  /\ LET e == event[s]
     IN /\ teams' = [teams EXCEPT ![e.teamId] =
              [seasonId |-> e.seasonId, formatId |-> e.formatId,
               status |-> "UNREADY", createdBy |-> e.steamId]]
        /\ roster' = [roster EXCEPT ![e.teamId][e.steamId] = NewMember("STATUS")]
        /\ Hop(s, e.seasonId, "create@season", NoLocals)
  /\ UNCHANGED <<playerSeason, pendingVars, teamIdsBySeason>>

CreateIndex(s) ==
  /\ Ready(s, "create@season")
  /\ teamIdsBySeason' =
       [teamIdsBySeason EXCEPT ![event[s].seasonId][event[s].teamId] = "UNREADY"]
  /\ Finish(s)
  /\ UNCHANGED <<teams, roster, playerSeason, pendingVars>>

---------------------------------------------------------------------------
(* join-team, request-join, approve-pending: the team is read on its own   *)
(* partition and judged later, on the player's partition.                  *)

Snapshot(t, pendingRow) == [team |-> teams[t], roster |-> roster[t], pending |-> pendingRow]

\* Mutant: a full roster takes one more.
FullOffByOne(snap) ==
  Cardinality({q \in Players : snap.roster[q] # None}) > MaxRoster(snap.team.formatId)

Full(snap) ==
  Cardinality({q \in Players : snap.roster[q] # None}) >= MaxRoster(snap.team.formatId)

\* The errors of join-error that see only the snapshot.  A missing team is
\* refused too: its nil formatId breaks the contract of join-error.
SnapshotRefuses(snap, p) ==
  \/ snap.team = None
  \/ snap.team.status = "DEAD"
  \/ snap.roster[p] # None
  \/ Full(snap)

\* Mutant: the player's season slot is not looked at.
JoinErrorNoSlot(snap, p) == SnapshotRefuses(snap, p)

JoinError(snap, p) ==
  SnapshotRefuses(snap, p) \/ playerSeason[p][snap.team.seasonId] # None

ReadTeam(s, e, label, pendingRow) ==
  /\ Launch(s, e, e.teamId, e.steamId, label, Snapshot(e.teamId, pendingRow))
  /\ UNCHANGED storeVars

JoinTeam(s, e) ==
  e.op = "join-team" /\ ReadTeam(s, e, "join@player", None)
RequestJoin(s, e) ==
  e.op = "request-join" /\ ReadTeam(s, e, "request@player", None)
ApprovePending(s, e) ==
  /\ e.op = "approve-pending"
  /\ ReadTeam(s, e, "approve@player", pending[e.teamId][e.steamId])

JoinClaim(s) ==
  /\ Ready(s, "join@player")
  /\ LET e == event[s]
         snap == locals[s]
     IN IF JoinError(snap, e.steamId)
        THEN Finish(s) /\ UNCHANGED playerSeason
        ELSE /\ playerSeason' =
                  [playerSeason EXCEPT ![e.steamId][snap.team.seasonId] = e.teamId]
             /\ Hop(s, e.teamId, "join@team", NoLocals)
  /\ UNCHANGED <<teams, roster, pendingVars, teamIdsBySeason>>

\* Mutant: the claim is answered before the roster row is written.
JoinSeatLost(s) == Ready(s, "join@team") /\ Finish(s) /\ UNCHANGED storeVars

JoinSeat(s) ==
  /\ Ready(s, "join@team")
  /\ roster' = [roster EXCEPT ![event[s].teamId][event[s].steamId] = NewMember("MEMBER")]
  /\ Finish(s)
  /\ UNCHANGED <<teams, playerSeason, pendingVars, teamIdsBySeason>>

RequestCheck(s) ==
  /\ Ready(s, "request@player")
  /\ IF JoinError(locals[s], event[s].steamId)
     THEN Finish(s)
     ELSE Hop(s, event[s].teamId, "request@team", NoLocals)
  /\ UNCHANGED storeVars

RequestRow(s) ==
  /\ Ready(s, "request@team")
  /\ pending' = [pending EXCEPT ![event[s].teamId][event[s].steamId] = Awaiting]
  /\ Hop(s, event[s].steamId, "request@player-index", NoLocals)
  /\ UNCHANGED <<teams, roster, playerSeason, pendingByPlayer, pendingAwaiting, teamIdsBySeason>>

ApproveClaim(s) ==
  /\ Ready(s, "approve@player")
  /\ LET e == event[s]
         snap == locals[s]
     IN IF snap.pending # Awaiting \/ JoinError(snap, e.steamId)
        THEN Finish(s) /\ UNCHANGED <<playerSeason, pendingByPlayer>>
        ELSE /\ playerSeason' =
                  [playerSeason EXCEPT ![e.steamId][snap.team.seasonId] = e.teamId]
             /\ pendingByPlayer' = [pendingByPlayer EXCEPT ![e.steamId][e.teamId] = None]
             /\ Hop(s, e.teamId, "approve@team", NoLocals)
  /\ UNCHANGED <<teams, roster, pending, pendingAwaiting, teamIdsBySeason>>

\* Mutant: the request stays in $$pending.
ApproveSeatKeepsRow(s) ==
  /\ Ready(s, "approve@team")
  /\ roster' = [roster EXCEPT ![event[s].teamId][event[s].steamId] = NewMember("MEMBER")]
  /\ Hop(s, All, "approve@all", NoLocals)
  /\ UNCHANGED <<teams, playerSeason, pendingVars, teamIdsBySeason>>

ApproveSeat(s) ==
  /\ Ready(s, "approve@team")
  /\ LET e == event[s]
     IN /\ roster' = [roster EXCEPT ![e.teamId][e.steamId] = NewMember("MEMBER")]
        /\ pending' = [pending EXCEPT ![e.teamId][e.steamId] = None]
  /\ Hop(s, All, "approve@all", NoLocals)
  /\ UNCHANGED <<teams, playerSeason, pendingByPlayer, pendingAwaiting, teamIdsBySeason>>

---------------------------------------------------------------------------
(* decline-pending, create-invite, accept-invite: decided on the team's    *)
(* partition, mirrored on the player's, then in the awaiting index.        *)

SetPending(e, row, s, label) ==
  /\ pending' = [pending EXCEPT ![e.teamId][e.steamId] = row]
  /\ Launch(s, e, e.teamId, e.steamId, label, NoLocals)
  /\ UNCHANGED <<teams, roster, playerSeason, pendingByPlayer, pendingAwaiting, teamIdsBySeason>>

DeclinePending(s, e) ==
  /\ e.op = "decline-pending"
  /\ pending[e.teamId][e.steamId] # None
  /\ SetPending(e, None, s, "decline@player")

CreateInvite(s, e) ==
  /\ e.op = "create-invite"
  /\ teams[e.teamId] # None
  /\ teams[e.teamId].status # "DEAD"
  /\ ~OnRoster(e.teamId, e.steamId)
  /\ pending[e.teamId][e.steamId] = None
  /\ SetPending(e, Invited, s, "invite@player")

AcceptInvite(s, e) ==
  /\ e.op = "accept-invite"
  /\ pending[e.teamId][e.steamId] = Invited
  /\ SetPending(e, Awaiting, s, "accept@player")

SetPendingByPlayer(s, row) ==
  /\ pendingByPlayer' = [pendingByPlayer EXCEPT ![event[s].steamId][event[s].teamId] = row]
  /\ UNCHANGED <<teams, roster, playerSeason, pending, pendingAwaiting, teamIdsBySeason>>

RequestMirror(s) ==
  /\ Ready(s, "request@player-index")
  /\ SetPendingByPlayer(s, Awaiting)
  /\ Hop(s, All, "request@all", NoLocals)

\* Mutant: the awaiting index is forgotten.
DeclineMirrorOnly(s) ==
  Ready(s, "decline@player") /\ SetPendingByPlayer(s, None) /\ Finish(s)

DeclineMirror(s) ==
  /\ Ready(s, "decline@player")
  /\ SetPendingByPlayer(s, None)
  /\ Hop(s, All, "decline@all", NoLocals)

InviteMirror(s) ==
  /\ Ready(s, "invite@player")
  /\ SetPendingByPlayer(s, Invited)
  /\ Finish(s)

AcceptMirror(s) ==
  /\ Ready(s, "accept@player")
  /\ SetPendingByPlayer(s, Awaiting)
  /\ Hop(s, All, "accept@all", NoLocals)

PendingKey(e) == <<e.teamId, e.steamId>>

AwaitingAdd(s) ==
  /\ Ready(s, "request@all") \/ Ready(s, "accept@all")
  /\ pendingAwaiting' = pendingAwaiting \cup {PendingKey(event[s])}
  /\ Finish(s)
  /\ UNCHANGED <<teams, roster, playerSeason, pending, pendingByPlayer, teamIdsBySeason>>

AwaitingRemove(s) ==
  /\ Ready(s, "approve@all") \/ Ready(s, "decline@all")
  /\ pendingAwaiting' = pendingAwaiting \ {PendingKey(event[s])}
  /\ Finish(s)
  /\ UNCHANGED <<teams, roster, playerSeason, pending, pendingByPlayer, teamIdsBySeason>>

---------------------------------------------------------------------------
(* leave-team, set-status, set-member-permission, set-member-payment       *)

LeaveTeam(s, e) ==
  /\ e.op = "leave-team"
  /\ teams[e.teamId] # None
  /\ OnRoster(e.teamId, e.steamId)
  /\ roster' = [roster EXCEPT ![e.teamId][e.steamId] = None]
  /\ Launch(s, e, e.teamId, e.steamId, "leave@player",
            [seasonId |-> teams[e.teamId].seasonId])
  /\ UNCHANGED <<teams, playerSeason, pendingVars, teamIdsBySeason>>

\* Mutant: the season slot is kept.
LeaveReleaseForgets(s) == Ready(s, "leave@player") /\ Finish(s) /\ UNCHANGED storeVars

LeaveRelease(s) ==
  /\ Ready(s, "leave@player")
  /\ playerSeason' = [playerSeason EXCEPT ![event[s].steamId][locals[s].seasonId] = None]
  /\ Finish(s)
  /\ UNCHANGED <<teams, roster, pendingVars, teamIdsBySeason>>

\* Mutant: any text is a status.
AnyStatus(status) == TRUE

ValidStatus(status) == status \in Statuses

SetStatus(s, e) ==
  /\ e.op = "set-status"
  /\ ValidStatus(e.status)
  /\ teams[e.teamId] # None
  /\ teams' = [teams EXCEPT ![e.teamId].status = e.status]
  /\ Launch(s, e, e.teamId, teams[e.teamId].seasonId, "status@season",
            [seasonId |-> teams[e.teamId].seasonId])
  /\ UNCHANGED <<roster, playerSeason, pendingVars, teamIdsBySeason>>

\* Mutant: the index keeps the status it had.
StatusIndexLost(s) == Ready(s, "status@season") /\ Finish(s) /\ UNCHANGED storeVars

StatusIndex(s) ==
  /\ Ready(s, "status@season")
  /\ teamIdsBySeason' =
       [teamIdsBySeason EXCEPT ![locals[s].seasonId][event[s].teamId] = event[s].status]
  /\ Finish(s)
  /\ UNCHANGED <<teams, roster, playerSeason, pendingVars>>

\* The two hop-free ops run entirely on the team's partition.
SetMemberPermission(e) ==
  /\ e.op = "set-member-permission"
  /\ e.permissionLevel \in Levels
  /\ OnRoster(e.teamId, e.steamId)
  /\ roster' = [roster EXCEPT ![e.teamId][e.steamId].permissionLevel = e.permissionLevel]
  /\ UNCHANGED <<flightVars, teams, playerSeason, pendingVars, teamIdsBySeason>>

SetMemberPayment(e) ==
  /\ e.op = "set-member-payment"
  /\ e.paymentStatus \in Payments
  /\ OnRoster(e.teamId, e.steamId)
  /\ roster' = [roster EXCEPT ![e.teamId][e.steamId].paymentStatus = e.paymentStatus]
  /\ UNCHANGED <<flightVars, teams, playerSeason, pendingVars, teamIdsBySeason>>

---------------------------------------------------------------------------
(* Next-state relation *)

Submit(s, e) ==
  \/ CreateTeam(s, e) \/ JoinTeam(s, e) \/ RequestJoin(s, e) \/ ApprovePending(s, e)
  \/ DeclinePending(s, e) \/ CreateInvite(s, e) \/ AcceptInvite(s, e)
  \/ LeaveTeam(s, e) \/ SetStatus(s, e)

Resume(s) ==
  \/ CreateClaim(s) \/ CreateRow(s) \/ CreateIndex(s)
  \/ JoinClaim(s) \/ JoinSeat(s)
  \/ RequestCheck(s) \/ RequestRow(s) \/ RequestMirror(s)
  \/ ApproveClaim(s) \/ ApproveSeat(s)
  \/ DeclineMirror(s) \/ InviteMirror(s) \/ AcceptMirror(s)
  \/ AwaitingAdd(s) \/ AwaitingRemove(s)
  \/ LeaveRelease(s) \/ StatusIndex(s)

Next ==
  \/ \E s \in Slots, e \in Events : Submit(s, e)
  \/ \E s \in Slots : Resume(s)
  \/ \E e \in Events : SetMemberPermission(e) \/ SetMemberPayment(e)

Spec == Init /\ [][Next]_vars

\* A task keeps taking continuations off its queues.
FairSpec == Spec /\ \A s \in Slots : WF_vars(Resume(s))

---------------------------------------------------------------------------
(* Properties *)

\* The type invariant.
TypeOK ==
  /\ FlightTypeOK(Labels, Events)
  /\ teams \in [Teams -> Team \cup {None}]
  /\ roster \in [Teams -> [Players -> Member \cup {None}]]
  /\ playerSeason \in [Players -> [Seasons -> Teams \cup {None}]]
  /\ pending \in [Teams -> [Players -> {Invited, Awaiting, None}]]
  /\ pendingByPlayer \in [Players -> [Teams -> {Invited, Awaiting, None}]]
  /\ pendingAwaiting \subseteq Teams \X Players
  /\ teamIdsBySeason \in [Seasons -> [Teams -> Statuses \cup {None}]]

\* The create-team events of a team id agree on its season.  (They may be
\* submitted many times, and by different creators.)
OneSeasonPerTeam ==
  \A e, f \in Events :
    e.op = "create-team" /\ f.op = "create-team" /\ e.teamId = f.teamId => e.seasonId = f.seasonId

Concerns(s, t, p) == event[s].teamId = t /\ event[s].steamId = p
Seating(s, t, p) == pc[s] \in {"create@team", "join@team", "approve@team"} /\ Concerns(s, t, p)
Leaving(s, t, p) == pc[s] = "leave@player" /\ Concerns(s, t, p)
InTransit(t, p) == {s \in Slots : Seating(s, t, p) \/ Leaving(s, t, p)}

\* The season slot on the player's partition and the roster row on the team's
\* never drift apart: a player holds a slot for a team exactly when a roster
\* row exists, or one continuation is on its way to write the row or to free
\* the slot.  So no slot leaks and no player is on a roster without one.
SlotMatchesRoster ==
  \A t \in Teams, p \in Players :
    /\ (\E n \in Seasons : playerSeason[p][n] = t) <=> (OnRoster(t, p) \/ InTransit(t, p) # {})
    /\ OnRoster(t, p) => InTransit(t, p) = {}
    /\ \A s, r \in InTransit(t, p) : s = r

\* README: "season uniqueness".  No interleaving of create, join and approve
\* puts a player on two rosters of one season.
SeasonUniqueness ==
  \A p \in Players, t, u \in Teams :
    OnRoster(t, p) /\ OnRoster(u, p) /\ teams[t].seasonId = teams[u].seasonId => t = u

\* The per-season status index says what the team row says, unless a status
\* write for that team is still on its way: racing set-status events and the
\* create's own index write leave no stale entry behind.
StatusIndexAgrees ==
  \A t \in Teams :
    teams[t] # None /\ (\A s \in Slots :
                          pc[s] \in {"create@season", "status@season"} => event[s].teamId # t)
      => teamIdsBySeason[teams[t].seasonId][t] = teams[t].status

\* When nothing is in flight the two pending indexes agree with $$pending.
PendingMirrored ==
  \A t \in Teams, p \in Players :
    /\ pendingByPlayer[p][t] = pending[t][p]
    /\ <<t, p>> \in pendingAwaiting <=> pending[t][p] = Awaiting
PendingMirroredAtRest == Quiescent => PendingMirrored

\* The create-team events of a team id agree on its format.
OneFormatPerTeam ==
  \A e, f \in Events :
    e.op = "create-team" /\ f.op = "create-team" /\ e.teamId = f.teamId => e.formatId = f.formatId

\* README: "roster cap"; teams_module.rama:29 "max 3 players".  A join is judged
\* by a snapshot taken two hops before its row is written, so joins that race
\* can pass the cap together; but only those that were under way when the last
\* seat was free.  So the excess is below the number of events under way at
\* once, and clients that wait for each other (one slot) never exceed the cap.
RosterCap ==
  \A t \in Teams : teams[t] # None =>
    Cardinality({p \in Players : OnRoster(t, p)})
      < MaxRoster(teams[t].formatId) + Cardinality(Slots)

\* README:53 "roster cap", without the allowance: no team has more players than its
\* format has seats, however its joins race.
RosterWithinCap ==
  \A t \in Teams : teams[t] # None =>
    Cardinality({p \in Players : OnRoster(t, p)}) <= MaxRoster(teams[t].formatId)

\* The test's "duplicate team ... blocked": an existing team keeps its creator
\* and its season.
TeamKeepsIdentity ==
  [][\A t \in Teams : teams[t] # None =>
       /\ teams'[t].createdBy = teams[t].createdBy
       /\ teams'[t].seasonId = teams[t].seasonId]_teams

\* The seats as SeasonSeats sees them.
seatView ==
  [p \in Players |-> [n \in Seasons |->
     LET t == playerSeason[p][n]
     IN IF t = None THEN [phase |-> "free"]
        ELSE [team |-> t,
              phase |-> IF OnRoster(t, p) THEN "taken"
                        ELSE IF \E s \in Slots : Seating(s, t, p) THEN "claimed"
                        ELSE "leaving"]]]

Seats == INSTANCE SeasonSeats WITH seat <- seatView

\* The module implements the seat registry, step by step.
ImplementsSeats == Seats!Spec
\* ... and finishes every claim and every release it starts.
CompletesSeats == Seats!FairSpec
=============================================================================
