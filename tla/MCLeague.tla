------------------------------ MODULE MCLeague -------------------------------
(* The users module and the nine smaller modules, for TLC.  The modules      *)
(* share nothing, so a behaviour has one load, chosen at the start: a        *)
(* module, the events that its clients submit, any number of times each, and *)
(* how many are under way at once.  Every key lives on a task of its own.    *)
EXTENDS UsersModule, SeasonRows, FormatRows, PaidCounts, UnreadCounts, TLC

CONSTANTS u1, u2, u3, d1, d2,   \* users, discord ids
          i1, i2,               \* ids of rows
          r1, r2,               \* ids of what rows are grouped by
          x1, x2,               \* texts
          Loads,
          Waits   \* TRUE: the next link or unlink of a user, and the next
                  \* resolve of a report, is submitted only when the one
                  \* before is answered

ASSUME LoadsAssumption == \A l \in Loads : l.module = "users" => l.events \subseteq Events

VARIABLES load,
          seasonIds,
          regions, regionIds, formatIds, activeSignup,
          payments,
          demos, demosByMatch, demoReports, reportsByStatus, reportsByDemo,
          divisions, divisionIdsByRegion,
          announcements, announcementIds, visibleAnnouncementIds, auditLogs, auditIds,
          arenas, arenaIds, pools, poolMaps, poolIds,
          events, eventIds, eventParticipants, eventPlacements, eventSnapshot

Ids == {i1, i2}
Groups == {r1, r2}
Texts == {x1, x2}
ReportStatuses == {"REVIEW", "UPHELD"}

MCKeys == UNION {Users, Discords, Ids, Groups, Texts, ReportStatuses, {All, Empty}}
MCTaskOf == [k \in MCKeys |-> k]

Load(module, evs, n) == [module |-> module, events |-> evs, inFlight |-> n]

---------------------------------------------------------------------------
(* Users *)

Plain(ops, us) == {[op |-> o, steamId |-> u] : o \in ops, u \in us}
Link(us, ds) == {[op |-> "link-discord", steamId |-> u, discordId |-> d] : u \in us, d \in ds}

\* Three users linking, relinking and unlinking two discord ids.
LinkEvents == Plain({"upsert-profile", "unlink-discord"}, Users) \cup Link(Users, Discords)

\* One user whose row is changed in every way while a link is under way.
SessionEvents ==
  Plain(PlainOps, {u1}) \cup Link({u1}, {d1, d2, Empty})
  \cup {[op |-> "set-permission", steamId |-> u1, permissionLevel |-> l] : l \in {"ADMIN", "GUEST", "ROOT"}}
  \cup {[op |-> "set-ban", steamId |-> u1, banStatus |-> b] : b \in {"BANNED", "NONE", "FOREVER"}}

UserEvents == LinkEvents \cup SessionEvents

---------------------------------------------------------------------------
(* Seasons: two ids that want one number of a region and format, or another  *)
(* number or region.  The numbers are texts: no op computes with them.       *)

CreateSeasons(ids, nums, rs) ==
  {[op |-> "create-season", seasonId |-> i, seasonNum |-> n, numWeeks |-> None, regionId |-> r, formatId |-> r1] :
     i \in ids, n \in nums, r \in rs}
SeasonEvents ==
  CreateSeasons(Ids, {x1}, {r1}) \cup CreateSeasons({i1}, {x2}, {r1}) \cup CreateSeasons({i2}, {x1}, {r2})
  \cup CreateSeasons({Empty}, {None}, {r1})
SeasonFieldEvents ==
  CreateSeasons({i1}, {x1}, {r1})
  \cup {[op |-> "set-flags", seasonId |-> i1, flags |-> <<TRUE, None, TRUE>>],
        [op |-> "set-schedule", seasonId |-> i1, matchWeek |-> 1, matchDeadline |-> None],
        [op |-> "set-info", seasonId |-> i1, info |-> x1], [op |-> "set-info", seasonId |-> i1, info |-> None],
        [op |-> "update-season", seasonId |-> i1, numWeeks |-> 1]}

---------------------------------------------------------------------------
(* Catalog: two formats that take each other's codes; regions. *)

FormatEvents ==
  {[op |-> "upsert-format", formatId |-> f, name |-> x1, code |-> c] : f \in Ids, c \in Texts \cup {Empty}}
RegionEvents ==
  {[op |-> "upsert-region", regionId |-> r, name |-> x1, hidden |-> h, currency |-> <<x1, None>>] :
     r \in Groups, h \in {TRUE, None}}
  \cup {[op |-> "set-region-hidden", regionId |-> r1, hidden |-> h] : h \in {TRUE, None}}
  \cup {[op |-> "set-active-signup", regionId |-> r1, formatId |-> i1, seasonId |-> s] : s \in Groups \cup {Empty}}
CatalogEvents == FormatEvents \cup RegionEvents

---------------------------------------------------------------------------
(* Payments: one player, two seasons (r1 paid with a team, r2 without), two  *)
(* teams, two orders.                                                        *)

MarkPaids(statuses, rs, ts, ps) ==
  {[op |-> "mark-paid", steamId |-> u1, seasonId |-> r, teamId |-> t, status |-> st, source |-> "ADMIN",
    paymentId |-> p] : st \in statuses, r \in rs, t \in ts, p \in ps}
Orders(ids, rs, ts) ==
  {[op |-> "create-item-order", orderId |-> i, steamId |-> u1, teamId |-> t, seasonId |-> r] :
     i \in ids, r \in rs, t \in ts}
PaymentEvents ==
  MarkPaids({"PAID", "UNPAID"}, {r1}, {d1}, {x1}) \cup MarkPaids({"PAID"}, {r1}, {d2}, {None})
  \cup MarkPaids({"EXEMPT"}, {r2}, {Empty, None}, {None})
  \cup Orders({i1}, {r1}, {d1}) \cup Orders({i2}, {r1}, {d2, None})
  \cup {[op |-> o, orderId |-> i] : o \in {"confirm-item-order", "expire-item-order"}, i \in Ids}

---------------------------------------------------------------------------
(* Demos: one demo of a match; two reports, resolved to and fro. *)

DemoEvents ==
  {[op |-> "create-demo", demoId |-> d, matchId |-> r1] : d \in {r2, Empty}}
  \cup {[op |-> "report-demo", reportId |-> i, demoId |-> r2] : i \in Ids}
  \cup {[op |-> "resolve-report", reportId |-> i, status |-> st] : i \in Ids, st \in ReportStatuses}

---------------------------------------------------------------------------
(* Notifications, divisions, globals, map pools, events *)

NotificationEvents ==
  {[op |-> o, steamId |-> u, id |-> i] : o \in {"notify", "mark-read"}, u \in {u1, u2}, i \in Ids}
  \cup {[op |-> "mark-all-read", steamId |-> u] : u \in {u1, u2}}

DivisionEvents ==
  {[op |-> "upsert-division", divisionId |-> i, name |-> n, regionId |-> r] : i \in Ids, n \in {x1, Empty}, r \in Groups}

GlobalEvents ==
  {[op |-> o, announcementId |-> i1, content |-> x] : o \in {"create-announcement", "update-announcement"}, x \in Texts}
  \cup {[op |-> "set-announcement-visible", announcementId |-> i1, visible |-> v] : v \in {TRUE, None}}
  \cup {[op |-> "delete-announcement", announcementId |-> i1]}
  \cup {[op |-> "append-audit", auditId |-> i2, category |-> x1, action |-> x1, createdAt |-> t] : t \in {x1, None}}

PoolEvents ==
  {[op |-> "upsert-arena", arenaId |-> r1, name |-> n] : n \in {x1, Empty}}
  \cup {[op |-> o, poolId |-> i, name |-> n] : o \in {"create-pool", "rename-pool"}, i \in Ids, n \in {x1, Empty}}
  \cup {[op |-> "set-pool-active", poolId |-> i1, isActive |-> v] : v \in {TRUE, None}}
  \cup {[op |-> "set-pool-maps", poolId |-> i1, arenaIds |-> a] : a \in {None, <<r1>>}}

EventRecords ==
  {[op |-> "create-event", eventId |-> i, name |-> x1, eventType |-> t, isTeamEvent |-> None, texts |-> None] :
     i \in Ids, t \in {"CUP", "BALL"}}
  \cup {[op |-> "update-event", eventId |-> i1, name |-> n, texts |-> x2] : n \in {x2, Empty}}
  \cup {[op |-> "set-status", eventId |-> i1, status |-> st] : st \in {"COMPLETED", "LOST"}}
  \cup {[op |-> o, eventId |-> i1, items |-> t] : o \in {"set-participants", "set-placements"}, t \in {None, <<u1>>}}
  \cup {[op |-> "set-snapshot", eventId |-> i1, snapshot |-> x1]}

LeagueLoads ==
  {Load("users", LinkEvents, 2), Load("users", SessionEvents, 2),
   Load("seasons", SeasonEvents, 3), Load("seasons", SeasonFieldEvents, 1),
   Load("catalog", FormatEvents, 3), Load("catalog", RegionEvents, 2),
   Load("payments", PaymentEvents, 2), Load("demos", DemoEvents, 3),
   Load("notifications", NotificationEvents, 1), Load("divisions", DivisionEvents, 3),
   Load("globals", GlobalEvents, 3), Load("pools", PoolEvents, 2), Load("events", EventRecords, 2)}
UnlinkLoad == {Load("users", LinkEvents, 2)}

---------------------------------------------------------------------------
Seasons == INSTANCE SeasonsModule WITH Events <- SeasonEvents \cup SeasonFieldEvents
Catalog == INSTANCE CatalogModule WITH Events <- CatalogEvents
Payments == INSTANCE PaymentsModule WITH Events <- PaymentEvents
Demos == INSTANCE DemosModule WITH Events <- DemoEvents
Notifications == INSTANCE NotificationsModule WITH Events <- NotificationEvents
Divisions == INSTANCE DivisionsModule WITH Events <- DivisionEvents
Globals == INSTANCE GlobalsModule WITH Events <- GlobalEvents
MapPools == INSTANCE MapPoolsModule WITH Events <- PoolEvents
Tournaments == INSTANCE EventsModule WITH Events <- EventRecords

seasonVars == <<seasons, seasonIndex, seasonIds>>
catalogVars == <<regions, regionIds, formats, formatIds, formatByCode, activeSignup>>
paymentVars == <<playerSeasonPayment, teamPaidCount, itemOrders, payments>>
demoVars == <<demos, demosByMatch, demoReports, reportsByStatus, reportsByDemo>>
notificationVars == <<notifications, unreadCount>>
divisionVars == <<divisions, divisionIdsByRegion>>
globalVars == <<announcements, announcementIds, visibleAnnouncementIds, auditLogs, auditIds>>
poolVars == <<arenas, arenaIds, pools, poolMaps, poolIds>>
eventVars == <<events, eventIds, eventParticipants, eventPlacements, eventSnapshot>>
allVars ==
  <<load, vars, seasonVars, catalogVars, paymentVars, demoVars, notificationVars, divisionVars, globalVars,
    poolVars, eventVars>>

\* Nothing changes in the stores of the other modules, and the load stays.
Only(module) ==
  /\ load.module = module
  /\ UNCHANGED load
  /\ IF module = "users" THEN TRUE ELSE UNCHANGED storeVars
  /\ IF module = "seasons" THEN TRUE ELSE UNCHANGED seasonVars
  /\ IF module = "catalog" THEN TRUE ELSE UNCHANGED catalogVars
  /\ IF module = "payments" THEN TRUE ELSE UNCHANGED paymentVars
  /\ IF module = "demos" THEN TRUE ELSE UNCHANGED demoVars
  /\ IF module = "notifications" THEN TRUE ELSE UNCHANGED notificationVars
  /\ IF module = "divisions" THEN TRUE ELSE UNCHANGED divisionVars
  /\ IF module = "globals" THEN TRUE ELSE UNCHANGED globalVars
  /\ IF module = "pools" THEN TRUE ELSE UNCHANGED poolVars
  /\ IF module = "events" THEN TRUE ELSE UNCHANGED eventVars

Room == Cardinality({s \in Slots : ~Idle(s)}) < load.inFlight
Admitted(e) ==
  Waits =>
    /\ e.op \in LinkOps => Settled(e.steamId)
    /\ e.op = "resolve-report" => \A s \in Slots : event[s].op = e.op => event[s].reportId # e.reportId

MCInit ==
  /\ Init /\ load \in Loads
  /\ Seasons!Init /\ Catalog!Init /\ Payments!Init /\ Demos!Init /\ Notifications!Init
  /\ Divisions!Init /\ Globals!Init /\ MapPools!Init /\ Tournaments!Init

Submitted(s, e) ==
  \/ Only("users") /\ Submit(s, e)
  \/ Only("seasons") /\ Seasons!Submit(s, e)
  \/ Only("catalog") /\ Catalog!Submit(s, e)
  \/ Only("payments") /\ Payments!Submit(s, e)
  \/ Only("demos") /\ Demos!Submit(s, e)
  \/ Only("divisions") /\ Divisions!Submit(s, e)
  \/ Only("globals") /\ Globals!Submit(s, e)
  \/ Only("pools") /\ MapPools!Submit(s, e)
  \/ Only("events") /\ Tournaments!Submit(s, e)

SubmittedLocal(e) ==
  \/ Only("users") /\ SubmitLocal(e)
  \/ Only("seasons") /\ Seasons!SubmitLocal(e)
  \/ Only("catalog") /\ Catalog!SubmitLocal(e)
  \/ Only("payments") /\ Payments!SubmitLocal(e)
  \/ Only("notifications") /\ Notifications!SubmitLocal(e)
  \/ Only("globals") /\ Globals!SubmitLocal(e)
  \/ Only("pools") /\ MapPools!SubmitLocal(e)
  \/ Only("events") /\ Tournaments!SubmitLocal(e)

Resumed(s) ==
  \/ Only("users") /\ Resume(s)
  \/ Only("seasons") /\ Seasons!Resume(s)
  \/ Only("catalog") /\ Catalog!Resume(s)
  \/ Only("payments") /\ Payments!Resume(s)
  \/ Only("demos") /\ Demos!Resume(s)
  \/ Only("divisions") /\ Divisions!Resume(s)
  \/ Only("globals") /\ Globals!Resume(s)
  \/ Only("pools") /\ MapPools!Resume(s)
  \/ Only("events") /\ Tournaments!Resume(s)

MCNext ==
  \/ \E s \in Slots, e \in load.events : Room /\ Admitted(e) /\ Submitted(s, e)
  \/ \E e \in load.events : SubmittedLocal(e)
  \/ \E s \in Slots : Resumed(s)

MCSpec == MCInit /\ [][MCNext]_allVars

---------------------------------------------------------------------------
\* demos_module.rama: a report is listed under its status and no other.
ReportListedOnce == Demos!ReportListedOnce

\* Once everything submitted has been answered, the lists that the modules keep
\* on other partitions are those of the rows, whatever was under way together.
ListsMirrorRows ==
  /\ Quiescent => {u \in Users : users[u] # None} = userIds
  /\ Seasons!SeasonsListed /\ Catalog!CatalogListed /\ Demos!DemosListed /\ Divisions!DivisionsListed
  /\ Globals!AnnouncementsMirrored /\ MapPools!PoolsListed /\ Tournaments!EventsListed
=============================================================================
