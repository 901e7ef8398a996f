---------------------------- MODULE LeagueProofs -----------------------------
(***************************************************************************)
(* Proofs about the modules of MCLeague, for every number of slots and     *)
(* tasks, every placement of keys and every set of loads: once everything  *)
(* submitted has been answered, the lists that a module keeps on other     *)
(* partitions are those of its rows, and a report is listed under its      *)
(* status and no other.  Of each module the invariant says what a list     *)
(* still misses: the entries that the slots under way carry to it.         *)
(***************************************************************************)
EXTENDS MCLeague, UsersProofs

\* The slots whose next segment is the one at a label.
At(label) == {s \in Slots : pc[s] = label}

\* What a step of s does to the slots at a label.
LEMMA AtEnters ==
  ASSUME NEW s \in Slots, NEW label, Aside(s), pc'[s] = label
  PROVE  At(label)' = At(label) \cup {s} /\ \A o \in At(label) \ {s} : event'[o] = event[o]
  BY DEF At, Aside

LEMMA AtLeaves ==
  ASSUME NEW s \in Slots, NEW label, Aside(s), pc'[s] # label
  PROVE  At(label)' = At(label) \ {s} /\ \A o \in At(label)' : event'[o] = event[o]
  BY DEF At, Aside

LEMMA AtKept ==
  ASSUME NEW s \in Slots, NEW label, Aside(s), pc[s] # label, pc'[s] # label
  PROVE  At(label)' = At(label) /\ \A o \in At(label) : event'[o] = event[o]
  BY DEF At, Aside

---------------------------------------------------------------------------
SeasonList == DOMAIN seasons = seasonIds \cup {event[s].seasonId : s \in At("season@all")}

\* Every op keeps the list of seasons; so for the other modules below.
LEMMA SeasonStep ==
  ASSUME FlightsBySlot, SeasonList, NEW s \in Slots, NEW e, Seasons!Submit(s, e) \/ Seasons!Resume(s)
  PROVE  FlightsBySlot' /\ SeasonList'
<1>1. CASE Seasons!CreateSeason(s, e)
  <2>1. FlightsBySlot' /\ Aside(s) /\ pc[s] = "idle" /\ pc'[s] = "season@region"
    BY <1>1 DEF Seasons!CreateSeason, Seasons!Launch, Seasons!Enqueue, Seasons!Idle, FlightsBySlot, Aside
  <2>2. UNCHANGED <<seasons, seasonIds>>
    BY <1>1 DEF Seasons!CreateSeason, Seasons!storeVars
  <2>3. QED
    BY <2>1, <2>2, AtKept DEF SeasonList
<1>2. CASE Seasons!CreateClaim(s)
  <2>1. FlightsBySlot' /\ Aside(s) /\ pc[s] = "season@region" /\ pc'[s] \in {"idle", "season@row"}
    BY <1>2 DEF Seasons!CreateClaim, Seasons!Ready, Seasons!Hop, Seasons!Finish, Seasons!Enqueue,
       FlightsBySlot, Aside
  <2>2. UNCHANGED <<seasons, seasonIds>>
    BY <1>2 DEF Seasons!CreateClaim
  <2>3. QED
    BY <2>1, <2>2, AtKept DEF SeasonList
<1>3. CASE Seasons!CreateRow(s)
  <2>1. FlightsBySlot' /\ Aside(s) /\ pc[s] = "season@row" /\ pc'[s] = "season@all" /\ event'[s] = event[s]
    BY <1>3 DEF Seasons!CreateRow, Seasons!Ready, Seasons!Hop, Seasons!Enqueue, FlightsBySlot, Aside
  <2>2. DOMAIN seasons' = DOMAIN seasons \cup {event[s].seasonId} /\ UNCHANGED seasonIds
    BY <1>3 DEF Seasons!CreateRow, Seasons!Put
  <2>3. QED
    BY <2>1, <2>2, AtEnters DEF SeasonList, At
<1>4. CASE Seasons!CreateList(s)
  <2>1. FlightsBySlot' /\ Aside(s) /\ pc[s] = "season@all" /\ pc'[s] = "idle"
    BY <1>4 DEF Seasons!CreateList, Seasons!Ready, Seasons!Finish, FlightsBySlot, Aside
  <2>2. seasonIds' = seasonIds \cup {event[s].seasonId} /\ UNCHANGED seasons
    BY <1>4 DEF Seasons!CreateList
  <2>3. QED
    BY <2>1, <2>2, AtLeaves DEF SeasonList, At
<1>5. QED
  BY <1>1, <1>2, <1>3, <1>4 DEF Seasons!Submit, Seasons!Resume

---------------------------------------------------------------------------
RegionList == DOMAIN regions = regionIds \cup {event[s].regionId : s \in At("region@all")}
FormatList == DOMAIN formats = formatIds \cup {event[s].formatId : s \in At("format@all")}

\* Regions are listed a hop after the row, formats two hops after the claim.
LEMMA CatalogStep ==
  ASSUME FlightsBySlot, RegionList, FormatList, NEW s \in Slots, NEW e, Catalog!Submit(s, e) \/ Catalog!Resume(s)
  PROVE  FlightsBySlot' /\ RegionList' /\ FormatList'
<1>1. CASE Catalog!UpsertRegion(s, e)
  <2>1. FlightsBySlot' /\ Aside(s) /\ pc[s] = "idle" /\ pc'[s] = "region@all" /\ event'[s] = e
    BY <1>1 DEF Catalog!UpsertRegion, Catalog!Launch, Catalog!Enqueue, Catalog!Idle, FlightsBySlot, Aside
  <2>2. DOMAIN regions' = DOMAIN regions \cup {e.regionId} /\ UNCHANGED <<regionIds, formats, formatIds>>
    BY <1>1 DEF Catalog!UpsertRegion, Catalog!Put
  <2>3. RegionList'
    BY <2>1, <2>2, AtEnters DEF RegionList, At
  <2>4. FormatList'
    BY <2>1, <2>2, AtKept DEF FormatList
  <2>5. QED
    BY <2>1, <2>3, <2>4
<1>2. CASE Catalog!ListRegion(s)
  <2>1. FlightsBySlot' /\ Aside(s) /\ pc[s] = "region@all" /\ pc'[s] = "idle"
    BY <1>2 DEF Catalog!ListRegion, Catalog!Ready, Catalog!Finish, FlightsBySlot, Aside
  <2>2. regionIds' = regionIds \cup {event[s].regionId} /\ UNCHANGED <<regions, formats, formatIds>>
    BY <1>2 DEF Catalog!ListRegion
  <2>3. RegionList'
    BY <2>1, <2>2, AtLeaves DEF RegionList, At
  <2>4. FormatList'
    BY <2>1, <2>2, AtKept DEF FormatList
  <2>5. QED
    BY <2>1, <2>3, <2>4
<1>3. CASE Catalog!UpsertFormat(s, e)
  <2>1. FlightsBySlot' /\ Aside(s) /\ pc[s] = "idle" /\ pc'[s] = "format@code"
    BY <1>3 DEF Catalog!UpsertFormat, Catalog!Launch, Catalog!Enqueue, Catalog!Idle, FlightsBySlot, Aside
  <2>2. UNCHANGED <<regions, regionIds, formats, formatIds>>
    BY <1>3 DEF Catalog!UpsertFormat, Catalog!storeVars
  <2>3. RegionList'
    BY <2>1, <2>2, AtKept DEF RegionList
  <2>4. FormatList'
    BY <2>1, <2>2, AtKept DEF FormatList
  <2>5. QED
    BY <2>1, <2>3, <2>4
<1>4. CASE Catalog!ClaimCode(s)
  <2>1. FlightsBySlot' /\ Aside(s) /\ pc[s] = "format@code" /\ pc'[s] \in {"idle", "format@row"}
    BY <1>4 DEF Catalog!ClaimCode, Catalog!Ready, Catalog!Hop, Catalog!Finish, Catalog!Enqueue, FlightsBySlot,
       Aside
  <2>2. UNCHANGED <<regions, regionIds, formats, formatIds>>
    BY <1>4 DEF Catalog!ClaimCode
  <2>3. RegionList'
    BY <2>1, <2>2, AtKept DEF RegionList
  <2>4. FormatList'
    BY <2>1, <2>2, AtKept DEF FormatList
  <2>5. QED
    BY <2>1, <2>3, <2>4
<1>5. CASE Catalog!FormatRow(s)
  <2>1. FlightsBySlot' /\ Aside(s) /\ pc[s] = "format@row" /\ pc'[s] = "format@all" /\ event'[s] = event[s]
    BY <1>5 DEF Catalog!FormatRow, Catalog!Ready, Catalog!Hop, Catalog!Enqueue, FlightsBySlot, Aside
  <2>2. DOMAIN formats' = DOMAIN formats \cup {event[s].formatId} /\ UNCHANGED <<regions, regionIds, formatIds>>
    BY <1>5 DEF Catalog!FormatRow, Catalog!Put
  <2>3. RegionList'
    BY <2>1, <2>2, AtKept DEF RegionList
  <2>4. FormatList'
    BY <2>1, <2>2, AtEnters DEF FormatList, At
  <2>5. QED
    BY <2>1, <2>3, <2>4
<1>6. CASE Catalog!ListFormat(s)
  <2>1. FlightsBySlot' /\ Aside(s) /\ pc[s] = "format@all" /\ pc'[s] = "idle"
    BY <1>6 DEF Catalog!ListFormat, Catalog!Ready, Catalog!Finish, FlightsBySlot, Aside
  <2>2. formatIds' = formatIds \cup {event[s].formatId} /\ UNCHANGED <<regions, regionIds, formats>>
    BY <1>6 DEF Catalog!ListFormat
  <2>3. RegionList'
    BY <2>1, <2>2, AtKept DEF RegionList
  <2>4. FormatList'
    BY <2>1, <2>2, AtLeaves DEF FormatList, At
  <2>5. QED
    BY <2>1, <2>3, <2>4
<1>7. QED
  BY <1>1, <1>2, <1>3, <1>4, <1>5, <1>6 DEF Catalog!Submit, Catalog!Resume

---------------------------------------------------------------------------
DivisionList ==
  {<<divisions[d].regionId, d>> : d \in DOMAIN divisions}
    \subseteq divisionIdsByRegion \cup {<<event[s].regionId, event[s].divisionId>> : s \in At("division@region")}

\* A division is on the list of every region that it was given.
LEMMA DivisionStep ==
  ASSUME FlightsBySlot, DivisionList, NEW s \in Slots, NEW e, Divisions!Submit(s, e) \/ Divisions!Resume(s)
  PROVE  FlightsBySlot' /\ DivisionList'
<1>1. CASE Divisions!UpsertDivision(s, e)
  <2>1. FlightsBySlot' /\ Aside(s) /\ pc[s] = "idle" /\ pc'[s] = "division@region" /\ event'[s] = e
    BY <1>1 DEF Divisions!UpsertDivision, Divisions!Launch, Divisions!Enqueue, Divisions!Idle, FlightsBySlot,
       Aside
  <2>2. /\ DOMAIN divisions' = DOMAIN divisions \cup {e.divisionId} /\ divisions'[e.divisionId].regionId = e.regionId
        /\ \A d \in DOMAIN divisions \ {e.divisionId} : divisions'[d] = divisions[d]
        /\ UNCHANGED divisionIdsByRegion
    BY <1>1 DEF Divisions!UpsertDivision, Divisions!Put
  <2>3. QED
    BY <2>1, <2>2, AtEnters DEF DivisionList, At
<1>2. CASE Divisions!ListDivision(s)
  <2>1. FlightsBySlot' /\ Aside(s) /\ pc[s] = "division@region" /\ pc'[s] = "idle"
    BY <1>2 DEF Divisions!ListDivision, Divisions!Ready, Divisions!Finish, FlightsBySlot, Aside
  <2>2. /\ divisionIdsByRegion' = divisionIdsByRegion \cup {<<event[s].regionId, event[s].divisionId>>}
        /\ UNCHANGED divisions
    BY <1>2 DEF Divisions!ListDivision
  <2>3. QED
    BY <2>1, <2>2, AtLeaves DEF DivisionList, At
<1>3. QED
  BY <1>1, <1>2 DEF Divisions!Submit, Divisions!Resume

---------------------------------------------------------------------------
ArenaList == DOMAIN arenas = arenaIds \cup {event[s].arenaId : s \in At("arena@all")}
PoolList == DOMAIN pools = poolIds \cup {event[s].poolId : s \in At("pool@all")}

\* Arenas and pools are listed a hop after the row.
LEMMA PoolStep ==
  ASSUME FlightsBySlot, ArenaList, PoolList, NEW s \in Slots, NEW e, MapPools!Submit(s, e) \/ MapPools!Resume(s)
  PROVE  FlightsBySlot' /\ ArenaList' /\ PoolList'
<1>1. CASE MapPools!UpsertArena(s, e)
  <2>1. FlightsBySlot' /\ Aside(s) /\ pc[s] = "idle" /\ pc'[s] = "arena@all" /\ event'[s] = e
    BY <1>1 DEF MapPools!UpsertArena, MapPools!Launch, MapPools!Enqueue, MapPools!Idle, FlightsBySlot, Aside
  <2>2. DOMAIN arenas' = DOMAIN arenas \cup {e.arenaId} /\ UNCHANGED <<arenaIds, pools, poolIds>>
    BY <1>1 DEF MapPools!UpsertArena, MapPools!Put
  <2>3. ArenaList'
    BY <2>1, <2>2, AtEnters DEF ArenaList, At
  <2>4. PoolList'
    BY <2>1, <2>2, AtKept DEF PoolList
  <2>5. QED
    BY <2>1, <2>3, <2>4
<1>2. CASE MapPools!ListArena(s)
  <2>1. FlightsBySlot' /\ Aside(s) /\ pc[s] = "arena@all" /\ pc'[s] = "idle"
    BY <1>2 DEF MapPools!ListArena, MapPools!Ready, MapPools!Finish, FlightsBySlot, Aside
  <2>2. arenaIds' = arenaIds \cup {event[s].arenaId} /\ UNCHANGED <<arenas, pools, poolIds>>
    BY <1>2 DEF MapPools!ListArena
  <2>3. ArenaList'
    BY <2>1, <2>2, AtLeaves DEF ArenaList, At
  <2>4. PoolList'
    BY <2>1, <2>2, AtKept DEF PoolList
  <2>5. QED
    BY <2>1, <2>3, <2>4
<1>3. CASE MapPools!CreatePool(s, e)
  <2>1. FlightsBySlot' /\ Aside(s) /\ pc[s] = "idle" /\ pc'[s] = "pool@all" /\ event'[s] = e
    BY <1>3 DEF MapPools!CreatePool, MapPools!Launch, MapPools!Enqueue, MapPools!Idle, FlightsBySlot, Aside
  <2>2. DOMAIN pools' = DOMAIN pools \cup {e.poolId} /\ UNCHANGED <<arenas, arenaIds, poolIds>>
    BY <1>3 DEF MapPools!CreatePool, MapPools!Put
  <2>3. ArenaList'
    BY <2>1, <2>2, AtKept DEF ArenaList
  <2>4. PoolList'
    BY <2>1, <2>2, AtEnters DEF PoolList, At
  <2>5. QED
    BY <2>1, <2>3, <2>4
<1>4. CASE MapPools!ListPool(s)
  <2>1. FlightsBySlot' /\ Aside(s) /\ pc[s] = "pool@all" /\ pc'[s] = "idle"
    BY <1>4 DEF MapPools!ListPool, MapPools!Ready, MapPools!Finish, FlightsBySlot, Aside
  <2>2. poolIds' = poolIds \cup {event[s].poolId} /\ UNCHANGED <<arenas, arenaIds, pools>>
    BY <1>4 DEF MapPools!ListPool
  <2>3. ArenaList'
    BY <2>1, <2>2, AtKept DEF ArenaList
  <2>4. PoolList'
    BY <2>1, <2>2, AtLeaves DEF PoolList, At
  <2>5. QED
    BY <2>1, <2>3, <2>4
<1>5. QED
  BY <1>1, <1>2, <1>3, <1>4 DEF MapPools!Submit, MapPools!Resume

---------------------------------------------------------------------------
EventList == DOMAIN events = eventIds \cup {event[s].eventId : s \in At("event@all")}

\* An event is listed a hop after the row.
LEMMA EventStep ==
  ASSUME FlightsBySlot, EventList, NEW s \in Slots, NEW e, Tournaments!Submit(s, e) \/ Tournaments!Resume(s)
  PROVE  FlightsBySlot' /\ EventList'
<1>1. CASE Tournaments!CreateEvent(s, e)
  <2>1. FlightsBySlot' /\ Aside(s) /\ pc[s] = "idle" /\ pc'[s] = "event@all" /\ event'[s] = e
    BY <1>1 DEF Tournaments!CreateEvent, Tournaments!Launch, Tournaments!Enqueue, Tournaments!Idle,
       FlightsBySlot, Aside
  <2>2. DOMAIN events' = DOMAIN events \cup {e.eventId} /\ UNCHANGED eventIds
    BY <1>1 DEF Tournaments!CreateEvent, Tournaments!Put
  <2>3. QED
    BY <2>1, <2>2, AtEnters DEF EventList, At
<1>2. CASE Tournaments!ListEvent(s)
  <2>1. FlightsBySlot' /\ Aside(s) /\ pc[s] = "event@all" /\ pc'[s] = "idle"
    BY <1>2 DEF Tournaments!ListEvent, Tournaments!Ready, Tournaments!Finish, FlightsBySlot, Aside
  <2>2. eventIds' = eventIds \cup {event[s].eventId} /\ UNCHANGED events
    BY <1>2 DEF Tournaments!ListEvent
  <2>3. QED
    BY <2>1, <2>2, AtLeaves DEF EventList, At
<1>3. QED
  BY <1>1, <1>2 DEF Tournaments!Submit, Tournaments!Resume

---------------------------------------------------------------------------
(* Demos.  What is on its way to the lists: a demo to its match's, a report  *)
(* to its demo's.                                                            *)
DemoList ==
  {<<demos[d], d>> : d \in DOMAIN demos}
    = demosByMatch \cup {<<event[s].matchId, event[s].demoId>> : s \in At("demo@match")}

ReportsKnown ==
  \A s \in At("report@review") \cup At("resolve@old") \cup At("resolve@new") : event[s].reportId \in DOMAIN demoReports

ReportList ==
  /\ \A r \in DOMAIN demoReports : {"demoId", "status"} \subseteq DOMAIN demoReports[r]
  /\ {<<demoReports[r].demoId, r>> : r \in DOMAIN demoReports}
       = reportsByDemo \cup {<<event[s].demoId, event[s].reportId>> : s \in At("report@review") \cup At("report@demo")}

\* Of a report: the slot that files it under "REVIEW", the slots that resolve
\* it, before and after the old status's list, and where it is listed.
Filing(r) == {s \in At("report@review") : event[s].reportId = r}
Unlisting(r) == {s \in At("resolve@old") : event[s].reportId = r}
Relisting(r) == {s \in At("resolve@new") : event[s].reportId = r}
Resolving(r) == Unlisting(r) \cup Relisting(r)
Listed(r) == {p \in reportsByStatus : p[2] = r}

\* The lists say that r has status st, or will once it is filed.
Stands(r, st) ==
  /\ Filing(r) = {} => Listed(r) = {<<st, r>>}
  /\ Filing(r) # {} => Listed(r) = {} /\ st = "REVIEW"

ReportOK(r) ==
  /\ \A q, o \in Filing(r) : q = o
  /\ \A q \in Filing(r) : via[q] = <<TaskOf[r], TaskOf["REVIEW"]>>
  /\ \A s, o \in Resolving(r) : s = o
  /\ \A s \in Resolving(r) : event[s].op = "resolve-report" /\ event[s].status = demoReports[r].status
  /\ Resolving(r) = {} => Stands(r, demoReports[r].status)
  /\ \A s \in Unlisting(r) : Stands(r, locals[s].old) /\ Filing(r) \subseteq ahead[s]
  /\ \A s \in Relisting(r) : Filing(r) = {} /\ Listed(r) = {}

ReportInv ==
  /\ \A p \in reportsByStatus : p[2] \in DOMAIN demoReports
  /\ \A r \in DOMAIN demoReports : ReportOK(r)

\* The other slots stay where they are for a report.
LEMMA OthersStay ==
  ASSUME NEW s \in Slots, NEW r, Aside(s)
  PROVE  /\ Filing(r)' \ {s} = Filing(r) \ {s}
         /\ Unlisting(r)' \ {s} = Unlisting(r) \ {s}
         /\ Relisting(r)' \ {s} = Relisting(r) \ {s}
<1>1. \A o \in Slots \ {s} : pc'[o] = pc[o] /\ event'[o] = event[o]
  BY DEF Aside
<1>2. Filing(r)' \ {s} = Filing(r) \ {s}
  BY <1>1 DEF Filing, At
<1>3. Unlisting(r)' \ {s} = Unlisting(r) \ {s}
  BY <1>1 DEF Unlisting, At
<1>4. Relisting(r)' \ {s} = Relisting(r) \ {s}
  BY <1>1 DEF Relisting, At
<1>5. QED
  BY <1>2, <1>3, <1>4

\* A step that neither has to do with a report nor lists one leaves what is
\* said of it alone.
LEMMA ReportKept ==
  ASSUME NEW s \in Slots, NEW r, Aside(s), ReportOK(r),
         s \notin Filing(r) \cup Resolving(r), s \notin (Filing(r) \cup Resolving(r))',
         demoReports'[r].status = demoReports[r].status, Listed(r)' = Listed(r)
  PROVE  ReportOK(r)'
<1>2. Filing(r)' = Filing(r) /\ Unlisting(r)' = Unlisting(r) /\ Relisting(r)' = Relisting(r)
  BY OthersStay DEF Resolving
<1>3. Resolving(r)' = Resolving(r)
  BY <1>2 DEF Resolving
<1>4. \A st : Stands(r, st)' <=> Stands(r, st)
  BY <1>2 DEF Stands
<1>5. \A o \in Filing(r) \cup Resolving(r) :
        /\ via'[o] = via[o] /\ event'[o] = event[o] /\ locals'[o] = locals[o] /\ ahead'[o] = ahead[o] \ {s}
  <2>1. \A o \in Filing(r) \cup Resolving(r) : o \in Slots \ {s}
    BY DEF Filing, Resolving, Unlisting, Relisting, At
  <2>2. QED
    BY <2>1 DEF Aside
<1>6. \A o \in Unlisting(r) : Stands(r, locals[o].old) /\ Filing(r) \subseteq ahead[o] /\ s \notin Filing(r)
  BY DEF ReportOK
<1>7. \A o \in Unlisting(r)' : Stands(r, locals[o].old)' /\ Filing(r)' \subseteq ahead'[o]
  BY <1>2, <1>4, <1>5, <1>6 DEF Resolving, Stands
<1>8. QED
  BY <1>2, <1>3, <1>4, <1>5, <1>7 DEF ReportOK, Resolving

\* Every op keeps the lists of demos and of a demo's reports.
LEMMA DemoStep ==
  ASSUME FlightsBySlot, DemoList, ReportsKnown, ReportList, NEW s \in Slots, NEW e, Demos!Submit(s, e) \/ Demos!Resume(s)
  PROVE  FlightsBySlot' /\ DemoList' /\ ReportsKnown' /\ ReportList'
<1>1. CASE Demos!CreateDemo(s, e)
  <2>1. FlightsBySlot' /\ Aside(s) /\ pc[s] = "idle" /\ pc'[s] = "demo@match" /\ event'[s] = e
    BY <1>1 DEF Demos!CreateDemo, Demos!Launch, Demos!Enqueue, Demos!Idle, FlightsBySlot, Aside, Joins
  <2>2. /\ DOMAIN demos' = DOMAIN demos \cup {e.demoId} /\ demos'[e.demoId] = e.matchId
        /\ (\A d \in DOMAIN demos \ {e.demoId} : demos'[d] = demos[d])
        /\ e.demoId \notin DOMAIN demos /\ UNCHANGED <<demosByMatch, demoReports, reportsByDemo>>
    BY <1>1 DEF Demos!CreateDemo, Demos!CreateDemoError, Demos!Put
  <2>3. DemoList'
    BY <2>1, <2>2, AtEnters DEF DemoList, At
  <2>4. /\ At("report@review")' = At("report@review")
        /\ At("report@demo")' = At("report@demo")
        /\ At("resolve@old")' = At("resolve@old")
        /\ At("resolve@new")' = At("resolve@new")
    BY <2>1, AtKept, AtEnters, AtLeaves
  <2>5. \A o \in At("report@review") \cup At("report@demo") \cup At("resolve@old") \cup At("resolve@new") :
          o # s => event'[o] = event[o]
    BY <2>1 DEF Aside, At
  <2>6. s \notin At("report@review") \cup At("report@demo") \cup At("resolve@old") \cup At("resolve@new")
    BY <2>1 DEF At
  <2>7. ReportsKnown'
    BY <2>1, <2>2, <2>4, <2>5, <2>6 DEF ReportsKnown
  <2>8. ReportList'
    BY <2>1, <2>2, <2>4, <2>5, <2>6 DEF ReportList
  <2>9. QED
    BY <2>1, <2>3, <2>7, <2>8
<1>2. CASE Demos!ListDemo(s)
  <2>1. FlightsBySlot' /\ Aside(s) /\ pc[s] = "demo@match" /\ pc'[s] = "idle"
    BY <1>2 DEF Demos!ListDemo, Demos!Ready, Demos!Finish, FlightsBySlot, Aside, Joins
  <2>2. /\ demosByMatch' = demosByMatch \cup {<<event[s].matchId, event[s].demoId>>}
        /\ UNCHANGED <<demos, demoReports, reportsByDemo>>
    BY <1>2 DEF Demos!ListDemo
  <2>3. DemoList'
    BY <2>1, <2>2, AtLeaves DEF DemoList, At
  <2>4. /\ At("report@review")' = At("report@review")
        /\ At("report@demo")' = At("report@demo")
        /\ At("resolve@old")' = At("resolve@old")
        /\ At("resolve@new")' = At("resolve@new")
    BY <2>1, AtKept, AtEnters, AtLeaves
  <2>5. \A o \in At("report@review") \cup At("report@demo") \cup At("resolve@old") \cup At("resolve@new") :
          o # s => event'[o] = event[o]
    BY <2>1 DEF Aside, At
  <2>6. s \notin At("report@review") \cup At("report@demo") \cup At("resolve@old") \cup At("resolve@new")
    BY <2>1 DEF At
  <2>7. ReportsKnown'
    BY <2>1, <2>2, <2>4, <2>5, <2>6 DEF ReportsKnown
  <2>8. ReportList'
    BY <2>1, <2>2, <2>4, <2>5, <2>6 DEF ReportList
  <2>9. QED
    BY <2>1, <2>3, <2>7, <2>8
<1>3. CASE Demos!ReportDemo(s, e)
  <2>1. FlightsBySlot' /\ Aside(s) /\ pc[s] = "idle" /\ pc'[s] = "report@review" /\ event'[s] = e
    BY <1>3 DEF Demos!ReportDemo, Demos!Launch, Demos!Enqueue, Demos!Idle, FlightsBySlot, Aside, Joins
  <2>2. /\ DOMAIN demoReports' = DOMAIN demoReports \cup {e.reportId}
        /\ demoReports'[e.reportId] = [demoId |-> e.demoId, status |-> "REVIEW"]
        /\ (\A r \in DOMAIN demoReports \ {e.reportId} : demoReports'[r] = demoReports[r])
        /\ e.reportId \notin DOMAIN demoReports /\ UNCHANGED <<demos, demosByMatch, reportsByDemo>>
    BY <1>3 DEF Demos!ReportDemo, Demos!ReportError, Demos!Put
  <2>3. DemoList'
    BY <2>1, <2>2, AtKept DEF DemoList
  <2>4. /\ At("report@review")' = At("report@review") \cup {s}
        /\ At("report@demo")' = At("report@demo")
        /\ At("resolve@old")' = At("resolve@old")
        /\ At("resolve@new")' = At("resolve@new")
    BY <2>1, AtKept, AtEnters, AtLeaves
  <2>5. \A o \in At("report@review") \cup At("report@demo") \cup At("resolve@old") \cup At("resolve@new") :
          o # s => event'[o] = event[o]
    BY <2>1 DEF Aside, At
  <2>6. s \notin At("report@review") \cup At("report@demo") \cup At("resolve@old") \cup At("resolve@new")
    BY <2>1 DEF At
  <2>7. ReportsKnown'
    BY <2>1, <2>2, <2>4, <2>5, <2>6 DEF ReportsKnown
  <2>8. ReportList'
    BY <2>1, <2>2, <2>4, <2>5, <2>6 DEF ReportList
  <2>9. QED
    BY <2>1, <2>3, <2>7, <2>8
<1>4. CASE Demos!ReportReview(s)
  <2>1. FlightsBySlot' /\ Aside(s) /\ pc[s] = "report@review" /\ pc'[s] = "report@demo" /\ event'[s] = event[s]
    BY <1>4 DEF Demos!ReportReview, Demos!Ready, Demos!Hop, Demos!Enqueue, FlightsBySlot, Aside, Joins
  <2>2. /\ UNCHANGED <<demos, demosByMatch, demoReports, reportsByDemo>>
    BY <1>4 DEF Demos!ReportReview
  <2>3. DemoList'
    BY <2>1, <2>2, AtKept DEF DemoList
  <2>4. /\ At("report@review")' = At("report@review") \ {s}
        /\ At("report@demo")' = At("report@demo") \cup {s}
        /\ At("resolve@old")' = At("resolve@old")
        /\ At("resolve@new")' = At("resolve@new")
    BY <2>1, AtKept, AtEnters, AtLeaves
  <2>5. \A o \in At("report@review") \cup At("report@demo") \cup At("resolve@old") \cup At("resolve@new") :
          o # s => event'[o] = event[o]
    BY <2>1 DEF Aside, At
  <2>6. s \in At("report@review") /\ s \notin At("report@demo") \cup At("resolve@old") \cup At("resolve@new")
    BY <2>1 DEF At
  <2>7. ReportsKnown'
    BY <2>1, <2>2, <2>4, <2>5, <2>6 DEF ReportsKnown
  <2>8. ReportList'
    BY <2>1, <2>2, <2>4, <2>5, <2>6 DEF ReportList
  <2>9. QED
    BY <2>1, <2>3, <2>7, <2>8
<1>5. CASE Demos!ListReport(s)
  <2>1. FlightsBySlot' /\ Aside(s) /\ pc[s] = "report@demo" /\ pc'[s] = "idle"
    BY <1>5 DEF Demos!ListReport, Demos!Ready, Demos!Finish, FlightsBySlot, Aside, Joins
  <2>2. /\ reportsByDemo' = reportsByDemo \cup {<<event[s].demoId, event[s].reportId>>}
        /\ UNCHANGED <<demos, demosByMatch, demoReports>>
    BY <1>5 DEF Demos!ListReport
  <2>3. DemoList'
    BY <2>1, <2>2, AtKept DEF DemoList
  <2>4. /\ At("report@review")' = At("report@review")
        /\ At("report@demo")' = At("report@demo") \ {s}
        /\ At("resolve@old")' = At("resolve@old")
        /\ At("resolve@new")' = At("resolve@new")
    BY <2>1, AtKept, AtEnters, AtLeaves
  <2>5. \A o \in At("report@review") \cup At("report@demo") \cup At("resolve@old") \cup At("resolve@new") :
          o # s => event'[o] = event[o]
    BY <2>1 DEF Aside, At
  <2>6. s \in At("report@demo") /\ s \notin At("report@review") \cup At("resolve@old") \cup At("resolve@new")
    BY <2>1 DEF At
  <2>7. ReportsKnown'
    BY <2>1, <2>2, <2>4, <2>5, <2>6 DEF ReportsKnown
  <2>8. ReportList'
    BY <2>1, <2>2, <2>4, <2>5, <2>6 DEF ReportList
  <2>9. QED
    BY <2>1, <2>3, <2>7, <2>8
<1>6. CASE Demos!ResolveReport(s, e)
  <2>1. FlightsBySlot' /\ Aside(s) /\ pc[s] = "idle" /\ pc'[s] = "resolve@old" /\ event'[s] = e
    BY <1>6 DEF Demos!ResolveReport, Demos!Launch, Demos!Enqueue, Demos!Idle, FlightsBySlot, Aside, Joins
  <2>2. /\ DOMAIN demoReports' = DOMAIN demoReports /\ e.reportId \in DOMAIN demoReports
        /\ (\A r \in DOMAIN demoReports : DOMAIN demoReports'[r] = DOMAIN demoReports[r])
        /\ (\A r \in DOMAIN demoReports :
              "demoId" \in DOMAIN demoReports[r] => demoReports'[r].demoId = demoReports[r].demoId)
        /\ UNCHANGED <<demos, demosByMatch, reportsByDemo>>
    BY <1>6 DEF Demos!ResolveReport
  <2>3. DemoList'
    BY <2>1, <2>2, AtKept DEF DemoList
  <2>4. /\ At("report@review")' = At("report@review")
        /\ At("report@demo")' = At("report@demo")
        /\ At("resolve@old")' = At("resolve@old") \cup {s}
        /\ At("resolve@new")' = At("resolve@new")
    BY <2>1, AtKept, AtEnters, AtLeaves
  <2>5. \A o \in At("report@review") \cup At("report@demo") \cup At("resolve@old") \cup At("resolve@new") :
          o # s => event'[o] = event[o]
    BY <2>1 DEF Aside, At
  <2>6. s \notin At("report@review") \cup At("report@demo") \cup At("resolve@old") \cup At("resolve@new")
    BY <2>1 DEF At
  <2>7. ReportsKnown'
    BY <2>1, <2>2, <2>4, <2>5, <2>6 DEF ReportsKnown
  <2>8. ReportList'
    BY <2>1, <2>2, <2>4, <2>5, <2>6 DEF ReportList
  <2>9. QED
    BY <2>1, <2>3, <2>7, <2>8
<1>7. CASE Demos!ResolveUnlist(s)
  <2>1. FlightsBySlot' /\ Aside(s) /\ pc[s] = "resolve@old" /\ pc'[s] = "resolve@new" /\ event'[s] = event[s]
    BY <1>7 DEF Demos!ResolveUnlist, Demos!Ready, Demos!Hop, Demos!Enqueue, FlightsBySlot, Aside, Joins
  <2>2. /\ UNCHANGED <<demos, demosByMatch, demoReports, reportsByDemo>>
    BY <1>7 DEF Demos!ResolveUnlist
  <2>3. DemoList'
    BY <2>1, <2>2, AtKept DEF DemoList
  <2>4. /\ At("report@review")' = At("report@review")
        /\ At("report@demo")' = At("report@demo")
        /\ At("resolve@old")' = At("resolve@old") \ {s}
        /\ At("resolve@new")' = At("resolve@new") \cup {s}
    BY <2>1, AtKept, AtEnters, AtLeaves
  <2>5. \A o \in At("report@review") \cup At("report@demo") \cup At("resolve@old") \cup At("resolve@new") :
          o # s => event'[o] = event[o]
    BY <2>1 DEF Aside, At
  <2>6. s \in At("resolve@old") /\ s \notin At("report@review") \cup At("report@demo") \cup At("resolve@new")
    BY <2>1 DEF At
  <2>7. ReportsKnown'
    BY <2>1, <2>2, <2>4, <2>5, <2>6 DEF ReportsKnown
  <2>8. ReportList'
    BY <2>1, <2>2, <2>4, <2>5, <2>6 DEF ReportList
  <2>9. QED
    BY <2>1, <2>3, <2>7, <2>8
<1>8. CASE Demos!ResolveList(s)
  <2>1. FlightsBySlot' /\ Aside(s) /\ pc[s] = "resolve@new" /\ pc'[s] = "idle"
    BY <1>8 DEF Demos!ResolveList, Demos!Ready, Demos!Finish, FlightsBySlot, Aside, Joins
  <2>2. /\ UNCHANGED <<demos, demosByMatch, demoReports, reportsByDemo>>
    BY <1>8 DEF Demos!ResolveList
  <2>3. DemoList'
    BY <2>1, <2>2, AtKept DEF DemoList
  <2>4. /\ At("report@review")' = At("report@review")
        /\ At("report@demo")' = At("report@demo")
        /\ At("resolve@old")' = At("resolve@old")
        /\ At("resolve@new")' = At("resolve@new") \ {s}
    BY <2>1, AtKept, AtEnters, AtLeaves
  <2>5. \A o \in At("report@review") \cup At("report@demo") \cup At("resolve@old") \cup At("resolve@new") :
          o # s => event'[o] = event[o]
    BY <2>1 DEF Aside, At
  <2>6. s \in At("resolve@new") /\ s \notin At("report@review") \cup At("report@demo") \cup At("resolve@old")
    BY <2>1 DEF At
  <2>7. ReportsKnown'
    BY <2>1, <2>2, <2>4, <2>5, <2>6 DEF ReportsKnown
  <2>8. ReportList'
    BY <2>1, <2>2, <2>4, <2>5, <2>6 DEF ReportList
  <2>9. QED
    BY <2>1, <2>3, <2>7, <2>8
<1>9. QED
  BY <1>1, <1>2, <1>3, <1>4, <1>5, <1>6, <1>7, <1>8 DEF Demos!Submit, Demos!Resume

ReportSegments == {"report@review", "resolve@old", "resolve@new"}

\* A step of s about no report, and one about r only.
LEMMA ReportsRest ==
  ASSUME ReportInv, NEW s \in Slots, Aside(s), pc[s] \notin ReportSegments, pc'[s] \notin ReportSegments,
         UNCHANGED <<demoReports, reportsByStatus>>
  PROVE  ReportInv'
<1>1. ASSUME NEW r \in DOMAIN demoReports PROVE ReportOK(r)'
  <2>1. ReportOK(r) /\ Listed(r)' = Listed(r) /\ demoReports'[r].status = demoReports[r].status
    BY DEF ReportInv, Listed
  <2>2. s \notin Filing(r) \cup Resolving(r) /\ s \notin (Filing(r) \cup Resolving(r))'
    BY DEF Filing, Resolving, Unlisting, Relisting, At, ReportSegments
  <2>3. QED
    BY <2>1, <2>2, ReportKept
<1>2. QED
  BY <1>1 DEF ReportInv

LEMMA ReportAlone ==
  ASSUME ReportInv, NEW s \in Slots, NEW r, Aside(s), ReportOK(r)',
         pc[s] \in ReportSegments => event[s].reportId = r,
         pc'[s] \in ReportSegments => event'[s].reportId = r,
         DOMAIN demoReports' = DOMAIN demoReports \cup {r},
         \A o \in DOMAIN demoReports \ {r} : demoReports'[o].status = demoReports[o].status,
         NEW x, reportsByStatus' \subseteq reportsByStatus \cup {<<x, r>>},
         NEW y, reportsByStatus \subseteq reportsByStatus' \cup {<<y, r>>}
  PROVE  ReportInv'
<1>1. ASSUME NEW o \in DOMAIN demoReports, o # r PROVE ReportOK(o)'
  <2>1. ReportOK(o) /\ demoReports'[o].status = demoReports[o].status
    BY <1>1 DEF ReportInv
  <2>2. Listed(o)' = Listed(o)
    BY <1>1 DEF Listed
  <2>3. s \notin Filing(o) \cup Resolving(o) /\ s \notin (Filing(o) \cup Resolving(o))'
    BY <1>1 DEF Filing, Resolving, Unlisting, Relisting, At, ReportSegments
  <2>4. QED
    BY <2>1, <2>2, <2>3, ReportKept
<1>2. \A p \in reportsByStatus' : p[2] \in DOMAIN demoReports'
  BY DEF ReportInv
<1>3. QED
  BY <1>1, <1>2 DEF ReportInv

\* report-demo: the report is new, so no slot and no list has it.
LEMMA FileStep ==
  ASSUME FlightsBySlot, ReportsKnown, ReportInv, NEW s \in Slots, NEW e, Demos!ReportDemo(s, e)
  PROVE  ReportInv'
<1> PICK r : r = e.reportId
  OBVIOUS
<1>1. /\ Aside(s) /\ pc[s] = "idle" /\ pc'[s] = "report@review" /\ event'[s] = e
      /\ via'[s] = <<TaskOf[r], TaskOf["REVIEW"]>>
  BY DEF Demos!ReportDemo, Demos!Launch, Demos!Enqueue, Demos!Idle, FlightsBySlot, Aside
<1>2. /\ r \notin DOMAIN demoReports /\ DOMAIN demoReports' = DOMAIN demoReports \cup {r}
      /\ demoReports'[r].status = "REVIEW" /\ \A o \in DOMAIN demoReports \ {r} : demoReports'[o] = demoReports[o]
      /\ reportsByStatus' = reportsByStatus
  BY DEF Demos!ReportDemo, Demos!ReportError, Demos!Put
<1>3. Filing(r) = {} /\ Unlisting(r) = {} /\ Relisting(r) = {} /\ Listed(r) = {}
  BY <1>2 DEF ReportsKnown, ReportInv, Filing, Unlisting, Relisting, Listed
<1>4. Filing(r)' = {s} /\ Unlisting(r)' = {} /\ Relisting(r)' = {} /\ Listed(r)' = {}
  <2>1. s \in Filing(r)' /\ s \notin Unlisting(r)' /\ s \notin Relisting(r)'
    BY <1>1 DEF Filing, Unlisting, Relisting, At
  <2>2. Listed(r)' = Listed(r)
    BY <1>2 DEF Listed
  <2>3. QED
    BY <1>1, <1>3, <2>1, <2>2, OthersStay
<1>5. ReportOK(r)'
  BY <1>1, <1>2, <1>4 DEF ReportOK, Resolving, Stands
<1>6. QED
  BY <1>1, <1>2, <1>5, ReportAlone DEF ReportSegments

\* It is filed: it is listed as "REVIEW", where a resolve still looks for it.
LEMMA FiledStep ==
  ASSUME FlightsBySlot, ReportsKnown, ReportInv, NEW s \in Slots, Demos!ReportReview(s)
  PROVE  ReportInv'
<1> PICK r : r = event[s].reportId
  OBVIOUS
<1>1. /\ Aside(s) /\ pc[s] = "report@review" /\ pc'[s] = "report@demo" /\ event'[s] = event[s]
  BY DEF Demos!ReportReview, Demos!Ready, Demos!Hop, Demos!Enqueue, FlightsBySlot, Aside
<1>2. demoReports' = demoReports /\ reportsByStatus' = reportsByStatus \cup {<<"REVIEW", r>>}
  BY DEF Demos!ReportReview
<1>3. r \in DOMAIN demoReports /\ s \in Filing(r) /\ s \notin Resolving(r)
  BY <1>1 DEF ReportsKnown, Filing, Resolving, Unlisting, Relisting, At
<1>4. ReportOK(r) /\ Filing(r) = {s} /\ Relisting(r) = {}
  BY <1>3 DEF ReportInv, ReportOK
<1>5. Filing(r)' = {} /\ Unlisting(r)' = Unlisting(r) /\ Relisting(r)' = {}
  <2>1. s \notin Filing(r)' /\ s \notin Unlisting(r)' /\ s \notin Relisting(r)'
    BY <1>1 DEF Filing, Unlisting, Relisting, At
  <2>2. QED
    BY <1>1, <1>3, <1>4, <2>1, OthersStay DEF Resolving
<1>6. Listed(r)' = Listed(r) \cup {<<"REVIEW", r>>}
  BY <1>2 DEF Listed
<1>7. \A o \in Unlisting(r) : event'[o] = event[o] /\ locals'[o] = locals[o]
  BY <1>1, <1>3 DEF Aside, Unlisting, Resolving, At
<1>8. \A st : Stands(r, st) => Stands(r, st)'
  BY <1>4, <1>5, <1>6 DEF Stands
<1>9. \A o \in Unlisting(r) : Stands(r, locals[o].old)'
  BY <1>4, <1>7, <1>8 DEF ReportOK
<1>10. ReportOK(r)'
  BY <1>2, <1>4, <1>5, <1>7, <1>8, <1>9 DEF ReportOK, Resolving
<1>11. QED
  BY <1>1, <1>2, <1>3, <1>10, ReportAlone DEF ReportSegments

\* resolve-report: none is under way, and if the report is still being filed this
\* one is behind it, on the same link.
LEMMA ResolveStep ==
  ASSUME Waits, FlightsBySlot, ReportList, ReportInv, NEW s \in Slots, NEW e, Demos!ResolveReport(s, e), Admitted(e)
  PROVE  ReportInv'
<1> PICK r : r = e.reportId
  OBVIOUS
<1> PICK old : old = demoReports[r].status
  OBVIOUS
<1>1. /\ Aside(s) /\ pc[s] = "idle" /\ pc'[s] = "resolve@old" /\ event'[s] = e /\ locals'[s] = [old |-> old]
      /\ Joins(s, <<TaskOf[r], TaskOf[old]>>)
  BY DEF Demos!ResolveReport, Demos!Launch, Demos!Enqueue, Demos!Idle, FlightsBySlot, Aside, Joins
<1>2. /\ r \in DOMAIN demoReports /\ DOMAIN demoReports' = DOMAIN demoReports
      /\ demoReports'[r].status = e.status /\ \A o \in DOMAIN demoReports \ {r} : demoReports'[o] = demoReports[o]
      /\ reportsByStatus' = reportsByStatus /\ e.op = "resolve-report"
  BY DEF Demos!ResolveReport, ReportList
<1>3. ReportOK(r)
  BY <1>2 DEF ReportInv
<1>4. Unlisting(r) = {} /\ Relisting(r) = {}
  <2>1. \A o \in Slots : event[o].op = "resolve-report" => event[o].reportId # r
    BY <1>2 DEF Admitted
  <2>2. \A o \in Resolving(r) : o \in Slots /\ event[o].op = "resolve-report" /\ event[o].reportId = r
    BY <1>3 DEF ReportOK, Resolving, Unlisting, Relisting, At
  <2>3. QED
    BY <2>1, <2>2 DEF Resolving
<1>5. Filing(r)' = Filing(r) /\ Unlisting(r)' = {s} /\ Relisting(r)' = {} /\ Listed(r)' = Listed(r)
  <2>1. s \notin Filing(r) /\ s \notin Filing(r)' /\ s \in Unlisting(r)' /\ s \notin Relisting(r)'
    BY <1>1 DEF Filing, Unlisting, Relisting, At
  <2>2. Listed(r)' = Listed(r)
    BY <1>2 DEF Listed
  <2>3. QED
    BY <1>1, <1>4, <2>1, <2>2, OthersStay
<1>6. Stands(r, old)
  BY <1>3, <1>4 DEF ReportOK, Resolving
<1>7. Filing(r) \subseteq ahead'[s]
  <2>1. \A q \in Filing(r) : q \in Slots \ {s} /\ via[q] = <<TaskOf[r], TaskOf["REVIEW"]>> /\ old = "REVIEW"
    BY <1>1, <1>3, <1>6 DEF ReportOK, Stands, Filing, At
  <2>2. QED
    BY <1>1, <2>1 DEF Joins
<1>8. \A q \in Filing(r) : via'[q] = via[q]
  BY <1>1, <1>5 DEF Aside, Filing, At
<1>9. ReportOK(r)'
  BY <1>1, <1>2, <1>3, <1>5, <1>6, <1>7, <1>8 DEF ReportOK, Resolving, Stands
<1>10. QED
  BY <1>1, <1>2, <1>9, ReportAlone DEF ReportSegments

\* The old status's list: the report has been filed by now, and is taken off.
LEMMA UnlistStep ==
  ASSUME FlightsBySlot, ReportsKnown, ReportInv, NEW s \in Slots, Demos!ResolveUnlist(s)
  PROVE  ReportInv'
<1> PICK r : r = event[s].reportId
  OBVIOUS
<1> PICK old : old = locals[s].old
  OBVIOUS
<1>1. /\ Aside(s) /\ pc[s] = "resolve@old" /\ ahead[s] = {} /\ pc'[s] = "resolve@new" /\ event'[s] = event[s]
  BY DEF Demos!ResolveUnlist, Demos!Ready, Demos!Hop, Demos!Enqueue, FlightsBySlot, Aside
<1>2. demoReports' = demoReports /\ reportsByStatus' = reportsByStatus \ {<<old, r>>}
  BY DEF Demos!ResolveUnlist
<1>3. r \in DOMAIN demoReports /\ s \in Unlisting(r) /\ s \notin Filing(r)
  BY <1>1 DEF ReportsKnown, Filing, Unlisting, At
<1>4. ReportOK(r) /\ Unlisting(r) = {s} /\ Relisting(r) \subseteq {s} /\ Filing(r) = {} /\ Listed(r) = {<<old, r>>}
  BY <1>1, <1>3 DEF ReportInv, ReportOK, Resolving, Stands
<1>5. Filing(r)' = {} /\ Unlisting(r)' = {} /\ Relisting(r)' = {s} /\ Listed(r)' = {}
  <2>1. s \notin Filing(r)' /\ s \notin Unlisting(r)' /\ s \in Relisting(r)'
    BY <1>1 DEF Filing, Unlisting, Relisting, At
  <2>2. Listed(r)' = Listed(r) \ {<<old, r>>}
    BY <1>2 DEF Listed
  <2>3. QED
    BY <1>1, <1>4, <2>1, <2>2, OthersStay
<1>6. ReportOK(r)'
  BY <1>1, <1>2, <1>3, <1>4, <1>5 DEF ReportOK, Resolving
<1>7. QED
  BY <1>1, <1>2, <1>3, <1>6, ReportAlone DEF ReportSegments

\* The new status's list, which is the only one then.
LEMMA RelistStep ==
  ASSUME FlightsBySlot, ReportsKnown, ReportInv, NEW s \in Slots, Demos!ResolveList(s)
  PROVE  ReportInv'
<1> PICK r : r = event[s].reportId
  OBVIOUS
<1> PICK st : st = event[s].status
  OBVIOUS
<1>1. Aside(s) /\ pc[s] = "resolve@new" /\ pc'[s] = "idle"
  BY DEF Demos!ResolveList, Demos!Ready, Demos!Finish, FlightsBySlot, Aside
<1>2. demoReports' = demoReports /\ reportsByStatus' = reportsByStatus \cup {<<st, r>>}
  BY DEF Demos!ResolveList
<1>3. r \in DOMAIN demoReports /\ s \in Relisting(r)
  BY <1>1 DEF ReportsKnown, Relisting, At
<1>4. /\ ReportOK(r) /\ Resolving(r) = {s} /\ Filing(r) = {} /\ Listed(r) = {}
      /\ st = demoReports[r].status
  BY <1>3 DEF ReportInv, ReportOK, Resolving
<1>5. Filing(r)' = {} /\ Unlisting(r)' = {} /\ Relisting(r)' = {} /\ Listed(r)' = {<<st, r>>}
  <2>1. s \notin Filing(r)' /\ s \notin Unlisting(r)' /\ s \notin Relisting(r)'
    BY <1>1 DEF Filing, Unlisting, Relisting, At
  <2>2. Listed(r)' = Listed(r) \cup {<<st, r>>}
    BY <1>2 DEF Listed
  <2>3. QED
    BY <1>1, <1>4, <2>1, <2>2, OthersStay DEF Resolving
<1>6. ReportOK(r)'
  BY <1>2, <1>4, <1>5 DEF ReportOK, Resolving, Stands
<1>7. QED
  BY <1>1, <1>2, <1>3, <1>6, ReportAlone DEF ReportSegments

\* For clients that wait for the answer before they resolve a report again.
LEMMA ReportStep ==
  ASSUME Waits, FlightsBySlot, ReportsKnown, ReportList, ReportInv, NEW s \in Slots, NEW e,
         (Demos!Submit(s, e) /\ Admitted(e)) \/ Demos!Resume(s)
  PROVE  ReportInv'
<1>1. CASE Demos!CreateDemo(s, e)
  <2>1. Aside(s) /\ pc[s] = "idle" /\ pc'[s] = "demo@match" /\ UNCHANGED <<demoReports, reportsByStatus>>
    BY <1>1 DEF Demos!CreateDemo, Demos!Launch, Demos!Enqueue, Demos!Idle, FlightsBySlot, Aside
  <2>2. QED
    BY <2>1, ReportsRest DEF ReportSegments
<1>2. CASE Demos!ListDemo(s)
  <2>1. Aside(s) /\ pc[s] = "demo@match" /\ pc'[s] = "idle" /\ UNCHANGED <<demoReports, reportsByStatus>>
    BY <1>2 DEF Demos!ListDemo, Demos!Ready, Demos!Finish, FlightsBySlot, Aside
  <2>2. QED
    BY <2>1, ReportsRest DEF ReportSegments
<1>3. CASE Demos!ListReport(s)
  <2>1. Aside(s) /\ pc[s] = "report@demo" /\ pc'[s] = "idle" /\ UNCHANGED <<demoReports, reportsByStatus>>
    BY <1>3 DEF Demos!ListReport, Demos!Ready, Demos!Finish, FlightsBySlot, Aside
  <2>2. QED
    BY <2>1, ReportsRest DEF ReportSegments
<1>4. QED
  BY <1>1, <1>2, <1>3, FileStep, FiledStep, ResolveStep, UnlistStep, RelistStep DEF Demos!Submit, Demos!Resume

---------------------------------------------------------------------------
(* Globals.  The hops of one announcement to "all" take one link, so the     *)
(* last of them says what the row says; the same for an audit log.           *)

\* Of the slots W that write one entry of a list, all on one link, the last is
\* among those whose word is the row's; when none is left, the entry agrees.
Mirrored(W, link, saysRow, agrees) ==
  /\ \A s \in W : via[s] = link
  /\ Ordered(W)
  /\ \A s \in W : IsLast(s, W) => s \in saysRow
  /\ W = {} => agrees

\* A step of another slot, one that joins, and one whose turn it is.
LEMMA MirrorKept ==
  ASSUME NEW W \in SUBSET Slots, NEW link, NEW saysRow, NEW agrees, Mirrored(W, link, saysRow, agrees),
         NEW s \in Slots \ W, Aside(s), NEW saysRow2, NEW agrees2,
         W \cap saysRow \subseteq saysRow2, agrees => agrees2
  PROVE  Mirrored(W, link, saysRow2, agrees2)'
<1>1. Ordered(W)' /\ \A w \in W : IsLast(w, W)' => IsLast(w, W)
  BY QueueKept DEF Mirrored
<1>2. \A w \in W : via'[w] = via[w]
  BY DEF Aside
<1>3. QED
  BY <1>1, <1>2 DEF Mirrored

LEMMA MirrorJoin ==
  ASSUME NEW W \in SUBSET Slots, NEW link, NEW saysRow, NEW agrees, Mirrored(W, link, saysRow, agrees),
         NEW s \in Slots \ W, Aside(s), Joins(s, link), NEW saysRow2, NEW agrees2, s \in saysRow2
  PROVE  Mirrored(W \cup {s}, link, saysRow2, agrees2)'
<1>1. Ordered(W \cup {s})' /\ \A w \in W : ~IsLast(w, W \cup {s})'
  BY QueueJoin DEF Mirrored
<1>2. \A w \in W : via'[w] = via[w]
  BY DEF Aside
<1>3. QED
  BY <1>1, <1>2 DEF Mirrored, Joins

LEMMA MirrorLeave ==
  ASSUME NEW W \in SUBSET Slots, NEW link, NEW saysRow, NEW agrees, Mirrored(W, link, saysRow, agrees),
         NEW s \in W, Aside(s), ahead[s] = {}, NEW saysRow2, NEW agrees2,
         W \cap saysRow \subseteq saysRow2 \cup {s}, s \in saysRow => agrees2
  PROVE  Mirrored(W \ {s}, link, saysRow2, agrees2)'
<1>1. Ordered(W \ {s})' /\ \A w \in W \ {s} : IsLast(w, W \ {s})' => IsLast(w, W)
  BY QueueLeave DEF Mirrored
<1>2. \A w \in W \ {s} : via'[w] = via[w]
  BY DEF Aside
<1>3. W \ {s} = {} => IsLast(s, W)
  BY DEF IsLast
<1>4. QED
  BY <1>1, <1>2, <1>3 DEF Mirrored

AllLink(a) == <<TaskOf[a], TaskOf[All]>>
Visible(a) == a \in DOMAIN announcements /\ announcements[a].visible

IdWriters(a) == {s \in Slots : pc[s] \in {"created@all", "deleted@all"} /\ event[s].announcementId = a}
IdSaysRow(a) == {s \in Slots : pc[s] = "created@all" <=> a \in DOMAIN announcements}
IdAgrees(a) == a \in announcementIds <=> a \in DOMAIN announcements

VisibleWriters(a) == {s \in Slots : pc[s] \in {"visible@all", "deleted@all"} /\ event[s].announcementId = a}
VisibleSaysRow(a) == {s \in Slots : (pc[s] = "visible@all" /\ locals[s].visible) <=> Visible(a)}
VisibleAgrees(a) == a \in visibleAnnouncementIds <=> Visible(a)

AuditWriters(a) == {s \in Slots : pc[s] = "audit@all" /\ event[s].auditId = a}
AuditSaysRow(a) == {s \in Slots : a \in DOMAIN auditLogs /\ locals[s].created = auditLogs[a]}
AuditAgrees(a) ==
  /\ a \in DOMAIN auditIds <=> a \in DOMAIN auditLogs
  /\ a \in DOMAIN auditLogs => auditIds[a] = auditLogs[a]

IdsOK(a) == Mirrored(IdWriters(a), AllLink(a), IdSaysRow(a), IdAgrees(a))
VisibleOK(a) == Mirrored(VisibleWriters(a), AllLink(a), VisibleSaysRow(a), VisibleAgrees(a))
AuditOK(a) == Mirrored(AuditWriters(a), AllLink(a), AuditSaysRow(a), AuditAgrees(a))

GlobalRows ==
  /\ \A a \in DOMAIN announcements : "visible" \in DOMAIN announcements[a]
  /\ auditLogs = [a \in DOMAIN auditLogs |-> auditLogs[a]]
  /\ auditIds = [a \in DOMAIN auditIds |-> auditIds[a]]

GlobalInv == GlobalRows /\ \A a : IdsOK(a) /\ VisibleOK(a) /\ AuditOK(a)

\* The three for the list of ids,
LEMMA IdsKept ==
  ASSUME NEW a, IdsOK(a), NEW s \in Slots, Aside(s), s \notin IdWriters(a), s \notin IdWriters(a)',
         a \in DOMAIN announcements' <=> a \in DOMAIN announcements,
         a \in announcementIds' <=> a \in announcementIds
  PROVE  IdsOK(a)'
<1> PICK W : W = IdWriters(a)
  OBVIOUS
<1> PICK says : says = IdSaysRow(a)'
  OBVIOUS
<1> PICK agrees : agrees = IdAgrees(a)'
  OBVIOUS
<1>1. \A o \in Slots \ {s} : pc'[o] = pc[o] /\ event'[o] = event[o] /\ locals'[o] = locals[o]
  BY DEF Aside
<1>2. W \in SUBSET Slots /\ s \notin W /\ IdWriters(a)' = W
  BY <1>1 DEF IdWriters
<1>3. W \cap IdSaysRow(a) \subseteq says /\ (IdAgrees(a) => agrees)
  BY <1>1, <1>2 DEF IdSaysRow, IdAgrees
<1>4. Mirrored(W, AllLink(a), says, agrees)'
  BY <1>2, <1>3, MirrorKept DEF IdsOK
<1>5. QED
  BY <1>2, <1>4 DEF IdsOK, AllLink

LEMMA IdsJoin ==
  ASSUME NEW a, IdsOK(a), NEW s \in Slots, Aside(s), s \notin IdWriters(a), s \in IdWriters(a)',
         Joins(s, AllLink(a)), pc'[s] = "created@all" <=> a \in DOMAIN announcements'
  PROVE  IdsOK(a)'
<1> PICK W : W = IdWriters(a)
  OBVIOUS
<1> PICK says : says = IdSaysRow(a)'
  OBVIOUS
<1> PICK agrees : agrees = IdAgrees(a)'
  OBVIOUS
<1>1. \A o \in Slots \ {s} : pc'[o] = pc[o] /\ event'[o] = event[o]
  BY DEF Aside
<1>2. W \in SUBSET Slots /\ s \notin W /\ IdWriters(a)' = W \cup {s}
  BY <1>1 DEF IdWriters
<1>3. s \in says
  BY DEF IdSaysRow
<1>4. Mirrored(W \cup {s}, AllLink(a), says, agrees)'
  BY <1>2, <1>3, MirrorJoin DEF IdsOK
<1>5. QED
  BY <1>2, <1>4 DEF IdsOK, AllLink

LEMMA IdsLeave ==
  ASSUME NEW a, IdsOK(a), NEW s \in Slots, Aside(s), ahead[s] = {}, s \in IdWriters(a), s \notin IdWriters(a)',
         a \in DOMAIN announcements' <=> a \in DOMAIN announcements,
         a \in announcementIds' <=> pc[s] = "created@all"
  PROVE  IdsOK(a)'
<1> PICK W : W = IdWriters(a)
  OBVIOUS
<1> PICK says : says = IdSaysRow(a)'
  OBVIOUS
<1> PICK agrees : agrees = IdAgrees(a)'
  OBVIOUS
<1>1. \A o \in Slots \ {s} : pc'[o] = pc[o] /\ event'[o] = event[o] /\ locals'[o] = locals[o]
  BY DEF Aside
<1>2. W \in SUBSET Slots /\ s \in W /\ IdWriters(a)' = W \ {s}
  BY <1>1 DEF IdWriters
<1>3. W \cap IdSaysRow(a) \subseteq says \cup {s} /\ (s \in IdSaysRow(a) => agrees)
  BY <1>1, <1>2 DEF IdWriters, IdSaysRow, IdAgrees
<1>4. Mirrored(W \ {s}, AllLink(a), says, agrees)'
  BY <1>2, <1>3, MirrorLeave DEF IdsOK
<1>5. QED
  BY <1>2, <1>4 DEF IdsOK, AllLink

\* for the list of visible ones,
LEMMA VisibleKept ==
  ASSUME NEW a, VisibleOK(a), NEW s \in Slots, Aside(s), s \notin VisibleWriters(a), s \notin VisibleWriters(a)',
         Visible(a)' <=> Visible(a),
         a \in visibleAnnouncementIds' <=> a \in visibleAnnouncementIds
  PROVE  VisibleOK(a)'
<1> PICK W : W = VisibleWriters(a)
  OBVIOUS
<1> PICK says : says = VisibleSaysRow(a)'
  OBVIOUS
<1> PICK agrees : agrees = VisibleAgrees(a)'
  OBVIOUS
<1>1. \A o \in Slots \ {s} : pc'[o] = pc[o] /\ event'[o] = event[o] /\ locals'[o] = locals[o]
  BY DEF Aside
<1>2. W \in SUBSET Slots /\ s \notin W /\ VisibleWriters(a)' = W
  BY <1>1 DEF VisibleWriters
<1>3. W \cap VisibleSaysRow(a) \subseteq says /\ (VisibleAgrees(a) => agrees)
  BY <1>1, <1>2 DEF VisibleSaysRow, VisibleAgrees
<1>4. Mirrored(W, AllLink(a), says, agrees)'
  BY <1>2, <1>3, MirrorKept DEF VisibleOK
<1>5. QED
  BY <1>2, <1>4 DEF VisibleOK, AllLink

LEMMA VisibleJoin ==
  ASSUME NEW a, VisibleOK(a), NEW s \in Slots, Aside(s), s \notin VisibleWriters(a), s \in VisibleWriters(a)',
         Joins(s, AllLink(a)), (pc'[s] = "visible@all" /\ locals'[s].visible) <=> Visible(a)'
  PROVE  VisibleOK(a)'
<1> PICK W : W = VisibleWriters(a)
  OBVIOUS
<1> PICK says : says = VisibleSaysRow(a)'
  OBVIOUS
<1> PICK agrees : agrees = VisibleAgrees(a)'
  OBVIOUS
<1>1. \A o \in Slots \ {s} : pc'[o] = pc[o] /\ event'[o] = event[o]
  BY DEF Aside
<1>2. W \in SUBSET Slots /\ s \notin W /\ VisibleWriters(a)' = W \cup {s}
  BY <1>1 DEF VisibleWriters
<1>3. s \in says
  BY DEF VisibleSaysRow
<1>4. Mirrored(W \cup {s}, AllLink(a), says, agrees)'
  BY <1>2, <1>3, MirrorJoin DEF VisibleOK
<1>5. QED
  BY <1>2, <1>4 DEF VisibleOK, AllLink

LEMMA VisibleLeave ==
  ASSUME NEW a, VisibleOK(a), NEW s \in Slots, Aside(s), ahead[s] = {}, s \in VisibleWriters(a), s \notin VisibleWriters(a)',
         Visible(a)' <=> Visible(a),
         a \in visibleAnnouncementIds' <=> (pc[s] = "visible@all" /\ locals[s].visible)
  PROVE  VisibleOK(a)'
<1> PICK W : W = VisibleWriters(a)
  OBVIOUS
<1> PICK says : says = VisibleSaysRow(a)'
  OBVIOUS
<1> PICK agrees : agrees = VisibleAgrees(a)'
  OBVIOUS
<1>1. \A o \in Slots \ {s} : pc'[o] = pc[o] /\ event'[o] = event[o] /\ locals'[o] = locals[o]
  BY DEF Aside
<1>2. W \in SUBSET Slots /\ s \in W /\ VisibleWriters(a)' = W \ {s}
  BY <1>1 DEF VisibleWriters
<1>3. W \cap VisibleSaysRow(a) \subseteq says \cup {s} /\ (s \in VisibleSaysRow(a) => agrees)
  BY <1>1, <1>2 DEF VisibleWriters, VisibleSaysRow, VisibleAgrees
<1>4. Mirrored(W \ {s}, AllLink(a), says, agrees)'
  BY <1>2, <1>3, MirrorLeave DEF VisibleOK
<1>5. QED
  BY <1>2, <1>4 DEF VisibleOK, AllLink

\* and for the list of audit logs.
LEMMA AuditKept ==
  ASSUME NEW a, AuditOK(a), NEW s \in Slots, Aside(s), s \notin AuditWriters(a), s \notin AuditWriters(a)',
         a \in DOMAIN auditLogs' <=> a \in DOMAIN auditLogs,
         a \in DOMAIN auditLogs => auditLogs'[a] = auditLogs[a],
         a \in DOMAIN auditIds' <=> a \in DOMAIN auditIds,
         a \in DOMAIN auditIds => auditIds'[a] = auditIds[a]
  PROVE  AuditOK(a)'
<1> PICK W : W = AuditWriters(a)
  OBVIOUS
<1> PICK says : says = AuditSaysRow(a)'
  OBVIOUS
<1> PICK agrees : agrees = AuditAgrees(a)'
  OBVIOUS
<1>1. \A o \in Slots \ {s} : pc'[o] = pc[o] /\ event'[o] = event[o] /\ locals'[o] = locals[o]
  BY DEF Aside
<1>2. W \in SUBSET Slots /\ s \notin W /\ AuditWriters(a)' = W
  BY <1>1 DEF AuditWriters
<1>3. W \cap AuditSaysRow(a) \subseteq says /\ (AuditAgrees(a) => agrees)
  BY <1>1, <1>2 DEF AuditSaysRow, AuditAgrees
<1>4. Mirrored(W, AllLink(a), says, agrees)'
  BY <1>2, <1>3, MirrorKept DEF AuditOK
<1>5. QED
  BY <1>2, <1>4 DEF AuditOK, AllLink

LEMMA AuditJoin ==
  ASSUME NEW a, AuditOK(a), NEW s \in Slots, Aside(s), s \notin AuditWriters(a), s \in AuditWriters(a)',
         Joins(s, AllLink(a)), a \in DOMAIN auditLogs' /\ locals'[s].created = auditLogs'[a]
  PROVE  AuditOK(a)'
<1> PICK W : W = AuditWriters(a)
  OBVIOUS
<1> PICK says : says = AuditSaysRow(a)'
  OBVIOUS
<1> PICK agrees : agrees = AuditAgrees(a)'
  OBVIOUS
<1>1. \A o \in Slots \ {s} : pc'[o] = pc[o] /\ event'[o] = event[o]
  BY DEF Aside
<1>2. W \in SUBSET Slots /\ s \notin W /\ AuditWriters(a)' = W \cup {s}
  BY <1>1 DEF AuditWriters
<1>3. s \in says
  BY DEF AuditSaysRow
<1>4. Mirrored(W \cup {s}, AllLink(a), says, agrees)'
  BY <1>2, <1>3, MirrorJoin DEF AuditOK
<1>5. QED
  BY <1>2, <1>4 DEF AuditOK, AllLink

LEMMA AuditLeave ==
  ASSUME NEW a, AuditOK(a), NEW s \in Slots, Aside(s), ahead[s] = {}, s \in AuditWriters(a), s \notin AuditWriters(a)',
         a \in DOMAIN auditLogs' <=> a \in DOMAIN auditLogs,
         a \in DOMAIN auditLogs => auditLogs'[a] = auditLogs[a],
         a \in DOMAIN auditIds',
         auditIds'[a] = locals[s].created
  PROVE  AuditOK(a)'
<1> PICK W : W = AuditWriters(a)
  OBVIOUS
<1> PICK says : says = AuditSaysRow(a)'
  OBVIOUS
<1> PICK agrees : agrees = AuditAgrees(a)'
  OBVIOUS
<1>1. \A o \in Slots \ {s} : pc'[o] = pc[o] /\ event'[o] = event[o] /\ locals'[o] = locals[o]
  BY DEF Aside
<1>2. W \in SUBSET Slots /\ s \in W /\ AuditWriters(a)' = W \ {s}
  BY <1>1 DEF AuditWriters
<1>3. W \cap AuditSaysRow(a) \subseteq says \cup {s} /\ (s \in AuditSaysRow(a) => agrees)
  BY <1>1, <1>2 DEF AuditWriters, AuditSaysRow, AuditAgrees
<1>4. Mirrored(W \ {s}, AllLink(a), says, agrees)'
  BY <1>2, <1>3, MirrorLeave DEF AuditOK
<1>5. QED
  BY <1>2, <1>4 DEF AuditOK, AllLink

\* Every op keeps the lists of announcements and audit logs.
LEMMA GlobalStep ==
  ASSUME FlightsBySlot, GlobalInv, NEW s \in Slots, NEW e, Globals!Submit(s, e) \/ Globals!Resume(s)
  PROVE  FlightsBySlot' /\ GlobalInv'
<1>1. CASE Globals!CreateAnnouncement(s, e)
  <2> PICK r : r = e.announcementId
    OBVIOUS
  <2>1. /\ FlightsBySlot' /\ Aside(s) /\ pc[s] = "idle" /\ pc'[s] = "created@all"
        /\ event'[s] = e /\ Joins(s, AllLink(r))
    BY <1>1 DEF Globals!CreateAnnouncement, Globals!Launch, Globals!Enqueue, Globals!Idle, FlightsBySlot,
       Aside, Joins, AllLink
  <2>2. /\ r \notin DOMAIN announcements /\ DOMAIN announcements' = DOMAIN announcements \cup {r}
        /\ announcements'[r] = [content |-> e.content, visible |-> FALSE]
        /\ \A a \in DOMAIN announcements \ {r} : announcements'[a] = announcements[a]
        /\ UNCHANGED <<announcementIds, visibleAnnouncementIds, auditLogs, auditIds>>
    BY <1>1 DEF Globals!CreateAnnouncement, Globals!CreateAnnouncementError, Globals!Put
  <2>3. ASSUME NEW a PROVE IdsOK(a)'
    <3>1. IdsOK(a)
      BY DEF GlobalInv
    <3>2. CASE a = r
      <4>1. s \notin IdWriters(a) /\ s \in IdWriters(a)'
        BY <2>1, <3>2 DEF IdWriters
      <4>2. QED
        BY <2>1, <2>2, <3>1, <3>2, <4>1, IdsJoin
    <3>3. CASE a # r
      <4>1. s \notin IdWriters(a) /\ s \notin IdWriters(a)'
        BY <2>1, <3>3 DEF IdWriters
      <4>2. QED
        BY <2>1, <2>2, <3>1, <3>3, <4>1, IdsKept
    <3>4. QED
      BY <3>2, <3>3
  <2>4. ASSUME NEW a PROVE VisibleOK(a)'
    <3>1. VisibleOK(a)
      BY DEF GlobalInv
    <3>2. s \notin VisibleWriters(a) /\ s \notin VisibleWriters(a)'
      BY <2>1 DEF VisibleWriters
    <3>3. QED
      BY <2>1, <2>2, <3>1, <3>2, VisibleKept DEF Visible
  <2>5. ASSUME NEW a PROVE AuditOK(a)'
    <3>1. AuditOK(a)
      BY DEF GlobalInv
    <3>2. s \notin AuditWriters(a) /\ s \notin AuditWriters(a)'
      BY <2>1 DEF AuditWriters
    <3>3. QED
      BY <2>1, <2>2, <3>1, <3>2, AuditKept
  <2>6. GlobalRows'
    BY <2>2 DEF GlobalInv, GlobalRows
  <2>7. QED
    BY <2>1, <2>3, <2>4, <2>5, <2>6 DEF GlobalInv
<1>2. CASE Globals!ListAnnouncement(s)
  <2> PICK r : r = event[s].announcementId
    OBVIOUS
  <2>1. /\ FlightsBySlot' /\ Aside(s) /\ pc[s] = "created@all" /\ pc'[s] = "idle"
        /\ ahead[s] = {}
    BY <1>2 DEF Globals!ListAnnouncement, Globals!Ready, Globals!Finish, FlightsBySlot, Aside, Joins, AllLink
  <2>2. /\ announcementIds' = announcementIds \cup {r}
        /\ UNCHANGED <<announcements, visibleAnnouncementIds, auditLogs, auditIds>>
    BY <1>2 DEF Globals!ListAnnouncement
  <2>3. ASSUME NEW a PROVE IdsOK(a)'
    <3>1. IdsOK(a)
      BY DEF GlobalInv
    <3>2. CASE a = r
      <4>1. s \in IdWriters(a) /\ s \notin IdWriters(a)'
        BY <2>1, <3>2 DEF IdWriters
      <4>2. QED
        BY <2>1, <2>2, <3>1, <3>2, <4>1, IdsLeave
    <3>3. CASE a # r
      <4>1. s \notin IdWriters(a) /\ s \notin IdWriters(a)'
        BY <2>1, <3>3 DEF IdWriters
      <4>2. QED
        BY <2>1, <2>2, <3>1, <3>3, <4>1, IdsKept
    <3>4. QED
      BY <3>2, <3>3
  <2>4. ASSUME NEW a PROVE VisibleOK(a)'
    <3>1. VisibleOK(a)
      BY DEF GlobalInv
    <3>2. s \notin VisibleWriters(a) /\ s \notin VisibleWriters(a)'
      BY <2>1 DEF VisibleWriters
    <3>3. QED
      BY <2>1, <2>2, <3>1, <3>2, VisibleKept DEF Visible
  <2>5. ASSUME NEW a PROVE AuditOK(a)'
    <3>1. AuditOK(a)
      BY DEF GlobalInv
    <3>2. s \notin AuditWriters(a) /\ s \notin AuditWriters(a)'
      BY <2>1 DEF AuditWriters
    <3>3. QED
      BY <2>1, <2>2, <3>1, <3>2, AuditKept
  <2>6. GlobalRows'
    BY <2>2 DEF GlobalInv, GlobalRows
  <2>7. QED
    BY <2>1, <2>3, <2>4, <2>5, <2>6 DEF GlobalInv
<1>3. CASE Globals!SetAnnouncementVisible(s, e)
  <2> PICK r : r = e.announcementId
    OBVIOUS
  <2>1. /\ FlightsBySlot' /\ Aside(s) /\ pc[s] = "idle" /\ pc'[s] = "visible@all"
        /\ event'[s] = e /\ Joins(s, AllLink(r)) /\ locals'[s].visible = announcements'[r].visible
    BY <1>3 DEF GlobalInv, GlobalRows, Globals!SetAnnouncementVisible, Globals!Launch, Globals!Enqueue,
       Globals!Idle, FlightsBySlot, Aside, Joins, AllLink
  <2>2. /\ r \in DOMAIN announcements /\ DOMAIN announcements' = DOMAIN announcements
        /\ DOMAIN announcements'[r] = DOMAIN announcements[r]
        /\ \A a \in DOMAIN announcements \ {r} : announcements'[a] = announcements[a]
        /\ UNCHANGED <<announcementIds, visibleAnnouncementIds, auditLogs, auditIds>>
    BY <1>3 DEF Globals!SetAnnouncementVisible
  <2>3. ASSUME NEW a PROVE IdsOK(a)'
    <3>1. IdsOK(a)
      BY DEF GlobalInv
    <3>2. s \notin IdWriters(a) /\ s \notin IdWriters(a)'
      BY <2>1 DEF IdWriters
    <3>3. QED
      BY <2>1, <2>2, <3>1, <3>2, IdsKept
  <2>4. ASSUME NEW a PROVE VisibleOK(a)'
    <3>1. VisibleOK(a)
      BY DEF GlobalInv
    <3>2. CASE a = r
      <4>1. s \notin VisibleWriters(a) /\ s \in VisibleWriters(a)'
        BY <2>1, <3>2 DEF VisibleWriters
      <4>2. QED
        BY <2>1, <2>2, <3>1, <3>2, <4>1, VisibleJoin DEF Visible
    <3>3. CASE a # r
      <4>1. s \notin VisibleWriters(a) /\ s \notin VisibleWriters(a)'
        BY <2>1, <3>3 DEF VisibleWriters
      <4>2. QED
        BY <2>1, <2>2, <3>1, <3>3, <4>1, VisibleKept DEF Visible
    <3>4. QED
      BY <3>2, <3>3
  <2>5. ASSUME NEW a PROVE AuditOK(a)'
    <3>1. AuditOK(a)
      BY DEF GlobalInv
    <3>2. s \notin AuditWriters(a) /\ s \notin AuditWriters(a)'
      BY <2>1 DEF AuditWriters
    <3>3. QED
      BY <2>1, <2>2, <3>1, <3>2, AuditKept
  <2>6. GlobalRows'
    BY <2>2 DEF GlobalInv, GlobalRows
  <2>7. QED
    BY <2>1, <2>3, <2>4, <2>5, <2>6 DEF GlobalInv
<1>4. CASE Globals!ListVisible(s)
  <2> PICK r : r = event[s].announcementId
    OBVIOUS
  <2>1. /\ FlightsBySlot' /\ Aside(s) /\ pc[s] = "visible@all" /\ pc'[s] = "idle"
        /\ ahead[s] = {}
    BY <1>4 DEF Globals!ListVisible, Globals!Ready, Globals!Finish, FlightsBySlot, Aside, Joins, AllLink
  <2>2. /\ visibleAnnouncementIds' =
             (IF locals[s].visible THEN visibleAnnouncementIds \cup {r} ELSE visibleAnnouncementIds \ {r})
        /\ UNCHANGED <<announcements, announcementIds, auditLogs, auditIds>>
    BY <1>4 DEF Globals!ListVisible
  <2>3. ASSUME NEW a PROVE IdsOK(a)'
    <3>1. IdsOK(a)
      BY DEF GlobalInv
    <3>2. s \notin IdWriters(a) /\ s \notin IdWriters(a)'
      BY <2>1 DEF IdWriters
    <3>3. QED
      BY <2>1, <2>2, <3>1, <3>2, IdsKept
  <2>4. ASSUME NEW a PROVE VisibleOK(a)'
    <3>1. VisibleOK(a)
      BY DEF GlobalInv
    <3>2. CASE a = r
      <4>1. s \in VisibleWriters(a) /\ s \notin VisibleWriters(a)'
        BY <2>1, <3>2 DEF VisibleWriters
      <4>2. QED
        BY <2>1, <2>2, <3>1, <3>2, <4>1, VisibleLeave DEF Visible
    <3>3. CASE a # r
      <4>1. s \notin VisibleWriters(a) /\ s \notin VisibleWriters(a)'
        BY <2>1, <3>3 DEF VisibleWriters
      <4>2. QED
        BY <2>1, <2>2, <3>1, <3>3, <4>1, VisibleKept DEF Visible
    <3>4. QED
      BY <3>2, <3>3
  <2>5. ASSUME NEW a PROVE AuditOK(a)'
    <3>1. AuditOK(a)
      BY DEF GlobalInv
    <3>2. s \notin AuditWriters(a) /\ s \notin AuditWriters(a)'
      BY <2>1 DEF AuditWriters
    <3>3. QED
      BY <2>1, <2>2, <3>1, <3>2, AuditKept
  <2>6. GlobalRows'
    BY <2>2 DEF GlobalInv, GlobalRows
  <2>7. QED
    BY <2>1, <2>3, <2>4, <2>5, <2>6 DEF GlobalInv
<1>5. CASE Globals!DeleteAnnouncement(s, e)
  <2> PICK r : r = e.announcementId
    OBVIOUS
  <2>1. /\ FlightsBySlot' /\ Aside(s) /\ pc[s] = "idle" /\ pc'[s] = "deleted@all"
        /\ event'[s] = e /\ Joins(s, AllLink(r))
    BY <1>5 DEF Globals!DeleteAnnouncement, Globals!Launch, Globals!Enqueue, Globals!Idle, FlightsBySlot,
       Aside, Joins, AllLink
  <2>2. /\ r \in DOMAIN announcements /\ DOMAIN announcements' = DOMAIN announcements \ {r}
        /\ \A a \in DOMAIN announcements \ {r} : announcements'[a] = announcements[a]
        /\ UNCHANGED <<announcementIds, visibleAnnouncementIds, auditLogs, auditIds>>
    BY <1>5 DEF Globals!DeleteAnnouncement, Globals!Drop
  <2>3. ASSUME NEW a PROVE IdsOK(a)'
    <3>1. IdsOK(a)
      BY DEF GlobalInv
    <3>2. CASE a = r
      <4>1. s \notin IdWriters(a) /\ s \in IdWriters(a)'
        BY <2>1, <3>2 DEF IdWriters
      <4>2. QED
        BY <2>1, <2>2, <3>1, <3>2, <4>1, IdsJoin
    <3>3. CASE a # r
      <4>1. s \notin IdWriters(a) /\ s \notin IdWriters(a)'
        BY <2>1, <3>3 DEF IdWriters
      <4>2. QED
        BY <2>1, <2>2, <3>1, <3>3, <4>1, IdsKept
    <3>4. QED
      BY <3>2, <3>3
  <2>4. ASSUME NEW a PROVE VisibleOK(a)'
    <3>1. VisibleOK(a)
      BY DEF GlobalInv
    <3>2. CASE a = r
      <4>1. s \notin VisibleWriters(a) /\ s \in VisibleWriters(a)'
        BY <2>1, <3>2 DEF VisibleWriters
      <4>2. QED
        BY <2>1, <2>2, <3>1, <3>2, <4>1, VisibleJoin DEF Visible
    <3>3. CASE a # r
      <4>1. s \notin VisibleWriters(a) /\ s \notin VisibleWriters(a)'
        BY <2>1, <3>3 DEF VisibleWriters
      <4>2. QED
        BY <2>1, <2>2, <3>1, <3>3, <4>1, VisibleKept DEF Visible
    <3>4. QED
      BY <3>2, <3>3
  <2>5. ASSUME NEW a PROVE AuditOK(a)'
    <3>1. AuditOK(a)
      BY DEF GlobalInv
    <3>2. s \notin AuditWriters(a) /\ s \notin AuditWriters(a)'
      BY <2>1 DEF AuditWriters
    <3>3. QED
      BY <2>1, <2>2, <3>1, <3>2, AuditKept
  <2>6. GlobalRows'
    BY <2>2 DEF GlobalInv, GlobalRows
  <2>7. QED
    BY <2>1, <2>3, <2>4, <2>5, <2>6 DEF GlobalInv
<1>6. CASE Globals!UnlistAnnouncement(s)
  <2> PICK r : r = event[s].announcementId
    OBVIOUS
  <2>1. /\ FlightsBySlot' /\ Aside(s) /\ pc[s] = "deleted@all" /\ pc'[s] = "idle"
        /\ ahead[s] = {}
    BY <1>6 DEF Globals!UnlistAnnouncement, Globals!Ready, Globals!Finish, FlightsBySlot, Aside, Joins, AllLink
  <2>2. /\ announcementIds' = announcementIds \ {r} /\ visibleAnnouncementIds' = visibleAnnouncementIds \ {r}
        /\ UNCHANGED <<announcements, auditLogs, auditIds>>
    BY <1>6 DEF Globals!UnlistAnnouncement
  <2>3. ASSUME NEW a PROVE IdsOK(a)'
    <3>1. IdsOK(a)
      BY DEF GlobalInv
    <3>2. CASE a = r
      <4>1. s \in IdWriters(a) /\ s \notin IdWriters(a)'
        BY <2>1, <3>2 DEF IdWriters
      <4>2. QED
        BY <2>1, <2>2, <3>1, <3>2, <4>1, IdsLeave
    <3>3. CASE a # r
      <4>1. s \notin IdWriters(a) /\ s \notin IdWriters(a)'
        BY <2>1, <3>3 DEF IdWriters
      <4>2. QED
        BY <2>1, <2>2, <3>1, <3>3, <4>1, IdsKept
    <3>4. QED
      BY <3>2, <3>3
  <2>4. ASSUME NEW a PROVE VisibleOK(a)'
    <3>1. VisibleOK(a)
      BY DEF GlobalInv
    <3>2. CASE a = r
      <4>1. s \in VisibleWriters(a) /\ s \notin VisibleWriters(a)'
        BY <2>1, <3>2 DEF VisibleWriters
      <4>2. QED
        BY <2>1, <2>2, <3>1, <3>2, <4>1, VisibleLeave DEF Visible
    <3>3. CASE a # r
      <4>1. s \notin VisibleWriters(a) /\ s \notin VisibleWriters(a)'
        BY <2>1, <3>3 DEF VisibleWriters
      <4>2. QED
        BY <2>1, <2>2, <3>1, <3>3, <4>1, VisibleKept DEF Visible
    <3>4. QED
      BY <3>2, <3>3
  <2>5. ASSUME NEW a PROVE AuditOK(a)'
    <3>1. AuditOK(a)
      BY DEF GlobalInv
    <3>2. s \notin AuditWriters(a) /\ s \notin AuditWriters(a)'
      BY <2>1 DEF AuditWriters
    <3>3. QED
      BY <2>1, <2>2, <3>1, <3>2, AuditKept
  <2>6. GlobalRows'
    BY <2>2 DEF GlobalInv, GlobalRows
  <2>7. QED
    BY <2>1, <2>3, <2>4, <2>5, <2>6 DEF GlobalInv
<1>7. CASE Globals!AppendAudit(s, e)
  <2> PICK r : r = e.auditId
    OBVIOUS
  <2>1. /\ FlightsBySlot' /\ Aside(s) /\ pc[s] = "idle" /\ pc'[s] = "audit@all"
        /\ event'[s] = e /\ Joins(s, AllLink(r)) /\ locals'[s].created = auditLogs'[r]
    BY <1>7 DEF Globals!AppendAudit, Globals!Put, Globals!Launch, Globals!Enqueue, Globals!Idle, FlightsBySlot,
       Aside, Joins, AllLink
  <2>2. /\ DOMAIN auditLogs' = DOMAIN auditLogs \cup {r} /\ (\A a \in DOMAIN auditLogs \ {r} : auditLogs'[a] = auditLogs[a])
        /\ auditLogs' = [a \in DOMAIN auditLogs' |-> auditLogs'[a]]
        /\ UNCHANGED <<announcements, announcementIds, visibleAnnouncementIds, auditIds>>
    BY <1>7 DEF Globals!AppendAudit, Globals!Put
  <2>3. ASSUME NEW a PROVE IdsOK(a)'
    <3>1. IdsOK(a)
      BY DEF GlobalInv
    <3>2. s \notin IdWriters(a) /\ s \notin IdWriters(a)'
      BY <2>1 DEF IdWriters
    <3>3. QED
      BY <2>1, <2>2, <3>1, <3>2, IdsKept
  <2>4. ASSUME NEW a PROVE VisibleOK(a)'
    <3>1. VisibleOK(a)
      BY DEF GlobalInv
    <3>2. s \notin VisibleWriters(a) /\ s \notin VisibleWriters(a)'
      BY <2>1 DEF VisibleWriters
    <3>3. QED
      BY <2>1, <2>2, <3>1, <3>2, VisibleKept DEF Visible
  <2>5. ASSUME NEW a PROVE AuditOK(a)'
    <3>1. AuditOK(a)
      BY DEF GlobalInv
    <3>2. CASE a = r
      <4>1. s \notin AuditWriters(a) /\ s \in AuditWriters(a)'
        BY <2>1, <3>2 DEF AuditWriters
      <4>2. QED
        BY <2>1, <2>2, <3>1, <3>2, <4>1, AuditJoin
    <3>3. CASE a # r
      <4>1. s \notin AuditWriters(a) /\ s \notin AuditWriters(a)'
        BY <2>1, <3>3 DEF AuditWriters
      <4>2. QED
        BY <2>1, <2>2, <3>1, <3>3, <4>1, AuditKept
    <3>4. QED
      BY <3>2, <3>3
  <2>6. GlobalRows'
    BY <2>2 DEF GlobalInv, GlobalRows
  <2>7. QED
    BY <2>1, <2>3, <2>4, <2>5, <2>6 DEF GlobalInv
<1>8. CASE Globals!ListAudit(s)
  <2> PICK r : r = event[s].auditId
    OBVIOUS
  <2>1. /\ FlightsBySlot' /\ Aside(s) /\ pc[s] = "audit@all" /\ pc'[s] = "idle"
        /\ ahead[s] = {}
    BY <1>8 DEF Globals!ListAudit, Globals!Ready, Globals!Finish, FlightsBySlot, Aside, Joins, AllLink
  <2>2. /\ DOMAIN auditIds' = DOMAIN auditIds \cup {r} /\ auditIds'[r] = locals[s].created
        /\ (\A a \in DOMAIN auditIds \ {r} : auditIds'[a] = auditIds[a])
        /\ auditIds' = [a \in DOMAIN auditIds' |-> auditIds'[a]]
        /\ UNCHANGED <<announcements, announcementIds, visibleAnnouncementIds, auditLogs>>
    BY <1>8 DEF Globals!ListAudit, Globals!Put
  <2>3. ASSUME NEW a PROVE IdsOK(a)'
    <3>1. IdsOK(a)
      BY DEF GlobalInv
    <3>2. s \notin IdWriters(a) /\ s \notin IdWriters(a)'
      BY <2>1 DEF IdWriters
    <3>3. QED
      BY <2>1, <2>2, <3>1, <3>2, IdsKept
  <2>4. ASSUME NEW a PROVE VisibleOK(a)'
    <3>1. VisibleOK(a)
      BY DEF GlobalInv
    <3>2. s \notin VisibleWriters(a) /\ s \notin VisibleWriters(a)'
      BY <2>1 DEF VisibleWriters
    <3>3. QED
      BY <2>1, <2>2, <3>1, <3>2, VisibleKept DEF Visible
  <2>5. ASSUME NEW a PROVE AuditOK(a)'
    <3>1. AuditOK(a)
      BY DEF GlobalInv
    <3>2. CASE a = r
      <4>1. s \in AuditWriters(a) /\ s \notin AuditWriters(a)'
        BY <2>1, <3>2 DEF AuditWriters
      <4>2. QED
        BY <2>1, <2>2, <3>1, <3>2, <4>1, AuditLeave
    <3>3. CASE a # r
      <4>1. s \notin AuditWriters(a) /\ s \notin AuditWriters(a)'
        BY <2>1, <3>3 DEF AuditWriters
      <4>2. QED
        BY <2>1, <2>2, <3>1, <3>3, <4>1, AuditKept
    <3>4. QED
      BY <3>2, <3>3
  <2>6. GlobalRows'
    BY <2>2 DEF GlobalInv, GlobalRows
  <2>7. QED
    BY <2>1, <2>3, <2>4, <2>5, <2>6 DEF GlobalInv
<1>9. QED
  BY <1>1, <1>2, <1>3, <1>4, <1>5, <1>6, <1>7, <1>8 DEF Globals!Submit, Globals!Resume

---------------------------------------------------------------------------
(* Users: the rows are those that UsersProofs types.                         *)
StoredUsers == {u \in Users : users[u] # None}
UserList == StoredUsers = userIds \cup {event[s].steamId : s \in At("upsert@all")}

\* Users' own type invariant says what the queues need.
LEMMA SlotsTyped == ASSUME TypeInv PROVE FlightsBySlot
  BY DEF TypeInv, TypeOK, FlightTypeOK, FlightsBySlot

\* Every op keeps the list of users.
LEMMA UserStep ==
  ASSUME TypeInv, UserList, NEW s \in Slots, NEW e, (e \in Events /\ Submit(s, e)) \/ Resume(s)
  PROVE  UserList'
<1>0. FlightsBySlot
  BY SlotsTyped
<1>1. CASE e \in Events /\ UpsertProfile(s, e)
  <2>1. Aside(s) /\ pc[s] = "idle" /\ pc'[s] = "upsert@all" /\ event'[s] = e
    BY <1>0, <1>1, LaunchQueues DEF UpsertProfile
  <2>2. e.steamId \in Users /\ users'[e.steamId] # None /\ \A u \in Users \ {e.steamId} : users'[u] = users[u]
    <3>1. users' = [users EXCEPT ![e.steamId] = Upserted(@)] /\ e.steamId \in Users
      BY <1>1, EventFacts DEF UpsertProfile
    <3>2. NewUser # None
      BY ConstantsAssumption DEF User, NewUser, Levels, Bans
    <3>3. QED
      BY <3>1, <3>2, StoresTyped DEF StoresOK, Upserted
  <2>3. StoredUsers' = StoredUsers \cup {e.steamId}
    BY <2>2 DEF StoredUsers
  <2>4. userIds' = userIds
    BY <1>1 DEF UpsertProfile
  <2>5. QED
    BY <2>1, <2>3, <2>4, AtEnters DEF UserList, At
<1>2. CASE UpsertIndex(s)
  <2>1. Aside(s) /\ pc[s] = "upsert@all" /\ pc'[s] = "idle"
    BY <1>0, <1>2, FinishQueues DEF UpsertIndex, Ready
  <2>2. userIds' = userIds \cup {event[s].steamId} /\ StoredUsers' = StoredUsers
    BY <1>2 DEF UpsertIndex, StoredUsers
  <2>3. QED
    BY <2>1, <2>2, AtLeaves DEF UserList, At
<1>3. CASE LinkDiscord(s, e) \/ UnlinkDiscord(s, e)
  <2>1. Aside(s) /\ pc[s] = "idle" /\ pc'[s] \in {"link@discord", "unlink@old", "unlink@user"}
    BY <1>0, <1>3 DEF LinkDiscord, UnlinkDiscord, Launch, Enqueue, Idle, FlightsBySlot, Aside
  <2>2. UNCHANGED <<StoredUsers, userIds>>
    BY <1>3 DEF LinkDiscord, UnlinkDiscord, storeVars, StoredUsers
  <2>3. QED
    BY <2>1, <2>2, AtKept DEF UserList
<1>4. CASE LinkClaim(s) \/ LinkClearOld(s) \/ UnlinkClearOld(s)
  <2>1. Aside(s) /\ pc[s] \in {"link@discord", "link@old", "unlink@old"} /\ pc'[s] # "upsert@all"
    <3>1. CASE LinkClaim(s)
      BY <1>0, <3>1 DEF LinkClaim, Ready, Hop, Finish, Enqueue, FlightsBySlot, Aside
    <3>2. CASE LinkClearOld(s) \/ UnlinkClearOld(s)
      BY <1>0, <3>2 DEF LinkClearOld, UnlinkClearOld, ClearOld, Ready, Hop, Enqueue, FlightsBySlot, Aside
    <3>3. QED
      BY <1>4, <3>1, <3>2
  <2>2. UNCHANGED <<StoredUsers, userIds>>
    BY <1>4 DEF LinkClaim, LinkClearOld, UnlinkClearOld, ClearOld, StoredUsers
  <2>3. QED
    BY <2>1, <2>2, AtKept DEF UserList
<1>5. CASE LinkRow(s) \/ UnlinkRow(s)
  <2>1. Aside(s) /\ pc[s] \in {"link@user", "unlink@user"} /\ pc'[s] = "idle"
    BY <1>0, <1>5, FinishQueues DEF LinkRow, UnlinkRow, Ready
  <2>2. PICK u : u = event[s].steamId
    OBVIOUS
  <2>3. u \in Users /\ users[u] # None
    BY <2>1, <2>2 DEF TypeInv, Carries, Labels
  <2>4. (\A o \in Users \ {u} : users'[o] = users[o]) /\ userIds' = userIds
    BY <1>5, <2>2, StoresTyped DEF LinkRow, UnlinkRow, StoresOK
  <2>5. users'[u] # None
    <3>1. PICK d \in Discords \cup {None} : users' = [users EXCEPT ![u].discordId = d]
      BY <1>5, <2>1, <2>2 DEF LinkRow, UnlinkRow, TypeInv, Carries, Ready
    <3>2. [users[u] EXCEPT !.discordId = d] \in User
      BY <2>3, StoresTyped DEF StoresOK, User
    <3>3. QED
      BY <2>3, <3>1, <3>2, StoresTyped, ConstantsAssumption DEF StoresOK
  <2>6. StoredUsers' = StoredUsers
    BY <2>3, <2>4, <2>5 DEF StoredUsers
  <2>7. QED
    BY <2>1, <2>4, <2>6, AtKept DEF UserList
<1>6. QED
  BY <1>1, <1>2, <1>3, <1>4, <1>5 DEF Submit, Resume

\* The ops without a hop keep the set of users.
LEMMA UserLocal ==
  ASSUME TypeInv, UserList, NEW e \in Events, SubmitLocal(e)
  PROVE  UserList'
<1>1. PICK row \in User : users[e.steamId] \in User /\ users' = [users EXCEPT ![e.steamId] = row]
  BY MutatedRow
<1>2. StoredUsers' = StoredUsers
  BY <1>1, StoresTyped, ConstantsAssumption DEF StoresOK, StoredUsers
<1>3. UNCHANGED <<flightVars, userIds>>
  BY DEF SubmitLocal, SetPermission, SetBan, BumpSession, Mutate
<1>4. QED
  BY <1>2, <1>3 DEF UserList, At, flightVars

---------------------------------------------------------------------------
(* The ops without a hop add no row and leave the lists alone.               *)
LEMMA SeasonLocal ==
  ASSUME FlightsBySlot, SeasonList, NEW e, Seasons!SubmitLocal(e)
  PROVE  FlightsBySlot' /\ SeasonList'
<1>1. UNCHANGED <<flightVars, seasonIds>> /\ DOMAIN seasons' = DOMAIN seasons
  BY DEF Seasons!SubmitLocal, Seasons!flightVars, Seasons!SetFlags, Seasons!SetSchedule, Seasons!SetInfo,
     Seasons!UpdateSeason, Seasons!Changed, flightVars
<1>2. QED
  BY <1>1 DEF FlightsBySlot, SeasonList, At, flightVars

LEMMA CatalogLocal ==
  ASSUME FlightsBySlot, RegionList, FormatList, NEW e, Catalog!SubmitLocal(e)
  PROVE  FlightsBySlot' /\ RegionList' /\ FormatList'
<1>1. UNCHANGED <<flightVars, regionIds, formats, formatIds>> /\ DOMAIN regions' = DOMAIN regions
  BY DEF Catalog!SubmitLocal, Catalog!flightVars, Catalog!SetRegionHidden, Catalog!SetActiveSignup, flightVars
<1>2. QED
  BY <1>1 DEF FlightsBySlot, RegionList, FormatList, At, flightVars

LEMMA PoolLocal ==
  ASSUME FlightsBySlot, ArenaList, PoolList, NEW e, MapPools!SubmitLocal(e)
  PROVE  FlightsBySlot' /\ ArenaList' /\ PoolList'
<1>1. UNCHANGED <<flightVars, arenas, arenaIds, poolIds>> /\ DOMAIN pools' = DOMAIN pools
  BY DEF MapPools!SubmitLocal, MapPools!flightVars, MapPools!RenamePool, MapPools!SetPoolActive,
     MapPools!SetPoolMaps, flightVars
<1>2. QED
  BY <1>1 DEF FlightsBySlot, ArenaList, PoolList, At, flightVars

LEMMA EventLocal ==
  ASSUME FlightsBySlot, EventList, NEW e, Tournaments!SubmitLocal(e)
  PROVE  FlightsBySlot' /\ EventList'
<1>1. UNCHANGED <<flightVars, eventIds>> /\ DOMAIN events' = DOMAIN events
  BY DEF Tournaments!SubmitLocal, Tournaments!flightVars, Tournaments!UpdateEvent, Tournaments!SetStatus,
     Tournaments!SetParticipants, Tournaments!SetPlacements, Tournaments!SetSnapshot, flightVars
<1>2. QED
  BY <1>1 DEF FlightsBySlot, EventList, At, flightVars

\* Announcements that keep their visibility change no list.
LEMMA GlobalsStand ==
  ASSUME GlobalInv, UNCHANGED <<flightVars, announcementIds, visibleAnnouncementIds, auditLogs, auditIds>>,
         DOMAIN announcements' = DOMAIN announcements,
         \A a \in DOMAIN announcements : "visible" \in DOMAIN announcements[a] =>
           "visible" \in DOMAIN announcements'[a] /\ announcements'[a].visible = announcements[a].visible
  PROVE  GlobalInv'
<1>1. GlobalRows'
  BY DEF GlobalInv, GlobalRows
<1>2. ASSUME NEW a PROVE IdsOK(a)' /\ VisibleOK(a)' /\ AuditOK(a)'
  <2>1. IdsOK(a) /\ VisibleOK(a) /\ AuditOK(a)
    BY DEF GlobalInv
  <2>2. Visible(a)' <=> Visible(a)
    BY DEF GlobalInv, GlobalRows, Visible
  <2>3. IdWriters(a)' = IdWriters(a) /\ IdSaysRow(a)' = IdSaysRow(a) /\ (IdAgrees(a)' <=> IdAgrees(a))
    BY DEF IdWriters, IdSaysRow, IdAgrees, flightVars
  <2>4. /\ VisibleWriters(a)' = VisibleWriters(a) /\ VisibleSaysRow(a)' = VisibleSaysRow(a)
        /\ VisibleAgrees(a)' <=> VisibleAgrees(a)
    BY <2>2 DEF VisibleWriters, VisibleSaysRow, VisibleAgrees, flightVars
  <2>5. AuditWriters(a)' = AuditWriters(a) /\ AuditSaysRow(a)' = AuditSaysRow(a) /\ (AuditAgrees(a)' <=> AuditAgrees(a))
    BY DEF AuditWriters, AuditSaysRow, AuditAgrees, flightVars
  <2>6. QED
    BY <2>1, <2>3, <2>4, <2>5 DEF IdsOK, VisibleOK, AuditOK, Mirrored, Ordered, IsLast, AllLink, flightVars
<1>3. QED
  BY <1>1, <1>2 DEF GlobalInv

LEMMA GlobalLocal ==
  ASSUME FlightsBySlot, GlobalInv, NEW e, Globals!SubmitLocal(e)
  PROVE  FlightsBySlot' /\ GlobalInv'
<1>1. /\ UNCHANGED <<flightVars, announcementIds, visibleAnnouncementIds, auditLogs, auditIds>>
      /\ DOMAIN announcements' = DOMAIN announcements
      /\ \A a \in DOMAIN announcements : "visible" \in DOMAIN announcements[a] =>
           "visible" \in DOMAIN announcements'[a] /\ announcements'[a].visible = announcements[a].visible
  BY DEF Globals!SubmitLocal, Globals!UpdateAnnouncement, Globals!flightVars, flightVars
<1>2. QED
  BY <1>1, GlobalsStand DEF FlightsBySlot, flightVars

---------------------------------------------------------------------------
(* A step of payments moves a continuation like any other.                   *)
LEMMA PaymentStep ==
  ASSUME FlightsBySlot, NEW s \in Slots, NEW e, Payments!Submit(s, e) \/ Payments!Resume(s)
  PROVE  FlightsBySlot'
  BY DEF Payments!Submit, Payments!Resume, Payments!MarkPaid, Payments!ConfirmItemOrder, Payments!PaidLedger,
         Payments!PaidCount, Payments!ConfirmPaid, Payments!ConfirmCount, Payments!Launch, Payments!Hop,
         Payments!Finish, Payments!Enqueue, FlightsBySlot
---------------------------------------------------------------------------
(* Together: a behaviour runs one module, and the stores of the others stay  *)
(* empty.                                                                    *)
UserPart == IF load.module = "users" THEN TypeInv /\ UserList ELSE StoredUsers = {} /\ userIds = {}
SeasonPart == IF load.module = "seasons" THEN SeasonList ELSE seasons = <<>> /\ seasonIds = {}
CatalogPart ==
  IF load.module = "catalog" THEN RegionList /\ FormatList
  ELSE regions = <<>> /\ regionIds = {} /\ formats = <<>> /\ formatIds = {}
DemoPart ==
  IF load.module = "demos" THEN DemoList /\ ReportsKnown /\ ReportList /\ (Waits => ReportInv)
  ELSE demos = <<>> /\ demosByMatch = {} /\ demoReports = <<>> /\ reportsByStatus = {} /\ reportsByDemo = {}
DivisionPart == IF load.module = "divisions" THEN DivisionList ELSE divisions = <<>>
GlobalPart ==
  IF load.module = "globals" THEN GlobalInv
  ELSE /\ announcements = <<>> /\ announcementIds = {} /\ visibleAnnouncementIds = {}
       /\ auditLogs = <<>> /\ auditIds = <<>>
PoolPart ==
  IF load.module = "pools" THEN ArenaList /\ PoolList
  ELSE arenas = <<>> /\ arenaIds = {} /\ pools = <<>> /\ poolIds = {}
EventPart == IF load.module = "events" THEN EventList ELSE events = <<>> /\ eventIds = {}

ListInv ==
  /\ load \in Loads /\ FlightsBySlot
  /\ UserPart /\ SeasonPart /\ CatalogPart /\ DemoPart /\ DivisionPart /\ GlobalPart /\ PoolPart /\ EventPart

\* A step of one module leaves the parts of the others alone.
LEMMA OtherParts ==
  ASSUME NEW module, Only(module), ListInv
  PROVE  /\ load' = load /\ load.module = module /\ load' \in Loads
         /\ module # "users" => UserPart'
         /\ module # "seasons" => SeasonPart'
         /\ module # "catalog" => CatalogPart'
         /\ module # "demos" => DemoPart'
         /\ module # "divisions" => DivisionPart'
         /\ module # "globals" => GlobalPart'
         /\ module # "pools" => PoolPart'
         /\ module # "events" => EventPart'
<1>1. load' = load /\ load.module = module /\ load \in Loads
  BY DEF Only, ListInv
<1>2. module # "users" => UserPart'
  BY <1>1 DEF Only, ListInv, UserPart, StoredUsers, storeVars
<1>3. module # "seasons" => SeasonPart'
  BY <1>1 DEF Only, ListInv, SeasonPart, seasonVars
<1>4. module # "catalog" => CatalogPart'
  BY <1>1 DEF Only, ListInv, CatalogPart, catalogVars
<1>5. module # "demos" => DemoPart'
  BY <1>1 DEF Only, ListInv, DemoPart, demoVars
<1>6. module # "divisions" => DivisionPart'
  BY <1>1 DEF Only, ListInv, DivisionPart, divisionVars
<1>7. module # "globals" => GlobalPart'
  BY <1>1 DEF Only, ListInv, GlobalPart, globalVars
<1>8. module # "pools" => PoolPart'
  BY <1>1 DEF Only, ListInv, PoolPart, poolVars
<1>9. module # "events" => EventPart'
  BY <1>1 DEF Only, ListInv, EventPart, eventVars
<1>10. QED
  BY <1>1, <1>2, <1>3, <1>4, <1>5, <1>6, <1>7, <1>8, <1>9

\* A step of a slot.
LEMMA SlotStep ==
  ASSUME ListInv, NEW s \in Slots, NEW e, (e \in load.events /\ Admitted(e) /\ Submitted(s, e)) \/ Resumed(s)
  PROVE  ListInv'
<1>1. ASSUME Only("users"), (e \in load.events /\ Submit(s, e)) \/ Resume(s) PROVE ListInv'
  <2>1. load.module = "users" /\ TypeInv /\ UserList
    BY <1>1, OtherParts DEF ListInv, UserPart
  <2>2. e \in load.events => e \in Events
    BY <2>1, LoadsAssumption DEF ListInv
  <2>3. TypeInv'
    BY <1>1, <2>1, <2>2, TypeStep DEF Next
  <2>4. UserList'
    BY <1>1, <2>1, <2>2, UserStep
  <2>5. FlightsBySlot'
    BY <2>3 DEF TypeInv, TypeOK, FlightTypeOK, FlightsBySlot
  <2>6. QED
    BY <1>1, <2>3, <2>4, <2>5, OtherParts DEF ListInv, UserPart
<1>2. ASSUME Only("seasons"), Seasons!Submit(s, e) \/ Seasons!Resume(s) PROVE ListInv'
  <2>1. load.module = "seasons" /\ FlightsBySlot /\ SeasonList
    BY <1>2, OtherParts DEF ListInv, SeasonPart
  <2>2. FlightsBySlot' /\ SeasonList'
    BY <1>2, <2>1, SeasonStep
  <2>3. QED
    BY <1>2, <2>2, OtherParts DEF ListInv, SeasonPart
<1>3. ASSUME Only("catalog"), Catalog!Submit(s, e) \/ Catalog!Resume(s) PROVE ListInv'
  <2>1. load.module = "catalog" /\ FlightsBySlot /\ RegionList /\ FormatList
    BY <1>3, OtherParts DEF ListInv, CatalogPart
  <2>2. FlightsBySlot' /\ RegionList' /\ FormatList'
    BY <1>3, <2>1, CatalogStep
  <2>3. QED
    BY <1>3, <2>2, OtherParts DEF ListInv, CatalogPart
<1>4. ASSUME Only("payments"), Payments!Submit(s, e) \/ Payments!Resume(s) PROVE ListInv'
  <2>1. FlightsBySlot'
    BY <1>4, PaymentStep DEF ListInv
  <2>2. QED
    BY <1>4, <2>1, OtherParts DEF ListInv
<1>5. ASSUME Only("demos"), (Demos!Submit(s, e) /\ Admitted(e)) \/ Demos!Resume(s) PROVE ListInv'
  <2>1. load.module = "demos" /\ FlightsBySlot /\ DemoList /\ ReportsKnown /\ ReportList /\ (Waits => ReportInv)
    BY <1>5, OtherParts DEF ListInv, DemoPart
  <2>2. FlightsBySlot' /\ DemoList' /\ ReportsKnown' /\ ReportList'
    BY <1>5, <2>1, DemoStep
  <2>3. Waits => ReportInv'
    BY <1>5, <2>1, ReportStep
  <2>4. QED
    BY <1>5, <2>2, <2>3, OtherParts DEF ListInv, DemoPart
<1>6. ASSUME Only("divisions"), Divisions!Submit(s, e) \/ Divisions!Resume(s) PROVE ListInv'
  <2>1. load.module = "divisions" /\ FlightsBySlot /\ DivisionList
    BY <1>6, OtherParts DEF ListInv, DivisionPart
  <2>2. FlightsBySlot' /\ DivisionList'
    BY <1>6, <2>1, DivisionStep
  <2>3. QED
    BY <1>6, <2>2, OtherParts DEF ListInv, DivisionPart
<1>7. ASSUME Only("globals"), Globals!Submit(s, e) \/ Globals!Resume(s) PROVE ListInv'
  <2>1. load.module = "globals" /\ FlightsBySlot /\ GlobalInv
    BY <1>7, OtherParts DEF ListInv, GlobalPart
  <2>2. FlightsBySlot' /\ GlobalInv'
    BY <1>7, <2>1, GlobalStep
  <2>3. QED
    BY <1>7, <2>2, OtherParts DEF ListInv, GlobalPart
<1>8. ASSUME Only("pools"), MapPools!Submit(s, e) \/ MapPools!Resume(s) PROVE ListInv'
  <2>1. load.module = "pools" /\ FlightsBySlot /\ ArenaList /\ PoolList
    BY <1>8, OtherParts DEF ListInv, PoolPart
  <2>2. FlightsBySlot' /\ ArenaList' /\ PoolList'
    BY <1>8, <2>1, PoolStep
  <2>3. QED
    BY <1>8, <2>2, OtherParts DEF ListInv, PoolPart
<1>9. ASSUME Only("events"), Tournaments!Submit(s, e) \/ Tournaments!Resume(s) PROVE ListInv'
  <2>1. load.module = "events" /\ FlightsBySlot /\ EventList
    BY <1>9, OtherParts DEF ListInv, EventPart
  <2>2. FlightsBySlot' /\ EventList'
    BY <1>9, <2>1, EventStep
  <2>3. QED
    BY <1>9, <2>2, OtherParts DEF ListInv, EventPart
<1>10. QED
  BY <1>1, <1>2, <1>3, <1>4, <1>5, <1>6, <1>7, <1>8, <1>9 DEF Submitted, Resumed

\* A step of an op without a hop.
LEMMA LocalStep ==
  ASSUME ListInv, NEW e \in load.events, SubmittedLocal(e)
  PROVE  ListInv'
<1>1. ASSUME Only("users"), SubmitLocal(e) PROVE ListInv'
  <2>1. load.module = "users" /\ TypeInv /\ UserList
    BY <1>1, OtherParts DEF ListInv, UserPart
  <2>2. e \in Events
    BY <2>1, LoadsAssumption DEF ListInv
  <2>3. TypeInv' /\ UserList'
    BY <1>1, <2>1, <2>2, LocalType, UserLocal
  <2>4. FlightsBySlot'
    BY <2>3 DEF TypeInv, TypeOK, FlightTypeOK, FlightsBySlot
  <2>5. QED
    BY <1>1, <2>3, <2>4, OtherParts DEF ListInv, UserPart
<1>2. ASSUME Only("seasons"), Seasons!SubmitLocal(e) PROVE ListInv'
  <2>1. load.module = "seasons" /\ FlightsBySlot /\ SeasonList
    BY <1>2, OtherParts DEF ListInv, SeasonPart
  <2>2. FlightsBySlot' /\ SeasonList'
    BY <1>2, <2>1, SeasonLocal
  <2>3. QED
    BY <1>2, <2>2, OtherParts DEF ListInv, SeasonPart
<1>3. ASSUME Only("catalog"), Catalog!SubmitLocal(e) PROVE ListInv'
  <2>1. load.module = "catalog" /\ FlightsBySlot /\ RegionList /\ FormatList
    BY <1>3, OtherParts DEF ListInv, CatalogPart
  <2>2. FlightsBySlot' /\ RegionList' /\ FormatList'
    BY <1>3, <2>1, CatalogLocal
  <2>3. QED
    BY <1>3, <2>2, OtherParts DEF ListInv, CatalogPart
<1>4. ASSUME Only("payments"), Payments!SubmitLocal(e) PROVE ListInv'
  <2>1. FlightsBySlot'
    BY <1>4 DEF ListInv, FlightsBySlot, Payments!SubmitLocal, Payments!MarkPaidLocally,
       Payments!CreateItemOrder,
                Payments!ExpireItemOrder, Payments!flightVars
  <2>2. QED
    BY <1>4, <2>1, OtherParts DEF ListInv
<1>5. ASSUME Only("notifications"), Notifications!SubmitLocal(e) PROVE ListInv'
  <2>1. FlightsBySlot'
    BY <1>5 DEF ListInv, FlightsBySlot, Notifications!SubmitLocal, Notifications!flightVars
  <2>2. QED
    BY <1>5, <2>1, OtherParts DEF ListInv
<1>6. ASSUME Only("globals"), Globals!SubmitLocal(e) PROVE ListInv'
  <2>1. load.module = "globals" /\ FlightsBySlot /\ GlobalInv
    BY <1>6, OtherParts DEF ListInv, GlobalPart
  <2>2. FlightsBySlot' /\ GlobalInv'
    BY <1>6, <2>1, GlobalLocal
  <2>3. QED
    BY <1>6, <2>2, OtherParts DEF ListInv, GlobalPart
<1>7. ASSUME Only("pools"), MapPools!SubmitLocal(e) PROVE ListInv'
  <2>1. load.module = "pools" /\ FlightsBySlot /\ ArenaList /\ PoolList
    BY <1>7, OtherParts DEF ListInv, PoolPart
  <2>2. FlightsBySlot' /\ ArenaList' /\ PoolList'
    BY <1>7, <2>1, PoolLocal
  <2>3. QED
    BY <1>7, <2>2, OtherParts DEF ListInv, PoolPart
<1>8. ASSUME Only("events"), Tournaments!SubmitLocal(e) PROVE ListInv'
  <2>1. load.module = "events" /\ FlightsBySlot /\ EventList
    BY <1>8, OtherParts DEF ListInv, EventPart
  <2>2. FlightsBySlot' /\ EventList'
    BY <1>8, <2>1, EventLocal
  <2>3. QED
    BY <1>8, <2>2, OtherParts DEF ListInv, EventPart
<1>9. QED
  BY <1>1, <1>2, <1>3, <1>4, <1>5, <1>6, <1>7, <1>8 DEF SubmittedLocal

\* Nothing is listed, and nothing is there to list, at the start.
LEMMA ListsAtStart == MCInit => ListInv
<1> SUFFICES ASSUME MCInit PROVE ListInv
  OBVIOUS
<1>1. FlightsBySlot /\ \A label : label # "idle" => At(label) = {}
  BY DEF MCInit, Init, FlightInit, FlightsBySlot, At
<1>2. load \in Loads
  BY DEF MCInit
<1>3. UserPart
  <2>1. TypeInv
    BY TypeAtStart DEF MCInit
  <2>2. StoredUsers = {} /\ userIds = {}
    BY DEF MCInit, Init, StoredUsers
  <2>3. QED
    BY <1>1, <2>1, <2>2 DEF UserPart, UserList
<1>4. SeasonPart
  BY <1>1 DEF MCInit, Seasons!Init, SeasonPart, SeasonList
<1>5. CatalogPart
  BY <1>1 DEF MCInit, Catalog!Init, CatalogPart, RegionList, FormatList
<1>6. DemoPart
  <2>1. demos = <<>> /\ demosByMatch = {} /\ demoReports = <<>> /\ reportsByStatus = {} /\ reportsByDemo = {}
    BY DEF MCInit, Demos!Init
  <2>2. DemoList
    BY <1>1, <2>1 DEF DemoList
  <2>3. ReportsKnown /\ ReportList
    BY <1>1, <2>1 DEF ReportsKnown, ReportList
  <2>4. ReportInv
    BY <2>1 DEF ReportInv
  <2>5. QED
    BY <2>1, <2>2, <2>3, <2>4 DEF DemoPart
<1>7. DivisionPart
  BY <1>1 DEF MCInit, Divisions!Init, DivisionPart, DivisionList
<1>8. GlobalPart
  <2>1. /\ announcements = <<>> /\ announcementIds = {} /\ visibleAnnouncementIds = {}
        /\ auditLogs = <<>> /\ auditIds = <<>>
    BY DEF MCInit, Globals!Init
  <2>2. GlobalRows
    BY <2>1 DEF GlobalRows
  <2>3. \A a : IdWriters(a) = {} /\ VisibleWriters(a) = {} /\ AuditWriters(a) = {}
    BY DEF MCInit, Init, FlightInit, IdWriters, VisibleWriters, AuditWriters
  <2>4. \A a : IdAgrees(a) /\ VisibleAgrees(a) /\ AuditAgrees(a)
    BY <2>1 DEF IdAgrees, VisibleAgrees, AuditAgrees, Visible
  <2>5. GlobalInv
    BY <2>2, <2>3, <2>4 DEF GlobalInv, IdsOK, VisibleOK, AuditOK, Mirrored, Ordered
  <2>6. QED
    BY <2>1, <2>5 DEF GlobalPart
<1>9. PoolPart
  BY <1>1 DEF MCInit, MapPools!Init, PoolPart, ArenaList, PoolList
<1>10. EventPart
  BY <1>1 DEF MCInit, Tournaments!Init, EventPart, EventList
<1>11. QED
  BY <1>1, <1>2, <1>3, <1>4, <1>5, <1>6, <1>7, <1>8, <1>9, <1>10 DEF ListInv

\* A step that changes nothing.
LEMMA ListsStand ==
  ASSUME ListInv, UNCHANGED allVars
  PROVE  ListInv'
<1>1. UNCHANGED <<load, flightVars, storeVars, seasonVars, catalogVars, demoVars, divisionVars, globalVars,
                  poolVars, eventVars>>
  BY DEF allVars, vars
<1>2. FlightsBySlot' /\ load' \in Loads
  BY <1>1 DEF ListInv, FlightsBySlot, flightVars
<1>3. UserPart'
  <2>1. load.module = "users" => TypeInv'
    BY <1>1, TypeStep DEF ListInv, UserPart, vars
  <2>2. QED
    BY <1>1, <2>1 DEF ListInv, UserPart, UserList, StoredUsers, storeVars, At, flightVars
<1>4. SeasonPart' /\ CatalogPart'
  BY <1>1 DEF ListInv, SeasonPart, SeasonList, seasonVars, CatalogPart, RegionList, FormatList, catalogVars,
     At, flightVars
<1>5. DemoPart'
  <2>1. /\ DemoList' <=> DemoList
        /\ ReportsKnown' <=> ReportsKnown
        /\ ReportList' <=> ReportList
    BY <1>1 DEF DemoList, ReportsKnown, ReportList, demoVars, At, flightVars
  <2>2. ReportInv => ReportInv'
    BY <1>1 DEF ReportInv, ReportOK, Stands, Listed, Filing, Resolving, Unlisting, Relisting, demoVars, At,
       flightVars
  <2>3. QED
    BY <1>1, <2>1, <2>2 DEF ListInv, DemoPart, demoVars
<1>6. DivisionPart' /\ PoolPart' /\ EventPart'
  BY <1>1 DEF ListInv, DivisionPart, DivisionList, divisionVars, PoolPart, ArenaList, PoolList, poolVars,
     EventPart,
              EventList, eventVars, At, flightVars
<1>7. GlobalPart'
  <2>1. GlobalInv => GlobalInv'
    BY <1>1, GlobalsStand DEF globalVars
  <2>2. QED
    BY <1>1, <2>1 DEF ListInv, GlobalPart, globalVars
<1>8. QED
  BY <1>2, <1>3, <1>4, <1>5, <1>6, <1>7 DEF ListInv

\* The invariant: every list is short of what is on its way to it, and of nothing else.
THEOREM ListInvariant == MCSpec => []ListInv
<1>1. ListInv /\ [MCNext]_allVars => ListInv'
  BY SlotStep, LocalStep, ListsStand DEF MCNext
<1>2. QED
  BY <1>1, ListsAtStart, PTL DEF MCSpec

\* Once nothing is under way, every list is that of the rows.
LEMMA ListsAtRest == ListInv => ListsMirrorRows
<1> SUFFICES ASSUME ListInv, Quiescent PROVE ListsMirrorRows
  <2>1. (~Quiescent) => ListsMirrorRows
    BY DEF ListsMirrorRows, Quiescent, Idle, Seasons!SeasonsListed, Seasons!Quiescent, Seasons!Idle,
           Catalog!CatalogListed, Catalog!Quiescent, Catalog!Idle, Demos!DemosListed, Demos!Quiescent, Demos!Idle,
           Divisions!DivisionsListed, Divisions!Quiescent, Divisions!Idle, Globals!AnnouncementsMirrored,
           Globals!Quiescent, Globals!Idle, MapPools!PoolsListed, MapPools!Quiescent, MapPools!Idle,
           Tournaments!EventsListed, Tournaments!Quiescent, Tournaments!Idle
  <2>2. QED
    BY <2>1
<1>1. \A label : label # "idle" => At(label) = {}
  BY DEF At, Quiescent, Idle
<1>2. StoredUsers = userIds
  BY <1>1 DEF ListInv, UserPart, UserList
<1>3. Seasons!SeasonsListed
  BY <1>1 DEF ListInv, SeasonPart, SeasonList, Seasons!SeasonsListed
<1>4. Catalog!CatalogListed
  <2>1. CASE load.module = "catalog"
    BY <1>1, <2>1 DEF ListInv, CatalogPart, RegionList, FormatList, Catalog!CatalogListed
  <2>2. CASE load.module # "catalog"
    BY <2>2 DEF ListInv, CatalogPart, Catalog!CatalogListed
  <2>3. QED
    BY <2>1, <2>2
<1>5. Demos!DemosListed
  <2>1. CASE load.module = "demos"
    BY <1>1, <2>1 DEF ListInv, DemoPart, DemoList, ReportList, Demos!DemosListed
  <2>2. CASE load.module # "demos"
    BY <2>2 DEF ListInv, DemoPart, Demos!DemosListed
  <2>3. QED
    BY <2>1, <2>2
<1>6. Divisions!DivisionsListed
  BY <1>1 DEF ListInv, DivisionPart, DivisionList, Divisions!DivisionsListed
<1>7. Globals!AnnouncementsMirrored
  <2>1. CASE load.module = "globals"
    <3>1. GlobalInv /\ \A a : IdWriters(a) = {} /\ VisibleWriters(a) = {} /\ AuditWriters(a) = {}
      BY <2>1 DEF ListInv, GlobalPart, Quiescent, Idle, IdWriters, VisibleWriters, AuditWriters
    <3>2. \A a : IdAgrees(a) /\ VisibleAgrees(a) /\ AuditAgrees(a)
      BY <3>1 DEF GlobalInv, IdsOK, VisibleOK, AuditOK, Mirrored
    <3>3. announcementIds = DOMAIN announcements
      BY <3>2 DEF IdAgrees
    <3>4. visibleAnnouncementIds = {a \in DOMAIN announcements : announcements[a].visible}
      BY <3>2 DEF VisibleAgrees, Visible
    <3>5. auditIds = auditLogs
      <4>1. DOMAIN auditIds = DOMAIN auditLogs
        BY <3>2 DEF AuditAgrees
      <4>2. \A a \in DOMAIN auditLogs : auditIds[a] = auditLogs[a]
        BY <3>2 DEF AuditAgrees
      <4>3. QED
        BY <3>1, <4>1, <4>2 DEF GlobalInv, GlobalRows
    <3>6. QED
      BY <3>3, <3>4, <3>5 DEF Globals!AnnouncementsMirrored
  <2>2. CASE load.module # "globals"
    BY <2>2 DEF ListInv, GlobalPart, Globals!AnnouncementsMirrored
  <2>3. QED
    BY <2>1, <2>2
<1>8. MapPools!PoolsListed
  <2>1. CASE load.module = "pools"
    BY <1>1, <2>1 DEF ListInv, PoolPart, ArenaList, PoolList, MapPools!PoolsListed
  <2>2. CASE load.module # "pools"
    BY <2>2 DEF ListInv, PoolPart, MapPools!PoolsListed
  <2>3. QED
    BY <2>1, <2>2
<1>9. Tournaments!EventsListed
  <2>1. CASE load.module = "events"
    BY <1>1, <2>1 DEF ListInv, EventPart, EventList, Tournaments!EventsListed
  <2>2. CASE load.module # "events"
    BY <2>2 DEF ListInv, EventPart, Tournaments!EventsListed
  <2>3. QED
    BY <2>1, <2>2
<1>10. QED
  BY <1>2, <1>3, <1>4, <1>5, <1>6, <1>7, <1>8, <1>9 DEF ListsMirrorRows, StoredUsers

\* Whatever is submitted, and however the events interleave: once everything is
\* answered, the lists on other partitions are those of the rows.
THEOREM ListsComplete == MCSpec => []ListsMirrorRows
  BY ListInvariant, ListsAtRest, PTL

\* The same of the lists of reports by status.
LEMMA ReportsAtRest == Waits /\ ListInv => ReportListedOnce
<1> SUFFICES ASSUME Waits, ListInv, Quiescent
             PROVE  reportsByStatus = {<<demoReports[r].status, r>> : r \in DOMAIN demoReports}
  BY DEF ReportListedOnce, Demos!ReportListedOnce, Demos!Quiescent, Demos!Idle, Quiescent, Idle
<1>1. CASE load.module = "demos"
  <2>1. ReportInv /\ \A r : Filing(r) = {} /\ Resolving(r) = {}
    BY <1>1 DEF ListInv, DemoPart, Filing, Resolving, Unlisting, Relisting, At, Quiescent, Idle
  <2>2. \A r \in DOMAIN demoReports : Listed(r) = {<<demoReports[r].status, r>>}
    BY <2>1 DEF ReportInv, ReportOK, Stands
  <2>3. \A p \in reportsByStatus : p[2] \in DOMAIN demoReports /\ p \in Listed(p[2])
    BY <2>1 DEF ReportInv, Listed
  <2>4. \A r \in DOMAIN demoReports : <<demoReports[r].status, r>> \in reportsByStatus
    BY <2>2 DEF Listed
  <2>5. QED
    BY <2>2, <2>3, <2>4
<1>2. CASE load.module # "demos"
  BY <1>2 DEF ListInv, DemoPart
<1>3. QED
  BY <1>1, <1>2

\* Where a report is resolved again only after the answer to the last time: once
\* everything is answered, a report is listed under its status and no other.
THEOREM ReportsListedOnce == ASSUME Waits PROVE MCSpec => []ReportListedOnce
<1>1. ListInv => ReportListedOnce
  BY ReportsAtRest
<1>2. QED
  BY <1>1, ListInvariant, PTL
=============================================================================
