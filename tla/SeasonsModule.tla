---------------------------- MODULE SeasonsModule ----------------------------
(***************************************************************************)
(* seasons_module.rama: season rows, the index that keeps a number to one  *)
(* season of a region and format, and the list of ids on "all".  The index *)
(* entry is claimed on the region's partition before the row is written on *)
(* the season's.                                                           *)
(***************************************************************************)
EXTENDS SeasonRows, RamaTopology

CONSTANTS All,     \* the key "all"
          Events   \* the depot records that clients may append

VARIABLE seasonIds  \* $$season-ids, the entries of key "all"

storeVars == <<seasons, seasonIndex, seasonIds>>
vars == <<flightVars, storeVars>>

Init == FlightInit /\ seasons = <<>> /\ seasonIndex = <<>> /\ seasonIds = {}

---------------------------------------------------------------------------
(* create-season *)

CreateError(e) ==
  Empty \in {e.seasonId, e.regionId, e.formatId} \/ e.seasonNum = None \/ e.seasonId \in DOMAIN seasons

CreateSeason(s, e) ==
  /\ e.op = "create-season" /\ ~CreateError(e)
  /\ Launch(s, e, e.seasonId, e.regionId, "season@region", NoLocals)
  /\ UNCHANGED storeVars

\* Mutant: a number that another season has is taken over.
UniquenessIgnored(e) == FALSE
UniquenessError(e) == AtOr(seasonIndex, NumberKey(e), e.seasonId) # e.seasonId

CreateClaim(s) ==
  /\ Ready(s, "season@region")
  /\ LET e == event[s]
     IN IF UniquenessError(e) THEN Finish(s) /\ UNCHANGED seasonIndex
        ELSE /\ seasonIndex' = Put(seasonIndex, NumberKey(e), e.seasonId)
             /\ Hop(s, e.seasonId, "season@row", NoLocals)
  /\ UNCHANGED <<seasons, seasonIds>>

NewSeason(e) ==
  [seasonNum |-> e.seasonNum, regionId |-> e.regionId, formatId |-> e.formatId,
   numWeeks |-> OrDefault(e.numWeeks, None, 0), flags |-> <<FALSE, FALSE, FALSE>>,
   matchWeek |-> 0, matchDeadline |-> Empty, info |-> Empty]

CreateRow(s) ==
  /\ Ready(s, "season@row")
  /\ seasons' = Put(seasons, event[s].seasonId, NewSeason(event[s]))
  /\ Hop(s, All, "season@all", NoLocals)
  /\ UNCHANGED <<seasonIndex, seasonIds>>

CreateList(s) ==
  /\ Ready(s, "season@all")
  /\ seasonIds' = seasonIds \cup {event[s].seasonId}
  /\ Finish(s)
  /\ UNCHANGED <<seasons, seasonIndex>>

---------------------------------------------------------------------------
(* set-flags, set-schedule, set-info, update-season: hop-free, on a season  *)
(* that exists.                                                             *)

Changed(e, row) ==
  /\ e.seasonId \in DOMAIN seasons
  /\ seasons' = [seasons EXCEPT ![e.seasonId] = row]
  /\ UNCHANGED <<flightVars, seasonIndex, seasonIds>>

SetFlags(e) ==
  /\ e.op = "set-flags"
  /\ Changed(e, [seasons[e.seasonId] EXCEPT !.flags = [i \in 1..3 |-> OrDefault(e.flags[i], None, FALSE)]])
SetSchedule(e) ==
  /\ e.op = "set-schedule"
  /\ Changed(e, [seasons[e.seasonId] EXCEPT !.matchWeek = OrDefault(e.matchWeek, None, 0),
                                            !.matchDeadline = OrDefault(e.matchDeadline, None, Empty)])
SetInfo(e) ==
  e.op = "set-info" /\ Changed(e, [seasons[e.seasonId] EXCEPT !.info = OrDefault(e.info, None, Empty)])
UpdateSeason(e) ==
  e.op = "update-season" /\ Changed(e, [seasons[e.seasonId] EXCEPT !.numWeeks = OrDefault(e.numWeeks, None, 0)])

---------------------------------------------------------------------------
Submit(s, e) == CreateSeason(s, e)
Resume(s) == CreateClaim(s) \/ CreateRow(s) \/ CreateList(s)
SubmitLocal(e) == SetFlags(e) \/ SetSchedule(e) \/ SetInfo(e) \/ UpdateSeason(e)

Next ==
  \/ \E s \in Slots, e \in Events : Submit(s, e)
  \/ \E s \in Slots : Resume(s)
  \/ \E e \in Events : SubmitLocal(e)
Spec == Init /\ [][Next]_vars

---------------------------------------------------------------------------
\* A stored season is listed once everything submitted has been answered.
SeasonsListed == Quiescent => DOMAIN seasons = seasonIds
=============================================================================
