---------------------------- MODULE CatalogModule ----------------------------
(***************************************************************************)
(* catalog_module.rama: regions, formats with a code that the reverse      *)
(* index on the code's partition gives to one of them, the season that is  *)
(* open for signup per region and format, and the lists of ids on "all".   *)
(***************************************************************************)
EXTENDS FormatRows, RamaTopology

CONSTANTS All,
          Events   \* the depot records that clients may append

VARIABLES regions, regionIds,    \* $$regions, $$region-ids
          formatIds,             \* $$format-ids
          activeSignup           \* $$active-signup, by region and format

storeVars == <<regions, regionIds, formats, formatIds, formatByCode, activeSignup>>
vars == <<flightVars, storeVars>>

Init ==
  /\ FlightInit
  /\ regions = <<>> /\ regionIds = {} /\ activeSignup = <<>>
  /\ formats = <<>> /\ formatIds = {} /\ formatByCode = <<>>

---------------------------------------------------------------------------
(* upsert-region, set-region-hidden *)

RegionError(e) == Empty \in {e.regionId, e.name}

UpsertRegion(s, e) ==
  /\ e.op = "upsert-region" /\ ~RegionError(e)
  /\ regions' = Put(regions, e.regionId, [name |-> e.name, hidden |-> OrDefault(e.hidden, None, FALSE),
                                          currency |-> [i \in 1..2 |-> OrDefault(e.currency[i], None, Empty)]])
  /\ Launch(s, e, e.regionId, All, "region@all", NoLocals)
  /\ UNCHANGED <<regionIds, formats, formatIds, formatByCode, activeSignup>>

ListRegion(s) ==
  /\ Ready(s, "region@all")
  /\ regionIds' = regionIds \cup {event[s].regionId}
  /\ Finish(s)
  /\ UNCHANGED <<regions, formats, formatIds, formatByCode, activeSignup>>

SetRegionHidden(e) ==
  /\ e.op = "set-region-hidden" /\ e.regionId \in DOMAIN regions
  /\ regions' = [regions EXCEPT ![e.regionId].hidden = OrDefault(e.hidden, None, FALSE)]
  /\ UNCHANGED <<flightVars, regionIds, formats, formatIds, formatByCode, activeSignup>>

---------------------------------------------------------------------------
(* upsert-format: the code is claimed before the row is written. *)

FormatError(e) == Empty \in {e.formatId, e.name, e.code}

UpsertFormat(s, e) ==
  /\ e.op = "upsert-format" /\ ~FormatError(e)
  /\ Launch(s, e, e.formatId, e.code, "format@code", NoLocals)
  /\ UNCHANGED storeVars

\* Mutant: a code that another format has is taken over.
CodeTakenIgnored(e) == FALSE
FormatCodeTakenError(e) == AtOr(formatByCode, e.code, e.formatId) # e.formatId

ClaimCode(s) ==
  /\ Ready(s, "format@code")
  /\ LET e == event[s]
     IN IF FormatCodeTakenError(e) THEN Finish(s) /\ UNCHANGED formatByCode
        ELSE /\ formatByCode' = Put(formatByCode, e.code, e.formatId)
             /\ Hop(s, e.formatId, "format@row", NoLocals)
  /\ UNCHANGED <<regions, regionIds, formats, formatIds, activeSignup>>

FormatRow(s) ==
  /\ Ready(s, "format@row")
  /\ formats' = Put(formats, event[s].formatId, [name |-> event[s].name, code |-> event[s].code])
  /\ Hop(s, All, "format@all", NoLocals)
  /\ UNCHANGED <<regions, regionIds, formatIds, formatByCode, activeSignup>>

ListFormat(s) ==
  /\ Ready(s, "format@all")
  /\ formatIds' = formatIds \cup {event[s].formatId}
  /\ Finish(s)
  /\ UNCHANGED <<regions, regionIds, formats, formatByCode, activeSignup>>

---------------------------------------------------------------------------
(* set-active-signup *)

ActiveSignupError(e) == Empty \in {e.regionId, e.formatId, e.seasonId}

SetActiveSignup(e) ==
  /\ e.op = "set-active-signup" /\ ~ActiveSignupError(e)
  /\ activeSignup' = Put(activeSignup, <<e.regionId, e.formatId>>, e.seasonId)
  /\ UNCHANGED <<flightVars, regions, regionIds, formats, formatIds, formatByCode>>

---------------------------------------------------------------------------
Submit(s, e) == UpsertRegion(s, e) \/ UpsertFormat(s, e)
Resume(s) == ListRegion(s) \/ ClaimCode(s) \/ FormatRow(s) \/ ListFormat(s)
SubmitLocal(e) == SetRegionHidden(e) \/ SetActiveSignup(e)

Next ==
  \/ \E s \in Slots, e \in Events : Submit(s, e)
  \/ \E s \in Slots : Resume(s)
  \/ \E e \in Events : SubmitLocal(e)
Spec == Init /\ [][Next]_vars

---------------------------------------------------------------------------
\* Stored regions and formats are listed once everything submitted has been answered.
CatalogListed == Quiescent => DOMAIN regions = regionIds /\ DOMAIN formats = formatIds
=============================================================================
