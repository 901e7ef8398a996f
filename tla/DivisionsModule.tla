--------------------------- MODULE DivisionsModule ---------------------------
(***************************************************************************)
(* divisions_module.rama: divisions and the list of a region's divisions   *)
(* on the region's partition.  Costs and sort orders are left out.         *)
(***************************************************************************)
EXTENDS RamaTopology

CONSTANT Events   \* the depot records that clients may append

VARIABLES divisions,            \* $$divisions
          divisionIdsByRegion   \* $$division-ids-by-region, as <<region, division>>

storeVars == <<divisions, divisionIdsByRegion>>
vars == <<flightVars, storeVars>>

Init == FlightInit /\ divisions = <<>> /\ divisionIdsByRegion = {}

UpsertError(e) == Empty \in {e.divisionId, e.name, e.regionId}

UpsertDivision(s, e) ==
  /\ e.op = "upsert-division" /\ ~UpsertError(e)
  /\ divisions' = Put(divisions, e.divisionId, [name |-> e.name, regionId |-> e.regionId])
  /\ Launch(s, e, e.divisionId, e.regionId, "division@region", NoLocals)
  /\ UNCHANGED divisionIdsByRegion

ListDivision(s) ==
  /\ Ready(s, "division@region")
  /\ divisionIdsByRegion' = divisionIdsByRegion \cup {<<event[s].regionId, event[s].divisionId>>}
  /\ Finish(s)
  /\ UNCHANGED divisions

Submit(s, e) == UpsertDivision(s, e)
Resume(s) == ListDivision(s)

Next ==
  \/ \E s \in Slots, e \in Events : Submit(s, e)
  \/ \E s \in Slots : Resume(s)
Spec == Init /\ [][Next]_vars

---------------------------------------------------------------------------
(* Once everything is answered, a division is listed under its region.  (It *)
(* stays listed under the regions it had before, too.)                      *)
DivisionsListed ==
  Quiescent => \A d \in DOMAIN divisions : <<divisions[d].regionId, d>> \in divisionIdsByRegion
=============================================================================
