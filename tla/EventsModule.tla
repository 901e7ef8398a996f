---------------------------- MODULE EventsModule -----------------------------
(***************************************************************************)
(* events_module.rama: tournaments with their participants, placements and *)
(* snapshot, on the event's partition, and the list of ids on "all".       *)
(*                                                                         *)
(* The texts of an event but its name are one value, `texts`.              *)
(***************************************************************************)
EXTENDS RamaTopology

CONSTANTS All,
          Events   \* the depot records that clients may append

VARIABLES events, eventIds, eventParticipants, eventPlacements, eventSnapshot

storeVars == <<events, eventIds, eventParticipants, eventPlacements, eventSnapshot>>
vars == <<flightVars, storeVars>>

Statuses == {"UPCOMING", "REGISTRATION", "IN_PROGRESS", "COMPLETED"}
Types == {"CUP", "CHAMPIONSHIP", "FIGHT_NIGHT"}

Init ==
  /\ FlightInit
  /\ events = <<>> /\ eventIds = {}
  /\ eventParticipants = <<>> /\ eventPlacements = <<>> /\ eventSnapshot = <<>>

CreateError(e) == Empty \in {e.eventId, e.name} \/ e.eventType \notin Types \/ e.eventId \in DOMAIN events

CreateEvent(s, e) ==
  /\ e.op = "create-event" /\ ~CreateError(e)
  /\ events' = Put(events, e.eventId, [name |-> e.name, type |-> e.eventType, status |-> "UPCOMING",
                     isTeamEvent |-> OrDefault(e.isTeamEvent, None, FALSE), texts |-> OrDefault(e.texts, None, Empty)])
  /\ eventParticipants' = Put(eventParticipants, e.eventId, <<>>)
  /\ eventPlacements' = Put(eventPlacements, e.eventId, <<>>)
  /\ Launch(s, e, e.eventId, All, "event@all", NoLocals)
  /\ UNCHANGED <<eventIds, eventSnapshot>>

ListEvent(s) ==
  /\ Ready(s, "event@all")
  /\ eventIds' = eventIds \cup {event[s].eventId}
  /\ Finish(s)
  /\ UNCHANGED <<events, eventParticipants, eventPlacements, eventSnapshot>>

---------------------------------------------------------------------------
(* Hop-free, on an event that exists; each replaces what was there. *)

UpdateEvent(e) ==
  /\ e.op = "update-event" /\ e.name # Empty
  /\ events' = [events EXCEPT ![e.eventId].name = e.name, ![e.eventId].texts = OrDefault(e.texts, None, Empty)]
  /\ UNCHANGED <<eventParticipants, eventPlacements, eventSnapshot>>

SetStatus(e) ==
  /\ e.op = "set-status" /\ e.status \in Statuses
  /\ events' = [events EXCEPT ![e.eventId].status = e.status]
  /\ UNCHANGED <<eventParticipants, eventPlacements, eventSnapshot>>

\* What is not sequential is as good as nil.
SetParticipants(e) ==
  /\ e.op = "set-participants" /\ e.items # None
  /\ eventParticipants' = [eventParticipants EXCEPT ![e.eventId] = e.items]
  /\ UNCHANGED <<events, eventPlacements, eventSnapshot>>

SetPlacements(e) ==
  /\ e.op = "set-placements" /\ e.items # None
  /\ eventPlacements' = [eventPlacements EXCEPT ![e.eventId] = e.items]
  /\ UNCHANGED <<events, eventParticipants, eventSnapshot>>

SetSnapshot(e) ==
  /\ e.op = "set-snapshot"
  /\ eventSnapshot' = Put(eventSnapshot, e.eventId, e.snapshot)
  /\ UNCHANGED <<events, eventParticipants, eventPlacements>>

---------------------------------------------------------------------------
Submit(s, e) == CreateEvent(s, e)
Resume(s) == ListEvent(s)
SubmitLocal(e) ==
  /\ "eventId" \in DOMAIN e /\ e.eventId \in DOMAIN events
  /\ UpdateEvent(e) \/ SetStatus(e) \/ SetParticipants(e) \/ SetPlacements(e) \/ SetSnapshot(e)
  /\ UNCHANGED <<flightVars, eventIds>>

Next ==
  \/ \E s \in Slots, e \in Events : Submit(s, e)
  \/ \E s \in Slots : Resume(s)
  \/ \E e \in Events : SubmitLocal(e)
Spec == Init /\ [][Next]_vars

---------------------------------------------------------------------------
\* A stored event is listed once everything submitted has been answered.
EventsListed == Quiescent => DOMAIN events = eventIds
=============================================================================
