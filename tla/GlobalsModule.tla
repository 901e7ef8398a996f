---------------------------- MODULE GlobalsModule ----------------------------
(***************************************************************************)
(* globals_module.rama: announcements, which of them are visible, and the  *)
(* audit log, each with a list on the "all" partition that is written a    *)
(* hop after the row.                                                      *)
(*                                                                         *)
(* Of an audit log only its time is kept, which its list repeats.          *)
(***************************************************************************)
EXTENDS RamaTopology

CONSTANTS All,
          Events   \* the depot records that clients may append

VARIABLES announcements, announcementIds, visibleAnnouncementIds,
          auditLogs, auditIds

storeVars == <<announcements, announcementIds, visibleAnnouncementIds, auditLogs, auditIds>>
vars == <<flightVars, storeVars>>

Init ==
  /\ FlightInit
  /\ announcements = <<>> /\ announcementIds = {} /\ visibleAnnouncementIds = {}
  /\ auditLogs = <<>> /\ auditIds = <<>>

---------------------------------------------------------------------------
(* Announcements *)

CreateAnnouncementError(e) ==
  Empty \in {e.announcementId, e.content} \/ e.announcementId \in DOMAIN announcements

CreateAnnouncement(s, e) ==
  /\ e.op = "create-announcement" /\ ~CreateAnnouncementError(e)
  /\ announcements' = Put(announcements, e.announcementId, [content |-> e.content, visible |-> FALSE])
  /\ Launch(s, e, e.announcementId, All, "created@all", NoLocals)
  /\ UNCHANGED <<announcementIds, visibleAnnouncementIds, auditLogs, auditIds>>

ListAnnouncement(s) ==
  /\ Ready(s, "created@all")
  /\ announcementIds' = announcementIds \cup {event[s].announcementId}
  /\ Finish(s)
  /\ UNCHANGED <<announcements, visibleAnnouncementIds, auditLogs, auditIds>>

UpdateAnnouncement(e) ==
  /\ e.op = "update-announcement" /\ e.announcementId \in DOMAIN announcements
  /\ announcements' = [announcements EXCEPT ![e.announcementId].content = e.content]
  /\ UNCHANGED <<flightVars, announcementIds, visibleAnnouncementIds, auditLogs, auditIds>>

SetAnnouncementVisible(s, e) ==
  /\ e.op = "set-announcement-visible" /\ e.announcementId \in DOMAIN announcements
  /\ LET visible == OrDefault(e.visible, None, FALSE)
     IN /\ announcements' = [announcements EXCEPT ![e.announcementId].visible = visible]
        /\ Launch(s, e, e.announcementId, All, "visible@all", [visible |-> visible])
  /\ UNCHANGED <<announcementIds, visibleAnnouncementIds, auditLogs, auditIds>>

ListVisible(s) ==
  /\ Ready(s, "visible@all")
  /\ visibleAnnouncementIds' =
       IF locals[s].visible THEN visibleAnnouncementIds \cup {event[s].announcementId}
       ELSE visibleAnnouncementIds \ {event[s].announcementId}
  /\ Finish(s)
  /\ UNCHANGED <<announcements, announcementIds, auditLogs, auditIds>>

DeleteAnnouncement(s, e) ==
  /\ e.op = "delete-announcement" /\ e.announcementId \in DOMAIN announcements
  /\ announcements' = Drop(announcements, e.announcementId)
  /\ Launch(s, e, e.announcementId, All, "deleted@all", NoLocals)
  /\ UNCHANGED <<announcementIds, visibleAnnouncementIds, auditLogs, auditIds>>

\* Mutant: a deleted announcement stays on the list of visible ones.
UnlistIdOnly(s) ==
  /\ Ready(s, "deleted@all")
  /\ announcementIds' = announcementIds \ {event[s].announcementId}
  /\ Finish(s)
  /\ UNCHANGED <<announcements, visibleAnnouncementIds, auditLogs, auditIds>>

UnlistAnnouncement(s) ==
  /\ Ready(s, "deleted@all")
  /\ announcementIds' = announcementIds \ {event[s].announcementId}
  /\ visibleAnnouncementIds' = visibleAnnouncementIds \ {event[s].announcementId}
  /\ Finish(s)
  /\ UNCHANGED <<announcements, auditLogs, auditIds>>

---------------------------------------------------------------------------
(* append-audit *)

AuditError(e) == Empty \in {e.auditId, e.category, e.action}

AppendAudit(s, e) ==
  /\ e.op = "append-audit" /\ ~AuditError(e)
  /\ LET created == OrDefault(e.createdAt, None, Empty)
     IN /\ auditLogs' = Put(auditLogs, e.auditId, created)
        /\ Launch(s, e, e.auditId, All, "audit@all", [created |-> created])
  /\ UNCHANGED <<announcements, announcementIds, visibleAnnouncementIds, auditIds>>

ListAudit(s) ==
  /\ Ready(s, "audit@all")
  /\ auditIds' = Put(auditIds, event[s].auditId, locals[s].created)
  /\ Finish(s)
  /\ UNCHANGED <<announcements, announcementIds, visibleAnnouncementIds, auditLogs>>

---------------------------------------------------------------------------
Submit(s, e) ==
  \/ CreateAnnouncement(s, e) \/ SetAnnouncementVisible(s, e) \/ DeleteAnnouncement(s, e)
  \/ AppendAudit(s, e)
Resume(s) == ListAnnouncement(s) \/ ListVisible(s) \/ UnlistAnnouncement(s) \/ ListAudit(s)
SubmitLocal(e) == UpdateAnnouncement(e)

Next ==
  \/ \E s \in Slots, e \in Events : Submit(s, e)
  \/ \E s \in Slots : Resume(s)
  \/ \E e \in Events : SubmitLocal(e)
Spec == Init /\ [][Next]_vars

---------------------------------------------------------------------------
(* globals_module.rama:2 'announcements and audit logs use "all" fanout      *)
(* indexes': once everything is answered the lists are those of the rows,    *)
(* however creating, showing, hiding and deleting one announcement overlap:  *)
(* its hops to "all" take one link, in order.                                *)
AnnouncementsMirrored ==
  Quiescent =>
    /\ announcementIds = DOMAIN announcements
    /\ visibleAnnouncementIds = {a \in DOMAIN announcements : announcements[a].visible}
    /\ auditIds = auditLogs
=============================================================================
