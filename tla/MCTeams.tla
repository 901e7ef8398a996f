------------------------------- MODULE MCTeams -------------------------------
(* Instances of TeamsModule for TLC.  Every key lives on a task of its own. *)
(* A behaviour has one load, chosen at the start: the events its clients    *)
(* submit, any number of times each, and how many are under way at once.    *)
EXTENDS TeamsModule, TLC

CONSTANTS t1, t2, p1, p2, p3, n1, n2,
          Loads

VARIABLE load

MCKeys == {t1, t2, p1, p2, p3, n1, n2, All}
MCTaskOf == [k \in MCKeys |-> k]
SlotSymmetry == Permutations(Slots)

Create(t, p, n, f) == [op |-> "create-team", teamId |-> t, steamId |-> p,
                       seasonId |-> n, formatId |-> f]
On(ops, ts, ps) == {[op |-> o, teamId |-> t, steamId |-> p] : o \in ops, t \in ts, p \in ps}
Status(t, st) == [op |-> "set-status", teamId |-> t, status |-> st]

\* Two teams of one season, p1 and p2 moving between them.
SeatEvents ==
  {Create(t1, p1, n1, "2"), Create(t2, p2, n1, "2")}
  \cup On({"join-team", "leave-team"}, {t1, t2}, {p1, p2})

\* One team, its status racing with its creation.
StatusEvents ==
  {Create(t1, p1, n1, "1"), Create(t2, p1, n2, "1"), Status(t1, "READY"),
   Status(t1, "DEAD"), Status(t1, "BOGUS"), Status(t2, "DEAD")}
  \cup On({"leave-team"}, {t1}, {p1})

\* Requests and invites of one player, racing with each other.
PendingEvents ==
  {Create(t1, p1, n1, "2")}
  \cup On({"request-join", "decline-pending", "create-invite", "accept-invite"}, {t1}, {p2})

ApproveEvents == PendingEvents \cup On({"approve-pending", "leave-team"}, {t1}, {p2})

\* All the operations, for clients that wait for each answer.
OneByOneEvents ==
  {Create(t1, p1, n1, "2"), Create(t1, p2, n2, "1"), Create(t2, p1, n1, "1"),
   Status(t1, "DEAD"), Status(t1, "READY"), Status(t1, "BOGUS")}
  \cup On(MemberOps, {t1}, {p1, p2, p3}) \cup On({"join-team"}, {t2}, {p1, p3})
  \cup {[op |-> "set-member-permission", teamId |-> t1, steamId |-> p2, permissionLevel |-> "ADMIN"],
        [op |-> "set-member-permission", teamId |-> t1, steamId |-> p1, permissionLevel |-> "OWNER"],
        [op |-> "set-member-payment", teamId |-> t1, steamId |-> p2, paymentStatus |-> "PAID"]}

\* A format of one seat and three players who want it.
CapEvents == {Create(t1, p1, n1, "1")} \cup On({"join-team", "leave-team"}, {t1}, {p1, p2, p3})

\* One team id, submitted by two creators.
TwoCreators == {Create(t1, p1, n1, "1"), Create(t1, p2, n1, "1")}
AllEvents ==
  UNION {SeatEvents, StatusEvents, ApproveEvents, OneByOneEvents, CapEvents, TwoCreators}

Load(events, n) == [events |-> events, inFlight |-> n]
SafeLoads ==
  {Load(SeatEvents, 3), Load(StatusEvents, 3), Load(PendingEvents, 3), Load(OneByOneEvents, 1)}
SeatLoad == {Load(SeatEvents, 2)}
CapLoad == {Load(CapEvents, 2)}
LiveLoads == SeatLoad \cup CapLoad
CreateLoad == {Load(TwoCreators, 2)}
ApproveLoad == {Load(ApproveEvents, 2)}

---------------------------------------------------------------------------
Room == Cardinality({s \in Slots : ~Idle(s)}) < load.inFlight

MCInit == Init /\ load \in Loads

MCNext ==
  /\ UNCHANGED load
  /\ \/ \E s \in Slots, e \in load.events : Room /\ Submit(s, e)
     \/ \E s \in Slots : Resume(s)
     \/ \E e \in load.events : SetMemberPermission(e) \/ SetMemberPayment(e)

MCSpec == MCInit /\ [][MCNext]_<<vars, load>>
MCFairSpec == MCSpec /\ \A s \in Slots : WF_vars(Resume(s))
=============================================================================
