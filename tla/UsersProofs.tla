----------------------------- MODULE UsersProofs -----------------------------
(***************************************************************************)
(* Proofs about UsersModule, for every number of users, discord ids, slots *)
(* and tasks, every placement of keys and every set of events: type        *)
(* correctness; that every change of a user's rights raises the session    *)
(* version; and that rows and index agree on links, no discord id has two  *)
(* users and every step is one of a registry of ids, where the links of    *)
(* one user wait for each other.                                           *)
(***************************************************************************)
EXTENDS UsersModule

LinkLabels == {"link@discord", "link@old", "link@user"}

\* What a continuation carries: a user who is stored and stays so, and the
\* discord ids that its next segments write to.
Carries(s) ==
  /\ pc[s] \in Labels => event[s].steamId \in Users /\ users[event[s].steamId] # None
  /\ pc[s] = "link@discord" => /\ event[s].discordId \in Discords \cup {Empty}
                               /\ locals[s].old \in Discords \cup {None}
  /\ pc[s] \in {"link@old", "link@user"} => event[s].discordId \in Discords
  /\ pc[s] \in {"link@old", "unlink@old"} => locals[s].old \in Discords

TypeInv == TypeOK /\ \A s \in Slots : Carries(s)

StoresOK ==
  /\ users \in [Users -> User \cup {None}]
  /\ discordById \in [Discords -> Users \cup {None}]
  /\ userIds \subseteq Users

\* A step may add rows and change them; it removes none.
RowsStay == \A u \in Users : users[u] # None => users'[u] # None

\* Facts about constants: labels, keys and the fields of events.
LEMMA LabelFacts == "idle" \notin Labels /\ LinkLabels \subseteq Labels
  BY DEF Labels, LinkLabels

LEMMA KeyFacts == Users \subseteq Keys /\ Discords \subseteq Keys /\ All \in Keys /\ Empty \in Keys
  BY ConstantsAssumption

LEMMA EventFacts ==
  ASSUME NEW e \in Events
  PROVE  e.steamId \in Users /\ (e.op = "link-discord" => e.discordId \in Discords \cup {Empty})
  BY EventsAssumption DEF Event, PlainOps

\* A continuation that starts, hops or ends leaves the others as they were, and
\* the flight state well formed.
LEMMA StartType ==
  ASSUME TypeInv, StoresOK', RowsStay, NEW s \in Slots, NEW e \in Events, NEW key \in Keys,
         NEW dest \in Keys, NEW label \in Labels, NEW mem,
         Launch(s, e, key, dest, label, mem), Carries(s)'
  PROVE  TypeInv'
<1>1. FlightTypeOK(Labels, Events) /\ "idle" \notin Labels
  BY LabelFacts DEF TypeInv, TypeOK
<1>2. FlightTypeOK(Labels, Events)'
  BY <1>1, LaunchType, SMT
<1>3. ASSUME NEW o \in Slots, o # s PROVE Carries(o)'
  BY <1>3 DEF TypeInv, TypeOK, FlightTypeOK, Launch, Carries, RowsStay
<1>4. QED
  BY <1>2, <1>3 DEF TypeInv, TypeOK, StoresOK

LEMMA HopStep ==
  ASSUME TypeInv, StoresOK', RowsStay, NEW s \in Slots, ~Idle(s), NEW dest \in Keys,
         NEW label \in Labels, NEW mem, Hop(s, dest, label, mem), Carries(s)'
  PROVE  TypeInv'
<1>1. FlightTypeOK(Labels, Events) /\ "idle" \notin Labels
  BY LabelFacts DEF TypeInv, TypeOK
<1>2. FlightTypeOK(Labels, Events)'
  BY <1>1, HopType, SMT
<1>3. ASSUME NEW o \in Slots, o # s PROVE Carries(o)'
  BY <1>3 DEF TypeInv, TypeOK, FlightTypeOK, Hop, Carries, RowsStay
<1>4. QED
  BY <1>2, <1>3 DEF TypeInv, TypeOK, StoresOK

LEMMA FinishStep ==
  ASSUME TypeInv, StoresOK', RowsStay, NEW s \in Slots, Finish(s)
  PROVE  TypeInv'
<1>1. FlightTypeOK(Labels, Events)'
  BY FinishType DEF TypeInv, TypeOK
<1>2. pc'[s] = "idle"
  BY DEF TypeInv, TypeOK, FlightTypeOK, Finish
<1>3. Carries(s)'
  BY <1>2, LabelFacts DEF Carries, Labels
<1>4. ASSUME NEW o \in Slots, o # s PROVE Carries(o)'
  BY <1>4 DEF TypeInv, TypeOK, FlightTypeOK, Finish, Carries, RowsStay
<1>5. QED
  BY <1>1, <1>3, <1>4 DEF TypeInv, TypeOK, StoresOK

LEMMA StoresTyped == ASSUME TypeInv PROVE StoresOK
  BY DEF TypeInv, TypeOK, StoresOK

\* What the segment that writes the first hop leaves in the slot.
LEMMA LaunchSlot ==
  ASSUME TypeInv, NEW s \in Slots, NEW e, NEW key, NEW dest, NEW label, NEW mem,
         Launch(s, e, key, dest, label, mem)
  PROVE  pc'[s] = label /\ event'[s] = e /\ locals'[s] = mem
  BY DEF TypeInv, TypeOK, FlightTypeOK, Launch

LEMMA HopSlot ==
  ASSUME TypeInv, NEW s \in Slots, NEW dest, NEW label, NEW mem, Hop(s, dest, label, mem)
  PROVE  pc'[s] = label /\ event'[s] = event[s] /\ locals'[s] = mem
  BY DEF TypeInv, TypeOK, FlightTypeOK, Hop

\* A continuation that is ready is one of its label.
LEMMA ReadySlot ==
  ASSUME TypeInv, NEW s \in Slots, NEW label \in Labels, Ready(s, label)
  PROVE  pc[s] = label /\ ~Idle(s) /\ Carries(s)
  BY LabelFacts DEF TypeInv, Ready, Idle

---------------------------------------------------------------------------
(* Type correctness, one lemma per op. *)

LEMMA UpsertType ==
  ASSUME TypeInv, NEW s \in Slots, NEW e \in Events, UpsertProfile(s, e)
  PROVE  TypeInv'
<1>1. NewUser \in User /\ None \notin User
  BY ConstantsAssumption DEF NewUser, User, Levels, Bans
<1>2. StoresOK' /\ RowsStay /\ users'[e.steamId] # None
  BY <1>1, StoresTyped, EventFacts DEF UpsertProfile, Upserted, StoresOK, RowsStay
<1>3. Launch(s, e, e.steamId, All, "upsert@all", NoLocals) /\ "upsert@all" \in Labels
  BY DEF UpsertProfile, Labels
<1>4. Carries(s)'
  BY <1>2, <1>3, LaunchSlot, EventFacts DEF Carries
<1>5. QED
  BY <1>2, <1>3, <1>4, StartType, EventFacts, KeyFacts

LEMMA UpsertIndexType ==
  ASSUME TypeInv, NEW s \in Slots, UpsertIndex(s)
  PROVE  TypeInv'
<1>1. Carries(s) /\ pc[s] = "upsert@all" /\ "upsert@all" \in Labels
  BY ReadySlot DEF UpsertIndex, Labels
<1>2. StoresOK' /\ RowsStay
  BY <1>1, StoresTyped DEF UpsertIndex, StoresOK, RowsStay, Carries
<1>3. QED
  BY <1>2, FinishStep DEF UpsertIndex

LEMMA LinkStartType ==
  ASSUME TypeInv, NEW s \in Slots, NEW e \in Events, LinkDiscord(s, e)
  PROVE  TypeInv'
<1>1. StoresOK' /\ RowsStay
  BY StoresTyped DEF LinkDiscord, storeVars, StoresOK, RowsStay
<1>2. users[e.steamId] \in User /\ users'[e.steamId] # None
  BY StoresTyped, EventFacts DEF LinkDiscord, storeVars, StoresOK
<1>3. users[e.steamId].discordId \in Discords \cup {None}
  BY <1>2 DEF User
<1>4. /\ Launch(s, e, e.steamId, e.discordId, "link@discord", [old |-> users[e.steamId].discordId])
      /\ "link@discord" \in Labels /\ e.op = "link-discord"
  BY DEF LinkDiscord, Labels
<1>5. /\ pc'[s] = "link@discord" /\ event'[s] = e /\ locals'[s] = [old |-> users[e.steamId].discordId]
  BY <1>4 DEF TypeInv, TypeOK, FlightTypeOK, Launch
<1>6. Carries(s)'
  BY <1>2, <1>3, <1>4, <1>5, EventFacts DEF Carries
<1>7. QED
  <2>1. PICK mem : mem = [old |-> users[e.steamId].discordId]
    OBVIOUS
  <2>2. e.steamId \in Keys /\ e.discordId \in Keys
    BY <1>4, EventFacts, KeyFacts
  <2>3. Launch(s, e, e.steamId, e.discordId, "link@discord", mem)
    BY <1>4, <2>1
  <2>4. QED
    BY <1>1, <1>4, <1>6, <2>2, <2>3, StartType

LEMMA LinkClaimType ==
  ASSUME TypeInv, NEW s \in Slots, LinkClaim(s)
  PROVE  TypeInv'
<1>1. Carries(s) /\ pc[s] = "link@discord" /\ ~Idle(s) /\ "link@discord" \in Labels
  BY ReadySlot DEF LinkClaim, Labels
<1>2. PICK d, u, old : d = event[s].discordId /\ u = event[s].steamId /\ old = locals[s].old
  OBVIOUS
<1>3. u \in Users /\ users[u] # None /\ d \in Discords \cup {Empty} /\ old \in Discords \cup {None}
  BY <1>1, <1>2 DEF Carries
<1>4. users' = users /\ userIds' = userIds /\ RowsStay
  BY DEF LinkClaim, RowsStay
<1>5. CASE DiscordIdError(d, u)
  <2>1. Finish(s) /\ discordById' = discordById
    BY <1>2, <1>5 DEF LinkClaim
  <2>2. StoresOK'
    BY <1>4, <2>1, StoresTyped DEF StoresOK
  <2>3. QED
    BY <1>4, <2>1, <2>2, FinishStep
<1>6. CASE ~DiscordIdError(d, u)
  <2>1. d \in Discords
    BY <1>3, <1>6 DEF DiscordIdError
  <2>2. discordById' = [discordById EXCEPT ![d] = u]
    BY <1>2, <1>6 DEF LinkClaim
  <2>3. StoresOK'
    BY <1>3, <1>4, <2>1, <2>2, StoresTyped DEF StoresOK
  <2>4. CASE old \notin {None, d}
    <3>1. PICK mem : mem = [old |-> old]
      OBVIOUS
    <3>2. Hop(s, old, "link@old", mem) /\ old \in Keys /\ "link@old" \in Labels
      BY <1>2, <1>3, <1>6, <2>4, <3>1, KeyFacts DEF LinkClaim, Labels
    <3>3. Carries(s)'
      BY <1>2, <1>3, <1>4, <2>1, <2>4, <3>1, <3>2, HopSlot DEF Carries
    <3>4. QED
      BY <1>1, <1>4, <2>3, <3>2, <3>3, HopStep
  <2>5. CASE old \in {None, d}
    <3>1. Hop(s, u, "link@user", NoLocals) /\ u \in Keys /\ "link@user" \in Labels
      BY <1>2, <1>3, <1>6, <2>5, KeyFacts DEF LinkClaim, Labels
    <3>2. Carries(s)'
      BY <1>2, <1>3, <1>4, <2>1, <3>1, HopSlot DEF Carries
    <3>3. QED
      BY <1>1, <1>4, <2>3, <3>1, <3>2, HopStep
  <2>6. QED
    BY <2>4, <2>5
<1>7. QED
  BY <1>5, <1>6

LEMMA ClearOldType ==
  ASSUME TypeInv, NEW s \in Slots, LinkClearOld(s) \/ UnlinkClearOld(s)
  PROVE  TypeInv'
<1>1. PICK label \in {"link@old", "unlink@old"}, next \in {"link@user", "unlink@user"} :
        /\ ClearOld(s, label, next) /\ (next = "link@user" => label = "link@old")
  BY DEF LinkClearOld, UnlinkClearOld
<1>2. label \in Labels /\ next \in Labels
  BY DEF Labels
<1>3. Carries(s) /\ pc[s] = label /\ ~Idle(s)
  BY <1>1, <1>2, ReadySlot DEF ClearOld
<1>4. PICK u : u = event[s].steamId
  OBVIOUS
<1>5. u \in Users /\ users[u] # None /\ locals[s].old \in Discords
  BY <1>2, <1>3, <1>4 DEF Carries
<1>6. StoresOK' /\ RowsStay /\ users' = users
  BY <1>1, <1>5, StoresTyped DEF ClearOld, StoresOK, RowsStay
<1>7. Hop(s, u, next, NoLocals) /\ u \in Keys
  BY <1>1, <1>4, <1>5, KeyFacts DEF ClearOld
<1>8. Carries(s)'
  BY <1>1, <1>3, <1>4, <1>5, <1>6, <1>7, HopSlot DEF Carries
<1>9. QED
  BY <1>2, <1>3, <1>6, <1>7, <1>8, HopStep

\* The rows that the last segments of link and unlink write.
LEMMA RowType ==
  ASSUME TypeInv, NEW s \in Slots, NEW d \in Discords \cup {None}, NEW u \in Users, users[u] # None,
         users' = [users EXCEPT ![u].discordId = d], UNCHANGED <<discordById, userIds>>
  PROVE  StoresOK' /\ RowsStay
<1>1. users[u] \in User /\ None \notin User
  BY StoresTyped, ConstantsAssumption DEF StoresOK
<1>2. [users[u] EXCEPT !.discordId = d] \in User
  BY <1>1 DEF User
<1>3. users' = [users EXCEPT ![u] = [users[u] EXCEPT !.discordId = d]]
  OBVIOUS
<1>4. QED
  BY <1>1, <1>2, <1>3, StoresTyped DEF StoresOK, RowsStay

LEMMA RowStepType ==
  ASSUME TypeInv, NEW s \in Slots, LinkRow(s) \/ UnlinkRow(s)
  PROVE  TypeInv'
<1>1. PICK label \in {"link@user", "unlink@user"} : Ready(s, label) /\ (UnlinkRow(s) \/ label = "link@user")
  BY DEF LinkRow, UnlinkRow
<1>2. Carries(s) /\ pc[s] = label /\ label \in Labels
  BY <1>1, ReadySlot DEF Labels
<1>3. PICK u : u = event[s].steamId
  OBVIOUS
<1>4. u \in Users /\ users[u] # None
  BY <1>2, <1>3 DEF Carries
<1>5. PICK d \in Discords \cup {None} : users' = [users EXCEPT ![u].discordId = d]
  BY <1>1, <1>2, <1>3 DEF LinkRow, UnlinkRow, Carries
<1>6. StoresOK' /\ RowsStay
  BY <1>4, <1>5, RowType DEF LinkRow, UnlinkRow
<1>7. QED
  BY <1>6, FinishStep DEF LinkRow, UnlinkRow

LEMMA UnlinkStartType ==
  ASSUME TypeInv, NEW s \in Slots, NEW e \in Events, UnlinkDiscord(s, e)
  PROVE  TypeInv'
<1>1. StoresOK' /\ RowsStay
  BY StoresTyped DEF UnlinkDiscord, storeVars, StoresOK, RowsStay
<1>2. users[e.steamId] \in User /\ users'[e.steamId] # None
  BY StoresTyped, EventFacts DEF UnlinkDiscord, storeVars, StoresOK
<1>3. PICK old : old = users[e.steamId].discordId
  OBVIOUS
<1>4. old \in Discords \cup {None}
  BY <1>2, <1>3 DEF User
<1>5. CASE old # None
  <2>1. PICK mem : mem = [old |-> old]
    OBVIOUS
  <2>2. Launch(s, e, e.steamId, old, "unlink@old", mem) /\ "unlink@old" \in Labels
    BY <1>3, <1>5, <2>1 DEF UnlinkDiscord, Labels
  <2>3. Carries(s)'
    BY <1>2, <1>4, <1>5, <2>1, <2>2, LaunchSlot, EventFacts DEF Carries
  <2>4. old \in Keys /\ e.steamId \in Keys
    BY <1>4, <1>5, KeyFacts, EventFacts
  <2>5. QED
    BY <1>1, <2>2, <2>3, <2>4, StartType
<1>6. CASE old = None
  <2>1. Launch(s, e, e.steamId, e.steamId, "unlink@user", NoLocals) /\ "unlink@user" \in Labels
    BY <1>3, <1>6 DEF UnlinkDiscord, Labels
  <2>2. Carries(s)'
    BY <1>2, <2>1, LaunchSlot, EventFacts DEF Carries
  <2>3. QED
    BY <1>1, <2>1, <2>2, StartType, KeyFacts, EventFacts
<1>7. QED
  BY <1>5, <1>6

\* What the ops without a hop make of a row: the next version, the same id.
LEMMA MutatedRow ==
  ASSUME TypeInv, NEW e \in Events, SubmitLocal(e)
  PROVE  \E row \in User :
           /\ users[e.steamId] \in User /\ users' = [users EXCEPT ![e.steamId] = row]
           /\ row.sessionVersion = users[e.steamId].sessionVersion + 1
           /\ row.discordId = users[e.steamId].discordId
<1>1. users[e.steamId] \in User
  <2>1. users[e.steamId] # None
    BY DEF SubmitLocal, SetPermission, SetBan, BumpSession, Mutate
  <2>2. QED
    BY <2>1, StoresTyped, EventFacts DEF StoresOK
<1>2. PICK row \in User : /\ row.sessionVersion = users[e.steamId].sessionVersion
                          /\ row.discordId = users[e.steamId].discordId
                          /\ users' = [users EXCEPT ![e.steamId] = [row EXCEPT !.sessionVersion = @ + 1]]
  <2>1. CASE SetPermission(e)
    <3>1. [users[e.steamId] EXCEPT !.permissionLevel = e.permissionLevel] \in User
      BY <1>1, <2>1 DEF SetPermission, User
    <3>2. LET row == [users[e.steamId] EXCEPT !.permissionLevel = e.permissionLevel]
          IN row.sessionVersion = users[e.steamId].sessionVersion /\ row.discordId = users[e.steamId].discordId
      BY <1>1 DEF User
    <3>3. QED
      BY <2>1, <3>1, <3>2 DEF SetPermission, Mutate
  <2>2. CASE SetBan(e)
    <3>1. [users[e.steamId] EXCEPT !.banStatus = e.banStatus] \in User
      BY <1>1, <2>2 DEF SetBan, User
    <3>2. LET row == [users[e.steamId] EXCEPT !.banStatus = e.banStatus]
          IN row.sessionVersion = users[e.steamId].sessionVersion /\ row.discordId = users[e.steamId].discordId
      BY <1>1 DEF User
    <3>3. QED
      BY <2>2, <3>1, <3>2 DEF SetBan, Mutate
  <2>3. CASE BumpSession(e)
    BY <1>1, <2>3 DEF BumpSession, Mutate
  <2>4. QED
    BY <2>1, <2>2, <2>3 DEF SubmitLocal
<1>3. [row EXCEPT !.sessionVersion = @ + 1] \in User
  BY DEF User
<1>4. LET next == [row EXCEPT !.sessionVersion = @ + 1]
      IN next.sessionVersion = users[e.steamId].sessionVersion + 1 /\ next.discordId = users[e.steamId].discordId
  BY <1>2 DEF User
<1>5. QED
  BY <1>1, <1>2, <1>3, <1>4

LEMMA LocalType ==
  ASSUME TypeInv, NEW e \in Events, SubmitLocal(e)
  PROVE  TypeInv'
<1>1. UNCHANGED <<flightVars, discordById, userIds>>
  BY DEF SubmitLocal, SetPermission, SetBan, BumpSession, Mutate
<1>2. StoresOK' /\ RowsStay
  BY <1>1, MutatedRow, StoresTyped, EventFacts, ConstantsAssumption DEF StoresOK, RowsStay
<1>3. FlightTypeOK(Labels, Events)' /\ \A s \in Slots : Carries(s)'
  BY <1>1, <1>2 DEF flightVars, TypeInv, TypeOK, FlightTypeOK, Idle, Carries, RowsStay
<1>4. QED
  BY <1>2, <1>3 DEF TypeInv, TypeOK, StoresOK

LEMMA TypeAtStart == Init => TypeInv
<1> SUFFICES ASSUME Init PROVE TypeInv
  OBVIOUS
<1>1. FlightTypeOK(Labels, Events)
  BY InitType DEF Init
<1>2. \A s \in Slots : Carries(s)
  BY DEF Init, FlightInit, Carries, Labels
<1>3. QED
  BY <1>1, <1>2 DEF Init, TypeInv, TypeOK

LEMMA TypeStep == TypeInv /\ [Next]_vars => TypeInv'
<1> SUFFICES ASSUME TypeInv, [Next]_vars PROVE TypeInv'
  OBVIOUS
<1>1. ASSUME NEW s \in Slots, NEW e \in Events, Submit(s, e) PROVE TypeInv'
  BY <1>1, UpsertType, LinkStartType, UnlinkStartType DEF Submit
<1>2. ASSUME NEW s \in Slots, Resume(s) PROVE TypeInv'
  BY <1>2, UpsertIndexType, LinkClaimType, ClearOldType, RowStepType DEF Resume
<1>3. ASSUME NEW e \in Events, SubmitLocal(e) PROVE TypeInv'
  BY <1>3, LocalType
<1>4. CASE UNCHANGED vars
  BY <1>4 DEF vars, flightVars, storeVars, TypeInv, TypeOK, FlightTypeOK, Idle, Carries
<1>5. QED
  BY <1>1, <1>2, <1>3, <1>4 DEF Next

\* The inductive invariant: in every state the stores are well typed and every
\* continuation has what its next segments read and write.
THEOREM TypeInvariant == Spec => []TypeInv
<1>1. QED
  BY TypeAtStart, TypeStep, PTL DEF Spec

\* Type correctness of users, links and continuations.
THEOREM UsersTypeCorrect == Spec => []TypeOK
<1>1. TypeInv => TypeOK
  BY DEF TypeInv
<1>2. QED
  BY <1>1, TypeInvariant, PTL

---------------------------------------------------------------------------
(* Sessions *)

\* A row that is left alone, or given another discord id, keeps its version and
\* its rights.
LEMMA RowKept ==
  ASSUME TypeInv, NEW u \in Users, users[u] # None,
         users'[u] = users[u] \/ \E d : users'[u] = [users[u] EXCEPT !.discordId = d]
  PROVE  VersionTells(u)
<1>1. users[u] \in User
  BY StoresTyped DEF StoresOK
<1>2. users'[u].sessionVersion = users[u].sessionVersion /\ users[u].sessionVersion \in Nat
  BY <1>1 DEF User
<1>3. users'[u].permissionLevel = users[u].permissionLevel /\ users'[u].banStatus = users[u].banStatus
  BY <1>1 DEF User
<1>4. QED
  BY <1>2, <1>3 DEF VersionTells

\* What a continuation does to the rows.
LEMMA ResumeKeepsRows ==
  ASSUME TypeInv, NEW s \in Slots, Resume(s), NEW u \in Users, users[u] # None
  PROVE  VersionTells(u)
<1>1. users \in [Users -> User \cup {None}]
  BY StoresTyped DEF StoresOK
<1>2. CASE LinkRow(s) \/ UnlinkRow(s)
  <2>1. PICK d : users' = [users EXCEPT ![event[s].steamId].discordId = d]
    BY <1>2 DEF LinkRow, UnlinkRow
  <2>2. users'[u] = users[u] \/ users'[u] = [users[u] EXCEPT !.discordId = d]
    BY <1>1, <2>1
  <2>3. QED
    BY <2>2, RowKept
<1>3. CASE UpsertIndex(s) \/ LinkClaim(s) \/ LinkClearOld(s) \/ UnlinkClearOld(s)
  <2>1. users' = users
    BY <1>3 DEF UpsertIndex, LinkClaim, LinkClearOld, UnlinkClearOld, ClearOld
  <2>2. QED
    BY <2>1, RowKept
<1>4. QED
  BY <1>2, <1>3 DEF Resume

\* What a submitted event does to the rows.
LEMMA SubmitKeepsRows ==
  ASSUME TypeInv, NEW s \in Slots, NEW e \in Events, Submit(s, e), NEW u \in Users, users[u] # None
  PROVE  VersionTells(u)
<1>1. users'[u] = users[u]
  BY StoresTyped DEF Submit, UpsertProfile, Upserted, LinkDiscord, UnlinkDiscord, storeVars, StoresOK
<1>2. QED
  BY <1>1, RowKept

\* The ops without a hop raise the version of the row that they change.
LEMMA LocalRaises ==
  ASSUME TypeInv, NEW e \in Events, SubmitLocal(e), NEW u \in Users, users[u] # None
  PROVE  VersionTells(u)
<1>1. PICK row \in User : /\ users[e.steamId] \in User /\ users' = [users EXCEPT ![e.steamId] = row]
                          /\ row.sessionVersion = users[e.steamId].sessionVersion + 1
  BY MutatedRow
<1>2. CASE u = e.steamId
  <2>1. users'[u] = row /\ users[u].sessionVersion \in Nat
    BY <1>1, <1>2, StoresTyped DEF StoresOK, User
  <2>2. users'[u].sessionVersion = users[u].sessionVersion + 1
    BY <1>1, <1>2, <2>1
  <2>3. QED
    BY <2>1, <2>2 DEF VersionTells
<1>3. CASE u # e.steamId
  <2>1. users'[u] = users[u]
    BY <1>1, <1>3, StoresTyped DEF StoresOK
  <2>2. QED
    BY <2>1, RowKept
<1>4. QED
  BY <1>2, <1>3

\* A session that was issued before a change of permission or ban can be told
\* from one issued after it, whatever else is under way.
THEOREM ChangesInvalidateSessions == Spec => SessionsInvalidated
<1>1. TypeInv /\ [Next]_vars => [\A u \in Users : users[u] # None => VersionTells(u)]_users
  <2> SUFFICES ASSUME TypeInv, [Next]_vars, users' # users, NEW u \in Users, users[u] # None
               PROVE  VersionTells(u)
    OBVIOUS
  <2>1. Next
    BY DEF vars, storeVars
  <2>2. QED
    BY <2>1, SubmitKeepsRows, ResumeKeepsRows, LocalRaises DEF Next
<1>2. QED
  BY <1>1, TypeInvariant, PTL DEF Spec, SessionsInvalidated

---------------------------------------------------------------------------
(* Links: a user's row and the reverse index, for clients that wait. *)

\* The premise about behaviours: no two links or unlinks of one user are under
\* way at once.  Those of different users may be, on the same discord ids.
OneLinkPerUser ==
  \A s, r \in Slots :
    event[s].op \in LinkOps /\ event[r].op \in LinkOps /\ event[s].steamId = event[r].steamId => s = r

LinkSegments == LinkLabels \cup {"unlink@old", "unlink@user"}

\* The op whose segment a label is; an idle slot has none.
OpAt(label, op) ==
  /\ label = "idle" => op = "none"
  /\ label = "upsert@all" => op = "upsert-profile"
  /\ label \in LinkLabels => op = "link-discord"
  /\ label \in {"unlink@old", "unlink@user"} => op = "unlink-discord"

Held(u) == {d \in Discords : discordById[d] = u}
Has(u) == {d \in Discords : Linked(u, d)}

\* Where the row and the index of a user stand when the segment at a label
\* runs: d is the id to link, old the one that the first segment read.
LinkAt(u, label, d, old) ==
  /\ label = "link@discord" => Held(u) = Has(u) /\ Has(u) = {old} \ {None}
  /\ label = "link@old" => Held(u) = {old, d} /\ old # d
  /\ label = "link@user" => Held(u) = {d}
  /\ label = "unlink@old" => Held(u) = {old}
  /\ label = "unlink@user" => Held(u) = {}

LinkOK(s) ==
  pc[s] \in LinkSegments => LinkAt(event[s].steamId, pc[s], event[s].discordId, locals[s].old)

LinkInv ==
  /\ \A s \in Slots : OpAt(pc[s], event[s].op) /\ LinkOK(s)
  /\ \A u \in Users : Settled(u) => Held(u) = Has(u)

\* A step that leaves the ids of a user alone.
LinksKept(u) == Held(u)' = Held(u) /\ Has(u)' = Has(u)

\* A slot with a link segment is of a user, and the only one of that user.
LEMMA LinkSlot ==
  ASSUME TypeInv, LinkInv, NEW s \in Slots, pc[s] \in LinkSegments
  PROVE  event[s].op \in LinkOps /\ event[s].steamId \in Users
  BY DEF LinkInv, OpAt, LinkOps, LinkSegments, LinkLabels, TypeInv, Carries, Labels

\* A step that leaves a slot and the ids of its user alone.
LEMMA SlotKept ==
  ASSUME LinkInv, NEW o \in Slots, NEW u, u = event[o].steamId,
         pc'[o] = pc[o], event'[o] = event[o], locals'[o] = locals[o],
         pc[o] \in LinkSegments => LinksKept(u)
  PROVE  OpAt(pc'[o], event'[o].op) /\ LinkOK(o)'
<1>1. OpAt(pc[o], event[o].op) /\ LinkOK(o)
  BY DEF LinkInv
<1>2. CASE pc[o] \in LinkSegments
  <2>1. PICK l, d, old : l = pc[o] /\ d = event[o].discordId /\ old = locals[o].old
    OBVIOUS
  <2>2. LinkAt(u, l, d, old)
    BY <1>1, <1>2, <2>1 DEF LinkOK
  <2>3. LinkAt(u, l, d, old)'
    BY <1>2, <2>2 DEF LinkAt, LinksKept
  <2>4. QED
    BY <1>1, <2>1, <2>3 DEF LinkOK
<1>3. CASE pc[o] \notin LinkSegments
  BY <1>1, <1>3 DEF LinkOK
<1>4. QED
  BY <1>2, <1>3

\* A link or unlink that starts finds row and index of its user in agreement.
LEMMA LinkStarts ==
  ASSUME TypeInv, LinkInv, OneLinkPerUser', NEW s \in Slots, NEW e \in Events, NEW u,
         NEW key, NEW dest, NEW label, NEW mem, NEW d, Launch(s, e, key, dest, label, mem),
         u = e.steamId, e.op \in LinkOps, d = e.discordId, OpAt(label, e.op), UNCHANGED storeVars,
         Held(u) = Has(u) => LinkAt(u, label, d, mem.old)
  PROVE  LinkInv'
<1>1. pc'[s] = label /\ event'[s] = e /\ locals'[s] = mem
  BY LaunchSlot
<1>2. \A o \in Slots \ {s} : pc'[o] = pc[o] /\ event'[o] = event[o] /\ locals'[o] = locals[o]
  BY DEF TypeInv, TypeOK, FlightTypeOK, Launch
<1>3. \A v : LinksKept(v)
  BY DEF storeVars, LinksKept, Held, Has, Linked
<1>4. OpAt(pc[s], event[s].op) /\ pc[s] = "idle"
  BY DEF LinkInv, Launch, Idle
<1>5. event[s].op \notin LinkOps
  BY <1>4 DEF OpAt, LinkOps
<1>6. Settled(u)
  BY <1>1, <1>2, <1>5 DEF Settled, OneLinkPerUser
<1>7. LinkAt(u, label, d, mem.old)'
  <2>1. LinkAt(u, label, d, mem.old)
    BY <1>6, EventFacts DEF LinkInv
  <2>2. PICK old : old = mem.old
    OBVIOUS
  <2>3. QED
    BY <1>3, <2>1, <2>2 DEF LinkAt, LinksKept
<1>8. OpAt(pc'[s], event'[s].op) /\ LinkOK(s)'
  BY <1>1, <1>7 DEF LinkOK
<1>9. ASSUME NEW o \in Slots \ {s} PROVE OpAt(pc'[o], event'[o].op) /\ LinkOK(o)'
  BY <1>2, <1>3, SlotKept
<1>10. ASSUME NEW v \in Users, Settled(v)' PROVE Held(v)' = Has(v)'
  <2>1. Settled(v)
    BY <1>2, <1>5, <1>10 DEF Settled
  <2>2. QED
    BY <1>3, <2>1 DEF LinkInv, LinksKept
<1>11. QED
  BY <1>8, <1>9, <1>10 DEF LinkInv

\* A link or unlink that goes on changes the ids of its user only.
LEMMA LinkHops ==
  ASSUME TypeInv, LinkInv, OneLinkPerUser, NEW s \in Slots, pc[s] \in LinkSegments, NEW u, NEW d,
         NEW dest, NEW label, NEW mem, Hop(s, dest, label, mem),
         u = event[s].steamId, d = event[s].discordId, OpAt(label, event[s].op),
         \A v \in Users \ {u} : LinksKept(v), LinkAt(u, label, d, mem.old)'
  PROVE  LinkInv'
<1>1. pc'[s] = label /\ locals'[s] = mem /\ event' = event
  BY HopSlot DEF Hop
<1>2. \A o \in Slots \ {s} : pc'[o] = pc[o] /\ event'[o] = event[o] /\ locals'[o] = locals[o]
  BY DEF TypeInv, TypeOK, FlightTypeOK, Hop
<1>3. event[s].op \in LinkOps
  BY LinkSlot
<1>4. OpAt(pc'[s], event'[s].op) /\ LinkOK(s)'
  BY <1>1 DEF LinkOK
<1>5. ASSUME NEW o \in Slots \ {s} PROVE OpAt(pc'[o], event'[o].op) /\ LinkOK(o)'
  <2>1. pc[o] \in LinkSegments => event[o].steamId \in Users \ {u}
    BY <1>3, <1>5, LinkSlot DEF OneLinkPerUser
  <2>2. PICK v : v = event[o].steamId
    OBVIOUS
  <2>3. pc[o] \in LinkSegments => LinksKept(v)
    BY <2>1, <2>2
  <2>4. QED
    BY <1>2, <1>5, <2>2, <2>3, SlotKept
<1>6. ASSUME NEW v \in Users, Settled(v)' PROVE Held(v)' = Has(v)'
  <2>1. Settled(v) /\ v # u
    BY <1>1, <1>3, <1>6 DEF Settled
  <2>2. QED
    BY <2>1 DEF LinkInv, LinksKept
<1>7. QED
  BY <1>4, <1>5, <1>6 DEF LinkInv

\* A link or unlink that ends leaves row and index in agreement.
LEMMA LinkEnds ==
  ASSUME TypeInv, LinkInv, OneLinkPerUser, NEW s \in Slots, pc[s] \in LinkSegments, NEW u,
         Finish(s), u = event[s].steamId, \A v \in Users \ {u} : LinksKept(v), Held(u)' = Has(u)'
  PROVE  LinkInv'
<1>1. pc'[s] = "idle" /\ event'[s] = NoEvent
  BY DEF TypeInv, TypeOK, FlightTypeOK, Finish
<1>2. \A o \in Slots \ {s} : pc'[o] = pc[o] /\ event'[o] = event[o] /\ locals'[o] = locals[o]
  BY DEF TypeInv, TypeOK, FlightTypeOK, Finish
<1>3. event[s].op \in LinkOps
  BY LinkSlot
<1>4. OpAt(pc'[s], event'[s].op) /\ LinkOK(s)'
  BY <1>1 DEF OpAt, NoEvent, LinkOK, LinkSegments, LinkLabels
<1>5. ASSUME NEW o \in Slots \ {s} PROVE OpAt(pc'[o], event'[o].op) /\ LinkOK(o)'
  <2>1. pc[o] \in LinkSegments => event[o].steamId \in Users \ {u}
    BY <1>3, <1>5, LinkSlot DEF OneLinkPerUser
  <2>2. PICK v : v = event[o].steamId
    OBVIOUS
  <2>3. pc[o] \in LinkSegments => LinksKept(v)
    BY <2>1, <2>2
  <2>4. QED
    BY <1>2, <1>5, <2>2, <2>3, SlotKept
<1>6. ASSUME NEW v \in Users \ {u}, Settled(v)' PROVE Held(v)' = Has(v)'
  <2>1. \A r \in Slots : event[r].op \in LinkOps => event[r].steamId # v
    BY <1>2, <1>6 DEF Settled
  <2>2. Settled(v)
    BY <2>1 DEF Settled
  <2>3. QED
    BY <2>2 DEF LinkInv, LinksKept
<1>7. QED
  BY <1>4, <1>5, <1>6 DEF LinkInv

\* A step that leaves all links alone, and every slot with a link or unlink.
LEMMA LinksRest ==
  ASSUME LinkInv, \A u \in Users : LinksKept(u), TypeInv,
         \A o \in Slots :
           \/ pc'[o] = pc[o] /\ event'[o] = event[o] /\ locals'[o] = locals[o]
           \/ /\ pc[o] \notin LinkSegments /\ event[o].op \notin LinkOps
              /\ pc'[o] \notin LinkSegments /\ event'[o].op \notin LinkOps
              /\ OpAt(pc'[o], event'[o].op)
  PROVE  LinkInv'
<1>1. ASSUME NEW o \in Slots PROVE OpAt(pc'[o], event'[o].op) /\ LinkOK(o)'
  <2>1. PICK v : v = event[o].steamId
    OBVIOUS
  <2>2. pc[o] \in LinkSegments => LinksKept(v)
    BY <2>1, LinkSlot
  <2>3. CASE pc'[o] = pc[o] /\ event'[o] = event[o] /\ locals'[o] = locals[o]
    BY <2>1, <2>2, <2>3, SlotKept
  <2>4. CASE pc'[o] \notin LinkSegments /\ OpAt(pc'[o], event'[o].op)
    BY <2>4 DEF LinkOK
  <2>5. QED
    BY <2>3, <2>4
<1>2. ASSUME NEW u \in Users, Settled(u)' PROVE Held(u)' = Has(u)'
  <2>1. \A o \in Slots : event[o].op \in LinkOps => event'[o] = event[o]
    OBVIOUS
  <2>2. Settled(u)
    BY <1>2, <2>1 DEF Settled
  <2>3. QED
    BY <2>2 DEF LinkInv, LinksKept
<1>3. QED
  BY <1>1, <1>2 DEF LinkInv

LEMMA UpsertLinks ==
  ASSUME TypeInv, LinkInv, NEW s \in Slots, NEW e \in Events, UpsertProfile(s, e)
  PROVE  LinkInv'
<1>1. \A u \in Users : LinksKept(u)
  BY StoresTyped, ConstantsAssumption
     DEF UpsertProfile, Upserted, NewUser, StoresOK, LinksKept, Held, Has, Linked
<1>2. Launch(s, e, e.steamId, All, "upsert@all", NoLocals) /\ e.op = "upsert-profile"
  BY DEF UpsertProfile
<1>3. pc[s] = "idle" /\ event[s].op = "none" /\ pc'[s] = "upsert@all" /\ event'[s] = e
  <2>1. pc'[s] = "upsert@all" /\ event'[s] = e
    BY <1>2, LaunchSlot
  <2>2. pc[s] = "idle" /\ OpAt(pc[s], event[s].op)
    BY <1>2 DEF LinkInv, Launch, Idle
  <2>3. QED
    BY <2>1, <2>2 DEF OpAt
<1>4. \A o \in Slots \ {s} : pc'[o] = pc[o] /\ event'[o] = event[o] /\ locals'[o] = locals[o]
  BY <1>2 DEF TypeInv, TypeOK, FlightTypeOK, Launch
<1>5. QED
  BY <1>1, <1>2, <1>3, <1>4, LinksRest DEF OpAt, LinkSegments, LinkLabels, LinkOps

LEMMA UpsertIndexLinks ==
  ASSUME TypeInv, LinkInv, NEW s \in Slots, UpsertIndex(s)
  PROVE  LinkInv'
<1>1. \A u \in Users : LinksKept(u)
  BY DEF UpsertIndex, LinksKept, Held, Has, Linked
<1>2. Finish(s) /\ pc[s] = "upsert@all" /\ event[s].op = "upsert-profile"
  BY DEF UpsertIndex, Ready, LinkInv, OpAt
<1>3. pc'[s] = "idle" /\ event'[s] = NoEvent
  BY <1>2 DEF TypeInv, TypeOK, FlightTypeOK, Finish
<1>4. \A o \in Slots \ {s} : pc'[o] = pc[o] /\ event'[o] = event[o] /\ locals'[o] = locals[o]
  BY <1>2 DEF TypeInv, TypeOK, FlightTypeOK, Finish
<1>5. QED
  BY <1>1, <1>2, <1>3, <1>4, LinksRest DEF OpAt, NoEvent, LinkSegments, LinkLabels, LinkOps

\* The ops without a hop keep the discord id of the row.
LEMMA LocalLinks ==
  ASSUME TypeInv, LinkInv, NEW e \in Events, SubmitLocal(e)
  PROVE  LinkInv'
<1>1. UNCHANGED <<flightVars, discordById>>
  BY DEF SubmitLocal, SetPermission, SetBan, BumpSession, Mutate
<1>2. PICK row \in User : row.discordId = users[e.steamId].discordId /\ users' = [users EXCEPT ![e.steamId] = row]
  BY MutatedRow
<1>3. users[e.steamId] # None
  BY DEF SubmitLocal, SetPermission, SetBan, BumpSession, Mutate
<1>4. \A u \in Users, d \in Discords : Linked(u, d)' <=> Linked(u, d)
  BY <1>2, <1>3, StoresTyped, EventFacts, ConstantsAssumption DEF Linked, StoresOK
<1>5. \A u \in Users : LinksKept(u)
  BY <1>1, <1>4 DEF LinksKept, Held, Has
<1>6. QED
  BY <1>1, <1>5, LinksRest DEF flightVars

LEMMA LinkStartLinks ==
  ASSUME TypeInv, LinkInv, OneLinkPerUser', NEW s \in Slots, NEW e \in Events, LinkDiscord(s, e)
  PROVE  LinkInv'
<1>1. PICK u, d, old : u = e.steamId /\ d = e.discordId /\ old = users[u].discordId
  OBVIOUS
<1>2. PICK mem : mem = [old |-> old]
  OBVIOUS
<1>3. users[u] \in User /\ u \in Users /\ users[u] # None
  BY <1>1, StoresTyped, EventFacts DEF LinkDiscord, StoresOK
<1>4. old \in Discords \cup {None} /\ None \notin Discords
  BY <1>1, <1>3, ConstantsAssumption DEF User
<1>5. Has(u) = {old} \ {None}
  BY <1>1, <1>3, <1>4 DEF Has, Linked
<1>6. Held(u) = Has(u) => LinkAt(u, "link@discord", d, mem.old)
  BY <1>2, <1>5 DEF LinkAt
<1>7. Launch(s, e, u, d, "link@discord", mem) /\ e.op = "link-discord" /\ UNCHANGED storeVars
  BY <1>1, <1>2 DEF LinkDiscord
<1>8. OpAt("link@discord", e.op) /\ e.op \in LinkOps
  BY <1>7 DEF OpAt, LinkOps, LinkLabels
<1>9. QED
  BY <1>1, <1>6, <1>7, <1>8, LinkStarts

LEMMA UnlinkStartLinks ==
  ASSUME TypeInv, LinkInv, OneLinkPerUser', NEW s \in Slots, NEW e \in Events, UnlinkDiscord(s, e)
  PROVE  LinkInv'
<1>1. PICK u, d, old : u = e.steamId /\ d = e.discordId /\ old = users[u].discordId
  OBVIOUS
<1>2. users[u] \in User /\ u \in Users /\ users[u] # None
  BY <1>1, StoresTyped, EventFacts DEF UnlinkDiscord, StoresOK
<1>3. Has(u) = {old} \ {None}
  BY <1>1, <1>2, ConstantsAssumption DEF User, Has, Linked
<1>4. e.op = "unlink-discord" /\ e.op \in LinkOps /\ UNCHANGED storeVars
  BY DEF UnlinkDiscord, LinkOps
<1>5. CASE old # None
  <2>1. PICK mem : mem = [old |-> old]
    OBVIOUS
  <2>2. Launch(s, e, u, old, "unlink@old", mem)
    BY <1>1, <1>5, <2>1 DEF UnlinkDiscord
  <2>3. (Held(u) = Has(u) => LinkAt(u, "unlink@old", d, mem.old)) /\ OpAt("unlink@old", e.op)
    BY <1>3, <1>4, <1>5, <2>1 DEF LinkAt, OpAt, LinkLabels
  <2>4. QED
    BY <1>1, <1>4, <2>2, <2>3, LinkStarts
<1>6. CASE old = None
  <2>1. Launch(s, e, u, u, "unlink@user", NoLocals)
    BY <1>1, <1>6 DEF UnlinkDiscord
  <2>2. (Held(u) = Has(u) => LinkAt(u, "unlink@user", d, NoLocals.old)) /\ OpAt("unlink@user", e.op)
    BY <1>3, <1>4, <1>6 DEF LinkAt, OpAt, LinkLabels
  <2>3. QED
    BY <1>1, <1>4, <2>1, <2>2, LinkStarts
<1>7. QED
  BY <1>5, <1>6

\* The claim takes an id that is free or the user's own, so no other user
\* loses one by it.
LEMMA LinkClaimLinks ==
  ASSUME TypeInv, LinkInv, OneLinkPerUser, NEW s \in Slots, LinkClaim(s)
  PROVE  LinkInv'
<1>1. PICK d, u, old : d = event[s].discordId /\ u = event[s].steamId /\ old = locals[s].old
  OBVIOUS
<1>2. /\ Carries(s) /\ pc[s] = "link@discord" /\ pc[s] \in LinkSegments
      /\ event[s].op = "link-discord"
  BY ReadySlot DEF LinkClaim, Labels, LinkSegments, LinkLabels, LinkInv, OpAt
<1>3. u \in Users /\ d \in Discords \cup {Empty} /\ old \in Discords \cup {None} /\ None \notin Users
  BY <1>1, <1>2, ConstantsAssumption DEF Carries, Labels
<1>4. Held(u) = Has(u) /\ Has(u) = {old} \ {None}
  BY <1>1, <1>2 DEF LinkInv, LinkOK, LinkAt
<1>5. users' = users
  BY DEF LinkClaim
<1>6. \A v \in Users : Has(v)' = Has(v)
  BY <1>5 DEF Has, Linked
<1>7. CASE DiscordIdError(d, u)
  <2>1. Finish(s) /\ discordById' = discordById
    BY <1>1, <1>7 DEF LinkClaim
  <2>2. \A v \in Users : LinksKept(v)
    BY <1>6, <2>1 DEF LinksKept, Held
  <2>3. QED
    BY <1>1, <1>2, <1>3, <1>4, <2>1, <2>2, LinkEnds DEF LinksKept
<1>8. CASE ~DiscordIdError(d, u)
  <2>1. d \in Discords /\ discordById[d] \in {None, u}
    BY <1>3, <1>8 DEF DiscordIdError
  <2>2. discordById' = [discordById EXCEPT ![d] = u]
    BY <1>1, <1>8 DEF LinkClaim
  <2>3. \A v \in Users \ {u} : Held(v)' = Held(v)
    BY <1>3, <2>1, <2>2, StoresTyped DEF Held, StoresOK
  <2>4. \A v \in Users \ {u} : LinksKept(v)
    BY <1>6, <2>3 DEF LinksKept
  <2>5. Held(u)' = Held(u) \cup {d}
    BY <2>1, <2>2, StoresTyped DEF Held, StoresOK
  <2>6. CASE old \notin {None, d}
    <3>1. PICK mem : mem = [old |-> old]
      OBVIOUS
    <3>2. Hop(s, old, "link@old", mem) /\ OpAt("link@old", event[s].op)
      BY <1>1, <1>2, <1>8, <2>6, <3>1 DEF LinkClaim, OpAt, LinkLabels
    <3>3. LinkAt(u, "link@old", d, mem.old)'
      BY <1>4, <2>5, <2>6, <3>1 DEF LinkAt
    <3>4. QED
      BY <1>1, <1>2, <2>4, <3>2, <3>3, LinkHops
  <2>7. CASE old \in {None, d}
    <3>1. Hop(s, u, "link@user", NoLocals) /\ OpAt("link@user", event[s].op)
      BY <1>1, <1>2, <1>8, <2>7 DEF LinkClaim, OpAt, LinkLabels
    <3>2. LinkAt(u, "link@user", d, NoLocals.old)'
      BY <1>4, <2>5, <2>7 DEF LinkAt
    <3>3. QED
      BY <1>1, <1>2, <2>4, <3>1, <3>2, LinkHops
  <2>8. QED
    BY <2>6, <2>7
<1>9. QED
  BY <1>7, <1>8

\* The id that is given up is the user's, so no other user loses one by it.
LEMMA ClearOldLinks ==
  ASSUME TypeInv, LinkInv, OneLinkPerUser, NEW s \in Slots, LinkClearOld(s) \/ UnlinkClearOld(s)
  PROVE  LinkInv'
<1>1. PICK label \in {"link@old", "unlink@old"}, next \in {"link@user", "unlink@user"} :
        ClearOld(s, label, next) /\ (label = "link@old" <=> next = "link@user")
  BY DEF LinkClearOld, UnlinkClearOld
<1>2. PICK d, u, old : d = event[s].discordId /\ u = event[s].steamId /\ old = locals[s].old
  OBVIOUS
<1>3. /\ Carries(s) /\ pc[s] = label /\ pc[s] \in LinkSegments /\ OpAt(label, event[s].op)
  BY <1>1, ReadySlot DEF ClearOld, Labels, LinkSegments, LinkLabels, LinkInv
<1>4. u \in Users /\ old \in Discords /\ None \notin Users
  BY <1>1, <1>2, <1>3, ConstantsAssumption DEF Carries, Labels
<1>5. LinkAt(u, label, d, old)
  BY <1>2, <1>3 DEF LinkInv, LinkOK
<1>6. users' = users /\ discordById' = [discordById EXCEPT ![old] = None] /\ Hop(s, u, next, NoLocals)
  BY <1>1, <1>2 DEF ClearOld
<1>7. old \in Held(u) /\ discordById[old] = u
  BY <1>1, <1>5 DEF LinkAt, Held
<1>8. \A v \in Users \ {u} : LinksKept(v)
  BY <1>4, <1>6, <1>7, StoresTyped DEF LinksKept, Held, Has, Linked, StoresOK
<1>9. Held(u)' = Held(u) \ {old}
  BY <1>4, <1>6, StoresTyped DEF Held, StoresOK
<1>10. LinkAt(u, next, d, NoLocals.old)' /\ OpAt(next, event[s].op)
  BY <1>1, <1>3, <1>5, <1>9 DEF LinkAt, OpAt, LinkLabels
<1>11. QED
  BY <1>2, <1>3, <1>6, <1>8, <1>10, LinkHops

\* The last segment brings the row in line with the index.
LEMMA RowLinks ==
  ASSUME TypeInv, LinkInv, OneLinkPerUser, NEW s \in Slots, LinkRow(s) \/ UnlinkRow(s)
  PROVE  LinkInv'
<1>1. PICK label \in {"link@user", "unlink@user"} :
        Ready(s, label) /\ (label = "link@user" <=> LinkRow(s)) /\ (label = "unlink@user" <=> UnlinkRow(s))
  BY DEF LinkRow, UnlinkRow, Ready
<1>2. PICK d, u : d = event[s].discordId /\ u = event[s].steamId
  OBVIOUS
<1>3. Carries(s) /\ pc[s] = label /\ pc[s] \in LinkSegments
  BY <1>1, ReadySlot DEF Labels, LinkSegments, LinkLabels
<1>4. u \in Users /\ users[u] # None /\ None \notin User \cup Discords
  BY <1>1, <1>2, <1>3, ConstantsAssumption DEF Carries, Labels
<1>5. LinkAt(u, label, d, locals[s].old)
  BY <1>2, <1>3 DEF LinkInv, LinkOK
<1>6. PICK id \in Discords \cup {None} :
        /\ users' = [users EXCEPT ![u].discordId = id] /\ discordById' = discordById
        /\ Held(u) = {id} \ {None} /\ Finish(s)
  BY <1>1, <1>2, <1>3, <1>4, <1>5 DEF LinkRow, UnlinkRow, Carries, LinkAt
<1>7. users[u] \in User /\ users \in [Users -> User \cup {None}]
  BY <1>4, StoresTyped DEF StoresOK
<1>8. users'[u] # None /\ users'[u].discordId = id /\ \A v \in Users \ {u} : users'[v] = users[v]
  <2>1. [users[u] EXCEPT !.discordId = id] \in User
    BY <1>7 DEF User
  <2>2. users'[u] = [users[u] EXCEPT !.discordId = id]
    BY <1>4, <1>6, <1>7
  <2>3. QED
    BY <1>4, <1>6, <1>7, <2>1, <2>2 DEF User
<1>9. \A v \in Users : Held(v)' = Held(v)
  BY <1>6 DEF Held
<1>10. Held(u)' = Has(u)'
  BY <1>4, <1>6, <1>8, <1>9 DEF Has, Linked
<1>11. \A v \in Users \ {u} : LinksKept(v)
  BY <1>8, <1>9 DEF LinksKept, Has, Linked
<1>12. QED
  BY <1>2, <1>3, <1>6, <1>10, <1>11, LinkEnds

LEMMA LinkAtStart == Init => LinkInv
<1> SUFFICES ASSUME Init PROVE LinkInv
  OBVIOUS
<1>1. \A s \in Slots : pc[s] = "idle" /\ event[s].op = "none"
  BY DEF Init, FlightInit, NoEvent
<1>2. \A u \in Users : Held(u) = {} /\ Has(u) = {}
  BY ConstantsAssumption DEF Init, Held, Has, Linked
<1>3. QED
  BY <1>1, <1>2 DEF LinkInv, OpAt, LinkOK, LinkSegments, LinkLabels

LEMMA LinkStep ==
  TypeInv /\ LinkInv /\ OneLinkPerUser /\ OneLinkPerUser' /\ [Next]_vars => LinkInv'
<1> SUFFICES ASSUME TypeInv, LinkInv, OneLinkPerUser, OneLinkPerUser', [Next]_vars PROVE LinkInv'
  OBVIOUS
<1>1. ASSUME NEW s \in Slots, NEW e \in Events, Submit(s, e) PROVE LinkInv'
  BY <1>1, UpsertLinks, LinkStartLinks, UnlinkStartLinks DEF Submit
<1>2. ASSUME NEW s \in Slots, Resume(s) PROVE LinkInv'
  BY <1>2, UpsertIndexLinks, LinkClaimLinks, ClearOldLinks, RowLinks DEF Resume
<1>3. ASSUME NEW e \in Events, SubmitLocal(e) PROVE LinkInv'
  BY <1>3, LocalLinks
<1>4. CASE UNCHANGED vars
  BY <1>4, LinksRest DEF vars, flightVars, storeVars, LinksKept, Held, Has, Linked
<1>5. QED
  BY <1>1, <1>2, <1>3, <1>4 DEF Next

\* The inductive invariant of clients that wait: every continuation of a link
\* or unlink finds the index where its next segment needs it.
THEOREM LinkInvariant == Spec /\ []OneLinkPerUser => []LinkInv
<1>1. QED
  BY LinkAtStart, LinkStep, TypeInvariant, PTL DEF Spec

\* A user's row and the reverse index name each other whenever no link or
\* unlink of that user is under way, whatever others do to the same ids.
THEOREM LinksAgree == Spec /\ []OneLinkPerUser => []LinkAgreesWithIndex
<1>1. LinkInv => LinkAgreesWithIndex
  BY DEF LinkInv, LinkAgreesWithIndex, Held, Has
<1>2. QED
  BY <1>1, LinkInvariant, PTL

\* The claim of users_module.rama:3 holds of such clients: at rest no two users
\* have one discord id.  The premise is what it needs (section 6 of README.md).
THEOREM DiscordIdsUnique == Spec /\ []OneLinkPerUser => []DiscordUniqueness
<1>1. LinkInv => DiscordUniqueness
  <2> SUFFICES ASSUME LinkInv, Quiescent, NEW u \in Users, NEW v \in Users, NEW d \in Discords,
                      Linked(u, d), Linked(v, d)
               PROVE  u = v
    BY DEF DiscordUniqueness
  <2>1. Settled(u) /\ Settled(v)
    BY DEF LinkInv, OpAt, Quiescent, Idle, Settled, LinkOps
  <2>2. d \in Has(u) /\ d \in Has(v)
    BY DEF Has
  <2>3. d \in Held(u) /\ d \in Held(v)
    BY <2>1, <2>2 DEF LinkInv
  <2>4. QED
    BY <2>3 DEF Held
<1>2. QED
  BY <1>1, LinkInvariant, PTL

---------------------------------------------------------------------------
(* The registry of discord ids *)

\* The claims of the registry are what the index holds for the users, its holds
\* what the rows of settled users have.
LEMMA LinksAre ==
  /\ \A l : l \in IndexedLinks <=> l \in UserLinks /\ l.name \in Held(l.owner)
  /\ \A l : l \in SettledLinks <=> l \in UserLinks /\ Settled(l.owner) /\ l.name \in Has(l.owner)
  BY DEF IndexedLinks, SettledLinks, UserLinks, Held, Has

LEMMA LinksWillBe ==
  /\ \A l : l \in IndexedLinks' <=> l \in UserLinks /\ l.name \in Held(l.owner)'
  /\ \A l : l \in SettledLinks' <=> l \in UserLinks /\ Settled(l.owner)' /\ l.name \in Has(l.owner)'
  BY DEF IndexedLinks, SettledLinks, UserLinks, Held, Has

LEMMA LinkRecord ==
  ASSUME NEW u \in Users, NEW d \in Discords
  PROVE  \E c \in UserLinks : /\ c.owner = u /\ c.name = d
                              /\ \A l \in UserLinks : l.owner = u /\ l.name = d <=> l = c
<1> DEFINE c == [owner |-> u, name |-> d]
<1>1. c \in UserLinks /\ c.owner = u /\ c.name = d
  BY DEF UserLinks
<1>2. \A l \in UserLinks : l.owner = u /\ l.name = d <=> l = c
  BY DEF UserLinks
<1>3. QED
  BY <1>1, <1>2

LEMMA LinksTyped ==
  /\ \A l \in UserLinks : l.owner \in Users /\ l.name \in Discords
  /\ IndexedLinks \subseteq UserLinks /\ IndexedLinks' \subseteq UserLinks
  /\ SettledLinks \subseteq UserLinks /\ SettledLinks' \subseteq UserLinks
  BY DEF IndexedLinks, SettledLinks, UserLinks

\* A row has one id at most.
LEMMA OneId ==
  ASSUME NEW u \in Users, NEW d, NEW e, d \in Has(u), e \in Has(u)
  PROVE  d = e
  BY DEF Has, Linked

\* A step of no link or unlink leaves the registry alone.
LEMMA RegistryRests ==
  ASSUME \A u \in Users : LinksKept(u) /\ (Settled(u)' <=> Settled(u))
  PROVE  UNCHANGED DiscordIds!vars
<1>1. \A l \in UserLinks : (l \in IndexedLinks' <=> l \in IndexedLinks) /\ (l \in SettledLinks' <=> l \in SettledLinks)
  BY LinksTyped, LinksAre, LinksWillBe DEF LinksKept
<1>2. IndexedLinks' = IndexedLinks /\ SettledLinks' = SettledLinks
  BY <1>1, LinksTyped
<1>3. QED
  BY <1>2 DEF DiscordIds!vars

\* When a link or unlink starts, the row of its user no longer counts.
LEMMA StartRegisters ==
  ASSUME TypeInv, LinkInv, NEW s \in Slots, NEW e \in Events, NEW u, u = e.steamId, e.op \in LinkOps,
         Idle(s), pc'[s] # "idle", event' = [event EXCEPT ![s] = e], UNCHANGED storeVars
  PROVE  [DiscordIds!Lasting \/ DiscordIds!Returning]_(DiscordIds!vars)
<1>1. u \in Users /\ \A v : LinksKept(v)
  BY EventFacts DEF storeVars, LinksKept, Held, Has, Linked
<1>2. event[s].op \notin LinkOps
  BY DEF LinkInv, Idle, OpAt, LinkOps
<1>3. event'[s] = e /\ \A o \in Slots \ {s} : event'[o] = event[o]
  BY DEF TypeInv, TypeOK, FlightTypeOK
<1>4. ~Settled(u)' /\ \A v \in Users \ {u} : Settled(v)' <=> Settled(v)
  BY <1>2, <1>3 DEF Settled
<1>5. CASE ~Settled(u) \/ Has(u) = {}
  <2>1. \A l \in UserLinks : (l \in IndexedLinks' <=> l \in IndexedLinks) /\ (l \in SettledLinks' <=> l \in SettledLinks)
    BY <1>1, <1>4, <1>5, LinksTyped, LinksAre, LinksWillBe DEF LinksKept
  <2>2. QED
    BY <2>1, LinksTyped DEF DiscordIds!vars
<1>6. CASE Settled(u) /\ Has(u) # {}
  <2>1. PICK d \in Discords : d \in Has(u)
    BY <1>6 DEF Has
  <2>2. PICK h \in UserLinks : /\ h.owner = u /\ h.name = d
                            /\ \A l \in UserLinks : l.owner = u /\ l.name = d <=> l = h
    BY <1>1, LinkRecord
  <2>3. h \in SettledLinks
    BY <1>6, <2>1, <2>2, LinksAre
  <2>4. \A l \in SettledLinks : l.owner = u <=> l = h
    <3>1. \A x \in Has(u) : x = d
      BY <1>1, <2>1, OneId
    <3>2. QED
      BY <2>1, <2>2, <3>1, LinksAre
  <2>5. IndexedLinks' = IndexedLinks /\ SettledLinks' = SettledLinks \ {h}
    <3>1. \A l \in UserLinks : l \in IndexedLinks' <=> l \in IndexedLinks
      BY <1>1, LinksTyped, LinksAre, LinksWillBe DEF LinksKept
    <3>2. \A l \in UserLinks : l.owner # u => (l \in SettledLinks' <=> l \in SettledLinks)
      BY <1>1, <1>4, LinksTyped, LinksAre, LinksWillBe DEF LinksKept
    <3>3. \A l \in UserLinks : l.owner = u => l \notin SettledLinks'
      BY <1>4, LinksWillBe
    <3>4. \A l \in UserLinks : l \in SettledLinks' <=> l \in SettledLinks /\ l # h
      BY <2>2, <2>4, <3>2, <3>3
    <3>5. QED
      BY <3>1, <3>4, LinksTyped
  <2>6. DiscordIds!LetGo(h)
    BY <2>5 DEF DiscordIds!LetGo
  <2>7. QED
    BY <2>3, <2>6 DEF DiscordIds!Returning
<1>7. QED
  BY <1>5, <1>6

\* When one ends, the row of its user counts again: it holds the id that the
\* index has for the user, if there is one.
LEMMA EndRegisters ==
  ASSUME TypeInv, LinkInv, OneLinkPerUser, NEW s \in Slots, NEW u \in Users, u = event[s].steamId,
         event[s].op \in LinkOps, Finish(s), \A v \in Users : Held(v)' = Held(v),
         \A v \in Users \ {u} : Has(v)' = Has(v), Has(u)' = Held(u)
  PROVE  [DiscordIds!Lasting \/ DiscordIds!Returning]_(DiscordIds!vars)
<1>1. event'[s] = NoEvent /\ \A o \in Slots \ {s} : event'[o] = event[o]
  BY DEF TypeInv, TypeOK, FlightTypeOK, Finish
<1>2. NoEvent.op \notin LinkOps
  BY DEF NoEvent, LinkOps
<1>3. ~Settled(u) /\ Settled(u)' /\ \A v \in Users \ {u} : Settled(v)' <=> Settled(v)
  BY <1>1, <1>2 DEF Settled, OneLinkPerUser
<1>4. IndexedLinks' = IndexedLinks
  <2>1. \A l \in UserLinks : l \in IndexedLinks' <=> l \in IndexedLinks
    BY LinksTyped, LinksAre, LinksWillBe
  <2>2. QED
    BY <2>1, LinksTyped
<1>5. \A l \in UserLinks : l.owner # u => (l \in SettledLinks' <=> l \in SettledLinks)
  BY <1>3, LinksTyped, LinksAre, LinksWillBe
<1>6. \A l \in UserLinks : l.owner = u => l \notin SettledLinks /\ (l \in SettledLinks' <=> l.name \in Held(u))
  BY <1>3, LinksAre, LinksWillBe
<1>7. CASE Held(u) = {}
  <2>1. SettledLinks' = SettledLinks
    BY <1>5, <1>6, <1>7, LinksTyped
  <2>2. QED
    BY <1>4, <2>1 DEF DiscordIds!vars
<1>8. CASE Held(u) # {}
  <2>1. PICK d \in Discords : d \in Held(u)
    BY <1>8 DEF Held
  <2>2. PICK c \in UserLinks : /\ c.owner = u /\ c.name = d
                            /\ \A l \in UserLinks : l.owner = u /\ l.name = d <=> l = c
    BY LinkRecord
  <2>3. c \in IndexedLinks
    BY <2>1, <2>2, LinksAre
  <2>4. \A l \in UserLinks : l.owner = u /\ l.name \in Held(u) <=> l = c
    <3>1. Has(u)' = Held(u) /\ \A x \in Has(u)' : \A y \in Has(u)' : x = y
      BY DEF Has, Linked
    <3>2. \A x \in Held(u) : x = d
      BY <2>1, <3>1
    <3>3. QED
      BY <2>1, <2>2, <3>2
  <2>5. SettledLinks' = {h \in SettledLinks : h.owner # c.owner} \cup {c}
    <3>1. \A l \in UserLinks : l \in SettledLinks' <=> (l \in SettledLinks /\ l.owner # u) \/ l = c
      BY <1>5, <1>6, <2>2, <2>4
    <3>2. QED
      BY <2>2, <3>1, LinksTyped
  <2>6. DiscordIds!Hold(c)
    BY <1>4, <2>3, <2>5 DEF DiscordIds!Hold
  <2>7. QED
    BY <2>3, <2>6 DEF DiscordIds!Lasting
<1>9. QED
  BY <1>7, <1>8

\* The claim and the refusal.
LEMMA LinkClaimRegisters ==
  ASSUME TypeInv, LinkInv, OneLinkPerUser, NEW s \in Slots, LinkClaim(s)
  PROVE  [DiscordIds!Lasting \/ DiscordIds!Returning]_(DiscordIds!vars)
<1>1. PICK d, u, old : d = event[s].discordId /\ u = event[s].steamId /\ old = locals[s].old
  OBVIOUS
<1>2. /\ Carries(s) /\ pc[s] = "link@discord" /\ pc[s] \in LinkSegments
      /\ event[s].op \in LinkOps
  BY ReadySlot DEF LinkClaim, Labels, LinkSegments, LinkLabels, LinkInv, OpAt, LinkOps
<1>3. u \in Users /\ d \in Discords \cup {Empty} /\ None \notin Users
  BY <1>1, <1>2, ConstantsAssumption DEF Carries, Labels
<1>4. Held(u) = Has(u)
  BY <1>1, <1>2 DEF LinkInv, LinkOK, LinkAt
<1>5. \A v \in Users : Has(v)' = Has(v)
  BY DEF LinkClaim, Has, Linked
<1>6. CASE DiscordIdError(d, u)
  <2>1. Finish(s) /\ discordById' = discordById
    BY <1>1, <1>6 DEF LinkClaim
  <2>2. \A v \in Users : Held(v)' = Held(v)
    BY <2>1 DEF Held
  <2>3. QED
    BY <1>1, <1>2, <1>3, <1>4, <1>5, <2>1, <2>2, EndRegisters
<1>7. CASE ~DiscordIdError(d, u)
  <2>1. d \in Discords /\ discordById[d] \in {None, u}
    BY <1>3, <1>7 DEF DiscordIdError
  <2>2. discordById' = [discordById EXCEPT ![d] = u] /\ event' = event
    BY <1>1, <1>7 DEF LinkClaim, Hop
  <2>3. SettledLinks' = SettledLinks
    <3>1. \A v \in Users : Settled(v)' <=> Settled(v)
      BY <2>2 DEF Settled
    <3>2. \A l \in UserLinks : l \in SettledLinks' <=> l \in SettledLinks
      BY <1>5, <3>1, LinksTyped, LinksAre, LinksWillBe
    <3>3. QED
      BY <3>2, LinksTyped
  <2>4. PICK c \in UserLinks : /\ c.owner = u /\ c.name = d
                            /\ \A l \in UserLinks : l.owner = u /\ l.name = d <=> l = c
    BY <1>3, <2>1, LinkRecord
  <2>5. IndexedLinks' = IndexedLinks \cup {c}
    <3>1. \A v \in Users : Held(v)' = IF v = u THEN Held(v) \cup {d} ELSE Held(v)
      BY <1>3, <2>1, <2>2, StoresTyped DEF Held, StoresOK
    <3>2. \A l \in UserLinks : l \in IndexedLinks' <=> l \in IndexedLinks \/ l = c
      BY <2>4, <3>1, LinksTyped, LinksAre, LinksWillBe
    <3>3. QED
      BY <2>4, <3>2, LinksTyped
  <2>6. \A l \in IndexedLinks : l.name = d => l.owner = u
    BY <1>3, <2>1 DEF IndexedLinks, UserLinks
  <2>7. DiscordIds!Claim(c)
    BY <2>3, <2>4, <2>5, <2>6 DEF DiscordIds!Claim
  <2>8. QED
    BY <2>5, <2>7 DEF DiscordIds!Lasting
<1>8. QED
  BY <1>6, <1>7

\* An id is given up while its user is not settled, so no row counts for it.
LEMMA ClearOldRegisters ==
  ASSUME TypeInv, LinkInv, OneLinkPerUser, NEW s \in Slots, LinkClearOld(s) \/ UnlinkClearOld(s)
  PROVE  [DiscordIds!Lasting \/ DiscordIds!Returning]_(DiscordIds!vars)
<1>1. PICK label \in {"link@old", "unlink@old"}, next \in {"link@user", "unlink@user"} : ClearOld(s, label, next)
  BY DEF LinkClearOld, UnlinkClearOld
<1>2. PICK d, u, old : d = event[s].discordId /\ u = event[s].steamId /\ old = locals[s].old
  OBVIOUS
<1>3. Carries(s) /\ pc[s] = label /\ pc[s] \in LinkSegments
  BY <1>1, ReadySlot DEF ClearOld, Labels, LinkSegments, LinkLabels
<1>4. u \in Users /\ old \in Discords /\ None \notin Users
  BY <1>1, <1>2, <1>3, ConstantsAssumption DEF Carries, Labels
<1>5. LinkAt(u, label, d, old)
  BY <1>2, <1>3 DEF LinkInv, LinkOK
<1>6. users' = users /\ discordById' = [discordById EXCEPT ![old] = None] /\ event' = event
  BY <1>1, <1>2 DEF ClearOld, Hop
<1>7. ~Settled(u)
  BY <1>2, <1>3, LinkSlot DEF Settled
<1>8. PICK c \in UserLinks : /\ c.owner = u /\ c.name = old
                          /\ \A l \in UserLinks : l.owner = u /\ l.name = old <=> l = c
  BY <1>4, LinkRecord
<1>9. c \in IndexedLinks
  BY <1>1, <1>5, <1>8, LinksAre DEF LinkAt
<1>10. SettledLinks' = SettledLinks /\ c \notin SettledLinks
  <2>1. \A v \in Users : Has(v)' = Has(v)
    BY <1>6 DEF Has, Linked
  <2>2. \A v \in Users : Settled(v)' <=> Settled(v)
    BY <1>6 DEF Settled
  <2>3. \A l \in UserLinks : l \in SettledLinks' <=> l \in SettledLinks
    BY <2>1, <2>2, LinksTyped, LinksAre, LinksWillBe
  <2>4. QED
    BY <1>7, <1>8, <2>3, LinksTyped, LinksAre
<1>11. IndexedLinks' = IndexedLinks \ {c}
  <2>1. \A v \in Users : Held(v)' = Held(v) \ {old}
    BY <1>4, <1>6, StoresTyped DEF Held, StoresOK
  <2>2. \A l \in IndexedLinks : l.name = old <=> l = c
    <3>1. discordById[old] = u
      BY <1>8, <1>9 DEF IndexedLinks
    <3>2. QED
      BY <1>4, <1>8, <1>9, <3>1 DEF IndexedLinks
  <2>3. \A l \in UserLinks : l \in IndexedLinks' <=> l \in IndexedLinks /\ l # c
    <3>1. \A l \in UserLinks : l \in IndexedLinks' <=> l \in IndexedLinks /\ l.name # old
      BY <2>1, LinksTyped, LinksAre, LinksWillBe
    <3>2. QED
      BY <2>2, <3>1
  <2>4. QED
    BY <2>3, LinksTyped
<1>12. DiscordIds!Free(c)
  BY <1>10, <1>11 DEF DiscordIds!Free
<1>13. QED
  BY <1>9, <1>12 DEF DiscordIds!Returning

\* The last segment writes the row.
LEMMA RowRegisters ==
  ASSUME TypeInv, LinkInv, OneLinkPerUser, NEW s \in Slots, LinkRow(s) \/ UnlinkRow(s)
  PROVE  [DiscordIds!Lasting \/ DiscordIds!Returning]_(DiscordIds!vars)
<1>1. PICK label \in {"link@user", "unlink@user"} : Ready(s, label)
  BY DEF LinkRow, UnlinkRow
<1>2. PICK u : u = event[s].steamId
  OBVIOUS
<1>3. Carries(s) /\ pc[s] = label /\ pc[s] \in LinkSegments
  BY <1>1, ReadySlot DEF Labels, LinkSegments, LinkLabels
<1>4. u \in Users /\ event[s].op \in LinkOps
  BY <1>2, <1>3, LinkSlot
<1>5. Finish(s) /\ discordById' = discordById
  BY DEF LinkRow, UnlinkRow
<1>6. \A v \in Users : Held(v)' = Held(v)
  BY <1>5 DEF Held
<1>7. \A v \in Users \ {u} : Has(v)' = Has(v)
  <2>1. PICK id : users' = [users EXCEPT ![u].discordId = id]
    BY <1>2 DEF LinkRow, UnlinkRow
  <2>2. \A v \in Users \ {u} : users'[v] = users[v]
    BY <2>1, StoresTyped DEF StoresOK
  <2>3. QED
    BY <2>2 DEF Has, Linked
<1>8. Has(u)' = Held(u)
  <2>1. LinkInv'
    BY RowLinks
  <2>2. event'[s] = NoEvent /\ \A o \in Slots \ {s} : event'[o] = event[o]
    BY <1>5 DEF TypeInv, TypeOK, FlightTypeOK, Finish
  <2>3. Settled(u)'
    BY <1>2, <1>4, <2>2 DEF Settled, OneLinkPerUser, NoEvent, LinkOps
  <2>4. QED
    BY <1>4, <1>6, <2>1, <2>3 DEF LinkInv
<1>9. QED
  BY <1>2, <1>4, <1>5, <1>6, <1>7, <1>8, EndRegisters

\* What is no link or unlink.
LEMMA OthersRegister ==
  ASSUME TypeInv, LinkInv, NEW s \in Slots,
         UpsertIndex(s) \/ \E e \in Events : UpsertProfile(s, e)
  PROVE  UNCHANGED DiscordIds!vars
<1>1. CASE UpsertIndex(s)
  <2>1. \A u \in Users : LinksKept(u)
    BY <1>1 DEF UpsertIndex, LinksKept, Held, Has, Linked
  <2>2. Finish(s) /\ event[s].op = "upsert-profile"
    BY <1>1 DEF UpsertIndex, Ready, LinkInv, OpAt
  <2>3. event'[s] = NoEvent /\ \A o \in Slots \ {s} : event'[o] = event[o]
    BY <2>2 DEF TypeInv, TypeOK, FlightTypeOK, Finish
  <2>4. QED
    BY <2>1, <2>2, <2>3, RegistryRests DEF Settled, NoEvent, LinkOps
<1>2. ASSUME NEW e \in Events, UpsertProfile(s, e) PROVE UNCHANGED DiscordIds!vars
  <2>1. \A u \in Users : LinksKept(u)
    BY <1>2, StoresTyped, ConstantsAssumption
       DEF UpsertProfile, Upserted, NewUser, StoresOK, LinksKept, Held, Has, Linked
  <2>2. Launch(s, e, e.steamId, All, "upsert@all", NoLocals) /\ e.op = "upsert-profile"
    BY <1>2 DEF UpsertProfile
  <2>3. event[s].op = "none" /\ event'[s] = e /\ \A o \in Slots \ {s} : event'[o] = event[o]
    BY <2>2 DEF LinkInv, OpAt, Idle, TypeInv, TypeOK, FlightTypeOK, Launch
  <2>4. QED
    BY <2>1, <2>2, <2>3, RegistryRests DEF Settled, LinkOps
<1>3. QED
  BY <1>1, <1>2

LEMMA LocalRegisters ==
  ASSUME TypeInv, NEW e \in Events, SubmitLocal(e)
  PROVE  UNCHANGED DiscordIds!vars
<1>1. UNCHANGED <<flightVars, discordById>>
  BY DEF SubmitLocal, SetPermission, SetBan, BumpSession, Mutate
<1>2. PICK row \in User : row.discordId = users[e.steamId].discordId /\ users' = [users EXCEPT ![e.steamId] = row]
  BY MutatedRow
<1>3. users[e.steamId] # None
  BY DEF SubmitLocal, SetPermission, SetBan, BumpSession, Mutate
<1>4. \A u \in Users, d \in Discords : Linked(u, d)' <=> Linked(u, d)
  BY <1>2, <1>3, StoresTyped, EventFacts, ConstantsAssumption DEF Linked, StoresOK
<1>5. \A u \in Users : LinksKept(u) /\ (Settled(u)' <=> Settled(u))
  BY <1>1, <1>4 DEF LinksKept, Held, Has, Settled, flightVars
<1>6. QED
  BY <1>5, RegistryRests

LEMMA DiscordIdsStep ==
  TypeInv /\ LinkInv /\ OneLinkPerUser /\ [Next]_vars
    => [DiscordIds!Lasting \/ DiscordIds!Returning]_(DiscordIds!vars)
<1> SUFFICES ASSUME TypeInv, LinkInv, OneLinkPerUser, [Next]_vars
             PROVE  [DiscordIds!Lasting \/ DiscordIds!Returning]_(DiscordIds!vars)
  OBVIOUS
<1>1. ASSUME NEW s \in Slots, NEW e \in Events, LinkDiscord(s, e) \/ UnlinkDiscord(s, e)
      PROVE  [DiscordIds!Lasting \/ DiscordIds!Returning]_(DiscordIds!vars)
  <2>1. PICK u : u = e.steamId
    OBVIOUS
  <2>2. e.op \in LinkOps /\ UNCHANGED storeVars
    BY <1>1 DEF LinkDiscord, UnlinkDiscord, LinkOps
  <2>3. PICK key, dest, label, mem : Launch(s, e, key, dest, label, mem) /\ label # "idle"
    BY <1>1 DEF LinkDiscord, UnlinkDiscord
  <2>4. Idle(s) /\ pc'[s] # "idle" /\ event' = [event EXCEPT ![s] = e]
    BY <2>3, LaunchSlot DEF Launch
  <2>5. QED
    BY <2>1, <2>2, <2>4, StartRegisters
<1>2. ASSUME NEW s \in Slots, Resume(s)
      PROVE  [DiscordIds!Lasting \/ DiscordIds!Returning]_(DiscordIds!vars)
  BY <1>2, OthersRegister, LinkClaimRegisters, ClearOldRegisters, RowRegisters DEF Resume
<1>3. ASSUME NEW s \in Slots, NEW e \in Events, UpsertProfile(s, e) PROVE UNCHANGED DiscordIds!vars
  BY <1>3, OthersRegister
<1>4. ASSUME NEW e \in Events, SubmitLocal(e) PROVE UNCHANGED DiscordIds!vars
  BY <1>4, LocalRegisters
<1>5. CASE UNCHANGED vars
  <2>1. \A u \in Users : LinksKept(u) /\ (Settled(u)' <=> Settled(u))
    BY <1>5 DEF vars, flightVars, storeVars, LinksKept, Held, Has, Linked, Settled
  <2>2. QED
    BY <2>1, RegistryRests
<1>6. QED
  BY <1>1, <1>2, <1>3, <1>4, <1>5 DEF Next, Submit

\* The links of settled users are a registry of discord ids: claimed before a
\* row counts, given up after it has stopped to, for clients that wait.
THEOREM DiscordIdsRegistered == Spec /\ []OneLinkPerUser => DiscordIdsAreRegistered
<1>1. Init => DiscordIds!RegistryInit
  BY ConstantsAssumption DEF Init, DiscordIds!RegistryInit, IndexedLinks, SettledLinks, UserLinks, Linked
<1>2. QED
  BY <1>1, DiscordIdsStep, TypeInvariant, LinkInvariant, PTL DEF Spec, DiscordIdsAreRegistered, DiscordIds!Spec
=============================================================================
