----------------------------- MODULE UsersModule -----------------------------
(***************************************************************************)
(* users_module.rama: user rows with their session version, the list of    *)
(* user ids on the "all" partition, and the link between a user and a      *)
(* discord id, which two partitions must agree on: the user's row and the  *)
(* reverse index on the discord id's partition.                            *)
(*                                                                         *)
(* Left out: username and avatarUrl, which no op reads, and the            *)
(* acknowledgments.  A refusal in the first segment changes nothing.       *)
(***************************************************************************)
EXTENDS RamaTopology

CONSTANTS Users, Discords,
          All,          \* the key "all"
          Events,       \* the depot records that clients may append
          MaxVersion    \* bound: no session version is raised beyond it

VARIABLES users,        \* $$users
          discordById,  \* $$discord-by-id
          userIds       \* $$user-ids, the entries of key "all"

storeVars == <<users, discordById, userIds>>
vars == <<flightVars, storeVars>>

Levels == {"GUEST", "MODERATOR", "ADMIN"}
Bans == {"NONE", "SUSPENDED", "BANNED"}

User == [permissionLevel: Levels, banStatus: Bans, sessionVersion: Nat,
         discordId: Discords \cup {None}]

PlainOps == {"upsert-profile", "bump-session", "unlink-discord"}
Event ==
       [op: PlainOps, steamId: Users]
  \cup [op: {"set-permission"}, steamId: Users, permissionLevel: STRING]
  \cup [op: {"set-ban"}, steamId: Users, banStatus: STRING]
  \cup [op: {"link-discord"}, steamId: Users, discordId: Discords \cup {Empty}]

ASSUME EventsAssumption == Events \subseteq Event
ASSUME ConstantsAssumption ==
  /\ MaxVersion \in Nat
  /\ None \notin User \cup Users \cup Discords
  /\ Empty \notin Discords
  /\ UNION {Users, Discords, {All, Empty}} \subseteq Keys

Labels == {"upsert@all", "link@discord", "link@old", "link@user", "unlink@old", "unlink@user"}

Init ==
  /\ FlightInit
  /\ users = [u \in Users |-> None]
  /\ discordById = [d \in Discords |-> None]
  /\ userIds = {}

---------------------------------------------------------------------------
(* upsert-profile *)

NewUser == [permissionLevel |-> "GUEST", banStatus |-> "NONE", sessionVersion |-> 0,
            discordId |-> None]

\* Mutant: a repeated upsert starts the row afresh.
UpsertedAfresh(row) == NewUser

Upserted(row) == IF row = None THEN NewUser ELSE row

UpsertProfile(s, e) ==
  /\ e.op = "upsert-profile"
  /\ users' = [users EXCEPT ![e.steamId] = Upserted(@)]
  /\ Launch(s, e, e.steamId, All, "upsert@all", NoLocals)
  /\ UNCHANGED <<discordById, userIds>>

UpsertIndex(s) ==
  /\ Ready(s, "upsert@all")
  /\ userIds' = userIds \cup {event[s].steamId}
  /\ Finish(s)
  /\ UNCHANGED <<users, discordById>>

---------------------------------------------------------------------------
(* set-permission, set-ban, bump-session: hop-free, one version up each.   *)

\* The row of an existing user with some fields changed and the next version.
Mutate(u, row) ==
  /\ users[u] # None
  /\ users[u].sessionVersion < MaxVersion
  /\ users' = [users EXCEPT ![u] = [row EXCEPT !.sessionVersion = @ + 1]]
  /\ UNCHANGED <<flightVars, discordById, userIds>>

SetPermission(e) ==
  /\ e.op = "set-permission"
  /\ e.permissionLevel \in Levels
  /\ Mutate(e.steamId, [users[e.steamId] EXCEPT !.permissionLevel = e.permissionLevel])

SetBan(e) ==
  /\ e.op = "set-ban"
  /\ e.banStatus \in Bans
  /\ Mutate(e.steamId, [users[e.steamId] EXCEPT !.banStatus = e.banStatus])

BumpSession(e) ==
  /\ e.op = "bump-session"
  /\ Mutate(e.steamId, users[e.steamId])

---------------------------------------------------------------------------
(* link-discord *)

LinkDiscord(s, e) ==
  /\ e.op = "link-discord"
  /\ users[e.steamId] # None
  /\ Launch(s, e, e.steamId, e.discordId, "link@discord",
            [old |-> users[e.steamId].discordId])
  /\ UNCHANGED storeVars

\* Mutant: an id that another user has is accepted.
DiscordIdErrorEmpty(d, u) == d = Empty

DiscordIdError(d, u) == d = Empty \/ discordById[d] \notin {None, u}

\* The check, the index write, and the choice of clear-old-discord?.
LinkClaim(s) ==
  /\ Ready(s, "link@discord")
  /\ LET d == event[s].discordId
         u == event[s].steamId
         old == locals[s].old
     IN IF DiscordIdError(d, u)
        THEN Finish(s) /\ UNCHANGED discordById
        ELSE /\ discordById' = [discordById EXCEPT ![d] = u]
             /\ IF old \notin {None, d} THEN Hop(s, old, "link@old", [old |-> old])
                                        ELSE Hop(s, u, "link@user", NoLocals)
  /\ UNCHANGED <<users, userIds>>

ClearOld(s, label, next) ==
  /\ Ready(s, label)
  /\ discordById' = [discordById EXCEPT ![locals[s].old] = None]
  /\ Hop(s, event[s].steamId, next, NoLocals)
  /\ UNCHANGED <<users, userIds>>

LinkClearOld(s) == ClearOld(s, "link@old", "link@user")

LinkRow(s) ==
  /\ Ready(s, "link@user")
  /\ users' = [users EXCEPT ![event[s].steamId].discordId = event[s].discordId]
  /\ Finish(s)
  /\ UNCHANGED <<discordById, userIds>>

---------------------------------------------------------------------------
(* unlink-discord *)

UnlinkDiscord(s, e) ==
  /\ e.op = "unlink-discord"
  /\ users[e.steamId] # None
  /\ LET old == users[e.steamId].discordId
     IN IF old # None
        THEN Launch(s, e, e.steamId, old, "unlink@old", [old |-> old])
        ELSE Launch(s, e, e.steamId, e.steamId, "unlink@user", NoLocals)
  /\ UNCHANGED storeVars

UnlinkClearOld(s) == ClearOld(s, "unlink@old", "unlink@user")

UnlinkRow(s) ==
  /\ Ready(s, "unlink@user")
  /\ users' = [users EXCEPT ![event[s].steamId].discordId = None]
  /\ Finish(s)
  /\ UNCHANGED <<discordById, userIds>>

---------------------------------------------------------------------------
Submit(s, e) == UpsertProfile(s, e) \/ LinkDiscord(s, e) \/ UnlinkDiscord(s, e)

Resume(s) ==
  \/ UpsertIndex(s)
  \/ LinkClaim(s) \/ LinkClearOld(s) \/ LinkRow(s)
  \/ UnlinkClearOld(s) \/ UnlinkRow(s)

SubmitLocal(e) == SetPermission(e) \/ SetBan(e) \/ BumpSession(e)

Next ==
  \/ \E s \in Slots, e \in Events : Submit(s, e)
  \/ \E s \in Slots : Resume(s)
  \/ \E e \in Events : SubmitLocal(e)

Spec == Init /\ [][Next]_vars

---------------------------------------------------------------------------
(* Properties *)

\* The type invariant.
TypeOK ==
  /\ FlightTypeOK(Labels, Events)
  /\ users \in [Users -> User \cup {None}]
  /\ discordById \in [Discords -> Users \cup {None}]
  /\ userIds \subseteq Users

LinkOps == {"link-discord", "unlink-discord"}
Settled(u) == \A s \in Slots : event[s].op \in LinkOps => event[s].steamId # u
Linked(u, d) == users[u] # None /\ users[u].discordId = d

\* For clients that wait for each answer: a user's row and the reverse index
\* name each other whenever no link or unlink of that user is under way,
\* whatever other users do to the same discord ids meanwhile.
LinkAgreesWithIndex ==
  \A u \in Users, d \in Discords :
    Settled(u) => (Linked(u, d) <=> discordById[d] = u)

\* users_module.rama:3 "cross-partition discord uniqueness": no two users keep
\* the same discord id once everything submitted has been answered.
DiscordUniqueness ==
  Quiescent => \A u, v \in Users, d \in Discords : Linked(u, d) /\ Linked(v, d) => u = v

UserLinks == [owner: Users, name: Discords]
IndexedLinks == {l \in UserLinks : discordById[l.name] = l.owner}
SettledLinks == {l \in UserLinks : Settled(l.owner) /\ Linked(l.owner, l.name)}

\* users_module.rama: the links of users who are not in the middle of a link or
\* unlink are a registry of discord ids.  An id is claimed in the index for a
\* user before the row shows it, is shown no longer before the claim is given
\* up, and passes to another user only in between.
DiscordIds == INSTANCE NameRegistry WITH claims <- IndexedLinks, holds <- SettledLinks
DiscordIdsAreRegistered == DiscordIds!Spec

\* A session version never goes back, and a change of permission or ban always
\* raises it, so a session issued before the change can be told from a new one;
\* in particular a repeated upsert-profile does not reset it.
VersionTells(u) ==
  /\ users'[u].sessionVersion >= users[u].sessionVersion
  /\ (users'[u].permissionLevel # users[u].permissionLevel \/ users'[u].banStatus # users[u].banStatus)
       => users'[u].sessionVersion > users[u].sessionVersion

\* No step of any op leaves a session valid that it should end.
SessionsInvalidated == [][\A u \in Users : users[u] # None => VersionTells(u)]_users
=============================================================================
