--------------------------- MODULE MapPoolsModule ----------------------------
(***************************************************************************)
(* map_pools_module.rama: arenas, pools and the arenas of a pool, with the *)
(* lists of arena and pool ids on "all".                                   *)
(*                                                                         *)
(* Left out: an arena's avatar and playoff map.                            *)
(***************************************************************************)
EXTENDS RamaTopology

CONSTANTS All,
          Events   \* the depot records that clients may append

VARIABLES arenas, arenaIds, pools, poolMaps, poolIds

storeVars == <<arenas, arenaIds, pools, poolMaps, poolIds>>
vars == <<flightVars, storeVars>>

Init ==
  /\ FlightInit
  /\ arenas = <<>> /\ arenaIds = {}
  /\ pools = <<>> /\ poolMaps = <<>> /\ poolIds = {}

ArenaError(e) == Empty \in {e.arenaId, e.name}

UpsertArena(s, e) ==
  /\ e.op = "upsert-arena" /\ ~ArenaError(e)
  /\ arenas' = Put(arenas, e.arenaId, e.name)
  /\ Launch(s, e, e.arenaId, All, "arena@all", NoLocals)
  /\ UNCHANGED <<arenaIds, pools, poolMaps, poolIds>>

ListArena(s) ==
  /\ Ready(s, "arena@all")
  /\ arenaIds' = arenaIds \cup {event[s].arenaId}
  /\ Finish(s)
  /\ UNCHANGED <<arenas, pools, poolMaps, poolIds>>

CreatePoolError(e) == Empty \in {e.poolId, e.name} \/ e.poolId \in DOMAIN pools

CreatePool(s, e) ==
  /\ e.op = "create-pool" /\ ~CreatePoolError(e)
  /\ pools' = Put(pools, e.poolId, [name |-> e.name, isActive |-> FALSE])
  /\ poolMaps' = Put(poolMaps, e.poolId, <<>>)
  /\ Launch(s, e, e.poolId, All, "pool@all", NoLocals)
  /\ UNCHANGED <<arenas, arenaIds, poolIds>>

ListPool(s) ==
  /\ Ready(s, "pool@all")
  /\ poolIds' = poolIds \cup {event[s].poolId}
  /\ Finish(s)
  /\ UNCHANGED <<arenas, arenaIds, pools, poolMaps>>

---------------------------------------------------------------------------
(* Hop-free, on a pool that exists. *)

RenamePool(e) ==
  /\ e.op = "rename-pool" /\ e.poolId \in DOMAIN pools /\ e.name # Empty
  /\ pools' = [pools EXCEPT ![e.poolId].name = e.name]
  /\ UNCHANGED poolMaps

SetPoolActive(e) ==
  /\ e.op = "set-pool-active" /\ e.poolId \in DOMAIN pools
  /\ pools' = [pools EXCEPT ![e.poolId].isActive = OrDefault(e.isActive, None, FALSE)]
  /\ UNCHANGED poolMaps

\* What is not sequential is as good as nil.
SetPoolMaps(e) ==
  /\ e.op = "set-pool-maps" /\ e.poolId \in DOMAIN pools /\ e.arenaIds # None
  /\ poolMaps' = [poolMaps EXCEPT ![e.poolId] = e.arenaIds]
  /\ UNCHANGED pools

---------------------------------------------------------------------------
Submit(s, e) == UpsertArena(s, e) \/ CreatePool(s, e)
Resume(s) == ListArena(s) \/ ListPool(s)
SubmitLocal(e) ==
  /\ RenamePool(e) \/ SetPoolActive(e) \/ SetPoolMaps(e)
  /\ UNCHANGED <<flightVars, arenas, arenaIds, poolIds>>

Next ==
  \/ \E s \in Slots, e \in Events : Submit(s, e)
  \/ \E s \in Slots : Resume(s)
  \/ \E e \in Events : SubmitLocal(e)
Spec == Init /\ [][Next]_vars

---------------------------------------------------------------------------
\* Stored arenas and pools are listed once everything submitted has been answered.
PoolsListed == Quiescent => DOMAIN arenas = arenaIds /\ DOMAIN pools = poolIds
=============================================================================
