---------------------------- MODULE RamaTopology ----------------------------
(***************************************************************************)
(* The execution substrate every compiled `.rama` module runs on, as       *)
(* emit_clj.rs uses it: one depot per module, one stream topology, and in  *)
(* an op body `|hash key` as the only way to change task.                  *)
(*                                                                         *)
(* An event being processed is a continuation that occupies a slot.  The   *)
(* statements between two hops are one segment; a segment runs on one task *)
(* without interruption, so it is one atomic step of a component.  A hop   *)
(* sends the continuation over the link from the current task to the task  *)
(* of the key.  A link delivers in order; different links are independent, *)
(* and segments of other events run in between.                            *)
(*                                                                         *)
(* Slots is how many events may be under way at once.  A slot is free      *)
(* again when its event ends, so the number of events is unbounded.        *)
(* TaskOf is the hash partitioner.  Sharing a task merges links, which     *)
(* adds order, so where every PState is read and written at the key its    *)
(* task has, a one-to-one TaskOf has the most interleavings.  An op that   *)
(* touches a row of another key than the one it hashed on acts on the row  *)
(* of that key only where the two share a task: such a module is checked   *)
(* under placements of both kinds.                                         *)
(***************************************************************************)
EXTENDS Naturals, FiniteSets, TLAPS

CONSTANTS Slots,   \* continuations that can exist at the same time
          Tasks,   \* tasks of the module instance
          Keys,    \* every value an op hashes on
          TaskOf,  \* the partitioner: key -> task
          None,    \* nil
          Empty    \* the empty string

ASSUME TaskOfAssumption == TaskOf \in [Keys -> Tasks]

VARIABLES pc,      \* pc[s]: the segment that slot s runs next, or "idle"
          event,   \* event[s]: the depot record in slot s
          locals,  \* locals[s]: values bound earlier and still used
          via,     \* via[s]: the link <<from, to>> the continuation is on
          ahead    \* ahead[s]: continuations before s on that link

flightVars == <<pc, event, locals, via, ahead>>

NoEvent == [op |-> "none"]
NoLocals == [none |-> TRUE]
NoLink == <<>>
Links == Tasks \X Tasks

Idle(s) == pc[s] = "idle"
Quiescent == \A s \in Slots : Idle(s)

FlightInit ==
  /\ pc = [s \in Slots |-> "idle"]
  /\ event = [s \in Slots |-> NoEvent]
  /\ locals = [s \in Slots |-> NoLocals]
  /\ via = [s \in Slots |-> NoLink]
  /\ ahead = [s \in Slots |-> {}]

FlightTypeOK(labels, events) ==
  /\ pc \in [Slots -> labels \cup {"idle"}]
  /\ event \in [Slots -> events \cup {NoEvent}]
  /\ locals = [s \in Slots |-> locals[s]]
  /\ via \in [Slots -> Links \cup {NoLink}]
  /\ ahead \in [Slots -> SUBSET Slots]
  /\ \A s \in Slots : Idle(s) <=> via[s] = NoLink

\* The continuation in s has reached its task and the segment `label` is next.
Ready(s, label) == pc[s] = label /\ ahead[s] = {}

\* Put s at the end of a link; every queue s was in moves up.
Enqueue(s, link) ==
  /\ via' = [via EXCEPT ![s] = link]
  /\ ahead' = [o \in Slots |->
                 IF o = s THEN {q \in Slots \ {s} : via[q] = link}
                          ELSE ahead[o] \ {s}]

\* A depot record `e`, keyed by `key`, runs its first segment on the depot
\* partition's task and leaves it with `|hash dest`, keeping `mem` in locals.
Launch(s, e, key, dest, label, mem) ==
  /\ Idle(s)
  /\ pc' = [pc EXCEPT ![s] = label]
  /\ event' = [event EXCEPT ![s] = e]
  /\ locals' = [locals EXCEPT ![s] = mem]
  /\ Enqueue(s, <<TaskOf[key], TaskOf[dest]>>)

\* `|hash dest` at the end of a later segment; `mem` is what is still needed.
Hop(s, dest, label, mem) ==
  /\ pc' = [pc EXCEPT ![s] = label]
  /\ locals' = [locals EXCEPT ![s] = mem]
  /\ Enqueue(s, <<via[s][2], TaskOf[dest]>>)
  /\ UNCHANGED event

\* `ack-return>` (or a contract violation) ends the event.
Finish(s) ==
  /\ pc' = [pc EXCEPT ![s] = "idle"]
  /\ event' = [event EXCEPT ![s] = NoEvent]
  /\ locals' = [locals EXCEPT ![s] = NoLocals]
  /\ via' = [via EXCEPT ![s] = NoLink]
  /\ ahead' = [o \in Slots |-> IF o = s THEN {} ELSE ahead[o] \ {s}]

-----------------------------------------------------------------------------
(* PStates whose keys come and go, as functions of the keys they hold.       *)

\* keypath(k), termval(v)
Put(pstate, k, v) == [i \in DOMAIN pstate \cup {k} |-> IF i = k THEN v ELSE pstate[i]]
\* keypath(k), NONE>
Drop(pstate, k) == [i \in DOMAIN pstate \ {k} |-> pstate[i]]
\* A select of a key that is not there gives nil->val's default.
AtOr(pstate, k, default) == IF k \in DOMAIN pstate THEN pstate[k] ELSE default

\* str-or-empty, bool-or, long-or-zero: a default for nil.
OrDefault(v, nil, default) == IF v = nil THEN default ELSE v

-----------------------------------------------------------------------------
(***************************************************************************)
(* The three ways a step can move a continuation keep the flight state     *)
(* well formed, for any labels and events.  Component proofs cite these    *)
(* lemmas instead of opening the definitions of Launch, Hop and Finish.    *)
(***************************************************************************)

\* The empty link is not a link between two tasks.
LEMMA NoLinkIsNoLink == NoLink \notin Links
  BY DEF NoLink, Links

\* Enqueuing on a real link keeps the queues well formed.
LEMMA EnqueueType ==
  ASSUME NEW s \in Slots, NEW link \in Links,
         via \in [Slots -> Links \cup {NoLink}], ahead \in [Slots -> SUBSET Slots],
         Enqueue(s, link)
  PROVE  /\ via' \in [Slots -> Links \cup {NoLink}]
         /\ ahead' \in [Slots -> SUBSET Slots]
         /\ via'[s] = link
         /\ \A o \in Slots \ {s} : via'[o] = via[o]
  BY DEF Enqueue

\* Starting an event keeps the flight state well formed.
LEMMA LaunchType ==
  ASSUME NEW L, NEW E, "idle" \notin L, FlightTypeOK(L, E),
         NEW s \in Slots, NEW e \in E, NEW key \in Keys, NEW dest \in Keys,
         NEW label \in L, NEW mem, Launch(s, e, key, dest, label, mem)
  PROVE  /\ FlightTypeOK(L, E)'
         /\ pc'[s] = label /\ event'[s] = e /\ locals'[s] = mem
<1> DEFINE link == <<TaskOf[key], TaskOf[dest]>>
<1>1. link \in Links
  BY TaskOfAssumption DEF Links
<1>2. /\ via' \in [Slots -> Links \cup {NoLink}]
      /\ ahead' \in [Slots -> SUBSET Slots]
      /\ via'[s] = link
      /\ \A o \in Slots \ {s} : via'[o] = via[o]
  BY <1>1, EnqueueType DEF Launch, FlightTypeOK
<1>3. /\ pc' \in [Slots -> L \cup {"idle"}] /\ event' \in [Slots -> E \cup {NoEvent}]
      /\ locals' = [o \in Slots |-> locals'[o]]
      /\ pc'[s] = label /\ event'[s] = e /\ locals'[s] = mem
  BY DEF Launch, FlightTypeOK
<1>4. \A o \in Slots : (pc'[o] = "idle") <=> via'[o] = NoLink
  BY <1>1, <1>2, NoLinkIsNoLink DEF Launch, FlightTypeOK, Idle
<1>5. QED
  BY <1>2, <1>3, <1>4 DEF FlightTypeOK, Idle

\* A hop keeps the flight state well formed.
LEMMA HopType ==
  ASSUME NEW L, NEW E, "idle" \notin L, FlightTypeOK(L, E),
         NEW s \in Slots, ~Idle(s), NEW dest \in Keys, NEW label \in L, NEW mem,
         Hop(s, dest, label, mem)
  PROVE  /\ FlightTypeOK(L, E)'
         /\ pc'[s] = label /\ event' = event /\ locals'[s] = mem
<1> DEFINE link == <<via[s][2], TaskOf[dest]>>
<1>1. via[s] \in Links
  BY DEF FlightTypeOK
<1>2. link \in Links
  BY <1>1, TaskOfAssumption DEF Links
<1>3. /\ via' \in [Slots -> Links \cup {NoLink}]
      /\ ahead' \in [Slots -> SUBSET Slots]
      /\ via'[s] = link
      /\ \A o \in Slots \ {s} : via'[o] = via[o]
  BY <1>2, EnqueueType DEF Hop, FlightTypeOK
<1>4. /\ pc' \in [Slots -> L \cup {"idle"}] /\ event' = event
      /\ locals' = [o \in Slots |-> locals'[o]]
      /\ pc'[s] = label /\ locals'[s] = mem
  BY DEF Hop, FlightTypeOK
<1>5. \A o \in Slots : (pc'[o] = "idle") <=> via'[o] = NoLink
  BY <1>2, <1>3, NoLinkIsNoLink DEF Hop, FlightTypeOK, Idle
<1>6. QED
  BY <1>3, <1>4, <1>5 DEF FlightTypeOK, Idle

\* Ending an event keeps the flight state well formed.
LEMMA FinishType ==
  ASSUME NEW L, NEW E, FlightTypeOK(L, E), NEW s \in Slots, Finish(s)
  PROVE  FlightTypeOK(L, E)'
  BY DEF Finish, FlightTypeOK, Idle

\* The flight state is well formed at the start.
LEMMA InitType ==
  ASSUME NEW L, NEW E, FlightInit
  PROVE  FlightTypeOK(L, E)
  BY DEF FlightInit, FlightTypeOK, Idle

---------------------------------------------------------------------------
(* Queues: a link delivers in order, so the last continuation on it has the *)
(* last word.                                                               *)

\* The flight state, as far as the queues need its type.
FlightsBySlot ==
  /\ pc = [s \in Slots |-> pc[s]] /\ event = [s \in Slots |-> event[s]]
  /\ locals = [s \in Slots |-> locals[s]]
  /\ via = [s \in Slots |-> via[s]] /\ ahead = [s \in Slots |-> ahead[s]]

\* What the other slots notice of a step of s.
Aside(s) ==
  \A o \in Slots \ {s} :
    /\ pc'[o] = pc[o] /\ event'[o] = event[o] /\ locals'[o] = locals[o]
    /\ via'[o] = via[o] /\ ahead'[o] = ahead[o] \ {s}

\* s goes to the end of a link.
Joins(s, link) == via'[s] = link /\ ahead'[s] = {q \in Slots \ {s} : via[q] = link}

\* Of any two slots of a set one is before the other; and a slot that has all
\* of the set before it.
Ordered(W) == \A s, r \in W : s # r => s \in ahead[r] \/ r \in ahead[s]
IsLast(s, W) == \A r \in W : r = s \/ r \in ahead[s]

LEMMA LaunchQueues ==
  ASSUME FlightsBySlot, NEW s \in Slots, NEW e, NEW key, NEW dest, NEW label, NEW mem,
         Launch(s, e, key, dest, label, mem)
  PROVE  /\ FlightsBySlot' /\ Aside(s) /\ Joins(s, <<TaskOf[key], TaskOf[dest]>>)
         /\ pc[s] = "idle" /\ pc'[s] = label /\ event'[s] = e /\ locals'[s] = mem
  BY DEF FlightsBySlot, Launch, Enqueue, Aside, Joins, Idle

LEMMA HopQueues ==
  ASSUME FlightsBySlot, NEW s \in Slots, NEW dest, NEW label, NEW mem, Hop(s, dest, label, mem),
         NEW k, k = via[s][2]
  PROVE  /\ FlightsBySlot' /\ Aside(s) /\ Joins(s, <<k, TaskOf[dest]>>)
         /\ pc'[s] = label /\ event'[s] = event[s] /\ locals'[s] = mem
  BY DEF FlightsBySlot, Hop, Enqueue, Aside, Joins

LEMMA FinishQueues ==
  ASSUME FlightsBySlot, NEW s \in Slots, Finish(s)
  PROVE  FlightsBySlot' /\ Aside(s) /\ pc'[s] = "idle" /\ event'[s] = NoEvent
  BY DEF FlightsBySlot, Finish, Aside

\* A slot that joins is the last; one that leaves from the front, or is not of
\* the set, changes nothing for the last.
LEMMA QueueJoin ==
  ASSUME NEW W \in SUBSET Slots, NEW s \in Slots \ W, NEW link, Aside(s), Joins(s, link),
         \A w \in W : via[w] = link, Ordered(W)
  PROVE  Ordered(W \cup {s})' /\ \A w \in W : ~IsLast(w, W \cup {s})'
<1>1. \A w \in W : w \in Slots \ {s} /\ ahead'[w] = ahead[w] \ {s} /\ w \in ahead'[s]
  BY DEF Aside, Joins
<1>2. QED
  BY <1>1 DEF Ordered, IsLast

LEMMA QueueLeave ==
  ASSUME NEW W \in SUBSET Slots, NEW s \in W, Aside(s), ahead[s] = {}, Ordered(W)
  PROVE  Ordered(W \ {s})' /\ \A w \in W \ {s} : IsLast(w, W \ {s})' => IsLast(w, W)
<1>1. \A w \in W \ {s} : ahead'[w] = ahead[w] \ {s} /\ s \in ahead[w]
  BY DEF Aside, Ordered
<1>2. QED
  BY <1>1 DEF Ordered, IsLast

LEMMA QueueKept ==
  ASSUME NEW W \in SUBSET Slots, NEW s \in Slots \ W, Aside(s), Ordered(W)
  PROVE  Ordered(W)' /\ \A w \in W : IsLast(w, W)' => IsLast(w, W)
<1>1. \A w \in W : ahead'[w] = ahead[w] \ {s}
  BY DEF Aside
<1>2. QED
  BY <1>1 DEF Ordered, IsLast
=============================================================================
