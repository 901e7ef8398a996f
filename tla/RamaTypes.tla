----------------------------- MODULE RamaTypes -----------------------------
(***************************************************************************)
(* The value types of src/types.rs and the relations on them: assignable,  *)
(* join, the match of a signature against arguments, and the resolution of *)
(* a call among overloads.                                                 *)
(*                                                                         *)
(* A type is [k, s, xs, ms]: its kind, its class, variable or capability,  *)
(* its arguments (of a function the parameters, then the return), and the  *)
(* members of a union, a set where the code keeps a sorted vector of ids.  *)
(* A class goes by its alias.  An annotation is a type whose unions keep   *)
(* their members, in order, in xs, and whose variables are still classes.  *)
(***************************************************************************)
EXTENDS RamaAst

Type(k, s, xs) == [k |-> k, s |-> s, xs |-> xs, ms |-> {}]
Jvm(class, args) == Type("jvm", class, args)
Class(class)     == Jvm(class, <<>>)
TypeVar(name)    == Type("var", name, <<>>)
Fn(params, ret)  == Type("fn", "", Append(params, ret))
Capability(name, args) == Type("cap", name, args)
Either(types)    == Type("union", "", types)
Nil     == Type("nil", "", <<>>)
Unknown == Type("unknown", "", <<>>)
Dynamic == Type("dynamic", "", <<>>)
AnyType == Type("any", "", <<>>)
Never   == Type("never", "", <<>>)

\* union: flattened, without Never; one member is that member.
TypeUnion(types) ==
  LET flat == UNION {CASE t.k = "never" -> {} [] t.k = "union" -> t.ms [] OTHER -> {t} : t \in types}
  IN IF flat = {} THEN Never
     ELSE IF \E t \in flat : flat = {t} THEN CHOOSE t \in flat : TRUE
     ELSE [Type("union", "", <<>>) EXCEPT !.ms = flat]

Params(fn) == Front(fn.xs)
Ret(fn)    == Last(fn.xs)

-----------------------------------------------------------------------------
(* Annotations (resolve_type).                                             *)

Arity == [List |-> 1, Set |-> 1, Collection |-> 1, Iterable |-> 1, ISeq |-> 1, Map |-> 2]
Capabilities == [Seqable |-> 1, Reducible |-> 1, Countable |-> 0, Transducer |-> 2]
Classes == DOMAIN Arity \cup {"String", "Long", "Integer", "Number", "Boolean", "Object",
                              "Character", "LazySeq", "IReduce", "IReduceInit", "Counted", "Map.Entry"}

RECURSIVE Resolve(_, _), IllFormed(_, _)
Resolve(t, quantified) ==
  LET args == [i \in DOMAIN t.xs |-> Resolve(t.xs[i], quantified)]
  IN IF t.k = "jvm" /\ t.s \in quantified THEN TypeVar(t.s)
     ELSE IF t.k = "union" THEN TypeUnion(ToSet(args))
     ELSE [t EXCEPT !.xs = args]

\* Resolving it reports an error.
IllFormed(t, quantified) ==
  \/ t.k = "jvm" /\ t.s \in quantified /\ t.xs # <<>>
  \/ t.k = "jvm" /\ t.s \notin quantified
     /\ (t.s \notin Classes \/ (t.s \in DOMAIN Arity /\ Len(t.xs) # Arity[t.s]))
  \/ t.k = "cap" /\ (t.s \notin DOMAIN Capabilities \/ Len(t.xs) # Capabilities[t.s])
  \/ \E i \in DOMAIN t.xs : IllFormed(t.xs[i], quantified)

-----------------------------------------------------------------------------
(* Assignability, by the class hierarchy known without a live oracle.      *)

ClassAssignable(actual, expected) ==
  \/ actual = expected \/ expected = "Object"
  \/ expected = "Number" /\ actual \in {"Long", "Integer"}
  \/ expected = "Collection" /\ actual \in {"List", "Set"}
  \/ expected = "Iterable" /\ actual \in {"List", "Set", "Collection", "ISeq"}

\* The arguments of a generic class are invariant.
Invariant(a, e, Sub(_, _)) == Sub(a, e) /\ Sub(e, a)

Counts(class) == class = "String" \/ \E c \in {"Collection", "Map", "Counted"} : ClassAssignable(class, c)
Streams == {"ISeq", "LazySeq", "IReduce", "IReduceInit"}

RECURSIVE Assignable(_, _), CapabilityAssignable(_, _)
AllAssignable(as, es) == Len(as) = Len(es) /\ \A i \in DOMAIN as : Assignable(as[i], es[i])
Assignable(actual, expected) ==
  IF actual = expected \/ expected.k \in {"any", "dynamic", "unknown"} \/ actual.k \in {"dynamic", "never"} THEN TRUE
  ELSE IF actual.k = "union" THEN \A t \in actual.ms : Assignable(t, expected)
  ELSE IF expected.k = "union" THEN \E t \in expected.ms : Assignable(actual, t)
  ELSE IF expected.k = "cap" THEN CapabilityAssignable(actual, expected)
  ELSE IF actual.k = "jvm" /\ expected.k = "jvm"
  THEN /\ ClassAssignable(actual.s, expected.s) /\ Len(actual.xs) = Len(expected.xs)
       /\ \A i \in DOMAIN actual.xs : Invariant(actual.xs[i], expected.xs[i], Assignable)
  ELSE /\ actual.k = "fn" /\ expected.k = "fn"
       /\ AllAssignable(Params(expected), Params(actual)) /\ Assignable(Ret(actual), Ret(expected))

CapabilityAssignable(actual, cap) ==
  CASE actual.k = "nil" -> cap.s \in {"Seqable", "Reducible", "Countable"}
    [] actual.k = "cap" -> actual.s = cap.s /\ AllAssignable(actual.xs, cap.xs)
    [] actual.k = "jvm" /\ cap.s = "Countable" -> Counts(actual.s)
    [] actual.k = "jvm" /\ cap.s \in {"Seqable", "Reducible"} /\ Len(cap.xs) = 1 ->
         IF actual.s = "String" THEN cap.xs[1].k = "jvm" /\ cap.xs[1].s \in {"Character", "Object"}
         ELSE IF actual.s = "Map" /\ Len(actual.xs) = 2
         THEN \/ cap.xs[1].k \in {"any", "dynamic", "unknown"}
              \/ cap.xs[1].k = "jvm" /\ cap.xs[1].s = "Map.Entry" /\ AllAssignable(actual.xs, cap.xs[1].xs)
         ELSE /\ Len(actual.xs) = 1 /\ (ClassAssignable(actual.s, "Iterable") \/ actual.s \in Streams)
              /\ Assignable(actual.xs[1], cap.xs[1])
    [] OTHER -> FALSE

Join(l, r) == IF Assignable(l, r) THEN r ELSE IF Assignable(r, l) THEN l ELSE TypeUnion({l, r})

-----------------------------------------------------------------------------
(* match_type: whether an argument fits a parameter, with the bindings of  *)
(* the type variables and the score so far.  A member of a union that does *)
(* not fit leaves the bindings and the score it made behind.               *)

Unmatched == [ok |-> TRUE, env |-> <<>>, score |-> 0]
Binding(m, name) == {b \in ToSet(m.env) : b[1] = name}
Fails(m) == [m EXCEPT !.ok = FALSE]
When(cond, m) == IF cond THEN m ELSE Fails(m)
Scored(m, n) == [m EXCEPT !.score = @ + n]

RECURSIVE Match(_, _, _), MatchAll(_, _, _), MatchSome(_, _, _), MatchEach(_, _, _), MatchCapability(_, _, _)
MatchAll(es, as, m) ==
  IF es = <<>> \/ ~m.ok THEN m ELSE MatchAll(Tail(es), Tail(as), Match(Head(es), Head(as), m))
Retry(failed, es, a) == IF failed.ok THEN failed ELSE MatchSome(es, a, [failed EXCEPT !.ok = TRUE])
MatchSome(es, a, m) == IF es = <<>> THEN Fails(m) ELSE Retry(Match(Head(es), a, m), Tail(es), a)
MatchEach(es, as, m) ==
  IF as = <<>> \/ ~m.ok THEN m ELSE MatchEach(es, Tail(as), MatchSome(es, Head(as), m))

Match(expected, actual, m) ==
  CASE expected.k = "var" ->
         IF Binding(m, expected.s) = {} THEN Scored([m EXCEPT !.env = Append(@, <<expected.s, actual>>)], 2)
         ELSE When(\A b \in Binding(m, expected.s) : Invariant(actual, b[2], Assignable), m)
    [] expected.k = "any" -> m
    [] expected.k \in {"dynamic", "unknown"} -> Scored(m, 1)
    [] expected.k = "union" ->
         MatchEach(SetToSeq(expected.ms), IF actual.k = "union" THEN SetToSeq(actual.ms) ELSE <<actual>>, m)
    [] expected.k = "cap" -> MatchCapability(expected, actual, m)
    [] expected.k \in {"fn", "jvm"} /\ actual.k = "dynamic" -> m
    [] expected.k = "fn" ->
         IF actual.k = "fn" /\ Len(actual.xs) = Len(expected.xs)
         THEN MatchAll(expected.xs, actual.xs, Scored(m, 4)) ELSE Fails(m)
    [] expected.k = "jvm" ->
         IF actual.k = "jvm" /\ ClassAssignable(actual.s, expected.s) /\ Len(actual.xs) = Len(expected.xs)
         THEN MatchAll(expected.xs, actual.xs, Scored(m, IF actual.s = expected.s THEN 5 ELSE 3)) ELSE Fails(m)
    [] OTHER -> When(Assignable(actual, expected), m)

\* What a class yields, one element at a time.
Element(t) ==
  CASE t.s = "String" -> <<Class("Character")>>
    [] t.s = "Map" /\ Len(t.xs) = 2 -> <<Jvm("Map.Entry", t.xs)>>
    [] t.s \in {"List", "Set", "Collection", "Iterable"} \cup Streams /\ Len(t.xs) = 1 -> t.xs
    [] OTHER -> <<>>
RECURSIVE MatchMembers(_, _, _)
MatchMembers(cap, as, m) ==
  IF as = <<>> \/ ~m.ok THEN m ELSE MatchMembers(cap, Tail(as), MatchCapability(cap, Head(as), m))
MatchCapability(cap, actual, m) ==
  CASE actual.k = "dynamic" -> m
    [] actual.k = "nil" -> When(cap.s \in {"Seqable", "Reducible", "Countable"}, m)
    [] actual.k = "union" -> MatchMembers(cap, SetToSeq(actual.ms), m)
    [] actual.k = "cap" -> IF actual.s = cap.s /\ Len(actual.xs) = Len(cap.xs) THEN MatchAll(cap.xs, actual.xs, m) ELSE Fails(m)
    [] actual.k = "jvm" /\ cap.s = "Countable" -> When(Counts(actual.s), m)
    [] actual.k = "jvm" /\ cap.s \in {"Seqable", "Reducible"} /\ Len(cap.xs) = 1 ->
         IF Element(actual) = <<>> THEN Fails(m) ELSE MatchAll(cap.xs, Element(actual), Scored(m, 2))
    [] OTHER -> Fails(m)

RECURSIVE Substitute(_, _)
Substitute(t, m) ==
  CASE t.k = "var" -> IF Binding(m, t.s) = {} THEN Unknown ELSE (CHOOSE b \in Binding(m, t.s) : TRUE)[2]
    [] t.k = "union" -> TypeUnion({Substitute(u, m) : u \in t.ms})
    [] OTHER -> [t EXCEPT !.xs = [i \in DOMAIN @ |-> Substitute(@[i], m)]]

-----------------------------------------------------------------------------
(* Signatures [name, quantified, params, ret], and the call among those of *)
(* a name: of all that apply the highest score, and an error when several  *)
(* have it, unless an argument is Dynamic.                                 *)

Signature(name, quantified, params, ret) ==
  [name |-> name, quantified |-> quantified,
   params |-> [i \in DOMAIN params |-> Resolve(params[i], quantified)], ret |-> Resolve(ret, quantified)]

Named(sigs, name) == SelectSeq(sigs, LAMBDA sig : sig.name = name)
Typed(t, bad) == [t |-> t, bad |-> bad]

BestScore(scores) == CHOOSE n \in scores : \A o \in scores : o <= n

Chosen(tries, args) ==
  LET fits == SelectSeq(tries, LAMBDA a : a.m.ok)
      best == SelectSeq(fits, LAMBDA a : a.m.score = BestScore({f.m.score : f \in ToSet(fits)}))
      results == {a.t : a \in ToSet(best)}
  IN IF fits = <<>> THEN Typed(Unknown, TRUE)
     ELSE IF \E sig \in {a.sig : a \in ToSet(best)} : {a.sig : a \in ToSet(best)} = {sig} THEN Typed(best[1].t, FALSE)
     ELSE Typed(TypeUnion(results), Dynamic \notin ToSet(args))
Tried(sig, m) == [sig |-> sig, m |-> m, t |-> Substitute(sig.ret, m)]
ResolveCall(sigs, name, args) ==
  LET candidates == SelectSeq(Named(sigs, name), LAMBDA sig : Len(sig.params) = Len(args))
  IN Chosen([i \in DOMAIN candidates |-> Tried(candidates[i], MatchAll(candidates[i].params, args, Unmatched))], args)

\* A function used as a value needs one signature.
FunctionValue(sigs, name) ==
  LET types == {Fn(sig.params, sig.ret) : sig \in ToSet(Named(sigs, name))}
  IN IF \E t \in types : types = {t} THEN Typed(CHOOSE t \in types : TRUE, FALSE) ELSE Typed(Unknown, TRUE)

\* A call through a local.
ResolveCallable(callable, args) ==
  CASE callable.k = "fn" /\ Len(args) = Len(Params(callable)) ->
         Typed(Ret(callable), ~AllAssignable(args, Params(callable)))
    [] callable.k = "dynamic" -> Typed(Dynamic, FALSE)
    [] OTHER -> Typed(Unknown, TRUE)
=============================================================================
