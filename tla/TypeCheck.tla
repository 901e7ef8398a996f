----------------------------- MODULE TypeCheck -----------------------------
(***************************************************************************)
(* The checker of src/types.rs: the types of expressions, the bodies of    *)
(* typed functions, and the paths of ops, folded through the declared      *)
(* schemas.  Diagnostics are one bit, `bad`.                               *)
(*                                                                         *)
(* A function is [name, params, ret, body], with parameters                *)
(* <<name, annotations>> and at most one annotation each; an op            *)
(* [param, struct, body], struct "" when the parameter has no type.  A     *)
(* schema is [k, s, xs], k "map", "object" or "named".  A context c is     *)
(* [sigs, structs, pstates, op], structs and PStates by their names, a     *)
(* struct as its <<field, schema>> pairs.  While a block is checked,       *)
(* st is [locals, bad, returns].                                           *)
(***************************************************************************)
EXTENDS RamaTypes

IntLit(s)  == Expr("int", s, <<>>)
BoolLit(s) == Expr("bool", s, <<>>)

Boolean == Class("Boolean")
Seqable(t)  == Capability("Seqable", <<t>>)
Iterable(t) == Jvm("Iterable", <<t>>)
ListOf(t)   == Jvm("List", <<t>>)

\* install_prelude, of which these are some.
Prelude ==
  LET T == Class("T") U == Class("U") Long == Class("Long") Number == Class("Number")
  IN <<Signature("identity", {"T"}, <<T>>, T),
       Signature("nil?", {}, <<AnyType>>, Boolean),
       Signature("not", {}, <<AnyType>>, Boolean),
       Signature("inc", {}, <<Long>>, Long),
       Signature("even?", {}, <<Long>>, Boolean),
       Signature("long", {}, <<AnyType>>, Long),
       Signature("str", {}, <<AnyType>>, Class("String")),
       Signature("vec", {"T"}, <<Iterable(T)>>, ListOf(T)),
       Signature("vec", {}, <<Nil>>, ListOf(Never)),
       Signature("count", {"T"}, <<Jvm("Collection", <<T>>)>>, Long),
       Signature("count", {}, <<Class("String")>>, Long),
       Signature("count", {}, <<Nil>>, Long),
       Signature("get", {"T", "U"}, <<Jvm("Map", <<T, U>>), AnyType>>, Either(<<U, Nil>>)),
       Signature("first", {"T"}, <<Iterable(T)>>, Either(<<T, Nil>>)),
       Signature("first", {}, <<Nil>>, Nil),
       Signature("nth", {"T"}, <<ListOf(T), Long>>, T),
       Signature("conj", {"T", "U"}, <<ListOf(T), U>>, ListOf(Either(<<T, U>>))),
       Signature("first", {"T"}, <<Seqable(T)>>, Either(<<T, Nil>>)),
       Signature("count", {}, <<Capability("Countable", <<>>)>>, Long),
       Signature(">", {}, <<Number, Number>>, Boolean),
       Signature("=", {}, <<AnyType, AnyType>>, Boolean),
       Signature("or", {}, <<AnyType, AnyType>>, Boolean)>>

JoinAll(ts) == FoldLeft(Join, Never, ts)

\* infer_expr, with what its operands were inferred to be.
Inferred(e, xs, locals, c) ==
  LET ts == [i \in DOMAIN xs |-> xs[i].t]
      own ==
        CASE e.k \in {"str", "key"} -> Typed(Class("String"), FALSE)
          [] e.k = "int"     -> Typed(Class("Long"), FALSE)
          [] e.k = "bool"    -> Typed(Boolean, FALSE)
          [] e.k = "id"      -> IF e.s = "nil" THEN Typed(Nil, FALSE)
                                ELSE IF e.s \in DOMAIN locals THEN Typed(locals[e.s], FALSE)
                                ELSE FunctionValue(c.sigs, e.s)
          [] e.k = "list"    -> Typed(ListOf(JoinAll(ts)), FALSE)
          [] e.k = "map"     -> Typed(Jvm("Map", <<JoinAll([i \in 1..(Len(ts) \div 2) |-> ts[2 * i - 1]]),
                                                   JoinAll([i \in 1..(Len(ts) \div 2) |-> ts[2 * i]])>>), FALSE)
          [] e.k = "binary"  -> Typed(Boolean, FALSE)
          [] e.k = "ternary" -> Typed(Join(ts[2], ts[3]), FALSE)
          [] e.k = "as"      -> Typed(Resolve(e.s, {}), IllFormed(e.s, {}))
          [] e.k = "call"    -> IF e.s \in DOMAIN locals THEN ResolveCallable(locals[e.s], ts)
                                ELSE ResolveCall(c.sigs, e.s, ts)
  IN [own EXCEPT !.bad = @ \/ \E i \in DOMAIN xs : xs[i].bad]
RECURSIVE Infer(_, _, _)
Infer(e, locals, c) == Inferred(e, [i \in DOMAIN e.xs |-> Infer(e.xs[i], locals, c)], locals, c)

Bound(locals, names, t) == [n \in DOMAIN locals \cup names |-> IF n \in names THEN t ELSE locals[n]]
Blame(st, bad) == [st EXCEPT !.bad = @ \/ bad]
Locals(st, locals) == [st EXCEPT !.locals = locals]
\* A let: one name has the type of the expression, several have the type `several`.
BindTyped(st, e, names, several) ==
  Locals(Blame(st, e.bad), Bound(st.locals, ToSet(names), IF Len(names) = 1 THEN e.t ELSE several))

-----------------------------------------------------------------------------
(* Typed functions (collect_functions, check_function, check_block).       *)

RECURSIVE ContainsCast(_)
ContainsCast(e) == e.k = "as" \/ ExistsIn(ContainsCast, e.xs)
IsTyped(fn) ==
  \/ fn.ret # <<>> \/ \E i \in DOMAIN fn.params : fn.params[i][2] # <<>>
  \/ \E t \in Block(fn.body) : ExistsIn(ContainsCast, t.e)

AnnotatedOr(annotations, t) == IF annotations = <<>> THEN t ELSE Resolve(annotations[1], {})
FnSignature(fn) ==
  [name |-> fn.name, quantified |-> {},
   params |-> [i \in DOMAIN fn.params |-> AnnotatedOr(fn.params[i][2], Unknown)],
   ret |-> AnnotatedOr(fn.ret, Unknown)]

RECURSIVE CheckBlock(_, _, _, _)
CheckReturn(st, e, expected) ==
  Blame([st EXCEPT !.returns = Append(@, e.t)], e.bad \/ (expected # <<>> /\ ~Assignable(e.t, expected[1])))
CheckStmt(t, e, st, expected, c) ==
  CASE t.k = "let"    -> BindTyped(st, e, t.n, Unknown)
    [] t.k = "return" -> CheckReturn(st, e, expected)
    [] t.k = "effect" -> Blame(st, e.bad)
    [] t.k = "if"     ->
         LET then == CheckBlock(t.then, Blame(st, e.bad), expected, c)
         IN Locals(CheckBlock(t.else, Locals(then, st.locals), expected, c), st.locals)
CheckBlock(stmts, st, expected, c) ==
  FoldLeft(LAMBDA s, t : CheckStmt(t, Infer(t.e[1], s.locals, c), s, expected, c), st, stmts)

ParamTypes(fn) == FnSignature(fn).params
CheckFunction(fn, c) ==
  LET names == [i \in DOMAIN fn.params |-> fn.params[i][1]]
      locals == [n \in ToSet(names) |-> ParamTypes(fn)[CHOOSE i \in DOMAIN names : names[i] = n]]
      ill == \/ \E i \in DOMAIN fn.params : fn.params[i][2] = <<>> \/ IllFormed(fn.params[i][2][1], {})
             \/ fn.ret # <<>> /\ IllFormed(fn.ret[1], {})
      expected == IF fn.ret = <<>> THEN <<>> ELSE <<Resolve(fn.ret[1], {})>>
  IN CheckBlock(fn.body, [locals |-> locals, bad |-> ill, returns |-> <<>>], expected, c)
ReturnType(fn, checked) ==
  IF fn.ret # <<>> THEN Resolve(fn.ret[1], {})
  ELSE IF checked.returns = <<>> THEN Nil
  ELSE FoldLeft(Join, checked.returns[1], Tail(checked.returns))

-----------------------------------------------------------------------------
(* Schemas and paths.  The focus of a path is the schema it points at.     *)

Schema(k, s, xs) == [k |-> k, s |-> s, xs |-> xs]
NamedSchema(name) == Schema("named", name, <<>>)
MapSchema(key, value) == Schema("map", "", <<key, value>>)
ObjectSchema == Schema("object", "", <<>>)

IsStruct(focus, c) == focus.k = "named" /\ focus.s \in DOMAIN c.structs
IsLeaf(focus, c)   == focus.k = "named" /\ focus.s \notin DOMAIN c.structs
Fields(struct, name, c) == {f \in ToSet(c.structs[struct]) : f[1] = name}
FieldSchema(struct, name, c) == (CHOOSE f \in Fields(struct, name, c) : TRUE)[2]

SchemaValueType(schema) ==
  CASE schema.k = "named" /\ schema.s \in {"String", "Boolean"} -> Class(schema.s)
    [] schema.k = "named" /\ schema.s \in {"Long", "Int", "Integer"} -> Class("Long")
    [] OTHER -> Dynamic

Suits(e, schema) == ~e.bad /\ Assignable(e.t, SchemaValueType(schema))

At(focus, bad) == [focus |-> focus, bad |-> bad]
Onward(at, next) == [next EXCEPT !.bad = @ \/ at.bad]
DescendKey(focus, key, locals, c) ==
  CASE focus.k = "map" ->
         At(focus.xs[2], key.k # "key" /\ ~Suits(Infer(key, locals, c), focus.xs[1]))
    [] IsStruct(focus, c) ->
         IF key.k \in {"key", "str"} /\ Fields(focus.s, key.s, c) # {}
         THEN At(FieldSchema(focus.s, key.s, c), FALSE) ELSE At(ObjectSchema, TRUE)
    [] focus.k = "object" -> At(ObjectSchema, FALSE)
    [] OTHER -> At(ObjectSchema, TRUE)

\* check_termval: nil clears a leaf; a struct is written by a literal, field by field.
TermvalDiagnosed(focus, value, locals, c) ==
  LET Fits(e, schema) == Suits(Infer(e, locals, c), schema)
  IN IF IsLeaf(focus, c) THEN value # Id("nil") /\ ~Fits(value, focus)
     ELSE IF IsStruct(focus, c) /\ value.k = "map"
     THEN \E i \in {2 * j : j \in 1..(Len(value.xs) \div 2)} :
            /\ value.xs[i - 1].k = "key"
            /\ \/ Fields(focus.s, value.xs[i - 1].s, c) = {}
               \/ ~Fits(value.xs[i], FieldSchema(focus.s, value.xs[i - 1].s, c))
     ELSE Infer(value, locals, c).bad

\* term: a function of one parameter maps the leaf to itself.
TermDiagnosed(focus, f, c) ==
  LET v == FunctionValue(c.sigs, f.s)
      leaf == SchemaValueType(focus)
  IN /\ IsLeaf(focus, c) /\ f.k = "id" /\ f.s # "identity"
     /\ \/ v.bad
        \/ /\ v.t.k = "fn" /\ Len(Params(v.t)) = 1
           /\ ~(Assignable(leaf, Params(v.t)[1]) /\ Assignable(Ret(v.t), leaf))

RECURSIVE FoldSegment(_, _, _, _, _)
Descend(at, keys, locals, c) ==
  FoldLeft(LAMBDA a, key : Onward(a, DescendKey(a.focus, key, locals, c)), at, keys)
FoldFrom(at, path, locals, mode, c) ==
  FoldLeft(LAMBDA a, s : Onward(a, FoldSegment(a.focus, s, locals, mode, c)), at, path)
FoldSegment(focus, seg, locals, mode, c) ==
  CASE seg.k = "call" /\ seg.s = "keypath" -> Descend(At(focus, FALSE), seg.xs, locals, c)
    [] seg.k = "key" -> DescendKey(focus, seg, locals, c)
    [] seg.k = "call" /\ seg.s = "nil->val" ->
         At(focus, IsLeaf(focus, c) /\ ~Suits(Infer(seg.xs[1], locals, c), focus))
    [] seg.k = "call" /\ seg.s = "termval" ->
         At(focus, mode = "transform" /\ TermvalDiagnosed(focus, seg.xs[1], locals, c))
    [] seg.k = "call" /\ seg.s = "term" -> At(focus, mode = "transform" /\ TermDiagnosed(focus, seg.xs[1], c))
    [] seg.k = "call" /\ seg.s = "multi-path" ->
         At(focus, \E i \in DOMAIN seg.xs : FoldFrom(At(focus, FALSE), seg.xs[i].xs, locals, mode, c).bad)
    [] seg.k = "id" /\ seg.s \in {"NONE>", "AFTER-ELEM"} -> At(focus, FALSE)
    [] OTHER -> At(ObjectSchema, FALSE)
FoldPath(pstate, path, locals, mode, c) ==
  IF pstate \in DOMAIN c.pstates THEN FoldFrom(At(c.pstates[pstate], FALSE), path, locals, mode, c)
  ELSE At(ObjectSchema, FALSE)

-----------------------------------------------------------------------------
(* Ops with a typed event (check_op_block).                                *)

\* The names taken from a struct: the types of the fields, Unknown for what is none.
FromStruct(st, struct, names, c) ==
  Blame(Locals(st, [n \in DOMAIN st.locals \cup names |->
          IF n \notin names THEN st.locals[n]
          ELSE IF Fields(struct, n, c) = {} THEN Unknown ELSE SchemaValueType(FieldSchema(struct, n, c))]),
        \E n \in names : Fields(struct, n, c) = {})

BindFocus(st, at, names, c) ==
  IF Len(names) > 1 /\ IsStruct(at.focus, c) THEN FromStruct(Blame(st, at.bad), at.focus.s, ToSet(names), c)
  ELSE Locals(Blame(st, at.bad),
              Bound(st.locals, ToSet(names), IF Len(names) = 1 /\ IsLeaf(at.focus, c) THEN SchemaValueType(at.focus) ELSE Dynamic))

RECURSIVE CheckOpBlock(_, _, _)
CheckOpStmt(t, st, c) ==
  CASE t.k = "let" /\ Len(t.n) > 1 /\ t.e[1] = Id(c.op.param) -> FromStruct(st, c.op.struct, ToSet(t.n), c)
    [] t.k = "let" /\ ~(Len(t.n) > 1 /\ t.e[1] = Id(c.op.param)) ->
         BindTyped(st, Infer(t.e[1], st.locals, c), t.n, Dynamic)
    [] t.k = "select"    -> BindFocus(st, FoldPath(t.n[1], t.e, st.locals, "select", c), Tail(t.n), c)
    [] t.k = "transform" -> Blame(st, FoldPath(t.n[1], t.e, st.locals, "transform", c).bad)
    [] t.k \in {"fail", "return", "hash", "effect"} ->
         Blame(st, \E i \in DOMAIN t.e : Infer(t.e[i], st.locals, c).bad)
    [] t.k = "if" ->
         LET then == CheckOpBlock(t.then, Blame(st, Infer(t.e[1], st.locals, c).bad), c)
         IN Locals(CheckOpBlock(t.else, Locals(then, st.locals), c), st.locals)
CheckOpBlock(stmts, st, c) == FoldLeft(LAMBDA s, t : CheckOpStmt(t, s, c), st, stmts)

CheckOp(c) ==
  IF c.op.struct = "" THEN [locals |-> <<>>, bad |-> FALSE, returns |-> <<>>]
  ELSE CheckOpBlock(c.op.body, [locals |-> [n \in {c.op.param} |-> Dynamic], bad |-> FALSE, returns |-> <<>>], c)
=============================================================================
