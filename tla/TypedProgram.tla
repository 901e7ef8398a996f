--------------------------- MODULE TypedProgram ----------------------------
(***************************************************************************)
(* A program of a typed function, externs and an op with a typed event:    *)
(* checked as a whole (check.rs), emitted, and then called by Clojure with *)
(* any values and fed with events, next to what the source of the function *)
(* says.  A program is [fn, externs, structs, pstates, op].  The PStates   *)
(* are a set of cells [p, path, v], a path being its keys.                 *)
(***************************************************************************)
EXTENDS FnLowering

CONSTANTS
  Families,     \* the programs, in families
  Arguments(_), \* the arguments a program's function is called with
  Answers,      \* what the code behind an extern may return
  Events,       \* events: field -> value
  MaxEvents     \* bound on the events handled

VARIABLES
  program,
  stage,        \* "source", "rejected" or "emitted"
  called,       \* the last call of the function: what came of it, and was meant to
  store,        \* the cells of the PStates
  handled

vars == <<program, stage, called, store, handled>>

ExternSigs(p) == [i \in DOMAIN p.externs |-> p.externs[i]]
Context(p) ==
  [sigs |-> Prelude \o ExternSigs(p) \o (IF IsTyped(p.fn) THEN <<FnSignature(p.fn)>> ELSE <<>>),
   structs |-> p.structs, pstates |-> p.pstates, op |-> p.op]

\* check_program_ir: the program has a type error.
Rejected(p) ==
  (IsTyped(p.fn) /\ CheckFunction(p.fn, Context(p)).bad) \/ CheckOp(Context(p)).bad
EmittedFn(p) ==
  DefnBody(p.fn, ReturnType(p.fn, CheckFunction(p.fn, Context(p))), {e.name : e \in ToSet(p.externs)})

-----------------------------------------------------------------------------
(* Evaluation (external: Clojure).  w is [fn, params, externs, answer]:    *)
(* the emitted function, its parameters, the externs, and what the target  *)
(* of an extern returns.                                                   *)

Bind(env, names, vs) ==
  [n \in DOMAIN env \cup ToSet(names) |->
     IF n \in ToSet(names) THEN vs[CHOOSE i \in DOMAIN names : names[i] = n] ELSE env[n]]
Lookup(v, key) == LET es == {e \in ToSet(EntriesOf(v)) : e[1] = key}
                  IN IF v.c # "Map" \/ es = {} THEN NilValue ELSE (CHOOSE e \in es : TRUE)[2]

\* A function of the prelude; "error" is a value it is not made for.
Stuck == Thrown("error")
Seqs == {"nil", "List", "Map"}
Items(v) == IF v.c = "Map" THEN [i \in DOMAIN EntriesOf(v) |-> Vec(EntriesOf(v)[i])] ELSE v.xs
Numbers == {"Long", "Integer"}
Prim(f, args) ==
  LET v == args[1]
  IN CASE f = "identity" -> v
       [] f = "nil?"  -> Truth(v.c = "nil")
       [] f = "not"   -> Truth(~Truthy(v))
       [] f = "inc"   -> IF v.c \in Numbers THEN Val("Long", "2") ELSE Stuck
       [] f = "even?" -> IF v.c \in Numbers THEN Truth(v.d = "2") ELSE Stuck
       [] f = "long"  -> IF v.c \in Numbers THEN Val("Long", v.d) ELSE Thrown("conversion")
       [] f = "str"   -> Val("String", "s")
       [] f = "vec"   -> IF v.c \in Seqs THEN Vec(Items(v)) ELSE Stuck
       [] f = "count" -> IF v.c \in Seqs \cup {"String"} THEN Val("Integer", "2") ELSE Stuck
       [] f = "get"   -> Lookup(v, args[2])
       [] f = "first" -> IF v.c = "String" THEN Val("Character", "a")
                         ELSE IF v.c \notin Seqs THEN Stuck
                         ELSE IF v.xs = <<>> THEN NilValue ELSE Items(v)[1]
       [] f = "nth"   -> IF v.c # "List" THEN Stuck ELSE IF v.xs = <<>> THEN Thrown("range") ELSE v.xs[1]
       [] f = "lookup" -> Thrown("range")
       [] f = "conj"  -> IF v.c = "List" THEN Vec(Append(v.xs, args[2])) ELSE Stuck
       [] f = ">"     -> IF v.c \in Numbers /\ args[2].c \in Numbers THEN Truth(v.d = "2" /\ args[2].d # "2") ELSE Stuck
       [] f = "="     -> Truth(v = args[2])
       [] f = "not="  -> Truth(v # args[2])
       [] OTHER       -> Stuck

ThrownIn(vs) == {i \in DOMAIN vs : vs[i].c = "thrown"}
FirstThrown(vs) == vs[CHOOSE i \in ThrownIn(vs) : \A j \in ThrownIn(vs) : i <= j]

RECURSIVE Eval(_, _, _), CondValue(_, _, _), Apply(_, _, _), CallValue(_, _, _)
Branch(test, then, else, env, w) ==
  IF test.c = "thrown" THEN test ELSE IF Truthy(test) THEN Eval(then, env, w) ELSE Eval(else, env, w)
CondValue(xs, env, w) ==
  IF xs[1].k = "key" THEN Eval(xs[2], env, w)
  ELSE LET test == Eval(xs[1], env, w)
       IN IF test.c = "thrown" THEN test ELSE IF Truthy(test) THEN Eval(xs[2], env, w)
          ELSE CondValue(SubSeq(xs, 3, Len(xs)), env, w)

Destructured(names, v) ==
  IF Len(names) = 1 THEN <<v>> ELSE [i \in DOMAIN names |-> Lookup(v, Val("Keyword", names[i]))]
LetValue(names, v, body, env, w) ==
  IF v.c = "thrown" THEN v ELSE Eval(body, Bind(env, names, Destructured(names, v)), w)

DispatchTo(sigs, args, w) ==
  IF sigs = {} THEN Thrown("dispatch")
  ELSE Checked((CHOOSE sig \in sigs : TRUE).ret, "extern", w.answer)

\* Calling a value: through the types it is wrapped in, the outermost last.
CallValue(f, args, w) ==
  IF f.c # "fn" THEN Stuck
  ELSE IF f.xs = <<>> THEN Apply(f.d, args, w)
  ELSE LET t == Last(f.xs)
       IN IF Len(args) # Len(Params(t)) THEN Stuck
          ELSE LET checked == [i \in DOMAIN args |-> Checked(Params(t)[i], "callback", args[i])]
               IN IF ThrownIn(checked) # {} THEN FirstThrown(checked)
                  ELSE Checked(Ret(t), "callback", CallValue([f EXCEPT !.xs = Front(@)], checked, w))

Apply(f, args, w) ==
  IF ThrownIn(args) # {} THEN FirstThrown(args)
  ELSE IF f = w.name THEN Eval(w.fn, Bind(<<>>, w.params, args), w) ELSE Prim(f, args)

Eval(form, env, w) ==
  LET Args == [i \in DOMAIN form.xs |-> Eval(form.xs[i], env, w)]
  IN CASE form.k = "sym"  -> IF form.s = "nil" THEN NilValue
                             ELSE IF form.s \in DOMAIN env THEN env[form.s] ELSE Val("fn", form.s)
       [] form.k = "str"  -> Val("String", form.s)
       [] form.k = "key"  -> Val("Keyword", form.s)
       [] form.k = "int"  -> Val("Long", form.s)
       [] form.k = "bool" -> Val("Boolean", form.s)
       [] form.k \in {"list", "map"} ->
            IF ThrownIn(Args) # {} THEN FirstThrown(Args) ELSE IF form.k = "list" THEN Vec(Args) ELSE MapOf(Args)
       [] form.k = "let" -> LetValue(form.s, Eval(form.xs[1], env, w), form.xs[2], env, w)
       [] form.k = "contract" -> Checked(form.s[1], form.s[2], Eval(form.xs[1], env, w))
       [] form.k = "dispatch" -> IF ThrownIn(Args) # {} THEN FirstThrown(Args)
                                 ELSE DispatchTo(Dispatch(Named(w.externs, form.s), Args), Args, w)
       [] form.k = "node" ->
            CASE form.s = "if" -> Branch(Eval(form.xs[1], env, w), form.xs[2], form.xs[3], env, w)
              [] form.s = "cond" -> CondValue(form.xs, env, w)
              [] form.s = "do" -> IF Args[1].c = "thrown" THEN Args[1] ELSE Args[2]
              [] form.s = "throw" -> Stuck
              [] form.s = "or" -> LET v == Args[1] IN IF v.c = "thrown" \/ Truthy(v) THEN v ELSE Args[2]
              [] OTHER -> IF form.s \in DOMAIN env THEN CallValue(env[form.s], Args, w) ELSE Apply(form.s, Args, w)

World(p, answer) ==
  [name |-> p.fn.name, fn |-> EmittedFn(p), params |-> [i \in DOMAIN p.fn.params |-> p.fn.params[i][1]],
   externs |-> p.externs, answer |-> answer]

-----------------------------------------------------------------------------
(* What a function means: return ends it, a branch that does not is        *)
(* followed by what stands after the if, and its lets end with it.         *)

Ended(v) == [done |-> TRUE, v |-> v]
RECURSIVE Does(_, _, _)
Does(stmts, env, w) ==
  IF stmts = <<>> THEN [done |-> FALSE, v |-> NilValue]
  ELSE LET t == stmts[1]
           v == Eval(RewriteCalls(LowerExpr(t.e[1]), {e.name : e \in ToSet(w.externs)}), env, w)
       IN IF t.k = "return" \/ v.c = "thrown" THEN Ended(v)
          ELSE IF t.k = "let" THEN Does(Tail(stmts), Bind(env, t.n, Destructured(t.n, v)), w)
          ELSE IF t.k = "if"
          THEN LET branch == Does(IF Truthy(v) THEN t.then ELSE t.else, env, w)
               IN IF branch.done THEN branch ELSE Does(Tail(stmts), env, w)
          ELSE Does(Tail(stmts), env, w)

Meant(p, args, w) ==
  LET checked == [i \in DOMAIN args |-> Checked(ParamTypes(p.fn)[i], "argument", args[i])]
  IN IF ThrownIn(checked) # {} THEN FirstThrown(checked)
     ELSE Checked(ReturnType(p.fn, CheckFunction(p.fn, Context(p))), "return",
                  Does(p.fn.body, Bind(<<>>, w.params, checked), w).v)

-----------------------------------------------------------------------------
(* What an op does to the PStates.  m is [env, cells, over].               *)

RECURSIVE Stringly(_)
Stringly(form) == [form EXCEPT !.k = IF @ = "key" THEN "str" ELSE @, !.xs = [i \in DOMAIN @ |-> Stringly(@[i])]]
OpValue(e, m, w) == Eval(Stringly(LowerExpr(e)), m.env, w)

Under(cells, p, path) == {cell \in cells : cell.p = p /\ Len(cell.path) >= Len(path)
                                            /\ SubSeq(cell.path, 1, Len(path)) = path}
ReadAt(cells, p, path) ==
  LET under == Under(cells, p, path)
      exact == {cell \in under : cell.path = path}
  IN IF exact # {} THEN (CHOOSE cell \in exact : TRUE).v
     ELSE IF under = {} THEN NilValue
     ELSE MapOf(FlattenSeq([i \in 1..Cardinality(under) |->
                  LET cell == SetToSeq(under)[i] IN <<cell.path[Len(path) + 1], cell.v>>]))
WriteAt(cells, p, path, v) ==
  (cells \ Under(cells, p, path))
  \cup IF v.c = "Map" THEN {[p |-> p, path |-> Append(path, e[1]), v |-> e[2]] : e \in ToSet(EntriesOf(v))}
       ELSE {[p |-> p, path |-> path, v |-> v]}

\* A path walks from the top of a PState: at is [m, path, or], `or` replacing a nil.
Halt(at) == [at EXCEPT !.m.over = TRUE]
Written(at, p, v) == IF v.c = "thrown" THEN Halt(at) ELSE [at EXCEPT !.m.cells = WriteAt(@, p, at.path, v)]
Present(at, p) == LET v == ReadAt(at.m.cells, p, at.path) IN IF v = NilValue THEN at.or ELSE v
RECURSIVE Walk(_, _, _, _), Step(_, _, _, _)
Walk(at, p, path, w) == FoldLeft(LAMBDA a, s : IF a.m.over THEN a ELSE Step(a, p, s, w), at, path)
Keyed(at, vs) == IF ThrownIn(vs) # {} THEN Halt(at) ELSE [at EXCEPT !.path = @ \o vs]
Step(at, p, s, w) ==
  CASE s.k = "key" -> Keyed(at, <<Val("String", s.s)>>)
    [] s.k = "id"  -> [at EXCEPT !.m.cells = @ \ Under(@, p, at.path)]
    [] s.k = "call" ->
         CASE s.s = "keypath"    -> Keyed(at, [i \in DOMAIN s.xs |-> OpValue(s.xs[i], at.m, w)])
           [] s.s = "nil->val"   -> [at EXCEPT !.or = OpValue(s.xs[1], at.m, w)]
           [] s.s = "termval"    -> Written(at, p, OpValue(s.xs[1], at.m, w))
           [] s.s = "term"       -> Written(at, p, Apply(s.xs[1].s, <<Present(at, p)>>, w))
           [] s.s = "multi-path" ->
                [at EXCEPT !.m = FoldLeft(LAMBDA m, b : Walk([at EXCEPT !.m = m], p, b.xs, w).m, at.m, s.xs)]

From(m) == [m |-> m, path |-> <<>>, or |-> NilValue]
BindFields(m, names, v) ==
  [m EXCEPT !.env = Bind(@, names, IF Len(names) = 1 THEN <<v>>
                                   ELSE [i \in DOMAIN names |-> Lookup(v, Val("String", names[i]))])]
RECURSIVE Handles(_, _, _)
HandlesOne(m, t, w) ==
  IF m.over THEN m
  ELSE CASE t.k = "select" -> LET at == Walk(From(m), t.n[1], t.e, w)
                              IN IF at.m.over THEN at.m ELSE BindFields(m, Tail(t.n), Present(at, t.n[1]))
         [] t.k = "transform" -> Walk(From(m), t.n[1], t.e, w).m
         [] t.k = "fail" -> LET v == OpValue(t.e[2], m, w) IN [m EXCEPT !.over = v.c = "thrown" \/ Truthy(v)]
         [] OTHER ->
              LET v == OpValue(t.e[1], m, w)
              IN IF v.c = "thrown" THEN [m EXCEPT !.over = TRUE]
                 ELSE CASE t.k = "let" -> BindFields(m, t.n, v)
                        [] t.k = "if"  -> [Handles(IF Truthy(v) THEN t.then ELSE t.else, m, w) EXCEPT !.env = m.env]
                        [] OTHER -> m
Handles(stmts, m, w) == FoldLeft(LAMBDA n, t : HandlesOne(n, t, w), m, stmts)

\* The boundary of an op (event_validator_form, coerce_longs_helper_form).
FieldFits(schema, v) ==
  LET t == SchemaValueType(schema) IN t = Dynamic \/ Holds(t, v)
Valid(p, event) == \A f \in ToSet(p.structs[p.op.struct]) : FieldFits(f[2], event[f[1]])
Coerced(p, event) ==
  [n \in DOMAIN event |->
     IF \E f \in ToSet(p.structs[p.op.struct]) : f[1] = n /\ SchemaValueType(f[2]) = Class("Long")
     THEN Val("Long", event[n].d) ELSE event[n]]
EventValue(event) ==
  LET names == SetToSeq(DOMAIN event)
  IN MapOf(FlattenSeq([i \in DOMAIN names |-> <<Val("String", names[i]), event[names[i]]>>]))

-----------------------------------------------------------------------------
NoCall == [run |-> NilValue, meant |-> NilValue]
Init ==
  /\ \E family \in Families : program \in family
  /\ stage = "source" /\ called = NoCall /\ store = {} /\ handled = 0

Check ==
  /\ stage = "source" /\ stage' = IF Rejected(program) THEN "rejected" ELSE "emitted"
  /\ UNCHANGED <<program, called, store, handled>>

CallFn(args, answer) ==
  /\ stage = "emitted" /\ handled = 0
  /\ LET w == World(program, answer)
     IN called' = [run |-> Apply(w.name, args, w), meant |-> Meant(program, args, w)]
  /\ UNCHANGED <<program, stage, store, handled>>

Handle(event, answer) ==
  /\ stage = "emitted" /\ handled < MaxEvents /\ program.op.body # <<>> /\ Valid(program, event)
  /\ LET m == [env |-> [n \in {program.op.param} |-> EventValue(Coerced(program, event))], cells |-> store, over |-> FALSE]
     IN store' = Handles(program.op.body, m, World(program, answer)).cells
  /\ handled' = handled + 1
  /\ UNCHANGED <<program, stage, called>>

Next ==
  \/ Check
  \/ \E args \in Arguments(program), answer \in Answers : CallFn(args, answer)
  \/ \E event \in Events, answer \in Answers : Handle(event, answer)
Spec == Init /\ [][Next]_vars

-----------------------------------------------------------------------------
RECURSIVE Mentions(_, _)
Mentions(t, k) == t.k = k \/ \E i \in DOMAIN t.xs : Mentions(t.xs[i], k)
Annotations(p) ==
  UNION ({ToSet(par[2]) : par \in ToSet(p.fn.params)} \cup {ToSet(p.fn.ret)}
         \cup {ToSet(e.params) \cup {e.ret} : e \in ToSet(p.externs)})

\* The three ways in which an accepted function fails its own contract, each left out
\* of what follows by name.  The prelude has an `or` of Any return a Boolean
\* (types.rs:1093-1099), where Clojure returns an operand.  A keyword is a String to
\* the checker (types.rs:1481) and a Keyword to Clojure (lower.rs:227).  And of two
\* overloads that accept one value the checker may choose another than the dispatcher.
RECURSIVE CallsOr(_), HasKeyword(_)
CallsOr(e)    == (e.k = "call" /\ e.s = "or") \/ ExistsIn(CallsOr, e.xs)
HasKeyword(e) == e.k = "key" \/ ExistsIn(HasKeyword, e.xs)
Anywhere(Op(_), stmts) == \E t \in Block(stmts) : ExistsIn(Op, t.e)
Overlap(p) == \E args \in Arguments(p) : Cardinality({e \in ToSet(p.externs) : Accepts(e, args)}) > 1

(* "typed fn results are checked on exit" and "extern results are checked  *)
(* before re-entering typed code" (CLOJURE_BOUNDARY.md): an accepted       *)
(* function that is annotated without Dynamic and capabilities (a Seqable  *)
(* is not looked into), always returns and is none of the three above is   *)
(* never to blame.                                                         *)
(* Whatever it is called with and whatever an extern answers, the contract *)
(* on its own return holds, its calls of externs find an overload and      *)
(* those of Clojure get values they are made for.                          *)
NeverToBlame(p) ==
  /\ \A t \in Annotations(p) : ~Mentions(t, "dynamic") /\ ~Mentions(t, "cap")
  /\ AlwaysReturns(p.fn.body)
  /\ ~Anywhere(CallsOr, p.fn.body) /\ ~Anywhere(HasKeyword, p.fn.body) /\ ~Overlap(p)

(* "surface return / let / if become nested let / if / cond forms"         *)
(* (lower.rs:4): the one expression a function becomes has the value the   *)
(* statements have, with each early return, unless a branch that falls     *)
(* through has a let, whose scope the copied rest then enters.             *)
FallsThroughWithLet(branch) == ~AlwaysReturns(branch) /\ \E i \in DOMAIN branch : branch[i].k = "let"
NoCapture(stmts) ==
  \A t \in Block(stmts) : t.k = "if" => ~FallsThroughWithLet(t.then) /\ ~FallsThroughWithLet(t.else)
LoweringMeansSource == AlwaysReturns(program.fn.body) /\ NoCapture(program.fn.body) => called.run = called.meant

RECURSIVE FitsSchema(_, _, _, _)
FitsSchema(schema, path, v, p) ==
  IF path = <<>> THEN v = NilValue \/ Holds(SchemaValueType(schema), v)
  ELSE IF schema.k = "map"
  THEN (path[1] = NilValue \/ Holds(SchemaValueType(schema.xs[1]), path[1])) /\ FitsSchema(schema.xs[2], Tail(path), v, p)
  ELSE IsStruct(schema, p) /\ \E f \in Fields(schema.s, path[1].d, p) : FitsSchema(f[2], Tail(path), v, p)
StoreFits == \A cell \in store : FitsSchema(program.pstates[cell.p], cell.path, cell.v, program)

\* What the checker does not follow, or does not look at.  A select of a whole row, the
\* event itself and what a function returns as Dynamic fit anywhere; in the literal of a
\* struct only the entries under keywords are checked (types.rs:626-628); and a keyword
\* is not checked as the key of a map (types.rs:522).
RECURSIVE LiteralsByKeyword(_), NamesTheEvent(_)
NamesTheEvent(e) == e = Id(program.op.param) \/ ExistsIn(NamesTheEvent, e.xs)
LiteralsByKeyword(e) ==
  /\ e.k = "map" => \A i \in 1..(Len(e.xs) \div 2) : e.xs[2 * i - 1].k = "key"
  /\ \A i \in DOMAIN e.xs : LiteralsByKeyword(e.xs[i])
SelectsFollowed(p) ==
  \A t \in Block(p.op.body) : t.k = "select" =>
    LET focus == FoldPath(t.n[1], t.e, <<>>, "select", Context(p)).focus
    IN IF Len(t.n) = 2 THEN IsLeaf(focus, p) ELSE IsStruct(focus, p)
Followed(p) ==
  /\ SelectsFollowed(p)
  /\ \A t \in Annotations(p) : ~Mentions(t, "dynamic")
  /\ \A t \in Block(p.op.body) :
       IF t.k = "let" /\ Len(t.n) > 1 THEN t.e[1] = Id(p.op.param) ELSE ~ExistsIn(NamesTheEvent, t.e)
  /\ \A t \in Block(p.op.body) : \A i \in DOMAIN t.e : LiteralsByKeyword(t.e[i])
Keys(seg) == IF seg.k = "call" /\ seg.s = "keypath" THEN seg.xs ELSE <<seg>>
KeywordAtMap(t, p) ==
  LET keys == FlattenSeq(Map(Keys, t.e))
      Focus(i) == FoldPath(t.n[1], [j \in 1..i |-> Call("keypath", <<keys[j]>>)], <<>>, "select", Context(p)).focus
  IN \E i \in DOMAIN keys : keys[i].k = "key" /\ Focus(i - 1).k = "map"


(* "Fold a select/transform path through the pstate's declared schema,     *)
(* checking key types, field existence, and write terminals"               *)
(* (types.rs:404-405): the same, of the keywords too.                      *)
KeyTypesAreChecked == Followed(program) => StoreFits
=============================================================================
