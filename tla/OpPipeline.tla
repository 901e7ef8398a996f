----------------------------- MODULE OpPipeline ----------------------------
(***************************************************************************)
(* One op through the compiler and into the topology: transpile_source of  *)
(* src/lib.rs (the rules, then emit_clojure with its verifier) and then    *)
(* the events the emitted fragment handles, next to the meaning the op has *)
(* in the source.                                                          *)
(*                                                                         *)
(* A state of the PStates is [partition -> [pstate -> [key -> value]]]; an *)
(* answer is what the client is sent, in order.                            *)
(***************************************************************************)
EXTENDS OpCompiler

CONSTANTS
  Ops,          \* the ops compiled
  Declared,     \* the PStates the module declares
  Events,       \* the events that arrive: field -> value
  Values,       \* the values of fields, keys and cells; they name partitions too
  MaxEvents     \* bound on the events handled

VARIABLES
  op,           \* the op compiled
  stage,        \* "source", "rejected", "emitted" or "panicked"
  placed,       \* its place in the generated module
  run,          \* the PStates and the last answers under the emitted fragment
  meant,        \* the same under the source
  handled

vars == <<op, stage, placed, run, meant, handled>>

-----------------------------------------------------------------------------
(* What is checked around the compilation of an op: the rules of           *)
(* src/rules/rama.rs on the source and src/clj_verify.rs on the generated  *)
(* forms.  A diagnostic is the name of its rule.                           *)

Navigators == {"AFTER-ELEM", "NONE-ELEM", "NONE>", "ALL", "MAP-VALS", "MAP-KEYS"}
Paths(stmts) == {t \in Block(stmts) : t.k \in {"select", "transform"}}

KnownPState(declared, stmts) == \A t \in Paths(stmts) : t.n[1] \in declared

NavigatorOutsideKeypath(stmts) ==
  \A t \in Paths(stmts) : \A i \in DOMAIN t.e :
    t.e[i].k = "call" /\ t.e[i].s = "keypath"
      => \A j \in DOMAIN t.e[i].xs : ~(t.e[i].xs[j].k \in {"str", "id", "key"} /\ t.e[i].xs[j].s \in Navigators)

PathEndsInWrite(path) ==
  /\ path # <<>>
  /\ \/ Last(path).k = "call" /\ Last(path).s \in {"term", "termval", "multi-path"}
     \/ Last(path).k = "id" /\ Last(path).s = "NONE>"
TransformHasWriteTerm(stmts) == \A t \in Block(stmts) : t.k = "transform" => PathEndsInWrite(t.e)

FnContainsOnlyClojure(stmts) == \A t \in Block(stmts) : t.k \notin {"select", "transform", "fail", "hash"}

CastOnlyInFn(stmts) == \A t \in Block(stmts) : \A e \in Exprs(t) : e.k # "as"

RECURSIVE IfDepth(_)
IfDepth(stmts) ==
  LET depths == {1 + (LET d == <<IfDepth(stmts[i].then), IfDepth(stmts[i].else)>>
                      IN IF d[1] > d[2] THEN d[1] ELSE d[2]) : i \in {j \in DOMAIN stmts : stmts[j].k = "if"}}
  IN IF depths = {} THEN 0 ELSE CHOOSE d \in depths : \A e \in depths : e <= d
ShallowExplicitOpIf(stmts) == IfDepth(stmts) <= 2

\* check_program, over the bodies of a program: kind is "fn" or "op".
Violations(declared, kind, stmts) ==
  {r \in {"known-pstate", "navigator-outside-keypath", "transform-has-write-term",
          "fn-no-dataflow", "as-only-in-fn", "shallow-op-if"} :
     ~CASE r = "known-pstate" -> KnownPState(declared, stmts)
        [] r = "navigator-outside-keypath" -> NavigatorOutsideKeypath(stmts)
        [] r = "transform-has-write-term" -> TransformHasWriteTerm(stmts)
        [] r = "fn-no-dataflow" -> kind = "fn" => FnContainsOnlyClojure(stmts)
        [] r = "as-only-in-fn" -> kind = "op" => CastOnlyInFn(stmts)
        [] r = "shallow-op-if" -> kind = "op" => ShallowExplicitOpIf(stmts)}

-----------------------------------------------------------------------------
(* verify_form, in the dataflow context every form of an op body is in:    *)
(* what a helper defn holds is ordinary Clojure, where control is fine.    *)

Control == {"and", "or", "if", "cond", "let*", "if-let", "when-let"}
RECURSIVE ControlIn(_), PStateSymbols(_)
ControlIn(form) == (form.k = "node" /\ form.s \in Control) \/ ExistsIn(ControlIn, form.xs)
PStateSymbols(form) == (IF form.k = "pstate" THEN {form.s} ELSE {}) \cup UnionOver(PStateSymbols, form.xs)

Verify(p) ==
  (IF ExistsIn(ControlIn, p.forms) THEN {"no-clojure-control-in-dataflow"} ELSE {})
  \cup (IF ~p.inline /\ ~(UnionOver(PStateSymbols, p.forms) \subseteq p.params)
        THEN {"deframaop-pstate-parameter"} ELSE {})

-----------------------------------------------------------------------------
NotPlaced == [inline |-> FALSE, params |-> {}, forms |-> <<>>]
Home == "nil"                               \* the partition of the depot's key
Empty == [v \in Values |-> [p \in Declared |-> [k \in Values |-> "nil"]]]

-----------------------------------------------------------------------------
(* Expressions.  The event is the value "event", and "coerced" once its    *)
(* numbers are made Longs; its fields are read by string keys.  Functions  *)
(* are few and total.                                                      *)

Truthy(v) == v \notin {"nil", "false"}
Truth(b) == IF b THEN "true" ELSE "false"
Apply(f, args, event) ==
  CASE f = "get"        -> IF args[1] \in DOMAIN event /\ args[2] \in DOMAIN event[args[1]]
                             THEN event[args[1]][args[2]] ELSE "nil"
    [] f = "="          -> Truth(args[1] = args[2])
    [] f = "not="       -> Truth(args[1] # args[2])
    [] f = "nil?"       -> Truth(args[1] = "nil")
    [] f = "some?"      -> Truth(args[1] # "nil")
    [] f = "not"        -> Truth(~Truthy(args[1]))
    [] f \in {"or", "or>"}   -> IF Truthy(args[1]) THEN args[1] ELSE args[2]
    [] f \in {"and", "and>"} -> IF Truthy(args[1]) THEN args[2] ELSE args[1]
    [] f = "identity"   -> args[1]

\* A local of no value is an error of the generated code, and none of the values.
Lookup(env, name) == IF name \in DOMAIN env THEN env[name] ELSE "unbound"

\* m is [env, event].
RECURSIVE Meaning(_, _)
Meaning(e, m) ==
  CASE e.k = "id" -> IF IsLocal(e.s) THEN Lookup(m.env, e.s) ELSE e.s
    [] e.k \in {"str", "key"} -> e.s
    [] e.k = "ternary" -> IF Truthy(Meaning(e.xs[1], m)) THEN Meaning(e.xs[2], m) ELSE Meaning(e.xs[3], m)
    [] e.k = "binary" -> Apply(e.s, [i \in DOMAIN e.xs |-> Meaning(e.xs[i], m)], m.event)
    [] e.k = "call" -> Apply(e.s, [i \in DOMAIN e.xs |-> Meaning(e.xs[i], m)], m.event)

RECURSIVE Value(_, _), Arms(_, _)
Value(form, m) ==
  CASE form.k \in {"sym", "var"} -> IF form.k = "sym" /\ form.s \in {"nil", "true", "false"} THEN form.s
                                    ELSE Lookup(m.env, form.s)
    [] form.k = "str" -> form.s
    [] form.k = "key" -> "keyword"
    [] form.k = "lifted" ->
         Value(form.s.body, [m EXCEPT !.env = [n \in ToSet(form.s.params) |->
           Value(form.xs[CHOOSE i \in DOMAIN form.s.params : form.s.params[i] = n], m)]])
    [] form.k = "node" /\ form.s = "if" ->
         IF Truthy(Value(form.xs[1], m)) THEN Value(form.xs[2], m) ELSE Value(form.xs[3], m)
    [] form.k = "node" /\ form.s = "cond" -> Arms(form.xs, m)
    [] OTHER -> Apply(form.s, [i \in DOMAIN form.xs |-> Value(form.xs[i], m)], m.event)
Arms(xs, m) == IF Truthy(Value(xs[1], m)) THEN Value(xs[2], m) ELSE Arms(SubSeq(xs, 3, Len(xs)), m)

-----------------------------------------------------------------------------
(* What an op does.  A machine is [env, event, part, hopped, state,        *)
(* answers, over].                                                         *)

Start(state, event, param) ==
  [env |-> [n \in {param} |-> "event"], event |-> [event |-> event, coerced |-> event], part |-> Home, hopped |-> FALSE,
   state |-> state, answers |-> <<>>, over |-> FALSE]

Bound(m, names, v) ==
  [m EXCEPT !.env = [n \in DOMAIN @ \cup {names[i][1] : i \in DOMAIN names} |->
     IF \E i \in DOMAIN names : names[i][1] = n
     THEN LET key == names[CHOOSE i \in DOMAIN names : names[i][1] = n][2]
          IN IF key = "" THEN v ELSE Apply("get", <<v, key>>, m.event)
     ELSE @[n]]]

Answer(m, v) == [m EXCEPT !.answers = Append(@, v)]

\* A path is a keypath, followed in a transform by termval v, or by NONE>, which removes.
Written(m, p, k, v) == [m EXCEPT !.state[m.part][p][k] = v]

\* The source: fail and return end the op.
RECURSIVE Does(_, _), DoesOne(_, _)
Does(stmts, m) == IF stmts = <<>> \/ m.over THEN m ELSE Does(Tail(stmts), DoesOne(stmts[1], m))
DoesOne(t, m) ==
  CASE t.k = "let"    -> Bound(m, Pattern(t.n), Meaning(t.e[1], m))
    [] t.k = "select" -> Bound(m, Pattern(Tail(t.n)), m.state[m.part][t.n[1]][Meaning(t.e[1].xs[1], m)])
    [] t.k = "transform" ->
         Written(m, t.n[1], Meaning(t.e[1].xs[1], m), IF t.e[2].k = "id" THEN "nil" ELSE Meaning(t.e[2].xs[1], m))
    [] t.k = "fail"   -> IF Truthy(Meaning(t.e[2], m))
                         THEN [Answer(m, Meaning(t.e[1], m)) EXCEPT !.over = TRUE] ELSE m
    [] t.k = "return" -> [Answer(m, Meaning(t.e[1], m)) EXCEPT !.over = TRUE]
    [] t.k = "hash"   -> [m EXCEPT !.part = Meaning(t.e[1], m)]
    [] t.k = "effect" -> m
    [] t.k = "if"     -> Does(IF Truthy(Meaning(t.e[1], m)) THEN t.then ELSE t.else, m)

\* A typed event is checked and its numbers are made Longs before the body sees it.
Means(o, state, event) ==
  LET start == Start(state, event, o.param)
  IN IF o.spec # <<>> /\ EventError(o.spec, event) THEN Answer(start, "invalid-event")
     ELSE Does(o.body, [start EXCEPT !.event.event = CoerceLongs(LongFields(o.spec), event)])

\* The dataflow, as Rama runs it (external): a form's branch goes on into what follows it,
\* an answer ends nothing, and a PState that came as a parameter loses what is written
\* behind a hop.
Else(form) == LET is == {i \in DOMAIN form.xs : form.xs[i].k = "node" /\ form.xs[i].s = "else>"}
              IN IF is = {} THEN Len(form.xs) + 1 ELSE CHOOSE i \in is : TRUE
RECURSIVE Runs(_, _, _), RunsOne(_, _, _)
Runs(forms, m, inline) == IF forms = <<>> THEN m ELSE Runs(Tail(forms), RunsOne(forms[1], m, inline), inline)
RunsOne(form, m, inline) ==
  CASE form.k \in {"sym", "var", "str"} -> m
    [] form.k = "lifted"   -> Bound(m, form.to, Value(form, m))
    [] form.k = "validate" -> Bound(m, form.to, IF EventError(form.s, m.event.event) THEN "error" ELSE "nil")
    [] form.k = "coerce"   -> Bound([m EXCEPT !.event.coerced = CoerceLongs(form.s, m.event.event)],
                                    form.to, "coerced")
    [] form.k = "node" ->
         CASE form.s = "<<if" ->
                LET cut == Else(form)
                IN IF Truthy(Value(form.xs[1], m)) THEN Runs(SubSeq(form.xs, 2, cut - 1), m, inline)
                   ELSE Runs(SubSeq(form.xs, cut + 1, Len(form.xs)), m, inline)
           [] form.s = "ack-return>" -> Answer(m, Value(form.xs[1], m))
           [] form.s = "|hash" -> [m EXCEPT !.part = Value(form.xs[1], m), !.hopped = TRUE]
           [] form.s = "local-select>" ->
                Bound(m, form.to, m.state[m.part][form.xs[2].s][Value(form.xs[1].xs[1], m)])
           [] form.s = "local-transform>" ->
                LET path == form.xs[1].xs
                IN IF m.hopped /\ ~inline THEN m
                   ELSE Written(m, form.xs[2].s, Value(path[1].xs[1], m),
                                IF path[2].k = "sym" THEN "nil" ELSE Value(path[2].xs[1], m))
           [] OTHER -> IF form.to = <<>> THEN m ELSE Bound(m, form.to, Value(form, m))

Result(m) == [state |-> m.state, answers |-> m.answers]

-----------------------------------------------------------------------------
Init ==
  /\ op \in Ops /\ stage = "source" /\ placed = NotPlaced
  /\ run = [state |-> Empty, answers |-> <<>>] /\ meant = run /\ handled = 0

Reject ==
  /\ stage = "source" /\ Violations(Declared, "op", op.body) # {}
  /\ stage' = "rejected"
  /\ UNCHANGED <<op, placed, run, meant, handled>>

\* emit_clojure: what the verifier finds is an assertion that fails.
Emit ==
  /\ stage = "source" /\ Violations(Declared, "op", op.body) = {}
  /\ placed' = Placed(op)
  /\ stage' = IF Verify(placed') = {} THEN "emitted" ELSE "panicked"
  /\ UNCHANGED <<op, run, meant, handled>>

\* The fragment is called with the event in *event.
Handle(event) ==
  /\ stage = "emitted" /\ handled < MaxEvents
  /\ run' = Result(Runs(placed.forms, Start(run.state, event, "event"), placed.inline))
  /\ meant' = Result(Means(op, meant.state, event))
  /\ handled' = handled + 1
  /\ UNCHANGED <<op, stage, placed>>

Next == Reject \/ Emit \/ \E event \in Events : Handle(event)
Spec == Init /\ [][Next]_vars

-----------------------------------------------------------------------------
(* Where an op ends in one return and its branches hold neither fail nor   *)
(* return, the emitted fragment does what the source says: the same one    *)
(* answer, the same writes in the same partitions, none of them behind a   *)
(* failed guard or an invalid event.  Excepted are the two things emit_clj *)
(* makes something else of: a keyword in an expression that goes into a    *)
(* helper defn, and a let of a name that is no local (`let x = nil`).      *)
NoExit(stmts) == \A t \in Block(stmts) : t.k \notin {"fail", "return"}
Straight(stmts) ==
  \A i \in DOMAIN stmts : /\ stmts[i].k = "return" => i = Len(stmts)
                          /\ NoExit(stmts[i].then) /\ NoExit(stmts[i].else)
IntoHelper(t) == t.k = "fail" \/ (t.k = "let" /\ ContainsClojureControl(t.e[1]))
HelpersReadStrings(stmts) ==
  \A t \in Block(stmts) : IntoHelper(t) => \A e \in Exprs(t) : e.k # "key"
LetsOfLocals(stmts) == \A t \in Block(stmts) : t.k = "let" /\ t.e[1].k = "id" => IsLocal(t.e[1].s)
EmittedOpMeansSource ==
  Straight(op.body) /\ HelpersReadStrings(op.body) /\ LetsOfLocals(op.body) => run = meant

(* RULES.md: "this REST-first compiler lowers state/event field keys to     *)
(* Clojure strings"; emit_clj.rs: they are "strings end-to-end".  So a      *)
(* keyword reads the field it names wherever it stands, in a helper too.    *)
KeysAreStrings == Straight(op.body) /\ LetsOfLocals(op.body) => run = meant

(* "A PState passed as a deframaop parameter loses writes silently when    *)
(* accessed after a partitioner hop" and "must receive each $$ logvar it   *)
(* uses" (RULES.md): wherever the hop and the access stand, the op is      *)
(* placed so that neither happens.                                         *)
RECURSIVE HopIn(_)
HopIn(form) == (form.k = "node" /\ form.s = "|hash") \/ ExistsIn(HopIn, form.xs)
PStatesReachTheOp ==
  stage \in {"emitted", "panicked"} /\ ~placed.inline
  => /\ ~ExistsIn(HopIn, placed.forms)
     /\ UnionOver(PStateSymbols, placed.forms) \subseteq placed.params \cap Declared

(* An op the rules accept, whose returns, hops, paths and conditions hold  *)
(* no ternary, verifies: lets and fails may hold any.                      *)
ControlLifted(stmts) ==
  \A t \in Block(stmts) : t.k \notin {"let", "fail"} => ~ExistsIn(ContainsClojureControl, t.e)
LiftedControlVerifies == ControlLifted(op.body) => stage # "panicked"
=============================================================================
