---------------------------- MODULE OpCompiler -----------------------------
(***************************************************************************)
(* How src/emit_clj.rs turns an op into a dataflow fragment: the event     *)
(* guard, the fail guards, the lifted expressions and the two ways an op   *)
(* is placed in the module.  An op is                                      *)
(*   [name, param, spec, body]                                             *)
(* where spec is the fields the struct of a typed parameter declares, as   *)
(* pairs <<field, check>>, or <<>>.                                        *)
(*                                                                         *)
(* The code a helper defn holds stands where the helper is called, as a    *)
(* form "lifted": its parameters and body, and the logvars it is called    *)
(* on.  The names __f-fail-1, __f-expr-1 come from counters and are not    *)
(* modelled.                                                               *)
(***************************************************************************)
EXTENDS RamaAst

\* ident_name: every other name in lower case is a logvar.
ClojureNames == {"nil", "true", "false", "inc", "identity", "long", "set", "disj", "contains?",
                 "even?", "nil?", "not", "and", "or", "some?", "keypath", "termval", "term",
                 "multi-path", "nil->val", "AFTER-ELEM", "NONE>"}
IsLocal(name) == name \notin ClojureNames
IdentForm(name) == IF IsLocal(name) THEN Var(name) ELSE Sym(name)

\* lower_fn_expr: the expression as ordinary Clojure, where locals have no star.
RECURSIVE FnExpr(_)
FnExpr(e) ==
  CASE e.k = "id"      -> Sym(e.s)
    [] e.k = "str"     -> FStr(e.s)
    [] e.k = "key"     -> FKey(e.s)
    [] e.k = "ternary" -> Node("if", Map(FnExpr, e.xs))
    [] e.k = "as"      -> Node("__rama_contract!", <<FnExpr(e.xs[1])>>)
    [] e.k \in {"list", "map"} -> Form(e.k, "", Map(FnExpr, e.xs))
    [] OTHER           -> Node(e.s, Map(FnExpr, e.xs))

\* expr in a dataflow context: keywords become strings, and/or the dataflow ones.
RECURSIVE DataflowExpr(_)
DataflowExpr(e) ==
  CASE e.k = "id"      -> IdentForm(e.s)
    [] e.k \in {"str", "key"} -> FStr(e.s)
    [] e.k = "ternary" -> Node("if", Map(DataflowExpr, e.xs))
    [] e.k = "as"      -> Node("__rama_contract!", <<DataflowExpr(e.xs[1])>>)
    [] e.k \in {"list", "map"} -> Form(e.k, "", Map(DataflowExpr, e.xs))
    [] OTHER           -> Node(IF e.s = "and" THEN "and>" ELSE IF e.s = "or" THEN "or>" ELSE e.s,
                               Map(DataflowExpr, e.xs))

\* Mutant: control inside an operand is not seen.
ControlOnTop(e) == e.k = "ternary" \/ (e.k = "call" /\ e.s \in {"if", "cond", "let"})
RECURSIVE ContainsClojureControl(_)
ContainsClojureControl(e) ==
  \/ e.k = "ternary"
  \/ e.k = "call" /\ e.s \in {"if", "cond", "let"}
  \/ ExistsIn(ContainsClojureControl, e.xs)

CollectLocals(e) == {x.s : x \in {y \in Within(e) : y.k = "id" /\ IsLocal(y.s)}}

-----------------------------------------------------------------------------
(* OpCompiler.                                                             *)

Lifted(locals, body) ==
  LET params == SetToSeq(locals)
  IN Form("lifted", [params |-> params, body |-> body], Map(Var, params))

\* let_pattern and binding_target: a name, or the keys of a map.
Pattern(names) == IF Len(names) = 1 THEN << <<names[1], "">> >>
                  ELSE [i \in DOMAIN names |-> <<names[i], names[i]>>]

LiftExpr(e, to) == To(Lifted(CollectLocals(e), FnExpr(e)), to)
Bind(e, to) ==
  IF ContainsClojureControl(e) THEN LiftExpr(e, to)
  ELSE IF e.k = "call" THEN To(DataflowExpr(e), to)
  ELSE To(Node("identity", <<IF e.k = "id" THEN Var(e.s) ELSE DataflowExpr(e)>>), to)

PathForm(path) == IF Len(path) = 1 THEN DataflowExpr(path[1]) ELSE Form("list", "", Map(DataflowExpr, path))

FailAnswer(error) == Node("ack-return>", <<error>>)

\* Mutant: the marker is left out.
NoMarker(forms) == forms
\* The second branch of a <<if.
OrElse(forms) == <<Node("else>", <<>>)>> \o forms

RECURSIVE Stmts(_), Stmt(_)
\* Consecutive fails share one helper and one <<if, and what follows them is its else.
FailGroup(fails, rest) ==
  LET locals == UNION {CollectLocals(fails[i].e[1]) \cup CollectLocals(fails[i].e[2]) : i \in DOMAIN fails}
      arms == FlattenSeq([i \in DOMAIN fails |-> <<FnExpr(fails[i].e[2]), FnExpr(fails[i].e[1])>>])
      guard == Node("some?", <<Var("__err")>>)
  IN <<To(Lifted(locals, Node("cond", Append(Append(arms, FKey("else")), Sym("nil")))), << <<"__err", "">> >>),
       Node("<<if", <<guard, FailAnswer(Var("__err"))>>
                    \o (IF rest = <<>> THEN <<>> ELSE OrElse(Stmts(rest))))>>

Stmts(stmts) ==
  IF stmts = <<>> THEN <<Sym("nil")>>
  ELSE LET n == IF \E i \in DOMAIN stmts : stmts[i].k = "fail"
                THEN SelectInSeq(stmts, LAMBDA t : t.k = "fail") - 1 ELSE Len(stmts)
           after == SubSeq(stmts, n + 1, Len(stmts))
           m == IF \E i \in DOMAIN after : after[i].k # "fail"
                THEN SelectInSeq(after, LAMBDA t : t.k # "fail") - 1 ELSE Len(after)
       IN Map(Stmt, SubSeq(stmts, 1, n))
          \o (IF after = <<>> THEN <<>> ELSE FailGroup(SubSeq(after, 1, m), SubSeq(after, m + 1, Len(after))))

Stmt(t) ==
  CASE t.k = "let"       -> Bind(t.e[1], Pattern(t.n))
    [] t.k = "select"    -> To(Node("local-select>", <<PathForm(t.e), PState(t.n[1])>>), Pattern(Tail(t.n)))
    [] t.k = "transform" -> Node("local-transform>", <<Form("list", "", Map(DataflowExpr, t.e)), PState(t.n[1])>>)
    [] t.k = "return"    -> Node("ack-return>", Map(DataflowExpr, t.e))
    [] t.k = "hash"      -> Node("|hash", Map(DataflowExpr, t.e))
    [] t.k = "effect"    -> DataflowExpr(t.e[1])
    [] t.k = "if"        -> Node("<<if", Map(DataflowExpr, t.e) \o Stmts(t.then)
                                 \o (IF t.alt THEN OrElse(Stmts(t.else)) ELSE <<>>))

-----------------------------------------------------------------------------
(* compile_op_body: the guard of a typed event and the names it goes by.   *)

\* event_validator_form: nil for a well-formed event; fields checked "any" may be missing.
KindOf(v) == CASE v = "nil" -> "nil" [] v \in {"1", "1i"} -> "long" [] OTHER -> "string"
EventError(spec, event) ==
  \E i \in DOMAIN spec : spec[i][2] # "any" /\ KindOf(event[spec[i][1]]) # spec[i][2]

\* __rama_coerce_longs: a number of JSON ("1i") becomes a Long ("1").
LongFields(spec) == {spec[i][1] : i \in {j \in DOMAIN spec : spec[j][2] = "long"}}
CoerceLongs(fields, event) ==
  [f \in DOMAIN event |-> IF f \in fields /\ event[f] = "1i" THEN "1" ELSE event[f]]

RECURSIVE RenameSymbol(_, _, _)
RenameSymbol(form, from, to) ==
  [form EXCEPT !.s = IF form.k = "var" /\ @ = from THEN to ELSE @,
               !.xs = [i \in DOMAIN @ |-> RenameSymbol(@[i], from, to)],
               !.to = [i \in DOMAIN @ |-> IF @[i][1] = from THEN <<to, @[i][2]>> ELSE @[i]]]
Rename(forms, from, to) == [i \in DOMAIN forms |-> RenameSymbol(forms[i], from, to)]

Guarded(op, body) ==
  LET raw == Var(op.param)
      longs == LongFields(op.spec)
      coerced == IF longs = {} THEN body
                 ELSE <<To([Node("__rama_coerce_longs", <<raw>>) EXCEPT !.k = "coerce", !.s = longs],
                           << <<"__event", "">> >>)>>
                      \o Rename(body, op.param, "__event")
  IN <<To([Node("__event-error", <<raw>>) EXCEPT !.k = "validate", !.s = op.spec], << <<"__event-error", "">> >>),
       Node("<<if", <<Node("some?", <<Var("__event-error")>>), FailAnswer(FStr("invalid-event"))>> \o OrElse(coerced))>>

CompileOpBody(op) ==
  LET body == Stmts(op.body)
  IN Rename(IF op.spec = <<>> THEN body ELSE Guarded(op, body), op.param, "event")

-----------------------------------------------------------------------------
(* Placement in the module (compile_program): an op that hops is inlined   *)
(* into the topology, any other is a deframaop that takes its PStates as   *)
(* parameters.                                                             *)

\* Mutant: the branches of an if are not searched for a hop.
HopsAtTop(stmts) == \E i \in DOMAIN stmts : stmts[i].k = "hash"
OpHasPartitioner(stmts) == \E t \in Block(stmts) : t.k = "hash"

\* Mutant: an else branch is not searched for PStates.
RECURSIVE PStatesButElse(_)
PStatesButElse(stmts) ==
  UNION {(IF stmts[i].k \in {"select", "transform"} THEN {stmts[i].n[1]} ELSE {})
         \cup PStatesButElse(stmts[i].then) : i \in DOMAIN stmts}
OpPStates(stmts) == {t.n[1] : t \in {u \in Block(stmts) : u.k \in {"select", "transform"}}}

\* What the switch of the topology has for an op.
Placed(op) ==
  IF OpHasPartitioner(op.body) THEN [inline |-> TRUE, params |-> {}, forms |-> CompileOpBody(op)]
  ELSE [inline |-> FALSE, params |-> OpPStates(op.body), forms |-> CompileOpBody(op)]
=============================================================================
