---------------------------- MODULE FnLowering -----------------------------
(***************************************************************************)
(* How a function becomes one Clojure expression (src/lower.rs), the       *)
(* contracts put around it (src/emit_clj.rs) and at its casts              *)
(* (src/contracts.rs), and what the contracts and the dispatchers of       *)
(* externs do when they run.  A contract is a form "contract" whose s is   *)
(* <<type, who is blamed>>.                                                *)
(*                                                                         *)
(* A value is [c, d, xs]: its class, its datum, its elements; of a map the *)
(* entries in a row, of a function the function types it is wrapped in.    *)
(* "thrown" is the class of an exception, its datum who is blamed.         *)
(***************************************************************************)
EXTENDS TypeCheck

Contract(type, blame, form) == Form("contract", <<type, blame>>, <<form>>)

\* expr in Mode::Fn.
RECURSIVE LowerExpr(_)
LowerExpr(e) ==
  CASE e.k = "as" -> Contract(Resolve(e.s, {}), "cast", LowerExpr(e.xs[1]))
    [] e.k \in {"call", "binary"} -> Node(e.s, [i \in DOMAIN e.xs |-> LowerExpr(e.xs[i])])
    [] e.k = "ternary" -> Node("if", [i \in DOMAIN e.xs |-> LowerExpr(e.xs[i])])
    [] e.k = "id" -> Sym(e.s)
    [] OTHER -> Form(e.k, e.s, [i \in DOMAIN e.xs |-> LowerExpr(e.xs[i])])

-----------------------------------------------------------------------------
(* lower_stmts: what follows an if is copied into each branch that falls   *)
(* through, and a let is around all that comes after it.                   *)

RECURSIVE AlwaysReturns(_), LowerStmts(_), CondArms(_)
AlwaysReturns(stmts) ==
  stmts # <<>> /\ LET t == Last(stmts)
                  IN \/ t.k = "return"
                     \/ t.k = "if" /\ t.alt /\ AlwaysReturns(t.then) /\ AlwaysReturns(t.else)

\* Mutant: what follows an if is copied into its else alone.
DropRest(branch, rest) == branch
AppendIfFallsThrough(branch, rest) == IF AlwaysReturns(branch) THEN branch ELSE branch \o rest

IsGuard(t) == t.k = "if" /\ ~t.alt /\ Len(t.then) = 1 /\ t.then[1].k = "return"

\* cond_chain: guards in a row, up to a return or the first other statement.
CondArms(stmts) ==
  IF stmts # <<>> /\ IsGuard(stmts[1])
  THEN <<LowerExpr(stmts[1].e[1]), LowerExpr(stmts[1].then[1].e[1])>> \o CondArms(Tail(stmts))
  ELSE <<FKey("else"), LowerStmts(stmts)>>

LowerIf(t, rest) ==
  Node("if", <<LowerExpr(t.e[1]), LowerStmts(AppendIfFallsThrough(t.then, rest)),
               LowerStmts(IF t.alt THEN AppendIfFallsThrough(t.else, rest) ELSE rest)>>)
LowerStmts(stmts) ==
  IF stmts = <<>> THEN Sym("nil")
  ELSE LET t == stmts[1] rest == Tail(stmts)
       IN CASE t.k = "return" -> LowerExpr(t.e[1])
            [] t.k = "let" -> Form("let", t.n, <<LowerExpr(t.e[1]), LowerStmts(rest)>>)
            [] t.k = "if" -> IF IsGuard(t) /\ rest # <<>> THEN Node("cond", CondArms(stmts)) ELSE LowerIf(t, rest)
            [] t.k = "effect" -> IF rest = <<>> THEN LowerExpr(t.e[1])
                                 ELSE Node("do", <<LowerExpr(t.e[1]), LowerStmts(rest)>>)
            [] OTHER -> IF rest = <<>> THEN Node("throw", <<>>) ELSE LowerStmts(rest)

-----------------------------------------------------------------------------
(* compile_program: a typed function calls externs through their           *)
(* dispatchers and has a contract on each argument and on its return.      *)

RECURSIVE RewriteCalls(_, _)
RewriteCalls(form, names) ==
  [form EXCEPT !.k = IF @ = "node" /\ form.s \in names THEN "dispatch" ELSE @,
               !.xs = [i \in DOMAIN @ |-> RewriteCalls(@[i], names)]]

RECURSIVE ContractParams(_, _, _)
ContractParams(names, types, body) ==
  IF names = <<>> THEN body
  ELSE Form("let", <<names[1]>>, <<Contract(types[1], "argument", Sym(names[1])),
                                   ContractParams(Tail(names), Tail(types), body)>>)

DefnBody(fn, return, externs) ==
  LET body == LowerStmts(fn.body)
  IN IF ~IsTyped(fn) THEN body
     ELSE ContractParams([i \in DOMAIN fn.params |-> fn.params[i][1]], ParamTypes(fn),
                         Contract(return, "return", RewriteCalls(body, externs)))

-----------------------------------------------------------------------------
(* Contracts at run time (predicate_form).                                 *)

Val(c, d)   == [c |-> c, d |-> d, xs |-> <<>>]
Vec(xs)     == [c |-> "List", d |-> "", xs |-> xs]
MapOf(xs)   == [c |-> "Map", d |-> "", xs |-> xs]
NilValue    == Val("nil", "")
Thrown(who) == Val("thrown", who)
Truth(b)    == Val("Boolean", IF b THEN "true" ELSE "false")
Truthy(v)   == v # NilValue /\ v # Truth(FALSE)
EntriesOf(v) == [i \in 1..(Len(v.xs) \div 2) |-> <<v.xs[2 * i - 1], v.xs[2 * i]>>]

\* A class of a value and the classes it is an instance of (external).
Supers == [String |-> {"String"}, Long |-> {"Long", "Number"}, Integer |-> {"Integer", "Number"},
           Boolean |-> {"Boolean"}, Character |-> {"Character"}, Keyword |-> {}, List |-> {"List", "Collection", "Iterable", "Counted"},
           Set |-> {"Set", "Collection", "Iterable", "Counted"}, Map |-> {"Map", "Iterable", "Counted"}, fn |-> {}]
InstanceOf(v, class) == v.c \in DOMAIN Supers /\ class \in Supers[v.c] \cup {"Object"}

ClassHolds(v, class) == InstanceOf(v, class) \/ (class = "Long" /\ v.c = "Integer")

Invokable(v) == v.c \in {"fn", "Keyword", "List", "Set", "Map"}
RECURSIVE Holds(_, _)
Holds(t, v) ==
  CASE t.k = "nil" -> v.c = "nil"
    [] t.k = "never" -> FALSE
    [] t.k \in {"any", "unknown", "dynamic", "var"} -> TRUE
    [] t.k = "union" -> \E u \in t.ms : Holds(u, v)
    [] t.k = "fn" -> Invokable(v)
    [] t.k = "cap" ->
         IF t.s = "Transducer" THEN Invokable(v)
         ELSE IF t.s = "Countable" THEN v.c \in {"nil", "String"} \/ InstanceOf(v, "Counted")
         ELSE v.c \in {"nil", "String"} \/ InstanceOf(v, "Iterable")
    [] t.k = "jvm" ->
         /\ ClassHolds(v, t.s)
         /\ t.s \in {"List", "Set", "Collection", "Iterable"} /\ Len(t.xs) = 1 =>
              IF v.c = "Map" THEN \A i \in DOMAIN EntriesOf(v) : Holds(t.xs[1], Vec(EntriesOf(v)[i]))
              ELSE \A i \in DOMAIN v.xs : Holds(t.xs[1], v.xs[i])
         /\ t.s = "Map" /\ Len(t.xs) = 2 =>
              \A i \in DOMAIN EntriesOf(v) : Holds(t.xs[1], EntriesOf(v)[i][1]) /\ Holds(t.xs[2], EntriesOf(v)[i][2])

\* contract_call, function_contract: a function is wrapped in its type, and so is a
\* collection, which as a function looks up ("lookup").
Checked(type, blame, v) ==
  IF v.c = "thrown" THEN v
  ELSE IF ~Holds(type, v) THEN Thrown(blame)
  ELSE IF type.k # "fn" THEN v
  ELSE IF v.c = "fn" THEN [v EXCEPT !.xs = Append(@, type)] ELSE [Val("fn", "lookup") EXCEPT !.xs = <<type>>]

-----------------------------------------------------------------------------
(* extern_dispatcher_form: by specificity, then by declaration, the first  *)
(* overload whose contracts accept the arguments.                          *)

RECURSIVE RuntimeSpecificity(_)
Total(ns) == FoldLeft(+, 0, ns)
RuntimeSpecificity(t) ==
  CASE t.k = "jvm" -> 2 + Total([i \in DOMAIN t.xs |-> RuntimeSpecificity(t.xs[i])])
    [] t.k = "union" -> CHOOSE n \in {RuntimeSpecificity(u) : u \in t.ms} : \A u \in t.ms : n <= RuntimeSpecificity(u)
    [] t.k \in {"nil", "fn"} -> 2
    [] t.k = "never" -> 3
    [] t.k = "cap" -> 1
    [] OTHER -> 0
Specificity(sig) == Total([i \in DOMAIN sig.params |-> RuntimeSpecificity(sig.params[i])])

Accepts(sig, args) == Len(sig.params) = Len(args) /\ \A i \in DOMAIN args : Holds(sig.params[i], args[i])
Dispatch(overloads, args) ==
  LET is == {i \in DOMAIN overloads : Accepts(overloads[i], args)}
      Before(i, j) == LET m == Specificity(overloads[i]) n == Specificity(overloads[j]) IN m > n \/ (m = n /\ i < j)
  IN {overloads[i] : i \in {j \in is : \A k \in is \ {j} : Before(j, k)}}
=============================================================================
