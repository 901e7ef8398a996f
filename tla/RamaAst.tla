------------------------------ MODULE RamaAst ------------------------------
(***************************************************************************)
(* The syntax trees of src/ast.rs and the forms of src/clj.rs, without     *)
(* spans.  An expression is [k, s, xs]: kind, name or literal, operands; a *)
(* statement [k, n, e, then, else, alt]: kind, names, expressions, and the *)
(* branches of an if, alt telling whether it has an else; a form           *)
(* [k, s, xs, to], `to` being what stands behind its :>, as pairs of a     *)
(* variable and the key it takes ("" for the whole value).                 *)
(***************************************************************************)
EXTENDS Integers, Sequences, FiniteSets, SequencesExt

Expr(k, s, xs) == [k |-> k, s |-> s, xs |-> xs]
Id(name)       == Expr("id", name, <<>>)
Str(s)         == Expr("str", s, <<>>)
Key(s)         == Expr("key", s, <<>>)
Call(f, args)  == Expr("call", f, args)
Binary(op, l, r)    == Expr("binary", op, <<l, r>>)
Ternary(c, t, e)    == Expr("ternary", "", <<c, t, e>>)
As(e, type)         == Expr("as", type, <<e>>)
Collection(k, xs)   == Expr(k, "", xs)       \* "list", or "map" with its entries in a row

Statement(k, n, e) == [k |-> k, n |-> n, e |-> e, then |-> <<>>, else |-> <<>>, alt |-> FALSE]
Let(names, e)         == Statement("let", names, <<e>>)
Select(p, path, name) == Statement("select", <<p, name>>, path)
Transform(p, path)    == Statement("transform", <<p>>, path)
FailIf(v, c)          == Statement("fail", <<>>, <<v, c>>)
Return(e)             == Statement("return", <<>>, <<e>>)
Hash(e)               == Statement("hash", <<>>, <<e>>)
Effect(e)             == Statement("effect", <<>>, <<e>>)
If(c, then)           == [Statement("if", <<>>, <<c>>) EXCEPT !.then = then]
IfElse(c, then, else) == [Statement("if", <<>>, <<c>>) EXCEPT !.then = then, !.else = else, !.alt = TRUE]

Form(k, s, xs) == [k |-> k, s |-> s, xs |-> xs, to |-> <<>>]
Sym(s)    == Form("sym", s, <<>>)            \* a symbol of Clojure or Rama
Var(s)    == Form("var", s, <<>>)            \* *s
PState(s) == Form("pstate", s, <<>>)         \* $$s
FStr(s)   == Form("str", s, <<>>)
FKey(s)   == Form("key", s, <<>>)
Node(head, xs) == Form("node", head, xs)     \* (head xs ...)
To(form, to)   == [form EXCEPT !.to = to]

Map(Op(_), xs) == [i \in DOMAIN xs |-> Op(xs[i])]
UnionOver(Op(_), xs) == UNION {Op(xs[i]) : i \in DOMAIN xs}
ExistsIn(Op(_), xs) == \E i \in DOMAIN xs : Op(xs[i])

\* walk_expr and walk_block: an expression and what is inside it, the statements of a
\* block and of its branches.
RECURSIVE Within(_), Block(_)
Within(e) == {e} \cup UnionOver(Within, e.xs)
Block(stmts) ==
  UNION {{stmts[i]} \cup Block(stmts[i].then) \cup Block(stmts[i].else) : i \in DOMAIN stmts}
Exprs(stmt) == UnionOver(Within, stmt.e)
=============================================================================
