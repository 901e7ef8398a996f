------------------------------- MODULE MCOps -------------------------------
(* Every op of up to four statements of a pool, on a typed or an untyped     *)
(* event.  The pool has lets, lifted ternaries (one reads a field by a         *)
(* keyword), guards, a select, two writes, a hop, and ifs with these inside.  *)
EXTENDS OpPipeline, TLC

X == Id("x")
Name(param) == Call("get", <<Id(param), Str("name")>>)
Cell(e) == Call("keypath", <<e>>)
Put(e) == Transform("p", <<Cell(X), Call("termval", <<e>>)>>)
IsNil == Call("nil?", <<X>>)

Pool(param) ==
  {Let(<<"x">>, Name(param)),
   Let(<<"x">>, Ternary(IsNil, Str("a"), X)),
   Let(<<"x">>, Call("or", <<X, Ternary(IsNil, Str("a"), X)>>)),
   Let(<<"x">>, Ternary(Call("nil?", <<Name(param)>>), Str("a"), Call("get", <<Id(param), Key("name")>>))),
   Let(<<"x">>, Id("nil")),
   Let(<<"name", "n">>, Id(param)),
   FailIf(Str("no-name"), IsNil),
   FailIf(Ternary(IsNil, Str("a"), X), Binary("=", X, Str("a"))),
   Select("q", <<Cell(X)>>, "x"),
   Put(Call("get", <<Id(param), Key("n")>>)),
   Transform("q", <<Cell(Str("a")), Id("NONE>")>>),
   Hash(X),
   If(Call("some?", <<X>>), <<Hash(X)>>),
   IfElse(IsNil, <<Effect(X)>>, <<Put(Str("a")), Select("q", <<Cell(X)>>, "x")>>),
   Return(Call("or", <<X, Str("a")>>))}

\* Rejected: an undeclared PState, a navigator used as a key, a transform that writes
\* nothing, a cast, an if too deep.
Rejects ==
  {<<Select("r", <<Cell(Str("a"))>>, "x")>>,
   <<Transform("p", <<Call("keypath", <<Str("a"), Id("AFTER-ELEM")>>), Call("termval", <<X>>)>>)>>,
   <<Transform("p", <<Cell(X), Call("nil->val", <<Str("a")>>)>>)>>,
   <<Return(As(X, "Long"))>>,
   <<If(X, <<If(X, <<If(X, <<Effect(X)>>)>>)>>)>>}

\* A body is scoped when x is bound before it is read.
Reads(t) == \E e \in Exprs(t) : e.k = "id" /\ e.s = "x"
Binds(t) == t.k = "let" /\ t.n = <<"x">>
Scoped(body) == body = <<>> \/ (Binds(body[1]) /\ ~Reads(body[1]))
Bodies(param, n) == {b \in UNION {[1..i -> Pool(param)] : i \in 0..n} : Scoped(b)}

Op(param, spec, body) == [name |-> "o", param |-> param, spec |-> spec, body |-> body]
MCOpSet ==
  {Op("event", <<>>, b) : b \in Bodies("event", 4)}
  \cup {Op("e", << <<"name", "string">>, <<"n", "long">> >>, b) : b \in Bodies("e", 4)}
  \cup {Op("e", << <<"name", "any">> >>, b) : b \in Bodies("e", 3)}
  \cup {Op("event", <<>>, b) : b \in Rejects}

MCEvents == {[name |-> "a", n |-> "1i"], [name |-> "1", n |-> "1"], [name |-> "nil", n |-> "a"]}
MCValues == {"nil", "a", "1", "1i", "unbound"}
=============================================================================
