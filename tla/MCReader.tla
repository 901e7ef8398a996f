------------------------------ MODULE MCReader ------------------------------
(* Modules of three items and statements in all, of a pool, and an op that    *)
(* returns each expression with an operand of an operand of every kind; five  *)
(* files of forms and every two edits of them.                                *)
EXTENDS RamaSource

MCIdents == {"a", "b", "f", "keypath", "T", "U", "T?", "Nil", "NONE>", "topology", "subindexed"}
A == Id("a")
B == Id("b")
Lit(t) == Expr("lit", t, <<>>)
T == Expr("type", "T", <<>>)
U == Expr("type", "U", <<>>)
Pair == Qualified(<<"a", "b">>, Expr("type", "T", <<T, Nullable(U)>>))
CastTo(e, type) == Expr("as", "", <<e, type>>)
Types == {T, Nullable(T), Pair, Expr("union", "", <<T, Nullable(U)>>), Expr("fn", "", <<T, U, Nullable(T)>>),
          Expr("fn", "", <<Expr("union", "", <<T, U>>)>>)}

Atoms == {A, Lit("1"), Call("f", <<>>), Call(">", <<A, Lit("s")>>)}
Small == Atoms \cup {CastTo(A, T), Binary("==", A, B), Ternary(A, B, Lit(":k"))}
Deep ==
  Small \cup {CastTo(e, t) : e \in Small, t \in Types}
  \cup {Binary("!=", e, d) : e \in Small \cup {CastTo(B, Nullable(T))}, d \in Small}
  \cup {Ternary(e, d, c) : e \in Small \cup {Binary("==", A, CastTo(B, T))}, d \in Small \ Atoms, c \in {A} \cup (Small \ Atoms)}
  \cup {Call("f", <<e, d>>) : e \in Small, d \in Small}
  \cup {Collection("list", <<e, d>>) : e \in Small, d \in Small}
  \cup {Collection("map", <<Expr("entry", "", <<e>>), Expr("entry", "", <<d, c>>)>>) : e \in Atoms, d \in Small, c \in {A} \cup (Small \ Atoms)}

\* Statements that follow one another in every order, and every expression once.
Cell == Call("keypath", <<A>>)
Rows ==
  {Let(<<"a">>, B), Statement("destructure", <<"a">>, <<Call("f", <<A>>)>>),
   FailIf(Lit("s"), Binary("==", A, B)), FailIf(A, B),
   Select("$$p", <<A, CastTo(B, T)>>, "b"), Statement("select-keys", <<"$$p", "a", "b">>, <<A>>),
   Transform("$$p", <<A, Id("NONE>")>>), Hash(A), Return(CastTo(A, Nullable(T))), Return(A),
   Effect(Call(">", <<A, B>>)), Effect(Collection("list", <<A>>)), Effect(Binary("==", Binary("==", A, B), B)),
   Effect(Lit(":k"))}
MCStmts ==
  Rows \cup {If(A, <<t>>) : t \in Rows} \cup {IfElse(Binary("!=", A, B), <<t, Return(A)>>, <<>>) : t \in Rows}
MCOnce == {Return(e) : e \in Deep}

ParamOf(name, types) == Expr("param", name, types)
Operation(kind, params, ret, body) == Expr(kind, "a", <<params, ret, body>>)
Named(name) == Expr("named", name, <<>>)
MapOf(at, k, v) == Expr("map", at, <<k, v>>)
Declarations ==
  {Expr("module", "", <<<<"a", "b">>, <<"T">>, <<>>>>), Expr("module", "", <<<<"a">>, <<>>, <<"b">>>>),
   Expr("struct", "T", <<Expr("field", ":k", <<Named("U")>>),
                         Expr("field", ":k", <<MapOf("", Named("T"), Named("Object"))>>)>>),
   Expr("pstate", "$$p", <<MapOf("subindexed", Named("T"), MapOf("", Named("T"), Named("U")))>>),
   Expr("pstate", "$$p", <<Named("T")>>),
   Expr("depot", "b", <<"a", "s">>)}
  \cup {Expr("extern", "f", <<<<>>, <<"a", "b", "+">>, <<ParamOf("a", <<t>>), ParamOf("b", <<>>)>>, <<t>>>>) : t \in Types}
  \cup {Expr("extern", "f", <<<<"T", "U">>, <<>>, <<>>, <<T>>>>)}
Empty == {Operation("op", <<ParamOf("a", <<>>)>>, <<>>, <<>>)}
         \cup {Operation("function", <<ParamOf("a", <<t>>), ParamOf("b", <<>>)>>, ret, <<>>) :
                 t \in {Nullable(T)}, ret \in {<<>>, <<Pair>>}}
MCModules == {<<>>} \cup {<<Operation("op", <<>>, <<>>, <<t>>)>> : t \in MCOnce}
MCItems == Declarations \cup Empty

MCSexpFiles ==
  {<<"(", "a", "-", "1", ")", "\n", "(", "[", "'", "a", "]", ")">>,
   <<"(", "{", ":", "a", " ", "\"", "\\", "\"", "\"", "}", ")">>,
   <<"(", "#", "{", "nil", " ", "1", "}", ";", "a", "\n", ")">>,
   <<"(", "#", "\"", "a", "\"", " ", "/", "/", "a", "\n", "-", "1", ")">>,
   <<"#!clj", "(", "\"", "\t", "\\", "n", "ESC", "\"", " ", "0", "1", ")">>}
MCPieces == {"(", ")", "}", "#", "'", ":", " ", "a", "1", "0", "\\"}
MCNullables == "T?" :> "T"
=============================================================================
