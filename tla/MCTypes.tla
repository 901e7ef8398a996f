------------------------------ MODULE MCTypes ------------------------------
(* Functions of every pair of a parameter and a return type with each body   *)
(* of a pool, functions with control flow, functions that call overloaded     *)
(* externs, and ops of two statements, or of three around a select, over     *)
(* two PStates.                                                              *)
EXTENDS TypedProgram, TLC

Text == Class("String")
Long == Class("Long")
Number == Class("Number")
X == Id("x")
IsNil == Call("nil?", <<X>>)
One == IntLit("1")

ParamPool == {Text, Long, Class("Integer"), Number, Boolean, Nil, AnyType, Unknown, Class("Object"),
              Either(<<Long, Nil>>), Either(<<Text, Long>>), ListOf(Long), ListOf(Number), ListOf(Either(<<Long, Nil>>)),
              Jvm("Collection", <<Long>>), Iterable(Number), Jvm("Map", <<Text, Long>>), Seqable(Long),
              Fn(<<Long>>, Long), Fn(<<Long>>, Number)}
BodyPool ==
  {<<Return(X)>>, <<Return(Collection("list", <<X>>))>>, <<Return(Ternary(IsNil, One, X))>>,
   <<Return(Call("inc", <<X>>))>>, <<Return(Call("first", <<X>>))>>, <<Return(Call("nth", <<X, One>>))>>,
   <<Return(Call("conj", <<X, Str("s")>>))>>, <<Return(Call("get", <<X, Str("s")>>))>>,
   <<Return(Call("count", <<X>>))>>, <<Return(Call("vec", <<X>>))>>, <<Return(Call("x", <<One>>))>>,
   <<Return(As(X, Long))>>, <<Return(Call("or", <<X, X>>))>>, <<Return(Key("a"))>>,
   <<Let(<<"y">>, Call("first", <<X>>)), If(Call("nil?", <<Id("y")>>), <<Return(One)>>), Return(Id("y"))>>}

\* Control flow, each with the type it needs.
Y == Id("y")
Even == Call("even?", <<X>>)
Bigger == Call(">", <<X, One>>)
Rest == {<<Return(X)>>, <<Let(<<"y">>, Call("inc", <<X>>)), Return(Y)>>,
         <<If(Bigger, <<Return(Call("inc", <<X>>))>>), Return(One)>>,
         <<If(Bigger, <<Return(One)>>), If(Even, <<Return(X)>>), Effect(X), Return(Call("inc", <<X>>))>>,
         <<IfElse(Bigger, <<Return(One)>>, <<Return(X)>>)>>}
Heads == {<<>>, <<IfElse(Even, <<Effect(X)>>, <<Return(One)>>)>>, <<If(Even, <<Effect(Bigger)>>)>>,
          <<IfElse(Even, <<If(Bigger, <<Return(One)>>)>>, <<Effect(X)>>)>>,
          <<If(Even, <<Let(<<"x">>, One), Return(X)>>)>>,
          <<If(Even, <<Let(<<"x">>, One)>>)>>, <<Let(<<"x">>, Call("inc", <<X>>))>>}
ControlPool == {h \o r : h \in Heads, r \in Rest}

Function(params, ret, body) == [name |-> "f", params |-> params, ret |-> ret, body |-> body]
NoOp == [param |-> "event", struct |-> "", body |-> <<>>]
Program(fn, externs, op) ==
  [fn |-> fn, externs |-> externs, op |-> op,
   structs |-> [Event |-> << <<"name", NamedSchema("String")>>, <<"n", NamedSchema("Long")>>, <<"ok", NamedSchema("Boolean")>> >>,
                Row |-> << <<"name", NamedSchema("String")>>, <<"n", NamedSchema("Long")>>, <<"ok", NamedSchema("Boolean")>> >>],
   pstates |-> [p |-> MapSchema(NamedSchema("String"), NamedSchema("Row")),
                q |-> MapSchema(NamedSchema("Long"), NamedSchema("String"))]]

FnPrograms ==
  {Program(Function(<< <<"x", <<t>> >> >>, <<r>>, body), <<>>, NoOp) : t \in ParamPool, r \in ParamPool, body \in BodyPool}
ControlPrograms ==
  {Program(Function(<< <<"x", <<Long>> >> >>, ret, body), <<>>, NoOp) : ret \in {<<Long>>, <<>>}, body \in ControlPool}

\* Overloads e of one argument and of two.
Overload(t, r) == Signature("e", {}, <<t>>, r)
ExternPrograms ==
  {Program(Function(<< <<"x", <<t>> >> >>, ret, <<Return(Call("e", <<X>>))>>),
           <<Overload(u, Text), Overload(v, Long), Signature("e", {}, <<AnyType, AnyType>>, Nil)>>, NoOp) :
     t \in {Long, Text, Number, ListOf(Long), Either(<<Text, Long>>)}, ret \in {<<Long>>, <<Text>>, <<>>},
     u \in {Text, ListOf(Number), AnyType}, v \in {Long, Number, Iterable(Long)}}

\* Ops of a typed event; f makes a String of a Long.
F == Function(<< <<"x", <<Long>> >> >>, <<Text>>, <<Return(Call("str", <<X>>))>>)
N == Id("n")
Name == Id("name")
Row(field) == <<Call("keypath", <<Name>>), Key(field)>>
Termval(e) == Call("termval", <<e>>)
OpPool ==
  {Let(<<"n">>, Call("inc", <<N>>)), Let(<<"name">>, Call("f", <<N>>)), Let(<<"name">>, N),
   Let(<<"ok">>, Binary("=", Name, Str("a"))),
   Select("p", <<Call("keypath", <<Name>>)>>, "n"), Statement("select", <<"p", "n", "name">>, <<Call("keypath", <<Name>>)>>),
   Statement("select", <<"p", "n">>, Row("n")), Select("q", <<Call("keypath", <<N>>)>>, "name"),
   Transform("p", Append(Row("n"), Termval(N))), Transform("p", Append(Row("name"), Termval(Id("ok")))),
   Transform("p", Append(Row("ok"), Termval(Name))), Transform("p", Append(Row("zz"), Termval(Name))),
   Transform("p", Append(Row("name"), Termval(Call("f", <<N>>)))),
   Transform("p", Row("n") \o <<Call("nil->val", <<One>>), Call("term", <<Id("inc")>>)>>),
   Transform("p", Append(Row("n"), Call("term", <<Id("str")>>))),
   Transform("p", Append(Row("n"), Call("term", <<Id("f")>>))),
   Transform("p", <<Call("keypath", <<Name>>), Termval(Collection("map", <<Key("name"), Name, Key("n"), N>>))>>),
   Transform("p", <<Call("keypath", <<Name>>), Termval(Collection("map", <<Key("ok"), Name>>))>>),
   Transform("p", <<Call("keypath", <<Name>>), Call("multi-path",
     <<Collection("list", <<Key("ok"), Termval(Id("ok"))>>), Collection("list", <<Key("n"), Termval(Id("nil"))>>)>>)>>),
   Transform("p", <<Call("keypath", <<Name>>), Id("NONE>")>>),
   Transform("q", <<Call("keypath", <<N>>), Termval(Name)>>), Transform("q", <<Call("keypath", <<Name>>), Termval(Name)>>),
   Transform("q", <<Call("keypath", <<Key("x")>>), Termval(Name)>>), Transform("p", <<Key("x"), Key("n"), Termval(N)>>),
   Transform("q", <<Call("keypath", <<N>>), Termval(Id("event"))>>),
   Transform("p", <<Call("keypath", <<Name>>), Termval(Collection("map", <<Str("n"), Name>>))>>),
   FailIf(Str("no"), Call("nil?", <<N>>)), If(Id("ok"), <<Let(<<"n">>, Str("s")), Transform("q", <<Call("keypath", <<N>>), Termval(Name)>>)>>)}
OpPrograms ==
  {Program(F, <<>>, [param |-> "event", struct |-> "Event", body |-> <<Let(<<"name", "n", "ok">>, Id("event"))>> \o b]) :
     b \in UNION {[1..i -> OpPool] : i \in 1..2}
           \cup {<<t, u, v>> : t \in OpPool, u \in {w \in OpPool : w.k = "select"}, v \in {w \in OpPool : w.k = "transform"}}}

MCFamilies == {FnPrograms, ControlPrograms, ExternPrograms, OpPrograms}

\* Of these, the ops of one transform alone: what a keyword does as a key is seen there.
TransformPrograms == {p \in OpPrograms : Len(p.op.body) = 2 /\ p.op.body[2].k = "transform"}
MCTransforms == {TransformPrograms}

L1 == Val("Long", "1")
Sa == Val("String", "a")
ValuePool == {NilValue, Sa, L1, Val("Long", "2"), Val("Integer", "1"), Truth(TRUE), Vec(<<>>), Vec(<<L1>>), Vec(<<NilValue>>),
              Vec(<<Sa>>), Vec(<<Val("Integer", "1"), L1>>), MapOf(<<Val("String", "s"), L1>>), MapOf(<<L1, Sa>>),
              Val("fn", "inc"), Val("fn", "str")}
MCArguments(p) == IF p.op.body = <<>> THEN {<<v>> : v \in ValuePool} ELSE {}
MCAnswers == {NilValue, Sa, L1}
MCEvents == {[name |-> Sa, n |-> Val("Integer", "1"), ok |-> Truth(FALSE)],
             [name |-> Sa, n |-> Val("Long", "2"), ok |-> Truth(TRUE)], [name |-> Sa, n |-> Sa, ok |-> Truth(TRUE)]}
=============================================================================
