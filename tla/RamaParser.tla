----------------------------- MODULE RamaParser -----------------------------
(***************************************************************************)
(* The grammar of src/parse.rs over the tokens of src/lex.rs: ordered      *)
(* choice, optional and repeated parts that give back what they could not  *)
(* use, no separator between statements.  A token is a string; an operator *)
(* takes the tokens ahead and returns what it parsed and what is left.     *)
(*                                                                         *)
(* Items and types are expressions too: an op or a function [k, s, xs] has *)
(* its parameters, its return type and its body in xs.                     *)
(***************************************************************************)
EXTENDS RamaAst

CONSTANTS
  Idents,       \* the identifiers of a file
  Nullables,    \* the identifiers that end in ?, with the type they make nullable
  Keywords,     \* :name
  Literals,     \* strings, integers and booleans
  StringTokens, \* the strings among them
  PStateRefs    \* $$name

Callees == Idents \cup {">=", ">", "="}

Hit(v, rest) == [ok |-> TRUE, v |-> v, rest |-> rest]
Miss == [ok |-> FALSE, v |-> <<>>, rest |-> <<>>]
Take(T, s) == IF s # <<>> /\ s[1] \in T THEN Hit(s[1], Tail(s)) ELSE Miss
Then(r, K(_, _)) == IF r.ok THEN K(r.v, r.rest) ELSE Miss
OrElse(r, other) == IF r.ok THEN r ELSE other
Build(r, F(_)) == IF r.ok THEN Hit(F(r.v), r.rest) ELSE Miss
After(t, s, P(_)) == Then(Take({t}, s), LAMBDA v, rest : P(rest))
Before(r, t) == Then(r, LAMBDA v, rest : Build(Take({t}, rest), LAMBDA u : v))

\* One of a kind, and a row of them: separated by `sep` ("" for nothing, "?," for an
\* optional comma), a last separator allowed when `trailing`.
RECURSIVE Parse(_, _), More(_, _, _, _, _)
More(kind, sep, trailing, s, row) ==
  LET cut == IF row = <<>> \/ sep = "" THEN Hit("", s)
             ELSE IF sep = "?," THEN OrElse(Take({","}, s), Hit("", s)) ELSE Take({sep}, s)
      next == Then(cut, LAMBDA v, rest : Parse(kind, rest))
  IN IF next.ok THEN More(kind, sep, trailing, next.rest, Append(row, next.v))
     ELSE Hit(row, IF trailing /\ cut.ok THEN cut.rest ELSE s)
Row(kind, sep, trailing, s) == More(kind, sep, trailing, s, <<>>)
Row1(kind, sep, s) == Then(Row(kind, sep, FALSE, s), LAMBDA row, rest : IF row = <<>> THEN Miss ELSE Hit(row, rest))
Bracketed(open, close, s, kind, sep) == After(open, s, LAMBDA r : Before(Row(kind, sep, TRUE, r), close))

\* A part that may be missing: a row of none or one.
Maybe(r, s) == OrElse(Build(r, LAMBDA v : <<v>>), Hit(<<>>, s))

-----------------------------------------------------------------------------
(* Types: value_type_expr, and type_expr of a schema.                      *)

Nullable(type) == Expr("union", "", <<type, Expr("type", "Nil", <<>>)>>)
Qualified(path, type) == FoldRight(LAMBDA name, t : Expr("in", name, <<t>>), path, type)
NamedType(s) ==
  Then(Row1("segment", ".", s), LAMBDA path, rest :
    LET last == Last(path)
        args == OrElse(Bracketed("<", ">", rest, "type", ","), Hit(<<>>, rest))
        type(name) == Qualified(Front(path), Expr("type", name, args.v))
    IN Hit(IF last \in DOMAIN Nullables THEN Nullable(type(Nullables[last])) ELSE type(last), args.rest))
FnType(s) ==
  After("Fn", s, LAMBDA a : After("<", a, LAMBDA b :
    Then(Bracketed("(", ")", b, "type", ","), LAMBDA params, c :
      After("->", c, LAMBDA d :
        Before(Build(Parse("type", d), LAMBDA ret : Expr("fn", "", Append(params, ret))), ">")))))
NullableType(s) ==
  Then(OrElse(FnType(s), NamedType(s)), LAMBDA type, rest :
    OrElse(Build(Take({"?"}, rest), LAMBDA v : Nullable(type)), Hit(type, rest)))
ValueType(s) ==
  Build(Row1("nullable", "|", s), LAMBDA types : IF Len(types) = 1 THEN types[1] ELSE Expr("union", "", types))

SchemaType(s) ==
  OrElse(
    After("Map", s, LAMBDA a : After("<", a, LAMBDA b :
      Then(Before(Parse("schema", b), ","), LAMBDA key, c :
        Then(Before(Parse("schema", c), ">"), LAMBDA value, d :
          LET at == Maybe(After("@", d, LAMBDA e : Take(Idents, e)), d)
          IN Hit(Expr("map", IF at.v = <<"subindexed">> THEN "subindexed" ELSE "", <<key, value>>), at.rest))))),
    Build(Take(Idents \cup {"Object"}, s), LAMBDA name : Expr("named", name, <<>>)))

-----------------------------------------------------------------------------
(* Expressions, from the tightest.                                         *)

CallOrIdent(s) ==
  Then(Take(Callees, s), LAMBDA name, rest :
    OrElse(Build(Bracketed("(", ")", rest, "expr", "?,"), LAMBDA args : Call(name, args)), Hit(Id(name), rest)))
AtomExpr(s) ==
  OrElse(After("(", s, LAMBDA r : Before(Parse("expr", r), ")")),
  OrElse(CallOrIdent(s),
  OrElse(Build(Bracketed("[", "]", s, "expr", "?,"), LAMBDA xs : Collection("list", xs)),
  OrElse(Build(Bracketed("{", "}", s, "entry", "?,"), LAMBDA xs : Collection("map", xs)),
         Build(Take(Literals \cup Keywords, s), LAMBDA t : Expr("lit", t, <<>>))))))
Entry(s) ==
  Then(Parse("expr", s), LAMBDA key, rest :
    Build(Maybe(Parse("expr", rest), rest), LAMBDA value : Expr("entry", "", <<key>> \o value)))
Cast(s) ==
  Then(AtomExpr(s), LAMBDA e, rest :
    OrElse(Build(After("as", rest, ValueType), LAMBDA type : Expr("as", "", <<e, type>>)), Hit(e, rest)))
\* Mutant: the right side of a comparison is a whole expression.
GreedyEquality(s) ==
  Then(Cast(s), LAMBDA l, rest :
    OrElse(Then(Take({"==", "!="}, rest), LAMBDA op, r : Build(Parse("expr", r), LAMBDA e : Binary(op, l, e))),
           Hit(l, rest)))
Equality(s) ==
  Then(Cast(s), LAMBDA l, rest :
    OrElse(Then(Take({"==", "!="}, rest), LAMBDA op, r : Build(Cast(r), LAMBDA e : Binary(op, l, e))),
           Hit(l, rest)))
Expression(s) ==
  Then(Equality(s), LAMBDA cond, rest :
    OrElse(After("?", rest, LAMBDA a :
             Then(Before(Parse("expr", a), ":"), LAMBDA yes, b :
               Build(Parse("expr", b), LAMBDA no : Ternary(cond, yes, no)))),
           Hit(cond, rest)))

-----------------------------------------------------------------------------
(* Statements and items, tried in the order of the code.                   *)

Names(s) == After("{", s, LAMBDA r : Before(Row1("ident", ",", r), "}"))
LetStmt(s) ==
  After("let", s, LAMBDA r :
    OrElse(Then(Before(Names(r), "="), LAMBDA names, rest :
             Build(Expression(rest), LAMBDA e : Statement("destructure", names, <<e>>))),
           Then(Before(Take(Idents, r), "="), LAMBDA name, rest :
             Build(Expression(rest), LAMBDA e : Let(<<name>>, e)))))
FailStmt(s) ==
  After("fail", s, LAMBDA r :
    Then(Before(Expression(r), "if"), LAMBDA value, rest : Build(Expression(rest), LAMBDA c : FailIf(value, c))))
SelectStmt(s) ==
  Then(Before(Take(PStateRefs, s), "-->"), LAMBDA p, r :
    Then(Before(Row1("expr", ",", r), ">"), LAMBDA path, rest :
      OrElse(Build(Names(rest), LAMBDA names : Statement("select-keys", <<p>> \o names, path)),
             Build(Take(Idents, rest), LAMBDA name : Select(p, path, name)))))
TransformStmt(s) ==
  Then(Before(Take(PStateRefs, s), "!<--"), LAMBDA p, r :
    Build(Row1("expr", ",", r), LAMBDA path : Transform(p, path)))
ParseBlock(s) == After("{", s, LAMBDA r : Before(Row("stmt", "", FALSE, r), "}"))
IfStmt(s) ==
  After("if", s, LAMBDA a : After("(", a, LAMBDA b :
    Then(Before(Expression(b), ")"), LAMBDA c, r :
      Then(ParseBlock(r), LAMBDA then, rest :
        OrElse(Build(After("else", rest, ParseBlock), LAMBDA else : IfElse(c, then, else)),
               Hit(If(c, then), rest))))))
Stmt(s) ==
  OrElse(LetStmt(s), OrElse(FailStmt(s),
  OrElse(Build(After("return", s, Expression), Return),
  OrElse(SelectStmt(s), OrElse(TransformStmt(s),
  OrElse(Build(After("|hash", s, Expression), Hash),
  OrElse(IfStmt(s), Build(Expression(s), Effect))))))))

TypeOf(s) == Maybe(After(":", s, ValueType), s)
Param(s) == Then(Take(Idents, s), LAMBDA name, r : Build(TypeOf(r), LAMBDA type : Expr("param", name, type)))
Params(s) == Bracketed("(", ")", s, "param", ",")
Body(name, params, ret, s, kind) == Build(ParseBlock(s), LAMBDA body : Expr(kind, name, <<params, ret, body>>))
OpItem(s) ==
  After("op", s, LAMBDA a : Then(Take(Idents, a), LAMBDA name, b :
    Then(Params(b), LAMBDA params, c : Body(name, params, <<>>, c, "op"))))
FnItem(s) ==
  After("fn", s, LAMBDA a : Then(Take(Idents, a), LAMBDA name, b :
    Then(Params(b), LAMBDA params, c :
      Then(Maybe(After("->", c, ValueType), c), LAMBDA ret, d : Body(name, params, ret, d, "function")))))
Variable(s) ==
  Then(Before(Row1("ident", ".", s), "/"), LAMBDA ns, r : Build(Take(Idents \cup {"+"}, r), LAMBDA n : Append(ns, n)))
ExternItem(s) ==
  After("extern", s, LAMBDA a : Then(Take(Idents, a), LAMBDA name, b :
    Then(OrElse(Bracketed("<", ">", b, "ident", ","), Hit(<<>>, b)), LAMBDA vars, c :
      Then(OrElse(After("=", c, Variable), Hit(<<>>, c)), LAMBDA target, d :
        Then(Before(Params(d), "->"), LAMBDA params, e :
          Then(ValueType(e), LAMBDA ret, f :
            Hit(Expr("extern", name, <<vars, target, params, <<ret>>>>), OrElse(Take({";"}, f), Hit("", f)).rest)))))))
ModuleItem(s) ==
  After("module", s, LAMBDA a : Then(Row1("ident", ".", a), LAMBDA path, b :
    Then(Maybe(After("/", b, LAMBDA c : Take(Idents, c)), b), LAMBDA class, d :
      Then(Maybe(After("topology", d, LAMBDA e : Take(Idents, e)), d), LAMBDA topology, e :
        Hit(Expr("module", "", <<path, class, topology>>), e)))))
Field(s) == Then(Take(Keywords, s), LAMBDA name, r : Build(SchemaType(r), LAMBDA type : Expr("field", name, <<type>>)))
StructItem(s) ==
  After("struct", s, LAMBDA a : Then(Take(Idents, a), LAMBDA name, b :
    Build(After("{", b, LAMBDA c : Before(Row("field", "", FALSE, c), "}")), LAMBDA fields : Expr("struct", name, fields))))
PStateItem(s) ==
  After("pstate", s, LAMBDA a : Then(Before(Take(PStateRefs, a), ":"), LAMBDA p, b :
    Build(SchemaType(b), LAMBDA type : Expr("pstate", p, <<type>>))))
DepotItem(s) ==
  After("depot", s, LAMBDA a : Then(Before(Take(Idents, a), "keyed-by"), LAMBDA name, b :
    Build(Row1("key", "|", b), LAMBDA keys : Expr("depot", name, keys))))
Item(s) ==
  OrElse(ModuleItem(s), OrElse(StructItem(s), OrElse(PStateItem(s), OrElse(DepotItem(s),
  OrElse(OpItem(s), OrElse(FnItem(s), ExternItem(s)))))))

Parse(kind, s) ==
  CASE kind = "expr" -> Expression(s)
    [] kind = "entry" -> Entry(s)
    [] kind = "stmt" -> Stmt(s)
    [] kind = "type" -> ValueType(s)
    [] kind = "nullable" -> NullableType(s)
    [] kind = "schema" -> SchemaType(s)
    [] kind = "segment" -> Take(Idents \cup {"Map", "Object"}, s)
    [] kind = "ident" -> Take(Idents, s)
    [] kind = "key" -> Take(Idents \cup StringTokens, s)
    [] kind = "param" -> Param(s)
    [] kind = "field" -> Field(s)
    [] kind = "item" -> Item(s)

ParseFile(s) ==
  Then(Row("item", "", FALSE, s), LAMBDA items, rest : IF rest = <<>> THEN Hit(items, rest) ELSE Miss)
=============================================================================
