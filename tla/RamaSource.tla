----------------------------- MODULE RamaSource -----------------------------
(***************************************************************************)
(* A .rama file while its author writes it, and what compile() of          *)
(* src/lib.rs reads in it: a module, item by item and statement by         *)
(* statement, or a file of Clojure forms, edited character by character.   *)
(***************************************************************************)
EXTENDS RamaParser, TLC

CONSTANTS
  Words, Unprintable,
  Modules,     \* the modules an author starts from
  Items,       \* the items they may be given, an op with no body yet
  Stmts,       \* the statements its last op may be given
  SexpFiles,   \* the files of forms an author starts from
  Pieces,      \* the characters typed into them
  MaxParts,    \* the items and statements of a module
  MaxEdits     \* the edits of a file of forms

Sexp == INSTANCE SexpReader

VARIABLES
  source,      \* the file: tokens of a module, characters of a file of forms
  written,     \* the items its author meant
  edits        \* how often a file of forms was edited
vars == <<source, written, edits>>

-----------------------------------------------------------------------------
(* How an author spells a tree: parentheses where an operand binds less    *)
(* tightly than its place, commas between arguments, no separator between  *)
(* statements.                                                             *)

Join(rows, sep) ==
  FoldRight(LAMBDA row, all : IF all = <<>> THEN row ELSE row \o sep \o all, rows, <<>>)

RECURSIVE SpellType(_), SpellSchema(_), Spell(_), SpellStmt(_)
SpellType(t) ==
  CASE t.k = "union" ->
         IF Len(t.xs) = 2 /\ t.xs[2].s = "Nil" THEN SpellType(t.xs[1]) \o <<"?">>
         ELSE Join(Map(SpellType, t.xs), <<"|">>)
    [] t.k = "in" -> <<t.s, ".">> \o SpellType(t.xs[1])
    [] t.k = "fn" ->
         <<"Fn", "<", "(">> \o Join(Map(SpellType, Front(t.xs)), <<",">>) \o <<")", "->">> \o SpellType(Last(t.xs)) \o <<">">>
    [] OTHER ->
         <<t.s>> \o (IF t.xs = <<>> THEN <<>> ELSE <<"<">> \o Join(Map(SpellType, t.xs), <<",">>) \o <<">">>)
SpellSchema(t) ==
  IF t.k = "named" THEN <<t.s>>
  ELSE <<"Map", "<">> \o Join(Map(SpellSchema, t.xs), <<",">>) \o <<">">> \o (IF t.s = "" THEN <<>> ELSE <<"@", t.s>>)

Paren(e) == <<"(">> \o Spell(e) \o <<")">>
Level(e) == CASE e.k = "ternary" -> 0 [] e.k = "binary" -> 1 [] e.k = "as" -> 2 [] OTHER -> 3
At(level, e) == IF Level(e) < level THEN Paren(e) ELSE Spell(e)
\* A ? after a type makes it nullable.
EndsInType(e) == e.k = "as" \/ (e.k = "binary" /\ e.xs[2].k = "as")
Commas(es) == Join(Map(Spell, es), <<",">>)
\* A name before a parenthesis is called.
Calls(before, after) == before # <<>> /\ after # <<>> /\ Last(before) \in Callees /\ Head(after) = "("

Spell(e) ==
  CASE e.k = "call" -> <<e.s, "(">> \o Commas(e.xs) \o <<")">>
    [] e.k = "list" -> <<"[">> \o Commas(e.xs) \o <<"]">>
    [] e.k = "map" -> <<"{">> \o Commas(e.xs) \o <<"}">>
    [] e.k = "entry" ->
         LET key == Spell(e.xs[1])
             value == IF Len(e.xs) = 1 THEN <<>> ELSE Spell(e.xs[2])
         IN (IF Calls(key, value) THEN Paren(e.xs[1]) ELSE key) \o value
    [] e.k = "as" -> At(3, e.xs[1]) \o <<"as">> \o SpellType(e.xs[2])
    [] e.k = "binary" -> At(2, e.xs[1]) \o <<e.s>> \o At(2, e.xs[2])
    [] e.k = "ternary" ->
         (IF EndsInType(e.xs[1]) THEN Paren(e.xs[1]) ELSE At(1, e.xs[1]))
         \o <<"?">> \o Spell(e.xs[2]) \o <<":">> \o Spell(e.xs[3])
    [] OTHER -> <<e.s>>

Braced(names) == <<"{">> \o Join(Map(LAMBDA n : <<n>>, names), <<",">>) \o <<"}">>
SpellBlock(stmts) == <<"{">> \o FlattenSeq(Map(SpellStmt, stmts)) \o <<"}">>
SpellStmt(t) ==
  CASE t.k = "let" -> <<"let", t.n[1], "=">> \o Spell(t.e[1])
    [] t.k = "destructure" -> <<"let">> \o Braced(t.n) \o <<"=">> \o Spell(t.e[1])
    [] t.k = "fail" -> <<"fail">> \o Spell(t.e[1]) \o <<"if">> \o Spell(t.e[2])
    [] t.k = "select" -> <<t.n[1], "-->">> \o Commas(t.e) \o <<">", t.n[2]>>
    [] t.k = "select-keys" -> <<t.n[1], "-->">> \o Commas(t.e) \o <<">">> \o Braced(Tail(t.n))
    [] t.k = "transform" -> <<t.n[1], "!<--">> \o Commas(t.e)
    [] t.k = "return" -> <<"return">> \o Spell(t.e[1])
    [] t.k = "hash" -> <<"|hash">> \o Spell(t.e[1])
    [] t.k = "if" -> <<"if">> \o Paren(t.e[1]) \o SpellBlock(t.then) \o (IF t.alt THEN <<"else">> \o SpellBlock(t.else) ELSE <<>>)
    [] OTHER -> Spell(t.e[1])

Typed(sep, types) == IF types = <<>> THEN <<>> ELSE <<sep>> \o SpellType(types[1])
SpellParams(params) == <<"(">> \o Join(Map(LAMBDA p : <<p.s>> \o Typed(":", p.xs), params), <<",">>) \o <<")">>
Part(sep, names) == IF names = <<>> THEN <<>> ELSE <<sep>> \o names
Dotted(names) == Join(Map(LAMBDA n : <<n>>, names), <<".">>)
SpellItem(t) ==
  CASE t.k = "module" -> <<"module">> \o Dotted(t.xs[1]) \o Part("/", t.xs[2]) \o Part("topology", t.xs[3])
    [] t.k = "struct" -> <<"struct", t.s, "{">> \o FlattenSeq(Map(LAMBDA f : <<f.s>> \o SpellSchema(f.xs[1]), t.xs)) \o <<"}">>
    [] t.k = "pstate" -> <<"pstate", t.s, ":">> \o SpellSchema(t.xs[1])
    [] t.k = "depot" -> <<"depot", t.s, "keyed-by">> \o Join(Map(LAMBDA key : <<key>>, t.xs), <<"|">>)
    [] t.k = "op" -> <<"op", t.s>> \o SpellParams(t.xs[1]) \o SpellBlock(t.xs[3])
    [] t.k = "function" -> <<"fn", t.s>> \o SpellParams(t.xs[1]) \o Typed("->", t.xs[2]) \o SpellBlock(t.xs[3])
    [] OTHER ->
         <<"extern", t.s>> \o (IF t.xs[1] = <<>> THEN <<>> ELSE <<"<">> \o Join(Map(LAMBDA v : <<v>>, t.xs[1]), <<",">>) \o <<">">>)
         \o (IF t.xs[2] = <<>> THEN <<>> ELSE <<"=">> \o Dotted(Front(t.xs[2])) \o <<"/", Last(t.xs[2])>>)
         \o SpellParams(t.xs[3]) \o Typed("->", t.xs[4])

HasBody(item) == item.k \in {"op", "function"}

-----------------------------------------------------------------------------
(* compile: the mode is told from the first character.                     *)

IsSexp(file) == Sexp!LooksLikeSexp(file)
Tree == ParseFile(source)
Forms == Sexp!ReadDocument(source)

Init ==
  /\ edits = 0
  /\ \/ written \in Modules /\ source = FlattenSeq(Map(SpellItem, written))
     \/ written = <<>> /\ source \in SexpFiles

Parts == Len(written) + FoldSeq(LAMBDA item, n : n + (IF HasBody(item) THEN Len(item.xs[3]) ELSE 0), 0, written)

\* The author adds an item to a module.
WriteItem(item) ==
  /\ ~IsSexp(source) /\ edits = 0 /\ Parts < MaxParts
  /\ written' = Append(written, item)
  /\ source' = source \o SpellItem(item)
  /\ UNCHANGED edits

\* He adds a statement at the end of the last op or function; not one that starts with
\* a parenthesis right after a name.
WriteStmt(stmt) ==
  /\ ~IsSexp(source) /\ written # <<>> /\ Parts < MaxParts
  /\ LET item == Last(written)
         last == Front(source)
     IN /\ HasBody(item)
        /\ ~Calls(last, SpellStmt(stmt))
        /\ written' = [written EXCEPT ![Len(written)].xs[3] = Append(@, stmt)]
        /\ source' = last \o SpellStmt(stmt) \o <<"}">>
  /\ UNCHANGED edits

\* He edits a file of forms, behind its first character: one more, one less, one for
\* another.
Edit ==
  /\ IsSexp(source) /\ edits < MaxEdits
  /\ edits' = edits + 1
  /\ \E i \in 2..Len(source) + 1 :
       \/ \E c \in Pieces : source' = SubSeq(source, 1, i - 1) \o <<c>> \o SubSeq(source, i, Len(source))
       \/ i <= Len(source) /\ source' = RemoveAt(source, i)
       \/ \E c \in Pieces : i <= Len(source) /\ source' = [source EXCEPT ![i] = c]
  /\ UNCHANGED written

Next ==
  \/ \E item \in Items : WriteItem(item)
  \/ \E stmt \in Stmts : WriteStmt(stmt)
  \/ Edit

Spec == Init /\ [][Next]_vars

-----------------------------------------------------------------------------
(* Properties.                                                             *)

\* A module reads back as the items and statements its author wrote, with nothing but
\* the grammar to tell where one ends and the next begins: every tree can be spelled,
\* and no statement takes up the start of the next (parse.rs:215-247, 495-631).
SourceReadsBack == ~IsSexp(source) /\ edits = 0 => Tree = Hit(written, <<>>)

-----------------------------------------------------------------------------
(* What the reader of Clojure makes of a text (external): the lexemes      *)
(* [k, xs], by a scan that knows no nesting.  The reader of the files      *)
(* skips a // line, which is the one thing it adds to Clojure.             *)

Lexeme(k, xs) == [k |-> k, xs |-> xs]
Symbol(xs) == Lexeme("symbol", xs)

\* An integer is its value, one with leading zeros an octal.
DigitValue == [c \in Sexp!Digits |-> (CHOOSE i \in 1..10 : <<"0", "1", "2", "3", "4", "5", "6", "7", "8", "9">>[i] = c) - 1]
ValueOf(digits) == FoldLeft(LAMBDA n, c : 10 * n + DigitValue[c], 0, digits)
Number(token) ==
  LET digits == IF token[1] = "-" THEN Tail(token) ELSE token
      value == ValueOf(digits)
  IN IF digits[1] = "0" /\ value > 9 THEN Lexeme("octal", token)
     ELSE Lexeme("int", <<ToString(IF token[1] = "-" THEN -value ELSE value)>>)
Token(token) ==
  IF (token[1] = "-" \/ token[1] \in Sexp!Digits) /\ Sexp!IsInt(token) THEN Number(token) ELSE Symbol(token)

\* The length of a string, to its closing quote; how many of a row are escaped.
RECURSIVE StringLength(_), Unescaped(_)
StringLength(s) ==
  IF s = <<>> \/ s[1] = "\"" THEN 0
  ELSE IF s[1] = "\\" /\ Len(s) > 1 THEN 2 + StringLength(Sexp!From(s, 3)) ELSE 1 + StringLength(Tail(s))
\* A string is its characters, what Clojure reads by a rule of its own (\u0041, \0) or
\* not at all as its backslash and the next; a regex is left as it is written.
Meaning == ("n" :> "\n") @@ ("t" :> "\t") @@ ("r" :> "\r") @@ ("\"" :> "\"") @@ ("\\" :> "\\")
Unescaped(xs) ==
  IF xs = <<>> THEN <<>>
  ELSE IF xs[1] # "\\" \/ Len(xs) = 1 THEN <<<<xs[1]>>>> \o Unescaped(Tail(xs))
  ELSE <<IF xs[2] \in DOMAIN Meaning THEN <<Meaning[xs[2]]>> ELSE <<"\\", xs[2]>>>> \o Unescaped(Sexp!From(xs, 3))

RECURSIVE Lexemes(_)
Lexemes(text) ==
  LET s == Sexp!SkipTrivia(text)
      n == Sexp!TokenLength(s)
      Found(lexemes, k) == lexemes \o Lexemes(Sexp!From(s, k))
      Quoted(i, Of(_)) == LET chars == SubSeq(s, i, i + StringLength(Sexp!From(s, i)) - 1)
                          IN Found(Of(chars), i + Len(chars) + 1)
  IN IF s = <<>> THEN <<>>
     ELSE CASE s[1] = "\"" -> Quoted(2, LAMBDA chars : <<Lexeme("string", Unescaped(chars))>>)
            [] s[1] = "'" -> Found(<<Symbol(<<"quote">>)>>, 2)
            [] s[1] = "#" /\ Len(s) > 1 /\ s[2] = "{" -> Found(<<Symbol(<<"{">>), Symbol(<<"hash-set">>)>>, 3)
            [] s[1] = "#" /\ Len(s) > 1 /\ s[2] = "\"" ->
                 Quoted(3, LAMBDA chars : <<Symbol(<<"re-pattern">>), Lexeme("regex", Map(LAMBDA c : <<c>>, chars))>>)
            [] n = 0 -> Found(<<Symbol(<<s[1]>>)>>, 2)
            [] OTHER -> Found(<<Token(SubSeq(s, 1, n))>>, n + 1)

Bracket(l, set) == l.k = "symbol" /\ l.xs \in set
Opening == {<<"(">>, <<"[">>, <<"{">>}
Closing == {<<")">>, <<"]">>, <<"}">>}
\* The values of a text, in order; a regex is the string its pattern is made of.
Values(lexemes) ==
  Map(LAMBDA l : IF l.k = "regex" THEN Lexeme("string", l.xs) ELSE l,
      SelectSeq(lexemes, LAMBDA l : ~Bracket(l, Opening \cup Closing)))
CountIn(lexemes, set) == Len(SelectSeq(lexemes, LAMBDA l : Bracket(l, set)))
Finished(lexemes) ==
  /\ CountIn(lexemes, Opening) = CountIn(lexemes, Closing)
  /\ lexemes = <<>> \/ Last(lexemes) # Symbol(<<"quote">>)

\* What the way to the generated file changes, left out of the next property by name: a
\* number with leading zeros is read as decimal (sexp.rs:298); a backslash in a regex is
\* taken for an escape (sexp.rs:268); of a string's escapes all but five lose their
\* backslash (sexp.rs:268); and what {:?} writes as \u{..} Clojure does not read
\* (clj.rs:142).
KeepsItsMeaning(l) ==
  /\ l.k # "octal"
  /\ l.k = "regex" => <<"\\">> \notin ToSet(l.xs)
  /\ l.k = "string" => \A i \in DOMAIN l.xs : Len(l.xs[i]) = 1
  /\ l.k \in {"string", "regex"} => \A c \in Unprintable : <<c>> \notin ToSet(l.xs)

SaysAgain(text, forms, lexemes) ==
  /\ Values(Lexemes(text)) = Values(lexemes)
  /\ Sexp!ReadDocument(text) = forms
KeptIn(forms, lexemes) ==
  forms.ok /\ Finished(lexemes) /\ (\A i \in DOMAIN lexemes : KeepsItsMeaning(lexemes[i]))
  => SaysAgain(Sexp!RenderDocument(forms.v), forms, lexemes)


\* A file of forms that stops inside one is refused ("unclosed list", "unclosed map",
\* sexp.rs:173, 207).
UnfinishedIsRefused == IsSexp(source) /\ Forms.ok => Finished(Lexemes(Sexp!StripLeading(source)))
=============================================================================
