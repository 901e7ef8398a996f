----------------------------- MODULE SexpReader -----------------------------
(***************************************************************************)
(* S-expression mode: sexp.rs reads a file of Clojure forms, and clj.rs    *)
(* renders them.  A file is a sequence of characters, letters and digits   *)
(* that no rule tells apart standing as one, and so the marker "#!clj"; a  *)
(* form keeps its characters in xs.  Layout is abstracted: render's        *)
(* newlines and indents are blanks.                                        *)
(***************************************************************************)
EXTENDS RamaAst

CONSTANTS
  Words,       \* the characters that are nil, true or false when alone
  Unprintable  \* the characters that {:?} writes by their number

Marker == "#!clj"
Digits == {"0", "1", "2", "3", "4", "5", "6", "7", "8", "9"}
Blank == {" ", "\n", "\t", "\r"}
Delimiters == Blank \cup {"(", ")", "[", "]", "{", "}", "\"", ";", ","}
Escapable == [t \in {"\\", "\""} |-> t] @@ ("n" :> "\n") @@ ("t" :> "\t") @@ ("r" :> "\r")

\* What a parser returns: what it read and what is left, or where it stopped, having
\* pushed a diagnostic or not.
Hit(v, rest) == [ok |-> TRUE, v |-> v, rest |-> rest, error |-> FALSE]
Miss(rest)   == [ok |-> FALSE, v |-> <<>>, rest |-> rest, error |-> TRUE]
AtEnd        == [ok |-> FALSE, v |-> <<>>, rest |-> <<>>, error |-> FALSE]

From(s, i) == SubSeq(s, i, Len(s))
IsComment(s) == s # <<>> /\ (s[1] = ";" \/ (Len(s) > 1 /\ SubSeq(s, 1, 2) = <<"/", "/">>))

RECURSIVE SkipTrivia(_)
SkipTrivia(s) ==
  IF s # <<>> /\ s[1] \in Blank THEN SkipTrivia(Tail(s))
  ELSE IF IsComment(s)
  THEN LET eol == SelectInSeq(s, LAMBDA c : c = "\n")
       IN IF eol = 0 THEN <<>> ELSE SkipTrivia(From(s, eol + 1))
  ELSE s

\* strip_leading_trivia: comments and markers, in any order and number.
RECURSIVE StripLeading(_)
MarkerFirst(s) == s # <<>> /\ s[1] = Marker
StripMarker(s) == IF MarkerFirst(s) THEN StripLeading(Tail(s)) ELSE s
StripLeading(s) == StripMarker(SkipTrivia(s))
LooksLikeSexp(s) == LET t == StripLeading(s) IN t # <<>> /\ t[1] = "("

\* read_token_body: up to a delimiter or a comment.
TokenLength(s) ==
  LET stops == {i \in DOMAIN s : s[i] \in Delimiters \/ (s[i] = "/" /\ IsComment(From(s, i)))}
  IN IF stops = {} THEN Len(s) ELSE (CHOOSE i \in stops : \A j \in stops : i <= j) - 1

IsInt(token) ==
  LET digits == IF token[1] = "-" THEN Tail(token) ELSE token
  IN digits # <<>> /\ ToSet(digits) \subseteq Digits
\* An i64 that was parsed is printed by its value: no leading zeros, no sign on zero.
Unsigned(token) ==
  LET digits == IF token[1] = "-" THEN Tail(token) ELSE token
      first == SelectInSeq(digits, LAMBDA c : c # "0")
  IN IF first = 0 THEN <<"0">> ELSE From(digits, first)
Reprinted(token) ==
  (IF token[1] = "-" /\ Unsigned(token) # <<"0">> THEN <<"-">> ELSE <<>>) \o Unsigned(token)
Atom(token) ==
  IF Len(token) = 1 /\ token[1] \in Words THEN Form("word", "", token)
  ELSE IF (token[1] = "-" \/ token[1] \in Digits) /\ IsInt(token) THEN Form("int", "", Reprinted(token))
  ELSE Form("sym", "", token)

ReadAtom(s) ==
  LET n == TokenLength(s) IN IF n = 0 THEN Miss(s) ELSE Hit(Atom(SubSeq(s, 1, n)), From(s, n + 1))
ReadKeyword(s) ==
  LET n == TokenLength(s)
  IN IF n = 0 THEN Miss(s) ELSE Hit(Form("key", "", SubSeq(s, 1, n)), From(s, n + 1))

RECURSIVE ReadString(_, _)
ReadString(s, chars) ==
  IF s = <<>> THEN Miss(s)
  ELSE IF s[1] = "\"" THEN Hit(Form("str", "", chars), Tail(s))
  ELSE IF s[1] # "\\" THEN ReadString(Tail(s), Append(chars, s[1]))
  ELSE IF Len(s) = 1 THEN Miss(Tail(s))
  ELSE ReadString(From(s, 3), Append(chars, IF s[2] \in DOMAIN Escapable THEN Escapable[s[2]] ELSE s[2]))

\* The end of the file inside a list, a vector or a set is an error; where a form was
\* due it is none.
RECURSIVE ReadForm(_), ReadItems(_, _, _), ReadEntries(_, _)
Then(r, K(_, _)) == IF r.ok THEN K(r.v, r.rest) ELSE r
ItemsAt(s, close, items) ==
  IF s = <<>> THEN Miss(s)
  ELSE IF s[1] = close THEN Hit(items, Tail(s))
  ELSE Then(ReadForm(s), LAMBDA v, rest : ReadItems(rest, close, Append(items, v)))
ReadItems(s, close, items) == ItemsAt(SkipTrivia(s), close, items)

ValueAt(s, items) ==
  IF s # <<>> /\ s[1] = "}" THEN Miss(s)
  ELSE Then(ReadForm(s), LAMBDA v, rest : ReadEntries(rest, Append(items, v)))
EntryAt(s, items) ==
  IF s = <<>> THEN Miss(s)
  ELSE IF s[1] = "}" THEN Hit(items, Tail(s))
  ELSE Then(ReadForm(s), LAMBDA key, rest : ValueAt(SkipTrivia(rest), Append(items, key)))
ReadEntries(s, items) == EntryAt(SkipTrivia(s), items)

Wrapped(kind, r) == Then(r, LAMBDA v, rest : Hit(Form(kind, "", v), rest))
Prefixed(name, r) == Then(r, LAMBDA v, rest : Hit(Form("list", "", <<Form("sym", "", <<name>>), v>>), rest))

ReadDispatch(s) ==
  CASE s # <<>> /\ s[1] = "{" -> Wrapped("list", ReadItems(Tail(s), "}", <<Form("sym", "", <<"hash-set">>)>>))
    [] s # <<>> /\ s[1] = "\"" -> Prefixed("re-pattern", ReadString(Tail(s), <<>>))
    [] OTHER -> Miss(s)

FormAt(s) ==
  IF s = <<>> THEN AtEnd
  ELSE CASE s[1] = "(" -> Wrapped("list", ReadItems(Tail(s), ")", <<>>))
         [] s[1] = "[" -> Wrapped("vector", ReadItems(Tail(s), "]", <<>>))
         [] s[1] = "{" -> Wrapped("map", ReadEntries(Tail(s), <<>>))
         [] s[1] = "\"" -> ReadString(Tail(s), <<>>)
         [] s[1] = ":" -> ReadKeyword(Tail(s))
         [] s[1] = "#" -> ReadDispatch(Tail(s))
         [] s[1] = "'" -> Prefixed("quote", ReadForm(Tail(s)))
         [] OTHER -> ReadAtom(s)
ReadForm(s) == FormAt(SkipTrivia(s))

\* parse_document: it stops at the first form it cannot read, and complains of what
\* is left or what was diagnosed.
RECURSIVE ParseDocument(_, _)
NextForm(r, forms) ==
  IF r.ok THEN ParseDocument(r.rest, Append(forms, r.v))
  ELSE IF r.error \/ SkipTrivia(r.rest) # <<>> THEN Miss(r.rest) ELSE Hit(forms, <<>>)
DocumentAt(s, forms) == IF s = <<>> THEN Hit(forms, s) ELSE NextForm(ReadForm(s), forms)
ParseDocument(s, forms) == DocumentAt(SkipTrivia(s), forms)
\* One marker at the start is passed over.
ReadDocument(s) == LET t == SkipTrivia(s) IN ParseDocument(IF MarkerFirst(t) THEN Tail(t) ELSE t, <<>>)

-----------------------------------------------------------------------------
(* Rendering.                                                              *)

\* {:?} of a string; \u{..} of a character keeps the character for its number.
Escaped(c) ==
  CASE c = "\n" -> <<"\\", "n">>
    [] c = "\t" -> <<"\\", "t">>
    [] c = "\r" -> <<"\\", "r">>
    [] c \in {"\\", "\""} -> <<"\\", c>>
    [] c \in Unprintable -> <<"\\", "u", "{", c, "}">>
    [] OTHER -> <<c>>

RECURSIVE Render(_), Spaced(_)
Spaced(forms) ==
  CASE forms = <<>> -> <<>>
    [] Len(forms) = 1 -> Render(forms[1])
    [] OTHER -> Render(forms[1]) \o <<" ">> \o Spaced(Tail(forms))
Render(form) ==
  CASE form.k = "str" -> <<"\"">> \o FlattenSeq(Map(Escaped, form.xs)) \o <<"\"">>
    [] form.k = "key" -> <<":">> \o form.xs
    [] form.k = "list" -> <<"(">> \o Spaced(form.xs) \o <<")">>
    [] form.k = "vector" -> <<"[">> \o Spaced(form.xs) \o <<"]">>
    [] form.k = "map" -> <<"{">> \o Spaced(form.xs) \o <<"}">>
    [] OTHER -> form.xs

RenderDocument(forms) == FlattenSeq(Map(LAMBDA f : Render(f) \o <<"\n">>, forms))
=============================================================================
