----------------------------- MODULE LearnPass -----------------------------
(***************************************************************************)
(* src/learn.rs: contract violations recorded at run time become edits of  *)
(* the extern declarations, made on the text of the source at their spans. *)
(*                                                                         *)
(* The text is a sequence of characters; an extern declaration is "x", its *)
(* name, the class of its parameter, its return type and ";".  Return      *)
(* types are words of different lengths, so an edit moves what is behind.  *)
(***************************************************************************)
EXTENDS Integers, Sequences, FiniteSets, SequencesExt

CONSTANT Names  \* what externs and the classes of their parameters may be called

ASSUME NamesAssumption == ";" \notin Names

\* The classes of the runtime and the words source_alias gives them: the five it knows
\* are shortened, any other is written out.
Word == [Long |-> <<"L">>, String |-> <<"S">>, Vector |-> <<"v", "e", "c">>]
Classes == DOMAIN Word
SourceAlias(class) == Word[class]

Decl(name, par, ret) == [name |-> name, par |-> par, ret |-> ret]
Declarations == [name: Names, par: Names, ret: Classes]

\* Observation.extern_declaration, and the whole source.
Declaration(d) == <<"x", d.name, d.par>> \o Word[d.ret] \o <<";">>
Text(decls) == FlattenSeq([i \in DOMAIN decls |-> Declaration(decls[i])])

\* The members of a finite set of numbers, the least first.
Ascending(S) ==
  CHOOSE s \in [1..Cardinality(S) -> S] :
    /\ \A i, j \in DOMAIN s : i < j => s[i] < s[j]
    /\ \A n \in S : \E i \in DOMAIN s : s[i] = n

\* Parsing: one declaration up to each ";".
Decls(text) ==
  LET ends == Ascending({i \in DOMAIN text : text[i] = ";"})
      start(i) == IF i = 1 THEN 1 ELSE ends[i - 1] + 1
      ret(i) == SubSeq(text, start(i) + 3, ends[i] - 1)
  IN [i \in DOMAIN ends |->
        [name |-> text[start(i) + 1], par |-> text[start(i) + 2],
         ret |-> IF \E c \in Classes : Word[c] = ret(i) THEN CHOOSE c \in Classes : Word[c] = ret(i) ELSE "none",
         span |-> [start |-> start(i) + 3, end |-> ends[i] - 1]]]

-----------------------------------------------------------------------------
(* A tape is the set of its lines (how often and in what order they came   *)
(* changes no fix), a line a sequence of fields; the first is              *)
(* <<kind, name>>: an extern's return, a function's argument, or any other *)
(* contract.                                                               *)

ParseTape(tape) == {<<line[1], line[2], line[3]>> : line \in {l \in tape : Len(l) >= 3}}

FirstDecl(decls, name) ==
  LET is == {i \in DOMAIN decls : decls[i].name = name}
  IN IF is = {} THEN 0 ELSE CHOOSE i \in is : \A j \in is : i <= j

\* The violations of one path agree when they form one group; nil fixes nothing.
Consistent(groups, g) == {h \in groups : h[1] = g[1]} = {g} /\ g[3] # "nil"

\* analyze_tape: the suggestions that carry a fix.
AnalyzeTape(text, groups) ==
  LET decls == Decls(text)
      fixable == {g \in groups : g[1][1] = "extern" /\ Consistent(groups, g)
                                 /\ FirstDecl(decls, g[1][2]) # 0}
  IN {[span |-> decls[FirstDecl(decls, g[1][2])].span, with |-> SourceAlias(g[3])] : g \in fixable}

Replace(text, fix) ==
  SubSeq(text, 1, fix.span.start - 1) \o fix.with \o SubSeq(text, fix.span.end + 1, Len(text))

Starts(fixes) == Ascending({fix.span.start : fix \in fixes})
FixAt(fixes, start) == CHOOSE fix \in fixes : fix.span.start = start

\* Mutant: the fixes are applied from the front.
FromTheFront(fixes) == [k \in DOMAIN Starts(fixes) |-> FixAt(fixes, Starts(fixes)[k])]
FixOrder(fixes) ==
  [k \in DOMAIN Starts(fixes) |-> FixAt(fixes, Starts(fixes)[Len(Starts(fixes)) + 1 - k])]

\* apply_fixes: each on the text the fixes behind it have changed.
ApplyFix(text, fix) == IF fix.span.end <= Len(text) THEN Replace(text, fix) ELSE text
ApplyFixes(text, fixes) ==
  LET order == FixOrder(fixes)
      applied[k \in 0..Len(order)] == IF k = 0 THEN text ELSE ApplyFix(applied[k - 1], order[k])
  IN applied[Len(order)]

-----------------------------------------------------------------------------
\* The declarations without their spans.
Bare(decls) == [i \in DOMAIN decls |-> Decl(decls[i].name, decls[i].par, decls[i].ret)]

\* pin_observation: an observed declaration is appended unless a line is it already.
PinObservation(text, d) ==
  IF \E i \in DOMAIN Decls(text) : Bare(Decls(text))[i] = d
  THEN text ELSE text \o Declaration(d)
=============================================================================
