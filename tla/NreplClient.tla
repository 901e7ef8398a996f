---------------------------- MODULE NreplClient ----------------------------
(***************************************************************************)
(* The live oracle of src/nrepl.rs: one connection to a Clojure runtime,   *)
(* one evaluation at a time, and two caches of the answers.                *)
(*                                                                         *)
(* The runtime answers a request with a value or an exception, possibly    *)
(* with text on its error stream, and ends it with a "done" message.  Its  *)
(* bytes arrive in pieces: a read that waits longer than the timeout fails *)
(* the evaluation, with whatever it had read of a message lost, and the    *)
(* rest of the answer arrives in front of the next one.                    *)
(***************************************************************************)
EXTENDS Integers, FiniteSets, Sequences, SequencesExt

CONSTANTS
  ClassQueries,   \* pairs (actual, expected) is_assignable is asked about
  VarQueries,     \* names extern_suggestions is asked about
  Assignable,     \* those the runtime answers with true
  Unknown,        \* those it answers with an exception (no such class)
  Bootstrapped,   \* those bootstrap_assignable says true of
  Pieces,         \* sizes of the pieces the stream arrives in, other than all there is
  MaxEvals,       \* bound on the requests of a session, and so on its timeouts
  MaxWarnings     \* bound on the answers with text on the error stream

Queries == ClassQueries \cup VarQueries

ASSUME OracleAssumption ==
  /\ ClassQueries \cap VarQueries = {}
  /\ Assignable \cup Unknown \cup Bootstrapped \subseteq ClassQueries
  /\ Assignable \cap Unknown = {}
  /\ Pieces \subseteq Nat \ {0}
  /\ MaxEvals \in 1..9 /\ MaxWarnings \in Nat

VARIABLES
  nextId,     \* Client.next_id
  eval,       \* the evaluation under way, or NoEval
  wire,       \* bytes that have arrived and are not yet read
  transit,    \* bytes the runtime has sent and that have not arrived
  todo,       \* requests the runtime has not answered, oldest first
  cache,      \* both caches: query -> the answer kept, or "none"
  defined,    \* the Vars the runtime has
  answer,     \* the last answer given to the checker
  open,       \* the runtime is there
  timeouts,   \* reads that failed for want of bytes
  warnings

vars == <<nextId, eval, wire, transit, todo, cache, defined, answer, open, timeouts, warnings>>

-----------------------------------------------------------------------------
(* The bencoding: what the client writes and how it cuts the stream of the *)
(* answers back into messages.  A byte is a one-character string; the      *)
(* characters of a payload carry no meaning.                               *)
(*                                                                         *)
(* A value is a record [k, b, n, xs]: the kind, the bytes of a string, the *)
(* number of an integer, the members of a list or the pairs <<key, value>> *)
(* of a dictionary.                                                        *)

BBytes(b) == [k |-> "bytes", b |-> b,    n |-> 0, xs |-> <<>>]
BInt(n)   == [k |-> "int",   b |-> <<>>, n |-> n, xs |-> <<>>]
BList(xs) == [k |-> "list",  b |-> <<>>, n |-> 0, xs |-> xs]
BDict(xs) == [k |-> "dict",  b |-> <<>>, n |-> 0, xs |-> xs]

Digit == <<"0", "1", "2", "3", "4", "5", "6", "7", "8", "9">>

\* The decimal text of a number of at most two digits, and back.
Text(n) == LET m == IF n < 0 THEN -n ELSE n
           IN (IF n < 0 THEN <<"-">> ELSE <<>>)
              \o (IF m > 9 THEN <<Digit[(m \div 10) + 1]>> ELSE <<>>)
              \o <<Digit[(m % 10) + 1]>>

Numerals == [t \in {Text(n) : n \in -99..99} |-> CHOOSE n \in -99..99 : Text(n) = t]

RECURSIVE Encode(_)
Encode(v) ==
  CASE v.k = "bytes" -> Text(Len(v.b)) \o <<":">> \o v.b
    [] v.k = "int"   -> <<"i">> \o Text(v.n) \o <<"e">>
    [] v.k = "list"  -> <<"l">> \o FlattenSeq([i \in DOMAIN v.xs |-> Encode(v.xs[i])]) \o <<"e">>
    [] v.k = "dict"  -> <<"d">> \o FlattenSeq([i \in DOMAIN v.xs |->
                                     Encode(BBytes(v.xs[i][1])) \o Encode(v.xs[i][2])]) \o <<"e">>

-----------------------------------------------------------------------------
(* A read ends "ok" with a value and the bytes behind it, in a protocol    *)
(* "error", or wants "more" bytes than have arrived: there the socket read *)
(* blocks, and times out if nothing comes.                                 *)

Got(v, rest) == [st |-> "ok",    v |-> v,       rest |-> rest]
More         == [st |-> "more",  v |-> BInt(0), rest |-> <<>>]
Broken(rest) == [st |-> "error", v |-> BInt(0), rest |-> rest]

\* The text before the byte at position i, behind which the read goes on.
NumberAt(s, i) ==
  IF i = 0 THEN More
  ELSE IF SubSeq(s, 1, i - 1) \in DOMAIN Numerals
       THEN Got(BInt(Numerals[SubSeq(s, 1, i - 1)]), SubSeq(s, i + 1, Len(s)))
       ELSE Broken(SubSeq(s, i + 1, Len(s)))
NumberUntil(s, stop) == NumberAt(s, SelectInSeq(s, LAMBDA c : c = stop))

StringOf(length) ==
  IF length.st # "ok" THEN length
  ELSE IF Len(length.rest) < length.v.n THEN More
       ELSE Got(BBytes(SubSeq(length.rest, 1, length.v.n)),
                SubSeq(length.rest, length.v.n + 1, Len(length.rest)))

\* Inserting into the map of a dictionary: a repeated key takes the last value.
Put(entries, key, v) ==
  LET old == {i \in DOMAIN entries : entries[i][1] = key}
  IN IF old = {} THEN Append(entries, <<key, v>>)
     ELSE [i \in DOMAIN entries |-> IF i \in old THEN <<key, v>> ELSE entries[i]]

RECURSIVE Decode(_), Members(_, _), AfterMember(_, _), Entries(_, _), AfterKey(_, _), AfterValue(_, _, _)
Decode(s) ==
  IF s = <<>> THEN More
  ELSE CASE s[1] = "i" -> NumberUntil(Tail(s), "e")
         [] s[1] = "l" -> Members(Tail(s), <<>>)
         [] s[1] = "d" -> Entries(Tail(s), <<>>)
         [] s[1] \in ToSet(Digit) -> StringOf(NumberUntil(s, ":"))
         [] OTHER -> Broken(Tail(s))

Members(s, acc) ==
  IF s = <<>> THEN More
  ELSE IF s[1] = "e" THEN Got(BList(acc), Tail(s)) ELSE AfterMember(Decode(s), acc)
AfterMember(r, acc) == IF r.st = "ok" THEN Members(r.rest, Append(acc, r.v)) ELSE r

Entries(s, acc) ==
  IF s = <<>> THEN More
  ELSE IF s[1] = "e" THEN Got(BDict(acc), Tail(s)) ELSE AfterKey(Decode(s), acc)
AfterKey(r, acc) ==
  IF r.st # "ok" THEN r
  ELSE IF r.v.k # "bytes" THEN Broken(r.rest) ELSE AfterValue(r.v.b, Decode(r.rest), acc)
AfterValue(key, r, acc) == IF r.st = "ok" THEN Entries(r.rest, Put(acc, key, r.v)) ELSE r

-----------------------------------------------------------------------------
NoEval == [id |-> 0, q |-> "none", value |-> "none", err |-> FALSE]
NoAnswer == [q |-> "none", live |-> FALSE, a |-> "none"]

-----------------------------------------------------------------------------
(* Messages.                                                               *)

\* Field names and payloads are spelt with one letter each.
Chars == [id |-> <<"i">>, value |-> <<"v">>, err |-> <<"w">>, ex |-> <<"x">>,
          status |-> <<"s">>, done |-> <<"d">>]
Answers == {"true", "false", "found", "notfound"}
Spelt == [a \in Answers |-> CASE a = "true" -> <<"t">>  [] a = "false" -> <<"f">>
                               [] a = "found" -> <<"F">> [] a = "notfound" -> <<"N">>]

Message(id, field, v) == BDict(<< <<Chars.id, BBytes(Text(id))>>, <<field, v>> >>)
Done(id) == Message(id, Chars.status, BList(<<BBytes(Chars.done)>>))

Has(m, field) == \E i \in DOMAIN m.xs : m.xs[i][1] = field
Field(m, field) == m.xs[CHOOSE i \in DOMAIN m.xs : m.xs[i][1] = field][2]
TextField(m, field) == IF Has(m, field) /\ Field(m, field).k = "bytes" THEN Field(m, field).b ELSE <<>>
StatusContains(m, s) ==
  /\ Has(m, Chars.status)
  /\ LET status == Field(m, Chars.status)
     IN \/ status.k = "list" /\ BBytes(s) \in ToSet(status.xs)
        \/ status = BBytes(s)

-----------------------------------------------------------------------------
(* The runtime, external to the repository: it evaluates the requests in   *)
(* the order they came.                                                    *)

ClassTruth(q) == IF q \in Assignable THEN "true" ELSE IF q \in Unknown THEN "throws" ELSE "false"
Truth(q) == IF q \in ClassQueries THEN ClassTruth(q)
            ELSE IF q \in defined THEN "found" ELSE "notfound"

Serve(warn) ==
  /\ open /\ todo # <<>>
  /\ warn => warnings < MaxWarnings
  /\ LET id == Head(todo).id
         a == Truth(Head(todo).q)
         noise == IF warn THEN Encode(Message(id, Chars.err, BBytes(<<"w">>))) ELSE <<>>
         body == IF a = "throws" THEN Message(id, Chars.ex, BBytes(<<"x">>))
                 ELSE Message(id, Chars.value, BBytes(Spelt[a]))
     IN transit' = transit \o noise \o Encode(body) \o Encode(Done(id))
  /\ todo' = Tail(todo)
  /\ warnings' = warnings + (IF warn THEN 1 ELSE 0)
  /\ UNCHANGED <<nextId, eval, wire, cache, defined, answer, open, timeouts>>

Deliver(n) ==
  /\ transit # <<>> /\ n <= Len(transit)
  /\ wire' = wire \o SubSeq(transit, 1, n)
  /\ transit' = SubSeq(transit, n + 1, Len(transit))
  /\ UNCHANGED <<nextId, eval, todo, cache, defined, answer, open, timeouts, warnings>>

\* The developer defines a Var in the running session.
RuntimeDefines(v) ==
  /\ open /\ v \in VarQueries \ defined
  /\ defined' = defined \cup {v}
  /\ UNCHANGED <<nextId, eval, wire, transit, todo, cache, answer, open, timeouts, warnings>>

RuntimeStops ==
  /\ open
  /\ open' = FALSE /\ todo' = <<>> /\ transit' = <<>>
  /\ UNCHANGED <<nextId, eval, wire, cache, defined, answer, timeouts, warnings>>

-----------------------------------------------------------------------------
(* The oracle.  What the checker gets: a live answer, or, when the         *)
(* evaluation fails, bootstrap_assignable for a class query and no         *)
(* suggestions for a Var.                                                  *)

Fallback(q) ==
  [q |-> q, live |-> FALSE,
   a |-> IF q \in VarQueries THEN "notfound" ELSE IF q \in Bootstrapped THEN "true" ELSE "false"]
Live(q, a) == [q |-> q, live |-> TRUE, a |-> a]

\* var_info and assignable: the cache is asked first.
AskCached(q) ==
  /\ eval = NoEval /\ cache[q] # "none"
  /\ answer' = Live(q, cache[q])
  /\ UNCHANGED <<nextId, eval, wire, transit, todo, cache, defined, open, timeouts, warnings>>

Miss(q) == cache[q] = "none"

\* Client::eval up to the flush; writing to a closed connection fails.
Ask(q) ==
  /\ eval = NoEval /\ Miss(q) /\ nextId <= MaxEvals
  /\ nextId' = nextId + 1
  /\ IF open
     THEN /\ eval' = [NoEval EXCEPT !.id = nextId, !.q = q]
          /\ todo' = Append(todo, [id |-> nextId, q |-> q])
          /\ UNCHANGED answer
     ELSE /\ answer' = Fallback(q)
          /\ UNCHANGED <<eval, todo>>
  /\ UNCHANGED <<wire, transit, cache, defined, open, timeouts, warnings>>

Fail == eval' = NoEval /\ answer' = Fallback(eval.q) /\ UNCHANGED cache

\* The value of the finished evaluation, parsed and kept.  A class query wants "true" or
\* "false", a Var query a header; any text on the error stream fails it.
Unspelt(v) == IF \E a \in Answers : Spelt[a] = v THEN CHOOSE a \in Answers : Spelt[a] = v ELSE "none"
Parsed(q, v) == LET a == Unspelt(v)
                IN IF a \in (IF q \in ClassQueries THEN {"true", "false"} ELSE {"found", "notfound"})
                   THEN a ELSE "none"
Finish(e) ==
  LET a == IF e.err \/ e.value = "none" THEN "none" ELSE e.value
  IN IF a = "none" THEN Fail
     ELSE eval' = NoEval /\ answer' = Live(e.q, a) /\ cache' = [cache EXCEPT ![e.q] = a]

\* Mutant: the id of a message is not compared.
OwnAny(m) == TRUE
Own(m) == TextField(m, Chars.id) = Text(eval.id)

\* Mutant: the value ends the evaluation.
LastValue(m) == Has(m, Chars.value)
EndsEval(m) == StatusContains(m, Chars.done)

\* One message of the loop of Client::eval.
Accept(m) ==
  LET e == [eval EXCEPT
              !.value = IF Has(m, Chars.value) THEN Parsed(eval.q, TextField(m, Chars.value)) ELSE @,
              !.err = @ \/ TextField(m, Chars.err) # <<>> \/ TextField(m, Chars.ex) # <<>>]
  IN IF ~Own(m) THEN UNCHANGED <<eval, answer, cache>>
     ELSE IF EndsEval(m) THEN Finish(e)
     ELSE eval' = e /\ UNCHANGED <<answer, cache>>

Read ==
  /\ eval # NoEval
  /\ LET r == Decode(wire)
     IN /\ r.st # "more"
        /\ wire' = r.rest
        /\ IF r.st = "ok" /\ r.v.k = "dict" THEN Accept(r.v) ELSE Fail
  /\ UNCHANGED <<nextId, transit, todo, defined, open, timeouts, warnings>>

\* Mutant: the socket has no read timeout.
BlockingRead == FALSE
\* Client::connect sets one.
TimedRead == TRUE

\* The read of an unfinished message times out, or meets the end of the stream: the
\* bytes it has taken are gone.
Starved == eval # NoEval /\ Decode(wire).st = "more"
ReadTimeout ==
  /\ Starved /\ open /\ TimedRead
  /\ timeouts' = timeouts + 1
  /\ wire' = <<>> /\ Fail
  /\ UNCHANGED <<nextId, transit, todo, defined, open, warnings>>

ReadEnd ==
  /\ Starved /\ ~open
  /\ timeouts' = timeouts + 1
  /\ wire' = <<>> /\ Fail
  /\ UNCHANGED <<nextId, transit, todo, defined, open, warnings>>

-----------------------------------------------------------------------------
Init ==
  /\ nextId = 1 /\ eval = NoEval
  /\ wire = <<>> /\ transit = <<>> /\ todo = <<>>
  /\ cache = [q \in Queries |-> "none"]
  /\ defined = {} /\ answer = NoAnswer
  /\ open = TRUE /\ timeouts = 0 /\ warnings = 0

Client == (\E q \in Queries : Ask(q) \/ AskCached(q)) \/ Read \/ ReadTimeout \/ ReadEnd
Runtime == \/ \E warn \in BOOLEAN : Serve(warn)
           \/ \E n \in Pieces \cup {Len(transit)} : Deliver(n)
           \/ \E v \in VarQueries : RuntimeDefines(v)
           \/ RuntimeStops
Next == Client \/ Runtime
Spec == Init /\ [][Next]_vars
\* Weak fairness of the reads, their ENABLED spelt out: a read that has its bytes, whose
\* timeout runs (it is the operating system's) or whose stream has ended is not put off
\* for ever, whatever the runtime does.
Reads == Read \/ ReadTimeout \/ ReadEnd
ReadsEnabled == eval # NoEval /\ (Starved /\ open => TimedRead)
FairSpec == Spec /\ ([]<>~ReadsEnabled \/ []<><<Reads>>_vars)

-----------------------------------------------------------------------------
(* Whatever is late, lost or garbled on the connection, a live answer is   *)
(* what the runtime says of that very query (is_assignable and var_info    *)
(* skip the answers of abandoned requests).  A class is assignable or not  *)
(* for good; a Var that was found exists.                                  *)
TrueOf(q, a) == IF q \in ClassQueries THEN a = ClassTruth(q)
                ELSE a = "found" => q \in defined
LiveAnswersAreTrue ==
  /\ \A q \in Queries : cache[q] # "none" => TrueOf(q, cache[q])
  /\ answer.live => TrueOf(answer.q, answer.a)

(* As long as no read was starved the client stays in step with the stream *)
(* wherever the pieces were cut: every message decodes, and an evaluation  *)
(* that ended has taken its whole answer off the connection.               *)
InStep ==
  timeouts = 0 =>
    /\ LET r == Decode(wire) IN r.st = "more" \/ (r.st = "ok" /\ r.v.k = "dict")
    /\ eval = NoEval => wire = <<>> /\ transit = <<>> /\ todo = <<>>

(* Every evaluation ends, with an answer or with an error, even when the   *)
(* runtime never answers.                                                  *)
EvalEnds == eval # NoEval ~> eval = NoEval
=============================================================================
