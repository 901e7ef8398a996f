----------------------------- MODULE RamaCheck -----------------------------
(***************************************************************************)
(* The commands of src/bin/rama-check.rs that run beside an editor: watch, *)
(* which recompiles what changed, and learn and observe-call, which write  *)
(* the source.  They share nothing but the files.                          *)
(*                                                                         *)
(* A source is [text, body]: its extern declarations, and what the rest of *)
(* it is to the compiler.  An output is the source it was compiled from.   *)
(***************************************************************************)
EXTENDS LearnPass

CONSTANTS
  Paths,        \* the .rama files that may be under the watched root, in collection order
  Learned,      \* the one learn and observe-call are run on
  Sources,      \* what the editor may write, and the files start as
  Calls,        \* what the program calls: <<name, class of the argument>>
  Returns,      \* call -> the classes the runtime may return, "nil" among them
  MaxWrites,    \* bound on the writes of the sources, and so on their mtimes
  MaxTape,      \* bound on the violations on the tape
  MaxFailures   \* bound on the outputs that cannot be written

ASSUME ToolsAssumption ==
  /\ Paths \in Seq(STRING) /\ Learned \in ToSet(Paths)
  /\ MaxWrites \in Nat /\ MaxTape \in Nat /\ MaxFailures \in Nat

\* What is written is made of declarations, and what is called can be declared.
ASSUME SourcesAssumption ==
  /\ \A s \in Sources : /\ s = [text |-> s.text, body |-> s.body]
                         /\ Bare(Decls(s.text)) \in Seq(Declarations)
                         /\ s.text = Text(Bare(Decls(s.text)))
  /\ \A call \in Calls : /\ call[1] \in Names /\ call[2] \in Names
                         /\ Returns[call] \subseteq Classes \cup {"nil"}

Files == ToSet(Paths)

VARIABLES
  disk,      \* path -> [there, source, mtime]
  out,       \* path -> the source the output was compiled from, or NoOutput
  unwritten, \* the paths whose last compilation could not be written
  now,       \* the time of the last write; every write has its own
  mtimes,    \* watch: path -> mtime of the last pass, or None
  pass,      \* watch: the pass under way: [on, force, todo, seen, stat]
  learn,     \* learn: [st, source, tape]
  tape,      \* the tape the running program appends to
  failures

vars == <<disk, out, unwritten, now, mtimes, pass, learn, tape, failures>>

None == -1
Epoch == 0                        \* what a file that is gone is taken to have
NoSource == [text |-> <<>>, body |-> "none"]
NoOutput == NoSource
Absent == [there |-> FALSE, source |-> NoSource, mtime |-> Epoch]

\* Which sources compile: a "relying" body only while no declaration returns a String.
Parses(s) == s.body # "broken"
Checks(s) == /\ Parses(s)
             /\ s.body = "relying" => \A i \in DOMAIN Decls(s.text) : Decls(s.text)[i].ret # "String"

Written(path, source) ==
  /\ now < MaxWrites
  /\ now' = now + 1
  /\ disk' = [disk EXCEPT ![path] = [there |-> TRUE, source |-> source, mtime |-> now + 1]]

-----------------------------------------------------------------------------
(* The developer.                                                          *)

Edit(path, source) ==
  /\ disk[path].source # source
  /\ Written(path, source)
  /\ UNCHANGED <<out, unwritten, mtimes, pass, learn, tape, failures>>

Delete(path) ==
  /\ disk[path].there
  /\ disk' = [disk EXCEPT ![path] = Absent]
  /\ UNCHANGED <<out, unwritten, now, mtimes, pass, learn, tape, failures>>

-----------------------------------------------------------------------------
(* watch_path and compile_changed_files: one pass collects the files, and  *)
(* for each one reads its mtime, then, unless it is the recorded one,      *)
(* reads and compiles it; what it saw is recorded when the pass is over.   *)

NoPass == [on |-> FALSE, force |-> FALSE, todo |-> <<>>,
           seen |-> [p \in Files |-> None], stat |-> FALSE]

\* Mutant: after the first pass only the files it saw are looked at.
CollectedOnce == SelectSeq(Paths, LAMBDA p : disk[p].there /\ (pass.force \/ mtimes[p] # None))
Collected == SelectSeq(Paths, LAMBDA p : disk[p].there)

StartPass ==
  /\ ~pass.on
  /\ pass' = [pass EXCEPT !.on = TRUE, !.todo = Collected]
  /\ UNCHANGED <<disk, out, unwritten, now, mtimes, learn, tape, failures>>

Changed(path, mtime) == mtimes[path] # mtime

Stat ==
  /\ pass.on /\ pass.todo # <<>> /\ ~pass.stat
  /\ LET p == Head(pass.todo)
         mtime == disk[p].mtime
     IN pass' = [pass EXCEPT !.seen[p] = mtime,
                   !.stat = pass.force \/ Changed(p, mtime),
                   !.todo = IF pass.force \/ Changed(p, mtime) THEN @ ELSE Tail(@)]
  /\ UNCHANGED <<disk, out, unwritten, now, mtimes, learn, tape, failures>>

\* transpile_source_file and write_file: what does not compile leaves the old output.
Compile(fails) ==
  /\ pass.on /\ pass.stat
  /\ fails => failures < MaxFailures
  /\ LET p == Head(pass.todo)
         compiles == disk[p].there /\ Checks(disk[p].source)
     IN /\ fails => compiles
        /\ out' = [out EXCEPT ![p] = IF compiles /\ ~fails THEN disk[p].source ELSE @]
        /\ unwritten' = IF compiles THEN (IF fails THEN unwritten \cup {p} ELSE unwritten \ {p})
                        ELSE unwritten
  /\ failures' = failures + (IF fails THEN 1 ELSE 0)
  /\ pass' = [pass EXCEPT !.stat = FALSE, !.todo = Tail(@)]
  /\ UNCHANGED <<disk, now, mtimes, learn, tape>>

\* Mutant: the mtime a file has when the pass is over is the one recorded.
RecordedLate(p) == IF pass.seen[p] = None THEN None ELSE disk[p].mtime
Recorded(p) == pass.seen[p]

EndPass ==
  /\ pass.on /\ pass.todo = <<>>
  /\ mtimes' = [p \in Files |-> Recorded(p)]
  /\ pass' = NoPass
  /\ UNCHANGED <<disk, out, unwritten, now, learn, tape, failures>>

-----------------------------------------------------------------------------
(* The contracts of a running program, and learn.                          *)

\* The declaration a call dispatches to, and the line a wrong return puts on a tape.
Called(decls, call) == {i \in DOMAIN decls : decls[i].name = call[1] /\ decls[i].par = call[2]}
Lines(source, call, class) ==
  LET decls == Decls(source.text)
  IN {<< <<"extern", call[1]>>, decls[i].ret, class>> :
        i \in {j \in Called(decls, call) : decls[j].ret # class}}

\* The program of the learned file, compiled by watch, runs with a tape.
Run(call, class) ==
  /\ Cardinality(tape) < MaxTape
  /\ tape' = tape \cup Lines(out[Learned], call, class) /\ tape' # tape
  /\ UNCHANGED <<disk, out, unwritten, now, mtimes, pass, learn, failures>>

Idle == [st |-> "idle", source |-> NoSource, tape |-> {}]

LearnRead ==
  /\ learn = Idle /\ disk[Learned].there /\ Parses(disk[Learned].source)
  /\ learn' = [Idle EXCEPT !.st = "read", !.source = disk[Learned].source]
  /\ UNCHANGED <<disk, out, unwritten, now, mtimes, pass, tape, failures>>

\* The tape of a recorded run, read after the source ...
LearnTape ==
  /\ learn.st = "read"
  /\ learn' = [learn EXCEPT !.st = "taped", !.tape = tape]
  /\ UNCHANGED <<disk, out, unwritten, now, mtimes, pass, tape, failures>>

\* ... or drive_reproduction: a fresh tape, of the source compiled and called; a source
\* with diagnostics ends the command.
LearnDrive(call, class) ==
  /\ learn.st = "read"
  /\ IF ~Checks(learn.source) THEN learn' = Idle
     ELSE learn' = [learn EXCEPT !.st = "taped", !.tape = Lines(learn.source, call, class)]
  /\ UNCHANGED <<disk, out, unwritten, now, mtimes, pass, tape, failures>>

Fixes == AnalyzeTape(learn.source.text, ParseTape(learn.tape))

\* learn --write: the source as it was read, with the fixes, is written over the file.
LearnWrite ==
  /\ learn.st = "taped"
  /\ IF Fixes = {} THEN UNCHANGED <<disk, now>>
     ELSE Written(Learned, [learn.source EXCEPT !.text = ApplyFixes(@, Fixes)])
  /\ learn' = Idle
  /\ UNCHANGED <<out, unwritten, mtimes, pass, tape, failures>>

\* observe-call --write.
Observe(call, class) ==
  /\ class # "nil" /\ disk[Learned].there
  /\ LET source == disk[Learned].source
         pinned == PinObservation(source.text, Decl(call[1], call[2], class))
     IN /\ pinned # source.text
        /\ Written(Learned, [source EXCEPT !.text = pinned])
  /\ UNCHANGED <<out, unwritten, mtimes, pass, learn, tape, failures>>

-----------------------------------------------------------------------------
Init ==
  /\ \E s \in Sources : disk = [p \in Files |-> [there |-> TRUE, source |-> s, mtime |-> 1]]
  /\ out = [p \in Files |-> NoOutput] /\ unwritten = {} /\ now = 1
  /\ mtimes = [p \in Files |-> None]
  /\ pass = [NoPass EXCEPT !.force = TRUE]
  /\ learn = Idle /\ tape = {} /\ failures = 0

Watch == StartPass \/ Stat \/ (\E fails \in BOOLEAN : Compile(fails)) \/ EndPass
Learn == LearnRead \/ LearnTape \/ LearnWrite
         \/ \E call \in Calls : \E class \in Returns[call] : LearnDrive(call, class) \/ Observe(call, class)
Developer == \E path \in Files : Delete(path) \/ \E source \in Sources : Edit(path, source)
Program == \E call \in Calls : \E class \in Returns[call] : Run(call, class)

Next == Watch \/ Learn \/ Developer \/ Program
Spec == Init /\ [][Next]_vars
\* The watch loop sleeps 750 ms between passes and never ends: some step of it is always
\* enabled, so that weak fairness of Watch is just this.
FairSpec == Spec /\ []<><<Watch>>_vars

-----------------------------------------------------------------------------
(* Whatever is edited, deleted or learned during a pass, the watcher never *)
(* takes a stale output for current: where the recorded mtime is the       *)
(* file's, the output is that of the file, unless it could not be written. *)
OutputIsCurrent ==
  \A p \in Files :
    (~pass.on /\ disk[p].there /\ mtimes[p] = disk[p].mtime /\ Checks(disk[p].source))
    => (out[p] = disk[p].source \/ p \in unwritten)

(* watch recompiles what changed: once nothing writes a source any more,   *)
(* every file that compiles has its output.                                *)
OutputCatchesUp ==
  <>[](\A p \in Files : (disk[p].there /\ Checks(disk[p].source))
                        => (out[p] = disk[p].source \/ p \in unwritten))

(* learn --write changes the text it read in nothing but return types,     *)
(* each to the one class its extern was seen to return, however many       *)
(* edits move one another and whatever the tape holds.                     *)
SoleClass(name, class) ==
  LET seen == {v \in ParseTape(learn.tape) : v[1] = <<"extern", name>>}
  IN {v[3] : v \in seen} = {class} /\ \A u, v \in seen : u[2] = v[2]
FixOf(decls, i) ==
  IF /\ decls[i].name \notin {decls[j].name : j \in 1..(i - 1)}
     /\ \E c \in Classes : SoleClass(decls[i].name, c)
  THEN CHOOSE c \in Classes : SoleClass(decls[i].name, c) ELSE decls[i].ret
LearnWrites == learn.st = "taped" /\ learn' = Idle /\ now' # now
FixesOnlyReturns ==
  [][LearnWrites =>
       LET decls == Decls(learn.source.text)
       IN disk'[Learned].source.text =
            Text([i \in DOMAIN decls |-> Decl(decls[i].name, decls[i].par, FixOf(decls, i))])]_vars
=============================================================================
