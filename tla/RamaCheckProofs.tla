-------------------------- MODULE RamaCheckProofs --------------------------
(***************************************************************************)
(* Two theorems about RamaCheck, for any number of files, any sources and  *)
(* any edits, deletions and learned fixes between the reads.  The watcher  *)
(* never takes a stale output for current.  And learn --write changes      *)
(* nothing in the text it read but return types: the second part says      *)
(* where in a text its declarations lie, and how they move.                *)
(***************************************************************************)
EXTENDS RamaCheck, FiniteSetTheorems, NaturalsInduction, SequenceTheorems, WellFoundedInduction, TLAPS

\* A file that has the mtime m has its output, as far as it compiles and could
\* be written.
Good(p, m) ==
  disk[p].there /\ disk[p].mtime = m /\ Checks(disk[p].source)
    => out[p] = disk[p].source \/ p \in unwritten

\* Between the reading of its mtime and its compilation a file is not yet good.
Looking(p) == pass.stat /\ p = Head(pass.todo)

\* The times that the watcher knows are times of writes that were.
TimesPast ==
  /\ now \in Nat
  /\ \A p \in Files : disk[p].mtime \in Int /\ disk[p].mtime <= now /\ disk[p].mtime >= Epoch
  /\ mtimes \in [Files -> Int] /\ \A p \in Files : mtimes[p] <= now
  /\ pass.seen \in [Files -> Int] /\ \A p \in Files : pass.seen[p] <= now

Shapes ==
  /\ disk = [p \in Files |-> disk[p]] /\ out = [p \in Files |-> out[p]]
  /\ pass = [on |-> pass.on, force |-> pass.force, todo |-> pass.todo, seen |-> pass.seen, stat |-> pass.stat]
  /\ pass.stat \in BOOLEAN /\ (pass.stat => pass.on /\ pass.todo # <<>>)

WatchInv ==
  /\ Shapes /\ TimesPast
  /\ \A p \in Files : Good(p, mtimes[p]) /\ (~Looking(p) => Good(p, pass.seen[p]))

\* Steps of the others: a write gives the file a time that the watcher has not
\* seen, and a deletion leaves no file.
LEMMA WriteKeeps ==
  ASSUME WatchInv, NEW path, NEW source, Written(path, source),
         UNCHANGED <<out, unwritten, mtimes, pass>>
  PROVE  WatchInv'
<1>1. PICK file : file = [there |-> TRUE, source |-> source, mtime |-> now + 1]
  OBVIOUS
<1>2. /\ disk' = [disk EXCEPT ![path] = file] /\ file.mtime = now + 1 /\ now' = now + 1 /\ now \in Nat
      /\ disk = [p \in Files |-> disk[p]]
  BY <1>1 DEF Written, WatchInv, Shapes, TimesPast
<1>3. \A p \in Files : disk'[p] = IF p = path THEN file ELSE disk[p]
  BY <1>2
<1>4. disk' = [p \in Files |-> disk'[p]]
  BY <1>2
<1>5. Shapes'
  BY <1>4 DEF WatchInv, Shapes
<1>6. TimesPast'
  BY <1>2, <1>3 DEF WatchInv, TimesPast, Epoch
<1>7. ASSUME NEW p \in Files, NEW m \in Int, m <= now, Good(p, m) PROVE Good(p, m)'
  BY <1>2, <1>3, <1>7 DEF Good
<1>8. QED
  BY <1>5, <1>6, <1>7 DEF WatchInv, TimesPast, Looking

LEMMA DeleteKeeps ==
  ASSUME WatchInv, NEW path, Delete(path)
  PROVE  WatchInv'
<1>1. disk' = [disk EXCEPT ![path] = Absent] /\ disk = [p \in Files |-> disk[p]] /\ UNCHANGED <<out, unwritten, now, mtimes, pass>>
  BY DEF Delete, WatchInv, Shapes
<1>2. \A p \in Files : disk'[p] = IF p = path THEN Absent ELSE disk[p]
  BY <1>1
<1>3. disk' = [p \in Files |-> disk'[p]]
  BY <1>1
<1>4. Shapes'
  BY <1>1, <1>3 DEF WatchInv, Shapes
<1>5. TimesPast'
  BY <1>1, <1>2 DEF WatchInv, TimesPast, Epoch, Absent
<1>6. ASSUME NEW p \in Files, NEW m, Good(p, m) PROVE Good(p, m)'
  BY <1>1, <1>2, <1>6 DEF Good, Absent
<1>7. QED
  BY <1>1, <1>4, <1>5, <1>6 DEF WatchInv, Looking

\* Steps that touch neither the files nor the watcher.
LEMMA AsideKeeps ==
  ASSUME WatchInv, UNCHANGED <<disk, out, unwritten, now, mtimes, pass>>
  PROVE  WatchInv'
  BY DEF WatchInv, Shapes, TimesPast, Good, Looking

LEMMA StartPassKeeps ==
  ASSUME WatchInv, StartPass
  PROVE  WatchInv'
<1>1. PICK todo : pass' = [pass EXCEPT !.on = TRUE, !.todo = todo]
  BY DEF StartPass
<1>2. ~pass.stat /\ UNCHANGED <<disk, out, unwritten, now, mtimes>>
  BY DEF StartPass, WatchInv, Shapes
<1>3. /\ pass'.on /\ pass'.seen = pass.seen /\ pass'.stat = pass.stat
      /\ pass' = [on |-> pass'.on, force |-> pass'.force, todo |-> pass'.todo, seen |-> pass'.seen, stat |-> pass'.stat]
  BY <1>1 DEF WatchInv, Shapes
<1>4. Shapes'
  BY <1>2, <1>3 DEF WatchInv, Shapes
<1>5. TimesPast'
  BY <1>2, <1>3 DEF WatchInv, TimesPast
<1>6. QED
  BY <1>2, <1>3, <1>4, <1>5 DEF WatchInv, Looking, Good

\* An mtime is read: if it is the recorded one the file is good already, if not
\* the watcher goes on to look at the file.
LEMMA StatKeeps ==
  ASSUME WatchInv, Stat
  PROVE  WatchInv'
<1>1. PICK p, mtime, looks :
        /\ p = Head(pass.todo) /\ mtime = disk[p].mtime /\ looks = (pass.force \/ Changed(p, mtime))
        /\ looks \in BOOLEAN
        /\ pass' = [pass EXCEPT !.seen[p] = mtime, !.stat = looks, !.todo = IF looks THEN @ ELSE Tail(@)]
  BY DEF Stat
<1>2. pass.on /\ pass.todo # <<>> /\ ~pass.stat /\ UNCHANGED <<disk, out, unwritten, now, mtimes>>
  BY DEF Stat
<1>3. /\ pass'.on = pass.on /\ pass'.seen = [pass.seen EXCEPT ![p] = mtime] /\ pass'.stat = looks
      /\ looks => pass'.todo = pass.todo
      /\ pass' = [on |-> pass'.on, force |-> pass'.force, todo |-> pass'.todo, seen |-> pass'.seen, stat |-> pass'.stat]
  BY <1>1 DEF WatchInv, Shapes
<1>4. \A q \in Files : pass'.seen[q] = IF q = p THEN mtime ELSE pass.seen[q]
  BY <1>3 DEF WatchInv, TimesPast
<1>5. Shapes'
  BY <1>1, <1>2, <1>3 DEF WatchInv, Shapes
<1>6. TimesPast'
  <2>1. p \in Files => mtime \in Int /\ mtime <= now
    BY <1>1 DEF WatchInv, TimesPast
  <2>2. pass'.seen \in [Files -> Int]
    BY <1>3, <2>1 DEF WatchInv, TimesPast
  <2>3. QED
    BY <1>2, <1>4, <2>1, <2>2 DEF WatchInv, TimesPast
<1>7. ASSUME NEW q \in Files, ~Looking(q)' PROVE Good(q, pass'.seen[q])
  <2>1. CASE q # p
    BY <1>2, <1>4, <2>1 DEF WatchInv, Looking
  <2>2. CASE q = p
    <3>1. ~looks
      BY <1>1, <1>3, <1>7, <2>2 DEF Looking
    <3>2. mtimes[p] = mtime
      BY <1>1, <3>1 DEF Changed
    <3>3. QED
      BY <1>4, <2>2, <3>2 DEF WatchInv
  <2>3. QED
    BY <2>1, <2>2
<1>8. ASSUME NEW q \in Files, NEW m, Good(q, m) PROVE Good(q, m)'
  BY <1>2, <1>8 DEF Good
<1>9. ASSUME NEW q \in Files, ~Looking(q)' PROVE Good(q, pass.seen[q])'
  <2>1. PICK m : m = pass'.seen[q]
    OBVIOUS
  <2>2. Good(q, m)
    BY <1>7, <1>9, <2>1
  <2>3. Good(q, m)'
    BY <1>8, <2>2
  <2>4. QED
    BY <2>1, <2>3 DEF Good
<1>10. ASSUME NEW q \in Files PROVE Good(q, mtimes[q])'
  BY <1>2 DEF WatchInv, Good
<1>11. QED
  BY <1>5, <1>6, <1>9, <1>10 DEF WatchInv

\* A file is read and compiled: whatever was written since its mtime was read,
\* its output is now of the text on the disk.
LEMMA CompileKeeps ==
  ASSUME WatchInv, NEW fails \in BOOLEAN, Compile(fails)
  PROVE  WatchInv'
<1>1. PICK p, compiles :
        /\ p = Head(pass.todo) /\ compiles = (disk[p].there /\ Checks(disk[p].source)) /\ (fails => compiles)
        /\ out' = [out EXCEPT ![p] = IF compiles /\ ~fails THEN disk[p].source ELSE @]
        /\ unwritten' = IF compiles THEN (IF fails THEN unwritten \cup {p} ELSE unwritten \ {p}) ELSE unwritten
        /\ pass' = [pass EXCEPT !.stat = FALSE, !.todo = Tail(@)]
  BY DEF Compile
<1>2. UNCHANGED <<disk, now, mtimes>>
  BY DEF Compile
<1>3. /\ ~pass'.stat /\ pass'.stat \in BOOLEAN /\ pass'.seen = pass.seen
      /\ pass' = [on |-> pass'.on, force |-> pass'.force, todo |-> pass'.todo, seen |-> pass'.seen, stat |-> pass'.stat]
  BY <1>1 DEF WatchInv, Shapes
<1>4. out' = [q \in Files |-> out'[q]] /\ \A q \in Files \ {p} : out'[q] = out[q]
  BY <1>1 DEF WatchInv, Shapes
<1>5. Shapes'
  BY <1>2, <1>3, <1>4 DEF WatchInv, Shapes
<1>6. TimesPast'
  BY <1>2, <1>3 DEF WatchInv, TimesPast
<1>7. ASSUME p \in Files, NEW m PROVE Good(p, m)'
  <2>1. out'[p] = IF compiles /\ ~fails THEN disk[p].source ELSE out[p]
    BY <1>1, <1>7 DEF WatchInv, Shapes
  <2>2. QED
    BY <1>1, <1>2, <2>1 DEF Good
<1>8. ASSUME NEW q \in Files \ {p}, NEW m, Good(q, m) PROVE Good(q, m)'
  BY <1>1, <1>2, <1>4, <1>8 DEF Good
<1>9. \A q \in Files : Good(q, mtimes[q]) /\ (q # p => Good(q, pass.seen[q]))
  BY <1>1 DEF WatchInv, Looking
<1>10. \A q \in Files : Good(q, mtimes[q])' /\ Good(q, pass.seen[q])'
  BY <1>2, <1>3, <1>7, <1>8, <1>9 DEF Good
<1>11. QED
  BY <1>3, <1>5, <1>6, <1>10 DEF WatchInv, Good

\* What was seen is recorded.
LEMMA EndPassKeeps ==
  ASSUME WatchInv, EndPass
  PROVE  WatchInv'
<1>1. /\ ~pass.stat /\ pass' = NoPass /\ UNCHANGED <<disk, out, unwritten, now>>
      /\ mtimes' = [p \in Files |-> pass.seen[p]]
  BY DEF EndPass, Recorded, WatchInv, Shapes
<1>2. /\ ~pass'.stat /\ pass'.stat \in BOOLEAN /\ \A p \in Files : pass'.seen[p] = None
      /\ pass' = [on |-> pass'.on, force |-> pass'.force, todo |-> pass'.todo, seen |-> pass'.seen, stat |-> pass'.stat]
      /\ pass'.seen \in [Files -> Int]
  BY <1>1 DEF NoPass, None
<1>3. Shapes'
  BY <1>1, <1>2 DEF WatchInv, Shapes
<1>4. TimesPast'
  BY <1>1, <1>2 DEF WatchInv, TimesPast, None
<1>5. \A p \in Files : Good(p, mtimes[p])'
  BY <1>1 DEF WatchInv, Looking, Good
<1>6. \A p \in Files : Good(p, pass.seen[p])'
  BY <1>1, <1>2 DEF WatchInv, TimesPast, Good, None, Epoch
<1>7. QED
  BY <1>3, <1>4, <1>5, <1>6 DEF WatchInv

LEMMA WatchStep == WatchInv /\ [Next]_vars => WatchInv'
<1> SUFFICES ASSUME WatchInv, [Next]_vars PROVE WatchInv'
  OBVIOUS
<1>1. CASE Watch
  BY <1>1, StartPassKeeps, StatKeeps, CompileKeeps, EndPassKeeps DEF Watch
<1>2. CASE Learn
  <2>1. CASE LearnRead \/ LearnTape
    BY <2>1, AsideKeeps DEF LearnRead, LearnTape
  <2>2. CASE LearnWrite
    <3>1. CASE Fixes = {}
      BY <2>2, <3>1, AsideKeeps DEF LearnWrite
    <3>2. CASE Fixes # {}
      <4>1. PICK source : Written(Learned, source)
        BY <2>2, <3>2 DEF LearnWrite
      <4>2. UNCHANGED <<out, unwritten, mtimes, pass>>
        BY <2>2 DEF LearnWrite
      <4>3. QED
        BY <4>1, <4>2, WriteKeeps
    <3>3. QED
      BY <3>1, <3>2
  <2>3. ASSUME NEW call \in Calls, NEW class \in Returns[call], LearnDrive(call, class) PROVE WatchInv'
    BY <2>3, AsideKeeps DEF LearnDrive
  <2>4. ASSUME NEW call \in Calls, NEW class \in Returns[call], Observe(call, class) PROVE WatchInv'
    <3>1. PICK source : Written(Learned, source)
      BY <2>4 DEF Observe
    <3>2. UNCHANGED <<out, unwritten, mtimes, pass>>
      BY <2>4 DEF Observe
    <3>3. QED
      BY <3>1, <3>2, WriteKeeps
  <2>5. QED
    BY <1>2, <2>1, <2>2, <2>3, <2>4 DEF Learn
<1>3. CASE Developer
  <2>1. ASSUME NEW path \in Files, NEW source \in Sources, Edit(path, source) PROVE WatchInv'
    BY <2>1, WriteKeeps DEF Edit
  <2>2. QED
    BY <1>3, <2>1, DeleteKeeps DEF Developer
<1>4. CASE Program
  BY <1>4, AsideKeeps DEF Program, Run
<1>5. CASE UNCHANGED vars
  BY <1>5, AsideKeeps DEF vars
<1>6. QED
  BY <1>1, <1>2, <1>3, <1>4, <1>5 DEF Next

LEMMA WatchAtStart == Init => WatchInv
<1> SUFFICES ASSUME Init PROVE WatchInv
  OBVIOUS
<1>1. PICK s : disk = [p \in Files |-> [there |-> TRUE, source |-> s, mtime |-> 1]]
  BY DEF Init
<1>2. \A p \in Files : disk[p].mtime = 1
  BY <1>1
<1>3. /\ pass = [on |-> pass.on, force |-> pass.force, todo |-> pass.todo, seen |-> pass.seen, stat |-> pass.stat]
      /\ pass.stat = FALSE /\ pass.seen = [p \in Files |-> None]
  BY DEF Init, NoPass
<1>4. mtimes = [p \in Files |-> None] /\ out = [p \in Files |-> NoOutput] /\ now = 1
  BY DEF Init
<1>5. Shapes
  BY <1>1, <1>3, <1>4 DEF Shapes
<1>6. TimesPast
  BY <1>2, <1>3, <1>4 DEF TimesPast, None, Epoch
<1>7. \A p \in Files : Good(p, None)
  BY <1>2 DEF Good, None
<1>8. QED
  BY <1>3, <1>4, <1>5, <1>6, <1>7 DEF WatchInv

\* The watcher never takes a stale output for current: where the recorded mtime
\* is the file's, the output is that of the file or could not be written,
\* whatever was edited, deleted, learned or observed while the pass ran.
THEOREM WatchIsCurrent == Spec => []OutputIsCurrent
<1>1. WatchInv => OutputIsCurrent
  BY DEF WatchInv, Good, OutputIsCurrent
<1>2. QED
  BY <1>1, WatchAtStart, WatchStep, PTL DEF Spec

---------------------------------------------------------------------------
(* Numbers and their order: a set of numbers that is not empty has a least *)
(* one, and so there is an induction, over a set.                          *)

LEMMA LeastNumber ==
  ASSUME NEW T \in SUBSET Nat, T # {}
  PROVE  \E n \in T : \A m \in T : n <= m
<1>1. IsWellFoundedOn(OpToRel(<,Nat), Nat)
  BY NatLessThanWellFounded
<1>2. PICK n \in T : \A m \in T : ~(<<m, n>> \in OpToRel(<,Nat))
  BY <1>1, WFMin
<1>3. \A m \in T : ~(m < n)
  BY <1>2 DEF OpToRel
<1>4. QED
  BY <1>3

LEMMA EveryNumber ==
  ASSUME NEW T, 0 \in T, \A n \in Nat : n \in T => n + 1 \in T
  PROVE  \A n \in Nat : n \in T
<1> DEFINE F == {n \in Nat : n \notin T}
<1>1. SUFFICES ASSUME F # {} PROVE FALSE
  OBVIOUS
<1>2. PICK n \in F : \A m \in F : n <= m
  <2> HIDE DEF F
  <2>1. F \in SUBSET Nat
    BY DEF F
  <2>2. QED
    BY <1>1, <2>1, LeastNumber
<1>3. n \in Nat /\ n # 0 /\ n - 1 \in Nat
  BY <1>2
<1>4. n - 1 \in T
  BY <1>2, <1>3
<1>5. QED
  BY <1>2, <1>3, <1>4

\* s has the members of S as its first k, the least first.
Enumerates(s, k, S) ==
  /\ s \in [1..k -> S]
  /\ \A i, j \in 1..k : i < j => s[i] < s[j]
  /\ \A n \in S : \E i \in 1..k : s[i] = n

LEMMA EnumerationExists ==
  ASSUME NEW S \in SUBSET Nat, IsFiniteSet(S)
  PROVE  \E s : Enumerates(s, Cardinality(S), S)
<1> DEFINE T == {k \in Nat : \A R \in SUBSET S : Cardinality(R) = k => \E s : Enumerates(s, k, R)}
<1>1. \A R \in SUBSET S : IsFiniteSet(R) /\ Cardinality(R) \in Nat
  BY FS_Subset, FS_CardinalityType
<1>2. 0 \in T
  <2>1. ASSUME NEW R \in SUBSET S, Cardinality(R) = 0 PROVE \E s : Enumerates(s, 0, R)
    <3>1. R = {}
      BY <1>1, <2>1, FS_EmptySet
    <3>2. Enumerates([i \in 1..0 |-> i], 0, R)
      BY <3>1 DEF Enumerates
    <3>3. QED
      BY <3>2
  <2>2. QED
    BY <2>1
<1>3. ASSUME NEW k \in Nat, k \in T PROVE k + 1 \in T
  <2>1. ASSUME NEW R \in SUBSET S, Cardinality(R) = k + 1 PROVE \E s : Enumerates(s, k + 1, R)
    <3>1. R # {} /\ R \in SUBSET Nat
      BY <2>1, FS_EmptySet
    <3>2. PICK x \in R : \A m \in R : x <= m
      BY <3>1, LeastNumber
    <3>3. Cardinality(R \ {x}) = k
      <4>1. IsFiniteSet(R)
        BY <1>1
      <4>2. Cardinality(R \ {x}) = Cardinality(R) - 1
        BY <4>1, FS_RemoveElement
      <4>3. QED
        BY <2>1, <4>2
    <3>4. R \ {x} \in SUBSET S
      OBVIOUS
    <3>5. PICK r : Enumerates(r, k, R \ {x})
      BY <1>3, <3>3, <3>4
    <3>6. PICK s : s = [i \in 1..(k + 1) |-> IF i = 1 THEN x ELSE r[i - 1]]
      OBVIOUS
    <3>7. s[1] = x /\ \A i \in 1..(k + 1) : i # 1 => i - 1 \in 1..k /\ s[i] = r[i - 1]
      BY <3>6
    <3>8. \A i \in 1..k : i + 1 \in 1..(k + 1) /\ s[i + 1] = r[i] /\ r[i] \in R /\ r[i] # x /\ r[i] \in Nat
      <4>1. TAKE i \in 1..k
      <4>2. r[i] \in R \ {x}
        BY <3>5 DEF Enumerates
      <4>3. i + 1 \in 1..(k + 1) /\ i + 1 # 1 /\ (i + 1) - 1 = i
        OBVIOUS
      <4>4. s[i + 1] = r[i]
        BY <3>6, <4>3
      <4>5. QED
        BY <3>1, <4>2, <4>3, <4>4
    <3>9. s \in [1..(k + 1) -> R]
      BY <3>6, <3>7, <3>8
    <3>10. \A i, j \in 1..(k + 1) : i < j => s[i] < s[j]
      <4>1. TAKE i, j \in 1..(k + 1)
      <4>2. HAVE i < j
      <4>3. j # 1 /\ j - 1 \in 1..k /\ s[j] = r[j - 1] /\ s[j] \in R /\ s[j] # x
        BY <3>7, <3>8, <4>2
      <4>4. CASE i = 1
        <5>1. s[i] = x /\ x \in Nat /\ s[j] \in Nat
          BY <3>1, <3>7, <4>3, <4>4
        <5>2. x <= s[j]
          BY <3>2, <4>3
        <5>3. QED
          BY <4>3, <5>1, <5>2
      <4>5. CASE i # 1
        BY <3>5, <3>7, <4>2, <4>3, <4>5 DEF Enumerates
      <4>6. QED
        BY <4>4, <4>5
    <3>11. \A n \in R : \E i \in 1..(k + 1) : s[i] = n
      <4>1. TAKE n \in R
      <4>2. CASE n = x
        BY <3>6, <4>2
      <4>3. CASE n # x
        <5>1. PICK i \in 1..k : r[i] = n
          BY <3>5, <4>3 DEF Enumerates
        <5>2. QED
          BY <3>8, <5>1
      <4>4. QED
        BY <4>2, <4>3
    <3>12. QED
      BY <3>9, <3>10, <3>11 DEF Enumerates
  <2>2. QED
    BY <2>1
<1> HIDE DEF T
<1>4. \A k \in Nat : k \in T
  BY <1>2, <1>3, EveryNumber
<1>5. QED
  BY <1>1, <1>4 DEF T

LEMMA AscendingEnumerates ==
  ASSUME NEW S \in SUBSET Nat, IsFiniteSet(S)
  PROVE  Enumerates(Ascending(S), Cardinality(S), S)
<1> DEFINE P(s) == /\ \A i, j \in DOMAIN s : i < j => s[i] < s[j]
                   /\ \A n \in S : \E i \in DOMAIN s : s[i] = n
<1>1. PICK s : Enumerates(s, Cardinality(S), S)
  BY EnumerationExists
<1>2. s \in [1..Cardinality(S) -> S] /\ P(s)
  BY <1>1 DEF Enumerates
<1>3. Ascending(S) \in [1..Cardinality(S) -> S] /\ P(Ascending(S))
  BY <1>2 DEF Ascending
<1>4. QED
  BY <1>3 DEF Enumerates

LEMMA OneEnumeration ==
  ASSUME NEW S \in SUBSET Nat, NEW k \in Nat, NEW n \in Nat, NEW s, NEW t,
         Enumerates(s, k, S), Enumerates(t, n, S)
  PROVE  k = n /\ s = t
<1> DEFINE T == {i \in Nat : i <= k => i <= n /\ \A j \in 1..i : s[j] = t[j]}
<1>1. 0 \in T
  OBVIOUS
<1>2. ASSUME NEW i \in Nat, i \in T PROVE i + 1 \in T
  <2>1. SUFFICES ASSUME i + 1 <= k PROVE i + 1 <= n /\ s[i + 1] = t[i + 1]
    BY <1>2
  <2>2. i + 1 \in 1..k /\ i <= n /\ \A j \in 1..i : s[j] = t[j]
    BY <1>2, <2>1
  <2>3. (\A j \in 1..k : s[j] \in Nat) /\ (\A j \in 1..n : t[j] \in Nat)
    BY DEF Enumerates
  <2>4. PICK j \in 1..n : t[j] = s[i + 1]
    BY <2>2 DEF Enumerates
  <2>5. j > i
    <3>1. SUFFICES ASSUME j \in 1..i PROVE FALSE
      OBVIOUS
    <3>2. s[j] < s[i + 1]
      BY <2>2, <3>1 DEF Enumerates
    <3>3. QED
      BY <2>2, <2>3, <2>4, <3>1, <3>2
  <2>6. i + 1 \in 1..n
    BY <2>5
  <2>7. PICK m \in 1..k : s[m] = t[i + 1]
    BY <2>6 DEF Enumerates
  <2>8. m > i
    <3>1. SUFFICES ASSUME m \in 1..i PROVE FALSE
      OBVIOUS
    <3>2. t[m] < t[i + 1]
      BY <2>2, <2>6, <3>1 DEF Enumerates
    <3>3. QED
      BY <2>2, <2>3, <2>6, <2>7, <3>1, <3>2
  <2>9. s[i + 1] <= s[m]
    BY <2>2, <2>3, <2>8 DEF Enumerates
  <2>10. t[i + 1] <= t[j]
    BY <2>3, <2>5, <2>6 DEF Enumerates
  <2>11. QED
    BY <2>2, <2>3, <2>4, <2>6, <2>7, <2>9, <2>10
<1> HIDE DEF T
<1>3. k \in T
  BY <1>1, <1>2, EveryNumber
<1>4. k <= n /\ \A j \in 1..k : s[j] = t[j]
  BY <1>3 DEF T
<1>5. ~(k < n)
  <2>1. SUFFICES ASSUME k < n PROVE FALSE
    OBVIOUS
  <2>2. k + 1 \in 1..n /\ t[k + 1] \in S
    BY <2>1 DEF Enumerates
  <2>3. PICK m \in 1..k : s[m] = t[k + 1]
    BY <2>2 DEF Enumerates
  <2>4. t[m] < t[k + 1]
    BY <2>2 DEF Enumerates
  <2>5. t[m] = t[k + 1] /\ t[m] \in Nat
    BY <1>4, <2>2, <2>3
  <2>6. QED
    BY <2>4, <2>5
<1>6. QED
  BY <1>4, <1>5 DEF Enumerates

---------------------------------------------------------------------------
(* Texts of declarations: where each one lies.                             *)

\* The characters of a text.
Chars == Names \cup {"x", ";", "L", "S", "v", "e", "c"}

LEMMA WordFacts ==
  /\ Classes = {"Long", "String", "Vector"}
  /\ \A c \in Classes : /\ Word[c] \in Seq(Chars) /\ Len(Word[c]) \in Nat
                        /\ \A m \in 1..Len(Word[c]) : Word[c][m] # ";"
  /\ \A c, d \in Classes : Word[c] = Word[d] => c = d
<1>1. Classes = {"Long", "String", "Vector"}
  BY DEF Classes, Word
<1>2. Word["Long"] = <<"L">> /\ Word["String"] = <<"S">> /\ Word["Vector"] = <<"v", "e", "c">>
  BY DEF Word
<1>3. ASSUME NEW c \in Classes
      PROVE  /\ Word[c] \in Seq(Chars) /\ Len(Word[c]) \in Nat
             /\ \A m \in 1..Len(Word[c]) : Word[c][m] # ";"
  <2>1. {"L", "S", "v", "e", "c"} \subseteq Chars
    BY DEF Chars
  <2>2. <<"L">> \in Seq(Chars) /\ Len(<<"L">>) = 1 /\ <<"S">> \in Seq(Chars) /\ Len(<<"S">>) = 1
    BY <2>1
  <2>3. <<"v", "e", "c">> \in Seq(Chars) /\ Len(<<"v", "e", "c">>) = 3
    BY <2>1
  <2>4. /\ \A m \in 1..1 : <<"L">>[m] # ";" /\ <<"S">>[m] # ";"
        /\ \A m \in 1..3 : <<"v", "e", "c">>[m] # ";"
    <3>1. ASSUME NEW m \in 1..3 PROVE <<"v", "e", "c">>[m] # ";"
      <4>1. m = 1 \/ m = 2 \/ m = 3
        OBVIOUS
      <4>2. <<"v", "e", "c">>[1] # ";" /\ <<"v", "e", "c">>[2] # ";" /\ <<"v", "e", "c">>[3] # ";"
        OBVIOUS
      <4>3. QED
        BY <4>1, <4>2
    <3>2. ASSUME NEW m \in 1..1 PROVE <<"L">>[m] # ";" /\ <<"S">>[m] # ";"
      <4>1. m = 1
        OBVIOUS
      <4>2. <<"L">>[1] # ";" /\ <<"S">>[1] # ";"
        OBVIOUS
      <4>3. QED
        BY <4>1, <4>2
    <3>3. QED
      BY <3>1, <3>2
  <2>5. CASE c = "Long"
    BY <1>2, <2>2, <2>4, <2>5
  <2>6. CASE c = "String"
    BY <1>2, <2>2, <2>4, <2>6
  <2>7. CASE c = "Vector"
    BY <1>2, <2>3, <2>4, <2>7
  <2>8. QED
    BY <1>1, <2>5, <2>6, <2>7
<1>4. ASSUME NEW c \in Classes, NEW d \in Classes, Word[c] = Word[d] PROVE c = d
  <2>1. <<"L">> # <<"S">> /\ <<"L">> # <<"v", "e", "c">> /\ <<"S">> # <<"v", "e", "c">>
    OBVIOUS
  <2>2. QED
    BY <1>1, <1>2, <1>4, <2>1
<1>5. QED
  BY <1>1, <1>3, <1>4

\* The declaration d lies behind the place at.
Placed(t, d, at) ==
  /\ t[at + 1] = "x" /\ t[at + 2] = d.name /\ t[at + 3] = d.par
  /\ \A m \in 1..Len(Word[d.ret]) : t[at + 3 + m] = Word[d.ret][m]
  /\ t[at + 4 + Len(Word[d.ret])] = ";"

\* t consists of the declarations ds, the i-th of which ends at o[i].
Laid(t, ds, o) ==
  /\ ds \in Seq(Declarations) /\ t \in Seq(Chars)
  /\ o \in [0..Len(ds) -> Nat] /\ o[0] = 0 /\ o[Len(ds)] = Len(t)
  /\ \A i \in 1..Len(ds) : o[i] = o[i - 1] + 4 + Len(Word[ds[i].ret]) /\ Placed(t, ds[i], o[i - 1])

LEMMA DeclarationFacts ==
  ASSUME NEW d \in Declarations
  PROVE  /\ d.name \in Names /\ d.name # ";" /\ d.par \in Names /\ d.par # ";" /\ d.ret \in Classes
         /\ d = Decl(d.name, d.par, d.ret)
         /\ Word[d.ret] \in Seq(Chars) /\ Len(Word[d.ret]) \in Nat
         /\ \A m \in 1..Len(Word[d.ret]) : Word[d.ret][m] # ";"
  BY WordFacts, NamesAssumption DEF Declarations, Decl

LEMMA LaidFacts ==
  ASSUME NEW t, NEW ds, NEW o, Laid(t, ds, o)
  PROVE  /\ Len(ds) \in Nat /\ Len(t) \in Nat /\ 0 \in 0..Len(ds) /\ Len(ds) \in 0..Len(ds)
         /\ \A i \in 1..Len(ds) : /\ ds[i] \in Declarations /\ i - 1 \in 0..Len(ds) /\ i \in 0..Len(ds)
                                  /\ Len(Word[ds[i].ret]) \in Nat
                                  /\ o[i] = o[i - 1] + 4 + Len(Word[ds[i].ret])
         /\ \A i \in 0..Len(ds) : o[i] \in Nat
<1>1. Len(ds) \in Nat /\ Len(t) \in Nat
  BY DEF Laid
<1>2. \A i \in 1..Len(ds) : ds[i] \in Declarations
  BY DEF Laid
<1>3. \A i \in 1..Len(ds) : Len(Word[ds[i].ret]) \in Nat
  BY <1>2, DeclarationFacts
<1>4. \A i \in 1..Len(ds) : i - 1 \in 0..Len(ds) /\ i \in 0..Len(ds)
  BY <1>1
<1>5. \A i \in 1..Len(ds) : o[i] = o[i - 1] + 4 + Len(Word[ds[i].ret])
  BY DEF Laid
<1>6. \A i \in 0..Len(ds) : o[i] \in Nat
  BY DEF Laid
<1>7. 0 \in 0..Len(ds) /\ Len(ds) \in 0..Len(ds)
  BY <1>1
<1>8. QED
  BY <1>1, <1>2, <1>3, <1>4, <1>5, <1>6, <1>7

LEMMA LaidOrder ==
  ASSUME NEW t, NEW ds, NEW o, Laid(t, ds, o)
  PROVE  \A i, j \in 0..Len(ds) : i < j => o[i] + 4 <= o[j]
<1> DEFINE T == {j \in Nat : j <= Len(ds) => \A i \in 0..Len(ds) : i < j => o[i] + 4 <= o[j]}
<1>1. 0 \in T
  OBVIOUS
<1>2. ASSUME NEW j \in Nat, j \in T PROVE j + 1 \in T
  <2>1. SUFFICES ASSUME j + 1 <= Len(ds), NEW i \in 0..Len(ds), i < j + 1 PROVE o[i] + 4 <= o[j + 1]
    OBVIOUS
  <2>2. Len(ds) \in Nat
    BY LaidFacts
  <2>3. j + 1 \in 1..Len(ds) /\ j \in 0..Len(ds) /\ (j + 1) - 1 = j
    BY <2>1, <2>2
  <2>4. o[i] \in Nat /\ o[j] \in Nat /\ o[j + 1] \in Nat /\ o[j + 1] >= o[j] + 4
    <3>1. PICK w \in Nat : o[j + 1] = o[j] + 4 + w
      <4>1. o[j + 1] = o[j] + 4 + Len(Word[ds[j + 1].ret]) /\ Len(Word[ds[j + 1].ret]) \in Nat
        BY <2>3, LaidFacts
      <4>2. QED
        BY <4>1
    <3>2. o[i] \in Nat /\ o[j] \in Nat
      BY <2>3, LaidFacts
    <3>3. QED
      BY <2>3, <3>1, <3>2
  <2>5. i < j => o[i] + 4 <= o[j]
    BY <1>2, <2>1, <2>2, <2>3
  <2>6. CASE i = j
    BY <2>4, <2>6
  <2>7. CASE i < j
    BY <2>4, <2>5, <2>7
  <2>8. QED
    BY <2>1, <2>6, <2>7
<1> HIDE DEF T
<1>3. \A j \in Nat : j \in T
  BY <1>1, <1>2, EveryNumber
<1>4. QED
  BY <1>3, LaidFacts DEF T

\* Every character belongs to a declaration.
LEMMA LaidCovers ==
  ASSUME NEW t, NEW ds, NEW o, Laid(t, ds, o), NEW p \in 1..Len(t)
  PROVE  \E i \in 1..Len(ds) : o[i - 1] < p /\ p <= o[i]
<1> DEFINE T == {i \in 0..Len(ds) : p <= o[i]}
<1>1. Len(ds) \in T /\ T \in SUBSET Nat
  BY LaidFacts DEF Laid
<1>2. PICK i \in T : \A j \in T : i <= j
  <2> HIDE DEF T
  <2>1. QED
    BY <1>1, LeastNumber
<1>3. i # 0 /\ i \in 1..Len(ds) /\ i - 1 \in 0..Len(ds) /\ i - 1 \notin T
  BY <1>2, LaidFacts DEF Laid
<1>4. o[i - 1] < p
  BY <1>3, LaidFacts
<1>5. QED
  BY <1>2, <1>3, <1>4

\* A ";" ends a declaration.
Ends(t) == {p \in DOMAIN t : t[p] = ";"}

LEMMA LaidEnds ==
  ASSUME NEW t, NEW ds, NEW o, Laid(t, ds, o)
  PROVE  Ends(t) = {o[i] : i \in 1..Len(ds)}
<1>1. DOMAIN t = 1..Len(t)
  BY DEF Laid
<1>2. ASSUME NEW p \in 1..Len(t), t[p] = ";" PROVE \E i \in 1..Len(ds) : p = o[i]
  <2>1. PICK i \in 1..Len(ds) : o[i - 1] < p /\ p <= o[i]
    BY LaidCovers
  <2>2. PICK d, at, w : d = ds[i] /\ at = o[i - 1] /\ w = Len(Word[d.ret])
    OBVIOUS
  <2>3. d \in Declarations /\ at \in Nat /\ w \in Nat /\ o[i] = at + 4 + w
    BY <2>2, LaidFacts
  <2>4. Placed(t, d, at)
    BY <2>2 DEF Laid
  <2>5. p # at + 1 /\ p # at + 2 /\ p # at + 3
    <3>1. t[at + 1] = "x" /\ t[at + 2] = d.name /\ t[at + 3] = d.par
      BY <2>4 DEF Placed
    <3>2. "x" # ";" /\ d.name # ";" /\ d.par # ";"
      BY <2>3, DeclarationFacts
    <3>3. QED
      BY <1>2, <3>1, <3>2
  <2>6. ASSUME p <= at + 3 + w PROVE FALSE
    <3>0. at < p /\ p \in Nat
      BY <2>1, <2>2, LaidFacts
    <3>1. p - (at + 3) \in 1..w /\ at + 3 + (p - (at + 3)) = p
      BY <2>3, <2>5, <2>6, <3>0
    <3>2. t[p] = Word[d.ret][p - (at + 3)]
      BY <2>2, <2>4, <3>1 DEF Placed
    <3>3. QED
      BY <1>2, <2>2, <2>3, <3>1, <3>2, DeclarationFacts
  <2>7. p = o[i]
    BY <2>1, <2>3, <2>6
  <2>8. QED
    BY <2>7
<1>3. ASSUME NEW i \in 1..Len(ds) PROVE o[i] \in 1..Len(t) /\ t[o[i]] = ";"
  <2>1. PICK d, at, w : d = ds[i] /\ at = o[i - 1] /\ w = Len(Word[d.ret])
    OBVIOUS
  <2>2. at \in Nat /\ w \in Nat /\ o[i] = at + 4 + w
    BY <2>1, LaidFacts
  <2>3. t[at + 4 + w] = ";"
    BY <2>1 DEF Laid, Placed
  <2>4. o[i] <= Len(t)
    <3>1. i = Len(ds) \/ i < Len(ds)
      BY LaidFacts
    <3>2. o[Len(ds)] = Len(t)
      BY DEF Laid
    <3>3. CASE i < Len(ds)
      <4>1. o[i] + 4 <= o[Len(ds)]
        BY <3>3, LaidOrder, LaidFacts
      <4>2. QED
        BY <2>2, <3>2, <4>1, LaidFacts
    <3>4. QED
      BY <2>2, <3>1, <3>2, <3>3
  <2>5. t[o[i]] = ";"
    BY <2>2, <2>3
  <2>6. o[i] \in Nat /\ o[i] >= 1 /\ Len(t) \in Nat
    BY <2>2, LaidFacts
  <2>7. o[i] \in 1..Len(t)
    BY <2>4, <2>6
  <2>8. QED
    BY <2>5, <2>7
<1>4. \A p : p \in Ends(t) <=> p \in {o[i] : i \in 1..Len(ds)}
  BY <1>1, <1>2, <1>3 DEF Ends
<1>5. QED
  BY <1>4

\* They are found in their order.
LEMMA LaidAscending ==
  ASSUME NEW t, NEW ds, NEW o, Laid(t, ds, o)
  PROVE  Ascending(Ends(t)) = [i \in 1..Len(ds) |-> o[i]]
<1> DEFINE e == [i \in 1..Len(ds) |-> o[i]]
<1>1. DOMAIN t = 1..Len(t) /\ Len(t) \in Nat /\ Len(ds) \in Nat
  BY LaidFacts DEF Laid
<1>2. Ends(t) \in SUBSET Nat /\ IsFiniteSet(Ends(t))
  <2>1. Len(t) \in Int /\ 1 \in Int /\ 1..Len(t) \subseteq Nat
    BY <1>1
  <2>2. IsFiniteSet(1..Len(t))
    BY <2>1, FS_Interval
  <2>3. Ends(t) \subseteq 1..Len(t)
    BY <1>1 DEF Ends
  <2>4. IsFiniteSet(Ends(t))
    BY <2>2, <2>3, FS_Subset
  <2>5. QED
    BY <2>1, <2>3, <2>4
<1>3. Enumerates(e, Len(ds), Ends(t))
  <2>1. e \in [1..Len(ds) -> Ends(t)] /\ \A n \in Ends(t) : \E i \in 1..Len(ds) : e[i] = n
    BY LaidEnds
  <2>2. \A i, j \in 1..Len(ds) : i < j => e[i] < e[j]
    <3>1. TAKE i, j \in 1..Len(ds)
    <3>2. HAVE i < j
    <3>3. o[i] \in Nat /\ o[j] \in Nat /\ o[i] + 4 <= o[j]
      BY <3>2, LaidFacts, LaidOrder
    <3>4. QED
      BY <3>3
  <2>3. QED
    BY <2>1, <2>2 DEF Enumerates
<1> HIDE DEF e
<1>4. Cardinality(Ends(t)) \in Nat /\ Enumerates(Ascending(Ends(t)), Cardinality(Ends(t)), Ends(t))
  BY <1>2, AscendingEnumerates, FS_CardinalityType
<1>5. Ascending(Ends(t)) = e
  BY <1>1, <1>2, <1>3, <1>4, OneEnumeration
<1>6. QED
  BY <1>5 DEF e

\* What is read of it: its declarations, each with the span of its return type.
DeclAt(t, e, i) ==
  LET start == IF i = 1 THEN 1 ELSE e[i - 1] + 1
      ret == SubSeq(t, start + 3, e[i] - 1)
  IN [name |-> t[start + 1], par |-> t[start + 2],
      ret |-> IF \E c \in Classes : Word[c] = ret THEN CHOOSE c \in Classes : Word[c] = ret ELSE "none",
      span |-> [start |-> start + 3, end |-> e[i] - 1]]
Span(o, i) == [start |-> o[i - 1] + 4, end |-> o[i] - 1]
Read(d, span) == [name |-> d.name, par |-> d.par, ret |-> d.ret, span |-> span]

LEMMA DeclsUnfold ==
  ASSUME NEW t
  PROVE  Decls(t) = [i \in DOMAIN Ascending(Ends(t)) |-> DeclAt(t, Ascending(Ends(t)), i)]
  BY DEF Decls, DeclAt, Ends

LEMMA LaidDecls ==
  ASSUME NEW t, NEW ds, NEW o, Laid(t, ds, o)
  PROVE  Decls(t) = [i \in 1..Len(ds) |-> Read(ds[i], Span(o, i))]
<1> DEFINE e == [i \in 1..Len(ds) |-> o[i]]
<1>1. Decls(t) = [i \in 1..Len(ds) |-> DeclAt(t, e, i)]
  <2>1. Ascending(Ends(t)) = e
    BY LaidAscending
  <2>2. DOMAIN e = 1..Len(ds)
    OBVIOUS
  <2> HIDE DEF e
  <2>3. QED
    BY <2>1, <2>2, DeclsUnfold
<1>2. ASSUME NEW i \in 1..Len(ds) PROVE DeclAt(t, e, i) = Read(ds[i], Span(o, i))
  <2>1. PICK d, at, w, end : d = ds[i] /\ at = o[i - 1] /\ w = Len(Word[d.ret]) /\ end = o[i]
    OBVIOUS
  <2>2. d \in Declarations /\ at \in Nat /\ w \in Nat /\ end = at + 4 + w /\ end \in Nat
    BY <2>1, LaidFacts
  <2>3. Placed(t, d, at) /\ e[i] = end
    <3>1. Placed(t, d, at)
      BY <2>1 DEF Laid
    <3>2. e[i] = end
      BY <2>1
    <3>3. QED
      BY <3>1, <3>2
  <2>4. PICK start : start = IF i = 1 THEN 1 ELSE e[i - 1] + 1
    <3> HIDE DEF e
    <3>1. QED
      OBVIOUS
  <2>5. start = at + 1
    <3>1. CASE i = 1
      BY <2>1, <2>4, <3>1 DEF Laid
    <3>2. CASE i # 1
      <4>1. i - 1 \in 1..Len(ds)
        BY <3>2, LaidFacts
      <4>2. QED
        BY <2>1, <2>4, <3>2, <4>1
    <3>3. QED
      BY <3>1, <3>2
  <2>6. PICK ret : ret = SubSeq(t, start + 3, end - 1)
    OBVIOUS
  <2>7. ret = Word[d.ret]
    <3>1. start + 3 = at + 4 /\ end - 1 = at + 3 + w
      BY <2>2, <2>5
    <3>2. PICK word : word = Word[d.ret]
      OBVIOUS
    <3>9. word \in Seq(Chars) /\ Len(word) = w
      BY <2>1, <2>2, <3>2, DeclarationFacts
    <3>3. \A m \in 1..w : t[at + 3 + m] = word[m] /\ word[m] \in Chars
      <4>1. \A m \in 1..w : t[at + 3 + m] = word[m]
        BY <2>1, <2>3, <3>2 DEF Placed
      <4>2. \A m \in 1..w : word[m] \in Chars
        BY <3>9, ElementOfSeq
      <4>3. QED
        BY <4>1, <4>2
    <3>4. \A n \in (at + 4)..(at + 3 + w) : t[n] \in Chars
      <4>1. TAKE n \in (at + 4)..(at + 3 + w)
      <4>2. n - (at + 3) \in 1..w /\ at + 3 + (n - (at + 3)) = n
        BY <2>2
      <4>3. QED
        BY <3>3, <4>2
    <3>5. PICK a, b : a = at + 4 /\ b = at + 3 + w
      OBVIOUS
    <3>6. /\ ret \in Seq(Chars) /\ Len(ret) = IF a <= b THEN b - a + 1 ELSE 0
          /\ \A m \in 1..(b - a + 1) : ret[m] = t[a + m - 1]
      <4>1. a \in Int /\ b \in Int /\ (\A n \in a..b : t[n] \in Chars) /\ ret = SubSeq(t, a, b)
        <5>1. a \in Int /\ b \in Int
          BY <2>2, <3>5
        <5>2. \A n \in a..b : t[n] \in Chars
          BY <3>4, <3>5
        <5>3. ret = SubSeq(t, a, b)
          BY <2>6, <3>1, <3>5
        <5>4. QED
          BY <5>1, <5>2, <5>3
      <4>2. QED
        BY <4>1, SubSeqProperties
    <3>7. Len(ret) = w /\ \A m \in 1..w : ret[m] = t[at + 3 + m]
      <4>1. b - a + 1 = w /\ (~(a <= b) => w = 0)
        BY <2>2, <3>5
      <4>2. \A m \in 1..w : a + m - 1 = at + 3 + m
        BY <2>2, <3>5
      <4>3. QED
        BY <3>6, <4>1, <4>2
    <3>8. QED
      <4>1. ret = word
        BY <3>3, <3>6, <3>7, <3>9, SeqEqual
      <4>2. QED
        BY <3>2, <4>1
  <2>8. (IF \E c \in Classes : Word[c] = ret THEN CHOOSE c \in Classes : Word[c] = ret ELSE "none") = d.ret
    <3>1. d.ret \in Classes /\ \A c \in Classes : Word[c] = ret => c = d.ret
      BY <2>2, <2>7, DeclarationFacts, WordFacts
    <3>2. QED
      BY <2>7, <3>1
  <2>9. t[start + 1] = d.name /\ t[start + 2] = d.par /\ start + 3 = at + 4
    <3>1. t[at + 2] = d.name /\ t[at + 3] = d.par
      BY <2>3 DEF Placed
    <3>2. start + 1 = at + 2 /\ start + 2 = at + 3 /\ start + 3 = at + 4
      BY <2>2, <2>5
    <3>3. QED
      BY <3>1, <3>2
  <2>10. DeclAt(t, e, i) = [name |-> t[start + 1], par |-> t[start + 2],
                            ret |-> IF \E c \in Classes : Word[c] = ret THEN CHOOSE c \in Classes : Word[c] = ret ELSE "none",
                            span |-> [start |-> start + 3, end |-> end - 1]]
    <3> HIDE DEF e
    <3>1. QED
      BY <2>3, <2>4, <2>6 DEF DeclAt
  <2>11. QED
    BY <2>1, <2>8, <2>9, <2>10 DEF Read, Span
<1> HIDE DEF e
<1>3. QED
  BY <1>1, <1>2

\* The declarations that are read, without their spans, are those that were laid.
LEMMA LaidBare ==
  ASSUME NEW t, NEW ds, NEW o, Laid(t, ds, o)
  PROVE  DOMAIN Decls(t) = 1..Len(ds) /\ Bare(Decls(t)) = ds
<1>1. Decls(t) = [i \in 1..Len(ds) |-> Read(ds[i], Span(o, i))]
  BY LaidDecls
<1>2. \A i \in 1..Len(ds) : Decl(Decls(t)[i].name, Decls(t)[i].par, Decls(t)[i].ret) = ds[i]
  <2>1. TAKE i \in 1..Len(ds)
  <2>2. ds[i] \in Declarations /\ Decls(t)[i] = Read(ds[i], Span(o, i))
    BY <1>1, LaidFacts
  <2>3. Decl(ds[i].name, ds[i].par, ds[i].ret) = ds[i]
    BY <2>2, DeclarationFacts
  <2>4. QED
    BY <2>2, <2>3 DEF Read
<1>3. Bare(Decls(t)) = [i \in 1..Len(ds) |-> ds[i]]
  BY <1>1, <1>2 DEF Bare
<1>4. ds = [i \in 1..Len(ds) |-> ds[i]]
  BY DEF Laid
<1>5. QED
  BY <1>1, <1>3, <1>4

---------------------------------------------------------------------------
(* Texts that are written: one declaration behind the others.              *)

LEMMA DeclarationPlaced ==
  ASSUME NEW d \in Declarations
  PROVE  Declaration(d) \in Seq(Chars) /\ Len(Declaration(d)) = 4 + Len(Word[d.ret]) /\ Placed(Declaration(d), d, 0)
<1>1. PICK head, word, w, last : head = <<"x", d.name, d.par>> /\ word = Word[d.ret] /\ w = Len(word) /\ last = <<";">>
  OBVIOUS
<1>2. word \in Seq(Chars) /\ w \in Nat
  BY <1>1, DeclarationFacts
<1>3. head \in Seq(Chars) /\ Len(head) = 3 /\ head[1] = "x" /\ head[2] = d.name /\ head[3] = d.par
  <2>1. PICK a, b : a = d.name /\ b = d.par
    OBVIOUS
  <2>2. "x" \in Chars /\ a \in Chars /\ b \in Chars
    BY <2>1, DeclarationFacts DEF Chars
  <2>3. <<"x", a, b>> \in Seq(Chars) /\ Len(<<"x", a, b>>) = 3
    BY <2>2
  <2>4. <<"x", a, b>>[1] = "x" /\ <<"x", a, b>>[2] = a /\ <<"x", a, b>>[3] = b
    OBVIOUS
  <2>5. head = <<"x", a, b>>
    BY <1>1, <2>1
  <2>6. QED
    BY <2>1, <2>3, <2>4, <2>5
<1>4. last \in Seq(Chars) /\ Len(last) = 1 /\ last[1] = ";"
  <2>1. PICK z : z = ";"
    OBVIOUS
  <2>2. z \in Chars /\ last = <<z>>
    BY <1>1, <2>1 DEF Chars
  <2>3. <<z>> \in Seq(Chars) /\ Len(<<z>>) = 1 /\ <<z>>[1] = z
    BY <2>2
  <2>4. QED
    BY <2>1, <2>2, <2>3
<1>5. PICK front : front = head \o word
  OBVIOUS
<1>6. /\ front \in Seq(Chars) /\ Len(front) = 3 + w
      /\ \A i \in 1..(3 + w) : front[i] = IF i <= 3 THEN head[i] ELSE word[i - 3]
  <2>1. /\ front \in Seq(Chars) /\ Len(front) = Len(head) + Len(word)
        /\ \A i \in 1..(Len(head) + Len(word)) : front[i] = IF i <= Len(head) THEN head[i] ELSE word[i - Len(head)]
    BY <1>2, <1>3, <1>5, ConcatProperties
  <2>2. QED
    BY <1>1, <1>3, <2>1
<1>7. Declaration(d) = front \o last
  BY <1>1, <1>5 DEF Declaration
<1>8. PICK u : u = front \o last
  OBVIOUS
<1>9. /\ u \in Seq(Chars) /\ Len(u) = 3 + w + 1
      /\ \A i \in 1..(3 + w + 1) : u[i] = IF i <= 3 + w THEN front[i] ELSE last[i - (3 + w)]
  <2>1. /\ u \in Seq(Chars) /\ Len(u) = Len(front) + Len(last)
        /\ \A i \in 1..(Len(front) + Len(last)) : u[i] = IF i <= Len(front) THEN front[i] ELSE last[i - Len(front)]
    BY <1>4, <1>6, <1>8, ConcatProperties
  <2>2. QED
    BY <1>4, <1>6, <2>1
<1>10. u[1] = "x" /\ u[2] = d.name /\ u[3] = d.par
  <2>1. 1 \in 1..(3 + w) /\ 2 \in 1..(3 + w) /\ 3 \in 1..(3 + w)
    BY <1>2
  <2>2. ASSUME NEW i \in 1..3 PROVE u[i] = head[i]
    <3>1. i \in 1..(3 + w) /\ i \in 1..(3 + w + 1) /\ i <= 3 + w /\ i <= 3
      BY <1>2
    <3>2. QED
      BY <1>6, <1>9, <3>1
  <2>3. u[1] = head[1] /\ u[2] = head[2] /\ u[3] = head[3]
    BY <2>2
  <2>4. QED
    BY <1>3, <2>3
<1>11. ASSUME NEW m \in 1..w PROVE u[3 + m] = word[m]
  <2>1. 3 + m \in 1..(3 + w) /\ 3 + m \in 1..(3 + w + 1) /\ 3 + m <= 3 + w /\ ~(3 + m <= 3) /\ (3 + m) - 3 = m
    BY <1>2
  <2>2. u[3 + m] = front[3 + m] /\ front[3 + m] = word[(3 + m) - 3]
    BY <1>6, <1>9, <2>1
  <2>3. QED
    BY <2>1, <2>2
<1>12. u[4 + w] = ";"
  <2>1. 4 + w \in 1..(3 + w + 1) /\ ~(4 + w <= 3 + w) /\ (4 + w) - (3 + w) = 1
    BY <1>2
  <2>2. u[4 + w] = last[(4 + w) - (3 + w)]
    BY <1>9, <2>1
  <2>3. QED
    BY <1>4, <2>1, <2>2
<1>13. Placed(u, d, 0)
  <2>1. 0 + 1 = 1 /\ 0 + 2 = 2 /\ 0 + 3 = 3 /\ 0 + 4 + w = 4 + w /\ \A m \in 1..w : 0 + 3 + m = 3 + m
    BY <1>2
  <2>2. u[0 + 1] = "x" /\ u[0 + 2] = d.name /\ u[0 + 3] = d.par /\ u[0 + 4 + w] = ";"
    BY <1>10, <1>12, <2>1
  <2>3. \A m \in 1..w : u[0 + 3 + m] = word[m]
    BY <1>11, <2>1
  <2>4. QED
    BY <1>1, <2>2, <2>3 DEF Placed
<1>14. QED
  <2>1. Declaration(d) = u
    BY <1>7, <1>8
  <2>2. 3 + w + 1 = 4 + w
    BY <1>2
  <2>3. Len(u) = 4 + Len(Word[d.ret])
    BY <1>1, <1>9, <2>2
  <2>4. QED
    BY <1>9, <1>13, <2>1, <2>3

\* A declaration stays where it was when characters behind it change, and moves
\* with the characters it consists of.
LEMMA PlacedMoves ==
  ASSUME NEW t, NEW u, NEW d \in Declarations, NEW at \in Nat, NEW to \in Nat, Placed(t, d, at),
         \A m \in 1..(4 + Len(Word[d.ret])) : u[to + m] = t[at + m]
  PROVE  Placed(u, d, to)
<1>1. PICK w : w = Len(Word[d.ret])
  OBVIOUS
<1>2. w \in Nat
  BY <1>1, DeclarationFacts
<1>3. 1 \in 1..(4 + w) /\ 2 \in 1..(4 + w) /\ 3 \in 1..(4 + w) /\ 4 + w \in 1..(4 + w)
  BY <1>2
<1>4. u[to + 1] = t[at + 1] /\ u[to + 2] = t[at + 2] /\ u[to + 3] = t[at + 3] /\ u[to + (4 + w)] = t[at + (4 + w)]
  BY <1>1, <1>3
<1>5. to + (4 + w) = to + 4 + w /\ at + (4 + w) = at + 4 + w
  BY <1>2
<1>6. ASSUME NEW m \in 1..w PROVE u[to + 3 + m] = t[at + 3 + m]
  <2>1. 3 + m \in 1..(4 + w) /\ to + (3 + m) = to + 3 + m /\ at + (3 + m) = at + 3 + m
    BY <1>2
  <2>2. u[to + (3 + m)] = t[at + (3 + m)]
    BY <1>1, <2>1
  <2>3. QED
    BY <2>1, <2>2
<1>7. QED
  BY <1>1, <1>4, <1>5, <1>6 DEF Placed

LEMMA AppendLaid ==
  ASSUME NEW t, NEW ds, NEW o, Laid(t, ds, o), NEW d \in Declarations
  PROVE  \E q : Laid(t \o Declaration(d), Append(ds, d), q)
<1>1. PICK n, k, w, u, es, tail :
        /\ n = Len(ds) /\ k = Len(t) /\ w = Len(Word[d.ret]) /\ tail = Declaration(d)
        /\ u = t \o tail /\ es = Append(ds, d)
  OBVIOUS
<1>2. n \in Nat /\ k \in Nat /\ w \in Nat /\ t \in Seq(Chars) /\ ds \in Seq(Declarations)
  BY <1>1, LaidFacts, DeclarationFacts DEF Laid
<1>3. tail \in Seq(Chars) /\ Len(tail) = 4 + w /\ Placed(tail, d, 0)
  BY <1>1, DeclarationPlaced
<1>4. /\ u \in Seq(Chars) /\ Len(u) = k + (4 + w)
      /\ \A i \in 1..(k + (4 + w)) : u[i] = IF i <= k THEN t[i] ELSE tail[i - k]
  <2>1. /\ u \in Seq(Chars) /\ Len(u) = Len(t) + Len(tail)
        /\ \A i \in 1..(Len(t) + Len(tail)) : u[i] = IF i <= Len(t) THEN t[i] ELSE tail[i - Len(t)]
    <3>1. u = t \o tail
      BY <1>1
    <3>2. QED
      BY <1>2, <1>3, <3>1, ConcatProperties
  <2>2. QED
    BY <1>1, <1>3, <2>1
<1>5. es \in Seq(Declarations) /\ Len(es) = n + 1 /\ es[n + 1] = d /\ \A i \in 1..n : es[i] = ds[i]
  BY <1>1, <1>2, AppendProperties
<1>6. PICK q : q = [i \in 0..(n + 1) |-> IF i <= n THEN o[i] ELSE k + 4 + w]
  OBVIOUS
<1>7. o \in [0..n -> Nat] /\ o[0] = 0 /\ o[n] = k
  BY <1>1 DEF Laid
<1>8. q[n + 1] = k + 4 + w /\ \A i \in 0..n : q[i] = o[i]
  BY <1>2, <1>6
<1>9. q \in [0..(n + 1) -> Nat] /\ q[0] = 0 /\ q[n + 1] = Len(u)
  <2>1. \A i \in 0..(n + 1) : (IF i <= n THEN o[i] ELSE k + 4 + w) \in Nat
    BY <1>2, <1>7
  <2>2. 0 \in 0..n
    BY <1>2
  <2>3. k + 4 + w = k + (4 + w)
    BY <1>2
  <2>4. QED
    BY <1>4, <1>6, <1>7, <1>8, <2>1, <2>2, <2>3
<1>10. ASSUME NEW i \in 1..n
       PROVE  q[i] = q[i - 1] + 4 + Len(Word[es[i].ret]) /\ Placed(u, es[i], q[i - 1])
  <2>1. PICK e, at, v : e = ds[i] /\ at = o[i - 1] /\ v = Len(Word[e.ret])
    OBVIOUS
  <2>2. /\ e \in Declarations /\ at \in Nat /\ v \in Nat /\ o[i] = at + 4 + v
        /\ i \in 0..n /\ i - 1 \in 0..n
    BY <1>1, <2>1, LaidFacts
  <2>3. Placed(t, e, at)
    BY <1>1, <2>1 DEF Laid
  <2>4. o[i] <= k
    <3>1. i = n \/ i < n
      BY <1>2
    <3>2. CASE i < n
      <4>1. o[i] + 4 <= o[n]
        <5>1. i \in 0..Len(ds) /\ Len(ds) \in 0..Len(ds) /\ i < Len(ds)
          BY <1>1, <2>2, <3>2, LaidFacts
        <5>2. o[i] + 4 <= o[Len(ds)]
          BY <5>1, LaidOrder
        <5>3. QED
          BY <1>1, <5>2
      <4>2. QED
        BY <1>2, <1>7, <2>2, <4>1
    <3>3. CASE i = n
      BY <1>2, <1>7, <3>3
    <3>4. QED
      BY <3>1, <3>2, <3>3
  <2>5. ASSUME NEW m \in 1..(4 + v) PROVE u[at + m] = t[at + m]
    <3>1. at + m \in 1..(k + (4 + w)) /\ at + m <= k
      BY <1>2, <2>2, <2>4
    <3>2. QED
      BY <1>4, <3>1
  <2>6. Placed(u, e, at)
    <3>1. \A m \in 1..(4 + Len(Word[e.ret])) : u[at + m] = t[at + m]
      BY <2>1, <2>5
    <3>2. QED
      BY <2>2, <2>3, <3>1, PlacedMoves
  <2>7. es[i] = e /\ q[i] = o[i] /\ q[i - 1] = at
    BY <1>5, <1>8, <2>1, <2>2
  <2>8. QED
    BY <2>1, <2>2, <2>6, <2>7
<1>11. q[n + 1] = q[n] + 4 + w /\ Placed(u, d, q[n])
  <2>1. n \in 0..n /\ q[n] = k
    BY <1>2, <1>7, <1>8
  <2>2. ASSUME NEW m \in 1..(4 + w) PROVE u[k + m] = tail[0 + m]
    <3>1. k + m \in 1..(k + (4 + w)) /\ ~(k + m <= k) /\ (k + m) - k = 0 + m
      BY <1>2
    <3>2. QED
      BY <1>4, <3>1
  <2>3. Placed(u, d, k)
    BY <1>1, <1>2, <1>3, <2>2, PlacedMoves
  <2>4. QED
    BY <1>8, <2>1, <2>3
<1>12. \A i \in 1..(n + 1) : q[i] = q[i - 1] + 4 + Len(Word[es[i].ret]) /\ Placed(u, es[i], q[i - 1])
  <2>1. TAKE i \in 1..(n + 1)
  <2>2. i \in 1..n \/ i = n + 1
    BY <1>2
  <2>3. CASE i = n + 1
    <3>1. i - 1 = n /\ es[i] = d
      BY <1>2, <1>5, <2>3
    <3>2. QED
      BY <1>1, <1>11, <2>3, <3>1
  <2>4. QED
    BY <1>10, <2>2, <2>3
<1>13. Laid(u, es, q)
  BY <1>4, <1>5, <1>9, <1>12 DEF Laid
<1>14. QED
  BY <1>1, <1>13

LEMMA EmptyLaid == Laid(<<>>, <<>>, [i \in 0..0 |-> 0])
<1>1. PICK o : o = [i \in 0..0 |-> 0]
  OBVIOUS
<1>2. o \in [0..0 -> Nat] /\ o[0] = 0
  BY <1>1
<1>3. <<>> \in Seq(Declarations) /\ <<>> \in Seq(Chars) /\ Len(<<>>) = 0
  OBVIOUS
<1>4. \A i \in 1..0 : FALSE
  OBVIOUS
<1>5. Laid(<<>>, <<>>, o)
  BY <1>2, <1>3, <1>4 DEF Laid
<1>6. QED
  BY <1>1, <1>5

\* The function by which a sequence of sequences is flattened.
Flattens(g, ws, n) == g = [i \in 1..n |-> IF i = 1 THEN ws[i] ELSE g[i - 1] \o ws[i]]

LEMMA FlattenExists ==
  ASSUME NEW ws, NEW k \in Nat
  PROVE  \E g : Flattens(g, ws, k)
<1> DEFINE T == {n \in Nat : \E g : Flattens(g, ws, n)}
<1>1. 0 \in T
  <2>1. Flattens([i \in 1..0 |-> i], ws, 0)
    BY DEF Flattens
  <2>2. QED
    BY <2>1
<1>2. ASSUME NEW n \in Nat, n \in T PROVE n + 1 \in T
  <2>1. PICK g : Flattens(g, ws, n)
    BY <1>2
  <2>2. PICK h : h = [i \in 1..(n + 1) |-> IF i <= n THEN g[i] ELSE IF i = 1 THEN ws[i] ELSE g[i - 1] \o ws[i]]
    OBVIOUS
  <2>3. ASSUME NEW i \in 1..(n + 1) PROVE h[i] = IF i = 1 THEN ws[i] ELSE h[i - 1] \o ws[i]
    <3>1. h[i] = IF i <= n THEN g[i] ELSE IF i = 1 THEN ws[i] ELSE g[i - 1] \o ws[i]
      BY <2>2
    <3>2. i <= n => g[i] = IF i = 1 THEN ws[i] ELSE g[i - 1] \o ws[i]
      <4>1. g = [j \in 1..n |-> IF j = 1 THEN ws[j] ELSE g[j - 1] \o ws[j]]
        BY <2>1 DEF Flattens
      <4>2. i <= n => i \in 1..n
        OBVIOUS
      <4>3. \A j \in 1..n : g[j] = IF j = 1 THEN ws[j] ELSE g[j - 1] \o ws[j]
        BY <4>1, Zenon
      <4>4. QED
        BY <4>2, <4>3, Zenon
    <3>3. i # 1 => i - 1 \in 1..(n + 1) /\ i - 1 <= n
      OBVIOUS
    <3>4. i # 1 => h[i - 1] = g[i - 1]
      BY <2>2, <3>3
    <3>5. QED
      BY <3>1, <3>2, <3>4
  <2>4. Flattens(h, ws, n + 1)
    BY <2>2, <2>3 DEF Flattens
  <2>5. QED
    BY <2>4
<1> HIDE DEF T
<1>3. k \in T
  BY <1>1, <1>2, EveryNumber
<1>4. QED
  BY <1>3 DEF T

LEMMA FlattenUnfold ==
  ASSUME NEW ws, NEW k \in Nat, k # 0, Len(ws) = k
  PROVE  \E f : Flattens(f, ws, k) /\ FlattenSeq(ws) = f[k]
<1>1. PICK f : f = CHOOSE g : g = [i \in 1..k |-> IF i = 1 THEN ws[i] ELSE g[i - 1] \o ws[i]]
  OBVIOUS
<1>2. \E g : g = [i \in 1..k |-> IF i = 1 THEN ws[i] ELSE g[i - 1] \o ws[i]]
  BY FlattenExists DEF Flattens
<1>3. f = [i \in 1..k |-> IF i = 1 THEN ws[i] ELSE f[i - 1] \o ws[i]]
  BY <1>1, <1>2
<1>4. FlattenSeq(ws) = f[k]
  BY <1>1 DEF FlattenSeq
<1>5. QED
  BY <1>3, <1>4 DEF Flattens

\* The first n of the declarations.
Upto(ds, n) == [i \in 1..n |-> ds[i]]

LEMMA UptoGrows ==
  ASSUME NEW ds \in Seq(Declarations), NEW n \in Nat, n + 1 <= Len(ds)
  PROVE  Append(Upto(ds, n), ds[n + 1]) = Upto(ds, n + 1)
<1>1. n + 1 \in 1..Len(ds) /\ Len(ds) \in Nat /\ \A i \in 1..Len(ds) : ds[i] \in Declarations
  OBVIOUS
<1>2. PICK f, g, d, a : f = Upto(ds, n) /\ g = Upto(ds, n + 1) /\ d = ds[n + 1] /\ a = Append(f, d)
  OBVIOUS
<1>3. f \in Seq(Declarations) /\ Len(f) = n /\ \A i \in 1..n : f[i] = ds[i]
  BY <1>1, <1>2 DEF Upto
<1>4. g \in Seq(Declarations) /\ Len(g) = n + 1 /\ \A i \in 1..(n + 1) : g[i] = ds[i]
  BY <1>1, <1>2 DEF Upto
<1>5. d \in Declarations
  BY <1>1, <1>2
<1>6. a \in Seq(Declarations) /\ Len(a) = Len(f) + 1 /\ (\A i \in 1..Len(f) : a[i] = f[i]) /\ a[Len(f) + 1] = d
  BY <1>2, <1>3, <1>5, AppendProperties
<1>7. \A i \in 1..Len(a) : a[i] = g[i]
  <2>1. TAKE i \in 1..Len(a)
  <2>2. i \in 1..n \/ i = n + 1
    BY <1>3, <1>6
  <2>3. QED
    BY <1>2, <1>3, <1>4, <1>6, <2>2
<1>8. a = g
  BY <1>3, <1>4, <1>6, <1>7, SeqEqual
<1>9. QED
  BY <1>2, <1>8

LEMMA TextLaid ==
  ASSUME NEW ds \in Seq(Declarations)
  PROVE  \E o : Laid(Text(ds), ds, o)
<1>1. PICK k, ws : k = Len(ds) /\ ws = [i \in DOMAIN ds |-> Declaration(ds[i])]
  OBVIOUS
<1>2. k \in Nat /\ DOMAIN ds = 1..k /\ \A i \in 1..k : ds[i] \in Declarations
  BY <1>1
<1>3. ws \in Seq(Seq(Chars)) /\ Len(ws) = k /\ \A i \in 1..k : ws[i] = Declaration(ds[i])
  <2>1. ws = [i \in 1..k |-> Declaration(ds[i])] /\ \A i \in 1..k : Declaration(ds[i]) \in Seq(Chars)
    BY <1>1, <1>2, DeclarationPlaced
  <2>2. ws \in [1..k -> Seq(Chars)]
    BY <2>1
  <2>3. ws \in Seq(Seq(Chars)) /\ Len(ws) = k
    BY <1>2, <2>2
  <2>4. QED
    BY <2>1, <2>3
<1>4. Text(ds) = FlattenSeq(ws)
  BY <1>1 DEF Text
<1>5. CASE k = 0
  <2>1. ds = <<>> /\ ws = <<>>
    BY <1>1, <1>3, <1>5
  <2>2. FlattenSeq(ws) = ws
    BY <1>3, <1>5 DEF FlattenSeq
  <2>3. QED
    BY <1>4, <2>1, <2>2, EmptyLaid
<1>6. CASE k # 0
  <2>1. PICK f : Flattens(f, ws, k) /\ FlattenSeq(ws) = f[k]
    BY <1>2, <1>3, <1>6, FlattenUnfold
  <2>2. \A i \in 1..k : f[i] = IF i = 1 THEN ws[i] ELSE f[i - 1] \o ws[i]
    BY <2>1 DEF Flattens
  <2> DEFINE T == {n \in Nat : n + 1 <= k => \E o : Laid(f[n + 1], Upto(ds, n + 1), o)}
  <2>3. 0 \in T
    <3>1. 1 \in 1..k /\ ds[1] \in Declarations /\ 0 + 1 = 1 /\ 0 + 1 <= Len(ds)
      BY <1>1, <1>2, <1>6
    <3>2. f[1] = Declaration(ds[1])
      BY <1>3, <2>2, <3>1
    <3>3. <<>> \o Declaration(ds[1]) = Declaration(ds[1])
      BY <3>1, DeclarationPlaced, ConcatEmptySeq
    <3>4. \E q : Laid(<<>> \o Declaration(ds[1]), Append(<<>>, ds[1]), q)
      BY <3>1, EmptyLaid, AppendLaid
    <3>5. Upto(ds, 0) = <<>>
      BY DEF Upto
    <3>6. Append(<<>>, ds[1]) = Upto(ds, 0 + 1)
      BY <3>1, <3>5, UptoGrows
    <3>7. \E q : Laid(f[0 + 1], Upto(ds, 0 + 1), q)
      BY <3>1, <3>2, <3>3, <3>4, <3>6
    <3>8. QED
      BY <3>7
  <2>4. ASSUME NEW n \in Nat, n \in T PROVE n + 1 \in T
    <3>1. SUFFICES ASSUME n + 1 + 1 <= k PROVE \E o : Laid(f[n + 1 + 1], Upto(ds, n + 1 + 1), o)
      OBVIOUS
    <3>2. PICK m : m = n + 1
      OBVIOUS
    <3>3. m \in Nat /\ m + 1 \in 1..k /\ m + 1 # 1 /\ (m + 1) - 1 = m /\ m <= k /\ m + 1 <= Len(ds)
      BY <1>1, <1>2, <3>1, <3>2
    <3>4. PICK o : Laid(f[m], Upto(ds, m), o)
      BY <2>4, <3>2, <3>3
    <3>5. f[m + 1] = f[m] \o Declaration(ds[m + 1]) /\ ds[m + 1] \in Declarations
      BY <1>2, <1>3, <2>2, <3>3
    <3>6. \E q : Laid(f[m] \o Declaration(ds[m + 1]), Append(Upto(ds, m), ds[m + 1]), q)
      BY <3>4, <3>5, AppendLaid
    <3>7. Append(Upto(ds, m), ds[m + 1]) = Upto(ds, m + 1)
      BY <3>3, UptoGrows
    <3>8. QED
      BY <3>2, <3>5, <3>6, <3>7
  <2> HIDE DEF T
  <2>5. \A n \in Nat : n \in T
    BY <2>3, <2>4, EveryNumber
  <2>6. k - 1 \in Nat /\ (k - 1) + 1 = k
    BY <1>2, <1>6
  <2>7. \E o : Laid(f[k], Upto(ds, k), o)
    <3>1. k - 1 \in T
      BY <2>5, <2>6
    <3>2. (k - 1) + 1 <= k => \E o : Laid(f[(k - 1) + 1], Upto(ds, (k - 1) + 1), o)
      BY <3>1 DEF T
    <3>3. QED
      BY <1>2, <2>6, <3>2
  <2>8. Upto(ds, k) = ds
    BY <1>1 DEF Upto
  <2>9. QED
    BY <1>4, <2>1, <2>7, <2>8
<1>7. QED
  BY <1>5, <1>6

\* There is one text of them.
LEMMA OneLayout ==
  ASSUME NEW t, NEW u, NEW ds, NEW o, NEW q, Laid(t, ds, o), Laid(u, ds, q)
  PROVE  t = u
<1>1. PICK n : n = Len(ds) /\ n \in Nat
  BY LaidFacts
<1> DEFINE T == {i \in Nat : i <= n => o[i] = q[i]}
<1>2. 0 \in T
  BY DEF Laid
<1>3. ASSUME NEW i \in Nat, i \in T PROVE i + 1 \in T
  <2>1. SUFFICES ASSUME i + 1 <= n PROVE o[i + 1] = q[i + 1]
    OBVIOUS
  <2>2. i + 1 \in 1..Len(ds) /\ (i + 1) - 1 = i /\ i <= n
    BY <1>1, <2>1
  <2>3. o[i + 1] = o[i] + 4 + Len(Word[ds[i + 1].ret]) /\ q[i + 1] = q[i] + 4 + Len(Word[ds[i + 1].ret])
    BY <2>2, LaidFacts
  <2>4. QED
    BY <1>3, <2>2, <2>3
<1> HIDE DEF T
<1>4. \A i \in 0..Len(ds) : o[i] = q[i]
  <2>1. TAKE i \in 0..Len(ds)
  <2>2. i \in T
    BY <1>2, <1>3, EveryNumber
  <2>3. QED
    BY <1>1, <2>2 DEF T
<1>5. t \in Seq(Chars) /\ u \in Seq(Chars) /\ Len(t) = Len(u)
  BY <1>1, <1>4 DEF Laid
<1>6. ASSUME NEW p \in 1..Len(t) PROVE t[p] = u[p]
  <2>1. PICK i \in 1..Len(ds) : o[i - 1] < p /\ p <= o[i]
    BY LaidCovers
  <2>2. PICK d, at, w : d = ds[i] /\ at = o[i - 1] /\ w = Len(Word[d.ret])
    OBVIOUS
  <2>3. d \in Declarations /\ at \in Nat /\ w \in Nat /\ o[i] = at + 4 + w /\ i - 1 \in 0..Len(ds)
    BY <2>2, LaidFacts
  <2>4. Placed(t, d, at) /\ Placed(u, d, at)
    <3>1. at = q[i - 1]
      BY <1>4, <2>2, <2>3
    <3>2. Placed(t, ds[i], o[i - 1]) /\ Placed(u, ds[i], q[i - 1])
      BY DEF Laid
    <3>3. QED
      BY <2>2, <3>1, <3>2
  <2>5. p \in Nat /\ at < p /\ p <= at + 4 + w
    BY <1>5, <2>1, <2>2, <2>3
  <2>6. \/ p = at + 1 \/ p = at + 2 \/ p = at + 3 \/ p = at + 4 + w
        \/ p - (at + 3) \in 1..w /\ at + 3 + (p - (at + 3)) = p
    BY <2>3, <2>5
  <2>7. /\ t[at + 1] = u[at + 1] /\ t[at + 2] = u[at + 2] /\ t[at + 3] = u[at + 3]
        /\ t[at + 4 + w] = u[at + 4 + w]
        /\ \A m \in 1..w : t[at + 3 + m] = u[at + 3 + m]
    BY <2>2, <2>4 DEF Placed
  <2>8. QED
    BY <2>6, <2>7
<1>7. QED
  BY <1>5, <1>6, SeqEqual

LEMMA LaidIsText ==
  ASSUME NEW t, NEW ds, NEW o, Laid(t, ds, o)
  PROVE  t = Text(ds)
<1>1. ds \in Seq(Declarations)
  BY DEF Laid
<1>2. PICK q : Laid(Text(ds), ds, q)
  BY <1>1, TextLaid
<1>3. QED
  BY <1>2, OneLayout

---------------------------------------------------------------------------
(* Fixes: a return type is replaced by another where it lies.              *)

Spliced(t, a, word, b) == SubSeq(t, 1, a) \o word \o SubSeq(t, b + 1, Len(t))

LEMMA SplicedFacts ==
  ASSUME NEW t \in Seq(Chars), NEW a \in Nat, NEW b \in Nat, a <= b, b <= Len(t), NEW word \in Seq(Chars)
  PROVE  /\ Spliced(t, a, word, b) \in Seq(Chars)
         /\ Len(Spliced(t, a, word, b)) = a + Len(word) + (Len(t) - b)
         /\ \A p \in 1..a : Spliced(t, a, word, b)[p] = t[p]
         /\ \A m \in 1..Len(word) : Spliced(t, a, word, b)[a + m] = word[m]
         /\ \A m \in 1..(Len(t) - b) : Spliced(t, a, word, b)[a + Len(word) + m] = t[b + m]
<1>1. PICK k, w, front, back, left, u :
        /\ k = Len(t) /\ w = Len(word) /\ front = SubSeq(t, 1, a) /\ back = SubSeq(t, b + 1, k)
        /\ left = front \o word /\ u = left \o back
  OBVIOUS
<1>2. k \in Nat /\ w \in Nat /\ b <= k /\ \A p \in 1..k : t[p] \in Chars
  <2>1. \A p \in 1..Len(t) : t[p] \in Chars
    BY ElementOfSeq
  <2>2. QED
    BY <1>1, <2>1
<1>3. front \in Seq(Chars) /\ Len(front) = a /\ \A p \in 1..a : front[p] = t[p]
  <2>1. \A p \in 1..a : t[p] \in Chars
    BY <1>2
  <2>2. /\ front \in Seq(Chars) /\ Len(front) = IF 1 <= a THEN a - 1 + 1 ELSE 0
        /\ \A p \in 1..(a - 1 + 1) : front[p] = t[1 + p - 1]
    <3>1. front = SubSeq(t, 1, a) /\ 1 \in Int /\ a \in Int
      BY <1>1
    <3>2. QED
      BY <2>1, <3>1, SubSeqProperties
  <2>3. Len(front) = a
    BY <2>2
  <2>4. ASSUME NEW p \in 1..a PROVE front[p] = t[p]
    <3>1. p \in 1..(a - 1 + 1) /\ 1 + p - 1 = p
      OBVIOUS
    <3>2. QED
      BY <2>2, <3>1
  <2>5. QED
    BY <2>2, <2>3, <2>4
<1>4. back \in Seq(Chars) /\ Len(back) = k - b /\ \A m \in 1..(k - b) : back[m] = t[b + m]
  <2>1. PICK c : c = b + 1
    OBVIOUS
  <2>2. c \in Int /\ k \in Int /\ back = SubSeq(t, c, k)
    BY <1>1, <1>2, <2>1
  <2>3. \A p \in c..k : t[p] \in Chars
    BY <1>2, <2>1
  <2>4. /\ back \in Seq(Chars) /\ Len(back) = IF c <= k THEN k - c + 1 ELSE 0
        /\ \A m \in 1..(k - c + 1) : back[m] = t[c + m - 1]
    BY <2>2, <2>3, SubSeqProperties
  <2>5. k - c + 1 = k - b /\ (~(c <= k) => k - b = 0)
    BY <1>2, <2>1
  <2>6. \A m \in 1..(k - b) : c + m - 1 = b + m
    BY <1>2, <2>1
  <2>7. QED
    BY <2>4, <2>5, <2>6
<1>5. /\ left \in Seq(Chars) /\ Len(left) = a + w
      /\ \A p \in 1..(a + w) : left[p] = IF p <= a THEN front[p] ELSE word[p - a]
  <2>1. /\ left \in Seq(Chars) /\ Len(left) = Len(front) + Len(word)
        /\ \A p \in 1..(Len(front) + Len(word)) : left[p] = IF p <= Len(front) THEN front[p] ELSE word[p - Len(front)]
    <3>1. left = front \o word
      BY <1>1
    <3>2. QED
      BY <1>3, <3>1, ConcatProperties
  <2>2. QED
    BY <1>1, <1>3, <2>1
<1>6. /\ u \in Seq(Chars) /\ Len(u) = a + w + (k - b)
      /\ \A p \in 1..(a + w + (k - b)) : u[p] = IF p <= a + w THEN left[p] ELSE back[p - (a + w)]
  <2>1. /\ u \in Seq(Chars) /\ Len(u) = Len(left) + Len(back)
        /\ \A p \in 1..(Len(left) + Len(back)) : u[p] = IF p <= Len(left) THEN left[p] ELSE back[p - Len(left)]
    <3>1. u = left \o back
      BY <1>1
    <3>2. QED
      BY <1>4, <1>5, <3>1, ConcatProperties
  <2>2. QED
    BY <1>4, <1>5, <2>1
<1>7. ASSUME NEW p \in 1..a PROVE u[p] = t[p]
  <2>1. p \in 1..(a + w) /\ p \in 1..(a + w + (k - b)) /\ p <= a + w /\ p <= a
    BY <1>2
  <2>2. u[p] = left[p] /\ left[p] = front[p]
    BY <1>5, <1>6, <2>1
  <2>3. QED
    BY <1>3, <2>2
<1>8. ASSUME NEW m \in 1..w PROVE u[a + m] = word[m]
  <2>1. a + m \in 1..(a + w) /\ a + m \in 1..(a + w + (k - b)) /\ a + m <= a + w /\ ~(a + m <= a) /\ (a + m) - a = m
    BY <1>2
  <2>2. u[a + m] = left[a + m] /\ left[a + m] = word[(a + m) - a]
    BY <1>5, <1>6, <2>1
  <2>3. QED
    BY <2>1, <2>2
<1>9. ASSUME NEW m \in 1..(k - b) PROVE u[a + w + m] = t[b + m]
  <2>1. a + w + m \in 1..(a + w + (k - b)) /\ ~(a + w + m <= a + w) /\ (a + w + m) - (a + w) = m
    BY <1>2
  <2>2. u[a + w + m] = back[(a + w + m) - (a + w)]
    BY <1>6, <2>1
  <2>3. QED
    BY <1>4, <2>1, <2>2
<1>10. Spliced(t, a, word, b) = u
  BY <1>1 DEF Spliced
<1>11. QED
  BY <1>1, <1>6, <1>7, <1>8, <1>9, <1>10

FixFor(o, k, class) == [span |-> Span(o, k), with |-> SourceAlias(class)]

\* The declarations with another return type.
Refined(ds, k, class) == [ds EXCEPT ![k] = Decl(ds[k].name, ds[k].par, class)]

LEMMA FixLaid ==
  ASSUME NEW t, NEW ds, NEW o, Laid(t, ds, o), NEW k \in 1..Len(ds), NEW class \in Classes
  PROVE  \E q : Laid(ApplyFix(t, FixFor(o, k, class)), Refined(ds, k, class), q) /\ \A i \in 0..(k - 1) : q[i] = o[i]
<1>1. PICK n, e, at, v, len, word, w, u, fix, d, es :
        /\ n = Len(ds) /\ e = ds[k] /\ at = o[k - 1] /\ v = Len(Word[e.ret]) /\ len = Len(t)
        /\ word = Word[class] /\ w = Len(word) /\ fix = FixFor(o, k, class)
        /\ u = Spliced(t, at + 3, word, at + 3 + v)
        /\ d = Decl(e.name, e.par, class) /\ es = Refined(ds, k, class)
  OBVIOUS
<1>2. /\ n \in Nat /\ len \in Nat /\ e \in Declarations /\ at \in Nat /\ v \in Nat /\ o[k] = at + 4 + v
      /\ k - 1 \in 0..n /\ k \in 0..n /\ k \in 1..n /\ t \in Seq(Chars) /\ ds \in Seq(Declarations)
  BY <1>1, LaidFacts DEF Laid
<1>3. word \in Seq(Chars) /\ w \in Nat
  BY <1>1, WordFacts
<1>4. o \in [0..n -> Nat] /\ o[0] = 0 /\ o[n] = len
  BY <1>1 DEF Laid
<1>5. \A i, j \in 0..n : i < j => o[i] + 4 <= o[j]
  BY <1>1, LaidOrder
<1>6. o[k] <= len
  <2>1. k = n \/ k < n
    BY <1>2
  <2>2. CASE k < n
    <3>1. o[k] + 4 <= o[n]
      BY <1>2, <1>5, <2>2
    <3>2. QED
      BY <1>2, <1>4, <3>1
  <2>3. CASE k = n
    BY <1>2, <1>4, <2>3
  <2>4. QED
    BY <2>1, <2>2, <2>3
<1>7. ApplyFix(t, fix) = u
  <2>1. fix.span.start = at + 4 /\ fix.span.end = o[k] - 1 /\ fix.with = word
    BY <1>1 DEF FixFor, Span, SourceAlias
  <2>2. fix.span.start - 1 = at + 3 /\ fix.span.end = at + 3 + v /\ fix.span.end <= len
    BY <1>2, <1>6, <2>1
  <2>3. ApplyFix(t, fix) = Replace(t, fix)
    BY <1>1, <2>2 DEF ApplyFix
  <2>4. QED
    BY <1>1, <2>1, <2>2, <2>3 DEF Replace, Spliced
<1>8. /\ u \in Seq(Chars) /\ Len(u) = at + 3 + w + (len - (at + 3 + v))
      /\ \A p \in 1..(at + 3) : u[p] = t[p]
      /\ \A m \in 1..w : u[at + 3 + m] = word[m]
      /\ \A m \in 1..(len - (at + 3 + v)) : u[at + 3 + w + m] = t[at + 3 + v + m]
  <2>1. PICK a, b : a = at + 3 /\ b = at + 3 + v
    OBVIOUS
  <2>2. a \in Nat /\ b \in Nat /\ a <= b /\ b <= Len(t)
    <3>1. b <= len
      BY <1>2, <1>6, <2>1
    <3>2. len = Len(t)
      BY <1>1
    <3>3. QED
      BY <1>2, <2>1, <3>1, <3>2
  <2>3. u = Spliced(t, a, word, b)
    BY <1>1, <2>1
  <2>4. /\ u \in Seq(Chars) /\ Len(u) = a + Len(word) + (Len(t) - b)
        /\ \A p \in 1..a : u[p] = t[p]
        /\ \A m \in 1..Len(word) : u[a + m] = word[m]
        /\ \A m \in 1..(Len(t) - b) : u[a + Len(word) + m] = t[b + m]
    <3>1. /\ Spliced(t, a, word, b) \in Seq(Chars)
          /\ Len(Spliced(t, a, word, b)) = a + Len(word) + (Len(t) - b)
          /\ \A p \in 1..a : Spliced(t, a, word, b)[p] = t[p]
          /\ \A m \in 1..Len(word) : Spliced(t, a, word, b)[a + m] = word[m]
          /\ \A m \in 1..(Len(t) - b) : Spliced(t, a, word, b)[a + Len(word) + m] = t[b + m]
      <4>1. t \in Seq(Chars) /\ word \in Seq(Chars)
        BY <1>2, <1>3
      <4>2. QED
        BY <2>2, <4>1, SplicedFacts, Zenon
    <3>2. QED
      BY <2>3, <3>1
  <2>5. QED
    BY <1>1, <2>1, <2>4
<1>9. d \in Declarations /\ d.name = e.name /\ d.par = e.par /\ d.ret = class
  <2>1. e.name \in Names /\ e.par \in Names
    BY <1>2, DeclarationFacts
  <2>2. QED
    BY <1>1, <2>1 DEF Declarations, Decl
<1>10. es \in Seq(Declarations) /\ Len(es) = n /\ \A i \in 1..n : es[i] = IF i = k THEN d ELSE ds[i]
  <2>1. es = [ds EXCEPT ![k] = d]
    BY <1>1 DEF Refined
  <2>2. QED
    BY <1>1, <1>2, <1>9, <2>1, ExceptSeq
<1>11. PICK q : q = [i \in 0..n |-> IF i < k THEN o[i] ELSE o[i] - v + w]
  OBVIOUS
<1>12. \A i \in 0..n : o[i] \in Nat /\ (~(i < k) => o[i] >= at + 4 + v)
  <2>1. TAKE i \in 0..n
  <2>2. o[i] \in Nat
    BY <1>4
  <2>3. CASE i < k
    BY <2>2, <2>3
  <2>4. CASE i = k
    BY <1>2, <2>2, <2>4
  <2>5. CASE k < i
    <3>1. o[k] + 4 <= o[i]
      BY <1>2, <1>5, <2>5
    <3>2. QED
      BY <1>2, <2>2, <3>1
  <2>6. QED
    BY <1>2, <2>3, <2>4, <2>5
<1>13. (\A i \in 0..n : q[i] = IF i < k THEN o[i] ELSE o[i] - v + w) /\ q \in [0..n -> Nat]
  <2>1. \A i \in 0..n : (IF i < k THEN o[i] ELSE o[i] - v + w) \in Nat
    <3>1. TAKE i \in 0..n
    <3>2. o[i] \in Nat /\ (~(i < k) => o[i] >= at + 4 + v)
      BY <1>12
    <3>3. CASE i < k
      BY <3>2, <3>3
    <3>4. CASE ~(i < k)
      <4>1. o[i] - v + w \in Nat
        BY <1>2, <1>3, <3>2, <3>4
      <4>2. QED
        BY <3>4, <4>1
    <3>5. QED
      BY <3>3, <3>4
  <2>2. QED
    BY <1>11, <2>1
<1>14. q[0] = 0 /\ q[n] = Len(u)
  <2>1. 0 \in 0..n /\ 0 < k /\ n \in 0..n /\ ~(n < k)
    BY <1>2
  <2>2. q[0] = o[0] /\ q[n] = o[n] - v + w
    BY <1>13, <2>1
  <2>3. len - v + w = at + 3 + w + (len - (at + 3 + v))
    BY <1>2, <1>3
  <2>4. QED
    BY <1>4, <1>8, <2>2, <2>3
<1>22. \A i \in 1..n : /\ ds[i] \in Declarations /\ o[i - 1] \in Nat /\ Len(Word[ds[i].ret]) \in Nat
                        /\ o[i] = o[i - 1] + 4 + Len(Word[ds[i].ret]) /\ i \in 0..n /\ i - 1 \in 0..n
  <2>1. n = Len(ds)
    BY <1>1
  <2>2. \A i \in 1..Len(ds) : /\ ds[i] \in Declarations /\ Len(Word[ds[i].ret]) \in Nat
                              /\ o[i] = o[i - 1] + 4 + Len(Word[ds[i].ret])
                              /\ i \in 0..Len(ds) /\ i - 1 \in 0..Len(ds)
    BY LaidFacts
  <2>3. \A i \in 0..Len(ds) : o[i] \in Nat
    BY LaidFacts
  <2>4. QED
    BY <2>1, <2>2, <2>3, Zenon
<1>15. ASSUME NEW i \in 1..n, i < k
       PROVE  q[i] = q[i - 1] + 4 + Len(Word[es[i].ret]) /\ Placed(u, es[i], q[i - 1])
  <2>1. PICK c, there, x : c = ds[i] /\ there = o[i - 1] /\ x = Len(Word[c.ret])
    OBVIOUS
  <2>2. /\ c \in Declarations /\ there \in Nat /\ x \in Nat /\ o[i] = there + 4 + x
        /\ i \in 0..n /\ i - 1 \in 0..n /\ i - 1 < k
    <3>1. /\ c \in Declarations /\ there \in Nat /\ x \in Nat /\ o[i] = there + 4 + x
          /\ i \in 0..n /\ i - 1 \in 0..n
      BY <1>22, <2>1
    <3>2. i - 1 < k
      BY <1>2, <1>15
    <3>3. QED
      BY <3>1, <3>2
  <2>3. Placed(t, c, there)
    BY <1>1, <2>1 DEF Laid
  <2>4. o[i] <= at
    <3>1. i = k - 1 \/ i < k - 1
      BY <1>2, <1>15
    <3>2. CASE i < k - 1
      <4>1. o[i] + 4 <= o[k - 1]
        BY <1>2, <1>5, <2>2, <3>2
      <4>2. QED
        BY <1>1, <1>2, <2>2, <4>1
    <3>3. CASE i = k - 1
      BY <1>1, <1>2, <3>3
    <3>4. QED
      BY <3>1, <3>2, <3>3
  <2>5. ASSUME NEW m \in 1..(4 + Len(Word[c.ret])) PROVE u[there + m] = t[there + m]
    <3>0. m \in Nat /\ m >= 1 /\ m <= 4 + x
      BY <2>1, <2>2
    <3>1. there + m \in 1..(at + 3)
      BY <1>2, <2>2, <2>4, <3>0
    <3>2. QED
      BY <1>8, <3>1
  <2>6. Placed(u, c, there)
    BY <2>2, <2>3, <2>5, PlacedMoves
  <2>7. es[i] = c /\ q[i] = o[i] /\ q[i - 1] = there
    <3>1. i # k
      BY <1>2, <1>15
    <3>2. es[i] = ds[i]
      BY <1>10, <3>1
    <3>3. q[i] = o[i] /\ q[i - 1] = o[i - 1]
      BY <1>13, <1>15, <2>2
    <3>4. QED
      BY <2>1, <3>2, <3>3
  <2>8. QED
    BY <2>1, <2>2, <2>6, <2>7
<1>16. q[k] = q[k - 1] + 4 + Len(Word[es[k].ret]) /\ Placed(u, es[k], q[k - 1])
  <2>1. es[k] = d /\ q[k - 1] = at /\ q[k] = at + 4 + v - v + w
    <3>1. ~(k < k) /\ k - 1 < k
      BY <1>2
    <3>2. es[k] = d
      BY <1>2, <1>10
    <3>3. q[k - 1] = o[k - 1] /\ q[k] = o[k] - v + w
      BY <1>2, <1>13, <3>1
    <3>4. at = o[k - 1]
      BY <1>1
    <3>5. QED
      BY <1>2, <3>2, <3>3, <3>4
  <2>2. Placed(t, e, at)
    BY <1>1 DEF Laid
  <2>3. t[at + 1] = "x" /\ t[at + 2] = d.name /\ t[at + 3] = d.par /\ t[at + 4 + v] = ";"
    BY <1>1, <1>9, <2>2 DEF Placed
  <2>4. u[at + 1] = t[at + 1] /\ u[at + 2] = t[at + 2] /\ u[at + 3] = t[at + 3]
    <3>1. at + 1 \in 1..(at + 3) /\ at + 2 \in 1..(at + 3) /\ at + 3 \in 1..(at + 3)
      BY <1>2
    <3>2. QED
      BY <1>8, <3>1
  <2>5. u[at + 4 + w] = t[at + 4 + v]
    <3>1. 1 \in 1..(len - (at + 3 + v)) /\ at + 3 + w + 1 = at + 4 + w /\ at + 3 + v + 1 = at + 4 + v
      BY <1>2, <1>3, <1>6
    <3>2. u[at + 3 + w + 1] = t[at + 3 + v + 1]
      BY <1>8, <3>1
    <3>3. QED
      BY <3>1, <3>2
  <2>6. Placed(u, d, at)
    <3>1. Word[d.ret] = word /\ Len(Word[d.ret]) = w
      BY <1>1, <1>9
    <3>2. /\ u[at + 1] = "x" /\ u[at + 2] = d.name /\ u[at + 3] = d.par /\ u[at + 4 + w] = ";"
          /\ \A m \in 1..w : u[at + 3 + m] = word[m]
      BY <1>8, <2>3, <2>4, <2>5
    <3>3. QED
      BY <3>1, <3>2 DEF Placed
  <2>7. q[k] = at + 4 + Len(Word[d.ret])
    <3>1. at + 4 + v - v + w = at + 4 + w
      BY <1>2, <1>3
    <3>2. QED
      BY <1>1, <1>9, <2>1, <3>1
  <2>8. QED
    BY <2>1, <2>6, <2>7
<1>17. ASSUME NEW i \in 1..n, k < i
       PROVE  q[i] = q[i - 1] + 4 + Len(Word[es[i].ret]) /\ Placed(u, es[i], q[i - 1])
  <2>1. PICK c, there, x, to : c = ds[i] /\ there = o[i - 1] /\ x = Len(Word[c.ret]) /\ to = there - v + w
    OBVIOUS
  <2>2. /\ c \in Declarations /\ there \in Nat /\ x \in Nat /\ o[i] = there + 4 + x
        /\ i \in 0..n /\ i - 1 \in 0..n
    BY <1>22, <2>1
  <2>3. Placed(t, c, there)
    BY <1>1, <2>1 DEF Laid
  <2>4. ~(i < k) /\ ~(i - 1 < k) /\ i # k
    BY <1>2, <1>17
  <2>5. there >= at + 4 + v /\ to \in Nat
    <3>1. there >= at + 4 + v
      BY <1>12, <2>1, <2>2, <2>4
    <3>2. to = there - v + w
      BY <2>1
    <3>3. QED
      BY <1>2, <1>3, <2>2, <3>1, <3>2
  <2>6. o[i] <= len
    <3>1. i = n \/ i < n
      BY <1>2
    <3>2. CASE i < n
      <4>1. o[i] + 4 <= o[n]
        BY <1>2, <1>5, <2>2, <3>2
      <4>2. QED
        BY <1>2, <1>4, <2>2, <4>1
    <3>3. CASE i = n
      BY <1>2, <1>4, <3>3
    <3>4. QED
      BY <3>1, <3>2, <3>3
  <2>7. ASSUME NEW m \in 1..(4 + Len(Word[c.ret])) PROVE u[to + m] = t[there + m]
    <3>1. PICK r : r = there + m - (at + 3 + v)
      OBVIOUS
    <3>2. m \in Nat /\ m >= 1 /\ m <= 4 + x
      BY <2>1, <2>2
    <3>3. r \in 1..(len - (at + 3 + v))
      BY <1>2, <2>2, <2>5, <2>6, <3>1, <3>2
    <3>4. at + 3 + w + r = to + m /\ at + 3 + v + r = there + m
      <4>1. to = there - v + w
        BY <2>1
      <4>2. QED
        BY <1>2, <1>3, <2>2, <3>1, <3>2, <4>1
    <3>5. u[at + 3 + w + r] = t[at + 3 + v + r]
      BY <1>8, <3>3
    <3>6. QED
      BY <3>4, <3>5
  <2>8. Placed(u, c, to)
    BY <2>2, <2>3, <2>5, <2>7, PlacedMoves
  <2>9. es[i] = c /\ q[i] = o[i] - v + w /\ q[i - 1] = to
    BY <1>10, <1>13, <2>1, <2>2, <2>4
  <2>10. (there + 4 + x) - v + w = to + 4 + x
    <3>1. to = there - v + w
      BY <2>1
    <3>2. QED
      BY <1>2, <1>3, <2>2, <3>1
  <2>11. q[i] = q[i - 1] + 4 + x
    <3>1. q[i] = (there + 4 + x) - v + w
      BY <2>2, <2>9, Zenon
    <3>2. QED
      BY <2>9, <2>10, <3>1
  <2>12. QED
    BY <2>1, <2>8, <2>9, <2>11
<1>18. \A i \in 1..n : q[i] = q[i - 1] + 4 + Len(Word[es[i].ret]) /\ Placed(u, es[i], q[i - 1])
  <2>1. TAKE i \in 1..n
  <2>2. i < k \/ i = k \/ k < i
    BY <1>2
  <2>3. QED
    BY <1>15, <1>16, <1>17, <2>2
<1>19. Laid(u, es, q)
  BY <1>8, <1>10, <1>13, <1>14, <1>18 DEF Laid
<1>20. \A i \in 0..(k - 1) : q[i] = o[i]
  <2>1. TAKE i \in 0..(k - 1)
  <2>2. i \in 0..n /\ i < k
    BY <1>2
  <2>3. QED
    BY <1>13, <2>2
<1>21. QED
  BY <1>1, <1>7, <1>19, <1>20

\* The texts between the fixes.
Applies(a, t, order, n) == a = [k \in 0..n |-> IF k = 0 THEN t ELSE ApplyFix(a[k - 1], order[k])]

LEMMA AppliesExists ==
  ASSUME NEW t, NEW order, NEW k \in Nat
  PROVE  \E a : Applies(a, t, order, k)
<1> DEFINE T == {n \in Nat : \E a : Applies(a, t, order, n)}
<1>1. 0 \in T
  <2>1. PICK a : a = [i \in 0..0 |-> t]
    OBVIOUS
  <2>2. Applies(a, t, order, 0)
    BY <2>1 DEF Applies
  <2>3. QED
    BY <2>2
<1>2. ASSUME NEW n \in Nat, n \in T PROVE n + 1 \in T
  <2>1. PICK a : Applies(a, t, order, n)
    BY <1>2
  <2>2. PICK b : b = [i \in 0..(n + 1) |-> IF i <= n THEN a[i] ELSE IF i = 0 THEN t ELSE ApplyFix(a[i - 1], order[i])]
    OBVIOUS
  <2>3. ASSUME NEW i \in 0..(n + 1) PROVE b[i] = IF i = 0 THEN t ELSE ApplyFix(b[i - 1], order[i])
    <3>1. b[i] = IF i <= n THEN a[i] ELSE IF i = 0 THEN t ELSE ApplyFix(a[i - 1], order[i])
      BY <2>2
    <3>2. i <= n => a[i] = IF i = 0 THEN t ELSE ApplyFix(a[i - 1], order[i])
      <4>1. a = [j \in 0..n |-> IF j = 0 THEN t ELSE ApplyFix(a[j - 1], order[j])]
        BY <2>1 DEF Applies
      <4>2. i <= n => i \in 0..n
        OBVIOUS
      <4>3. \A j \in 0..n : a[j] = IF j = 0 THEN t ELSE ApplyFix(a[j - 1], order[j])
        BY <4>1, Zenon
      <4>4. QED
        BY <4>2, <4>3, Zenon
    <3>3. i # 0 => i - 1 \in 0..(n + 1) /\ i - 1 <= n
      OBVIOUS
    <3>4. i # 0 => b[i - 1] = a[i - 1]
      BY <2>2, <3>3
    <3>5. QED
      BY <3>1, <3>2, <3>4
  <2>4. Applies(b, t, order, n + 1)
    BY <2>2, <2>3 DEF Applies
  <2>5. QED
    BY <2>4
<1> HIDE DEF T
<1>3. k \in T
  BY <1>1, <1>2, EveryNumber
<1>4. QED
  BY <1>3 DEF T

Applied(a, t, fixes, m) ==
  /\ a[0] = t /\ ApplyFixes(t, fixes) = a[m]
  /\ \A k \in 1..m : a[k] = ApplyFix(a[k - 1], FixOrder(fixes)[k])

LEMMA AppliesUnfold ==
  ASSUME NEW t, NEW fixes, NEW m \in Nat, Len(FixOrder(fixes)) = m
  PROVE  \E a : Applied(a, t, fixes, m)
<1>1. PICK order : order = FixOrder(fixes)
  OBVIOUS
<1>2. PICK a : a = CHOOSE b : b = [k \in 0..m |-> IF k = 0 THEN t ELSE ApplyFix(b[k - 1], order[k])]
  OBVIOUS
<1>3. \E b : b = [k \in 0..m |-> IF k = 0 THEN t ELSE ApplyFix(b[k - 1], order[k])]
  <2>1. PICK b : Applies(b, t, order, m)
    BY AppliesExists
  <2>2. b = [k \in 0..m |-> IF k = 0 THEN t ELSE ApplyFix(b[k - 1], order[k])]
    BY <2>1 DEF Applies
  <2>3. QED
    BY <2>2, Zenon
<1>4. a = [k \in 0..m |-> IF k = 0 THEN t ELSE ApplyFix(a[k - 1], order[k])]
  BY <1>2, <1>3
<1>5. ApplyFixes(t, fixes) = a[m]
  BY <1>1, <1>2 DEF ApplyFixes
<1>6. \A k \in 0..m : a[k] = IF k = 0 THEN t ELSE ApplyFix(a[k - 1], order[k])
  BY <1>4, Zenon
<1>7. a[0] = t
  <2>1. 0 \in 0..m
    OBVIOUS
  <2>2. QED
    BY <1>6, <2>1
<1>8. \A k \in 1..m : a[k] = ApplyFix(a[k - 1], order[k])
  <2>1. TAKE k \in 1..m
  <2>2. k \in 0..m /\ k # 0
    OBVIOUS
  <2>3. QED
    BY <1>6, <2>2
<1>9. Applied(a, t, fixes, m)
  BY <1>1, <1>5, <1>7, <1>8 DEF Applied
<1>10. QED
  BY <1>9

\* The fixes of the declarations K, each to a class of its own.
FixesFor(o, K, c) == {FixFor(o, k, c[k]) : k \in K}
Mixed(ds, K, c) == [i \in 1..Len(ds) |-> IF i \in K THEN Decl(ds[i].name, ds[i].par, c[i]) ELSE ds[i]]

\* The m fixes are of the declarations h[1] < ... < h[m], applied from the last on.
Ordered(m, h, o, K, c) ==
  /\ h \in [1..m -> K]
  /\ \A i, j \in 1..m : i < j => h[i] < h[j]
  /\ \A k \in K : \E j \in 1..m : h[j] = k
  /\ Len(FixOrder(FixesFor(o, K, c))) = m
  /\ \A j \in 1..m : FixOrder(FixesFor(o, K, c))[j] = FixFor(o, h[m + 1 - j], c[h[m + 1 - j]])

LEMMA FixOrderIs ==
  ASSUME NEW t, NEW ds, NEW o, Laid(t, ds, o), NEW K \in SUBSET (1..Len(ds)), NEW c
  PROVE  \E m \in Nat : \E h : Ordered(m, h, o, K, c)
<1>1. PICK n, F, S, m, s : /\ n = Len(ds) /\ F = FixesFor(o, K, c) /\ S = {fix.span.start : fix \in F}
                           /\ m = Cardinality(S) /\ s = Ascending(S)
  OBVIOUS
<1>2. n \in Nat /\ Len(t) \in Nat /\ \A k \in K : k \in 1..n /\ k - 1 \in 0..n /\ o[k - 1] \in Nat
  BY <1>1, LaidFacts
<1>3. ASSUME NEW i \in 0..n, NEW j \in 0..n, i < j PROVE o[i] + 4 <= o[j] /\ o[i] \in Nat /\ o[j] \in Nat
  BY <1>1, <1>3, LaidOrder, LaidFacts
<1>4. \A k \in K : FixFor(o, k, c[k]).span.start = o[k - 1] + 4
  BY DEF FixFor, Span
<1>5. S = {o[k - 1] + 4 : k \in K}
  <2>1. \A x : x \in S <=> \E fix \in F : x = fix.span.start
    BY <1>1, Zenon
  <2>2. \A fix : fix \in F <=> \E k \in K : fix = FixFor(o, k, c[k])
    BY <1>1, Zenon DEF FixesFor
  <2>3. \A x : x \in S <=> \E k \in K : x = o[k - 1] + 4
    <3>1. ASSUME NEW x, x \in S PROVE \E k \in K : x = o[k - 1] + 4
      <4>1. PICK fix \in F : x = fix.span.start
        BY <2>1, <3>1
      <4>2. PICK k \in K : fix = FixFor(o, k, c[k])
        BY <2>2
      <4>3. x = o[k - 1] + 4
        BY <1>4, <4>1, <4>2
      <4>4. QED
        BY <4>3
    <3>2. ASSUME NEW x, NEW k \in K, x = o[k - 1] + 4 PROVE x \in S
      <4>1. PICK fix : fix = FixFor(o, k, c[k])
        OBVIOUS
      <4>2. fix \in F /\ x = fix.span.start
        BY <1>4, <2>2, <3>2, <4>1
      <4>3. QED
        BY <2>1, <4>2
    <3>3. QED
      BY <3>1, <3>2
  <2>4. \A x : x \in S <=> x \in {o[k - 1] + 4 : k \in K}
    BY <2>3
  <2>5. QED
    BY <2>4, Zenon
<1>6. S \in SUBSET Nat /\ IsFiniteSet(S)
  <2>1. ASSUME NEW k \in K PROVE o[k - 1] + 4 \in 0..Len(t)
    <3>1. k - 1 \in 0..n /\ n \in 0..n /\ k - 1 < n
      BY <1>2
    <3>2. o[k - 1] + 4 <= o[n] /\ o[k - 1] \in Nat
      BY <1>3, <3>1
    <3>3. o[n] = Len(t)
      BY <1>1 DEF Laid
    <3>4. QED
      BY <1>2, <3>2, <3>3
  <2>2. S \subseteq 0..Len(t)
    BY <1>5, <2>1
  <2>3. 0 \in Int /\ Len(t) \in Int /\ 0..Len(t) \subseteq Nat
    BY <1>2
  <2>4. IsFiniteSet(0..Len(t))
    BY <2>3, FS_Interval
  <2>5. IsFiniteSet(S)
    BY <2>2, <2>4, FS_Subset
  <2>6. QED
    BY <2>2, <2>3, <2>5
<1>7. m \in Nat /\ Enumerates(s, m, S)
  BY <1>1, <1>6, AscendingEnumerates, FS_CardinalityType
<1>8. s \in [1..m -> S] /\ DOMAIN s = 1..m /\ Len(s) = m
  <2>1. s \in [1..m -> S] /\ m \in Nat
    BY <1>7 DEF Enumerates
  <2>2. s \in Seq(S) /\ Len(s) = m
    BY <2>1
  <2>3. QED
    BY <2>1, <2>2
<1>9. PICK h : h = [j \in 1..m |-> CHOOSE k \in K : s[j] = o[k - 1] + 4]
  OBVIOUS
<1>10. \A j \in 1..m : h[j] \in K /\ s[j] = o[h[j] - 1] + 4
  <2>1. TAKE j \in 1..m
  <2>2. s[j] \in S
    BY <1>8
  <2>3. \E k \in K : s[j] = o[k - 1] + 4
    BY <1>5, <2>2
  <2>4. QED
    BY <1>9, <2>3
<1>11. h \in [1..m -> K]
  BY <1>9, <1>10
<1>12. ASSUME NEW k \in K, NEW l \in K, o[k - 1] + 4 = o[l - 1] + 4 PROVE k = l
  <2>1. k - 1 \in 0..n /\ l - 1 \in 0..n /\ o[k - 1] \in Nat /\ o[l - 1] \in Nat /\ k \in Nat /\ l \in Nat
    BY <1>2
  <2>2. k < l => k - 1 < l - 1
    BY <2>1
  <2>3. l < k => l - 1 < k - 1
    BY <2>1
  <2>4. ~(k < l)
    BY <1>3, <1>12, <2>1, <2>2
  <2>5. ~(l < k)
    BY <1>3, <1>12, <2>1, <2>3
  <2>6. QED
    BY <2>1, <2>4, <2>5
<1>13. ASSUME NEW i \in 1..m, NEW j \in 1..m, i < j PROVE h[i] < h[j]
  <2>1. PICK k, l : k = h[i] /\ l = h[j]
    OBVIOUS
  <2>2. /\ k \in K /\ l \in K /\ k - 1 \in 0..n /\ l - 1 \in 0..n /\ o[k - 1] \in Nat /\ o[l - 1] \in Nat
        /\ k \in Nat /\ l \in Nat
    <3>1. k \in K /\ l \in K
      BY <1>10, <2>1
    <3>2. k \in Nat /\ l \in Nat
      BY <1>2, <3>1
    <3>3. QED
      BY <1>2, <3>1, <3>2
  <2>3. s[i] < s[j]
    BY <1>7, <1>13 DEF Enumerates
  <2>4. o[k - 1] + 4 < o[l - 1] + 4
    BY <1>10, <2>1, <2>3
  <2>5. l < k => l - 1 < k - 1
    BY <2>2
  <2>6. ~(l < k)
    BY <1>3, <2>2, <2>4, <2>5
  <2>7. k # l
    BY <2>2, <2>4
  <2>8. QED
    BY <2>1, <2>2, <2>6, <2>7
<1>14. ASSUME NEW k \in K PROVE \E j \in 1..m : h[j] = k
  <2>1. o[k - 1] + 4 \in S
    BY <1>5
  <2>2. PICK j \in 1..m : s[j] = o[k - 1] + 4
    BY <1>7, <2>1 DEF Enumerates
  <2>3. h[j] = k
    BY <1>10, <1>12, <2>2
  <2>4. QED
    BY <2>3
<1>15. ASSUME NEW j \in 1..m PROVE FixAt(F, s[j]) = FixFor(o, h[j], c[h[j]])
  <2>1. PICK k : k = h[j]
    OBVIOUS
  <2>2. k \in K /\ s[j] = o[k - 1] + 4
    BY <1>10, <2>1
  <2>3. PICK fix : fix = FixFor(o, k, c[k])
    OBVIOUS
  <2>4. fix \in F /\ fix.span.start = s[j]
    BY <1>1, <1>4, <2>2, <2>3 DEF FixesFor
  <2>5. ASSUME NEW other \in F, other.span.start = s[j] PROVE other = fix
    <3>1. PICK l \in K : other = FixFor(o, l, c[l])
      BY <1>1 DEF FixesFor
    <3>2. o[l - 1] + 4 = o[k - 1] + 4
      BY <1>4, <2>2, <2>5, <3>1
    <3>3. l = k
      BY <1>12, <2>2, <3>2
    <3>4. QED
      BY <2>3, <3>1, <3>3
  <2>6. FixAt(F, s[j]) = fix
    BY <2>4, <2>5 DEF FixAt
  <2>7. QED
    BY <2>1, <2>3, <2>6
<1>16. FixOrder(F) = [j \in 1..m |-> FixAt(F, s[m + 1 - j])]
  <2>1. Starts(F) = s
    BY <1>1 DEF Starts
  <2>2. QED
    BY <1>8, <2>1 DEF FixOrder
<1>17. \A j \in 1..m : FixOrder(F)[j] = FixFor(o, h[m + 1 - j], c[h[m + 1 - j]])
  <2>1. TAKE j \in 1..m
  <2>2. m + 1 - j \in 1..m
    BY <1>7
  <2>3. FixOrder(F)[j] = FixAt(F, s[m + 1 - j])
    BY <1>16
  <2>4. QED
    BY <1>15, <2>2, <2>3
<1>18. Len(FixOrder(F)) = m
  <2>1. FixOrder(F) \in [1..m -> {FixAt(F, s[m + 1 - j]) : j \in 1..m}]
    BY <1>16
  <2>2. QED
    BY <1>7, <2>1
<1>19. Ordered(m, h, o, K, c)
  <2>1. F = FixesFor(o, K, c)
    BY <1>1
  <2>2. QED
    BY <1>7, <1>11, <1>13, <1>14, <1>17, <1>18, <2>1 DEF Ordered
<1>20. QED
  BY <1>7, <1>19

LEMMA FixesLaid ==
  ASSUME NEW t, NEW ds, NEW o, Laid(t, ds, o), NEW K \in SUBSET (1..Len(ds)), NEW c, \A k \in K : c[k] \in Classes
  PROVE  \E q : Laid(ApplyFixes(t, FixesFor(o, K, c)), Mixed(ds, K, c), q)
<1>1. PICK n, F : n = Len(ds) /\ F = FixesFor(o, K, c)
  OBVIOUS
<1>14. PICK m \in Nat : \E h : Ordered(m, h, o, K, c)
  BY FixOrderIs
<1>11. PICK h : Ordered(m, h, o, K, c)
  BY <1>14
<1>2. /\ h \in [1..m -> K]
      /\ \A i, j \in 1..m : i < j => h[i] < h[j]
      /\ \A k \in K : \E j \in 1..m : h[j] = k
      /\ Len(FixOrder(F)) = m
      /\ \A j \in 1..m : FixOrder(F)[j] = FixFor(o, h[m + 1 - j], c[h[m + 1 - j]])
  BY <1>1, <1>11 DEF Ordered
<1>13. PICK a : Applied(a, t, F, m)
  BY <1>2, AppliesUnfold
<1>3. a[0] = t /\ ApplyFixes(t, F) = a[m] /\ \A k \in 1..m : a[k] = ApplyFix(a[k - 1], FixOrder(F)[k])
  BY <1>13 DEF Applied
<1>4. n \in Nat /\ ds = [i \in 1..n |-> ds[i]] /\ \A k \in K : k \in 1..n
  BY <1>1, LaidFacts DEF Laid
\* The declarations that the first j of the fixes, the last in the text, are of.
<1> DEFINE Fixed(j) == {i \in K : \E l \in 1..m : m - j < l /\ h[l] = i}
<1>12. \A j, i : i \in Fixed(j) <=> i \in K /\ \E l \in 1..m : m - j < l /\ h[l] = i
  OBVIOUS
<1> HIDE DEF Fixed
<1> DEFINE Done(j) == \E q : /\ Laid(a[j], Mixed(ds, Fixed(j), c), q)
                             /\ j < m => \A i \in 0..h[m - j] : q[i] = o[i]
           T == {j \in Nat : j <= m => Done(j)}
<1>5. 0 \in T
  <2>1. Fixed(0) = {}
    BY <1>2, <1>12
  <2>2. Mixed(ds, {}, c) = ds
    BY <1>1, <1>4 DEF Mixed
  <2>3. Laid(a[0], Mixed(ds, Fixed(0), c), o)
    BY <1>3, <2>1, <2>2
  <2>4. QED
    BY <2>3
<1>6. ASSUME NEW j \in Nat, j \in T PROVE j + 1 \in T
  <2>1. SUFFICES ASSUME j + 1 <= m, Done(j) PROVE Done(j + 1)
    <3> HIDE DEF Done
    <3>1. j <= m => Done(j)
      BY <1>6
    <3>2. j + 1 <= m => j <= m
      OBVIOUS
    <3>3. QED
      BY <3>1, <3>2
  <2>2. PICK l, k, es : l = m - j /\ k = h[l] /\ es = Mixed(ds, Fixed(j), c)
    OBVIOUS
  <2>3. l \in 1..m /\ k \in K /\ k \in 1..n /\ j <= m /\ j < m /\ j + 1 \in 1..m /\ (j + 1) - 1 = j
    <3>1. l \in 1..m /\ j <= m /\ j < m /\ j + 1 \in 1..m /\ (j + 1) - 1 = j
      BY <2>1, <2>2
    <3>2. k \in K
      BY <1>2, <2>2, <3>1
    <3>3. QED
      BY <1>4, <3>1, <3>2
  <2>4. PICK q : Laid(a[j], es, q) /\ \A i \in 0..k : q[i] = o[i]
    <3>1. PICK q : /\ Laid(a[j], Mixed(ds, Fixed(j), c), q)
                   /\ j < m => \A i \in 0..h[m - j] : q[i] = o[i]
      BY <2>1
    <3>2. \A i \in 0..h[m - j] : q[i] = o[i]
      BY <2>3, <3>1
    <3>3. QED
      BY <2>2, <3>1, <3>2
  <2>5. Len(es) = n /\ DOMAIN es = 1..n
    BY <1>1, <1>4, <2>2 DEF Mixed
  <2>6. a[j + 1] = ApplyFix(a[j], FixFor(q, k, c[k]))
    <3>1. k - 1 \in 0..k /\ k \in 0..k
      BY <1>4, <2>3
    <3>2. FixFor(q, k, c[k]) = FixFor(o, k, c[k])
      BY <2>4, <3>1 DEF FixFor, Span
    <3>3. m + 1 - (j + 1) = l
      BY <2>2
    <3>4. FixOrder(F)[j + 1] = FixFor(o, k, c[k])
      BY <1>2, <2>2, <2>3, <3>3
    <3>5. QED
      BY <1>3, <2>3, <3>2, <3>4
  <2>7. PICK r : Laid(a[j + 1], Refined(es, k, c[k]), r) /\ \A i \in 0..(k - 1) : r[i] = q[i]
    <3>1. k \in 1..Len(es) /\ c[k] \in Classes
      BY <2>3, <2>5
    <3>2. QED
      BY <2>4, <2>6, <3>1, FixLaid
  <2>8. Refined(es, k, c[k]) = Mixed(ds, Fixed(j + 1), c)
    <3>1. ASSUME NEW i \in K PROVE i \in Fixed(j + 1) <=> i \in Fixed(j) \/ i = k
      <4>1. \A x \in 1..m : m - (j + 1) < x <=> m - j < x \/ x = l
        BY <2>2
      <4>2. QED
        BY <1>12, <2>2, <2>3, <4>1
    <3>2. Fixed(j + 1) \subseteq K /\ Fixed(j) \subseteq K
      BY <1>12
    <3>3. k \in Fixed(j + 1) /\ \A i \in 1..n : i # k => (i \in Fixed(j + 1) <=> i \in Fixed(j))
      BY <2>3, <3>1, <3>2
    <3>4. \A i \in 1..n : es[i] = IF i \in Fixed(j) THEN Decl(ds[i].name, ds[i].par, c[i]) ELSE ds[i]
      BY <1>1, <2>2 DEF Mixed
    <3>5. es[k].name = ds[k].name /\ es[k].par = ds[k].par
      <4>1. es[k] = Decl(ds[k].name, ds[k].par, c[k]) \/ es[k] = ds[k]
        BY <2>3, <3>4
      <4>2. Decl(ds[k].name, ds[k].par, c[k]).name = ds[k].name /\ Decl(ds[k].name, ds[k].par, c[k]).par = ds[k].par
        BY DEF Decl
      <4>3. QED
        BY <4>1, <4>2
    <3>6. Refined(es, k, c[k]) = [i \in 1..n |-> IF i = k THEN Decl(ds[k].name, ds[k].par, c[k]) ELSE es[i]]
      BY <2>5, <3>5 DEF Refined
    <3>7. \A i \in 1..n : (IF i = k THEN Decl(ds[k].name, ds[k].par, c[k]) ELSE es[i])
                          = IF i \in Fixed(j + 1) THEN Decl(ds[i].name, ds[i].par, c[i]) ELSE ds[i]
      BY <3>3, <3>4
    <3>8. QED
      BY <1>1, <3>6, <3>7 DEF Mixed
  <2>9. ASSUME j + 1 < m PROVE \A i \in 0..h[m - (j + 1)] : r[i] = o[i]
    <3>1. PICK x : x = m - (j + 1)
      OBVIOUS
    <3>2. x \in 1..m /\ x < l
      BY <2>2, <2>9, <3>1
    <3>3. h[x] < k /\ h[x] \in Nat
      BY <1>2, <1>4, <2>2, <2>3, <3>2
    <3>4. \A i \in 0..h[x] : i \in 0..(k - 1) /\ i \in 0..k
      BY <1>4, <2>3, <3>3
    <3>5. QED
      BY <2>4, <2>7, <3>1, <3>4
  <2>10. Laid(a[j + 1], Mixed(ds, Fixed(j + 1), c), r)
    BY <2>7, <2>8
  <2>11. QED
    BY <2>9, <2>10
<1>7. Fixed(m) = K
  <2>1. \A l \in 1..m : m - m < l
    OBVIOUS
  <2>2. QED
    BY <1>2, <1>12, <2>1
<1>8. m \in T
  <2> HIDE DEF T
  <2>1. \A x \in Nat : x \in T
    BY <1>5, <1>6, EveryNumber
  <2>2. QED
    BY <2>1
<1>9. \E q : Laid(a[m], Mixed(ds, Fixed(m), c), q)
  <2>1. Done(m)
    <3> HIDE DEF Done
    <3>1. m <= m => Done(m)
      BY <1>8
    <3>2. QED
      BY <3>1
  <2>2. QED
    BY <2>1
<1>10. QED
  BY <1>1, <1>3, <1>7, <1>9

---------------------------------------------------------------------------
(* The fixes that are suggested.                                           *)

IsLine(l) == \E name, declared, class : class \in Classes \cup {"nil"} /\ l = << <<"extern", name>>, declared, class >>

LEMMA LineFacts ==
  ASSUME NEW l, IsLine(l)
  PROVE  /\ Len(l) >= 3 /\ l = <<l[1], l[2], l[3]>> /\ l[1] = <<"extern", l[1][2]>> /\ l[1][1] = "extern"
         /\ l[3] \in Classes \cup {"nil"}
<1>1. PICK name, declared, class : class \in Classes \cup {"nil"} /\ l = << <<"extern", name>>, declared, class >>
  BY DEF IsLine
<1>2. PICK e : e = <<"extern", name>>
  OBVIOUS
<1>3. e[1] = "extern" /\ e[2] = name
  BY <1>2
<1>4. l = <<e, declared, class>>
  BY <1>1, <1>2
<1>5. l[1] = e /\ l[2] = declared /\ l[3] = class /\ Len(l) = 3
  BY <1>4
<1>6. QED
  BY <1>1, <1>2, <1>3, <1>4, <1>5

LEMMA ParseIs ==
  ASSUME NEW lines, \A l \in lines : IsLine(l)
  PROVE  ParseTape(lines) = lines
<1>1. \A l \in lines : Len(l) >= 3 /\ <<l[1], l[2], l[3]>> = l
  BY LineFacts
<1>2. {l \in lines : Len(l) >= 3} = lines
  BY <1>1
<1>3. ParseTape(lines) = {<<l[1], l[2], l[3]>> : l \in lines}
  BY <1>2 DEF ParseTape
<1>4. ASSUME NEW x PROVE x \in {<<l[1], l[2], l[3]>> : l \in lines} <=> x \in lines
  BY <1>1
<1>5. QED
  BY <1>3, <1>4

LEMMA FirstIs ==
  ASSUME NEW decls, NEW n \in Nat, DOMAIN decls = 1..n, NEW name
  PROVE  /\ \A i \in 1..n : decls[i].name = name /\ name \notin {decls[j].name : j \in 1..(i - 1)} => FirstDecl(decls, name) = i
         /\ FirstDecl(decls, name) # 0 =>
              /\ FirstDecl(decls, name) \in 1..n /\ decls[FirstDecl(decls, name)].name = name
              /\ name \notin {decls[j].name : j \in 1..(FirstDecl(decls, name) - 1)}
<1>1. PICK is : is = {i \in 1..n : decls[i].name = name}
  OBVIOUS
<1>2. FirstDecl(decls, name) = IF is = {} THEN 0 ELSE CHOOSE i \in is : \A j \in is : i <= j
  BY <1>1 DEF FirstDecl
<1>3. \A i : i \in is <=> i \in 1..n /\ decls[i].name = name
  BY <1>1
<1>4. ASSUME NEW i \in 1..n, decls[i].name = name, name \notin {decls[j].name : j \in 1..(i - 1)}
      PROVE  FirstDecl(decls, name) = i
  <2>1. i \in is
    BY <1>3, <1>4
  <2>2. ASSUME NEW j \in is PROVE i <= j
    <3>1. j \in 1..n /\ decls[j].name = name
      BY <1>3
    <3>2. j \notin 1..(i - 1)
      BY <1>4, <3>1
    <3>3. QED
      BY <3>1, <3>2
  <2>3. ASSUME NEW k \in is, \A j \in is : k <= j PROVE k = i
    <3>1. k <= i /\ i <= k /\ k \in Nat
      BY <1>3, <2>1, <2>2, <2>3
    <3>2. QED
      BY <3>1
  <2>4. QED
    BY <1>2, <2>1, <2>2, <2>3
<1>5. ASSUME FirstDecl(decls, name) # 0
      PROVE  /\ FirstDecl(decls, name) \in 1..n /\ decls[FirstDecl(decls, name)].name = name
             /\ name \notin {decls[j].name : j \in 1..(FirstDecl(decls, name) - 1)}
  <2>1. is # {} /\ is \in SUBSET Nat
    BY <1>1, <1>2, <1>5
  <2>2. \E i \in is : \A j \in is : i <= j
    BY <2>1, LeastNumber
  <2>3. PICK i : i = FirstDecl(decls, name)
    OBVIOUS
  <2>4. i \in is /\ \A j \in is : i <= j
    BY <1>2, <2>1, <2>2, <2>3
  <2>5. ASSUME NEW j \in 1..(i - 1), decls[j].name = name PROVE FALSE
    <3>1. j \in 1..n /\ j < i
      BY <1>3, <2>4
    <3>2. j \in is
      BY <1>3, <2>5, <3>1
    <3>3. i <= j /\ i \in Nat
      BY <1>3, <2>4, <3>2
    <3>4. QED
      BY <3>1, <3>3
  <2>6. QED
    BY <1>3, <2>3, <2>4, <2>5
<1>6. QED
  BY <1>4, <1>5

LEMMA SoleIs ==
  ASSUME \A l \in learn.tape : IsLine(l)
  PROVE  /\ \A g \in learn.tape : Consistent(learn.tape, g) => g[3] \in Classes /\ SoleClass(g[1][2], g[3])
         /\ \A name : \A class \in Classes :
              SoleClass(name, class) => \E g \in learn.tape : /\ Consistent(learn.tape, g) /\ g[1] = <<"extern", name>>
                                                              /\ g[1][1] = "extern" /\ g[1][2] = name /\ g[3] = class
<1>1. PICK G : G = learn.tape
  OBVIOUS
<1>2. ParseTape(learn.tape) = G /\ \A g \in G : IsLine(g)
  BY <1>1, ParseIs
<1>3. \A name, class : SoleClass(name, class) <=>
        /\ {v[3] : v \in {u \in G : u[1] = <<"extern", name>>}} = {class}
        /\ \A u, v \in {w \in G : w[1] = <<"extern", name>>} : u[2] = v[2]
  BY <1>2 DEF SoleClass
<1>4. ASSUME NEW g \in G, Consistent(G, g) PROVE g[3] \in Classes /\ SoleClass(g[1][2], g[3])
  <2>1. {h \in G : h[1] = g[1]} = {g} /\ g[3] # "nil"
    BY <1>4 DEF Consistent
  <2>2. g[3] \in Classes
    BY <1>2, <2>1, LineFacts
  <2>3. PICK name : name = g[1][2]
    OBVIOUS
  <2>4. g[1] = <<"extern", name>>
    BY <1>2, <2>3, LineFacts
  <2>5. {u \in G : u[1] = <<"extern", name>>} = {g}
    BY <2>1, <2>4
  <2>6. {v[3] : v \in {g}} = {g[3]} /\ \A u, v \in {g} : u[2] = v[2]
    OBVIOUS
  <2>7. SoleClass(name, g[3])
    BY <1>3, <2>5, <2>6
  <2>8. QED
    BY <2>2, <2>3, <2>7
<1>5. ASSUME NEW name, NEW class \in Classes, SoleClass(name, class)
      PROVE  \E g \in G : /\ Consistent(G, g) /\ g[1] = <<"extern", name>>
                          /\ g[1][1] = "extern" /\ g[1][2] = name /\ g[3] = class
  <2>1. PICK U : U = {u \in G : u[1] = <<"extern", name>>}
    OBVIOUS
  <2>2. {v[3] : v \in U} = {class} /\ \A u, v \in U : u[2] = v[2]
    BY <1>3, <1>5, <2>1
  <2>3. PICK g \in U : g[3] = class
    BY <2>2
  <2>4. g \in G /\ g[1] = <<"extern", name>>
    BY <2>1
  <2>5. ASSUME NEW u \in U PROVE u = g
    <3>1. u[1] = g[1] /\ u[2] = g[2] /\ u[3] = g[3] /\ u \in G
      BY <2>1, <2>2, <2>3, <2>4
    <3>2. u = <<u[1], u[2], u[3]>> /\ g = <<g[1], g[2], g[3]>>
      BY <1>2, <2>4, <3>1, LineFacts
    <3>3. QED
      BY <3>1, <3>2
  <2>6. {h \in G : h[1] = g[1]} = {g}
    BY <2>1, <2>4, <2>5
  <2>7. class # "nil"
    BY WordFacts
  <2>8. Consistent(G, g)
    BY <2>3, <2>6, <2>7 DEF Consistent
  <2>9. <<"extern", name>>[1] = "extern" /\ <<"extern", name>>[2] = name
    OBVIOUS
  <2>10. g[1][1] = "extern" /\ g[1][2] = name
    BY <2>4, <2>9
  <2>11. QED
    BY <2>3, <2>4, <2>8, <2>10
<1>6. QED
  BY <1>1, <1>4, <1>5

\* The declarations that a tape fixes, and the classes it fixes them to.
Fixable(decls) ==
  {i \in DOMAIN decls : /\ decls[i].name \notin {decls[j].name : j \in 1..(i - 1)}
                        /\ \E class \in Classes : SoleClass(decls[i].name, class)}
FixTo(decls) == [i \in Fixable(decls) |-> CHOOSE class \in Classes : SoleClass(decls[i].name, class)]

LEMMA FixToIs ==
  ASSUME NEW decls, NEW i \in Fixable(decls)
  PROVE  /\ FixTo(decls)[i] \in Classes /\ SoleClass(decls[i].name, FixTo(decls)[i])
         /\ \A class : SoleClass(decls[i].name, class) => class = FixTo(decls)[i]
<1>1. PICK name : name = decls[i].name
  OBVIOUS
<1>2. \E class \in Classes : SoleClass(name, class)
  BY <1>1 DEF Fixable
<1>3. PICK c : c = CHOOSE class \in Classes : SoleClass(name, class)
  OBVIOUS
<1>4. c \in Classes /\ SoleClass(name, c)
  BY <1>2, <1>3
<1>5. FixTo(decls)[i] = c
  BY <1>1, <1>3 DEF FixTo
<1>6. ASSUME NEW class, SoleClass(name, class) PROVE class = c
  <2>1. PICK s : s = {v[3] : v \in {u \in ParseTape(learn.tape) : u[1] = <<"extern", name>>}}
    OBVIOUS
  <2>2. s = {c} /\ s = {class}
    BY <1>4, <1>6, <2>1 DEF SoleClass
  <2>3. QED
    BY <2>2
<1>7. QED
  BY <1>1, <1>4, <1>5, <1>6

\* The edit of one declaration's return type.
FixAs(decls, i, class) == [span |-> decls[i].span, with |-> SourceAlias(class)]

LEMMA FixesAre ==
  ASSUME NEW n \in Nat, NEW decls, decls = Decls(learn.source.text), DOMAIN decls = 1..n,
         \A l \in learn.tape : IsLine(l)
  PROVE  Fixes = {FixAs(decls, i, FixTo(decls)[i]) : i \in Fixable(decls)}
<1>1. PICK G : G = learn.tape
  OBVIOUS
<1>2. PICK fixable : fixable = {g \in G : g[1][1] = "extern" /\ Consistent(G, g) /\ FirstDecl(decls, g[1][2]) # 0}
  OBVIOUS
<1>3. Fixes = {FixAs(decls, FirstDecl(decls, g[1][2]), g[3]) : g \in fixable}
  <2>1. ParseTape(learn.tape) = G
    BY <1>1, ParseIs
  <2>2. Fixes = AnalyzeTape(learn.source.text, G)
    BY <2>1 DEF Fixes
  <2>3. QED
    BY <1>2, <2>2 DEF AnalyzeTape, FixAs
<1>4. ASSUME NEW g \in fixable
      PROVE  \E i \in Fixable(decls) : FixAs(decls, FirstDecl(decls, g[1][2]), g[3]) = FixAs(decls, i, FixTo(decls)[i])
  <2>1. PICK i, name : i = FirstDecl(decls, name) /\ name = g[1][2]
    OBVIOUS
  <2>2. g \in G /\ Consistent(G, g) /\ i # 0
    BY <1>2, <2>1
  <2>3. g[3] \in Classes /\ SoleClass(name, g[3])
    BY <1>1, <2>1, <2>2, SoleIs
  <2>4. i \in 1..n /\ decls[i].name = name /\ name \notin {decls[j].name : j \in 1..(i - 1)}
    BY <2>1, <2>2, FirstIs
  <2>5. i \in Fixable(decls)
    BY <2>3, <2>4 DEF Fixable
  <2>6. g[3] = FixTo(decls)[i]
    BY <2>3, <2>4, <2>5, FixToIs
  <2>7. QED
    BY <2>1, <2>5, <2>6
<1>5. ASSUME NEW i \in Fixable(decls)
      PROVE  \E g \in fixable : FixAs(decls, i, FixTo(decls)[i]) = FixAs(decls, FirstDecl(decls, g[1][2]), g[3])
  <2>1. PICK name, class : name = decls[i].name /\ class = FixTo(decls)[i]
    OBVIOUS
  <2>2. class \in Classes /\ SoleClass(name, class)
    BY <2>1, FixToIs
  <2>3. PICK g \in G : Consistent(G, g) /\ g[1][1] = "extern" /\ g[1][2] = name /\ g[3] = class
    BY <1>1, <2>2, SoleIs
  <2>4. i \in 1..n /\ name \notin {decls[j].name : j \in 1..(i - 1)}
    BY <2>1 DEF Fixable
  <2>5. FirstDecl(decls, name) = i /\ i # 0
    BY <2>1, <2>4, FirstIs
  <2>6. g \in fixable
    BY <1>2, <2>3, <2>5
  <2>7. QED
    BY <2>1, <2>3, <2>5, <2>6
<1>6. \A x : x \in Fixes <=> \E g \in fixable : x = FixAs(decls, FirstDecl(decls, g[1][2]), g[3])
  BY <1>3, Zenon
<1>7. \A x : x \in {FixAs(decls, i, FixTo(decls)[i]) : i \in Fixable(decls)}
             <=> \E i \in Fixable(decls) : x = FixAs(decls, i, FixTo(decls)[i])
  OBVIOUS
<1>8. \A x : x \in Fixes <=> x \in {FixAs(decls, i, FixTo(decls)[i]) : i \in Fixable(decls)}
  <2>1. ASSUME NEW x, x \in Fixes PROVE \E i \in Fixable(decls) : x = FixAs(decls, i, FixTo(decls)[i])
    <3>1. PICK g \in fixable : x = FixAs(decls, FirstDecl(decls, g[1][2]), g[3])
      BY <1>6, <2>1
    <3>2. QED
      BY <1>4, <3>1
  <2>2. ASSUME NEW i \in Fixable(decls) PROVE FixAs(decls, i, FixTo(decls)[i]) \in Fixes
    <3>1. PICK g \in fixable : FixAs(decls, i, FixTo(decls)[i]) = FixAs(decls, FirstDecl(decls, g[1][2]), g[3])
      BY <1>5
    <3>2. QED
      BY <1>6, <3>1
  <2>3. QED
    BY <1>7, <2>1, <2>2
<1>9. QED
  BY <1>8, Zenon

LEMMA LearnedText ==
  ASSUME NEW ds, NEW o, Laid(learn.source.text, ds, o), \A l \in learn.tape : IsLine(l)
  PROVE  \E es, q :
           /\ Laid(ApplyFixes(learn.source.text, Fixes), es, q)
           /\ es = [i \in DOMAIN Decls(learn.source.text) |->
                      Decl(Decls(learn.source.text)[i].name, Decls(learn.source.text)[i].par,
                           FixOf(Decls(learn.source.text), i))]
<1>1. PICK t, n, decls, K, c : /\ t = learn.source.text /\ n = Len(ds) /\ decls = Decls(t)
                               /\ K = Fixable(decls) /\ c = FixTo(decls)
  OBVIOUS
<1>2. decls = [i \in 1..n |-> Read(ds[i], Span(o, i))] /\ n \in Nat /\ DOMAIN decls = 1..n
  BY <1>1, LaidDecls, LaidFacts
<1>3. /\ \A i \in 1..n : decls[i].name = ds[i].name /\ decls[i].par = ds[i].par /\ decls[i].ret = ds[i].ret
                         /\ decls[i].span = Span(o, i)
      /\ K \subseteq 1..n
  <2>1. K \subseteq 1..n
    BY <1>1, <1>2 DEF Fixable
  <2>2. ASSUME NEW i \in 1..n
        PROVE  decls[i].name = ds[i].name /\ decls[i].par = ds[i].par /\ decls[i].ret = ds[i].ret /\ decls[i].span = Span(o, i)
    <3>1. decls[i] = Read(ds[i], Span(o, i))
      BY <1>2
    <3>2. QED
      BY <3>1 DEF Read
  <2>3. QED
    BY <2>1, <2>2
<1>4. \A i \in K : c[i] \in Classes
  BY <1>1, FixToIs
<1>5. Fixes = FixesFor(o, K, c)
  <2>1. Fixes = {FixAs(decls, i, c[i]) : i \in K}
    BY <1>1, <1>2, FixesAre
  <2>2. \A i \in K : FixAs(decls, i, c[i]) = FixFor(o, i, c[i])
    BY <1>3 DEF FixAs, FixFor
  <2>3. QED
    BY <2>1, <2>2 DEF FixesFor
<1>6. PICK q : Laid(ApplyFixes(t, FixesFor(o, K, c)), Mixed(ds, K, c), q)
  BY <1>1, <1>3, <1>4, FixesLaid
<1>7. ASSUME NEW i \in 1..n
      PROVE  Decl(decls[i].name, decls[i].par, FixOf(decls, i))
             = IF i \in K THEN Decl(ds[i].name, ds[i].par, c[i]) ELSE ds[i]
  <2>1. CASE i \in K
    <3>1. FixOf(decls, i) = c[i]
      BY <1>1, <2>1 DEF FixOf, Fixable, FixTo
    <3>2. QED
      BY <1>3, <2>1, <3>1
  <2>2. CASE i \notin K
    <3>1. FixOf(decls, i) = decls[i].ret
      BY <1>1, <1>2, <2>2 DEF FixOf, Fixable
    <3>2. Decl(ds[i].name, ds[i].par, ds[i].ret) = ds[i]
      BY <1>1, LaidFacts, DeclarationFacts
    <3>3. QED
      BY <1>3, <2>2, <3>1, <3>2
  <2>3. QED
    BY <2>1, <2>2
<1>8. Mixed(ds, K, c) = [i \in DOMAIN decls |-> Decl(decls[i].name, decls[i].par, FixOf(decls, i))]
  BY <1>1, <1>2, <1>7 DEF Mixed
<1>9. QED
  BY <1>1, <1>5, <1>6, <1>8

---------------------------------------------------------------------------
(* What is written consists of declarations.                               *)

IsSource(s) == s = [text |-> s.text, body |-> s.body] /\ \E ds, o : Laid(s.text, ds, o)

TextsInv ==
  /\ disk = [p \in Files |-> disk[p]] /\ \A p \in Files : IsSource(disk[p].source)
  /\ learn = [st |-> learn.st, source |-> learn.source, tape |-> learn.tape] /\ IsSource(learn.source)
  /\ \A l \in tape \cup learn.tape : IsLine(l)

LEMMA NoSourceIs == IsSource(NoSource)
  BY EmptyLaid DEF IsSource, NoSource

LEMMA SourcesAre == \A s \in Sources : IsSource(s)
<1>1. TAKE s \in Sources
<1>2. s = [text |-> s.text, body |-> s.body]
  BY SourcesAssumption
<1>3. PICK ds : ds = Bare(Decls(s.text))
  OBVIOUS
<1>4. ds \in Seq(Declarations) /\ s.text = Text(ds)
  BY <1>3, SourcesAssumption
<1>5. \E o : Laid(s.text, ds, o)
  BY <1>4, TextLaid
<1>6. QED
  BY <1>2, <1>5 DEF IsSource

LEMMA LinesAre ==
  ASSUME NEW source, NEW call \in Calls, NEW class \in Returns[call]
  PROVE  \A l \in Lines(source, call, class) : IsLine(l)
<1>1. class \in Classes \cup {"nil"}
  BY SourcesAssumption
<1>2. QED
  BY <1>1 DEF Lines, IsLine

LEMMA WrittenKeeps ==
  ASSUME TextsInv, NEW path, NEW source, IsSource(source), Written(path, source),
         learn' = learn \/ learn' = Idle, tape' = tape
  PROVE  TextsInv'
<1>1. PICK file : file = [there |-> TRUE, source |-> source, mtime |-> now + 1]
  OBVIOUS
<1>2. disk' = [disk EXCEPT ![path] = file] /\ disk = [p \in Files |-> disk[p]] /\ file.source = source
  BY <1>1 DEF Written, TextsInv
<1>3. disk' = [p \in Files |-> disk'[p]] /\ \A p \in Files : disk'[p] = IF p = path THEN file ELSE disk[p]
  BY <1>2
<1>4. \A p \in Files : IsSource(disk'[p].source)
  BY <1>2, <1>3 DEF TextsInv
<1>5. /\ learn' = [st |-> learn'.st, source |-> learn'.source, tape |-> learn'.tape] /\ IsSource(learn'.source)
      /\ \A l \in tape' \cup learn'.tape : IsLine(l)
  BY NoSourceIs DEF TextsInv, Idle
<1>6. QED
  BY <1>3, <1>4, <1>5 DEF TextsInv, IsSource

LEMMA EditedIs ==
  ASSUME NEW source, IsSource(source), NEW text, NEW ds, NEW o, Laid(text, ds, o)
  PROVE  IsSource([source EXCEPT !.text = text]) /\ [source EXCEPT !.text = text].text = text
<1>1. source = [text |-> source.text, body |-> source.body]
  BY DEF IsSource
<1>2. PICK s : s = [source EXCEPT !.text = text]
  OBVIOUS
<1>3. s = [text |-> text, body |-> source.body]
  BY <1>1, <1>2
<1>4. s.text = text /\ s = [text |-> s.text, body |-> s.body]
  BY <1>3
<1>5. IsSource(s)
  BY <1>4 DEF IsSource
<1>6. QED
  BY <1>2, <1>4, <1>5

\* The watcher and a deletion.
LEMMA WatchTexts ==
  ASSUME TextsInv, Watch \/ \E path \in Files : Delete(path)
  PROVE  TextsInv'
<1>1. CASE Watch
  <2>1. UNCHANGED <<disk, learn, tape>>
    BY <1>1 DEF Watch, StartPass, Stat, Compile, EndPass
  <2>2. QED
    BY <2>1 DEF TextsInv, IsSource
<1>2. ASSUME NEW path \in Files, Delete(path) PROVE TextsInv'
  <2>1. disk' = [disk EXCEPT ![path] = Absent] /\ disk = [p \in Files |-> disk[p]] /\ UNCHANGED <<learn, tape>>
    BY <1>2 DEF Delete, TextsInv
  <2>2. disk' = [p \in Files |-> disk'[p]] /\ \A p \in Files : disk'[p] = IF p = path THEN Absent ELSE disk[p]
    BY <2>1
  <2>3. IsSource(Absent.source)
    BY NoSourceIs DEF Absent
  <2>4. \A p \in Files : IsSource(disk'[p].source)
    BY <2>2, <2>3 DEF TextsInv
  <2>5. QED
    BY <2>1, <2>2, <2>4 DEF TextsInv, IsSource
<1>3. QED
  BY <1>1, <1>2

\* A tape grows, and the learning pass reads.
LEMMA ReadTexts ==
  ASSUME TextsInv,
         \/ LearnRead \/ LearnTape
         \/ \E call \in Calls : \E class \in Returns[call] : LearnDrive(call, class) \/ Run(call, class)
  PROVE  TextsInv'
<1>1. SUFFICES /\ disk' = disk /\ \A l \in tape' \cup learn'.tape : IsLine(l)
               /\ learn' = [st |-> learn'.st, source |-> learn'.source, tape |-> learn'.tape] /\ IsSource(learn'.source)
  BY DEF TextsInv, IsSource
<1>2. CASE LearnRead
  <2>1. learn' = [Idle EXCEPT !.st = "read", !.source = disk[Learned].source] /\ UNCHANGED <<disk, tape>>
    BY <1>2 DEF LearnRead
  <2>2. learn' = [st |-> "read", source |-> disk[Learned].source, tape |-> {}]
    BY <2>1 DEF Idle
  <2>3. Learned \in Files
    BY ToolsAssumption DEF Files
  <2>4. IsSource(disk[Learned].source) /\ \A l \in tape : IsLine(l)
    BY <2>3 DEF TextsInv
  <2>5. \A l \in tape' \cup learn'.tape : IsLine(l)
    <3>1. learn'.tape = {}
      BY <2>2
    <3>2. tape' = tape
      BY <1>2 DEF LearnRead
    <3>3. QED
      BY <2>4, <3>1, <3>2
  <2>6. QED
    BY <2>1, <2>2, <2>4, <2>5
<1>3. CASE LearnTape
  <2>1. learn' = [learn EXCEPT !.st = "taped", !.tape = tape] /\ UNCHANGED <<disk, tape>>
    BY <1>3 DEF LearnTape
  <2>2. learn' = [st |-> "taped", source |-> learn.source, tape |-> tape]
    BY <2>1 DEF TextsInv
  <2>3. QED
    BY <2>1, <2>2 DEF TextsInv
<1>4. ASSUME NEW call \in Calls, NEW class \in Returns[call], LearnDrive(call, class)
      PROVE  /\ disk' = disk /\ \A l \in tape' \cup learn'.tape : IsLine(l)
             /\ learn' = [st |-> learn'.st, source |-> learn'.source, tape |-> learn'.tape] /\ IsSource(learn'.source)
  <2>1. UNCHANGED <<disk, tape>>
    BY <1>4 DEF LearnDrive
  <2>2. CASE ~Checks(learn.source)
    <3>1. learn' = Idle
      BY <1>4, <2>2 DEF LearnDrive
    <3>2. learn' = [st |-> "idle", source |-> NoSource, tape |-> {}]
      BY <3>1 DEF Idle
    <3>3. QED
      BY <2>1, <3>2, NoSourceIs DEF TextsInv
  <2>3. CASE Checks(learn.source)
    <3>1. learn' = [learn EXCEPT !.st = "taped", !.tape = Lines(learn.source, call, class)]
      BY <1>4, <2>3 DEF LearnDrive
    <3>2. learn' = [st |-> "taped", source |-> learn.source, tape |-> Lines(learn.source, call, class)]
      BY <3>1 DEF TextsInv
    <3>3. QED
      BY <2>1, <3>2, LinesAre DEF TextsInv
  <2>4. QED
    BY <2>2, <2>3
<1>5. ASSUME NEW call \in Calls, NEW class \in Returns[call], Run(call, class)
      PROVE  /\ disk' = disk /\ \A l \in tape' \cup learn'.tape : IsLine(l)
             /\ learn' = [st |-> learn'.st, source |-> learn'.source, tape |-> learn'.tape] /\ IsSource(learn'.source)
  <2>1. tape' = tape \cup Lines(out[Learned], call, class) /\ UNCHANGED <<disk, learn>>
    BY <1>5 DEF Run
  <2>2. \A l \in tape' : IsLine(l)
    BY <2>1, LinesAre DEF TextsInv
  <2>3. QED
    BY <2>1, <2>2 DEF TextsInv
<1>6. QED
  BY <1>2, <1>3, <1>4, <1>5

\* What learn writes, if it writes.
LEMMA LearnedIs ==
  ASSUME TextsInv, LearnWrite, Fixes # {}
  PROVE  /\ Written(Learned, [learn.source EXCEPT !.text = ApplyFixes(@, Fixes)])
         /\ IsSource([learn.source EXCEPT !.text = ApplyFixes(@, Fixes)])
         /\ [learn.source EXCEPT !.text = ApplyFixes(@, Fixes)].text
            = Text([i \in DOMAIN Decls(learn.source.text) |->
                      Decl(Decls(learn.source.text)[i].name, Decls(learn.source.text)[i].par,
                           FixOf(Decls(learn.source.text), i))])
<1>1. PICK ds, o : Laid(learn.source.text, ds, o)
  BY DEF TextsInv, IsSource
<1>2. \A l \in learn.tape : IsLine(l)
  BY DEF TextsInv
<1>3. PICK text, decls : /\ text = ApplyFixes(learn.source.text, Fixes)
                         /\ decls = [i \in DOMAIN Decls(learn.source.text) |->
                                       Decl(Decls(learn.source.text)[i].name, Decls(learn.source.text)[i].par,
                                            FixOf(Decls(learn.source.text), i))]
  OBVIOUS
<1>4. PICK q : Laid(text, decls, q)
  BY <1>1, <1>2, <1>3, LearnedText
<1>5. text = Text(decls)
  BY <1>4, LaidIsText
<1>6. IsSource(learn.source)
  BY DEF TextsInv
<1>7. IsSource([learn.source EXCEPT !.text = text]) /\ [learn.source EXCEPT !.text = text].text = text
  BY <1>4, <1>6, EditedIs
<1>8. [learn.source EXCEPT !.text = ApplyFixes(@, Fixes)] = [learn.source EXCEPT !.text = text]
  BY <1>3
<1>9. Written(Learned, [learn.source EXCEPT !.text = ApplyFixes(@, Fixes)])
  BY DEF LearnWrite
<1>10. QED
  BY <1>3, <1>5, <1>7, <1>8, <1>9

\* The editor, learn --write and observe-call --write.
LEMMA WriteTexts ==
  ASSUME TextsInv,
         \/ LearnWrite
         \/ \E path \in Files : \E source \in Sources : Edit(path, source)
         \/ \E call \in Calls : \E class \in Returns[call] : Observe(call, class)
  PROVE  TextsInv'
<1>1. CASE LearnWrite
  <2>1. learn' = Idle /\ tape' = tape
    BY <1>1 DEF LearnWrite
  <2>2. CASE Fixes = {}
    <3>1. disk' = disk
      BY <1>1, <2>2 DEF LearnWrite
    <3>2. learn' = [st |-> "idle", source |-> NoSource, tape |-> {}]
      BY <2>1 DEF Idle
    <3>3. QED
      BY <2>1, <3>1, <3>2, NoSourceIs DEF TextsInv, IsSource
  <2>3. CASE Fixes # {}
    <3>1. PICK source : IsSource(source) /\ Written(Learned, source)
      BY <1>1, <2>3, LearnedIs
    <3>2. QED
      BY <2>1, <3>1, WrittenKeeps
  <2>4. QED
    BY <2>2, <2>3
<1>2. ASSUME NEW path \in Files, NEW source \in Sources, Edit(path, source) PROVE TextsInv'
  <2>1. IsSource(source) /\ Written(path, source) /\ learn' = learn /\ tape' = tape
    BY <1>2, SourcesAre DEF Edit
  <2>2. QED
    BY <2>1, WrittenKeeps
<1>3. ASSUME NEW call \in Calls, NEW class \in Returns[call], Observe(call, class) PROVE TextsInv'
  <2>1. PICK source, d, pinned : /\ source = disk[Learned].source /\ d = Decl(call[1], call[2], class)
                                 /\ pinned = PinObservation(source.text, d)
    OBVIOUS
  <2>2. Written(Learned, [source EXCEPT !.text = pinned]) /\ learn' = learn /\ tape' = tape /\ class # "nil"
    BY <1>3, <2>1 DEF Observe
  <2>3. IsSource(source)
    <3>1. Learned \in Files
      BY ToolsAssumption DEF Files
    <3>2. QED
      BY <2>1, <3>1 DEF TextsInv
  <2>4. d \in Declarations
    <3>1. call[1] \in Names /\ call[2] \in Names /\ class \in Classes
      BY <2>2, SourcesAssumption
    <3>2. QED
      BY <2>1, <3>1 DEF Declarations, Decl
  <2>5. PICK ds, o : Laid(source.text, ds, o)
    BY <2>3 DEF IsSource
  <2>6. \E es, q : Laid(pinned, es, q)
    <3>1. pinned = source.text \/ pinned = source.text \o Declaration(d)
      BY <2>1 DEF PinObservation
    <3>2. QED
      BY <2>4, <2>5, <3>1, AppendLaid
  <2>7. IsSource([source EXCEPT !.text = pinned])
    BY <2>3, <2>6, EditedIs
  <2>8. QED
    BY <2>2, <2>7, WrittenKeeps
<1>4. QED
  BY <1>1, <1>2, <1>3

LEMMA TextsStep == TextsInv /\ [Next]_vars => TextsInv'
<1> SUFFICES ASSUME TextsInv, [Next]_vars PROVE TextsInv'
  OBVIOUS
<1>1. CASE UNCHANGED vars
  BY <1>1 DEF vars, TextsInv, IsSource
<1>2. CASE Next
  BY <1>2, WatchTexts, ReadTexts, WriteTexts DEF Next, Learn, Developer, Program
<1>3. QED
  BY <1>1, <1>2

LEMMA TextsAtStart == Init => TextsInv
<1> SUFFICES ASSUME Init PROVE TextsInv
  OBVIOUS
<1>1. PICK s \in Sources : disk = [p \in Files |-> [there |-> TRUE, source |-> s, mtime |-> 1]]
  BY DEF Init
<1>2. disk = [p \in Files |-> disk[p]] /\ \A p \in Files : disk[p].source = s
  BY <1>1
<1>3. learn = [st |-> "idle", source |-> NoSource, tape |-> {}] /\ tape = {}
  BY DEF Init, Idle
<1>4. IsSource(s) /\ IsSource(NoSource)
  BY SourcesAre, NoSourceIs
<1>5. QED
  BY <1>2, <1>3, <1>4 DEF TextsInv

\* Only a learning pass that has its tape and writes is what FixesOnlyReturns is about.
LEMMA LearnWritesIs ==
  ASSUME TextsInv, [Next]_vars, LearnWrites
  PROVE  LearnWrite /\ Fixes # {}
<1>1. learn.st = "taped" /\ learn' = Idle /\ now' # now /\ learn'.st = "idle"
  BY DEF LearnWrites, Idle
<1>2. learn' # learn
  BY <1>1
<1>3. LearnWrite
  <2>1. ~UNCHANGED vars
    BY <1>2 DEF vars
  <2>2. ~Watch /\ ~Developer /\ ~Program
    BY <1>2 DEF Watch, StartPass, Stat, Compile, EndPass, Developer, Delete, Edit, Program, Run
  <2>3. ~LearnRead /\ ~LearnTape
    BY <1>1 DEF LearnRead, LearnTape, Idle
  <2>4. \A call \in Calls : \A class \in Returns[call] : ~LearnDrive(call, class) /\ ~Observe(call, class)
    BY <1>1, <1>2 DEF LearnDrive, Observe
  <2>5. QED
    BY <2>1, <2>2, <2>3, <2>4 DEF Next, Learn
<1>4. QED
  BY <1>1, <1>3 DEF LearnWrite

\* learn --write changes the text it read in nothing but return types, each to the
\* one class its extern was seen to return: for any texts of declarations, any
\* tapes, and fixes that move one another in any number.
THEOREM LearnChangesOnlyReturns == Spec => FixesOnlyReturns
<1>1. TextsInv /\ [Next]_vars =>
        [LearnWrites =>
           LET decls == Decls(learn.source.text)
           IN disk'[Learned].source.text =
                Text([i \in DOMAIN decls |-> Decl(decls[i].name, decls[i].par, FixOf(decls, i))])]_vars
  <2>1. SUFFICES ASSUME TextsInv, [Next]_vars, LearnWrites
                 PROVE  disk'[Learned].source.text =
                          Text([i \in DOMAIN Decls(learn.source.text) |->
                                  Decl(Decls(learn.source.text)[i].name, Decls(learn.source.text)[i].par,
                                       FixOf(Decls(learn.source.text), i))])
    OBVIOUS
  <2>2. LearnWrite /\ Fixes # {}
    BY <2>1, LearnWritesIs
  <2>3. PICK source : /\ Written(Learned, source)
                      /\ source.text = Text([i \in DOMAIN Decls(learn.source.text) |->
                                               Decl(Decls(learn.source.text)[i].name, Decls(learn.source.text)[i].par,
                                                    FixOf(Decls(learn.source.text), i))])
    BY <2>1, <2>2, LearnedIs
  <2>4. Learned \in Files /\ disk = [p \in Files |-> disk[p]]
    BY <2>1, ToolsAssumption DEF TextsInv, Files
  <2>5. disk'[Learned].source = source
    BY <2>3, <2>4 DEF Written
  <2>6. QED
    BY <2>3, <2>5
<1>2. QED
  BY <1>1, TextsAtStart, TextsStep, PTL DEF Spec, FixesOnlyReturns
=============================================================================
