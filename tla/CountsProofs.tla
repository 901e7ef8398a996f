---------------------------- MODULE CountsProofs -----------------------------
(***************************************************************************)
(* Two counters that writes on other rows keep, for any depot records in   *)
(* any order: the unread count of a user never exceeds what the user has   *)
(* unread, and the paid counts of all teams together are the players who   *)
(* paid with a team, once each.                                            *)
(***************************************************************************)
EXTENDS PaymentsModule, UnreadCounts, FiniteSetTheorems, WellFoundedInduction, TLAPS

Notifications == INSTANCE NotificationsModule

---------------------------------------------------------------------------
(* Notifications *)

RowsTyped == IsFiniteSet(DOMAIN notifications) /\ \A k \in DOMAIN notifications : notifications[k] \in BOOLEAN
UnreadInv == RowsTyped /\ UnreadNeverOvercounts

\* The unread rows of a user are finitely many.
LEMMA UnreadFinite ==
  ASSUME RowsTyped, NEW u
  PROVE  IsFiniteSet(UnreadRows(u)) /\ Cardinality(UnreadRows(u)) \in Nat
<1>1. UnreadRows(u) \subseteq DOMAIN notifications
  BY DEF UnreadRows
<1>2. IsFiniteSet(UnreadRows(u))
  BY <1>1, FS_Subset DEF RowsTyped
<1>3. QED
  BY <1>2, FS_CardinalityType

\* A write of a row keeps the rows finite and touches one user's unread rows.
LEMMA RowWrite ==
  ASSUME RowsTyped, NEW k, NEW v \in BOOLEAN, notifications' = Notifications!Put(notifications, k, v)
  PROVE  /\ RowsTyped'
         /\ \A u : UnreadRows(u)' = IF k[1] = u /\ ~v THEN UnreadRows(u) \cup {k} ELSE UnreadRows(u) \ {k}
<1>1. DOMAIN notifications' = DOMAIN notifications \cup {k}
  BY DEF Notifications!Put
<1>2. \A i \in DOMAIN notifications' : notifications'[i] = IF i = k THEN v ELSE notifications[i]
  BY DEF Notifications!Put
<1>3. IsFiniteSet(DOMAIN notifications')
  BY <1>1, FS_AddElement DEF RowsTyped
<1>4. RowsTyped'
  BY <1>1, <1>2, <1>3 DEF RowsTyped
<1>5. ASSUME NEW u PROVE UnreadRows(u)' = IF k[1] = u /\ ~v THEN UnreadRows(u) \cup {k} ELSE UnreadRows(u) \ {k}
  <2>1. UnreadRows(u)' = {i \in DOMAIN notifications' : i[1] = u /\ ~notifications'[i]}
    BY DEF UnreadRows
  <2>2. CASE k[1] = u /\ ~v
    BY <1>1, <1>2, <2>1, <2>2 DEF UnreadRows
  <2>3. CASE ~(k[1] = u /\ ~v)
    BY <1>1, <1>2, <2>1, <2>3 DEF UnreadRows
  <2>4. QED
    BY <2>2, <2>3
<1>6. QED
  BY <1>4, <1>5

\* A new notification: one more unread row, one more on the count.
LEMMA NotifyCounts ==
  ASSUME UnreadInv, NEW e \in Events, Notifications!Notify(e)
  PROVE  UnreadInv'
<1> DEFINE k == Notifications!NotificationKey(e)
<1>1. PICK u, id : u = e.steamId /\ id = e.id
  OBVIOUS
<1>2. k = <<u, id>> /\ k[1] = u /\ k \notin DOMAIN notifications /\ notifications' = Notifications!Put(notifications, <<u, id>>, FALSE)
  BY <1>1 DEF Notifications!Notify, Notifications!NotifyError, Notifications!NotificationKey
<1>3. RowsTyped' /\ \A v : UnreadRows(v)' = IF u = v THEN UnreadRows(v) \cup {<<u, id>>} ELSE UnreadRows(v) \ {<<u, id>>}
  BY <1>2, RowWrite DEF UnreadInv
<1>4. <<u, id>> \notin UnreadRows(u)
  BY <1>2 DEF UnreadRows
<1>5. Cardinality(UnreadRows(u)') = Cardinality(UnreadRows(u)) + 1
  BY <1>3, <1>4, UnreadFinite, FS_AddElement DEF UnreadInv
<1>6. unreadCount' = Notifications!Put(unreadCount, u, Notifications!AtOr(unreadCount, u, 0) + 1)
  BY <1>1 DEF Notifications!Notify
<1>7. Notifications!AtOr(unreadCount, u, 0) \in 0..Cardinality(UnreadRows(u))
  BY UnreadFinite DEF UnreadInv, UnreadNeverOvercounts, Notifications!AtOr
<1>8. ASSUME NEW v \in DOMAIN unreadCount' PROVE unreadCount'[v] \in 0..Cardinality(UnreadRows(v)')
  <2>1. CASE v = u
    <3>1. unreadCount'[v] = Notifications!AtOr(unreadCount, u, 0) + 1
      BY <1>6, <2>1 DEF Notifications!Put
    <3>2. Cardinality(UnreadRows(u)) \in Nat
      BY UnreadFinite DEF UnreadInv
    <3>3. QED
      BY <1>5, <1>7, <2>1, <3>1, <3>2
  <2>2. CASE v # u
    <3>1. v \in DOMAIN unreadCount /\ unreadCount'[v] = unreadCount[v]
      BY <1>6, <2>2 DEF Notifications!Put
    <3>2. <<u, id>> \notin UnreadRows(v)
      BY <2>2 DEF UnreadRows
    <3>3. UnreadRows(v)' = UnreadRows(v)
      BY <1>3, <2>2, <3>2
    <3>4. QED
      BY <3>1, <3>3 DEF UnreadInv, UnreadNeverOvercounts
  <2>3. QED
    BY <2>1, <2>2
<1>9. QED
  BY <1>3, <1>8 DEF UnreadInv, UnreadNeverOvercounts

\* A row is read: one unread row fewer, one fewer on a count that is not zero.
LEMMA ReadCounts ==
  ASSUME UnreadInv, NEW e \in Events, Notifications!MarkRead(e)
  PROVE  UnreadInv'
<1> DEFINE k == Notifications!NotificationKey(e)
<1>1. PICK u, id : u = e.steamId /\ id = e.id
  OBVIOUS
<1>2. k = <<u, id>> /\ k[1] = u
  BY <1>1 DEF Notifications!NotificationKey
<1>3. <<u, id>> \in UnreadRows(u) /\ notifications' = Notifications!Put(notifications, <<u, id>>, TRUE)
  BY <1>2 DEF Notifications!MarkRead, Notifications!AtOr, UnreadRows
<1>4. RowsTyped' /\ \A v : UnreadRows(v)' = UnreadRows(v) \ {<<u, id>>}
  BY <1>3, RowWrite DEF UnreadInv
<1>5. Cardinality(UnreadRows(u)') = Cardinality(UnreadRows(u)) - 1
  BY <1>3, <1>4, UnreadFinite, FS_RemoveElement DEF UnreadInv
<1>6. Cardinality(UnreadRows(u)) \in Nat /\ Cardinality(UnreadRows(u)) # 0
  BY <1>3, UnreadFinite, FS_EmptySet DEF UnreadInv
<1>7. unreadCount' = IF Notifications!AtOr(unreadCount, u, 0) > 0 THEN [unreadCount EXCEPT ![u] = @ - 1] ELSE unreadCount
  BY <1>1 DEF Notifications!MarkRead
<1>8. ASSUME NEW v \in DOMAIN unreadCount' PROVE unreadCount'[v] \in 0..Cardinality(UnreadRows(v)')
  <2>1. v \in DOMAIN unreadCount
    BY <1>7
  <2>2. unreadCount[v] \in 0..Cardinality(UnreadRows(v))
    BY <2>1 DEF UnreadInv, UnreadNeverOvercounts
  <2>3. CASE v = u
    <3>1. Notifications!AtOr(unreadCount, u, 0) = unreadCount[u]
      BY <2>1, <2>3 DEF Notifications!AtOr
    <3>2. unreadCount'[u] = IF unreadCount[u] > 0 THEN unreadCount[u] - 1 ELSE unreadCount[u]
      BY <1>7, <2>1, <2>3, <3>1
    <3>3. QED
      BY <1>5, <1>6, <2>2, <2>3, <3>2
  <2>4. CASE v # u
    <3>1. unreadCount'[v] = unreadCount[v]
      BY <1>7, <2>1, <2>4
    <3>2. UnreadRows(v)' = UnreadRows(v)
      BY <1>2, <1>4, <2>4 DEF UnreadRows
    <3>3. QED
      BY <2>2, <3>1, <3>2
  <2>5. QED
    BY <2>3, <2>4
<1>9. QED
  BY <1>4, <1>8 DEF UnreadInv, UnreadNeverOvercounts

\* The count is reset; the rows stay.
LEMMA ReadAllCounts ==
  ASSUME UnreadInv, NEW e \in Events, Notifications!MarkAllRead(e)
  PROVE  UnreadInv'
<1>1. RowsTyped' /\ \A v : UnreadRows(v)' = UnreadRows(v)
  BY DEF Notifications!MarkAllRead, UnreadInv, RowsTyped, UnreadRows
<1>2. unreadCount' = Notifications!Put(unreadCount, e.steamId, 0)
  BY DEF Notifications!MarkAllRead
<1>3. ASSUME NEW v \in DOMAIN unreadCount' PROVE unreadCount'[v] \in 0..Cardinality(UnreadRows(v)')
  <2>1. CASE v = e.steamId
    <3>1. unreadCount'[v] = 0
      BY <1>2, <2>1 DEF Notifications!Put
    <3>2. QED
      BY <1>1, <3>1, UnreadFinite DEF UnreadInv
  <2>2. CASE v # e.steamId
    <3>1. v \in DOMAIN unreadCount /\ unreadCount'[v] = unreadCount[v]
      BY <1>2, <2>2 DEF Notifications!Put
    <3>2. QED
      BY <1>1, <3>1 DEF UnreadInv, UnreadNeverOvercounts
  <2>3. QED
    BY <2>1, <2>2
<1>4. QED
  BY <1>1, <1>3 DEF UnreadInv, UnreadNeverOvercounts

\* The count never exceeds the unread rows and is never negative.
THEOREM CountNeverOvershoots == Notifications!Spec => []UnreadNeverOvercounts
<1>1. Notifications!Init => UnreadInv
  <2> SUFFICES ASSUME Notifications!Init PROVE UnreadInv
    OBVIOUS
  <2>1. DOMAIN notifications = {} /\ DOMAIN unreadCount = {}
    BY DEF Notifications!Init
  <2>2. QED
    BY <2>1, FS_EmptySet DEF UnreadInv, RowsTyped, UnreadNeverOvercounts
<1>2. UnreadInv /\ [Notifications!Next]_(Notifications!vars) => UnreadInv'
  <2> SUFFICES ASSUME UnreadInv, [Notifications!Next]_(Notifications!vars) PROVE UnreadInv'
    OBVIOUS
  <2>1. ASSUME NEW e \in Events, Notifications!SubmitLocal(e) PROVE UnreadInv'
    BY <2>1, NotifyCounts, ReadCounts, ReadAllCounts DEF Notifications!SubmitLocal
  <2>2. CASE UNCHANGED Notifications!vars
    BY <2>2 DEF Notifications!vars, UnreadInv, RowsTyped, UnreadNeverOvercounts, UnreadRows
  <2>3. QED
    BY <2>1, <2>2 DEF Notifications!Next
<1>3. QED
  BY <1>1, <1>2, PTL DEF Notifications!Spec, UnreadInv

---------------------------------------------------------------------------
(* Sums over a finite set *)

\* A set of numbers that is not empty has a least one.
LEMMA LeastNat ==
  ASSUME NEW T \in SUBSET Nat, T # {}
  PROVE  \E n \in T : \A m \in T : n <= m
<1>1. IsWellFoundedOn(OpToRel(<,Nat), Nat)
  BY NatLessThanWellFounded
<1>2. PICK n \in T : \A m \in T : ~(<<m, n>> \in OpToRel(<,Nat))
  BY <1>1, WFMin
<1>3. \A m \in T : ~(m < n)
  BY <1>2 DEF OpToRel
<1>4. QED
  BY <1>3

\* The sum of f over S, as PlayerCountsOnce takes it, and the fold behind it.
Total(f, S) == MapThenSumSet(LAMBDA x : f[x], S)

LEMMA TotalDef ==
  ASSUME NEW f, NEW S
  PROVE  Total(f, S) =
           LET iter[s \in SUBSET S] ==
                 IF s = {} THEN 0 ELSE LET x == CHOOSE x \in s : TRUE IN f[x] + iter[s \ {x}]
           IN  iter[S]
  BY DEF Total, MapThenSumSet, MapThenFoldSet

\* g gives every subset of S its sum, by the equation of the fold.
Totals(f, S, g) ==
  g = [T \in SUBSET S |-> IF T = {} THEN 0 ELSE LET x == CHOOSE x \in T : TRUE IN f[x] + g[T \ {x}]]

\* Among sets of finite ones there is a smallest: what the lemmas below take
\* in the place of an induction.
LEMMA SmallestSet ==
  ASSUME NEW S, IsFiniteSet(S), NEW F \in SUBSET (SUBSET S), F # {}
  PROVE  \E T \in F : IsFiniteSet(T) /\ \A U \in SUBSET T : U # T => U \notin F
<1> DEFINE sizes == {Cardinality(T) : T \in F}
<1>1. \A T \in SUBSET S : IsFiniteSet(T) /\ Cardinality(T) \in Nat
  BY FS_Subset, FS_CardinalityType
<1>2. sizes \in SUBSET Nat /\ sizes # {}
  BY <1>1
<1> HIDE DEF sizes
<1>3. PICK n \in sizes : \A m \in sizes : n <= m
  BY <1>2, LeastNat
<1>4. PICK T \in F : Cardinality(T) = n
  BY <1>3 DEF sizes
<1>5. ASSUME NEW U \in SUBSET T, U # T, U \in F PROVE FALSE
  <2>1. Cardinality(U) <= Cardinality(T) /\ Cardinality(U) # Cardinality(T)
    BY <1>1, <1>5, FS_Subset
  <2>2. Cardinality(U) \in sizes
    BY <1>5 DEF sizes
  <2>3. QED
    BY <1>1, <1>3, <1>4, <2>1, <2>2
<1>6. QED
  BY <1>1, <1>4, <1>5

\* Two such functions agree where both are defined.
LEMMA TotalsAgree ==
  ASSUME NEW f, NEW S, IsFiniteSet(S), NEW U \in SUBSET S, NEW g, Totals(f, S, g), NEW h, Totals(f, U, h)
  PROVE  h[U] = g[U]
<1> DEFINE F == {T \in SUBSET U : h[T] # g[T]}
<1>1. SUFFICES ASSUME F # {} PROVE FALSE
  OBVIOUS
<1>2. F \in SUBSET (SUBSET S)
  OBVIOUS
<1> HIDE DEF F
<1>3. PICK T \in F : \A V \in SUBSET T : V # T => V \notin F
  BY <1>1, <1>2, SmallestSet
<1>4. T \in SUBSET U /\ T \in SUBSET S /\ h[T] # g[T]
  BY <1>3 DEF F
<1>5. T # {}
  BY <1>4 DEF Totals
<1>6. PICK x : x = (CHOOSE y \in T : TRUE)
  OBVIOUS
<1>7. x \in T
  BY <1>5, <1>6
<1>8. h[T \ {x}] = g[T \ {x}]
  BY <1>3, <1>4, <1>7 DEF F
<1>9. h[T] = f[x] + h[T \ {x}] /\ g[T] = f[x] + g[T \ {x}]
  BY <1>4, <1>5, <1>6 DEF Totals
<1>10. QED
  BY <1>4, <1>8, <1>9

\* A sum is what such a function says.
LEMMA TotalIsGiven ==
  ASSUME NEW f, NEW S, IsFiniteSet(S), NEW g, Totals(f, S, g)
  PROVE  Total(f, S) = g[S]
<1>1. Total(f, S) = (CHOOSE h : Totals(f, S, h))[S]
  BY TotalDef DEF Totals
<1>2. Totals(f, S, CHOOSE h : Totals(f, S, h))
  OBVIOUS
<1>3. QED
  BY <1>1, <1>2, TotalsAgree

\* There is one for every finite set.
LEMMA TotalsExist ==
  ASSUME NEW f, NEW S, IsFiniteSet(S)
  PROVE  \E g : Totals(f, S, g)
<1> DEFINE F == {T \in SUBSET S : ~\E g : Totals(f, T, g)}
<1>1. SUFFICES ASSUME F # {} PROVE FALSE
  OBVIOUS
<1>2. F \in SUBSET (SUBSET S)
  OBVIOUS
<1> HIDE DEF F
<1>3. PICK T \in F : IsFiniteSet(T) /\ \A V \in SUBSET T : V # T => V \notin F
  BY <1>1, <1>2, SmallestSet
<1>4. T \in SUBSET S /\ ~\E g : Totals(f, T, g)
  BY <1>3 DEF F
<1>5. \A V \in SUBSET T : V # T => IsFiniteSet(V) /\ \E g : Totals(f, V, g)
  BY <1>3, <1>4, FS_Subset DEF F
<1> DEFINE g == [V \in SUBSET T |-> IF V = {} THEN 0 ELSE LET x == CHOOSE x \in V : TRUE IN f[x] + Total(f, V \ {x})]
<1>6. ASSUME NEW V \in SUBSET T, V # T PROVE g[V] = Total(f, V)
  <2>1. PICK h : Totals(f, V, h)
    BY <1>5, <1>6
  <2>2. IsFiniteSet(V) /\ Total(f, V) = h[V]
    BY <1>5, <1>6, <2>1, TotalIsGiven
  <2>3. CASE V = {}
    BY <2>1, <2>2, <2>3 DEF Totals
  <2>4. CASE V # {}
    <3>1. PICK x : x = CHOOSE y \in V : TRUE
      OBVIOUS
    <3>2. x \in V
      BY <2>4, <3>1
    <3>3. PICK k : Totals(f, V \ {x}, k)
      BY <1>5, <3>2
    <3>4. Total(f, V \ {x}) = k[V \ {x}] /\ k[V \ {x}] = h[V \ {x}]
      BY <2>1, <2>2, <3>3, TotalIsGiven, TotalsAgree, FS_Subset
    <3>5. h[V] = f[x] + h[V \ {x}]
      BY <2>1, <2>4, <3>1 DEF Totals
    <3>6. g[V] = f[x] + Total(f, V \ {x})
      BY <2>4, <3>1
    <3>7. QED
      BY <2>2, <3>4, <3>5, <3>6
  <2>5. QED
    BY <2>3, <2>4
<1>7. Totals(f, T, g)
  <2> DEFINE r == [V \in SUBSET T |-> IF V = {} THEN 0 ELSE LET x == CHOOSE x \in V : TRUE IN f[x] + g[V \ {x}]]
  <2>1. ASSUME NEW V \in SUBSET T PROVE g[V] = r[V]
    <3>1. CASE V = {}
      BY <3>1
    <3>2. CASE V # {}
      <4>1. PICK x : x = CHOOSE y \in V : TRUE
        OBVIOUS
      <4>2. x \in V
        BY <3>2, <4>1
      <4>3. g[V \ {x}] = Total(f, V \ {x})
        BY <1>6, <4>2
      <4>4. g[V] = f[x] + Total(f, V \ {x}) /\ r[V] = f[x] + g[V \ {x}]
        BY <3>2, <4>1
      <4>5. QED
        BY <4>3, <4>4
    <3>3. QED
      BY <3>1, <3>2
  <2>2. g = r
    BY <2>1
  <2>3. QED
    BY <2>2 DEF Totals
<1>8. QED
  BY <1>4, <1>7

\* A sum over nothing.
LEMMA TotalEmpty ==
  ASSUME NEW f PROVE Total(f, {}) = 0
<1>1. PICK g : Totals(f, {}, g)
  BY TotalsExist, FS_EmptySet
<1>2. Total(f, {}) = g[{}]
  BY <1>1, TotalIsGiven, FS_EmptySet
<1>3. QED
  BY <1>1, <1>2 DEF Totals

\* The fold takes out an element of its choice.
LEMMA TotalChosen ==
  ASSUME NEW f, NEW S, IsFiniteSet(S), S # {}
  PROVE  \E x \in S : Total(f, S) = f[x] + Total(f, S \ {x})
<1>1. PICK g : Totals(f, S, g)
  BY TotalsExist
<1>2. PICK x : x = CHOOSE y \in S : TRUE
  OBVIOUS
<1>3. x \in S
  BY <1>2
<1>4. IsFiniteSet(S \ {x})
  BY FS_Subset
<1>5. PICK h : Totals(f, S \ {x}, h)
  BY <1>4, TotalsExist
<1>6. Total(f, S) = g[S] /\ Total(f, S \ {x}) = h[S \ {x}] /\ h[S \ {x}] = g[S \ {x}]
  BY <1>1, <1>4, <1>5, TotalIsGiven, TotalsAgree
<1>7. g[S] = f[x] + g[S \ {x}]
  BY <1>1, <1>2 DEF Totals
<1>8. QED
  BY <1>3, <1>6, <1>7

\* Integers have an integer sum.
LEMMA TotalIsInt ==
  ASSUME NEW f, NEW S, IsFiniteSet(S), \A x \in S : f[x] \in Int
  PROVE  Total(f, S) \in Int
<1> DEFINE F == {T \in SUBSET S : Total(f, T) \notin Int}
<1>1. SUFFICES ASSUME F # {} PROVE FALSE
  OBVIOUS
<1>2. F \in SUBSET (SUBSET S)
  OBVIOUS
<1> HIDE DEF F
<1>3. PICK T \in F : IsFiniteSet(T) /\ \A V \in SUBSET T : V # T => V \notin F
  BY <1>1, <1>2, SmallestSet
<1>4. T \in SUBSET S /\ Total(f, T) \notin Int
  BY <1>3 DEF F
<1>5. T # {}
  BY <1>4, TotalEmpty
<1>6. PICK x \in T : Total(f, T) = f[x] + Total(f, T \ {x})
  BY <1>3, <1>5, TotalChosen
<1>7. Total(f, T \ {x}) \in Int
  BY <1>3, <1>4 DEF F
<1>8. QED
  BY <1>4, <1>6, <1>7

\* Any element can be taken out first.
LEMMA TotalTakeOut ==
  ASSUME NEW f, NEW S, IsFiniteSet(S), \A x \in S : f[x] \in Int, NEW a \in S
  PROVE  Total(f, S) = f[a] + Total(f, S \ {a})
<1> DEFINE F == {T \in SUBSET S : \E b \in T : Total(f, T) # f[b] + Total(f, T \ {b})}
<1>1. SUFFICES ASSUME F # {} PROVE FALSE
  OBVIOUS
<1>2. F \in SUBSET (SUBSET S)
  OBVIOUS
<1> HIDE DEF F
<1>3. PICK T \in F : IsFiniteSet(T) /\ \A V \in SUBSET T : V # T => V \notin F
  BY <1>1, <1>2, SmallestSet
<1>4. PICK b \in T : Total(f, T) # f[b] + Total(f, T \ {b})
  BY <1>3 DEF F
<1>5. PICK x \in T : Total(f, T) = f[x] + Total(f, T \ {x})
  BY <1>3, <1>4, TotalChosen
<1>6. x # b
  BY <1>4, <1>5
<1>7. Total(f, T \ {x}) = f[b] + Total(f, (T \ {x}) \ {b}) /\ Total(f, T \ {b}) = f[x] + Total(f, (T \ {b}) \ {x})
  BY <1>2, <1>3, <1>6 DEF F
<1>8. (T \ {x}) \ {b} = (T \ {b}) \ {x}
  OBVIOUS
<1>9. T \in SUBSET S /\ IsFiniteSet((T \ {b}) \ {x})
  BY <1>2, <1>3, FS_Subset
<1>10. f[x] \in Int /\ f[b] \in Int /\ Total(f, (T \ {b}) \ {x}) \in Int
  BY <1>9, TotalIsInt
<1>11. f[b] + (f[x] + Total(f, (T \ {b}) \ {x})) = f[x] + (f[b] + Total(f, (T \ {b}) \ {x}))
  BY <1>10
<1>12. QED
  BY <1>4, <1>5, <1>7, <1>8, <1>11

\* Equal terms, equal sums.
LEMMA TotalSame ==
  ASSUME NEW f, NEW g, NEW S, IsFiniteSet(S), \A x \in S : f[x] \in Int /\ g[x] = f[x]
  PROVE  Total(g, S) = Total(f, S)
<1> DEFINE F == {T \in SUBSET S : Total(g, T) # Total(f, T)}
<1>1. SUFFICES ASSUME F # {} PROVE FALSE
  OBVIOUS
<1>2. F \in SUBSET (SUBSET S)
  OBVIOUS
<1> HIDE DEF F
<1>3. PICK T \in F : IsFiniteSet(T) /\ \A V \in SUBSET T : V # T => V \notin F
  BY <1>1, <1>2, SmallestSet
<1>4. T \in SUBSET S /\ Total(g, T) # Total(f, T)
  BY <1>3 DEF F
<1>5. T # {}
  BY <1>4, TotalEmpty
<1>6. PICK x \in T : Total(f, T) = f[x] + Total(f, T \ {x})
  BY <1>3, <1>5, TotalChosen
<1>7. Total(g, T) = g[x] + Total(g, T \ {x})
  BY <1>3, <1>4, TotalTakeOut
<1>8. Total(g, T \ {x}) = Total(f, T \ {x})
  BY <1>3, <1>4 DEF F
<1>9. QED
  BY <1>4, <1>6, <1>7, <1>8

\* A count that is raised raises the sum by as much.
LEMMA TotalRaised ==
  ASSUME NEW f, IsFiniteSet(DOMAIN f), \A x \in DOMAIN f : f[x] \in Int, NEW t
  PROVE  LET g == Put(f, t, AtOr(f, t, 0) + 1)
         IN  /\ IsFiniteSet(DOMAIN g) /\ \A x \in DOMAIN g : g[x] \in Int
             /\ Total(g, DOMAIN g) = Total(f, DOMAIN f) + 1
<1> DEFINE g == Put(f, t, AtOr(f, t, 0) + 1)
           rest == DOMAIN f \ {t}
<1>1. DOMAIN g = DOMAIN f \cup {t} /\ t \in DOMAIN g /\ DOMAIN g \ {t} = rest
  BY DEF Put
<1>2. \A x \in DOMAIN g : g[x] = IF x = t THEN AtOr(f, t, 0) + 1 ELSE f[x]
  BY DEF Put
<1>3. AtOr(f, t, 0) \in Int
  BY DEF AtOr
<1>4. IsFiniteSet(DOMAIN g) /\ IsFiniteSet(rest)
  BY <1>1, FS_AddElement, FS_RemoveElement
<1>5. \A x \in DOMAIN g : g[x] \in Int
  BY <1>1, <1>2, <1>3
<1>6. \A x \in rest : f[x] \in Int /\ g[x] = f[x]
  BY <1>1, <1>2
<1>7. g[t] = AtOr(f, t, 0) + 1
  BY <1>1, <1>2
<1> HIDE DEF g, rest
<1>8. Total(g, rest) = Total(f, rest) /\ Total(f, rest) \in Int
  BY <1>4, <1>6, TotalSame, TotalIsInt
<1>9. Total(g, DOMAIN g) = g[t] + Total(g, rest)
  BY <1>1, <1>4, <1>5, TotalTakeOut
<1>10. Total(f, DOMAIN f) = AtOr(f, t, 0) + Total(f, rest)
  <2>1. CASE t \in DOMAIN f
    BY <2>1, TotalTakeOut DEF AtOr, rest
  <2>2. CASE t \notin DOMAIN f
    <3>1. rest = DOMAIN f /\ AtOr(f, t, 0) = 0
      BY <2>2 DEF AtOr, rest
    <3>2. QED
      BY <1>8, <3>1
  <2>3. QED
    BY <2>1, <2>2
<1>11. (AtOr(f, t, 0) + 1) + Total(f, rest) = (AtOr(f, t, 0) + Total(f, rest)) + 1
  BY <1>3, <1>8
<1>12. QED
  BY <1>4, <1>5, <1>7, <1>8, <1>9, <1>10, <1>11 DEF g

---------------------------------------------------------------------------
(* Payments *)

RealTeam(t) == t \notin {None, Empty}

\* The records that lead to a player's row, marking him or ordering for him.
Pays(e) ==
  \/ e.op = "mark-paid" /\ ~MarkPaidError(e)
  \/ e.op = "create-item-order" /\ None \notin {e.teamId, e.seasonId}

\* A player pays for a season always with a team or never: the records that pay
\* for him agree on that, not on the team.
TeamOrNever ==
  \A e, d \in Events :
    Pays(e) /\ Pays(d) /\ PlayerKey(e) = PlayerKey(d) => (RealTeam(e.teamId) <=> RealTeam(d.teamId))

\* Some record pays for the player of a key, with this team.
Origin(key, team) == \E e \in Events : Pays(e) /\ PlayerKey(e) = key /\ e.teamId = team

\* The continuations that are on their way to a team's count, and for whom.
Carries(s) ==
  \/ pc[s] = "paid@payment" /\ locals[s].bump
  \/ pc[s] \in {"paid@team", "confirm@team"}
CarriedKey(s) == IF pc[s] = "confirm@team" THEN PlayerKey(locals[s]) ELSE PlayerKey(event[s])

TeamKeys == {k \in DOMAIN playerSeasonPayment : RealTeam(playerSeasonPayment[k].teamId)}
DueKeys == {CarriedKey(s) : s \in {r \in Slots : Carries(r)}}

RowInv ==
  /\ IsFiniteSet(DOMAIN playerSeasonPayment)
  /\ \A k \in DOMAIN playerSeasonPayment :
       playerSeasonPayment[k].status \in Paid /\ Origin(k, playerSeasonPayment[k].teamId)

CarryInv ==
  /\ \A s \in Slots : Carries(s) => CarriedKey(s) \in TeamKeys
  /\ \A s, o \in Slots : Carries(s) /\ Carries(o) /\ CarriedKey(s) = CarriedKey(o) => s = o

\* The counts lack the players whose continuation has not arrived.
SumInv ==
  /\ IsFiniteSet(DOMAIN teamPaidCount) /\ \A t \in DOMAIN teamPaidCount : teamPaidCount[t] \in Int
  /\ Total(teamPaidCount, DOMAIN teamPaidCount) = Cardinality(TeamKeys \ DueKeys)

\* A completed order is in its player's row, or on its way there.
Settles(order) ==
  order.status = "COMPLETED" =>
    \/ PlayerKey(order) \in DOMAIN playerSeasonPayment
    \/ \E s \in Slots : pc[s] = "confirm@player" /\ PlayerKey(locals[s]) = PlayerKey(order)
OrderInv ==
  /\ \A o \in DOMAIN itemOrders :
       /\ {"steamId", "teamId", "seasonId", "status"} \subseteq DOMAIN itemOrders[o]
       /\ None \notin {itemOrders[o].teamId, itemOrders[o].seasonId}
          => Origin(PlayerKey(itemOrders[o]), itemOrders[o].teamId)
       /\ Settles(itemOrders[o])
  /\ \A s \in Slots : pc[s] = "confirm@player" => Origin(PlayerKey(locals[s]), locals[s].teamId)

PaymentInv == FlightsBySlot /\ RowInv /\ CarryInv /\ SumInv /\ OrderInv

\* Whether a player is counted does not depend on which of his records came.
LEMMA OriginsAgree ==
  ASSUME TeamOrNever, NEW k, NEW t, NEW u, Origin(k, t), Origin(k, u)
  PROVE  RealTeam(t) <=> RealTeam(u)
  BY DEF TeamOrNever, Origin

\* A row is written: by a player's first one with a team his count is due, by any
\* other nothing changes.  s is the slot that writes it, if any does.
LEMMA RowCounts ==
  ASSUME TeamOrNever, RowInv, CarryInv, SumInv, NEW k, NEW t, Origin(k, t), NEW st \in Paid, NEW src,
         playerSeasonPayment' = Put(playerSeasonPayment, k, Row(st, src, t)),
         UNCHANGED teamPaidCount,
         NEW others \in SUBSET Slots, \A s \in others : (Carries(s)' <=> Carries(s)) /\ CarriedKey(s)' = CarriedKey(s),
         \A s \in Slots \ others : ~Carries(s),
         \A s, o \in Slots \ others : s = o,
         \A s \in Slots \ others : Carries(s)' => CarriedKey(s)' = k,
         ShouldBump(k, st, t) <=> \E s \in Slots \ others : Carries(s)'
  PROVE  RowInv' /\ CarryInv' /\ SumInv'
<1>1. /\ DOMAIN playerSeasonPayment' = DOMAIN playerSeasonPayment \cup {k}
      /\ playerSeasonPayment'[k] = Row(st, src, t)
      /\ \A q \in DOMAIN playerSeasonPayment \ {k} : playerSeasonPayment'[q] = playerSeasonPayment[q]
  BY DEF Put
<1>2. playerSeasonPayment'[k].status = st /\ playerSeasonPayment'[k].teamId = t
  BY <1>1 DEF Row
<1>3. RowInv'
  BY <1>1, <1>2, FS_AddElement DEF RowInv, Origin, PlayerKey
<1>4. ShouldBump(k, st, t) <=> RealTeam(t) /\ k \notin DOMAIN playerSeasonPayment
  BY DEF ShouldBump, RealTeam, RowInv
<1>5. TeamKeys' = IF RealTeam(t) THEN TeamKeys \cup {k} ELSE TeamKeys
  <2>1. k \in DOMAIN playerSeasonPayment => (RealTeam(playerSeasonPayment[k].teamId) <=> RealTeam(t))
    BY OriginsAgree DEF RowInv
  <2>2. \A q \in DOMAIN playerSeasonPayment' \ {k} : q \in TeamKeys' <=> q \in TeamKeys
    BY <1>1 DEF TeamKeys, RealTeam
  <2>3. k \in TeamKeys' <=> RealTeam(t)
    BY <1>1, <1>2 DEF TeamKeys, RealTeam
  <2>4. ~RealTeam(t) => k \notin TeamKeys
    BY <2>1 DEF TeamKeys
  <2>5. TeamKeys \subseteq DOMAIN playerSeasonPayment /\ TeamKeys' \subseteq DOMAIN playerSeasonPayment'
    BY DEF TeamKeys
  <2>6. QED
    BY <1>1, <2>2, <2>3, <2>4, <2>5
<1>6. \A s \in Slots : Carries(s) => s \in others /\ Carries(s)' /\ CarriedKey(s)' = CarriedKey(s)
  OBVIOUS
<1>7. DueKeys' = IF ShouldBump(k, st, t) THEN DueKeys \cup {k} ELSE DueKeys
  <2>1. ASSUME NEW q \in DueKeys' PROVE q \in DueKeys \/ (q = k /\ ShouldBump(k, st, t))
    <3>1. PICK s \in Slots : Carries(s)' /\ q = CarriedKey(s)'
      BY DEF DueKeys
    <3>2. CASE s \in others
      <4>1. Carries(s) /\ q = CarriedKey(s)
        BY <3>1, <3>2
      <4>2. QED
        BY <4>1 DEF DueKeys
    <3>3. CASE s \notin others
      BY <3>1, <3>3
    <3>4. QED
      BY <3>2, <3>3
  <2>2. ASSUME NEW q \in DueKeys PROVE q \in DueKeys'
    BY <1>6 DEF DueKeys
  <2>3. ASSUME ShouldBump(k, st, t) PROVE k \in DueKeys'
    BY <2>3 DEF DueKeys
  <2>4. QED
    BY <2>1, <2>2, <2>3
<1>8. CarryInv'
  <2>1. ASSUME NEW s \in Slots, Carries(s)' PROVE CarriedKey(s)' \in TeamKeys'
    <3>1. CASE s \in others
      BY <1>5, <2>1, <3>1 DEF CarryInv
    <3>2. CASE s \notin others
      BY <1>4, <1>5, <2>1, <3>2
    <3>3. QED
      BY <3>1, <3>2
  <2>2. ASSUME NEW s \in Slots, NEW o \in Slots, Carries(s)', Carries(o)', CarriedKey(s)' = CarriedKey(o)'
        PROVE  s = o
    <3>1. CASE s \in others /\ o \in others
      BY <2>2, <3>1 DEF CarryInv
    <3>2. CASE s \notin others /\ o \notin others
      BY <3>2
    <3>3. CASE s \in others /\ o \notin others
      <4>1. CarriedKey(s) = k /\ Carries(s) /\ k \notin DOMAIN playerSeasonPayment
        BY <1>4, <2>2, <3>3
      <4>2. QED
        BY <4>1 DEF CarryInv, TeamKeys
    <3>4. CASE s \notin others /\ o \in others
      <4>1. CarriedKey(o) = k /\ Carries(o) /\ k \notin DOMAIN playerSeasonPayment
        BY <1>4, <2>2, <3>4
      <4>2. QED
        BY <4>1 DEF CarryInv, TeamKeys
    <3>5. QED
      BY <3>1, <3>2, <3>3, <3>4
  <2>3. QED
    BY <2>1, <2>2 DEF CarryInv
<1>9. TeamKeys' \ DueKeys' = TeamKeys \ DueKeys
  <2>1. TeamKeys \subseteq DOMAIN playerSeasonPayment
    BY DEF TeamKeys
  <2>2. DueKeys \subseteq TeamKeys
    BY DEF CarryInv, DueKeys
  <2>3. CASE ShouldBump(k, st, t)
    BY <1>4, <1>5, <1>7, <2>1, <2>2, <2>3
  <2>4. CASE ~ShouldBump(k, st, t)
    <3>1. RealTeam(t) => k \in TeamKeys
      BY <1>4, <2>4, OriginsAgree DEF RowInv, TeamKeys
    <3>2. QED
      BY <1>5, <1>7, <2>4, <3>1
  <2>5. QED
    BY <2>3, <2>4
<1>10. SumInv'
  BY <1>9 DEF SumInv
<1>11. QED
  BY <1>3, <1>8, <1>10

\* A count that was due is made.
LEMMA CountMade ==
  ASSUME RowInv, CarryInv, SumInv, NEW s \in Slots, Carries(s), ~Carries(s)', NEW team,
         teamPaidCount' = Bumped(team), UNCHANGED playerSeasonPayment,
         \A o \in Slots \ {s} : (Carries(o)' <=> Carries(o)) /\ CarriedKey(o)' = CarriedKey(o)
  PROVE  RowInv' /\ CarryInv' /\ SumInv'
<1>1. RowInv' /\ TeamKeys' = TeamKeys
  BY DEF RowInv, TeamKeys, Origin, PlayerKey, RealTeam
<1>2. CarryInv'
  BY <1>1 DEF CarryInv
<1>3. PICK k : k = CarriedKey(s)
  OBVIOUS
<1>4. DueKeys' = DueKeys \ {k} /\ k \in DueKeys /\ k \in TeamKeys
  <2>1. \A o \in Slots \ {s} : Carries(o) => CarriedKey(o) # k
    BY <1>3 DEF CarryInv
  <2>2. k \in DueKeys
    BY <1>3 DEF DueKeys
  <2>3. ASSUME NEW q \in DueKeys' PROVE q \in DueKeys \ {k}
    BY <2>1 DEF DueKeys
  <2>4. ASSUME NEW q \in DueKeys \ {k} PROVE q \in DueKeys'
    BY <1>3 DEF DueKeys
  <2>5. QED
    BY <1>3, <2>2, <2>3, <2>4 DEF CarryInv
<1>5. TeamKeys' \ DueKeys' = (TeamKeys \ DueKeys) \cup {k} /\ k \notin TeamKeys \ DueKeys
  BY <1>1, <1>4
<1>6. IsFiniteSet(TeamKeys \ DueKeys)
  <2>1. TeamKeys \ DueKeys \subseteq DOMAIN playerSeasonPayment
    BY DEF TeamKeys
  <2>2. QED
    BY <2>1, FS_Subset DEF RowInv
<1>7. Cardinality(TeamKeys' \ DueKeys') = Cardinality(TeamKeys \ DueKeys) + 1
  BY <1>5, <1>6, FS_AddElement
<1>8. SumInv'
  BY <1>7, TotalRaised DEF SumInv, Bumped
<1>9. QED
  BY <1>1, <1>2, <1>8

\* A step that touches neither rows nor counts, and leaves what is due.
LEMMA CountsKept ==
  ASSUME RowInv, CarryInv, SumInv, UNCHANGED <<playerSeasonPayment, teamPaidCount>>,
         \A s \in Slots : (Carries(s)' <=> Carries(s)) /\ (Carries(s) => CarriedKey(s)' = CarriedKey(s))
  PROVE  RowInv' /\ CarryInv' /\ SumInv'
<1>1. RowInv' /\ TeamKeys' = TeamKeys
  BY DEF RowInv, TeamKeys, Origin, PlayerKey, RealTeam
<1>2. DueKeys' = DueKeys
  BY DEF DueKeys
<1>3. QED
  BY <1>1, <1>2 DEF CarryInv, SumInv

---------------------------------------------------------------------------
(* The steps of the payments module. *)

\* A step of one slot leaves what the others carry.
LEMMA OthersCarry ==
  ASSUME NEW s \in Slots, Aside(s)
  PROVE  \A o \in Slots \ {s} : (Carries(o)' <=> Carries(o)) /\ CarriedKey(o)' = CarriedKey(o)
  BY DEF Aside, Carries, CarriedKey, PlayerKey

\* Orders stand when none is written, rows are only added, and no continuation of a
\* confirmed order stops before it has written its row.
LEMMA OrdersKept ==
  ASSUME OrderInv, UNCHANGED itemOrders, NEW s \in Slots, Aside(s), pc'[s] # "confirm@player",
         DOMAIN playerSeasonPayment \subseteq DOMAIN playerSeasonPayment',
         pc[s] = "confirm@player" => PlayerKey(locals[s]) \in DOMAIN playerSeasonPayment'
  PROVE  OrderInv'
<1>1. ASSUME NEW o \in DOMAIN itemOrders, Settles(itemOrders[o]) PROVE Settles(itemOrders[o])'
  <2>1. ASSUME NEW r \in Slots, pc[r] = "confirm@player", PlayerKey(locals[r]) = PlayerKey(itemOrders[o])
        PROVE  Settles(itemOrders[o])'
    <3>1. CASE r = s
      BY <2>1, <3>1 DEF Settles, PlayerKey
    <3>2. CASE r # s
      BY <2>1, <3>2 DEF Settles, PlayerKey, Aside
    <3>3. QED
      BY <3>1, <3>2
  <2>2. CASE PlayerKey(itemOrders[o]) \in DOMAIN playerSeasonPayment
    BY <2>2 DEF Settles, PlayerKey
  <2>3. CASE itemOrders[o].status # "COMPLETED"
    BY <2>3 DEF Settles
  <2>4. QED
    BY <1>1, <2>1, <2>2, <2>3 DEF Settles
<1>2. \A r \in Slots : pc'[r] = "confirm@player" => Origin(PlayerKey(locals'[r]), locals'[r].teamId)
  BY DEF OrderInv, Aside
<1>3. QED
  BY <1>1, <1>2 DEF OrderInv, Origin, PlayerKey

\* A player is marked, by an event that hops or by one that does not.
LEMMA MarkStep ==
  ASSUME TeamOrNever, PaymentInv, NEW s \in Slots, NEW e \in Events, MarkPaid(s, e)
  PROVE  PaymentInv'
<1> DEFINE k == PlayerKey(e)
           bump == ShouldBump(k, e.status, e.teamId)
<1>2. e.status \in Paid /\ Origin(k, e.teamId) /\ UNCHANGED <<teamPaidCount, itemOrders>>
      /\ playerSeasonPayment' = Put(playerSeasonPayment, k, Row(e.status, e.source, e.teamId))
  BY DEF MarkPaid, MarkPaidError, MarkedRow, Origin, Pays
<1>3. /\ FlightsBySlot' /\ Aside(s) /\ pc[s] = "idle" /\ event'[s] = e
      /\ \/ pc'[s] = "paid@payment" /\ locals'[s] = [bump |-> bump]
         \/ pc'[s] = "paid@team" /\ bump
  <2>1. \/ Launch(s, e, e.steamId, e.paymentId, "paid@payment", [bump |-> bump])
        \/ bump /\ Launch(s, e, e.steamId, e.teamId, "paid@team", NoLocals)
    BY Zenon DEF MarkPaid
  <2>2. CASE Launch(s, e, e.steamId, e.paymentId, "paid@payment", [bump |-> bump])
    <3>1. \E mem : mem = [bump |-> bump] /\ Launch(s, e, e.steamId, e.paymentId, "paid@payment", mem)
      <4> WITNESS [bump |-> bump]
      <4> QED
        BY <2>2, Zenon
    <3>2. PICK mem : mem = [bump |-> bump] /\ Launch(s, e, e.steamId, e.paymentId, "paid@payment", mem)
      BY <3>1, Zenon
    <3>3. Launch(s, e, e.steamId, e.paymentId, "paid@payment", mem)
      BY <3>2, Zenon
    <3>4. /\ FlightsBySlot' /\ Aside(s) /\ pc[s] = "idle" /\ event'[s] = e
          /\ pc'[s] = "paid@payment" /\ locals'[s] = mem
      <4>1. FlightsBySlot
        BY DEF PaymentInv
      <4>2. QED
        BY <3>3, <4>1 DEF FlightsBySlot, Launch, Enqueue, Aside, Idle
    <3>5. QED
      BY <3>2, <3>4, Zenon
  <2>3. CASE bump /\ Launch(s, e, e.steamId, e.teamId, "paid@team", NoLocals)
    BY <2>3, LaunchQueues DEF PaymentInv
  <2>4. QED
    BY <2>1, <2>2, <2>3
<1>4. ~Carries(s) /\ (bump <=> Carries(s)') /\ CarriedKey(s)' = k
  BY <1>3 DEF Carries, CarriedKey, PlayerKey
<1>5. RowInv' /\ CarryInv' /\ SumInv'
  <2> DEFINE others == Slots \ {s}
  <2>1. \A o \in others : (Carries(o)' <=> Carries(o)) /\ CarriedKey(o)' = CarriedKey(o)
    BY <1>3, OthersCarry
  <2>2. Slots \ others = {s}
    OBVIOUS
  <2> HIDE DEF others
  <2>3. others \in SUBSET Slots
    BY DEF others
  <2>4. QED
    BY <1>2, <1>4, <2>1, <2>2, <2>3, RowCounts DEF PaymentInv
<1>6. OrderInv'
  <2>1. DOMAIN playerSeasonPayment \subseteq DOMAIN playerSeasonPayment'
    BY <1>2 DEF Put
  <2>2. QED
    BY <1>2, <1>3, <2>1, OrdersKept DEF PaymentInv
<1>7. QED
  BY <1>3, <1>5, <1>6 DEF PaymentInv

\* A mark that ends where it began: only the row is written.
LEMMA MarkLocalStep ==
  ASSUME TeamOrNever, PaymentInv, NEW e \in Events, MarkPaidLocally(e)
  PROVE  PaymentInv'
<1> DEFINE k == PlayerKey(e)
<1>1. /\ e.status \in Paid /\ Origin(k, e.teamId) /\ UNCHANGED <<flightVars, teamPaidCount, itemOrders>>
      /\ playerSeasonPayment' = Put(playerSeasonPayment, k, Row(e.status, e.source, e.teamId))
      /\ ~ShouldBump(k, e.status, e.teamId)
  BY DEF MarkPaidLocally, MarkPaidError, MarkedRow, Origin, Pays
<1>2. FlightsBySlot' /\ \A s \in Slots : (Carries(s)' <=> Carries(s)) /\ CarriedKey(s)' = CarriedKey(s)
  BY <1>1 DEF PaymentInv, FlightsBySlot, flightVars, Carries, CarriedKey, PlayerKey
<1>3. RowInv' /\ CarryInv' /\ SumInv'
  <2>1. Slots \in SUBSET Slots /\ Slots \ Slots = {}
    OBVIOUS
  <2>2. QED
    BY <1>1, <1>2, <2>1, RowCounts DEF PaymentInv
<1>4. OrderInv'
  <2>1. DOMAIN playerSeasonPayment \subseteq DOMAIN playerSeasonPayment'
    BY <1>1 DEF Put
  <2>2. QED
    BY <1>1, <2>1, Zenon DEF PaymentInv, OrderInv, Settles, Origin, PlayerKey, flightVars
<1>5. QED
  BY <1>2, <1>3, <1>4 DEF PaymentInv

\* The ledger entry is made; what is due is still due.
LEMMA LedgerStep ==
  ASSUME PaymentInv, NEW s \in Slots, PaidLedger(s)
  PROVE  PaymentInv'
<1>1. /\ pc[s] = "paid@payment" /\ UNCHANGED <<playerSeasonPayment, teamPaidCount, itemOrders>>
      /\ IF locals[s].bump THEN Hop(s, event[s].teamId, "paid@team", NoLocals) ELSE Finish(s)
  BY DEF PaidLedger, Ready
<1>2. /\ FlightsBySlot' /\ Aside(s)
      /\ \/ locals[s].bump /\ pc'[s] = "paid@team" /\ event'[s] = event[s]
         \/ ~locals[s].bump /\ pc'[s] = "idle"
  <2>1. FlightsBySlot
    BY DEF PaymentInv
  <2>2. CASE locals[s].bump
    BY <1>1, <2>1, <2>2, HopQueues
  <2>3. CASE ~locals[s].bump
    BY <1>1, <2>1, <2>3, FinishQueues
  <2>4. QED
    BY <2>2, <2>3
<1>3. \A o \in Slots : (Carries(o)' <=> Carries(o)) /\ (Carries(o) => CarriedKey(o)' = CarriedKey(o))
  <2>1. (Carries(s)' <=> Carries(s)) /\ (Carries(s) => CarriedKey(s)' = CarriedKey(s))
    BY <1>1, <1>2 DEF Carries, CarriedKey, PlayerKey
  <2>2. QED
    BY <1>2, <2>1, OthersCarry
<1>4. RowInv' /\ CarryInv' /\ SumInv'
  BY <1>1, <1>3, CountsKept DEF PaymentInv
<1>5. OrderInv'
  BY <1>1, <1>2, OrdersKept DEF PaymentInv
<1>6. QED
  BY <1>2, <1>4, <1>5 DEF PaymentInv

\* A team's count is raised, for a mark or for an order.
LEMMA CountStep ==
  ASSUME PaymentInv, NEW s \in Slots, PaidCount(s) \/ ConfirmCount(s)
  PROVE  PaymentInv'
<1>1. /\ pc[s] \in {"paid@team", "confirm@team"} /\ Finish(s) /\ UNCHANGED <<playerSeasonPayment, itemOrders>>
      /\ \E team : teamPaidCount' = Bumped(team)
  BY DEF PaidCount, ConfirmCount, Ready
<1>2. FlightsBySlot' /\ Aside(s) /\ pc'[s] = "idle"
  BY <1>1, FinishQueues DEF PaymentInv
<1>3. Carries(s) /\ ~Carries(s)'
  BY <1>1, <1>2 DEF Carries
<1>4. RowInv' /\ CarryInv' /\ SumInv'
  BY <1>1, <1>2, <1>3, OthersCarry, CountMade DEF PaymentInv
<1>5. OrderInv'
  BY <1>1, <1>2, OrdersKept DEF PaymentInv
<1>6. QED
  BY <1>2, <1>4, <1>5 DEF PaymentInv

\* The player of a confirmed order is paid; his team's count is due if he was not.
LEMMA ConfirmStep ==
  ASSUME TeamOrNever, PaymentInv, NEW s \in Slots, ConfirmPaid(s)
  PROVE  PaymentInv'
<1> DEFINE order == locals[s]
           k == PlayerKey(order)
           bump == ShouldBump(k, "PAID", order.teamId)
<1>1. /\ pc[s] = "confirm@player" /\ UNCHANGED <<teamPaidCount, itemOrders>>
      /\ playerSeasonPayment' = Put(playerSeasonPayment, k, Row("PAID", "ITEM", order.teamId))
      /\ IF bump THEN Hop(s, order.teamId, "confirm@team", order) ELSE Finish(s)
  BY DEF ConfirmPaid, Ready
<1>2. Origin(k, order.teamId)
  BY <1>1 DEF PaymentInv, OrderInv
<1>3. /\ FlightsBySlot' /\ Aside(s)
      /\ \/ bump /\ pc'[s] = "confirm@team" /\ locals'[s] = order
         \/ ~bump /\ pc'[s] = "idle"
  <2>1. FlightsBySlot
    BY DEF PaymentInv
  <2>2. CASE bump
    <3>1. Hop(s, order.teamId, "confirm@team", order)
      BY <1>1, <2>2
    <3>2. QED
      BY <2>1, <2>2, <3>1 DEF FlightsBySlot, Hop, Enqueue, Aside
  <2>3. CASE ~bump
    BY <1>1, <2>1, <2>3, FinishQueues
  <2>4. QED
    BY <2>2, <2>3
<1>4. ~Carries(s) /\ (bump <=> Carries(s)') /\ (Carries(s)' => CarriedKey(s)' = k)
  BY <1>1, <1>3 DEF Carries, CarriedKey, PlayerKey
<1>5. RowInv' /\ CarryInv' /\ SumInv'
  <2> DEFINE others == Slots \ {s}
  <2>1. \A o \in others : (Carries(o)' <=> Carries(o)) /\ CarriedKey(o)' = CarriedKey(o)
    BY <1>3, OthersCarry
  <2>2. Slots \ others = {s} /\ "PAID" \in Paid
    BY DEF Paid
  <2> HIDE DEF others
  <2>3. others \in SUBSET Slots
    BY DEF others
  <2>4. QED
    BY <1>1, <1>2, <1>4, <2>1, <2>2, <2>3, RowCounts DEF PaymentInv
<1>6. OrderInv'
  <2>1. DOMAIN playerSeasonPayment \subseteq DOMAIN playerSeasonPayment' /\ k \in DOMAIN playerSeasonPayment'
    BY <1>1 DEF Put
  <2>2. QED
    BY <1>1, <1>3, <2>1, OrdersKept DEF PaymentInv
<1>7. QED
  BY <1>3, <1>5, <1>6 DEF PaymentInv

\* An order is placed or expires: it is not complete, the others stand.
LEMMA OrderStep ==
  ASSUME PaymentInv, NEW e \in Events, CreateItemOrder(e) \/ ExpireItemOrder(e)
  PROVE  PaymentInv'
<1>1. UNCHANGED <<flightVars, playerSeasonPayment, teamPaidCount>>
  BY DEF CreateItemOrder, ExpireItemOrder
<1>2. FlightsBySlot' /\ \A s \in Slots : (Carries(s)' <=> Carries(s)) /\ CarriedKey(s)' = CarriedKey(s)
  BY <1>1 DEF PaymentInv, FlightsBySlot, flightVars, Carries, CarriedKey, PlayerKey
<1>3. RowInv' /\ CarryInv' /\ SumInv'
  BY <1>1, <1>2, CountsKept DEF PaymentInv
<1>4. \A o \in DOMAIN itemOrders' :
        /\ {"steamId", "teamId", "seasonId", "status"} \subseteq DOMAIN itemOrders'[o]
        /\ None \notin {itemOrders'[o].teamId, itemOrders'[o].seasonId}
           => Origin(PlayerKey(itemOrders'[o]), itemOrders'[o].teamId)
        /\ itemOrders'[o].status = "COMPLETED" => o \in DOMAIN itemOrders /\ itemOrders'[o] = itemOrders[o]
  <2>1. CASE CreateItemOrder(e)
    <3>1. None \notin {e.teamId, e.seasonId} => Origin(PlayerKey(e), e.teamId)
      BY <2>1 DEF CreateItemOrder, Origin, Pays
    <3>2. itemOrders' = Put(itemOrders, e.orderId,
            [steamId |-> e.steamId, teamId |-> e.teamId, seasonId |-> e.seasonId, status |-> "PENDING"])
      BY <2>1 DEF CreateItemOrder
    <3>3. QED
      BY <3>1, <3>2 DEF Put, PaymentInv, OrderInv, PlayerKey
  <2>2. CASE ExpireItemOrder(e)
    BY <2>2 DEF ExpireItemOrder, OrderActionError, OrderStatus, PaymentInv, OrderInv, Origin, PlayerKey
  <2>3. QED
    BY <2>1, <2>2
<1>5. OrderInv'
  BY <1>1, <1>4 DEF PaymentInv, OrderInv, Settles, Origin, PlayerKey, flightVars
<1>6. QED
  BY <1>2, <1>3, <1>5 DEF PaymentInv

\* An order is confirmed: it is on its way to its player's row.
LEMMA ConfirmOrderStep ==
  ASSUME PaymentInv, NEW s \in Slots, NEW e \in Events, ConfirmItemOrder(s, e)
  PROVE  PaymentInv'
<1> DEFINE order == itemOrders[e.orderId]
<1>1. /\ e.orderId \in DOMAIN itemOrders /\ UNCHANGED <<playerSeasonPayment, teamPaidCount>>
      /\ None \notin {order.teamId, order.seasonId}
      /\ itemOrders' = [itemOrders EXCEPT ![e.orderId].status = "COMPLETED"]
      /\ Launch(s, e, e.orderId, order.steamId, "confirm@player", order)
  BY DEF ConfirmItemOrder, OrderActionError, OrderStatus
<1>2. /\ FlightsBySlot' /\ Aside(s) /\ pc[s] = "idle"
      /\ pc'[s] = "confirm@player" /\ locals'[s] = order
  <2>1. FlightsBySlot
    BY DEF PaymentInv
  <2>2. QED
    BY <1>1, <2>1 DEF FlightsBySlot, Launch, Enqueue, Aside, Idle
<1>3. \A o \in Slots : (Carries(o)' <=> Carries(o)) /\ (Carries(o) => CarriedKey(o)' = CarriedKey(o))
  <2>1. ~Carries(s) /\ ~Carries(s)'
    BY <1>2 DEF Carries
  <2>2. QED
    BY <1>2, <2>1, OthersCarry
<1>4. RowInv' /\ CarryInv' /\ SumInv'
  BY <1>1, <1>3, CountsKept DEF PaymentInv
<1>5. /\ DOMAIN itemOrders' = DOMAIN itemOrders
      /\ \A o \in DOMAIN itemOrders :
           /\ DOMAIN itemOrders'[o] = DOMAIN itemOrders[o]
           /\ PlayerKey(itemOrders'[o]) = PlayerKey(itemOrders[o])
           /\ itemOrders'[o].teamId = itemOrders[o].teamId /\ itemOrders'[o].seasonId = itemOrders[o].seasonId
           /\ o # e.orderId => itemOrders'[o] = itemOrders[o]
  BY <1>1 DEF PaymentInv, OrderInv, PlayerKey
<1>6. ASSUME NEW o \in DOMAIN itemOrders PROVE Settles(itemOrders[o])'
  <2>1. CASE o = e.orderId
    BY <1>2, <1>5, <2>1 DEF Settles
  <2>2. CASE o # e.orderId
    <3>1. itemOrders'[o] = itemOrders[o] /\ Settles(itemOrders[o])
      BY <1>5, <2>2 DEF PaymentInv, OrderInv
    <3>2. \A r \in Slots : pc[r] = "confirm@player" => pc'[r] = "confirm@player" /\ locals'[r] = locals[r]
      BY <1>2 DEF Aside
    <3>3. QED
      BY <1>1, <3>1, <3>2 DEF Settles, PlayerKey
  <2>3. QED
    BY <2>1, <2>2
<1>7. \A r \in Slots : pc'[r] = "confirm@player" => Origin(PlayerKey(locals'[r]), locals'[r].teamId)
  <2>1. Origin(PlayerKey(order), order.teamId)
    BY <1>1 DEF PaymentInv, OrderInv
  <2>2. QED
    BY <1>2, <2>1 DEF PaymentInv, OrderInv, Aside
<1>8. OrderInv'
  <2>1. \A o \in DOMAIN itemOrders' : Settles(itemOrders[o])'
    BY <1>5, <1>6
  <2>2. \A o \in DOMAIN itemOrders' :
          /\ {"steamId", "teamId", "seasonId", "status"} \subseteq DOMAIN itemOrders'[o]
          /\ None \notin {itemOrders'[o].teamId, itemOrders'[o].seasonId}
             => Origin(PlayerKey(itemOrders'[o]), itemOrders'[o].teamId)
    BY <1>5 DEF PaymentInv, OrderInv
  <2>3. QED
    BY <1>7, <2>1, <2>2 DEF OrderInv, Origin, PlayerKey
<1>9. QED
  BY <1>2, <1>4, <1>8 DEF PaymentInv

\* Nothing is paid at the start.
LEMMA PaymentsInit == Init => PaymentInv
<1> SUFFICES ASSUME Init PROVE PaymentInv
  OBVIOUS
<1>1. /\ DOMAIN playerSeasonPayment = {} /\ DOMAIN teamPaidCount = {} /\ DOMAIN itemOrders = {}
      /\ \A s \in Slots : pc[s] = "idle"
  BY DEF Init, FlightInit
<1>2. FlightsBySlot
  BY DEF Init, FlightInit, FlightsBySlot
<1>3. RowInv /\ OrderInv
  BY <1>1, FS_EmptySet DEF RowInv, OrderInv
<1>4. TeamKeys = {} /\ DueKeys = {} /\ CarryInv
  BY <1>1 DEF TeamKeys, DueKeys, Carries, CarryInv
<1>5. SumInv
  BY <1>1, <1>4, FS_EmptySet, TotalEmpty DEF SumInv
<1>6. QED
  BY <1>2, <1>3, <1>4, <1>5 DEF PaymentInv

\* Every step keeps it.
LEMMA PaymentsStep ==
  ASSUME TeamOrNever, PaymentInv, [Next]_vars
  PROVE  PaymentInv'
<1>1. ASSUME NEW s \in Slots, NEW e \in Events, Submit(s, e) PROVE PaymentInv'
  BY <1>1, MarkStep, ConfirmOrderStep DEF Submit
<1>2. ASSUME NEW s \in Slots, Resume(s) PROVE PaymentInv'
  BY <1>2, LedgerStep, CountStep, ConfirmStep DEF Resume
<1>3. ASSUME NEW e \in Events, SubmitLocal(e) PROVE PaymentInv'
  BY <1>3, MarkLocalStep, OrderStep DEF SubmitLocal
<1>4. CASE UNCHANGED vars
  <2>1. UNCHANGED <<flightVars, playerSeasonPayment, teamPaidCount, itemOrders>>
    BY <1>4 DEF vars, storeVars
  <2>2. FlightsBySlot' /\ \A s \in Slots : (Carries(s)' <=> Carries(s)) /\ CarriedKey(s)' = CarriedKey(s)
    BY <2>1 DEF PaymentInv, FlightsBySlot, flightVars, Carries, CarriedKey, PlayerKey
  <2>3. RowInv' /\ CarryInv' /\ SumInv'
    BY <2>1, <2>2, CountsKept DEF PaymentInv
  <2>4. OrderInv'
    BY <2>1, Zenon DEF PaymentInv, OrderInv, Settles, Origin, PlayerKey, flightVars
  <2>5. QED
    BY <2>2, <2>3, <2>4 DEF PaymentInv
<1>5. QED
  BY <1>1, <1>2, <1>3, <1>4 DEF Next

\* At rest nothing is due, so the counts are complete.
LEMMA PaidAtRest == PaymentInv => PlayerCountsOnce
<1> SUFFICES ASSUME PaymentInv, Quiescent PROVE PlayerCountsOnce
  BY DEF PlayerCountsOnce
<1>1. \A s \in Slots : pc[s] = "idle"
  BY DEF Quiescent, Idle
<1>2. DueKeys = {}
  BY <1>1 DEF DueKeys, Carries
<1>3. TeamKeys \ DueKeys = {k \in DOMAIN playerSeasonPayment : playerSeasonPayment[k].teamId \notin {None, Empty}}
  BY <1>2 DEF TeamKeys, RealTeam
<1>4. MapThenSumSet(LAMBDA t : teamPaidCount[t], DOMAIN teamPaidCount) = Cardinality(TeamKeys \ DueKeys)
  BY DEF PaymentInv, SumInv, Total
<1>5. \A o \in DOMAIN itemOrders :
         itemOrders[o].status = "COMPLETED" => PlayerKey(itemOrders[o]) \in DOMAIN playerSeasonPayment
  BY <1>1 DEF PaymentInv, OrderInv, Settles
<1>6. QED
  BY <1>3, <1>4, <1>5, Zenon DEF PlayerCountsOnce

\* Once everything is answered the paid counts of all teams together are the
\* players who paid with a team, once each, and a completed order is in its row.
THEOREM PlayersCountedOnce ==
  ASSUME TeamOrNever
  PROVE  Spec => []PlayerCountsOnce
<1>1. PaymentInv /\ [Next]_vars => PaymentInv'
  BY PaymentsStep
<1>2. QED
  BY PaymentsInit, PaidAtRest, <1>1, PTL DEF Spec
=============================================================================
