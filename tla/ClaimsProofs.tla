---------------------------- MODULE ClaimsProofs -----------------------------
(***************************************************************************)
(* No two seasons of a region and format have one number, and no two       *)
(* formats one code, for any slots, placement of keys and depot records,   *)
(* racing in any way.  Both modules claim a key in an index before they    *)
(* write the row that relies on it, and so implement NameRegistry.         *)
(***************************************************************************)
EXTENDS SeasonsModule, FormatRows, TLAPS

VARIABLES regions, regionIds, formatIds, activeSignup

Catalog == INSTANCE CatalogModule

FlightShape == pc = [s \in Slots |-> pc[s]] /\ event = [s \in Slots |-> event[s]]

\* An index gives a key to an owner.
Gives(index, key, i) == key \in DOMAIN index /\ index[key] = i

\* Claims are never lost: a key that is free or the owner's own is written, and
\* no other owner loses its keys.
LEMMA ClaimKeepsClaims ==
  ASSUME NEW index, NEW key, NEW i, AtOr(index, key, i) = i
  PROVE  /\ Gives(Put(index, key, i), key, i)
         /\ \A k, j : Gives(index, k, j) => Gives(Put(index, key, i), k, j)
<1>1. key \in DOMAIN index => index[key] = i
  BY DEF AtOr
<1>2. Gives(Put(index, key, i), key, i)
  BY DEF Gives, Put
<1>3. ASSUME NEW k, NEW j, Gives(index, k, j) PROVE Gives(Put(index, key, i), k, j)
  <2>1. CASE k = key
    BY <1>1, <1>2, <1>3, <2>1 DEF Gives
  <2>2. CASE k # key
    BY <1>3, <2>2 DEF Gives, Put
  <2>3. QED
    BY <2>1, <2>2
<1>4. QED
  BY <1>2, <1>3

\* An index as the claims of a registry, and rows, by the names they hold, as
\* its holds.
Entries(index) == {[owner |-> index[k], name |-> k] : k \in DOMAIN index}
Rows(names) == {[owner |-> i, name |-> names[i]] : i \in DOMAIN names}

\* Writing a free or an own key adds one claim, which nobody else has.
LEMMA PutIsClaim ==
  ASSUME NEW index, NEW key, NEW i, AtOr(index, key, i) = i
  PROVE  /\ Entries(Put(index, key, i)) = Entries(index) \cup {[owner |-> i, name |-> key]}
         /\ \A d \in Entries(index) : d.name = key => d.owner = i
<1>1. key \in DOMAIN index => index[key] = i
  BY DEF AtOr
<1>2. /\ DOMAIN Put(index, key, i) = DOMAIN index \cup {key} /\ Put(index, key, i)[key] = i
      /\ \A k \in DOMAIN index : Put(index, key, i)[k] = index[k]
  BY <1>1 DEF Put
<1>3. QED
  BY <1>1, <1>2 DEF Entries

\* Writing a row's name leaves the other rows theirs.
LEMMA PutIsHold ==
  ASSUME NEW names, NEW i, NEW key
  PROVE  Rows(Put(names, i, key)) = {h \in Rows(names) : h.owner # i} \cup {[owner |-> i, name |-> key]}
<1>1. /\ DOMAIN Put(names, i, key) = DOMAIN names \cup {i} /\ Put(names, i, key)[i] = key
      /\ \A j \in DOMAIN names \ {i} : Put(names, i, key)[j] = names[j]
  BY DEF Put
<1>2. QED
  BY <1>1 DEF Rows

---------------------------------------------------------------------------
(* Seasons *)

\* A number is claimed for a season.
Claimed(key, i) == Gives(seasonIndex, key, i)

\* A row on its way follows its claim.
RowsFollowClaims ==
  \A s \in Slots : pc[s] = "season@row" => Claimed(NumberKey(event[s]), event[s].seasonId)

\* A stored row has the claim, under a number that its fields spell.
RowsAreClaimed ==
  \A i \in DOMAIN seasons :
    /\ {"seasonNum", "regionId", "formatId"} \subseteq DOMAIN seasons[i]
    /\ Claimed(NumberKey(seasons[i]), i)

ClaimInv == FlightShape /\ RowsFollowClaims /\ RowsAreClaimed

\* create-season keeps the invariant until its claim is made.
LEMMA CreateStep ==
  ASSUME ClaimInv, NEW s \in Slots, NEW e \in Events, CreateSeason(s, e)
  PROVE  ClaimInv'
<1>1. FlightShape' /\ pc'[s] = "season@region" /\ \A o \in Slots \ {s} : pc'[o] = pc[o] /\ event'[o] = event[o]
  BY DEF ClaimInv, FlightShape, CreateSeason, Launch
<1>2. UNCHANGED storeVars
  BY DEF CreateSeason
<1>3. QED
  BY <1>1, <1>2 DEF ClaimInv, RowsFollowClaims, RowsAreClaimed, Claimed, Gives, NumberKey, storeVars

\* The claim, or the refusal.
LEMMA ClaimStep ==
  ASSUME ClaimInv, NEW s \in Slots, CreateClaim(s)
  PROVE  ClaimInv'
<1>0. PICK e : e = event[s]
  OBVIOUS
<1>1. seasons' = seasons
  BY DEF CreateClaim
<1>2. CASE UniquenessError(e)
  <2>1. FlightShape' /\ pc'[s] = "idle" /\ \A o \in Slots \ {s} : pc'[o] = pc[o] /\ event'[o] = event[o]
    BY <1>0, <1>2 DEF ClaimInv, FlightShape, CreateClaim, Finish
  <2>2. seasonIndex' = seasonIndex
    BY <1>0, <1>2 DEF CreateClaim
  <2>3. QED
    BY <1>1, <2>1, <2>2 DEF ClaimInv, RowsFollowClaims, RowsAreClaimed, Claimed, Gives, NumberKey
<1>3. CASE ~UniquenessError(e)
  <2>1. FlightShape' /\ event' = event /\ \A o \in Slots \ {s} : pc'[o] = pc[o]
    BY <1>0, <1>3 DEF ClaimInv, FlightShape, CreateClaim, Hop
  <2>2. seasonIndex' = Put(seasonIndex, NumberKey(e), e.seasonId)
    BY <1>0, <1>3 DEF CreateClaim
  <2>3. PICK key, i : key = NumberKey(e) /\ i = e.seasonId
    OBVIOUS
  <2>4. Claimed(key, i)' /\ \A k, j : Claimed(k, j) => Claimed(k, j)'
    <3>1. AtOr(seasonIndex, key, i) = i /\ seasonIndex' = Put(seasonIndex, key, i)
      BY <1>3, <2>2, <2>3 DEF UniquenessError
    <3>2. QED
      BY <3>1, ClaimKeepsClaims DEF Claimed, Gives
  <2>5. RowsFollowClaims'
    BY <1>0, <2>1, <2>3, <2>4 DEF ClaimInv, RowsFollowClaims, NumberKey
  <2>6. RowsAreClaimed'
    BY <1>1, <2>4 DEF ClaimInv, RowsAreClaimed, NumberKey
  <2>7. QED
    BY <2>1, <2>5, <2>6 DEF ClaimInv
<1>4. QED
  BY <1>2, <1>3

\* The row, written under the claim that the continuation follows.
LEMMA RowStep ==
  ASSUME ClaimInv, NEW s \in Slots, CreateRow(s)
  PROVE  ClaimInv'
<1> DEFINE e == event[s]
<1>1. FlightShape' /\ pc'[s] = "season@all" /\ event' = event /\ \A o \in Slots \ {s} : pc'[o] = pc[o]
  BY DEF ClaimInv, FlightShape, CreateRow, Hop
<1>2. seasonIndex' = seasonIndex /\ seasons' = Put(seasons, e.seasonId, NewSeason(e))
  BY DEF CreateRow
<1>3. Claimed(NumberKey(e), e.seasonId)
  BY DEF CreateRow, Ready, ClaimInv, RowsFollowClaims
<1>4. /\ {"seasonNum", "regionId", "formatId"} \subseteq DOMAIN NewSeason(e)
      /\ NumberKey(NewSeason(e)) = NumberKey(e)
  BY DEF NewSeason, NumberKey
<1>5. RowsFollowClaims'
  BY <1>1, <1>2 DEF ClaimInv, RowsFollowClaims, Claimed, Gives, NumberKey
<1>6. RowsAreClaimed'
  <2> SUFFICES ASSUME NEW i \in DOMAIN seasons'
               PROVE  /\ {"seasonNum", "regionId", "formatId"} \subseteq DOMAIN seasons'[i]
                      /\ Claimed(NumberKey(seasons'[i]), i)
    BY <1>2 DEF RowsAreClaimed, Claimed, Gives, NumberKey
  <2>1. CASE i = e.seasonId
    BY <1>2, <1>3, <1>4, <2>1 DEF Put
  <2>2. CASE i # e.seasonId
    <3>1. i \in DOMAIN seasons /\ seasons'[i] = seasons[i]
      BY <1>2, <2>2 DEF Put
    <3>2. QED
      BY <3>1 DEF ClaimInv, RowsAreClaimed
  <2>3. QED
    BY <2>1, <2>2
<1>7. QED
  BY <1>1, <1>5, <1>6 DEF ClaimInv

\* The list of ids does not touch rows or claims.
LEMMA ListStep ==
  ASSUME ClaimInv, NEW s \in Slots, CreateList(s)
  PROVE  ClaimInv'
<1>1. FlightShape' /\ pc'[s] = "idle" /\ \A o \in Slots \ {s} : pc'[o] = pc[o] /\ event'[o] = event[o]
  BY DEF ClaimInv, FlightShape, CreateList, Finish
<1>2. UNCHANGED <<seasons, seasonIndex>>
  BY DEF CreateList
<1>3. QED
  BY <1>1, <1>2 DEF ClaimInv, RowsFollowClaims, RowsAreClaimed, Claimed, Gives, NumberKey

\* The hop-free ops keep the rows and their numbers.
LEMMA FieldsKeepNumbers ==
  ASSUME ClaimInv, NEW e \in Events, SubmitLocal(e)
  PROVE  /\ UNCHANGED <<flightVars, seasonIndex>> /\ DOMAIN seasons' = DOMAIN seasons
         /\ \A i \in DOMAIN seasons :
              /\ DOMAIN seasons'[i] = DOMAIN seasons[i]
              /\ NumberKey(seasons'[i]) = NumberKey(seasons[i])
<1>1. UNCHANGED <<flightVars, seasonIndex>> /\ e.seasonId \in DOMAIN seasons
  BY DEF SubmitLocal, SetFlags, SetSchedule, SetInfo, UpdateSeason, Changed
<1>2. PICK row : /\ seasons' = [seasons EXCEPT ![e.seasonId] = row]
                 /\ DOMAIN row = DOMAIN seasons[e.seasonId]
                 /\ \A f \in {"seasonNum", "regionId", "formatId"} \cap DOMAIN row : row[f] = seasons[e.seasonId][f]
  <2>1. CASE SetFlags(e)
    BY <2>1 DEF SetFlags, Changed
  <2>2. CASE SetSchedule(e)
    BY <2>2 DEF SetSchedule, Changed
  <2>3. CASE SetInfo(e)
    BY <2>3 DEF SetInfo, Changed
  <2>4. CASE UpdateSeason(e)
    BY <2>4 DEF UpdateSeason, Changed
  <2>5. QED
    BY <2>1, <2>2, <2>3, <2>4 DEF SubmitLocal
<1>3. ASSUME NEW i \in DOMAIN seasons
      PROVE  /\ DOMAIN seasons'[i] = DOMAIN seasons[i]
             /\ NumberKey(seasons'[i]) = NumberKey(seasons[i])
  <2>1. CASE i = e.seasonId
    <3>1. seasons'[i] = row /\ {"seasonNum", "regionId", "formatId"} \subseteq DOMAIN row
      BY <1>2, <2>1 DEF ClaimInv, RowsAreClaimed
    <3>2. QED
      BY <1>2, <2>1, <3>1 DEF NumberKey
  <2>2. CASE i # e.seasonId
    BY <1>2, <2>2
  <2>3. QED
    BY <2>1, <2>2
<1>4. QED
  BY <1>1, <1>2, <1>3

\* The hop-free ops keep the invariant.
LEMMA FieldStep ==
  ASSUME ClaimInv, NEW e \in Events, SubmitLocal(e)
  PROVE  ClaimInv'
<1>1. RowsAreClaimed'
  BY FieldsKeepNumbers DEF ClaimInv, RowsAreClaimed, Claimed, Gives, NumberKey
<1>2. FlightShape' /\ RowsFollowClaims'
  BY FieldsKeepNumbers DEF ClaimInv, FlightShape, RowsFollowClaims, Claimed, Gives, NumberKey, flightVars
<1>3. QED
  BY <1>1, <1>2 DEF ClaimInv

\* Every step keeps the invariant.
LEMMA ClaimNext == ClaimInv /\ [Next]_vars => ClaimInv'
<1> SUFFICES ASSUME ClaimInv, [Next]_vars PROVE ClaimInv'
  OBVIOUS
<1>1. ASSUME NEW s \in Slots, NEW e \in Events, Submit(s, e) PROVE ClaimInv'
  BY <1>1, CreateStep DEF Submit
<1>2. ASSUME NEW s \in Slots, Resume(s) PROVE ClaimInv'
  BY <1>2, ClaimStep, RowStep, ListStep DEF Resume
<1>3. ASSUME NEW e \in Events, SubmitLocal(e) PROVE ClaimInv'
  BY <1>3, FieldStep
<1>4. CASE UNCHANGED vars
  BY <1>4 DEF vars, flightVars, storeVars, ClaimInv, FlightShape, RowsFollowClaims, RowsAreClaimed, Claimed, Gives, NumberKey
<1>5. QED
  BY <1>1, <1>2, <1>3, <1>4 DEF Next

\* Numbers are unique: a row is written only under a claim, a claim is never
\* given away, and one number has one claim.
THEOREM NumbersUnique == Spec => []SeasonNumberUnique
<1>1. Init => ClaimInv
  BY DEF Init, FlightInit, ClaimInv, FlightShape, RowsFollowClaims, RowsAreClaimed
<1>2. ClaimInv => SeasonNumberUnique
  BY DEF ClaimInv, RowsAreClaimed, Claimed, Gives, SeasonNumberUnique
<1>3. QED
  BY <1>1, <1>2, ClaimNext, PTL DEF Spec

\* The numbers of the rows.
RowNumbers == [i \in DOMAIN seasons |-> NumberKey(seasons[i])]

\* The claims and holds of the registry, before and after a step.
NumberRegistry ==
  /\ {[owner |-> seasonIndex[k], name |-> k] : k \in DOMAIN seasonIndex} = Entries(seasonIndex)
  /\ {[owner |-> i, name |-> NumberKey(seasons[i])] : i \in DOMAIN seasons} = Rows(RowNumbers)

LEMMA NumbersAre == NumberRegistry /\ NumberRegistry'
<1>1. DOMAIN RowNumbers = DOMAIN seasons /\ \A i \in DOMAIN seasons : RowNumbers[i] = NumberKey(seasons[i])
  BY DEF RowNumbers
<1>2. NumberRegistry
  BY <1>1 DEF NumberRegistry, Entries, Rows
<1>3. QED
  BY <1>2, PTL

\* The claim is a claim of the registry.
LEMMA ClaimRegisters ==
  ASSUME NEW s \in Slots, CreateClaim(s)
  PROVE  [Numbers!Lasting]_(Numbers!vars)
<1>0. PICK e, key, i : e = event[s] /\ key = NumberKey(e) /\ i = e.seasonId
  OBVIOUS
<1>1. seasons' = seasons
  BY DEF CreateClaim
<1>2. CASE UniquenessError(e)
  BY <1>0, <1>1, <1>2 DEF CreateClaim, Numbers!vars
<1>3. CASE ~UniquenessError(e)
  <2>1. AtOr(seasonIndex, key, i) = i /\ seasonIndex' = Put(seasonIndex, key, i)
    BY <1>0, <1>3 DEF CreateClaim, UniquenessError
  <2>2. PICK c : c = [owner |-> i, name |-> key]
    OBVIOUS
  <2>3. /\ Entries(seasonIndex') = Entries(seasonIndex) \cup {c}
        /\ \A d \in Entries(seasonIndex) : d.name = c.name => d.owner = c.owner
    BY <2>1, <2>2, PutIsClaim
  <2>4. Numbers!Claim(c)
    BY <1>1, <2>3 DEF Numbers!Claim, Entries
  <2>5. QED
    BY <2>3, <2>4 DEF Numbers!Lasting, Entries
<1>4. QED
  BY <1>2, <1>3

\* The row is written with a number that is claimed for it.
LEMMA RowRegisters ==
  ASSUME ClaimInv, NEW s \in Slots, CreateRow(s)
  PROVE  [Numbers!Lasting]_(Numbers!vars)
<1>0. PICK e, key, i : e = event[s] /\ key = NumberKey(e) /\ i = e.seasonId
  OBVIOUS
<1>1. seasonIndex' = seasonIndex /\ seasons' = Put(seasons, i, NewSeason(e))
  BY <1>0 DEF CreateRow
<1>2. PICK c : c = [owner |-> i, name |-> key]
  OBVIOUS
<1>3. Gives(seasonIndex, key, i)
  BY <1>0 DEF CreateRow, Ready, ClaimInv, RowsFollowClaims, Claimed
<1>4. c \in Entries(seasonIndex)
  BY <1>2, <1>3 DEF Gives, Entries
<1>5. NumberKey(NewSeason(e)) = key
  BY <1>0 DEF NewSeason, NumberKey
<1>6. RowNumbers' = Put(RowNumbers, i, key)
  BY <1>1, <1>5 DEF RowNumbers, Put
<1>7. Rows(RowNumbers)' = {h \in Rows(RowNumbers) : h.owner # c.owner} \cup {c}
  BY <1>2, <1>6, PutIsHold
<1>8. Numbers!Hold(c)
  BY <1>1, <1>4, <1>7, NumbersAre DEF Numbers!Hold, NumberRegistry
<1>9. QED
  BY <1>4, <1>8, NumbersAre DEF Numbers!Lasting, NumberRegistry

\* Every step is a step of the registry or leaves it alone.
LEMMA NumbersStep == ClaimInv /\ [Next]_vars => [Numbers!Lasting]_(Numbers!vars)
<1> SUFFICES ASSUME ClaimInv, [Next]_vars PROVE [Numbers!Lasting]_(Numbers!vars)
  OBVIOUS
<1>1. ASSUME UNCHANGED <<seasons, seasonIndex>> PROVE UNCHANGED Numbers!vars
  BY <1>1 DEF Numbers!vars
<1>2. ASSUME NEW s \in Slots, NEW e \in Events, Submit(s, e) PROVE UNCHANGED <<seasons, seasonIndex>>
  BY <1>2 DEF Submit, CreateSeason, storeVars
<1>3. ASSUME NEW s \in Slots, Resume(s) PROVE [Numbers!Lasting]_(Numbers!vars)
  BY <1>1, <1>3, ClaimRegisters, RowRegisters DEF Resume, CreateList
<1>4. ASSUME NEW e \in Events, SubmitLocal(e) PROVE UNCHANGED Numbers!vars
  <2>1. RowNumbers' = RowNumbers /\ seasonIndex' = seasonIndex
    BY <1>4, FieldsKeepNumbers DEF RowNumbers
  <2>2. Rows(RowNumbers)' = Rows(RowNumbers) /\ Entries(seasonIndex)' = Entries(seasonIndex)
    BY <2>1
  <2>3. QED
    BY <2>2, NumbersAre DEF Numbers!vars, NumberRegistry
<1>5. CASE UNCHANGED vars
  BY <1>1, <1>5 DEF vars, storeVars
<1>6. QED
  BY <1>1, <1>2, <1>3, <1>4, <1>5 DEF Next

\* The seasons are a registry of their numbers: claimed before they are held,
\* and for good.
THEOREM NumbersRegistered == Spec => NumbersAreRegistered
<1>1. Init => ClaimInv
  BY DEF Init, FlightInit, ClaimInv, FlightShape, RowsFollowClaims, RowsAreClaimed
<1>2. Init => Numbers!RegistryInit
  BY DEF Init, Numbers!RegistryInit
<1>3. QED
  BY <1>1, <1>2, ClaimNext, NumbersStep, PTL DEF Spec, NumbersAreRegistered, Numbers!LastingSpec

\* README.md:56 again, from the registry alone: where claims are for good and
\* come before the rows, one number has one row.
THEOREM RegisteredNumbersUnique == NumbersAreRegistered => []SeasonNumberUnique
<1>1. Numbers!RegistryInit => Numbers!HoldsAreClaimed
  BY DEF Numbers!RegistryInit, Numbers!HoldsAreClaimed
<1>2. Numbers!HoldsAreClaimed /\ [Numbers!Lasting]_(Numbers!vars) => Numbers!HoldsAreClaimed'
  BY DEF Numbers!HoldsAreClaimed, Numbers!Lasting, Numbers!Claim, Numbers!Hold, Numbers!vars
<1>3. ASSUME Numbers!HoldsAreClaimed, NEW i \in DOMAIN seasons PROVE seasonIndex[NumberKey(seasons[i])] = i
  <2>1. [owner |-> i, name |-> NumberKey(seasons[i])] \in {[owner |-> seasonIndex[k], name |-> k] : k \in DOMAIN seasonIndex}
    BY <1>3 DEF Numbers!HoldsAreClaimed
  <2>2. PICK k \in DOMAIN seasonIndex : [owner |-> i, name |-> NumberKey(seasons[i])] = [owner |-> seasonIndex[k], name |-> k]
    BY <2>1
  <2>3. i = seasonIndex[k] /\ NumberKey(seasons[i]) = k
    BY <2>2
  <2>4. QED
    BY <2>3
<1>4. Numbers!HoldsAreClaimed => SeasonNumberUnique
  BY <1>3 DEF SeasonNumberUnique
<1>5. QED
  BY <1>1, <1>2, <1>4, PTL DEF NumbersAreRegistered, Numbers!LastingSpec

---------------------------------------------------------------------------
(* Formats *)

\* A code is claimed for a format.
Coded(code, f) == Gives(formatByCode, code, f)

\* A row on its way follows its claim.
FormatsFollowCodes == \A s \in Slots : pc[s] = "format@row" => Coded(event[s].code, event[s].formatId)

\* A stored row has the claim of its code.
FormatsAreCoded == \A f \in DOMAIN formats : Coded(formats[f].code, f)

CodeInv == FlightShape /\ FormatsFollowCodes /\ FormatsAreCoded

\* What starts is no row on its way.
LEMMA UpsertStep ==
  ASSUME CodeInv, NEW s \in Slots, NEW e \in Events, Catalog!Submit(s, e)
  PROVE  CodeInv'
<1>1. /\ FlightShape' /\ pc'[s] \in {"region@all", "format@code"}
      /\ \A o \in Slots \ {s} : pc'[o] = pc[o] /\ event'[o] = event[o]
  BY DEF CodeInv, FlightShape, Catalog!Submit, Catalog!UpsertRegion, Catalog!UpsertFormat, Catalog!Launch
<1>2. UNCHANGED <<formats, formatByCode>>
  BY DEF Catalog!Submit, Catalog!UpsertRegion, Catalog!UpsertFormat, Catalog!storeVars
<1>3. QED
  BY <1>1, <1>2 DEF CodeInv, FormatsFollowCodes, FormatsAreCoded, Coded, Gives

\* The claim, or the refusal.
LEMMA CodeStep ==
  ASSUME CodeInv, NEW s \in Slots, Catalog!ClaimCode(s)
  PROVE  CodeInv'
<1>0. PICK e : e = event[s]
  OBVIOUS
<1>1. formats' = formats
  BY DEF Catalog!ClaimCode
<1>2. CASE Catalog!FormatCodeTakenError(e)
  <2>1. FlightShape' /\ pc'[s] = "idle" /\ \A o \in Slots \ {s} : pc'[o] = pc[o] /\ event'[o] = event[o]
    BY <1>0, <1>2 DEF CodeInv, FlightShape, Catalog!ClaimCode, Catalog!Finish
  <2>2. formatByCode' = formatByCode
    BY <1>0, <1>2 DEF Catalog!ClaimCode
  <2>3. QED
    BY <1>1, <2>1, <2>2 DEF CodeInv, FormatsFollowCodes, FormatsAreCoded, Coded, Gives
<1>3. CASE ~Catalog!FormatCodeTakenError(e)
  <2>1. FlightShape' /\ event' = event /\ \A o \in Slots \ {s} : pc'[o] = pc[o]
    BY <1>0, <1>3 DEF CodeInv, FlightShape, Catalog!ClaimCode, Catalog!Hop
  <2>2. PICK code, f : code = e.code /\ f = e.formatId
    OBVIOUS
  <2>3. Coded(code, f)' /\ \A c, g : Coded(c, g) => Coded(c, g)'
    <3>1. AtOr(formatByCode, code, f) = f
      BY <1>3, <2>2 DEF Catalog!FormatCodeTakenError, Catalog!AtOr, AtOr
    <3>2. formatByCode' = Put(formatByCode, code, f)
      BY <1>0, <1>3, <2>2 DEF Catalog!ClaimCode, Catalog!Put, Put
    <3>3. QED
      BY <3>1, <3>2, ClaimKeepsClaims DEF Coded, Gives
  <2>4. FormatsFollowCodes'
    BY <1>0, <2>1, <2>2, <2>3 DEF CodeInv, FormatsFollowCodes
  <2>5. FormatsAreCoded'
    BY <1>1, <2>3 DEF CodeInv, FormatsAreCoded
  <2>6. QED
    BY <2>1, <2>4, <2>5 DEF CodeInv
<1>4. QED
  BY <1>2, <1>3

\* The row, written under the claim that the continuation follows.
LEMMA FormatStep ==
  ASSUME CodeInv, NEW s \in Slots, Catalog!FormatRow(s)
  PROVE  CodeInv'
<1> DEFINE e == event[s]
<1>1. FlightShape' /\ pc'[s] = "format@all" /\ event' = event /\ \A o \in Slots \ {s} : pc'[o] = pc[o]
  BY DEF CodeInv, FlightShape, Catalog!FormatRow, Catalog!Hop
<1>2. formatByCode' = formatByCode /\ formats' = Catalog!Put(formats, e.formatId, [name |-> e.name, code |-> e.code])
  BY DEF Catalog!FormatRow
<1>3. Coded(e.code, e.formatId)
  BY DEF Catalog!FormatRow, Catalog!Ready, CodeInv, FormatsFollowCodes
<1>4. FormatsFollowCodes'
  BY <1>1, <1>2 DEF CodeInv, FormatsFollowCodes, Coded, Gives
<1>5. FormatsAreCoded'
  BY <1>2, <1>3 DEF CodeInv, FormatsAreCoded, Coded, Gives, Catalog!Put
<1>6. QED
  BY <1>1, <1>4, <1>5 DEF CodeInv

\* The lists of ids do not touch rows or claims.
LEMMA ListsStep ==
  ASSUME CodeInv, NEW s \in Slots, Catalog!ListRegion(s) \/ Catalog!ListFormat(s)
  PROVE  CodeInv'
<1>1. FlightShape' /\ pc'[s] = "idle" /\ \A o \in Slots \ {s} : pc'[o] = pc[o] /\ event'[o] = event[o]
  BY DEF CodeInv, FlightShape, Catalog!ListRegion, Catalog!ListFormat, Catalog!Finish
<1>2. UNCHANGED <<formats, formatByCode>>
  BY DEF Catalog!ListRegion, Catalog!ListFormat
<1>3. QED
  BY <1>1, <1>2 DEF CodeInv, FormatsFollowCodes, FormatsAreCoded, Coded, Gives

\* Every step keeps the invariant.
LEMMA CodeNext == CodeInv /\ [Catalog!Next]_(Catalog!vars) => CodeInv'
<1> SUFFICES ASSUME CodeInv, [Catalog!Next]_(Catalog!vars) PROVE CodeInv'
  OBVIOUS
<1>1. ASSUME NEW s \in Slots, NEW e \in Events, Catalog!Submit(s, e) PROVE CodeInv'
  BY <1>1, UpsertStep
<1>2. ASSUME NEW s \in Slots, Catalog!Resume(s) PROVE CodeInv'
  BY <1>2, CodeStep, FormatStep, ListsStep DEF Catalog!Resume
<1>3. ASSUME NEW e \in Events, Catalog!SubmitLocal(e) PROVE CodeInv'
  <2>1. UNCHANGED <<pc, event, formats, formatByCode>>
    BY <1>3 DEF Catalog!SubmitLocal, Catalog!SetRegionHidden, Catalog!SetActiveSignup, Catalog!flightVars
  <2>2. QED
    BY <2>1 DEF CodeInv, FlightShape, FormatsFollowCodes, FormatsAreCoded, Coded, Gives
<1>4. CASE UNCHANGED Catalog!vars
  BY <1>4 DEF Catalog!vars, Catalog!flightVars, Catalog!storeVars, CodeInv, FlightShape, FormatsFollowCodes, FormatsAreCoded, Coded, Gives
<1>5. QED
  BY <1>1, <1>2, <1>3, <1>4 DEF Catalog!Next

\* Codes are unique: a row is written only under the claim of its code, and a
\* code has one claim, which is never given away, not even when its format
\* takes another code.
THEOREM CodesUnique == Catalog!Spec => []FormatCodeUnique
<1>1. Catalog!Init => CodeInv
  BY DEF Catalog!Init, Catalog!FlightInit, CodeInv, FlightShape, FormatsFollowCodes, FormatsAreCoded
<1>2. CodeInv => FormatCodeUnique
  BY DEF CodeInv, FormatsAreCoded, Coded, Gives, FormatCodeUnique
<1>3. QED
  BY <1>1, <1>2, CodeNext, PTL DEF Catalog!Spec

\* The codes of the rows.
RowCodes == [f \in DOMAIN formats |-> formats[f].code]

\* The claims and holds of the registry, before and after a step.
CodeRegistry ==
  /\ {[owner |-> formatByCode[k], name |-> k] : k \in DOMAIN formatByCode} = Entries(formatByCode)
  /\ {[owner |-> f, name |-> formats[f].code] : f \in DOMAIN formats} = Rows(RowCodes)

LEMMA CodesAre == CodeRegistry /\ CodeRegistry'
<1>1. DOMAIN RowCodes = DOMAIN formats /\ \A f \in DOMAIN formats : RowCodes[f] = formats[f].code
  BY DEF RowCodes
<1>2. CodeRegistry
  BY <1>1 DEF CodeRegistry, Entries, Rows
<1>3. QED
  BY <1>2, PTL

\* The claim is a claim of the registry.
LEMMA CodeRegisters ==
  ASSUME NEW s \in Slots, Catalog!ClaimCode(s)
  PROVE  [Codes!Lasting]_(Codes!vars)
<1>0. PICK e, code, f : e = event[s] /\ code = e.code /\ f = e.formatId
  OBVIOUS
<1>1. formats' = formats
  BY DEF Catalog!ClaimCode
<1>2. CASE Catalog!FormatCodeTakenError(e)
  BY <1>0, <1>1, <1>2 DEF Catalog!ClaimCode, Codes!vars
<1>3. CASE ~Catalog!FormatCodeTakenError(e)
  <2>1. AtOr(formatByCode, code, f) = f
    BY <1>0, <1>3 DEF Catalog!FormatCodeTakenError, Catalog!AtOr, AtOr
  <2>2. formatByCode' = Put(formatByCode, code, f)
    BY <1>0, <1>3 DEF Catalog!ClaimCode, Catalog!Put, Put
  <2>3. PICK c : c = [owner |-> f, name |-> code]
    OBVIOUS
  <2>4. /\ Entries(formatByCode') = Entries(formatByCode) \cup {c}
        /\ \A d \in Entries(formatByCode) : d.name = c.name => d.owner = c.owner
    BY <2>1, <2>2, <2>3, PutIsClaim
  <2>5. Codes!Claim(c)
    BY <1>1, <2>4 DEF Codes!Claim, Entries
  <2>6. QED
    BY <2>4, <2>5 DEF Codes!Lasting, Entries
<1>4. QED
  BY <1>2, <1>3

\* The row is written with a code that is claimed for it, over its old code.
LEMMA FormatRegisters ==
  ASSUME CodeInv, NEW s \in Slots, Catalog!FormatRow(s)
  PROVE  [Codes!Lasting]_(Codes!vars)
<1>0. PICK e, code, f : e = event[s] /\ code = e.code /\ f = e.formatId
  OBVIOUS
<1>1. formatByCode' = formatByCode /\ formats' = Put(formats, f, [name |-> e.name, code |-> code])
  BY <1>0 DEF Catalog!FormatRow, Catalog!Put, Put
<1>2. PICK c : c = [owner |-> f, name |-> code]
  OBVIOUS
<1>3. Gives(formatByCode, code, f)
  BY <1>0 DEF Catalog!FormatRow, Catalog!Ready, CodeInv, FormatsFollowCodes, Coded
<1>4. c \in Entries(formatByCode)
  BY <1>2, <1>3 DEF Gives, Entries
<1>5. RowCodes' = Put(RowCodes, f, code)
  BY <1>1 DEF RowCodes, Put
<1>6. Rows(RowCodes)' = {h \in Rows(RowCodes) : h.owner # c.owner} \cup {c}
  BY <1>2, <1>5, PutIsHold
<1>7. Codes!Hold(c)
  BY <1>1, <1>4, <1>6, CodesAre DEF Codes!Hold, CodeRegistry
<1>8. QED
  BY <1>4, <1>7, CodesAre DEF Codes!Lasting, CodeRegistry

\* Every step is a step of the registry or leaves it alone.
LEMMA CodesStep == CodeInv /\ [Catalog!Next]_(Catalog!vars) => [Codes!Lasting]_(Codes!vars)
<1> SUFFICES ASSUME CodeInv, [Catalog!Next]_(Catalog!vars) PROVE [Codes!Lasting]_(Codes!vars)
  OBVIOUS
<1>1. ASSUME UNCHANGED <<formats, formatByCode>> PROVE UNCHANGED Codes!vars
  BY <1>1 DEF Codes!vars
<1>2. ASSUME NEW s \in Slots, NEW e \in Events, Catalog!Submit(s, e) PROVE UNCHANGED <<formats, formatByCode>>
  BY <1>2 DEF Catalog!Submit, Catalog!UpsertRegion, Catalog!UpsertFormat, Catalog!storeVars
<1>3. ASSUME NEW s \in Slots, Catalog!Resume(s) PROVE [Codes!Lasting]_(Codes!vars)
  BY <1>1, <1>3, CodeRegisters, FormatRegisters DEF Catalog!Resume, Catalog!ListRegion, Catalog!ListFormat
<1>4. ASSUME NEW e \in Events, Catalog!SubmitLocal(e) PROVE UNCHANGED <<formats, formatByCode>>
  BY <1>4 DEF Catalog!SubmitLocal, Catalog!SetRegionHidden, Catalog!SetActiveSignup
<1>5. CASE UNCHANGED Catalog!vars
  BY <1>1, <1>5 DEF Catalog!vars, Catalog!storeVars
<1>6. QED
  BY <1>1, <1>2, <1>3, <1>4, <1>5 DEF Catalog!Next

\* The formats are a registry of their codes: claimed before they are held,
\* and for good, also when a format takes another code.
THEOREM CodesRegistered == Catalog!Spec => CodesAreRegistered
<1>1. Catalog!Init => CodeInv
  BY DEF Catalog!Init, Catalog!FlightInit, CodeInv, FlightShape, FormatsFollowCodes, FormatsAreCoded
<1>2. Catalog!Init => Codes!RegistryInit
  BY DEF Catalog!Init, Codes!RegistryInit
<1>3. QED
  BY <1>1, <1>2, CodeNext, CodesStep, PTL DEF Catalog!Spec, CodesAreRegistered, Codes!LastingSpec

\* README.md:208 again, from the registry alone: one code has one row.
THEOREM RegisteredCodesUnique == CodesAreRegistered => []FormatCodeUnique
<1>1. Codes!RegistryInit => Codes!HoldsAreClaimed
  BY DEF Codes!RegistryInit, Codes!HoldsAreClaimed
<1>2. Codes!HoldsAreClaimed /\ [Codes!Lasting]_(Codes!vars) => Codes!HoldsAreClaimed'
  BY DEF Codes!HoldsAreClaimed, Codes!Lasting, Codes!Claim, Codes!Hold, Codes!vars
<1>3. ASSUME Codes!HoldsAreClaimed, NEW i \in DOMAIN formats PROVE formatByCode[formats[i].code] = i
  <2>1. [owner |-> i, name |-> formats[i].code] \in {[owner |-> formatByCode[k], name |-> k] : k \in DOMAIN formatByCode}
    BY <1>3 DEF Codes!HoldsAreClaimed
  <2>2. PICK k \in DOMAIN formatByCode : [owner |-> i, name |-> formats[i].code] = [owner |-> formatByCode[k], name |-> k]
    BY <2>1
  <2>3. i = formatByCode[k] /\ formats[i].code = k
    BY <2>2
  <2>4. QED
    BY <2>3
<1>4. Codes!HoldsAreClaimed => FormatCodeUnique
  BY <1>3 DEF FormatCodeUnique
<1>5. QED
  BY <1>1, <1>2, <1>4, PTL DEF CodesAreRegistered, Codes!LastingSpec
=============================================================================
