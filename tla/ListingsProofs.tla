--------------------------- MODULE ListingsProofs ---------------------------
(***************************************************************************)
(* What a walk through a list guarantees, proved for any table, any number *)
(* of writers, any page and any clock.                                     *)
(*                                                                         *)
(* Between two pages there is a cut of the list, with what was shown on    *)
(* one side and what is to come on the other.  A cursor is a key, and cuts *)
(* the list whatever others do; an offset is a number of rows, and is the  *)
(* same cut only while no row comes before it, leaves or moves, and only   *)
(* for the rows that are on a par with no other.                           *)
(***************************************************************************)
EXTENDS Listings, TLAPS, FiniteSetTheorems

States == {"there", "out", "none"}

Writes == [op: {"insert", "update"}, id: Ids, key: Nat]

TypeOK ==
    /\ kind \in Kinds /\ ascending \in BOOLEAN /\ (kind \in Details => ascending = FALSE)
    /\ now \in Nat
    /\ row \in [Ids -> [key: Nat, state: States]]
    /\ write \in [Writers -> Writes \union {NoWrite, Written}]
    /\ phase \in {"start", "walking", "counted", "latest", "ended", "refused"}
    /\ cursor \in [key: Nat, id: Ids] \union {NoCursor}
    /\ offset \in Nat
    /\ counted \subseteq Ids
    /\ seen \in Seq(SUBSET Ids)
    /\ tied \subseteq Ids /\ (kind # "tasks" => tied = {})
    /\ stable \subseteq Visible
    /\ moved \subseteq Ids
    /\ changes \subseteq {"came", "torn", "left"}

\* The rows that are there, or were.
Known == {i \in Ids : row[i].state # "none"}

\* What has been computed and not committed: an identifier that is inserted is new, and no one
\* else's; only some lists are updated.
WritesOK ==
    \A w \in Pending :
        /\ write[w].op = "update" => kind \in Editable
        /\ write[w].op = "insert" =>
               /\ write[w].id \notin Known
               /\ \A v \in Pending : write[v].op = "insert" /\ write[v].id = write[w].id => v = w

\* Where a walk, and a read of several statements, can be.
PhaseOK ==
    /\ phase = "start" => seen = <<>> /\ cursor = NoCursor /\ offset = 0
    /\ kind \in Paged => phase \in {"start", "walking", "ended"}
    /\ kind \in Records => phase \in {"start", "walking", "counted", "ended", "refused"}
    /\ kind \in Details =>
           /\ phase \in {"start", "counted", "latest", "ended"}
           /\ phase = "counted" => seen = <<>>
           /\ phase = "latest" => Len(seen) = 1
           /\ phase = "ended" => Len(seen) = IF kind = "summary" THEN 2 ELSE 1

KnownOK == counted \subseteq Known /\ \A i \in Ids : Showing(i) # {} => i \in Known

\* A cursor cuts the list: before it what was shown, after it what was not.
CursorOK ==
    kind \in Paged =>
        /\ \A i \in Ids \ moved : Cardinality(Showing(i)) <= 1
        /\ phase = "walking" =>
               /\ cursor # NoCursor
               /\ \A i \in Ids \ moved : Showing(i) # {} => ~After(i)
               /\ \A i \in stable : Showing(i) # {} \/ After(i)
        /\ phase = "ended" => \A i \in stable : Showing(i) # {}

\* An offset cuts it too, but for the rows on a par, as long as no row comes or moves,
OffsetShown ==
    kind \in Records /\ "came" \notin changes /\ moved = {} =>
        \A i \in Ids \ tied :
            /\ Cardinality(Showing(i)) <= 1
            /\ Showing(i) # {} /\ i \in Visible => Place(i, Visible) < offset

\* or no row leaves or moves, nor comes between the count and the page.
OffsetLeft ==
    kind \in Records /\ changes \intersect {"left", "torn"} = {} /\ moved = {} =>
        /\ phase = "counted" => counted = Visible
        /\ phase \in {"walking", "counted"} =>
               \A i \in stable \ tied : Showing(i) # {} \/ Place(i, Visible) >= offset
        /\ phase = "ended" => \A i \in stable \ tied : Showing(i) # {}

\* A message that is later than the latest was not counted, and an inbound one that is later
\* than the latest inbound one was not counted, nor the latest.
DetailOK ==
    kind \in Details =>
        /\ phase \in {"latest", "ended"} =>
               \A i \in counted \intersect Visible : \E x \in seen[1] : NotLater(i, x)
        /\ kind = "summary" /\ phase = "ended" =>
               \A i \in (counted \union seen[1]) \intersect Visible \intersect Inbound :
                   \E x \in seen[2] : NotLater(i, x)

\* The inductive invariant.
IInv ==
    /\ TypeOK
    /\ WritesOK
    /\ PhaseOK
    /\ KnownOK
    /\ CursorOK
    /\ OffsetShown
    /\ OffsetLeft
    /\ DetailOK

-----------------------------------------------------------------------------
(* Finite sets, and the order of a list.                                    *)

LEMMA Parameters ==
    /\ Ids \subseteq Nat /\ IsFiniteSet(Ids) /\ Inbound \subseteq Ids
    /\ NoCursor \notin [key: Nat, id: Nat]
    BY ListingsAssumption

LEMMA SizeOK ==
    ASSUME TypeOK
    PROVE  Size \in Nat /\ Size >= 1
    BY ListingsAssumption DEF TypeOK, Size

LEMMA RowsFinite ==
    ASSUME NEW S \in SUBSET Ids
    PROVE  IsFiniteSet(S) /\ Cardinality(S) \in Nat
    BY Parameters, FS_Subset, FS_CardinalityType

LEMMA Least ==
    ASSUME NEW S \in SUBSET Nat, S # {}
    PROVE  \E f \in S : \A n \in S : f <= n
<1>1. PICK f \in S : \A n \in S : ~(<<n, f>> \in OpToRel(<, Nat))
    BY NatLessThanWellFounded, WFMin
<1>2. \A n \in S : ~(n < f)
    BY <1>1 DEF OpToRel
<1> QED
    BY <1>2

\* The rows of a list are in a strict order, and a total one but for tasks.
LEMMA TotalOrder ==
    ASSUME TypeOK
    PROVE  /\ \A i \in Ids : ~Precedes(i, i)
           /\ \A i, j, k \in Ids : Precedes(i, j) /\ Precedes(j, k) => Precedes(i, k)
           /\ kind # "tasks" => \A i, j \in Ids : i = j \/ Precedes(i, j) \/ Precedes(j, i)
<1>1. \A i \in Ids : i \in Nat /\ row[i].key \in Nat
    BY Parameters DEF TypeOK
<1>2. \A i \in Ids : ~Precedes(i, i)
    BY <1>1 DEF Precedes
<1>3. \A i, j, k \in Ids : Precedes(i, j) /\ Precedes(j, k) => Precedes(i, k)
    BY <1>1 DEF Precedes
<1>4. kind # "tasks" => \A i, j \in Ids : i = j \/ Precedes(i, j) \/ Precedes(j, i)
    BY <1>1 DEF Precedes
<1> QED
    BY <1>2, <1>3, <1>4

\* A place is less than the number of the rows, and they are in the order of their places.
LEMMA PlaceBound ==
    ASSUME TypeOK, NEW S \in SUBSET Ids, NEW i \in S
    PROVE  Place(i, S) \in Nat /\ Place(i, S) < Cardinality(S)
<1>1. IsFiniteSet(S) /\ Cardinality(S) \in Nat /\ i \in Ids
    BY RowsFinite
<1>2. {j \in S : Precedes(j, i)} \in SUBSET (S \ {i})
    BY <1>1, TotalOrder
<1>3. IsFiniteSet(S \ {i}) /\ Cardinality(S \ {i}) = Cardinality(S) - 1
    BY <1>1, FS_RemoveElement
<1>4. /\ IsFiniteSet({j \in S : Precedes(j, i)})
      /\ Cardinality({j \in S : Precedes(j, i)}) <= Cardinality(S \ {i})
    BY <1>2, <1>3, FS_Subset
<1>5. Cardinality({j \in S : Precedes(j, i)}) \in Nat
    BY <1>4, FS_CardinalityType
<1> QED
    BY <1>1, <1>3, <1>4, <1>5 DEF Place

LEMMA PlaceOrder ==
    ASSUME TypeOK, NEW S \in SUBSET Ids, NEW i \in S, NEW j \in S, Precedes(j, i)
    PROVE  Place(j, S) < Place(i, S)
<1> DEFINE A == {k \in S : Precedes(k, j)}
           B == {k \in S : Precedes(k, i)}
<1>1. i \in Ids /\ j \in Ids
    OBVIOUS
<1>2. A \subseteq B /\ j \in B /\ j \notin A
    BY <1>1, TotalOrder
<1>3. A \in SUBSET Ids /\ B \in SUBSET Ids
    OBVIOUS
<1>4. IsFiniteSet(B) /\ Cardinality(A) \in Nat /\ Cardinality(B) \in Nat
    BY <1>3, RowsFinite
<1> HIDE DEF A, B
<1>5. IsFiniteSet(B \ {j}) /\ Cardinality(B \ {j}) = Cardinality(B) - 1
    BY <1>2, <1>4, FS_RemoveElement
<1>6. A \subseteq B \ {j}
    BY <1>2
<1>7. Cardinality(A) <= Cardinality(B \ {j})
    BY <1>5, <1>6, FS_Subset
<1>8. Cardinality(A) < Cardinality(B)
    BY <1>4, <1>5, <1>7
<1> QED
    BY <1>8 DEF Place, A, B

\* So a row at a place that is not less comes after.
LEMMA PlaceAfter ==
    ASSUME TypeOK, kind # "tasks", NEW S \in SUBSET Ids, NEW i \in S, NEW j \in S,
           i # j, Place(j, S) <= Place(i, S)
    PROVE  Precedes(j, i)
<1>1. Place(i, S) \in Nat /\ Place(j, S) \in Nat
    BY PlaceBound
<1>2. ~Precedes(i, j)
    BY <1>1, PlaceOrder
<1> QED
    BY <1>2, TotalOrder

\* There is a first row,
LEMMA FirstRow ==
    ASSUME TypeOK, kind # "tasks", NEW S \in SUBSET Ids, S # {}
    PROVE  \E i \in S : Place(i, S) = 0 /\ \A j \in S : j = i \/ Precedes(i, j)
<1> DEFINE P == {Place(i, S) : i \in S}
<1>1. P \in SUBSET Nat /\ P # {}
    BY PlaceBound
<1>2. PICK f \in P : \A n \in P : f <= n
    BY <1>1, Least
<1>3. PICK i \in S : f = Place(i, S)
    BY <1>2
<1>4. \A j \in S : Place(i, S) <= Place(j, S)
    BY <1>2, <1>3
<1>5. \A j \in S : j = i \/ Precedes(i, j)
    BY <1>4, PlaceAfter
<1>6. {j \in S : Precedes(j, i)} = {}
    BY <1>5, TotalOrder
<1>7. Place(i, S) = 0
    BY <1>6, FS_EmptySet DEF Place
<1> QED
    BY <1>5, <1>7

\* and a last one.
LEMMA LastRow ==
    ASSUME TypeOK, kind # "tasks", NEW S \in SUBSET Ids, S # {}
    PROVE  Last(S) \in S /\ \A j \in S : j = Last(S) \/ Precedes(j, Last(S))
<1> DEFINE N == Cardinality(S)
           P == {N - Place(i, S) : i \in S}
<1>1. N \in Nat
    BY RowsFinite
<1>2. \A i \in S : Place(i, S) \in Nat /\ Place(i, S) < N
    BY PlaceBound
<1> HIDE DEF N
<1>3. P \in SUBSET Nat /\ P # {}
    BY <1>1, <1>2
<1>4. PICK f \in P : \A n \in P : f <= n
    BY <1>3, Least
<1>5. PICK i \in S : f = N - Place(i, S)
    BY <1>4
<1>6. \A j \in S : N - Place(i, S) <= N - Place(j, S)
    BY <1>4, <1>5
<1>7. \A j \in S : Place(j, S) <= Place(i, S)
    BY <1>1, <1>2, <1>6
<1>8. \A j \in S : j = i \/ Precedes(j, i)
    BY <1>7, PlaceAfter
<1> QED
    BY <1>8 DEF Last

\* The pages that show a row are pages, and one more if the next shows it.
LEMMA ShowingFinite ==
    ASSUME TypeOK, NEW i
    PROVE  /\ Showing(i) \in SUBSET (1..Len(seen)) /\ Len(seen) \in Nat
           /\ IsFiniteSet(Showing(i)) /\ Cardinality(Showing(i)) \in Nat
           /\ Cardinality(Showing(i)) <= Len(seen)
<1>1. Showing(i) \in SUBSET (1..Len(seen)) /\ Len(seen) \in Nat
    BY DEF TypeOK, Showing
<1>2. IsFiniteSet(1..Len(seen)) /\ Cardinality(1..Len(seen)) = Len(seen)
  <2> DEFINE b == Len(seen)
  <2>1. b \in Nat
      BY <1>1
  <2> HIDE DEF b
  <2>2. IsFiniteSet(1..b) /\ Cardinality(1..b) = (IF 1 > b THEN 0 ELSE b - 1 + 1)
      BY <2>1, FS_Interval
  <2>3. IsFiniteSet(1..b) /\ Cardinality(1..b) = b
      BY <2>1, <2>2
  <2> QED
      BY <2>3 DEF b
<1> QED
    BY <1>1, <1>2, FS_Subset, FS_CardinalityType

LEMMA PageShown ==
    ASSUME TypeOK, NEW page \in SUBSET Ids, seen' = Append(seen, page), NEW i
    PROVE  /\ Showing(i)' # {} <=> Showing(i) # {} \/ i \in page
           /\ Cardinality(Showing(i)) <= 1 /\ (Showing(i) # {} => i \notin page)
                  => Cardinality(Showing(i)') <= 1
<1>1. /\ Len(seen) \in Nat /\ DOMAIN seen = 1..Len(seen)
      /\ DOMAIN seen' = 1..(Len(seen) + 1) /\ seen'[Len(seen) + 1] = page
      /\ \A n \in 1..Len(seen) : seen'[n] = seen[n]
    BY DEF TypeOK
<1>2. CASE i \in page
  <2>1. Showing(i)' = Showing(i) \union {Len(seen) + 1}
      BY <1>1, <1>2 DEF Showing
  <2>2. Showing(i) = {} => Showing(i)' = {Len(seen) + 1}
      BY <2>1
  <2>3. Cardinality({Len(seen) + 1}) = 1
      BY FS_Singleton
  <2>4. Showing(i)' # {}
      BY <2>1
  <2>5. Showing(i) = {} => Cardinality(Showing(i)') <= 1
      BY <2>2, <2>3
  <2> QED
      BY <1>2, <2>4, <2>5
<1>3. CASE i \notin page
  <2>1. Showing(i)' = Showing(i)
      BY <1>1, <1>3 DEF Showing
  <2> QED
      BY <1>3, <2>1
<1> QED
    BY <1>2, <1>3

-----------------------------------------------------------------------------
(* What a page is.                                                          *)

\* OFFSET and LIMIT take a row that is on a par with no other if its place is in the page.
LEMMA Page ==
    ASSUME TypeOK, NEW S \in SUBSET Ids, NEW n \in Nat, NEW max \in Nat, NEW page \in Pages(S, n, max)
    PROVE  /\ page \in SUBSET S
           /\ \A i \in S : Ties(i, S) = {i} =>
                 (i \in page <=> n <= Place(i, S) /\ Place(i, S) < n + max)
<1> DEFINE places == [i \in S |-> (n..(n + max - 1)) \intersect
                         (Place(i, S)..(Place(i, S) + Cardinality(Ties(i, S)) - 1))]
<1>1. /\ page \in SUBSET {i \in S : places[i] # {}}
      /\ \A i \in S : Cardinality(page \intersect Ties(i, S)) = Cardinality(places[i])
    BY DEF Pages
<1>2. ASSUME NEW i \in S, Ties(i, S) = {i}
      PROVE  i \in page <=> n <= Place(i, S) /\ Place(i, S) < n + max
  <2>1. Place(i, S) \in Nat
      BY PlaceBound
  <2>2. Cardinality({i}) = 1 /\ Cardinality({}) = 0
      BY FS_Singleton, FS_EmptySet
  <2>3. places[i] = (n..(n + max - 1)) \intersect (Place(i, S)..Place(i, S))
      BY <1>2, <2>1, <2>2
  <2>4. CASE n <= Place(i, S) /\ Place(i, S) < n + max
    <3>1. places[i] = {Place(i, S)}
        BY <2>1, <2>3, <2>4
    <3>2. Cardinality(page \intersect {i}) = 1
        BY <1>1, <1>2, <3>1, FS_Singleton
    <3>3. page \intersect {i} # {}
        BY <2>2, <3>2
    <3> QED
        BY <2>4, <3>3
  <2>5. CASE ~(n <= Place(i, S) /\ Place(i, S) < n + max)
    <3>1. places[i] = {}
        BY <2>1, <2>3, <2>5
    <3> QED
        BY <1>1, <2>5, <3>1
  <2> QED
      BY <2>4, <2>5
<1> QED
    BY <1>1, <1>2

\* LIMIT takes some rows if there are some.
LEMMA FirstPage ==
    ASSUME TypeOK, kind # "tasks", NEW S \in SUBSET Ids, S # {}, NEW max \in Nat, max >= 1
    PROVE  Limit(S, 0, max) # {}
<1>1. PICK i \in S : Place(i, S) = 0
    BY FirstRow
<1>2. 0 \in 0..(0 + max - 1)
    OBVIOUS
<1>3. i \in Limit(S, 0, max)
    BY <1>1, <1>2 DEF Limit
<1> QED
    BY <1>3

\* No row is later than the latest.
LEMMA LatestIsLatest ==
    ASSUME TypeOK, kind \in Details, NEW S \in SUBSET Ids, NEW i \in S
    PROVE  \E x \in Latest(S) : NotLater(i, x)
<1>1. PICK x \in S : Place(x, S) = 0 /\ \A j \in S : j = x \/ Precedes(x, j)
    BY FirstRow DEF Details
<1>2. x \in Latest(S)
    BY <1>1 DEF Latest, Limit
<1>3. /\ i \in Nat /\ x \in Nat /\ row[i].key \in Nat /\ row[x].key \in Nat
      /\ ascending = FALSE /\ kind \notin Paged /\ kind # "companies"
    BY Parameters DEF TypeOK, Details, Paged
<1>4. NotLater(i, x)
    BY <1>1, <1>3 DEF NotLater, Precedes
<1> QED
    BY <1>2, <1>4

\* A cursor cuts the list at the last row of its page.
LEMMA CursorCuts ==
    ASSUME TypeOK, kind \in Paged, NEW l \in Ids, NEW i \in Ids,
           row' = row, ascending' = ascending, cursor' = CursorOf(l)
    PROVE  After(i)' <=> Precedes(l, i)
<1>1. i \in Nat /\ l \in Nat /\ row[i].key \in Nat /\ row[l].key \in Nat /\ kind \notin {"companies", "tasks"}
    BY Parameters DEF TypeOK, Paged
<1>2. cursor'.key = row[l].key /\ cursor'.id = l
    BY DEF CursorOf
<1> QED
    BY <1>1, <1>2 DEF After, Precedes

\* What is before a cursor precedes what is after it.
LEMMA CursorOrder ==
    ASSUME TypeOK, kind \in Paged, cursor # NoCursor, NEW l \in Ids, NEW i \in Ids,
           After(l), ~After(i)
    PROVE  ~Precedes(l, i)
<1>1. /\ i \in Nat /\ l \in Nat /\ row[i].key \in Nat /\ row[l].key \in Nat /\ kind \notin {"companies", "tasks"}
      /\ cursor.key \in Nat /\ cursor.id \in Nat
    BY Parameters DEF TypeOK, Paged
<1> QED
    BY <1>1 DEF After, Precedes

-----------------------------------------------------------------------------
(* The writers.                                                             *)

\* What the others do to the list between two statements of the reader.
Others ==
    /\ UNCHANGED readerVars
    /\ Known \subseteq Known'
    /\ \A i \in Known : row'[i].key = row[i].key \/ (i \in moved' /\ kind \in Editable)
    /\ \A i \in Visible' \ Visible :
          /\ "came" \in changes'
          /\ phase = "counted" => "torn" \in changes'
          /\ kind \in Details => i \notin Known
    /\ Visible \subseteq Visible' \/ "left" \in changes'
    /\ stable' \subseteq stable
    /\ \A i \in stable' : i \in Visible' /\ row'[i].key = row[i].key
    /\ moved \subseteq moved'
    /\ changes \subseteq changes'

LEMMA WriterIds ==
    ASSUME TypeOK, NEW w \in Pending
    PROVE  /\ w \in Writers /\ write[w] \in Writes /\ write[w].id \in Ids /\ write[w].key \in Nat
           /\ write[w].op \in {"insert", "update"}
    BY DEF TypeOK, Pending, Writes

\* What a row becomes.
LEMMA RowAt ==
    ASSUME TypeOK
    PROVE  \A i \in Ids : row[i].key \in Nat /\ row[i].state \in States
    BY DEF TypeOK

LEMMA InsertIsOther ==
    ASSUME TypeOK, WritesOK, NEW w \in Writers, CommitInsert(w)
    PROVE  Others
<1> DEFINE i == write[w].id
<1>1. w \in Pending /\ i \in Ids /\ i \notin Known /\ write[w].key \in Nat
    BY WriterIds DEF CommitInsert, WritesOK
<1>2. row' = [row EXCEPT ![i] = [key |-> write[w].key, state |-> "there"]]
    BY DEF CommitInsert
<1> HIDE DEF i
<1>3. row'[i].state = "there" /\ \A j \in Ids : j # i => row'[j] = row[j]
    BY <1>1, <1>2 DEF TypeOK
<1>4. row[i].state = "none"
    BY <1>1 DEF Known
<1>5. Visible' = Visible \union {i} /\ Known' = Known \union {i}
    BY <1>1, <1>3, <1>4 DEF Visible, Known
<1>6. \A j \in Known : row'[j].key = row[j].key
    BY <1>1, <1>3 DEF Known
<1>7. \A j \in stable : j \in Visible' /\ row'[j].key = row[j].key
    BY <1>5, <1>6 DEF TypeOK, Visible, Known
<1>8. /\ UNCHANGED readerVars /\ stable' = stable /\ moved' = moved /\ changes' = Came
    BY DEF CommitInsert
<1>9. /\ "came" \in Came /\ changes \subseteq Came /\ (phase = "counted" => "torn" \in Came)
    BY DEF Came
<1> QED
    BY <1>1, <1>5, <1>6, <1>7, <1>8, <1>9 DEF Others

LEMMA UpdateIsOther ==
    ASSUME TypeOK, WritesOK, NEW w \in Writers, CommitUpdate(w)
    PROVE  Others
<1> DEFINE i == write[w].id
<1>1. w \in Pending /\ i \in Ids /\ kind \in Editable
    BY WriterIds DEF CommitUpdate, WritesOK
<1>2. row' = [row EXCEPT ![i].key = write[w].key] /\ stable' = stable \ {i} /\ moved' = moved \union {i}
    BY DEF CommitUpdate
<1> HIDE DEF i
<1>3. row'[i].state = row[i].state /\ \A j \in Ids : j # i => row'[j] = row[j]
    BY <1>1, <1>2 DEF TypeOK
<1>4. Visible' = Visible /\ Known' = Known
    BY <1>1, <1>3 DEF Visible, Known
<1>5. \A j \in Known : row'[j].key = row[j].key \/ (j \in moved' /\ kind \in Editable)
    BY <1>1, <1>2, <1>3 DEF Known
<1>6. \A j \in stable' : j \in Visible' /\ row'[j].key = row[j].key
    BY <1>2, <1>3, <1>4 DEF TypeOK, Visible
<1>7. UNCHANGED readerVars /\ changes' = changes
    BY DEF CommitUpdate
<1> QED
    BY <1>2, <1>4, <1>5, <1>6, <1>7 DEF Others

LEMMA LeaveIsOther ==
    ASSUME TypeOK, NEW w \in Writers, NEW i \in Ids, Leave(w, i)
    PROVE  Others
<1>1. row' = [row EXCEPT ![i].state = "out"] /\ stable' = stable \ {i} /\ i \in Visible
    BY DEF Leave
<1>2. /\ row'[i].key = row[i].key /\ row'[i].state = "out"
      /\ \A j \in Ids : j # i => row'[j] = row[j]
    BY <1>1 DEF TypeOK
<1>3. Visible' = Visible \ {i} /\ Known' = Known
    BY <1>1, <1>2 DEF Visible, Known
<1>4. \A j \in Ids : row'[j].key = row[j].key
    BY <1>2
<1>5. \A j \in stable' : j \in Visible' /\ row'[j].key = row[j].key
    BY <1>1, <1>3, <1>4 DEF TypeOK, Visible
<1>6. \A j \in Known : row'[j].key = row[j].key
    BY <1>4 DEF Known
<1>7. UNCHANGED readerVars /\ moved' = moved /\ changes' = changes \union {"left"}
    BY DEF Leave
<1> QED
    BY <1>1, <1>3, <1>5, <1>6, <1>7 DEF Others

LEMMA ReturnIsOther ==
    ASSUME TypeOK, NEW w \in Writers, NEW i \in Ids, Return(w, i)
    PROVE  Others
<1>1. row' = [row EXCEPT ![i].state = "there"] /\ row[i].state = "out" /\ kind \notin Details
    BY DEF Return, Editable, Details
<1>2. /\ row'[i].key = row[i].key /\ row'[i].state = "there"
      /\ \A j \in Ids : j # i => row'[j] = row[j]
    BY <1>1 DEF TypeOK
<1>3. Visible' = Visible \union {i} /\ Known' = Known
    BY <1>1, <1>2 DEF Visible, Known
<1>4. \A j \in Ids : row'[j].key = row[j].key
    BY <1>2
<1>5. \A j \in stable : j \in Visible' /\ row'[j].key = row[j].key
    BY <1>3, <1>4 DEF TypeOK, Visible
<1>6. \A j \in Known : row'[j].key = row[j].key
    BY <1>4 DEF Known
<1>7. UNCHANGED readerVars /\ stable' = stable /\ moved' = moved /\ changes' = Came
    BY DEF Return
<1>8. /\ "came" \in Came /\ changes \subseteq Came /\ (phase = "counted" => "torn" \in Came)
    BY DEF Came
<1> QED
    BY <1>1, <1>3, <1>5, <1>6, <1>7, <1>8 DEF Others

LEMMA RowSameIsOther ==
    ASSUME TypeOK, UNCHANGED <<row, history, readerVars>>
    PROVE  Others
<1>1. Visible' = Visible /\ Known' = Known
    BY DEF Visible, Known
<1>2. stable \subseteq Visible
    BY DEF TypeOK
<1> QED
    BY <1>1, <1>2 DEF Others, history

\* A step is the reader's, or Others.
LEMMA ReaderOrOthers ==
    ASSUME TypeOK, WritesOK, Next, ~Read
    PROVE  Others
<1>1. CASE Tick
    BY <1>1, RowSameIsOther DEF Tick
<1>2. ASSUME NEW w \in Writers, NEW i \in Ids, NEW k \in Times,
             StartInsert(w, i, k) \/ StartUpdate(w, i, k)
      PROVE  Others
    BY <1>2, RowSameIsOther DEF StartInsert, StartUpdate
<1>3. ASSUME NEW w \in Writers, Abandon(w) PROVE Others
    BY <1>3, RowSameIsOther DEF Abandon
<1> QED
    BY <1>1, <1>2, <1>3, InsertIsOther, UpdateIsOther, LeaveIsOther, ReturnIsOther DEF Next

-----------------------------------------------------------------------------
(* The steps of the reader.                                                 *)

TableSame == UNCHANGED <<kind, ascending, now, row, write>>

LEMMA ReadIsOneOf ==
    ASSUME Read
    PROVE  /\ TableSame
           /\ \/ kind \in Paged /\ ReadAfterCursor
              \/ kind \in Records \union Details /\ Count
              \/ kind \in Records /\ ReadAtOffset
              \/ kind \in Records /\ RefusePage
              \/ kind = "detail" /\ ReadLatest("ended")
              \/ kind = "summary" /\ ReadLatest("latest")
              \/ kind = "summary" /\ ReadLatestInbound
<1>1. TableSame
    BY DEF Read, ListMessages, ListConversations, ListContacts, ListLeads, ListActivities,
        ListTasks, ListCompanies, ListAuditLogs, ReadPage, ReadConversation, Summary,
        ReadAfterCursor, Count, ReadAtOffset, RefusePage, ReadLatest, ReadLatestInbound, TableSame
<1> QED
    BY <1>1 DEF Read, ListMessages, ListConversations, ListContacts, ListLeads, ListActivities,
        ListTasks, ListCompanies, ListAuditLogs, ReadPage, ReadConversation, Summary,
        Paged, Records, Details

LEMMA TableSameSo ==
    ASSUME TableSame
    PROVE  /\ Visible' = Visible /\ Known' = Known /\ Pending' = Pending
           /\ \A i : Place(i, Visible)' = Place(i, Visible)
<1>1. Visible' = Visible /\ Known' = Known /\ Pending' = Pending
    BY DEF TableSame, Visible, Known, Pending
<1>2. \A i, j : Precedes(i, j)' <=> Precedes(i, j)
    BY DEF TableSame, Precedes
<1>3. \A i : {j \in Visible' : Precedes(j, i)'} = {j \in Visible : Precedes(j, i)}
    BY <1>1, <1>2
<1>4. \A i : Place(i, Visible)' = Place(i, Visible)
    BY <1>3 DEF Place
<1> QED
    BY <1>1, <1>4

LEMMA KindsApart ==
    /\ kind \in Paged => kind \notin Records /\ kind \notin Details /\ kind # "tasks"
    /\ kind \in Records => kind \notin Details
    /\ kind = "detail" \/ kind = "summary" <=> kind \in Details
    /\ kind \in Details => kind \notin Editable
    BY DEF Paged, Records, Details, Editable

\* The rows that ReadAfterCursor selects, and its page.
Rest == IF cursor = NoCursor THEN Visible ELSE {i \in Visible : After(i)}

NextPage == Limit(Rest, 0, Size)

LEMMA CursorRead ==
    ASSUME TypeOK, kind # "tasks", ReadAfterCursor
    PROVE  /\ Rest \in SUBSET Ids /\ Rest \subseteq Visible /\ NextPage \in SUBSET Rest
           /\ seen' = Append(seen, NextPage)
           /\ \/ /\ Cardinality(Rest) > Size /\ cursor' = CursorOf(Last(NextPage))
                 /\ phase' = "walking" /\ NextPage # {}
              \/ /\ Cardinality(Rest) <= Size /\ cursor' = NoCursor
                 /\ phase' = "ended" /\ NextPage = Rest
<1>1. Rest \in SUBSET Ids /\ Rest \subseteq Visible
    BY DEF Rest, Visible
<1>2. NextPage \in SUBSET Rest
    BY DEF NextPage, Limit
<1>3. /\ seen' = Append(seen, NextPage)
      /\ cursor' = IF Cardinality(Rest) > Size THEN CursorOf(Last(NextPage)) ELSE NoCursor
      /\ phase' = IF Cardinality(Rest) > Size THEN "walking" ELSE "ended"
    BY DEF ReadAfterCursor, Rest, NextPage
<1>4. Cardinality(Rest) \in Nat
    BY <1>1, RowsFinite
<1>5. CASE Cardinality(Rest) > Size
  <2>1. Rest # {}
      BY <1>4, <1>5, FS_EmptySet, SizeOK
  <2>2. NextPage # {}
      BY <1>1, <2>1, FirstPage, SizeOK DEF NextPage
  <2> QED
      BY <1>1, <1>2, <1>3, <1>5, <2>2
<1>6. CASE ~(Cardinality(Rest) > Size)
  <2>1. Cardinality(Rest) <= Size
      BY <1>4, <1>6, SizeOK
  <2>2. \A i \in Rest : Place(i, Rest) \in Nat /\ Place(i, Rest) < Cardinality(Rest)
      BY <1>1, PlaceBound
  <2>3. \A i \in Rest : 0 <= Place(i, Rest) /\ Place(i, Rest) < 0 + Size
      BY <1>4, <2>1, <2>2, SizeOK
  <2>4. \A i \in Rest : i \in NextPage
      BY <1>1, <2>2, <2>3, SizeOK DEF NextPage, Limit
  <2>5. NextPage = Rest
      BY <1>2, <2>4
  <2> QED
      BY <1>1, <1>2, <1>3, <1>6, <2>1, <2>5
<1> QED
    BY <1>5, <1>6

LEMMA OffsetRead ==
    ASSUME TypeOK, ReadAtOffset
    PROVE  \E page \in SUBSET Visible :
              /\ page \in SUBSET Ids /\ seen' = Append(seen, page)
              /\ \A i \in Visible \ tied' : i \in page <=>
                    offset <= Place(i, Visible) /\ Place(i, Visible) < offset + Size
<1>1. Visible \in SUBSET Ids /\ offset \in Nat
    BY DEF Visible, TypeOK
<1>2. PICK page \in Pages(Visible, offset, Size) : seen' = Append(seen, page)
    BY DEF ReadAtOffset
<1>3. tied' = tied \union {i \in Visible : Ties(i, Visible) # {i}}
    BY DEF ReadAtOffset
<1>4. \A i \in Visible \ tied' : Ties(i, Visible) = {i}
    BY <1>3
<1>5. /\ page \in SUBSET Visible
      /\ \A i \in Visible : Ties(i, Visible) = {i} =>
            (i \in page <=> offset <= Place(i, Visible) /\ Place(i, Visible) < offset + Size)
    BY <1>1, <1>2, Page, SizeOK
<1> QED
    BY <1>1, <1>2, <1>4, <1>5

\* Begin leaves the history alone but for the first statement.
LEMMA Begins ==
    ASSUME TypeOK, Begin
    PROVE  /\ stable' \subseteq Visible /\ moved' \subseteq Ids
           /\ changes' \subseteq {"came", "torn", "left"}
           /\ phase = "start" => stable' = Visible /\ moved' = {} /\ changes' = {}
           /\ phase # "start" => UNCHANGED history
    BY DEF TypeOK, Begin, history

-----------------------------------------------------------------------------
(* The invariant, part by part.                                             *)

LEMMA TypeStep ==
    ASSUME TypeOK, WritesOK, PhaseOK, Next
    PROVE  TypeOK'
<1>1. /\ kind' \in Kinds /\ ascending' \in BOOLEAN /\ (kind' \in Details => ascending' = FALSE)
      /\ now' \in Nat
  <2>1. kind' = kind /\ ascending' = ascending
      BY ReadIsOneOf, ReaderOrOthers DEF TableSame, Others, readerVars
  <2>2. now' = now \/ now' = now + 1
      BY ReadIsOneOf DEF Next, Tick, StartInsert, StartUpdate, CommitInsert, CommitUpdate, Abandon,
          Leave, Return, TableSame
  <2> QED
      BY <2>1, <2>2 DEF TypeOK
<1>2. row' \in [Ids -> [key: Nat, state: States]]
  <2>1. CASE row' = row
      BY <2>1 DEF TypeOK
  <2>2. ASSUME NEW w \in Writers, CommitInsert(w) \/ CommitUpdate(w)
        PROVE  row' \in [Ids -> [key: Nat, state: States]]
    <3>1. write[w].id \in Ids /\ write[w].key \in Nat
        BY <2>2, WriterIds DEF CommitInsert, CommitUpdate
    <3>2. CASE CommitInsert(w)
        BY <3>1, <3>2 DEF TypeOK, CommitInsert, States
    <3>3. CASE CommitUpdate(w)
        BY <3>1, <3>3 DEF TypeOK, CommitUpdate, States
    <3> QED
        BY <2>2, <3>2, <3>3
  <2>3. ASSUME NEW w \in Writers, NEW i \in Ids, Leave(w, i) \/ Return(w, i)
        PROVE  row' \in [Ids -> [key: Nat, state: States]]
      BY <2>3 DEF TypeOK, Leave, Return, States
  <2> QED
      BY <2>1, <2>2, <2>3, ReadIsOneOf
      DEF Next, Tick, StartInsert, StartUpdate, Abandon, TableSame
<1>3. write' \in [Writers -> Writes \union {NoWrite, Written}]
  <2>1. CASE write' = write
      BY <2>1 DEF TypeOK
  <2>2. ASSUME NEW w \in Writers, NEW i \in Ids, NEW k \in Times,
               StartInsert(w, i, k) \/ StartUpdate(w, i, k)
        PROVE  write' \in [Writers -> Writes \union {NoWrite, Written}]
    <3>1. k \in Nat
        BY ListingsAssumption DEF Times
    <3> QED
        BY <2>2, <3>1 DEF TypeOK, StartInsert, StartUpdate, Writes
  <2>3. ASSUME NEW w \in Writers, Done(w)
        PROVE  write' \in [Writers -> Writes \union {NoWrite, Written}]
      BY <2>3 DEF TypeOK, Done
  <2> QED
      BY <2>1, <2>2, <2>3, ReadIsOneOf
      DEF Next, Tick, CommitInsert, CommitUpdate, Abandon, Leave, Return, TableSame
<1>4. CASE Others
  <2>1. /\ phase' = phase /\ cursor' = cursor /\ offset' = offset /\ counted' = counted /\ seen' = seen
        /\ tied' = tied /\ kind' = kind
      BY <1>4 DEF Others, readerVars
  <2>2. stable' \subseteq Visible'
      BY <1>4 DEF Others
  <2>3. moved' \subseteq Ids /\ changes' \subseteq {"came", "torn", "left"}
    <3>1. CASE UNCHANGED history
        BY <3>1 DEF TypeOK, history
    <3>2. ASSUME NEW w \in Writers, CommitInsert(w) \/ CommitUpdate(w)
          PROVE  moved' \subseteq Ids /\ changes' \subseteq {"came", "torn", "left"}
        BY <3>2, WriterIds DEF TypeOK, CommitInsert, CommitUpdate, Came
    <3>3. ASSUME NEW w \in Writers, NEW i \in Ids, Leave(w, i) \/ Return(w, i)
          PROVE  moved' \subseteq Ids /\ changes' \subseteq {"came", "torn", "left"}
        BY <3>3 DEF TypeOK, Leave, Return, Came
    <3>4. CASE Read
      <4>1. CASE Begin
          BY <4>1, Begins
      <4> QED
          BY <3>1, <3>4, <4>1, ReadIsOneOf
          DEF ReadAfterCursor, Count, ReadAtOffset, RefusePage, ReadLatest, ReadLatestInbound
    <3> QED
        BY <3>1, <3>2, <3>3, <3>4 DEF Next, Tick, StartInsert, StartUpdate, Abandon
  <2> QED
      BY <1>1, <1>2, <1>3, <2>1, <2>2, <2>3 DEF TypeOK
<1>5. CASE Read
  <2> DEFINE Goal == /\ phase' \in {"start", "walking", "counted", "latest", "ended", "refused"}
                     /\ cursor' \in [key: Nat, id: Ids] \union {NoCursor}
                     /\ offset' \in Nat /\ counted' \subseteq Ids /\ seen' \in Seq(SUBSET Ids)
                     /\ tied' \subseteq Ids /\ (kind # "tasks" => tied' = {})
                     /\ stable' \subseteq Visible /\ moved' \subseteq Ids
                     /\ changes' \subseteq {"came", "torn", "left"}
  <2>a. UNCHANGED history =>
            /\ stable' \subseteq Visible /\ moved' \subseteq Ids
            /\ changes' \subseteq {"came", "torn", "left"}
      BY DEF TypeOK, history
  <2>b. Visible \in SUBSET Ids
      BY DEF Visible
  <2>c. ASSUME NEW page \in SUBSET Ids PROVE Append(seen, page) \in Seq(SUBSET Ids)
      BY DEF TypeOK
  <2>s. Size \in Nat
      BY SizeOK
  <2>d. /\ cursor \in [key: Nat, id: Ids] \union {NoCursor}
        /\ offset \in Nat /\ counted \subseteq Ids /\ seen \in Seq(SUBSET Ids)
        /\ offset + Size \in Nat
        /\ tied \subseteq Ids /\ (kind # "tasks" => tied = {})
      BY <2>s DEF TypeOK
  <2>e. Visible' = Visible /\ kind' = kind
      BY <1>5, ReadIsOneOf, TableSameSo DEF TableSame
  <2> SUFFICES Goal
      BY <1>1, <1>2, <1>3, <2>e DEF TypeOK
  <2>1. CASE kind \in Paged /\ ReadAfterCursor
    <3>0. kind # "tasks"
        BY <2>1, KindsApart
    <3>1. NextPage \in SUBSET Ids
        BY <2>1, <3>0, CursorRead
    <3>2. seen' \in Seq(SUBSET Ids)
        BY <2>1, <2>c, <3>0, <3>1, CursorRead
    <3>3. \A l \in Ids : CursorOf(l) \in [key: Nat, id: Ids]
        BY RowAt DEF CursorOf
    <3>4. cursor' \in [key: Nat, id: Ids] \union {NoCursor}
        BY <2>1, <3>0, <3>1, <3>3, CursorRead, LastRow
    <3>5. Begin /\ offset' = offset /\ counted' = counted /\ tied' = tied /\ phase' \in {"walking", "ended"}
        BY <2>1 DEF ReadAfterCursor
    <3> QED
        BY <2>d, <3>2, <3>4, <3>5, Begins
  <2>2. CASE Count
      BY <2>2, <2>b, <2>d, Begins DEF Count
  <2>3. CASE ReadAtOffset
    <3>1. seen' \in Seq(SUBSET Ids)
        BY <2>3, <2>c, OffsetRead
    <3>2. tied' = tied \union {i \in Visible : Ties(i, Visible) # {i}}
        BY <2>3 DEF ReadAtOffset
    <3>3. tied' \subseteq Ids /\ (kind # "tasks" => tied' = {})
        BY <2>b, <2>d, <3>2 DEF Ties
    <3> QED
        BY <2>3, <2>a, <2>d, <3>1, <3>3 DEF ReadAtOffset
  <2>4. ASSUME NEW next \in {"latest", "ended"}, ReadLatest(next) PROVE Goal
    <3>1. Latest(Visible) \in SUBSET Ids
        BY <2>b DEF Latest, Limit
    <3> QED
        BY <2>4, <2>a, <2>d, <3>1 DEF ReadLatest
  <2>5. CASE ReadLatestInbound
    <3>1. Latest(Visible \intersect Inbound) \in SUBSET Ids
        BY <2>b DEF Latest, Limit
    <3> QED
        BY <2>5, <2>a, <2>c, <2>d, <3>1 DEF ReadLatestInbound
  <2>6. CASE RefusePage
      BY <2>6, <2>a, <2>d DEF RefusePage
  <2> HIDE DEF Goal
  <2> QED
      BY <1>5, <2>1, <2>2, <2>3, <2>4, <2>5, <2>6, ReadIsOneOf
<1> QED
    BY <1>4, <1>5, ReaderOrOthers

\* The writers that are still to commit after one has committed, or given up.
LEMMA DonePending ==
    ASSUME TypeOK, NEW w \in Writers, Done(w)
    PROVE  /\ w \notin Pending'
           /\ \A v \in Pending' : v \in Pending /\ v # w /\ write'[v] = write[v]
<1>1. write'[w] = Written /\ \A v \in Writers : v # w => write'[v] = write[v]
    BY DEF Done, TypeOK
<1> QED
    BY <1>1 DEF Pending

LEMMA WritesStep ==
    ASSUME TypeOK, WritesOK, Next
    PROVE  WritesOK'
<1>0. kind' = kind
    BY ReadIsOneOf, ReaderOrOthers DEF TableSame, Others, readerVars
<1>1. CASE write' = write /\ row' = row
    BY <1>0, <1>1 DEF WritesOK, Pending, Known
<1>2. ASSUME NEW w \in Writers, NEW i \in Ids, NEW k \in Times, StartInsert(w, i, k)
      PROVE  WritesOK'
  <2>1. /\ write'[w] = [op |-> "insert", id |-> i, key |-> k]
        /\ \A v \in Writers : v # w => write'[v] = write[v]
        /\ i \notin Known /\ Known' = Known
        /\ \A v \in Pending : write[v].id # i
      BY <1>2 DEF StartInsert, TypeOK, Known
  <2>2. \A v \in Pending' : v = w \/ (v \in Pending /\ write'[v] = write[v])
      BY <2>1 DEF Pending
  <2> QED
      BY <1>0, <2>1, <2>2 DEF WritesOK
<1>3. ASSUME NEW w \in Writers, NEW i \in Ids, NEW k \in Times, StartUpdate(w, i, k)
      PROVE  WritesOK'
  <2>1. /\ write'[w] = [op |-> "update", id |-> i, key |-> k]
        /\ \A v \in Writers : v # w => write'[v] = write[v]
        /\ kind \in Editable /\ Known' = Known
      BY <1>3 DEF StartUpdate, TypeOK, Known
  <2>2. \A v \in Pending' : v = w \/ (v \in Pending /\ write'[v] = write[v])
      BY <2>1 DEF Pending
  <2> QED
      BY <1>0, <2>1, <2>2 DEF WritesOK
<1>4. ASSUME NEW w \in Writers, CommitInsert(w) PROVE WritesOK'
  <2>1. /\ \A v \in Pending' : v \in Pending /\ v # w /\ write'[v] = write[v]
        /\ w \in Pending /\ write[w].op = "insert" /\ write[w].id \in Ids
      BY <1>4, DonePending, WriterIds DEF CommitInsert
  <2>2. Known' \subseteq Known \union {write[w].id}
      BY <1>4, <2>1 DEF CommitInsert, Known, TypeOK
  <2> QED
      BY <1>0, <2>1, <2>2 DEF WritesOK
<1>5. ASSUME NEW w \in Writers, CommitUpdate(w) \/ Abandon(w) PROVE WritesOK'
  <2>1. \A v \in Pending' : v \in Pending /\ v # w /\ write'[v] = write[v]
      BY <1>5, DonePending DEF CommitUpdate, Abandon
  <2>2. \A i \in Ids : row'[i].state = row[i].state
    <3>1. CASE CommitUpdate(w)
      <4>1. write[w].id \in Ids
          BY <3>1, WriterIds DEF CommitUpdate
      <4> QED
          BY <3>1, <4>1 DEF CommitUpdate, TypeOK
    <3>2. CASE Abandon(w)
        BY <3>2 DEF Abandon
    <3> QED
        BY <1>5, <3>1, <3>2
  <2>3. Known' = Known
      BY <2>2 DEF Known
  <2> QED
      BY <1>0, <2>1, <2>3 DEF WritesOK
<1>6. ASSUME NEW w \in Writers, NEW i \in Ids, Leave(w, i) \/ Return(w, i) PROVE WritesOK'
  <2>1. \A v \in Pending' : v \in Pending /\ v # w /\ write'[v] = write[v]
      BY <1>6, DonePending DEF Leave, Return
  <2>2. Known' = Known
      BY <1>6 DEF Leave, Return, Known, TypeOK, Visible
  <2> QED
      BY <1>0, <2>1, <2>2 DEF WritesOK
<1> QED
    BY <1>1, <1>2, <1>3, <1>4, <1>5, <1>6, ReadIsOneOf DEF Next, Tick, TableSame

LEMMA PhaseStep ==
    ASSUME TypeOK, WritesOK, PhaseOK, Next
    PROVE  PhaseOK'
<1>1. CASE Others
    BY <1>1 DEF Others, readerVars, PhaseOK
<1>2. CASE Read
  <2> USE DEF TableSame
  <2>1. CASE kind \in Paged /\ ReadAfterCursor
      BY <1>2, <2>1, ReadIsOneOf, KindsApart DEF ReadAfterCursor, PhaseOK
  <2>2. CASE kind \in Records \union Details /\ Count
      BY <1>2, <2>2, ReadIsOneOf, KindsApart DEF Count, PhaseOK
  <2>3. CASE kind \in Records /\ ReadAtOffset
      BY <1>2, <2>3, ReadIsOneOf, KindsApart DEF ReadAtOffset, PhaseOK
  <2>7. CASE kind \in Records /\ RefusePage
      BY <1>2, <2>7, ReadIsOneOf, KindsApart DEF RefusePage, PhaseOK
  <2>4. CASE kind = "detail" /\ ReadLatest("ended")
    <3>1. Len(seen') = 1
        BY <2>4 DEF ReadLatest
    <3> QED
        BY <1>2, <2>4, <3>1, ReadIsOneOf, KindsApart DEF ReadLatest, PhaseOK
  <2>5. CASE kind = "summary" /\ ReadLatest("latest")
    <3>1. Len(seen') = 1
        BY <2>5 DEF ReadLatest
    <3> QED
        BY <1>2, <2>5, <3>1, ReadIsOneOf, KindsApart DEF ReadLatest, PhaseOK
  <2>6. CASE kind = "summary" /\ ReadLatestInbound
    <3>1. Len(seen') = Len(seen) + 1
        BY <2>6 DEF ReadLatestInbound, TypeOK
    <3>2. Len(seen') = 2
      <4>1. Len(seen) = 1
          BY <2>6, KindsApart DEF ReadLatestInbound, PhaseOK
      <4> QED
          BY <3>1, <4>1
    <3> QED
        BY <1>2, <2>6, <3>2, ReadIsOneOf, KindsApart DEF ReadLatestInbound, PhaseOK
  <2> QED
      BY <1>2, <2>1, <2>2, <2>3, <2>4, <2>5, <2>6, <2>7, ReadIsOneOf
<1> QED
    BY <1>1, <1>2, ReaderOrOthers

LEMMA KnownStep ==
    ASSUME TypeOK, WritesOK, KnownOK, Next
    PROVE  KnownOK'
<1>1. CASE Others
  <2>1. \A i : Showing(i)' = Showing(i)
      BY <1>1 DEF Others, readerVars, Showing
  <2> QED
      BY <1>1, <2>1 DEF Others, readerVars, KnownOK
<1>2. CASE Read
  <2>a. Known' = Known /\ Visible \subseteq Known /\ Visible \in SUBSET Ids
      BY <1>2, ReadIsOneOf, TableSameSo DEF Visible, Known
  <2>b. ASSUME NEW page \in SUBSET Visible, seen' = Append(seen, page), counted' = counted
        PROVE  KnownOK'
    <3>1. \A i : Showing(i)' # {} <=> Showing(i) # {} \/ i \in page
        BY <2>a, <2>b, PageShown
    <3> QED
        BY <2>a, <2>b, <3>1 DEF KnownOK
  <2>1. CASE kind \in Paged /\ ReadAfterCursor
      BY <2>1, <2>b, CursorRead, KindsApart DEF ReadAfterCursor
  <2>2. CASE Count
    <3>1. \A i : Showing(i)' = Showing(i)
        BY <2>2 DEF Count, Showing
    <3> QED
        BY <2>2, <2>a, <3>1 DEF Count, KnownOK
  <2>3. CASE ReadAtOffset
    <3>1. counted' = counted
        BY <2>3 DEF ReadAtOffset
    <3> QED
        BY <2>3, <2>b, <3>1, OffsetRead
  <2>4. ASSUME NEW next, ReadLatest(next) PROVE KnownOK'
    <3>1. Latest(Visible) \subseteq Visible
        BY DEF Latest, Limit
    <3>2. DOMAIN seen' = {1} /\ seen'[1] = Latest(Visible) /\ counted' = counted
        BY <2>4 DEF ReadLatest
    <3>3. \A i : Showing(i)' # {} => i \in Known
        BY <2>a, <3>1, <3>2 DEF Showing
    <3> QED
        BY <2>a, <3>2, <3>3 DEF KnownOK
  <2>5. CASE ReadLatestInbound
    <3>1. Latest(Visible \intersect Inbound) \in SUBSET Visible
        BY DEF Latest, Limit
    <3> QED
        BY <2>5, <2>b, <3>1 DEF ReadLatestInbound
  <2>6. CASE RefusePage
    <3>1. \A i : Showing(i)' = Showing(i)
        BY <2>6 DEF RefusePage, Showing
    <3> QED
        BY <2>6, <2>a, <3>1 DEF RefusePage, KnownOK
  <2> QED
      BY <1>2, <2>1, <2>2, <2>3, <2>4, <2>5, <2>6, ReadIsOneOf
<1> QED
    BY <1>1, <1>2, ReaderOrOthers

-----------------------------------------------------------------------------
(* The cuts.                                                                *)

\* Nothing that a reader was given changes its place by a cursor, unless its own key does.
LEMMA CursorStep ==
    ASSUME TypeOK, WritesOK, PhaseOK, KnownOK, CursorOK, Next
    PROVE  CursorOK'
<1>1. CASE Others
  <2> SUFFICES ASSUME kind \in Paged
               PROVE  CursorOK'
      BY <1>1 DEF Others, readerVars, CursorOK
  <2>1. UNCHANGED <<phase, cursor, ascending, seen>> /\ \A i : Showing(i)' = Showing(i)
      BY <1>1 DEF Others, readerVars, Showing
  <2>2. ASSUME NEW i \in Ids, row'[i].key = row[i].key PROVE After(i)' <=> After(i)
      BY <2>1, <2>2 DEF After
  <2>3. ASSUME NEW i \in Ids \ moved', Showing(i) # {} PROVE i \in Ids \ moved /\ row'[i].key = row[i].key
      BY <1>1, <2>3 DEF Others, KnownOK
  <2>4. ASSUME NEW i \in stable' PROVE i \in stable /\ i \in Ids /\ row'[i].key = row[i].key
      BY <1>1, <2>4 DEF Others, Visible
  <2>5. \A i \in Ids \ moved' : i \in Ids \ moved
      BY <1>1 DEF Others
  <2> QED
      BY <2>1, <2>2, <2>3, <2>4, <2>5 DEF CursorOK
<1>2. CASE Read /\ ~(kind \in Paged /\ ReadAfterCursor)
  <2>1. kind' = kind /\ kind \notin Paged
      BY <1>2, ReadIsOneOf, KindsApart DEF TableSame
  <2> QED
      BY <2>1 DEF CursorOK
<1>3. CASE Read /\ kind \in Paged /\ ReadAfterCursor
  <2>1. /\ row' = row /\ ascending' = ascending /\ Begin /\ phase \in {"start", "walking"}
        /\ kind # "tasks"
      BY <1>3, KindsApart DEF ReadAfterCursor
  <2>2. /\ Rest \in SUBSET Ids /\ Rest \subseteq Visible /\ NextPage \in SUBSET Rest
        /\ seen' = Append(seen, NextPage)
        /\ \/ /\ Cardinality(Rest) > Size /\ cursor' = CursorOf(Last(NextPage))
              /\ phase' = "walking" /\ NextPage # {}
           \/ /\ Cardinality(Rest) <= Size /\ cursor' = NoCursor
              /\ phase' = "ended" /\ NextPage = Rest
      BY <1>3, <2>1, CursorRead
  <2>3. NextPage \in SUBSET Ids
      BY <2>2
  <2>4. ASSUME NEW i \in Ids \ moved'
        PROVE  /\ Cardinality(Showing(i)) <= 1
               /\ Showing(i) # {} => i \notin Rest
               /\ \A l \in Rest : Showing(i) # {} => ~Precedes(l, i)
    <3>1. CASE phase = "start"
      <4>1. Showing(i) = {}
          BY <3>1 DEF PhaseOK, Showing
      <4> QED
          BY <4>1, FS_EmptySet
    <3>2. CASE phase = "walking"
      <4>1. cursor # NoCursor /\ i \in Ids \ moved
          BY <1>3, <2>1, <2>4, <3>2, Begins DEF CursorOK, history
      <4>2. Cardinality(Showing(i)) <= 1 /\ (Showing(i) # {} => ~After(i))
          BY <1>3, <3>2, <4>1 DEF CursorOK
      <4>3. \A l \in Rest : l \in Ids /\ After(l)
          BY <2>2, <4>1 DEF Rest
      <4> QED
          BY <1>3, <4>1, <4>2, <4>3, CursorOrder
    <3> QED
        BY <2>1, <3>1, <3>2
  <2>5. ASSUME NEW i \in stable' PROVE i \in Ids /\ (Showing(i) # {} \/ i \in Rest)
    <3>1. i \in Visible /\ i \in Ids
        BY <2>1, Begins DEF Visible
    <3>2. CASE phase = "start"
        BY <3>1, <3>2 DEF PhaseOK, Rest
    <3>3. CASE phase = "walking"
        BY <1>3, <2>1, <3>1, <3>3, Begins DEF CursorOK, Rest, history
    <3> QED
        BY <2>1, <3>1, <3>2, <3>3
  <2>6. \A i : Showing(i)' # {} <=> Showing(i) # {} \/ i \in NextPage
      BY <2>2, <2>3, PageShown
  <2>7. ASSUME NEW i \in Ids \ moved' PROVE Cardinality(Showing(i)') <= 1
      BY <2>2, <2>3, <2>4, PageShown
  <2>8. CASE phase' = "ended"
    <3>1. NextPage = Rest
        BY <2>2, <2>8
    <3> QED
        BY <2>5, <2>6, <2>7, <2>8, <3>1 DEF CursorOK
  <2>9. CASE phase' = "walking"
    <3> DEFINE l == Last(NextPage)
    <3>1. cursor' = CursorOf(l) /\ NextPage # {}
        BY <2>2, <2>9
    <3>2. l \in NextPage /\ \A j \in NextPage : j = l \/ Precedes(j, l)
        BY <2>1, <2>3, <3>1, LastRow
    <3> HIDE DEF l
    <3>3. l \in Ids /\ l \in Rest
        BY <2>2, <3>2
    <3>4. cursor' # NoCursor
      <4>1. CursorOf(l) \in [key: Nat, id: Nat]
          BY <3>3, RowAt, Parameters DEF CursorOf
      <4> QED
          BY <3>1, <4>1, Parameters
    <3>5. \A i \in Ids : After(i)' <=> Precedes(l, i)
        BY <1>3, <2>1, <3>1, <3>3, CursorCuts
    <3>6. ASSUME NEW i \in Ids \ moved', Showing(i)' # {} PROVE ~After(i)'
      <4>1. CASE Showing(i) # {}
          BY <2>4, <3>3, <3>5, <4>1
      <4>2. CASE i \in NextPage
          BY <3>2, <3>3, <3>5, <4>2, TotalOrder
      <4> QED
          BY <2>6, <3>6, <4>1, <4>2
    <3>7. ASSUME NEW i \in stable' PROVE Showing(i)' # {} \/ After(i)'
      <4>1. CASE Showing(i) # {} \/ i \in NextPage
          BY <2>6, <4>1
      <4>2. CASE i \in Rest /\ i \notin NextPage
        <5>1. /\ Place(i, Rest) \in Nat /\ Place(l, Rest) \in Nat
              /\ ~(Place(i, Rest) < Size) /\ Place(l, Rest) < Size
          <6>1. Place(i, Rest) \in Nat /\ Place(l, Rest) \in Nat
              BY <2>2, <3>3, <4>2, PlaceBound
          <6>2. \A j \in Rest : j \in NextPage <=> Place(j, Rest) \in 0..(0 + Size - 1)
              BY DEF NextPage, Limit
          <6>3. Place(i, Rest) \notin 0..(0 + Size - 1) /\ Place(l, Rest) \in 0..(0 + Size - 1)
              BY <3>2, <3>3, <4>2, <6>2
          <6> QED
              BY <6>1, <6>3, SizeOK
        <5>2. Place(l, Rest) <= Place(i, Rest)
            BY <5>1, SizeOK
        <5>3. Precedes(l, i)
            BY <2>1, <2>2, <3>2, <3>3, <4>2, <5>2, PlaceAfter
        <5> QED
            BY <2>5, <3>5, <5>3
      <4> QED
          BY <2>5, <4>1, <4>2
    <3> QED
        BY <2>7, <2>9, <3>4, <3>6, <3>7 DEF CursorOK
  <2> QED
      BY <2>2, <2>8, <2>9
<1> QED
    BY <1>1, <1>2, <1>3, ReaderOrOthers

\* The others only add to what comes before a row, or only take away.
LEMMA PlacesOthers ==
    ASSUME TypeOK, Others, moved' = {}, NEW i \in Ids, i \in Visible, i \in Visible'
    PROVE  /\ Place(i, Visible) \in Nat
           /\ Visible' \subseteq Visible =>
                 Place(i, Visible)' \in Nat /\ Place(i, Visible)' <= Place(i, Visible)
           /\ Visible \subseteq Visible' =>
                 Place(i, Visible)' \in Nat /\ Place(i, Visible) <= Place(i, Visible)'
<1> DEFINE A == {j \in Visible : Precedes(j, i)}
           B == {j \in Visible' : Precedes(j, i)'}
<1>1. A \in SUBSET Ids /\ B \in SUBSET Ids
    BY DEF Visible
<1>2. /\ IsFiniteSet(A) /\ Cardinality(A) \in Nat /\ Place(i, Visible) = Cardinality(A)
      /\ IsFiniteSet(B) /\ Cardinality(B) \in Nat /\ Place(i, Visible)' = Cardinality(B)
    BY <1>1, RowsFinite DEF Place
<1>3. \A j \in Visible : j \in Ids /\ row'[j].key = row[j].key
    BY DEF Others, Known, Visible
<1>4. \A j \in Visible : Precedes(j, i)' <=> Precedes(j, i)
    BY <1>3 DEF Precedes, Others, readerVars
<1>5. Visible' \subseteq Visible => B \subseteq A
    BY <1>4
<1>6. Visible \subseteq Visible' => A \subseteq B
    BY <1>4
<1> HIDE DEF A, B
<1> QED
    BY <1>2, <1>5, <1>6, FS_Subset

LEMMA OffsetShownStep ==
    ASSUME TypeOK, WritesOK, PhaseOK, KnownOK, OffsetShown, Next
    PROVE  OffsetShown'
<1> SUFFICES ASSUME kind' \in Records, "came" \notin changes', moved' = {}, NEW i \in Ids \ tied'
             PROVE  /\ Cardinality(Showing(i)') <= 1
                    /\ Showing(i)' # {} /\ i \in Visible' => Place(i, Visible)' < offset'
    BY DEF OffsetShown
<1>1. CASE Others
  <2>1. /\ kind \in Records /\ "came" \notin changes /\ moved = {} /\ offset' = offset /\ i \notin tied
        /\ Showing(i)' = Showing(i) /\ Visible' \subseteq Visible /\ offset \in Nat
      BY <1>1 DEF Others, readerVars, Showing, TypeOK
  <2>2. CASE Showing(i) # {} /\ i \in Visible'
    <3>1. /\ Place(i, Visible) \in Nat /\ Place(i, Visible)' \in Nat
          /\ Place(i, Visible)' <= Place(i, Visible)
        BY <1>1, <2>1, <2>2, PlacesOthers
    <3>2. Place(i, Visible) < offset /\ Cardinality(Showing(i)) <= 1
        BY <2>1, <2>2 DEF OffsetShown
    <3> QED
        BY <2>1, <3>1, <3>2
  <2>3. Cardinality(Showing(i)) <= 1
      BY <2>1 DEF OffsetShown
  <2> QED
      BY <2>1, <2>2, <2>3
<1>2. CASE Read
  <2>1. /\ kind \in Records /\ Visible' = Visible /\ Place(i, Visible)' = Place(i, Visible)
        /\ Count \/ ReadAtOffset \/ RefusePage
      BY <1>2, ReadIsOneOf, TableSameSo, KindsApart DEF TableSame
  <2>2. CASE Count
    <3>1. Showing(i)' = Showing(i) /\ offset' = offset /\ i \notin tied
        BY <2>2 DEF Count, Showing
    <3>2. CASE phase = "start"
      <4>1. Showing(i) = {}
          BY <3>2 DEF PhaseOK, Showing
      <4> QED
          BY <3>1, <4>1, FS_EmptySet
    <3>3. CASE phase # "start"
      <4>1. "came" \notin changes /\ moved = {}
          BY <2>2, <3>3, Begins DEF Count, history
      <4> QED
          BY <2>1, <3>1, <4>1 DEF OffsetShown
    <3> QED
        BY <3>2, <3>3
  <2>3. CASE ReadAtOffset
    <3>1. PICK page \in SUBSET Visible :
              /\ page \in SUBSET Ids /\ seen' = Append(seen, page)
              /\ \A j \in Visible \ tied' : j \in page <=>
                    offset <= Place(j, Visible) /\ Place(j, Visible) < offset + Size
        BY <2>3, OffsetRead
    <3>2. /\ "came" \notin changes /\ moved = {} /\ offset' = offset + Size /\ offset \in Nat
          /\ i \notin tied
        BY <2>3 DEF ReadAtOffset, TypeOK, history
    <3>3. /\ Cardinality(Showing(i)) <= 1
          /\ Showing(i) # {} /\ i \in Visible => Place(i, Visible) < offset
        BY <2>1, <3>2 DEF OffsetShown
    <3>4. /\ Showing(i)' # {} <=> Showing(i) # {} \/ i \in page
          /\ Cardinality(Showing(i)) <= 1 /\ (Showing(i) # {} => i \notin page)
                 => Cardinality(Showing(i)') <= 1
        BY <3>1, PageShown
    <3>5. i \in Visible => Place(i, Visible) \in Nat
        BY PlaceBound DEF Visible
    <3>6. Showing(i) # {} => i \notin page
        BY <3>1, <3>2, <3>3, <3>5
    <3>7. Showing(i)' # {} /\ i \in Visible => Place(i, Visible) < offset + Size
        BY <3>1, <3>2, <3>3, <3>4, <3>5, SizeOK
    <3> QED
        BY <2>1, <3>2, <3>3, <3>4, <3>6, <3>7
  <2>4. CASE RefusePage
    <3>1. /\ Showing(i)' = Showing(i) /\ offset' = offset /\ i \notin tied
          /\ "came" \notin changes /\ moved = {}
        BY <2>4 DEF RefusePage, Showing, history
    <3> QED
        BY <2>1, <3>1 DEF OffsetShown
  <2> QED
      BY <2>1, <2>2, <2>3, <2>4
<1> QED
    BY <1>1, <1>2, ReaderOrOthers

LEMMA OffsetLeftStep ==
    ASSUME TypeOK, WritesOK, PhaseOK, KnownOK, OffsetLeft, Next
    PROVE  OffsetLeft'
<1> DEFINE Goal == /\ phase' = "counted" => counted' = Visible'
                   /\ phase' \in {"walking", "counted"} =>
                          \A i \in stable' \ tied' : Showing(i)' # {} \/ Place(i, Visible)' >= offset'
                   /\ phase' = "ended" => \A i \in stable' \ tied' : Showing(i)' # {}
<1> SUFFICES ASSUME kind' \in Records, "left" \notin changes', "torn" \notin changes', moved' = {}
             PROVE  Goal
    BY DEF OffsetLeft
<1>a. ASSUME kind \in Records, "left" \notin changes, "torn" \notin changes, moved = {}
      PROVE  /\ phase = "counted" => counted = Visible
             /\ phase \in {"walking", "counted"} =>
                    \A i \in stable \ tied : Showing(i) # {} \/ Place(i, Visible) >= offset
             /\ phase = "ended" => \A i \in stable \ tied : Showing(i) # {}
    BY <1>a DEF OffsetLeft
<1>b. \A i \in Visible : i \in Ids /\ Place(i, Visible) \in Nat /\ Place(i, Visible) < Cardinality(Visible)
    BY PlaceBound DEF Visible
<1>c. offset \in Nat /\ stable \subseteq Visible
    BY DEF TypeOK
<1>1. CASE Others
  <2>1. /\ kind \in Records /\ "left" \notin changes /\ "torn" \notin changes /\ moved = {}
        /\ UNCHANGED <<phase, offset, counted, tied>> /\ \A i : Showing(i)' = Showing(i)
        /\ Visible \subseteq Visible' /\ stable' \subseteq stable /\ stable' \subseteq Visible'
        /\ phase = "counted" => Visible' = Visible
      BY <1>1 DEF Others, readerVars, Showing
  <2>2. ASSUME NEW i \in stable', Place(i, Visible) >= offset PROVE Place(i, Visible)' >= offset
    <3>1. Place(i, Visible) \in Nat /\ Place(i, Visible)' \in Nat /\ Place(i, Visible) <= Place(i, Visible)'
        BY <1>1, <1>b, <1>c, <2>1, <2>2, PlacesOthers
    <3> QED
        BY <1>c, <2>2, <3>1
  <2> QED
      BY <1>a, <2>1, <2>2
<1>2. CASE Read
  <2>1. /\ kind \in Records /\ Visible' = Visible
        /\ \A i : Place(i, Visible)' = Place(i, Visible)
        /\ Count \/ ReadAtOffset \/ RefusePage
      BY <1>2, ReadIsOneOf, TableSameSo, KindsApart DEF TableSame
  <2>2. CASE Count
    <3>1. /\ counted' = Visible /\ phase' = "counted" /\ offset' = offset /\ tied' = tied /\ Begin
          /\ phase \in {"start", "walking"}
          /\ \A i : Showing(i)' = Showing(i)
        BY <2>2 DEF Count, Showing
    <3>2. ASSUME NEW i \in stable' \ tied PROVE Showing(i) # {} \/ Place(i, Visible) >= offset
      <4>1. CASE phase = "start"
        <5>1. offset = 0 /\ i \in Visible
            BY <3>1, <4>1, Begins DEF PhaseOK
        <5> QED
            BY <1>b, <5>1
      <4>2. CASE phase = "walking"
          BY <1>a, <2>1, <3>1, <4>2, Begins DEF history
      <4> QED
          BY <3>1, <4>1, <4>2
    <3> QED
        BY <2>1, <3>1, <3>2
  <2>3. CASE ReadAtOffset
    <3>1. PICK page \in SUBSET Visible :
              /\ page \in SUBSET Ids /\ seen' = Append(seen, page)
              /\ \A j \in Visible \ tied' : j \in page <=>
                    offset <= Place(j, Visible) /\ Place(j, Visible) < offset + Size
        BY <2>3, OffsetRead
    <3>2. /\ phase = "counted" /\ offset' = offset + Size /\ UNCHANGED history
          /\ phase' = IF offset + Size < Cardinality(counted) THEN "walking" ELSE "ended"
          /\ tied \subseteq tied'
        BY <2>3 DEF ReadAtOffset
    <3>3. /\ counted = Visible /\ stable' = stable
          /\ \A i \in stable \ tied : Showing(i) # {} \/ Place(i, Visible) >= offset
        BY <1>a, <2>1, <3>2 DEF history
    <3>4. \A i : Showing(i)' # {} <=> Showing(i) # {} \/ i \in page
        BY <3>1, PageShown
    <3>5. ASSUME NEW i \in stable \ tied'
          PROVE  Showing(i)' # {} \/ Place(i, Visible) >= offset + Size
        BY <1>b, <1>c, <3>1, <3>2, <3>3, <3>4, SizeOK
    <3>6. CASE phase' = "walking"
        BY <2>1, <3>2, <3>3, <3>5, <3>6
    <3>7. CASE phase' = "ended"
      <4>1. ~(offset + Size < Cardinality(Visible))
          BY <3>2, <3>3, <3>7
      <4>2. Cardinality(Visible) \in Nat
          BY RowsFinite DEF Visible
      <4>3. \A i \in stable : ~(Place(i, Visible) >= offset + Size)
          BY <1>b, <1>c, <4>1, <4>2, SizeOK
      <4> QED
          BY <3>3, <3>5, <3>7, <4>3
    <3> QED
        BY <3>2, <3>6, <3>7
  <2>4. CASE RefusePage
    <3>1. /\ phase' = "refused" /\ "left" \notin changes /\ "torn" \notin changes /\ moved = {}
        BY <2>4 DEF RefusePage, history
    <3> QED
        BY <3>1
  <2> QED
      BY <2>1, <2>2, <2>3, <2>4
<1> QED
    BY <1>1, <1>2, ReaderOrOthers

LEMMA AppendAt ==
    ASSUME NEW T, NEW s \in Seq(T), NEW e \in T
    PROVE  /\ Append(s, e)[Len(s) + 1] = e
           /\ \A n \in 1..Len(s) : Append(s, e)[n] = s[n]
    OBVIOUS

\* Messages come and go, but do not change their time.
LEMMA DetailStep ==
    ASSUME TypeOK, WritesOK, PhaseOK, KnownOK, DetailOK, Next
    PROVE  DetailOK'
<1>1. CASE Others
  <2> SUFFICES ASSUME kind \in Details
               PROVE  DetailOK'
      BY <1>1 DEF Others, readerVars, DetailOK
  <2>1. /\ UNCHANGED <<kind, phase, counted, seen>>
        /\ \A i \in Known : row'[i].key = row[i].key
        /\ \A i \in Known : i \in Visible' => i \in Visible
      BY <1>1, KindsApart DEF Others, readerVars
  <2>2. \A i, x \in Known : NotLater(i, x) => NotLater(i, x)'
      BY <2>1 DEF NotLater
  <2>3. \A n \in DOMAIN seen : \A x \in seen[n] : x \in Known
      BY DEF KnownOK, Showing, TypeOK
  <2>4. /\ phase \in {"latest", "ended"} => 1 \in DOMAIN seen
        /\ kind = "summary" /\ phase = "ended" => 2 \in DOMAIN seen
      BY DEF PhaseOK, TypeOK
  <2>5. counted \subseteq Known
      BY DEF KnownOK
  <2>6. ASSUME phase' \in {"latest", "ended"}, NEW i \in counted' \intersect Visible'
        PROVE  \E x \in seen'[1] : NotLater(i, x)'
      BY <2>1, <2>2, <2>3, <2>4, <2>5, <2>6 DEF DetailOK
  <2>7. ASSUME kind = "summary", phase' = "ended",
               NEW i \in (counted' \union seen'[1]) \intersect Visible' \intersect Inbound
        PROVE  \E x \in seen'[2] : NotLater(i, x)'
    <3>1. i \in Known /\ i \in Visible /\ 2 \in DOMAIN seen
        BY <2>1, <2>3, <2>4, <2>5, <2>7
    <3>2. PICK x \in seen[2] : NotLater(i, x)
        BY <2>1, <2>7, <3>1 DEF DetailOK
    <3> QED
        BY <2>1, <2>2, <2>3, <3>1, <3>2
  <2> QED
      BY <2>1, <2>6, <2>7 DEF DetailOK
<1>2. CASE Read /\ kind \notin Details
    BY <1>2, ReadIsOneOf DEF TableSame, DetailOK
<1>3. CASE Read /\ kind \in Details
  <2>1. /\ kind' = kind /\ Visible' = Visible /\ Visible \in SUBSET Ids
        /\ \A i, x : NotLater(i, x)' <=> NotLater(i, x)
      BY <1>3, ReadIsOneOf, TableSameSo DEF TableSame, NotLater, Visible
  <2>2. CASE Count
      BY <2>2 DEF Count, DetailOK
  <2>3. ASSUME NEW next \in {"latest", "ended"}, ReadLatest(next),
               kind = "summary" => next = "latest"
        PROVE  DetailOK'
    <3>1. seen'[1] = Latest(Visible) /\ phase' = next
        BY <2>3 DEF ReadLatest
    <3>2. \A i \in Visible : \E x \in Latest(Visible) : NotLater(i, x)
        BY <1>3, <2>1, LatestIsLatest
    <3> QED
        BY <2>1, <2>3, <3>1, <3>2 DEF DetailOK
  <2>4. CASE kind = "summary" /\ ReadLatestInbound
    <3> DEFINE S == Visible \intersect Inbound
    <3>1. Len(seen) = 1 /\ seen \in Seq(SUBSET Ids) /\ seen' = Append(seen, Latest(S)) /\ counted' = counted
        BY <1>3, <2>4 DEF ReadLatestInbound, PhaseOK, TypeOK
    <3>2. seen'[1] = seen[1] /\ seen'[2] = Latest(S)
      <4> HIDE DEF S
      <4>1. Latest(S) \in SUBSET Ids
          BY <2>1 DEF Latest, Limit, S
      <4>2. seen'[Len(seen) + 1] = Latest(S) /\ \A n \in 1..Len(seen) : seen'[n] = seen[n]
          BY <3>1, <4>1, AppendAt
      <4>3. Len(seen) + 1 = 2 /\ 1 \in 1..Len(seen)
          BY <3>1
      <4> QED
          BY <4>2, <4>3
    <3>3. \A i \in counted \intersect Visible : \E x \in seen[1] : NotLater(i, x)
        BY <1>3, <2>4 DEF DetailOK, ReadLatestInbound
    <3>4. \A i \in S : \E x \in Latest(S) : NotLater(i, x)
        BY <1>3, <2>1, LatestIsLatest
    <3> QED
        BY <2>1, <3>1, <3>2, <3>3, <3>4 DEF DetailOK
  <2>5. CASE kind = "detail" /\ ReadLatest("ended")
    <3>1. kind = "summary" => "ended" = "latest"
        BY <2>5
    <3>2. ReadLatest("ended") /\ "ended" \in {"latest", "ended"}
        BY <2>5
    <3> QED
        BY <2>3, <3>1, <3>2
  <2>6. CASE kind = "summary" /\ ReadLatest("latest")
      BY <2>3, <2>6
  <2> QED
      BY <1>3, <2>2, <2>4, <2>5, <2>6, ReadIsOneOf, KindsApart
<1> QED
    BY <1>1, <1>2, <1>3, ReaderOrOthers

-----------------------------------------------------------------------------
(* The invariant and what it says.                                          *)

LEMMA InitIInv == Init => IInv
<1> SUFFICES ASSUME Init
             PROVE  IInv
    OBVIOUS
<1>1. kind \in Kinds /\ ascending \in Directions
    BY DEF Init
<1>2. ascending \in BOOLEAN /\ (kind \in Details => ascending = FALSE)
    BY <1>1 DEF Directions, Details, Kinds
<1>3. row \in [Ids -> [key: Nat, state: States]]
    BY ListingsAssumption DEF Init, States
<1>4. TypeOK
    BY <1>1, <1>2, <1>3, ListingsAssumption DEF Init, TypeOK
<1>5. Pending = {}
    BY DEF Init, Pending
<1>6. \A i : Showing(i) = {}
    BY DEF Init, Showing
<1>7. WritesOK /\ PhaseOK /\ KnownOK
    BY <1>5, <1>6 DEF Init, WritesOK, PhaseOK, KnownOK
<1>8. CursorOK /\ OffsetShown /\ OffsetLeft /\ DetailOK
  <2>1. phase = "start" /\ \A i : Cardinality(Showing(i)) = 0
      BY <1>6, FS_EmptySet DEF Init
  <2> QED
      BY <1>6, <2>1 DEF CursorOK, OffsetShown, OffsetLeft, DetailOK
<1> QED
    BY <1>4, <1>7, <1>8 DEF IInv

LEMMA IInvStep == IInv /\ [Next]_vars => IInv'
<1> SUFFICES ASSUME IInv, [Next]_vars
             PROVE  IInv'
    OBVIOUS
<1>1. CASE Next
    BY <1>1, TypeStep, WritesStep, PhaseStep, KnownStep, CursorStep, OffsetShownStep,
        OffsetLeftStep, DetailStep DEF IInv
<1>2. CASE UNCHANGED vars
  <2> USE <1>2 DEF vars, readerVars, history, IInv
  <2>1. TypeOK' /\ WritesOK' /\ PhaseOK'
      BY DEF TypeOK, WritesOK, PhaseOK, Visible, Known, Pending
  <2>2. \A i : Showing(i)' = Showing(i) /\ (Precedes(i, i)' <=> Precedes(i, i))
      BY DEF Showing, Precedes
  <2>3. KnownOK' /\ CursorOK'
      BY <2>2 DEF KnownOK, CursorOK, Known, After
  <2>4. Visible' = Visible /\ \A i : Place(i, Visible)' = Place(i, Visible)
      BY DEF Visible, Place, Precedes
  <2>5. OffsetShown' /\ OffsetLeft'
      BY <2>2, <2>4 DEF OffsetShown, OffsetLeft
  <2>6. DetailOK'
      BY <2>4 DEF DetailOK, NotLater
  <2> QED
      BY <2>1, <2>3, <2>5, <2>6
<1> QED
    BY <1>1, <1>2

\* The invariant holds of every behaviour of the lists.
THEOREM Invariant == Spec => []IInv
    BY InitIInv, IInvStep, PTL DEF Spec

LEMMA TwiceInv == IInv => NoRowTwice
<1> SUFFICES ASSUME IInv, NEW i \in Ids, Cardinality(Showing(i)) > 1
             PROVE  \/ kind \in Paged /\ i \in moved
                    \/ kind \in Records /\ ("came" \in changes \/ moved # {})
                    \/ kind = "tasks" /\ i \in tied
                    \/ kind = "summary"
    BY DEF NoRowTwice
<1>1. Cardinality(Showing(i)) \in Nat /\ ~(Cardinality(Showing(i)) <= 1)
    BY ShowingFinite DEF IInv
<1>2. CASE kind \in Paged
    BY <1>1, <1>2 DEF IInv, CursorOK
<1>3. CASE kind \in Records
    BY <1>1, <1>3 DEF IInv, OffsetShown, TypeOK
<1>4. CASE kind = "detail"
  <2>1. Len(seen) <= 1
    <3>1. seen = <<>> \/ Len(seen) = 1
        BY <1>4, KindsApart DEF IInv, PhaseOK
    <3> QED
        BY <3>1
  <2> QED
      BY <1>1, <2>1, ShowingFinite DEF IInv
<1> QED
    BY <1>2, <1>3, <1>4 DEF IInv, TypeOK, Kinds, Details

\* No walk by a cursor shows a row twice, unless its own key changes, and none by offsets
\* unless rows come or change their key: _cursor_clause is strict, and in the order of the
\* page.  A task that is due at the time of another may be shown twice in any case, for
\* list_tasks puts the two in no order.
THEOREM RowsShownOnce == Spec => []NoRowTwice
    BY Invariant, TwiceInv, PTL

LEMMA MissedInv == IInv => NoRowMissed
<1> SUFFICES ASSUME IInv, phase = "ended", kind \notin Details
             PROVE  \/ \A i \in stable : Showing(i) # {} \/ (kind = "tasks" /\ i \in tied)
                    \/ kind \in Records /\ (changes \intersect {"left", "torn"} # {} \/ moved # {})
    BY DEF NoRowMissed
<1>1. CASE kind \in Paged
    BY <1>1 DEF IInv, CursorOK
<1>2. CASE kind \in Records
    BY <1>2 DEF IInv, OffsetLeft, TypeOK
<1> QED
    BY <1>1, <1>2 DEF IInv, TypeOK, Kinds

\* A walk by a cursor shows every row that is there all along unchanged, whatever others do;
\* one by offsets that has not been refused a page, unless rows leave, change their key, or
\* come between a count and its page, and but for the tasks that are due at the time of another.
THEOREM RowsAllShown == Spec => []NoRowMissed
    BY Invariant, MissedInv, PTL

LEMMA LatestInv == IInv => LatestIsNotOlder
    BY DEF IInv, DetailOK, LatestIsNotOlder

\* The latest message is read after the messages are counted, in a statement of its own, and
\* the latest inbound one after that: neither is older than what was read before, unless that
\* has been discarded.
THEOREM LatestShown == Spec => []LatestIsNotOlder
    BY Invariant, LatestInv, PTL
=============================================================================
