---------------------------- MODULE AuditsProofs ----------------------------
(***************************************************************************)
(* The audit list shows each request once, in its last state, and who      *)
(* walks it to the end skips nothing: for any number of requests, rows of  *)
(* earlier releases, pages and sizes.                                      *)
(***************************************************************************)
EXTENDS Audits, FiniteSetTheorems, FunctionTheorems, TLAPS

-----------------------------------------------------------------------------
(* Pages.                                                                  *)

LEMMA SizeIsPositive ==
    ASSUME asks.size \in Nat
    PROVE  PageSize \in Nat \ {0} /\ PageSize <= MaxSize
  BY AuditsAssumption DEF PageSize

(* How many pages of s rows a list of t rows has.                          *)
LEMMA PagesCover ==
    ASSUME NEW t \in Nat, NEW s \in Nat \ {0}
    PROVE  /\ (t + s - 1) \div s \in Nat
           /\ t <= ((t + s - 1) \div s) * s
           /\ (((t + s - 1) \div s) - 1) * s < t
           /\ (t + s - 1) \div s = 0 <=> t = 0
  <1>1. (t + s - 1) \div s \in Nat
    BY SMT
  <1>2. t <= ((t + s - 1) \div s) * s
    BY SMT
  <1>3. (((t + s - 1) \div s) - 1) * s < t
    BY SMT
  <1>4. (t + s - 1) \div s = 0 <=> t = 0
    BY <1>1, <1>2, SMT
  <1> QED
    BY <1>1, <1>2, <1>3, <1>4

LEMMA MorePages ==
    ASSUME NEW p \in Nat, NEW q \in Nat, NEW s \in Nat, p <= q
    PROVE  p * s \in Nat /\ q * s \in Nat /\ p * s <= q * s
  BY SMT

LEMMA PagesAreNumbers ==
    ASSUME asks \in [page : Nat, size : Nat], total \in Nat
    PROVE  /\ TotalPages \in Nat
           /\ Page \in Nat \ {0}
           /\ Offset \in Nat
           /\ Offset + PageSize = Page * PageSize
  <1>1. PageSize \in Nat \ {0}
    BY SizeIsPositive
  <1>2. TotalPages \in Nat /\ (TotalPages = 0 <=> total = 0)
    BY <1>1, PagesCover DEF TotalPages
  <1>3. Page \in Nat \ {0}
    BY <1>2 DEF Page
  <1>4. (Page - 1) * PageSize \in Nat
    BY <1>1, <1>3, MorePages
  <1>5. (Page - 1) * PageSize + PageSize = Page * PageSize
    BY <1>1, <1>3, SMT
  <1> QED
    BY <1>2, <1>3, <1>4, <1>5 DEF Offset

-----------------------------------------------------------------------------
(* Places in the list.                                                     *)

LEMMA RowsAreFinite ==
    ASSUME rows \in Seq(Row)
    PROVE  /\ Id \subseteq Nat \ {0}
           /\ IsFiniteSet(Id)
           /\ IsFiniteSet(Listed)
           /\ Listed \subseteq Id
           /\ Cardinality(Listed) \in Nat
  <1>1. Id = 1 .. Len(rows) /\ Len(rows) \in Nat
    BY DEF Id
  <1>2. IsFiniteSet(Id)
    BY <1>1, FS_Interval
  <1>3. Listed \subseteq Id
    BY DEF Listed, Visible
  <1>4. IsFiniteSet(Listed)
    BY <1>2, <1>3, FS_Subset
  <1> QED
    BY <1>1, <1>2, <1>3, <1>4, FS_CardinalityType

(* The rows from i on in a finite set of rows, counted.                    *)
LEMMA FewerFurtherOn ==
    ASSUME NEW S \in SUBSET Int, IsFiniteSet(S), NEW i \in S, NEW j \in S, i < j
    PROVE  Cardinality({k \in S : k >= j}) < Cardinality({k \in S : k >= i})
  <1> DEFINE F == {k \in S : k >= i}
             T == {k \in S : k >= j}
  <1>1. T \in SUBSET F /\ T # F
    <2>1. \A k \in S : k >= j => k >= i
      OBVIOUS
    <2>2. i \in F /\ i \notin T
      OBVIOUS
    <2> QED
      BY <2>1, <2>2
  <1>2. F \in SUBSET S
    OBVIOUS
  <1>3. IsFiniteSet(F)
    BY <1>2, FS_Subset
  <1>4. IsFiniteSet(T) /\ Cardinality(T) <= Cardinality(F) /\ Cardinality(F) # Cardinality(T)
    <2> HIDE DEF F, T
    <2> QED
      BY <1>1, <1>3, FS_Subset
  <1>5. Cardinality(F) \in Nat /\ Cardinality(T) \in Nat
    BY <1>3, <1>4, FS_CardinalityType
  <1> QED
    BY <1>4, <1>5

LEMMA PlaceIsANumber ==
    ASSUME rows \in Seq(Row), NEW i \in Listed
    PROVE  Place(i) \in 1 .. Cardinality(Listed)
  <1> DEFINE F == {j \in Listed : j >= i}
  <1>1. F \in SUBSET Listed
    OBVIOUS
  <1>2. IsFiniteSet(F) /\ Cardinality(F) <= Cardinality(Listed)
    BY <1>1, RowsAreFinite, FS_Subset
  <1>3. i \in F
    BY RowsAreFinite
  <1>4. Cardinality(F) \in Nat /\ Cardinality(F) # 0
    BY <1>2, <1>3, FS_CardinalityType, FS_EmptySet
  <1> QED
    BY <1>2, <1>4, RowsAreFinite DEF Place

LEMMA PlacesDiffer ==
    ASSUME rows \in Seq(Row), NEW i \in Listed, NEW j \in Listed, Place(i) = Place(j)
    PROVE  i = j
  <1>1. i \in Int /\ j \in Int /\ Listed \in SUBSET Int
    BY RowsAreFinite
  <1>2. IsFiniteSet(Listed) /\ Place(i) \in Int /\ Place(j) \in Int
    BY RowsAreFinite, PlaceIsANumber
  <1>3. i < j => Place(j) < Place(i)
    BY <1>1, <1>2, FewerFurtherOn DEF Place
  <1>4. j < i => Place(i) < Place(j)
    BY <1>1, <1>2, FewerFurtherOn DEF Place
  <1> QED
    BY <1>1, <1>2, <1>3, <1>4

(* Every place up to the length of the list is taken.                      *)
LEMMA PlacesAreTaken ==
    ASSUME rows \in Seq(Row), NEW n \in 1 .. Cardinality(Listed)
    PROVE  \E i \in Listed : Place(i) = n
  <1> DEFINE N == 1 .. Cardinality(Listed)
             f == [i \in Listed |-> Place(i)]
  <1>1. f \in [Listed -> N]
    BY PlaceIsANumber
  <1>2. f \in Injection(Listed, N)
    BY <1>1, PlacesDiffer DEF Injection, IsInjective
  <1>3. IsFiniteSet(N) /\ Cardinality(N) = Cardinality(Listed)
    BY RowsAreFinite, FS_Interval
  <1>4. f \in Surjection(Listed, N)
    <2> HIDE DEF f, N
    <2> QED
      BY <1>2, <1>3, FS_Injection
  <1> QED
    BY <1>4 DEF Surjection

LEMMA RowAtPlace ==
    ASSUME rows \in Seq(Row), NEW i \in Listed
    PROVE  RowAt(Place(i)) = rows[i]
  BY PlacesDiffer DEF RowAt

(* No two listed rows are of one request.                                  *)
LEMMA OneRowEach ==
    ASSUME rows \in Seq(Row), NEW i \in Listed, NEW j \in Listed,
           rows[i].request = rows[j].request
    PROVE  i = j
  BY RowsAreFinite DEF Listed

-----------------------------------------------------------------------------
(* The invariant.                                                          *)

Types ==
    /\ rows \in Seq(Row)
    /\ pc \in {"idle", "count", "select", "shown"}
    /\ asks \in [page : Nat, size : Nat]
    /\ total \in Nat
    /\ late \in Nat

(* Only the newest row of a request has an outcome, and a row whose INSERT *)
(* has not committed is the only one of its request.                       *)
RowShape ==
    /\ \A i, j \in Id :
          i < j /\ rows[i].request = rows[j].request => ~rows[i].settled
    /\ \A i, j \in Id :
          ~rows[i].visible /\ rows[i].request = rows[j].request => i = j

(* What the walk has not shown stands behind the first k places.           *)
Ahead(k) ==
    \A r \in began \ seen : \E i \in Listed : rows[i].request = r /\ Place(i) > k

(* The rows before the page that is asked for.                             *)
Before == IF asks.page = 0 THEN 0 ELSE (asks.page - 1) * PageSize

WalkShape ==
    /\ pc \in {"count", "select"} => Ahead(Before) /\ settled \subseteq Settled
    /\ pc = "select" => Cardinality(Listed) = total + late
    /\ pc = "shown" => /\ answer.page \in Nat
                       /\ answer.size = PageSize
                       /\ Ahead(answer.page * PageSize)

IInv == Types /\ RowShape /\ WalkShape /\ NothingIsSkipped /\ OneStatePerRequest

LEMMA InitHolds == Init => IInv
  <1> SUFFICES ASSUME Init PROVE IInv
    OBVIOUS
  <1>1. PICK n \in 0 .. MaxOld : rows \in [1 .. n -> {row \in Row : row.visible}]
    BY DEF Init
  <1>2. n \in Nat
    BY <1>1
  <1>3. rows \in [1 .. n -> Row] /\ \A i \in 1 .. n : rows[i].visible
    BY <1>1
  <1>4. rows \in Seq(Row)
    BY <1>2, <1>3
  <1>5. Id = 1 .. n
    BY <1>1 DEF Id
  <1>6. asks \in [page : Nat, size : Nat]
    BY AuditsAssumption DEF Init
  <1>7. Types
    BY <1>4, <1>6 DEF Init, Types
  <1>8. RowShape
    BY <1>3, <1>5 DEF Init, RowShape
  <1> QED
    BY <1>7, <1>8 DEF Init, IInv, WalkShape, NothingIsSkipped, OneStatePerRequest

-----------------------------------------------------------------------------
(* The requests: the list only grows, and every row in it keeps its        *)
(* request and what outcome it has.                                        *)

ListGrows ==
    /\ rows' \in Seq(Row)
    /\ Listed \subseteq Listed'
    /\ \A i \in Listed : rows'[i].request = rows[i].request
    /\ Settled \subseteq Settled'
    /\ late' \in Nat
    /\ late <= late'
    /\ Cardinality(Listed)' = Cardinality(Listed) + (late' - late)

LEMMA SameList ==
    ASSUME rows \in Seq(Row), rows' \in Seq(Row), late \in Nat, late' = late,
           Visible' = Visible,
           \A i \in Visible : rows'[i].request = rows[i].request,
           \A i \in Visible : rows[i].settled => rows'[i].settled
    PROVE  ListGrows
  <1>1. Listed' = Listed
    BY DEF Listed
  <1>2. Listed \subseteq Visible
    BY DEF Listed
  <1>3. Settled \subseteq Settled'
    BY DEF Settled
  <1>4. Cardinality(Listed) \in Nat
    BY RowsAreFinite
  <1>5. Cardinality(Listed)' = Cardinality(Listed)
    BY <1>1
  <1> QED
    BY <1>1, <1>2, <1>3, <1>4, <1>5 DEF ListGrows

LEMMA InsertGrows ==
    ASSUME Types, RowShape, NEW r \in Request, InsertAudit(r)
    PROVE  ListGrows /\ RowShape'
  <1> DEFINE new == [request |-> r, visible |-> FALSE, settled |-> FALSE]
  <1>1. rows \in Seq(Row) /\ new \in Row /\ rows' = Append(rows, new)
    BY DEF InsertAudit, Types, Row
  <1>2. /\ rows' \in Seq(Row)
        /\ Id = 1 .. Len(rows) /\ Id' = 1 .. Len(rows) + 1 /\ Len(rows) \in Nat
        /\ \A i \in Id : rows'[i] = rows[i]
        /\ rows'[Len(rows) + 1] = new
    <2> HIDE DEF new
    <2> QED
      BY <1>1 DEF Id
  <1>3. \A i \in Id : rows[i].request # r
    BY DEF InsertAudit, RequestsOf
  <1>4. Visible' = Visible
    BY <1>2 DEF Visible
  <1>5. Visible \subseteq Id
    BY DEF Visible
  <1>6. ListGrows
    BY <1>1, <1>2, <1>4, <1>5, SameList DEF InsertAudit, readerVars, Types
  <1>7. \A i \in Id' : i \in Id \/ i = Len(rows) + 1
    BY <1>2
  <1>8. ASSUME NEW i \in Id', NEW j \in Id', rows'[i].request = rows'[j].request
        PROVE  \/ i = j
               \/ i \in Id /\ j \in Id
    <2>1. rows'[Len(rows) + 1].request = r
      BY <1>2
    <2>2. i \in Id => rows'[i].request # r
      BY <1>2, <1>3
    <2>3. j \in Id => rows'[j].request # r
      BY <1>2, <1>3
    <2> QED
      BY <1>7, <1>8, <2>1, <2>2, <2>3
  <1>9. ASSUME NEW i \in Id', NEW j \in Id', rows'[i].request = rows'[j].request
        PROVE  /\ i < j => ~rows'[i].settled
               /\ ~rows'[i].visible => i = j
    <2>1. CASE i = j
      <3>1. i \in Int
        BY <1>2
      <3> QED
        BY <2>1, <3>1
    <2>2. CASE i \in Id /\ j \in Id
      <3>1. rows'[i] = rows[i] /\ rows'[j] = rows[j]
        BY <1>2, <2>2
      <3> QED
        BY <1>9, <2>2, <3>1 DEF RowShape
    <2> QED
      BY <1>8, <1>9, <2>1, <2>2
  <1>10. RowShape'
    BY <1>9 DEF RowShape
  <1> QED
    BY <1>6, <1>10

LEMMA CommitGrows ==
    ASSUME Types, RowShape, NEW n \in Id, InsertCommits(n)
    PROVE  ListGrows /\ RowShape'
  <1>1. /\ rows \in Seq(Row) /\ late \in Nat /\ late' = late + 1
        /\ ~rows[n].visible
        /\ rows' = [rows EXCEPT ![n].visible = TRUE]
    BY DEF InsertCommits, Types
  <1>2. /\ Id = 1 .. Len(rows) /\ Len(rows) \in Nat
        /\ rows \in [Id -> Row]
    BY <1>1 DEF Id
  <1>3. /\ rows' \in [Id -> Row] /\ Id' = Id
        /\ rows'[n] = [rows[n] EXCEPT !.visible = TRUE]
        /\ \A i \in Id : i # n => rows'[i] = rows[i]
    BY <1>1, <1>2 DEF Row, Id
  <1>4. rows' \in Seq(Row)
    BY <1>2, <1>3
  <1>5. \A i \in Id : /\ rows'[i].request = rows[i].request
                      /\ rows'[i].settled = rows[i].settled
                      /\ rows'[i].visible = (rows[i].visible \/ i = n)
    BY <1>1, <1>2, <1>3 DEF Row
  <1>6. RowShape'
    BY <1>3, <1>5 DEF RowShape
  <1>7. Visible' = Visible \cup {n} /\ n \notin Visible /\ Visible \subseteq Id
    BY <1>1, <1>3, <1>5 DEF Visible
  <1>8. \A i \in Visible : rows[i].request # rows[n].request
    BY <1>1, <1>7 DEF RowShape
  <1>9. Listed' = Listed \cup {n} /\ n \notin Listed
    <2>1. Listed' = {i \in Visible \cup {n} : \A j \in Visible \cup {n} :
                        rows'[j].request = rows'[i].request => j <= i}
      BY <1>7 DEF Listed
    <2>2. \A i, j \in Visible \cup {n} :
            (rows'[j].request = rows'[i].request) = (rows[j].request = rows[i].request)
      BY <1>5, <1>7
    <2>3. n <= n
      BY <1>2
    <2> QED
      BY <1>7, <1>8, <2>1, <2>2, <2>3 DEF Listed
  <1>10. Settled \subseteq Settled'
    BY <1>5, <1>7 DEF Settled
  <1>11. Cardinality(Listed') = Cardinality(Listed) + 1
    BY <1>1, <1>9, RowsAreFinite, FS_AddElement
  <1> QED
    BY <1>1, <1>4, <1>5, <1>6, <1>9, <1>10, <1>11, RowsAreFinite DEF ListGrows

LEMMA UpdateGrows ==
    ASSUME Types, RowShape, NEW n \in Id, UpdateAudit(n)
    PROVE  ListGrows /\ RowShape'
  <1>1. /\ rows \in Seq(Row) /\ late \in Nat /\ late' = late
        /\ n \in Listed
        /\ rows' = [rows EXCEPT ![n].settled = TRUE]
    BY DEF UpdateAudit, readerVars, WithOutcome, Types
  <1>2. /\ Id = 1 .. Len(rows) /\ Len(rows) \in Nat
        /\ rows \in [Id -> Row]
    BY <1>1 DEF Id
  <1>3. /\ rows' \in [Id -> Row] /\ Id' = Id
        /\ rows'[n] = [rows[n] EXCEPT !.settled = TRUE]
        /\ \A i \in Id : i # n => rows'[i] = rows[i]
    BY <1>1, <1>2 DEF Row, Id
  <1>4. rows' \in Seq(Row)
    BY <1>2, <1>3
  <1>5. \A i \in Id : /\ rows'[i].request = rows[i].request
                      /\ rows'[i].visible = rows[i].visible
                      /\ rows'[i].settled = (rows[i].settled \/ i = n)
    BY <1>1, <1>2, <1>3 DEF Row
  <1>6. Visible' = Visible /\ Visible \subseteq Id
    BY <1>3, <1>5 DEF Visible
  <1>7. \A j \in Id : rows[j].request = rows[n].request => ~ n < j
    <2> SUFFICES ASSUME NEW j \in Id, rows[j].request = rows[n].request PROVE ~ n < j
      OBVIOUS
    <2>1. CASE rows[j].visible
      BY <1>1, <1>2, <2>1 DEF Listed, Visible
    <2>2. CASE ~rows[j].visible
      BY <1>2, <2>2 DEF RowShape
    <2> QED
      BY <2>1, <2>2
  <1>8. RowShape'
    BY <1>3, <1>5, <1>7 DEF RowShape
  <1> QED
    BY <1>1, <1>4, <1>5, <1>6, <1>8, SameList

-----------------------------------------------------------------------------
(* What the walk has left.                                                 *)

(* Requests with rows behind the first k places are not more than the rows *)
(* there.                                                                  *)
LEMMA AheadAreFew ==
    ASSUME rows \in Seq(Row), NEW B, NEW k \in Nat,
           \A r \in B : \E i \in Listed : rows[i].request = r /\ Place(i) > k
    PROVE  /\ Cardinality(B) \in Nat
           /\ k <= Cardinality(Listed) => Cardinality(B) <= Cardinality(Listed) - k
  <1> DEFINE its(r) == CHOOSE i \in Listed : rows[i].request = r /\ Place(i) > k
             N == k + 1 .. Cardinality(Listed)
             f == [r \in B |-> Place(its(r))]
  <1>1. \A r \in B : its(r) \in Listed /\ rows[its(r)].request = r /\ Place(its(r)) > k
    OBVIOUS
  <1>2. \A r \in B : Place(its(r)) \in N
    <2> HIDE DEF its
    <2> SUFFICES ASSUME NEW r \in B PROVE Place(its(r)) \in N
      OBVIOUS
    <2>1. Place(its(r)) \in 1 .. Cardinality(Listed)
      BY <1>1, PlaceIsANumber
    <2> QED
      BY <1>1, <2>1, RowsAreFinite
  <1>3. \A r, q \in B : Place(its(r)) = Place(its(q)) => r = q
    <2> HIDE DEF its
    <2> QED
      BY <1>1, PlacesDiffer
  <1>4. f \in Injection(B, N)
    <2> HIDE DEF its, N
    <2> QED
      BY <1>2, <1>3 DEF Injection, IsInjective
  <1>5. /\ IsFiniteSet(N)
        /\ Cardinality(N) = IF k + 1 > Cardinality(Listed) THEN 0
                            ELSE Cardinality(Listed) - (k + 1) + 1
    <2>1. k + 1 \in Int /\ Cardinality(Listed) \in Int
      BY RowsAreFinite
    <2> QED
      BY <2>1, FS_Interval
  <1>6. IsFiniteSet(B) /\ Cardinality(B) <= Cardinality(N)
    <2> HIDE DEF f, N
    <2> QED
      BY <1>4, <1>5, FS_Injection
  <1>7. Cardinality(B) \in Nat
    BY <1>6, FS_CardinalityType
  <1> QED
    BY <1>5, <1>6, <1>7, RowsAreFinite

LEMMA PlacesGrow ==
    ASSUME rows \in Seq(Row), ListGrows, NEW i \in Listed
    PROVE  Place(i) \in Int /\ Place(i)' \in Int /\ Place(i) <= Place(i)'
  <1> DEFINE F == {j \in Listed : j >= i}
             T == {j \in Listed' : j >= i}
  <1>1. F \in SUBSET T /\ F \in SUBSET Listed
    BY DEF ListGrows
  <1>2. Listed' \subseteq DOMAIN rows' /\ DOMAIN rows' = 1 .. Len(rows') /\ Len(rows') \in Nat
    BY DEF ListGrows, Listed, Visible, Id
  <1>3. IsFiniteSet(DOMAIN rows')
    BY <1>2, FS_Interval
  <1>4. IsFiniteSet(T)
    <2>1. T \in SUBSET (DOMAIN rows')
      BY <1>2
    <2> HIDE DEF T
    <2> QED
      BY <1>3, <2>1, FS_Subset
  <1>5. IsFiniteSet(F) /\ Cardinality(F) <= Cardinality(T)
    <2> HIDE DEF F, T
    <2> QED
      BY <1>1, <1>4, FS_Subset
  <1>6. Cardinality(F) \in Nat /\ Cardinality(T) \in Nat
    BY <1>4, <1>5, FS_CardinalityType
  <1> QED
    BY <1>5, <1>6 DEF Place

LEMMA AheadGrows ==
    ASSUME rows \in Seq(Row), ListGrows, began' = began, seen' = seen
    PROVE  \A k \in Int : Ahead(k) =>
              \A r \in began' \ seen' :
                 \E i \in Listed' : rows'[i].request = r /\ Place(i)' > k
  <1> SUFFICES ASSUME NEW k \in Int, Ahead(k), NEW r \in began' \ seen'
               PROVE  \E i \in Listed' : rows'[i].request = r /\ Place(i)' > k
    OBVIOUS
  <1>1. PICK i \in Listed : rows[i].request = r /\ Place(i) > k
    BY DEF Ahead
  <1>2. i \in Listed' /\ rows'[i].request = r
    BY <1>1 DEF ListGrows
  <1>3. Place(i)' > k
    BY <1>1, PlacesGrow
  <1> QED
    BY <1>2, <1>3

LEMMA BeforeIsANumber ==
    ASSUME asks \in [page : Nat, size : Nat]
    PROVE  PageSize \in Nat \ {0} /\ Before \in Nat
  <1>1. PageSize \in Nat \ {0}
    BY SizeIsPositive
  <1>2. CASE asks.page = 0
    BY <1>1, <1>2 DEF Before
  <1>3. CASE asks.page # 0
    BY <1>1, <1>3, MorePages DEF Before
  <1> QED
    BY <1>1, <1>2, <1>3

(* Whatever a request writes, a walk under way stays where it was.         *)
LEMMA WriterKeeps ==
    ASSUME IInv, ListGrows, RowShape',
           pc' = pc, asks' = asks, total' = total, answer' = answer,
           began' = began, settled' = settled, seen' = seen
    PROVE  IInv'
  <1>1. Types'
    BY DEF IInv, Types, ListGrows
  <1>2. rows \in Seq(Row) /\ asks \in [page : Nat, size : Nat] /\ late \in Nat
    BY DEF IInv, Types
  <1>3. PageSize' = PageSize /\ Before' = Before
    BY DEF PageSize, Before
  <1>4. WalkShape'
    <2>1. CASE pc \in {"count", "select"}
      <3>1. Ahead(Before)'
        BY <1>2, <1>3, <2>1, AheadGrows, BeforeIsANumber DEF IInv, WalkShape, Ahead
      <3>2. settled' \subseteq Settled'
        BY <2>1 DEF IInv, WalkShape, ListGrows
      <3>3. pc = "select" => Cardinality(Listed)' = total' + late'
        BY <1>2 DEF IInv, Types, WalkShape, ListGrows
      <3> QED
        BY <2>1, <3>1, <3>2, <3>3 DEF WalkShape
    <2>2. CASE pc = "shown"
      <3>1. answer.page \in Nat /\ answer.size = PageSize /\ Ahead(answer.page * PageSize)
        BY <2>2 DEF IInv, WalkShape
      <3>2. answer.page * PageSize \in Int
        BY <1>2, <3>1, BeforeIsANumber, MorePages
      <3>3. Ahead(answer.page * PageSize)'
        BY <1>2, <1>3, <3>1, <3>2, AheadGrows DEF Ahead
      <3> QED
        BY <1>3, <2>2, <3>1, <3>3 DEF WalkShape
    <2>3. CASE pc = "idle"
      BY <2>3 DEF WalkShape
    <2> QED
      BY <2>1, <2>2, <2>3 DEF IInv, Types
  <1>5. NothingIsSkipped'
    <2> SUFFICES ASSUME pc = "shown" PROVE NothingIsSkipped'
      BY DEF NothingIsSkipped
    <2>1. answer.page \in Nat /\ Ahead(answer.page * PageSize)
      BY DEF IInv, WalkShape
    <2>2. answer.page * PageSize \in Nat
      BY <1>2, <2>1, BeforeIsANumber, MorePages
    <2>3. Cardinality(began \ seen) \in Nat
      BY <1>2, <2>1, <2>2, AheadAreFew DEF Ahead
    <2>4. Cardinality(began \ seen) <= late => Cardinality(began' \ seen') <= late'
      BY <1>2, <2>3 DEF ListGrows
    <2> QED
      BY <2>4 DEF IInv, NothingIsSkipped
  <1>6. OneStatePerRequest'
    BY DEF IInv, OneStatePerRequest, Shown
  <1> QED
    BY <1>1, <1>4, <1>5, <1>6 DEF IInv

-----------------------------------------------------------------------------
(* The page that is shown.                                                 *)

Left == Cardinality(Listed) - Offset

Length == IF Left < PageSize THEN Left ELSE PageSize

(* A page is one there is, and begins no later than the one asked for.     *)
LEMMA PageIsThere ==
    ASSUME Types, NEW more \in Nat, Cardinality(Listed) = total + more
    PROVE  /\ Offset <= Before
           /\ Left \in Nat
           /\ Length \in Nat /\ Length <= PageSize
           /\ Page < TotalPages => Length = PageSize
           /\ TotalPages > 0 => Page \in 1 .. TotalPages /\ Length >= 1
           /\ Page >= TotalPages => total <= Page * PageSize
  <1>1. /\ asks \in [page : Nat, size : Nat] /\ asks.page \in Nat /\ total \in Nat
        /\ PageSize \in Nat \ {0}
    BY SizeIsPositive DEF Types
  <1>2. /\ TotalPages \in Nat
        /\ Page \in Nat \ {0}
        /\ Offset \in Nat
        /\ Offset + PageSize = Page * PageSize
    BY <1>1, PagesAreNumbers
  <1>3. /\ total <= TotalPages * PageSize
        /\ (TotalPages - 1) * PageSize < total
        /\ TotalPages = 0 <=> total = 0
    BY <1>1, PagesCover DEF TotalPages
  <1>4. /\ asks.page = 0 => Page = 1
        /\ total = 0 => Page = 1
        /\ asks.page # 0 => Page <= asks.page
        /\ total # 0 => Page <= TotalPages
    BY <1>1, <1>2, <1>3 DEF Page
  <1>5. Page = 1 => Offset = 0
    BY <1>1 DEF Offset
  <1>6. Offset <= Before
    <2>1. CASE asks.page = 0
      BY <1>4, <1>5, <2>1 DEF Before
    <2>2. CASE asks.page # 0
      <3>1. Page - 1 \in Nat /\ asks.page - 1 \in Nat /\ Page - 1 <= asks.page - 1
        BY <1>1, <1>2, <1>4, <2>2
      <3> QED
        BY <1>1, <2>2, <3>1, MorePages DEF Offset, Before
    <2> QED
      BY <2>1, <2>2
  <1>7. total # 0 => Offset < total
    <2> SUFFICES ASSUME total # 0 PROVE Offset < total
      OBVIOUS
    <2>1. Page - 1 \in Nat /\ TotalPages - 1 \in Nat /\ Page - 1 <= TotalPages - 1
      BY <1>2, <1>3, <1>4
    <2>2. /\ (TotalPages - 1) * PageSize \in Nat
          /\ (Page - 1) * PageSize <= (TotalPages - 1) * PageSize
      BY <1>1, <2>1, MorePages
    <2> QED
      BY <1>1, <1>2, <1>3, <2>2 DEF Offset
  <1>8. Left \in Nat /\ (total # 0 => Left >= 1)
    <2>1. CASE total = 0
      BY <1>4, <1>5, <2>1 DEF Left
    <2>2. CASE total # 0
      BY <1>1, <1>2, <1>7, <2>2 DEF Left
    <2> QED
      BY <2>1, <2>2
  <1>9. Length \in Nat /\ Length <= PageSize /\ (total # 0 => Length >= 1)
    BY <1>1, <1>8 DEF Length
  <1>10. Page < TotalPages => Length = PageSize
    <2> SUFFICES ASSUME Page < TotalPages PROVE Length = PageSize
      OBVIOUS
    <2>1. TotalPages - 1 \in Nat /\ Page <= TotalPages - 1
      BY <1>2
    <2>2. (TotalPages - 1) * PageSize \in Nat /\ Page * PageSize <= (TotalPages - 1) * PageSize
      BY <1>1, <1>2, <2>1, MorePages
    <2>3. Offset + PageSize < total
      BY <1>1, <1>2, <1>3, <2>2
    <2> QED
      BY <1>1, <1>2, <2>3 DEF Left, Length
  <1>11. Page >= TotalPages => total <= Page * PageSize
    <2> SUFFICES ASSUME Page >= TotalPages PROVE total <= Page * PageSize
      OBVIOUS
    <2>1. TotalPages * PageSize \in Nat /\ TotalPages * PageSize <= Page * PageSize
      BY <1>1, <1>2, MorePages
    <2> QED
      BY <1>1, <1>2, <1>3, <2>1
  <1> QED
    BY <1>1, <1>2, <1>3, <1>4, <1>6, <1>8, <1>9, <1>10, <1>11

(* What is shown at n is the row n places behind the rows before the page. *)
LEMMA ItemsAreRows ==
    ASSUME Types, Left \in Nat, Length \in Nat
    PROVE  /\ Items \in Seq([request : Request, settled : BOOLEAN])
           /\ Len(Items) = Length
           /\ DOMAIN Items = 1 .. Length
           /\ \A n \in DOMAIN Items : \E i \in Listed :
                 /\ Place(i) = Offset + n
                 /\ Items[n].request = rows[i].request
                 /\ Items[n].settled = rows[i].settled
  <1>1. /\ rows \in Seq(Row) /\ asks \in [page : Nat, size : Nat] /\ total \in Nat
        /\ PageSize \in Nat \ {0} /\ Offset \in Nat /\ Cardinality(Listed) \in Nat
    BY SizeIsPositive, PagesAreNumbers, RowsAreFinite DEF Types
  <1>2. Items = [n \in 1 .. Length |->
                   [request |-> RowAt(Offset + n).request,
                    settled |-> RowAt(Offset + n).settled]]
    BY DEF Items, Left, Length
  <1>3. ASSUME NEW n \in 1 .. Length
        PROVE  \E i \in Listed : Place(i) = Offset + n /\ RowAt(Offset + n) = rows[i]
    <2>1. Offset + n \in 1 .. Cardinality(Listed)
      BY <1>1 DEF Left, Length
    <2>2. PICK i \in Listed : Place(i) = Offset + n
      BY <1>1, <2>1, PlacesAreTaken
    <2>3. RowAt(Place(i)) = rows[i]
      BY <1>1, RowAtPlace
    <2> QED
      BY <2>2, <2>3
  <1>4. ASSUME NEW i \in Listed PROVE rows[i] \in Row
    <2>1. rows \in [Id -> Row] /\ i \in Id
      BY <1>1, RowsAreFinite DEF Id
    <2> QED
      BY <2>1
  <1>5. Items \in [1 .. Length -> [request : Request, settled : BOOLEAN]]
    BY <1>2, <1>3, <1>4 DEF Row
  <1>6. Items \in Seq([request : Request, settled : BOOLEAN]) /\ Len(Items) = Length
    <2> DEFINE Item == [request : Request, settled : BOOLEAN]
    <2>1. Items \in [1 .. Length -> Item]
      BY <1>5
    <2> HIDE DEF Item
    <2>2. Items \in Seq(Item) /\ Len(Items) = Length
      BY <2>1
    <2> QED
      BY <2>2 DEF Item
  <1> QED
    BY <1>2, <1>3, <1>6

-----------------------------------------------------------------------------
(* The steps of the reader.                                                *)

LEMMA AskKeeps ==
    ASSUME IInv, Ask
    PROVE  IInv'
  <1>1. /\ pc' = "count" /\ settled' = Settled
        /\ rows' = rows /\ asks' = asks /\ total' = total /\ late' = late
        /\ began' = IF asks.page <= 1 THEN RequestsOf(Listed) ELSE {}
    BY DEF Ask
  <1>2. rows \in Seq(Row) /\ asks \in [page : Nat, size : Nat]
    BY DEF IInv, Types
  <1>3. /\ Listed' = Listed /\ Settled' = Settled /\ Before' = Before
        /\ \A i \in Listed : Place(i)' = Place(i)
    BY <1>1 DEF Listed, Visible, Id, Settled, Before, PageSize, Place
  <1>4. ASSUME NEW r \in began'
        PROVE  \E i \in Listed : rows[i].request = r /\ Place(i) > Before
    <2>1. asks.page <= 1 /\ r \in RequestsOf(Listed)
      BY <1>1, <1>4
    <2>2. PICK i \in Listed : rows[i].request = r
      BY <2>1 DEF RequestsOf
    <2>3. asks.page = 0 \/ asks.page = 1
      BY <1>2, <2>1
    <2>4. Before = 0
      BY <1>2, <2>3, BeforeIsANumber DEF Before
    <2>5. Place(i) > 0
      BY <1>2, PlaceIsANumber, RowsAreFinite
    <2> QED
      BY <2>2, <2>4, <2>5
  <1>5. Ahead(Before)'
    BY <1>1, <1>3, <1>4 DEF Ahead
  <1> QED
    BY <1>1, <1>3, <1>5
    DEF IInv, Types, RowShape, Id, WalkShape, NothingIsSkipped, OneStatePerRequest

LEMMA CountKeeps ==
    ASSUME IInv, Count
    PROVE  IInv'
  <1>1. /\ pc = "count" /\ pc' = "select" /\ total' = Cardinality(Listed) /\ late' = 0
        /\ rows' = rows /\ asks' = asks /\ began' = began
        /\ settled' = settled /\ seen' = seen
    BY DEF Count
  <1>2. rows \in Seq(Row)
    BY DEF IInv, Types
  <1>3. /\ Listed' = Listed /\ Settled' = Settled /\ Before' = Before
        /\ \A i \in Listed : Place(i)' = Place(i)
    BY <1>1 DEF Listed, Visible, Id, Settled, Before, PageSize, Place
  <1>4. Ahead(Before)'
    BY <1>1, <1>3 DEF IInv, WalkShape, Ahead
  <1>5. Cardinality(Listed) \in Nat
    BY <1>2, RowsAreFinite
  <1>6. Cardinality(Listed)' = total' + late'
    BY <1>1, <1>3, <1>5
  <1> QED
    BY <1>1, <1>3, <1>4, <1>5, <1>6
    DEF IInv, Types, RowShape, Id, WalkShape, NothingIsSkipped, OneStatePerRequest

LEMMA FailedKeeps ==
    ASSUME IInv, Failed
    PROVE  IInv'
  <1>1. /\ pc' = "idle" /\ rows' = rows /\ total' = total /\ late' = late
        /\ asks' = [asks EXCEPT !.page = 1]
    BY DEF Failed
  <1>2. asks' \in [page : Nat, size : Nat]
    BY <1>1 DEF IInv, Types
  <1> QED
    BY <1>1, <1>2
    DEF IInv, Types, RowShape, Id, WalkShape, NothingIsSkipped, OneStatePerRequest

LEMMA NextPageKeeps ==
    ASSUME IInv, NextPage
    PROVE  IInv'
  <1>1. /\ pc = "shown" /\ pc' = "count" /\ settled' = Settled
        /\ rows' = rows /\ total' = total /\ late' = late
        /\ began' = began /\ seen' = seen
        /\ asks' = [asks EXCEPT !.page = answer.page + 1]
    BY DEF NextPage
  <1>2. /\ asks \in [page : Nat, size : Nat] /\ answer.page \in Nat
        /\ answer.size = PageSize /\ Ahead(answer.page * PageSize)
    BY <1>1 DEF IInv, Types, WalkShape
  <1>3. /\ asks' \in [page : Nat, size : Nat]
        /\ asks'.page = answer.page + 1 /\ asks'.size = asks.size
    BY <1>1, <1>2
  <1>4. /\ Listed' = Listed /\ Settled' = Settled
        /\ \A i \in Listed : Place(i)' = Place(i)
    BY <1>1 DEF Listed, Visible, Id, Settled, Place
  <1>5. PageSize' = PageSize
    BY <1>3 DEF PageSize
  <1>6. asks'.page # 0 /\ asks'.page - 1 = answer.page
    BY <1>2, <1>3
  <1>7. Before' = answer.page * PageSize
    BY <1>5, <1>6 DEF Before
  <1>8. Ahead(Before)'
    BY <1>1, <1>2, <1>4, <1>7 DEF Ahead
  <1> QED
    BY <1>1, <1>3, <1>4, <1>8
    DEF IInv, Types, RowShape, Id, WalkShape, NothingIsSkipped, OneStatePerRequest

(* The page shows the next rows: whatever the walk has left stands behind  *)
(* them, and after the last page behind all rows that were counted.        *)
LEMMA SelectKeeps ==
    ASSUME IInv, Select
    PROVE  IInv'
  <1>1. /\ pc = "select" /\ pc' = "shown"
        /\ answer' = [page |-> Page, size |-> PageSize, totalPages |-> TotalPages,
                      items |-> Items]
        /\ seen' = seen \cup {Items[n].request : n \in DOMAIN Items}
        /\ rows' = rows /\ asks' = asks /\ total' = total /\ began' = began
        /\ settled' = settled /\ late' = late
    BY DEF Select
  <1>2. /\ Types /\ RowShape
        /\ rows \in Seq(Row) /\ asks \in [page : Nat, size : Nat]
        /\ total \in Nat /\ late \in Nat
        /\ Cardinality(Listed) = total + late
        /\ Ahead(Before) /\ settled \subseteq Settled
    BY <1>1 DEF IInv, Types, WalkShape
  <1>3. /\ PageSize \in Nat \ {0} /\ PageSize <= MaxSize
        /\ TotalPages \in Nat /\ Page \in Nat \ {0} /\ Offset \in Nat
        /\ Offset + PageSize = Page * PageSize
        /\ Before \in Nat
    BY <1>2, SizeIsPositive, PagesAreNumbers, BeforeIsANumber
  <1>4. /\ Offset <= Before
        /\ Left \in Nat
        /\ Length \in Nat /\ Length <= PageSize
        /\ Page < TotalPages => Length = PageSize
        /\ TotalPages > 0 => Page \in 1 .. TotalPages /\ Length >= 1
        /\ Page >= TotalPages => total <= Page * PageSize
    BY <1>2, PageIsThere
  <1>5. /\ Len(Items) = Length
        /\ DOMAIN Items = 1 .. Length
        /\ \A n \in DOMAIN Items : \E i \in Listed :
              /\ Place(i) = Offset + n
              /\ Items[n].request = rows[i].request
              /\ Items[n].settled = rows[i].settled
    BY <1>2, <1>4, ItemsAreRows
  <1>6. /\ answer'.page = Page /\ answer'.size = PageSize
        /\ answer'.totalPages = TotalPages /\ answer'.items = Items
    BY <1>1
  <1>7. /\ Listed' = Listed /\ PageSize' = PageSize
        /\ \A i \in Listed : Place(i)' = Place(i)
    BY <1>1 DEF Listed, Visible, Id, PageSize, Place
  <1>8. ASSUME NEW r \in began' \ seen'
        PROVE  \E i \in Listed : rows[i].request = r /\ Place(i) > Page * PageSize
    <2>1. r \in began \ seen
      BY <1>1, <1>8
    <2>2. PICK i \in Listed : rows[i].request = r /\ Place(i) > Before
      BY <1>2, <2>1 DEF Ahead
    <2>3. Place(i) \in 1 .. Cardinality(Listed) /\ Cardinality(Listed) \in Nat
      BY <1>2, PlaceIsANumber, RowsAreFinite
    <2>4. SUFFICES ASSUME Place(i) <= Offset + PageSize PROVE FALSE
      BY <1>3, <2>2, <2>3
    <2>5. Place(i) - Offset \in DOMAIN Items
      BY <1>3, <1>4, <1>5, <2>2, <2>3, <2>4 DEF Left, Length
    <2>6. PICK j \in Listed : /\ Place(j) = Offset + (Place(i) - Offset)
                              /\ Items[Place(i) - Offset].request = rows[j].request
      BY <1>5, <2>5
    <2>7. i = j
      BY <1>2, <1>3, <2>3, <2>6, PlacesDiffer
    <2> QED
      BY <1>1, <1>8, <2>2, <2>5, <2>6, <2>7
  <1>9. Types'
    BY <1>1, <1>2 DEF Types
  <1>10. RowShape'
    BY <1>1, <1>2 DEF RowShape, Id
  <1>11. WalkShape'
    <2>1. Ahead(answer.page * PageSize)'
      BY <1>1, <1>6, <1>7, <1>8 DEF Ahead
    <2> QED
      BY <1>1, <1>3, <1>6, <1>7, <2>1 DEF WalkShape
  <1>12. NothingIsSkipped'
    <2>1. Page >= TotalPages => Cardinality(began' \ seen') <= late
      <3> SUFFICES ASSUME Page >= TotalPages PROVE Cardinality(began' \ seen') <= late
        OBVIOUS
      <3>1. total \in Nat /\ Page * PageSize \in Nat /\ total <= Page * PageSize
        BY <1>2, <1>3, <1>4, MorePages
      <3>2. \A r \in began' \ seen' :
               \E i \in Listed : rows[i].request = r /\ Place(i) > total
        <4> SUFFICES ASSUME NEW r \in began' \ seen'
                     PROVE  \E i \in Listed : rows[i].request = r /\ Place(i) > total
          OBVIOUS
        <4>1. PICK i \in Listed : rows[i].request = r /\ Place(i) > Page * PageSize
          BY <1>8
        <4>2. Place(i) \in Int
          BY <1>2, PlaceIsANumber
        <4> QED
          BY <3>1, <4>1, <4>2
      <3>3. total <= Cardinality(Listed)
        BY <1>2
      <3>4. Cardinality(began' \ seen') <= Cardinality(Listed) - total
        BY <1>2, <3>2, <3>3, AheadAreFew
      <3> QED
        BY <1>2, <3>4
    <2>2. TotalPages > 0 => Items # <<>>
      <3>1. TotalPages > 0 => Len(Items) >= 1
        BY <1>4, <1>5
      <3>2. Len(<<>>) = 0
        OBVIOUS
      <3> QED
        BY <3>1, <3>2
    <2> QED
      BY <1>1, <1>3, <1>4, <1>5, <1>6, <2>1, <2>2 DEF NothingIsSkipped
  <1>13. OneStatePerRequest'
    <2> SUFFICES ASSUME NEW r \in Request
                 PROVE  /\ Cardinality(Shown(r)') <= 1
                        /\ r \in settled => \A n \in Shown(r)' : Items[n].settled
      BY <1>1, <1>6 DEF OneStatePerRequest
    <2>1. Shown(r)' = {n \in DOMAIN Items : Items[n].request = r}
      BY <1>6 DEF Shown
    <2>2. ASSUME NEW n \in Shown(r)', NEW m \in Shown(r)' PROVE n = m
      <3>1. PICK i \in Listed : Place(i) = Offset + n /\ rows[i].request = r
        BY <1>5, <2>1
      <3>2. PICK j \in Listed : Place(j) = Offset + m /\ rows[j].request = r
        BY <1>5, <2>1
      <3>3. i = j
        BY <1>2, <3>1, <3>2, OneRowEach
      <3>4. n \in Int /\ m \in Int
        BY <1>5, <2>1
      <3> QED
        BY <1>3, <3>1, <3>2, <3>3, <3>4
    <2>3. Cardinality(Shown(r)') <= 1
      <3>1. CASE Shown(r)' = {}
        <4>1. Cardinality(Shown(r)') = 0
          BY <3>1, FS_EmptySet
        <4> QED
          BY <4>1
      <3>2. CASE \E n : n \in Shown(r)'
        <4>1. PICK n : n \in Shown(r)'
          BY <3>2
        <4>2. Shown(r)' = {n}
          BY <2>2, <4>1
        <4>3. Cardinality(Shown(r)') = 1
          BY <4>2, FS_Singleton
        <4> QED
          BY <4>3
      <3> QED
        BY <3>1, <3>2
    <2>4. ASSUME r \in settled, NEW n \in Shown(r)' PROVE Items[n].settled
      <3>1. PICK i \in Listed : Items[n].request = rows[i].request
                                /\ Items[n].settled = rows[i].settled
        BY <1>5, <2>1
      <3>2. PICK j \in Visible : rows[j].settled /\ rows[j].request = r
        BY <1>2, <2>4 DEF Settled
      <3>3. rows[j].request = rows[i].request /\ j <= i
        BY <2>1, <3>1, <3>2 DEF Listed
      <3>4. i \in Id /\ j \in Id /\ i \in Int /\ j \in Int
        BY <1>2, RowsAreFinite DEF Visible
      <3>5. ~ j < i
        BY <1>2, <3>2, <3>3, <3>4 DEF RowShape
      <3>6. i = j
        BY <3>3, <3>4, <3>5
      <3> QED
        BY <3>1, <3>2, <3>6
    <2> QED
      BY <2>3, <2>4
  <1> QED
    BY <1>9, <1>10, <1>11, <1>12, <1>13 DEF IInv

-----------------------------------------------------------------------------
(* The theorems.                                                           *)

LEMMA StepKeeps ==
    ASSUME IInv, [Next]_vars
    PROVE  IInv'
  <1>1. ASSUME NEW r \in Request, InsertAudit(r) PROVE IInv'
    BY <1>1, InsertGrows, WriterKeeps DEF IInv, InsertAudit, readerVars
  <1>2. ASSUME NEW i \in Id, InsertCommits(i) PROVE IInv'
    BY <1>2, CommitGrows, WriterKeeps DEF IInv, InsertCommits
  <1>3. ASSUME NEW i \in Id, UpdateAudit(i) PROVE IInv'
    BY <1>3, UpdateGrows, WriterKeeps DEF IInv, UpdateAudit, readerVars
  <1>4. CASE UNCHANGED vars
    <2>1. /\ rows' = rows /\ pc' = pc /\ asks' = asks /\ total' = total
          /\ answer' = answer /\ began' = began /\ settled' = settled
          /\ seen' = seen /\ late' = late
      BY <1>4 DEF vars
    <2>2. Visible' = Visible
      BY <2>1 DEF Visible, Id
    <2>3. ListGrows
      BY <2>1, <2>2, SameList DEF IInv, Types
    <2>4. RowShape'
      BY <2>1 DEF IInv, RowShape, Id
    <2> QED
      BY <2>1, <2>3, <2>4, WriterKeeps
  <1> QED
    BY <1>1, <1>2, <1>3, <1>4, AskKeeps, CountKeeps, SelectKeeps, FailedKeeps,
       NextPageKeeps
    DEF Next

(* Where the walk stands, and what it has left, in every reachable state.  *)
THEOREM AuditsInvariance == Spec => []IInv
  <1> QED
    BY InitHolds, StepKeeps, PTL DEF Spec

(* Who walks the list from its first page to its last has seen every       *)
(* request that was listed when the walk began, whatever rows arrive       *)
(* meanwhile, for any page, size and number of rows (store.go:588).        *)
THEOREM WalksSkipNothing == Spec => []NothingIsSkipped
  <1>1. IInv => NothingIsSkipped
    BY DEF IInv
  <1> QED
    BY <1>1, AuditsInvariance, PTL

(* A page shows no request twice, and one that had an outcome when the     *)
(* page was asked for with it, whichever release wrote its rows.           *)
THEOREM OneStateEach == Spec => []OneStatePerRequest
  <1>1. IInv => OneStatePerRequest
    BY DEF IInv
  <1> QED
    BY <1>1, AuditsInvariance, PTL
=============================================================================
