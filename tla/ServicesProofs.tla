--------------------------- MODULE ServicesProofs ---------------------------
(***************************************************************************)
(* The inductive invariants of the parts of MCServices, second half: the   *)
(* rest of the group room (Paging, Inbox, Messaging) and the               *)
(* group shelf (Watchlist, Advisor, Gallery, Milestones), and of their     *)
(* composition, whose invariant is the conjunction of those of all parts.  *)
(***************************************************************************)
EXTENDS DeskProofs

(***************************************************************************)
(* Paging.  The rows of the list are created rows, each once, and the walk *)
(* is at a page that may have rows.                                        *)
(***************************************************************************)

PagesAssumption == MaxRows \in Nat /\ Limit \in Nat \ {0} /\ MaxChanges \in Nat

\* Counting is the same in the part and here.
LEMMA PagingCounted == \A s : L!Cardinality(s) = Cardinality(s)
BY DEF L!Cardinality, Cardinality

LEMMA NextPageIsBounded ==
    ASSUME NEW m \in Nat, NEW n \in Nat \ {0}, NEW p \in Nat \ {0}, NEW t \in 0 .. m, p * n < t
    PROVE  p + 1 \in 1 .. m + 1
<1>1. p <= p * n /\ p * n \in Nat
  OBVIOUS
<1>2. PICK k \in Nat : k = p * n
  BY <1>1
<1>3. p <= k /\ k < t
  BY <1>1, <1>2
<1>4. QED
  BY <1>3

\* A sequence of l elements of S; a section of m of them from a on; two of them joined.
Line(l, Elem) == [1 .. l -> Elem]
IsCut(cut, rows, a, m) == \A j \in 1 .. m : cut[j] = rows[a + j - 1]
IsJoin(both, f, p, g, r) == \A j \in 1 .. r : both[j] = IF j <= p THEN f[j] ELSE g[j - p]
\* rows with x at i; rows without its i-th element.
IsWith(new, rows, i, x, l) ==
    \A j \in 1 .. l + 1 : new[j] = IF j < i THEN rows[j] ELSE IF j = i THEN x ELSE rows[j - 1]
IsWithout(new, rows, i, l) ==
    \A j \in 1 .. l - 1 : new[j] = IF j < i THEN rows[j] ELSE rows[j + 1]

LEMMA RowsAreSeq ==
    ASSUME NEW Elem, NEW l \in Nat, NEW rows \in [1 .. l -> Elem]
    PROVE  rows \in Seq(Elem) /\ Len(rows) = l
OBVIOUS

LEMMA Section ==
    ASSUME NEW Elem, NEW l \in Nat, NEW rows \in Line(l, Elem), NEW a \in 1 .. l + 1, NEW b \in 0 .. l,
           NEW m \in Nat, m = b - a + 1
    PROVE  SubSeq(rows, a, b) \in Line(m, Elem) /\ IsCut(SubSeq(rows, a, b), rows, a, m)
<1>1. \A i \in a .. b : rows[i] \in Elem
  BY DEF Line
<1>2. /\ SubSeq(rows, a, b) \in Seq(Elem)
      /\ Len(SubSeq(rows, a, b)) = IF a <= b THEN b - a + 1 ELSE 0
      /\ \A i \in 1 .. b - a + 1 : SubSeq(rows, a, b)[i] = rows[a + i - 1]
  BY <1>1, SubSeqProperties
<1>3. Len(SubSeq(rows, a, b)) = m
  BY <1>2
<1>4. SubSeq(rows, a, b) \in [1 .. Len(SubSeq(rows, a, b)) -> Elem]
  BY <1>2, LenProperties
<1>5. QED
  BY <1>2, <1>3, <1>4, Zenon DEF Line, IsCut

LEMMA Joined ==
    ASSUME NEW Elem, NEW p \in Nat, NEW q \in Nat, NEW f \in Line(p, Elem), NEW g \in Line(q, Elem),
           NEW r \in Nat, r = p + q
    PROVE  f \o g \in Line(r, Elem) /\ IsJoin(f \o g, f, p, g, r)
<1>1. f \in Seq(Elem) /\ g \in Seq(Elem) /\ Len(f) = p /\ Len(g) = q
  BY RowsAreSeq DEF Line
<1>2. /\ f \o g \in Seq(Elem)
      /\ Len(f \o g) = Len(f) + Len(g)
      /\ \A j \in 1 .. Len(f) + Len(g) : (f \o g)[j] = IF j <= Len(f) THEN f[j] ELSE g[j - Len(f)]
  BY <1>1, ConcatProperties
<1>3. f \o g \in [1 .. Len(f \o g) -> Elem]
  BY <1>2, LenProperties
<1>4. QED
  BY <1>1, <1>2, <1>3, Zenon DEF Line, IsJoin

LEMMA InsertedPoint ==
    ASSUME NEW l \in Nat, NEW rows, NEW i \in 1 .. l + 1, NEW x,
           NEW before, IsCut(before, rows, 1, i - 1),
           NEW after, IsCut(after, rows, i, l - i + 1),
           NEW one, one[1] = x,
           NEW head, IsJoin(head, before, i - 1, one, i),
           NEW new, IsJoin(new, head, i, after, l + 1)
    PROVE  IsWith(new, rows, i, x, l)
<1> SUFFICES ASSUME NEW j \in 1 .. l + 1
             PROVE  new[j] = IF j < i THEN rows[j] ELSE IF j = i THEN x ELSE rows[j - 1]
  BY DEF IsWith
<1>1. CASE j < i
  <2>1. j \in 1 .. i - 1 /\ j \in 1 .. i /\ 1 + j - 1 = j
    BY <1>1
  <2>2. QED
    BY <1>1, <2>1 DEF IsCut, IsJoin
<1>2. CASE j = i
  <2>1. j - (i - 1) = 1 /\ i \in 1 .. i
    BY <1>2
  <2>2. QED
    BY <1>2, <2>1 DEF IsJoin
<1>3. CASE j > i
  <2>1. j - i \in 1 .. l - i + 1 /\ i + (j - i) - 1 = j - 1
    BY <1>3
  <2>2. after[j - i] = rows[i + (j - i) - 1]
    BY <2>1 DEF IsCut
  <2>3. new[j] = after[j - i]
    BY <1>3 DEF IsJoin
  <2>4. QED
    BY <1>3, <2>1, <2>2, <2>3
<1>4. QED
  BY <1>1, <1>2, <1>3

LEMMA InsertedAt ==
    ASSUME NEW Elem, NEW l \in Nat, NEW rows \in Line(l, Elem), NEW i \in 1 .. l + 1, NEW x \in Elem
    PROVE  L!InsertAt(rows, i, x) \in Line(l + 1, Elem) /\ IsWith(L!InsertAt(rows, i, x), rows, i, x, l)
<1>1. PICK before : before = SubSeq(rows, 1, i - 1)
  OBVIOUS
<1>2. PICK after : after = SubSeq(rows, i, l)
  OBVIOUS
<1>3. PICK one : one = <<x>>
  OBVIOUS
<1>4. PICK head : head = before \o one
  OBVIOUS
<1>5. PICK new : new = head \o after
  OBVIOUS
<1>6. before \in Line(i - 1, Elem) /\ IsCut(before, rows, 1, i - 1)
  <2>1. i - 1 \in 0 .. l /\ i - 1 \in Nat /\ 1 \in 1 .. l + 1 /\ i - 1 = (i - 1) - 1 + 1
    OBVIOUS
  <2>2. QED
    BY <1>1, <2>1, Section
<1>7. l - i + 1 \in Nat /\ after \in Line(l - i + 1, Elem) /\ IsCut(after, rows, i, l - i + 1)
  <2>1. l \in 0 .. l /\ l - i + 1 \in Nat
    OBVIOUS
  <2>2. QED
    BY <1>2, <2>1, Section
<1>8. one \in Line(1, Elem) /\ one[1] = x
  BY <1>3 DEF Line
<1>9. head \in Line(i, Elem) /\ IsJoin(head, before, i - 1, one, i)
  <2>1. i \in Nat /\ i - 1 \in Nat /\ 1 \in Nat /\ i = (i - 1) + 1
    OBVIOUS
  <2>2. QED
    BY <1>4, <1>6, <1>8, <2>1, Joined
<1>10. new \in Line(l + 1, Elem) /\ IsJoin(new, head, i, after, l + 1)
  <2>1. i \in Nat /\ l + 1 \in Nat /\ l + 1 = i + (l - i + 1)
    OBVIOUS
  <2>2. QED
    BY <1>5, <1>7, <1>9, <2>1, Joined
<1>11. IsWith(new, rows, i, x, l)
  BY <1>6, <1>7, <1>8, <1>9, <1>10, InsertedPoint
<1>12. new = L!InsertAt(rows, i, x)
  <2>1. Len(rows) = l
    BY RowsAreSeq DEF Line
  <2>2. QED
    BY <1>1, <1>2, <1>3, <1>4, <1>5, <2>1, Zenon DEF L!InsertAt
<1>13. QED
  BY <1>10, <1>11, <1>12

LEMMA InsertedOnce ==
    ASSUME NEW l \in Nat, NEW rows, NEW i \in 1 .. l + 1, NEW x,
           NEW new,
           IsWith(new, rows, i, x, l),
           \A j \in 1 .. l : rows[j] # x,
           \A j, k \in 1 .. l : rows[j] = rows[k] => j = k,
           NEW j \in 1 .. l + 1, NEW k \in 1 .. l + 1, new[j] = new[k]
    PROVE  j = k
<1>1. CASE j = i \/ k = i
  BY <1>1 DEF IsWith
<1>2. CASE j < i /\ k < i
  BY <1>2 DEF IsWith
<1>3. CASE j > i /\ k > i
  BY <1>3 DEF IsWith
<1>4. CASE j < i /\ k > i
  BY <1>4 DEF IsWith
<1>5. CASE j > i /\ k < i
  BY <1>5 DEF IsWith
<1>6. QED
  BY <1>1, <1>2, <1>3, <1>4, <1>5

LEMMA RemovedPoint ==
    ASSUME NEW l \in Nat, NEW rows, NEW i \in 1 .. l,
           NEW before, IsCut(before, rows, 1, i - 1),
           NEW after, IsCut(after, rows, i + 1, l - i),
           NEW new, IsJoin(new, before, i - 1, after, l - 1)
    PROVE  IsWithout(new, rows, i, l)
<1> SUFFICES ASSUME NEW j \in 1 .. l - 1
             PROVE  new[j] = IF j < i THEN rows[j] ELSE rows[j + 1]
  BY DEF IsWithout
<1>1. CASE j < i
  <2>1. j \in 1 .. i - 1 /\ 1 + j - 1 = j
    BY <1>1
  <2>2. QED
    BY <1>1, <2>1 DEF IsCut, IsJoin
<1>2. CASE ~(j < i)
  <2>1. j - (i - 1) \in 1 .. l - i /\ (i + 1) + (j - (i - 1)) - 1 = j + 1
    BY <1>2
  <2>2. after[j - (i - 1)] = rows[(i + 1) + (j - (i - 1)) - 1]
    BY <2>1 DEF IsCut
  <2>3. new[j] = after[j - (i - 1)]
    BY <1>2 DEF IsJoin
  <2>4. QED
    BY <1>2, <2>1, <2>2, <2>3
<1>3. QED
  BY <1>1, <1>2

LEMMA RemovedAt ==
    ASSUME NEW Elem, NEW l \in Nat, NEW rows \in Line(l, Elem), NEW i \in 1 .. l
    PROVE  L!RemoveAt(rows, i) \in Line(l - 1, Elem) /\ IsWithout(L!RemoveAt(rows, i), rows, i, l)
<1>1. PICK before : before = SubSeq(rows, 1, i - 1)
  OBVIOUS
<1>2. PICK after : after = SubSeq(rows, i + 1, l)
  OBVIOUS
<1>3. PICK new : new = before \o after
  OBVIOUS
<1>4. i - 1 \in Nat /\ before \in Line(i - 1, Elem) /\ IsCut(before, rows, 1, i - 1)
  <2>1. i - 1 \in 0 .. l /\ i - 1 \in Nat /\ 1 \in 1 .. l + 1 /\ i - 1 = (i - 1) - 1 + 1
    OBVIOUS
  <2>2. QED
    BY <1>1, <2>1, Section
<1>5. l - i \in Nat /\ after \in Line(l - i, Elem) /\ IsCut(after, rows, i + 1, l - i)
  <2>1. i + 1 \in 1 .. l + 1 /\ l \in 0 .. l /\ l - i \in Nat /\ l - i = l - (i + 1) + 1
    OBVIOUS
  <2>2. QED
    BY <1>2, <2>1, Section
<1>6. new \in Line(l - 1, Elem) /\ IsJoin(new, before, i - 1, after, l - 1)
  <2>1. l - 1 \in Nat /\ l - 1 = (i - 1) + (l - i)
    OBVIOUS
  <2>2. QED
    BY <1>3, <1>4, <1>5, <2>1, Joined
<1>7. IsWithout(new, rows, i, l)
  BY <1>4, <1>5, <1>6, RemovedPoint
<1>8. new = L!RemoveAt(rows, i)
  <2>1. Len(rows) = l
    BY RowsAreSeq DEF Line
  <2>2. QED
    BY <1>1, <1>2, <1>3, <2>1, Zenon DEF L!RemoveAt
<1>9. QED
  BY <1>6, <1>7, <1>8

LEMMA RemovedOnce ==
    ASSUME NEW Elem, NEW l \in Nat, NEW rows \in Line(l, Elem), NEW i \in 1 .. l,
           NEW new,
           IsWithout(new, rows, i, l),
           \A j, k \in 1 .. l : rows[j] = rows[k] => j = k,
           NEW j \in 1 .. l - 1
    PROVE  /\ new[j] # rows[i]
           /\ \A k \in 1 .. l - 1 : new[j] = new[k] => j = k
<1>1. new[j] # rows[i]
  BY DEF IsWithout
<1>2. ASSUME NEW k \in 1 .. l - 1, new[j] = new[k]
      PROVE  j = k
  <2>1. CASE j < i /\ k < i
    BY <1>2, <2>1 DEF IsWithout
  <2>2. CASE j < i /\ ~(k < i)
    BY <1>2, <2>2 DEF IsWithout
  <2>3. CASE ~(j < i) /\ k < i
    BY <1>2, <2>3 DEF IsWithout
  <2>4. CASE ~(j < i) /\ ~(k < i)
    BY <1>2, <2>4 DEF IsWithout
  <2>5. QED
    BY <2>1, <2>2, <2>3, <2>4
<1>3. QED
  BY <1>1, <1>2

LEMMA RemovedFirst ==
    ASSUME NEW Elem, NEW l \in Nat, NEW rows \in Line(l, Elem), NEW i \in 1 .. l,
           \A j, k \in 1 .. l : rows[j] = rows[k] => j = k
    PROVE  L!RemoveFirst(rows, rows[i]) = L!RemoveAt(rows, i)
<1>1. Len(rows) = l
  BY RowsAreSeq DEF Line
<1>2. {j \in 1 .. l : rows[j] = rows[i]} = {i}
  OBVIOUS
<1>3. L!Min({i}) = i
  BY DEF L!Min
<1>4. L!SelectInSeq(rows, LAMBDA v : v = rows[i]) = i
  BY <1>1, <1>2, <1>3 DEF L!SelectInSeq
<1>5. QED
  BY <1>1, <1>4 DEF L!RemoveFirst
\* rows has l rows of the first n, each once.
IsListed(rows, l, n) ==
    rows \in Line(l, 1 .. n) /\ \A j, k \in 1 .. l : rows[j] = rows[k] => j = k

LEMMA ListedIsBounded ==
    ASSUME NEW n \in Nat, NEW l \in Nat, NEW rows, IsListed(rows, l, n)
    PROVE  l <= n
<1>1. IsFiniteSet(1 .. n) /\ Cardinality(1 .. n) = n
  <2>1. IsFiniteSet(1 .. n) /\ Cardinality(1 .. n) = IF 1 > n THEN 0 ELSE n - 1 + 1
    BY FS_Interval
  <2>2. QED
    BY <2>1
<1>2. IsFiniteSet(1 .. l) /\ Cardinality(1 .. l) = l
  <2>1. IsFiniteSet(1 .. l) /\ Cardinality(1 .. l) = IF 1 > l THEN 0 ELSE l - 1 + 1
    BY FS_Interval
  <2>2. QED
    BY <2>1
<1>3. rows \in [1 .. l -> 1 .. n]
  BY DEF IsListed, Line
<1>4. ~(n < l)
  <2>1. ASSUME n < l
        PROVE  FALSE
    <3>1. Cardinality(1 .. n) < Cardinality(1 .. l)
      BY <1>1, <1>2, <2>1
    <3>2. \E x, y \in 1 .. l : x # y /\ rows[x] = rows[y]
      BY <1>1, <1>2, <1>3, <3>1, FS_PigeonHole, Zenon
    <3>3. QED
      BY <3>2 DEF IsListed
  <2>2. QED
    BY <2>1
<1>5. QED
  BY <1>4

LEMMA ListedWith ==
    ASSUME NEW n \in Nat, NEW l \in Nat, NEW rows, IsListed(rows, l, n),
           NEW i \in 1 .. l + 1, NEW x \in 1 .. n, \A j \in 1 .. l : rows[j] # x
    PROVE  IsListed(L!InsertAt(rows, i, x), l + 1, n)
<1>1. rows \in Line(l, 1 .. n) /\ \A j, k \in 1 .. l : rows[j] = rows[k] => j = k
  BY DEF IsListed
<1>2. PICK new : new = L!InsertAt(rows, i, x)
  OBVIOUS
<1>3. new \in Line(l + 1, 1 .. n) /\ IsWith(new, rows, i, x, l)
  BY <1>1, <1>2, InsertedAt
<1>4. \A j, k \in 1 .. l + 1 : new[j] = new[k] => j = k
  BY <1>1, <1>3, InsertedOnce
<1>5. QED
  BY <1>2, <1>3, <1>4 DEF IsListed

LEMMA ListedWithout ==
    ASSUME NEW n \in Nat, NEW l \in Nat, NEW rows, IsListed(rows, l, n), NEW x, L!Contains(rows, x)
    PROVE  /\ l - 1 \in Nat /\ x \in 1 .. n
           /\ IsListed(L!RemoveFirst(rows, x), l - 1, n)
           /\ \A j \in 1 .. l - 1 : L!RemoveFirst(rows, x)[j] # x
<1>1. rows \in Line(l, 1 .. n) /\ \A j, k \in 1 .. l : rows[j] = rows[k] => j = k
  BY DEF IsListed
<1>2. Len(rows) = l
  BY <1>1, RowsAreSeq DEF Line
<1>3. PICK i \in 1 .. l : rows[i] = x
  BY <1>2 DEF L!Contains
<1>4. L!RemoveFirst(rows, x) = L!RemoveAt(rows, i)
  BY <1>1, <1>3, RemovedFirst
<1>5. PICK new : new = L!RemoveFirst(rows, x)
  OBVIOUS
<1>6. new \in Line(l - 1, 1 .. n) /\ IsWithout(new, rows, i, l)
  BY <1>1, <1>4, <1>5, RemovedAt
<1>7. \A j \in 1 .. l - 1 : new[j] # rows[i] /\ \A k \in 1 .. l - 1 : new[j] = new[k] => j = k
  BY <1>1, <1>6, RemovedOnce
<1>8. x \in 1 .. n
  BY <1>1, <1>3 DEF Line
<1>9. QED
  BY <1>3, <1>5, <1>6, <1>7, <1>8 DEF IsListed

\* Rows of the first n are rows of the first m as well.
LEMMA ListedLater ==
    ASSUME NEW n \in Nat, NEW m \in Nat, n <= m, NEW l \in Nat, NEW rows, IsListed(rows, l, n)
    PROVE  IsListed(rows, l, m)
BY DEF IsListed, Line

LEMMA ListedIsInjective ==
    ASSUME NEW n \in Nat, NEW l \in Nat, NEW rows, IsListed(rows, l, n)
    PROVE  /\ L!ToSet(rows) \subseteq 1 .. n
           /\ L!IsInjective(rows)
           /\ Len(rows) = l
<1>1. rows \in [1 .. l -> 1 .. n] /\ \A j, k \in 1 .. l : rows[j] = rows[k] => j = k
  BY DEF IsListed, Line
<1>2. QED
  BY <1>1, RowsAreSeq DEF L!ToSet, L!IsInjective

LEMMA PlaceIsAmong ==
    ASSUME list.sorted \in L!Sort, NEW n \in Nat, NEW l \in Nat, NEW rows, IsListed(rows, l, n),
           NEW x, NEW i \in L!Places(x, rows)
    PROVE  i \in 1 .. l + 1
<1>1. DOMAIN rows = 1 .. l /\ Len(rows) = l
  BY ListedIsInjective DEF IsListed, Line
<1>2. CASE list.sorted = "created"
  <2>1. PICK before : before = {j \in DOMAIN rows : (rows[j] < x) = list.ascending}
    OBVIOUS
  <2>2. before \subseteq 1 .. l
    BY <1>1, <2>1
  <2>3. IsFiniteSet(1 .. l) /\ Cardinality(1 .. l) = l
    <3>1. IsFiniteSet(1 .. l) /\ Cardinality(1 .. l) = IF 1 > l THEN 0 ELSE l - 1 + 1
      BY FS_Interval
    <3>2. QED
      BY <3>1
  <2>4. Cardinality(before) \in Nat /\ Cardinality(before) <= l
    <3>1. IsFiniteSet(before) /\ Cardinality(before) <= Cardinality(1 .. l)
      BY <2>2, <2>3, FS_Subset
    <3>2. QED
      BY <2>3, <3>1, FS_CardinalityType
  <2>5. i = Cardinality(before) + 1
    BY PagingCounted, <1>2, <2>1 DEF L!Places
  <2>6. QED
    BY <2>4, <2>5
<1>3. CASE list.sorted = "updated"
  BY PagingCounted, <1>1, <1>3 DEF L!Places, L!Newest
<1>4. CASE list.sorted = "other"
  BY PagingCounted, <1>1, <1>4 DEF L!Places
<1>5. QED
  BY <1>2, <1>3, <1>4 DEF L!Sort

Walking ==
    [at : {"ask", "end"}, page : 1 .. MaxRows + 1, data : BOOLEAN, total : 0 .. MaxRows + 1,
     listed : SUBSET L!Row, seen : SUBSET L!Row, twice : Nat, changes : 0 .. MaxChanges]

\* The walk alone, and the list.
WalkInv == walk = L!Resting \/ walk \in Walking
ListInv ==
    /\ list \in L!List
    /\ created \in 0 .. MaxRows
    /\ \E l \in 0 .. created : IsListed(shown, l, created)
PagingInv == ListInv /\ WalkInv

LEMMA ListIsSorted ==
    ASSUME list \in L!List
    PROVE  list.sorted \in L!Sort
BY DEF L!List, L!ProjectList, L!UserList, L!InvestmentList, L!TransactionList, L!EngagementList, L!DealList,
       L!TenantList, L!AlertList, L!DisputeList, L!MyDisputeList, L!AssessorList, L!AvailableAssessorList,
       L!AllTransactionList, L!AuditLogList, L!Listing, L!Sort

LEMMA PageIsOfRows ==
    ASSUME PagesAssumption, ListInv, NEW page
    PROVE  L!Page(page) \subseteq L!Row /\ IsFiniteSet(L!Page(page))
<1>1. PICK l \in 0 .. created : shown \in [1 .. l -> 1 .. created]
  BY DEF ListInv, IsListed, Line
<1>2. created \in 0 .. MaxRows /\ MaxRows \in Nat
  BY DEF ListInv, PagesAssumption
<1>3. L!Page(page) \subseteq L!Row
  BY <1>1, <1>2 DEF L!Page, L!Row
<1>4. IsFiniteSet(L!Row)
  BY <1>2, FS_Interval DEF L!Row
<1>5. QED
  BY <1>3, <1>4, FS_Subset

LEMMA PagingInit ==
    ASSUME PagesAssumption, L!Init
    PROVE  PagingInv
<1>1. IsListed(<<>>, 0, 0)
  BY DEF IsListed, Line
<1>2. QED
  BY <1>1 DEF PagesAssumption, L!Init, PagingInv, ListInv, WalkInv

LEMMA ChangeIsTyped ==
    ASSUME PagesAssumption, WalkInv, L!Change
    PROVE  WalkInv'
<1>1. CASE walk = L!Resting
  BY <1>1 DEF L!Change, WalkInv
<1>2. CASE walk # L!Resting
  <2>1. walk \in Walking /\ walk.changes < MaxChanges /\ walk' = [walk EXCEPT !.changes = @ + 1]
    BY <1>2 DEF WalkInv, L!Change
  <2>2. walk.changes \in 0 .. MaxChanges
    BY <2>1 DEF Walking
  <2>3. walk.changes + 1 \in 0 .. MaxChanges
    BY <2>1, <2>2 DEF PagesAssumption
  <2>4. walk' \in Walking
    BY <2>1, <2>3 DEF Walking
  <2>5. QED
    BY <2>4 DEF WalkInv
<1>3. QED
  BY <1>1, <1>2

LEMMA PagingNext ==
    ASSUME PagesAssumption, PagingInv, L!Next \/ UNCHANGED L!vars
    PROVE  PagingInv'
<1> USE DEF PagesAssumption
<1>1. ListInv /\ WalkInv /\ list.sorted \in L!Sort
  BY ListIsSorted DEF PagingInv, ListInv
<1>2. list \in L!List /\ created \in 0 .. MaxRows /\ created \in Nat
  BY <1>1 DEF ListInv
<1>l. PICK l \in 0 .. created : IsListed(shown, l, created)
  BY <1>1 DEF ListInv
<1>3. l \in Nat
  BY <1>2, <1>l
<1>4. CASE L!Create
  <2>1. PICK i \in L!Places(created + 1, shown) : shown' = L!InsertAt(shown, i, created + 1)
    BY <1>4 DEF L!Create
  <2>2. i \in 1 .. l + 1
    BY <1>1, <1>2, <1>l, <1>3, PlaceIsAmong
  <2>3. created + 1 \in 0 .. MaxRows /\ created + 1 \in Nat /\ created' = created + 1 /\ list' = list
    BY <1>2, <1>4 DEF L!Create
  <2>4. IsListed(shown, l, created + 1)
    BY <1>2, <1>l, <1>3, <2>3, ListedLater
  <2>5. \A j \in 1 .. l : shown[j] # created + 1
    BY <1>2, <1>l, <1>3 DEF IsListed, Line
  <2>6. IsListed(shown', l + 1, created')
    <3>1. created + 1 \in 1 .. created + 1
      BY <1>2
    <3>2. IsListed(L!InsertAt(shown, i, created + 1), l + 1, created + 1)
      BY <1>3, <2>2, <2>3, <2>4, <2>5, <3>1, ListedWith
    <3>3. QED
      BY <2>1, <2>3, <3>2
  <2>7. l + 1 \in 0 .. created'
    BY <1>2, <1>l, <2>3
  <2>8. QED
    BY <1>1, <1>2, <1>4, <2>3, <2>6, <2>7, ChangeIsTyped DEF L!Create, PagingInv, ListInv
<1>5. CASE \E x \in L!Row : L!Leave(x)
  <2>1. PICK x \in L!Row : L!Leave(x)
    BY <1>5
  <2>2. l - 1 \in Nat /\ IsListed(L!RemoveFirst(shown, x), l - 1, created)
    BY <1>2, <1>l, <1>3, <2>1, ListedWithout DEF L!Leave
  <2>3. l - 1 \in 0 .. created
    BY <1>2, <1>l, <2>2
  <2>4. QED
    BY <1>1, <1>2, <2>1, <2>2, <2>3, ChangeIsTyped DEF L!Leave, PagingInv, ListInv
<1>6. CASE \E x \in L!Row : L!Enter(x)
  <2>1. PICK x \in L!Row : L!Enter(x)
    BY <1>6
  <2>2. PICK i \in L!Places(x, shown) : shown' = L!InsertAt(shown, i, x)
    BY <2>1 DEF L!Enter
  <2>3. i \in 1 .. l + 1
    BY <1>1, <1>2, <1>l, <1>3, PlaceIsAmong
  <2>4. Len(shown) = l
    BY <1>2, <1>l, <1>3, ListedIsInjective
  <2>5. \A j \in 1 .. l : shown[j] # x
    BY <2>1, <2>4 DEF L!Enter, L!Contains
  <2>6. x \in 1 .. created /\ list' = list /\ created' = created /\ L!Change
    BY <2>1 DEF L!Enter
  <2>7. IsListed(shown', l + 1, created)
    BY <1>2, <1>l, <1>3, <2>2, <2>3, <2>5, <2>6, ListedWith
  <2>8. l + 1 \in 0 .. created
    BY <1>2, <1>3, <2>7, ListedIsBounded
  <2>9. QED
    BY <1>1, <1>2, <2>6, <2>7, <2>8, ChangeIsTyped DEF PagingInv, ListInv
<1>7. CASE \E x \in L!Row : L!Touch(x)
  <2>1. PICK x \in L!Row : L!Touch(x)
    BY <1>7
  <2>2. /\ l - 1 \in Nat /\ x \in 1 .. created
        /\ IsListed(L!RemoveFirst(shown, x), l - 1, created)
        /\ \A j \in 1 .. l - 1 : L!RemoveFirst(shown, x)[j] # x
    BY <1>2, <1>l, <1>3, <2>1, ListedWithout DEF L!Touch
  <2>3. PICK others : others = L!RemoveFirst(shown, x)
    OBVIOUS
  <2>4. PICK i \in L!Places(x, others) : shown' = L!InsertAt(others, i, x)
    BY <2>1, <2>3 DEF L!Touch
  <2>5. IsListed(others, l - 1, created)
    BY <2>2, <2>3
  <2>6. i \in 1 .. (l - 1) + 1
    BY <1>1, <1>2, <2>2, <2>5, PlaceIsAmong
  <2>7. IsListed(shown', (l - 1) + 1, created)
    BY <1>2, <2>2, <2>3, <2>4, <2>5, <2>6, ListedWith
  <2>8. (l - 1) + 1 = l
    BY <1>3
  <2>9. list' = list /\ created' = created /\ L!Change
    BY <2>1 DEF L!Touch
  <2>10. QED
    BY <1>1, <1>2, <1>l, <2>7, <2>8, <2>9, ChangeIsTyped DEF PagingInv, ListInv
<1>8. Len(shown) \in 0 .. MaxRows + 1 /\ L!ToSet(shown) \subseteq L!Row
  <2>1. L!ToSet(shown) \subseteq 1 .. created /\ Len(shown) = l
    BY <1>2, <1>l, <1>3, ListedIsInjective
  <2>2. l \in 0 .. MaxRows + 1 /\ 1 .. created \subseteq L!Row
    BY <1>2, <1>l DEF L!Row
  <2>3. QED
    BY <2>1, <2>2
<1>9. CASE L!Start
  <2>1. list' = list /\ created' = created /\ shown' = shown
    BY <1>9 DEF L!Start
  <2>2. walk' \in Walking
    BY <1>8, <1>9 DEF L!Start, Walking
  <2>3. QED
    BY <1>1, <2>1, <2>2 DEF PagingInv, ListInv, WalkInv
<1>10. CASE L!ReadData
  <2>1. list' = list /\ created' = created /\ shown' = shown
    BY PagingCounted, <1>10 DEF L!ReadData
  <2>2. walk \in Walking
    BY PagingCounted, <1>1, <1>10 DEF L!ReadData, WalkInv, L!Resting
  <2>3. PICK got : got = L!Page(walk.page)
    OBVIOUS
  <2>4. got \subseteq L!Row /\ IsFiniteSet(got)
    BY <1>1, <2>3, PageIsOfRows
  <2>5. Cardinality(walk.seen \cap got) \in Nat
    <3>1. IsFiniteSet(walk.seen \cap got)
      BY <2>4, FS_Subset
    <3>2. QED
      BY <3>1, FS_CardinalityType
  <2>6. PICK twice \in Nat : twice = walk.twice + Cardinality(walk.seen \cap got)
    <3>1. walk.twice \in Nat
      BY <2>2 DEF Walking
    <3>2. QED
      BY <2>5, <3>1
  <2>7. PICK seen \in SUBSET L!Row : seen = walk.seen \cup got
    BY <2>2, <2>4 DEF Walking
  <2>8. walk' = [walk EXCEPT !.data = TRUE, !.seen = seen, !.twice = twice]
    BY PagingCounted, <1>10, <2>3, <2>6, <2>7, Zenon DEF L!ReadData
  <2>9. walk' \in Walking
    BY <2>2, <2>8 DEF Walking
  <2>10. QED
    BY <1>1, <2>1, <2>9 DEF PagingInv, ListInv, WalkInv
<1>11. CASE L!ReadTotal
  <2>1. list' = list /\ created' = created /\ shown' = shown
    BY <1>11 DEF L!ReadTotal
  <2>2. walk \in Walking
    BY <1>1, <1>11 DEF L!ReadTotal, WalkInv, L!Resting
  <2>3. PICK total \in 0 .. MaxRows + 1 : total = Len(shown)
    BY <1>8
  <2>4. walk' = [walk EXCEPT !.total = total]
    BY <1>11, <2>3, Zenon DEF L!ReadTotal
  <2>5. walk' \in Walking
    BY <2>2, <2>4 DEF Walking
  <2>6. QED
    BY <1>1, <2>1, <2>5 DEF PagingInv, ListInv, WalkInv
<1>12. CASE L!GoOn
  <2>1. list' = list /\ created' = created /\ shown' = shown
    BY <1>12 DEF L!GoOn
  <2>2. walk \in Walking
    BY <1>1, <1>12 DEF L!GoOn, WalkInv, L!Resting
  <2>3. walk.page \in 1 .. MaxRows + 1 /\ walk.total \in 0 .. MaxRows + 1 /\ walk.total # MaxRows + 1
    BY <1>12, <2>2 DEF L!GoOn, Walking
  <2>4. CASE L!HasNextPage(walk.page, walk.total)
    <3>1. walk.page * Limit < walk.total
      BY <2>4 DEF L!HasNextPage
    <3>2. MaxRows \in Nat /\ Limit \in Nat \ {0} /\ walk.page \in Nat \ {0} /\ walk.total \in 0 .. MaxRows
      BY <2>3
    <3>3. walk.page + 1 \in 1 .. MaxRows + 1
      BY <3>1, <3>2, NextPageIsBounded, Zenon
    <3>4. PICK next \in 1 .. MaxRows + 1 : next = walk.page + 1
      BY <3>3
    <3>5. walk' = [walk EXCEPT !.page = next, !.data = FALSE, !.total = MaxRows + 1]
      BY <1>12, <2>4, <3>4, Zenon DEF L!GoOn
    <3>6. MaxRows + 1 \in 0 .. MaxRows + 1
      OBVIOUS
    <3>7. walk' \in Walking
      BY <2>2, <3>5, <3>6 DEF Walking
    <3>8. QED
      BY <1>1, <2>1, <3>7 DEF PagingInv, ListInv, WalkInv
  <2>5. CASE ~L!HasNextPage(walk.page, walk.total)
    <3>1. walk' = [walk EXCEPT !.at = "end"]
      BY <1>12, <2>5 DEF L!GoOn
    <3>2. walk' \in Walking
      BY <2>2, <3>1 DEF Walking
    <3>3. QED
      BY <1>1, <2>1, <3>2 DEF PagingInv, ListInv, WalkInv
  <2>6. QED
    BY <2>4, <2>5
<1>13. CASE L!Finish
  BY <1>1, <1>13 DEF L!Finish, PagingInv, ListInv, WalkInv
<1>14. CASE UNCHANGED L!vars
  BY <1>1, <1>14 DEF L!vars, PagingInv, ListInv, WalkInv
<1>15. QED
  BY <1>4, <1>5, <1>6, <1>7, <1>9, <1>10, <1>11, <1>12, <1>13, <1>14 DEF L!Next

LEMMA PagingHolds ==
    ASSUME PagesAssumption, PagingInv
    PROVE  L!TypeOK
<1>1. ListInv /\ WalkInv
  BY DEF PagingInv
<1>2. PICK l \in 0 .. created : IsListed(shown, l, created)
  BY <1>1 DEF ListInv
<1>3. created \in 0 .. MaxRows /\ created \in Nat /\ l \in Nat
  BY <1>1, <1>2 DEF ListInv, PagesAssumption
<1>4. L!ToSet(shown) \subseteq 1 .. created /\ L!IsInjective(shown)
  BY <1>2, <1>3, ListedIsInjective
<1>5. walk.at \in {"rest", "ask", "end"}
  BY <1>1 DEF WalkInv, L!Resting, Walking
<1>6. walk # L!Resting =>
          /\ walk.page \in 1 .. MaxRows + 1
          /\ walk.total \in 0 .. MaxRows + 1
          /\ walk.seen \cup walk.listed \subseteq L!Row
          /\ walk.changes \in 0 .. MaxChanges
  BY <1>1 DEF WalkInv, Walking
<1>7. QED
  BY <1>1, <1>3, <1>4, <1>5, <1>6 DEF L!TypeOK, ListInv

(***************************************************************************)
(* The walk: what it has lost, and what it will meet again, is no more     *)
(* than what changed since it began.                                       *)
(***************************************************************************)

\* The rows at the places after b, up to e.
Between(rows, b, e) == {rows[i] : i \in {n \in DOMAIN rows : n > b /\ n <= e}}

LEMMA BetweenOf ==
    ASSUME NEW l \in Nat, NEW rows, NEW Elem, rows \in Line(l, Elem), NEW b \in Nat, NEW e \in Nat
    PROVE  Between(rows, b, e) = {rows[i] : i \in {n \in 1 .. l : n > b /\ n <= e}}
BY DEF Between, Line

\* One set has at most one element that another has not.
OneMore(more, less) == \E y : more \subseteq less \cup {y}

\* A row put in, taken out or moved changes those between two places by one row at most.
LEMMA BetweenWith ==
    ASSUME NEW l \in Nat, NEW rows, NEW Elem, rows \in Line(l, Elem), NEW b \in Nat, NEW e \in Nat, b <= e,
           NEW new \in Line(l + 1, Elem), NEW i \in 1 .. l + 1, NEW x, IsWith(new, rows, i, x, l)
    PROVE  /\ OneMore(Between(new, b, e), Between(rows, b, e))
           /\ OneMore(Between(rows, b, e), Between(new, b, e))
<1> DEFINE Old == {rows[j] : j \in {n \in 1 .. l : n > b /\ n <= e}}
<1> DEFINE New == {new[j] : j \in {n \in 1 .. l + 1 : n > b /\ n <= e}}
<1>0. Between(rows, b, e) = Old /\ Between(new, b, e) = New
  BY BetweenOf
<1>1. CASE i <= b
  <2>1. New \subseteq Old \cup {rows[b]}
    BY <1>1 DEF IsWith
  <2>2. Old \subseteq New \cup {rows[e]}
    <3> SUFFICES ASSUME NEW j \in 1 .. l, j > b, j <= e, j # e PROVE rows[j] \in New
      OBVIOUS
    <3>1. j + 1 \in 1 .. l + 1 /\ j + 1 > b /\ j + 1 <= e /\ new[j + 1] = rows[j]
      BY <1>1 DEF IsWith
    <3>2. QED
      BY <3>1
  <2>3. QED
    BY <1>0, <2>1, <2>2 DEF OneMore
<1>2. CASE i > b /\ i <= e
  <2>1. New \subseteq Old \cup {x}
    <3> SUFFICES ASSUME NEW j \in 1 .. l + 1, j > b, j <= e, j # i PROVE new[j] \in Old
      BY DEF IsWith
    <3>1. CASE j < i
      BY <1>2, <3>1 DEF IsWith
    <3>2. CASE j > i
      <4>1. j - 1 \in 1 .. l /\ j - 1 > b /\ j - 1 <= e /\ new[j] = rows[j - 1]
        BY <1>2, <3>2 DEF IsWith
      <4>2. QED
        BY <4>1
    <3>3. QED
      BY <3>1, <3>2
  <2>2. Old \subseteq New \cup {rows[e]}
    <3> SUFFICES ASSUME NEW j \in 1 .. l, j > b, j <= e, j # e PROVE rows[j] \in New
      OBVIOUS
    <3>1. CASE j < i
      <4>1. j \in 1 .. l + 1 /\ new[j] = rows[j]
        BY <3>1 DEF IsWith
      <4>2. QED
        BY <4>1
    <3>2. CASE j >= i
      <4>1. j + 1 \in 1 .. l + 1 /\ j + 1 > b /\ j + 1 <= e /\ new[j + 1] = rows[j]
        BY <3>2 DEF IsWith
      <4>2. QED
        BY <4>1
    <3>3. QED
      BY <3>1, <3>2
  <2>3. QED
    BY <1>0, <2>1, <2>2 DEF OneMore
<1>3. CASE i > e
  <2>1. New = Old
    <3>1. \A j : j \in 1 .. l + 1 /\ j > b /\ j <= e <=> j \in 1 .. l /\ j > b /\ j <= e
      BY <1>3
    <3>2. \A j \in 1 .. l : j <= e => new[j] = rows[j]
      BY <1>3 DEF IsWith
    <3>3. QED
      BY <3>1, <3>2
  <2>2. QED
    BY <1>0, <2>1 DEF OneMore
<1>4. QED
  BY <1>1, <1>2, <1>3

LEMMA BetweenWithout ==
    ASSUME NEW l \in Nat, NEW rows, NEW Elem, rows \in Line(l, Elem), NEW b \in Nat, NEW e \in Nat, b <= e,
           NEW i \in 1 .. l, NEW new, new \in Line(l - 1, Elem), IsWithout(new, rows, i, l)
    PROVE  /\ OneMore(Between(new, b, e), Between(rows, b, e))
           /\ OneMore(Between(rows, b, e), Between(new, b, e))
<1>1. PICK m \in Nat : m = l - 1 /\ l = m + 1
  OBVIOUS
<1>2. IsWith(rows, new, i, rows[i], m)
  BY <1>1 DEF IsWith, IsWithout
<1>3. rows \in Line(m + 1, Elem) /\ new \in Line(m, Elem) /\ i \in 1 .. m + 1
  BY <1>1
<1>4. \A r : r \in Line(m + 1, Elem) /\ IsWith(r, new, i, rows[i], m) =>
          /\ OneMore(Between(r, b, e), Between(new, b, e))
          /\ OneMore(Between(new, b, e), Between(r, b, e))
  BY <1>3, BetweenWith
<1>5. QED
  BY <1>2, <1>3, <1>4

\* Rows that come of the same others by putting in the same row.
LEMMA BetweenMoved ==
    ASSUME NEW l \in Nat, NEW others, NEW Elem, others \in Line(l, Elem), NEW b \in Nat, NEW e \in Nat, b <= e,
           NEW x, NEW i \in 1 .. l + 1, NEW j \in 1 .. l + 1,
           NEW old \in Line(l + 1, Elem), IsWith(old, others, i, x, l),
           NEW new \in Line(l + 1, Elem), IsWith(new, others, j, x, l)
    PROVE  OneMore(Between(new, b, e), Between(old, b, e))
<1> DEFINE Old == {old[k] : k \in {n \in 1 .. l + 1 : n > b /\ n <= e}}
<1> DEFINE New == {new[k] : k \in {n \in 1 .. l + 1 : n > b /\ n <= e}}
<1>0. Between(old, b, e) = Old /\ Between(new, b, e) = New
  BY DEF Between, Line
<1>1. CASE i <= b /\ j <= b
  <2>1. \A k \in 1 .. l + 1 : k > b => old[k] = new[k]
    BY <1>1 DEF IsWith
  <2>2. New \subseteq Old \cup {x}
    BY <2>1
  <2>3. QED
    BY <1>0, <2>2 DEF OneMore
<1>2. CASE i > e /\ j > e
  <2>1. \A k \in 1 .. l + 1 : k <= e => old[k] = new[k]
    BY <1>2 DEF IsWith
  <2>2. New \subseteq Old \cup {x}
    BY <2>1
  <2>3. QED
    BY <1>0, <2>2 DEF OneMore
<1>3. CASE i <= b /\ j > b
  \* what is gained is at the last place or is x
  <2>1. ASSUME NEW k \in 1 .. l + 1, k > b, k <= e, k # j, k # e \/ j <= e
        PROVE  new[k] \in Old
    <3>1. CASE k < j
      <4>1. k + 1 \in 1 .. l + 1 /\ k + 1 > b /\ k + 1 <= e /\ old[k + 1] = others[k] /\ new[k] = others[k]
        BY <1>3, <2>1, <3>1 DEF IsWith
      <4>2. QED
        BY <4>1
    <3>2. CASE k > j
      <4>1. old[k] = others[k - 1] /\ new[k] = others[k - 1]
        BY <1>3, <2>1, <3>2 DEF IsWith
      <4>2. QED
        BY <2>1, <4>1
    <3>3. QED
      BY <2>1, <3>1, <3>2
  <2>2. CASE j <= e
    <3>1. New \subseteq Old \cup {new[j]}
      BY <2>1, <2>2
    <3>2. QED
      BY <1>0, <3>1 DEF OneMore
  <2>3. CASE j > e
    <3>1. New \subseteq Old \cup {new[e]}
      BY <2>1, <2>3
    <3>2. QED
      BY <1>0, <3>1 DEF OneMore
  <2>4. QED
    BY <2>2, <2>3
<1>4. CASE i > e /\ j <= e
  <2>1. ASSUME NEW k \in 1 .. l + 1, k > b, k <= e, k # j, k # b + 1 \/ j > b
        PROVE  new[k] \in Old
    <3>1. CASE k < j
      <4>1. old[k] = others[k] /\ new[k] = others[k]
        BY <1>4, <2>1, <3>1 DEF IsWith
      <4>2. QED
        BY <2>1, <4>1
    <3>2. CASE k > j
      <4>1. k - 1 \in 1 .. l + 1 /\ k - 1 > b /\ k - 1 <= e /\ old[k - 1] = others[k - 1] /\ new[k] = others[k - 1]
        BY <1>4, <2>1, <3>2 DEF IsWith
      <4>2. QED
        BY <4>1
    <3>3. QED
      BY <2>1, <3>1, <3>2
  <2>2. CASE j > b
    <3>1. New \subseteq Old \cup {new[j]}
      BY <2>1, <2>2
    <3>2. QED
      BY <1>0, <3>1 DEF OneMore
  <2>3. CASE j <= b
    <3>1. New \subseteq Old \cup {new[b + 1]}
      BY <2>1, <2>3
    <3>2. QED
      BY <1>0, <3>1 DEF OneMore
  <2>4. QED
    BY <2>2, <2>3
<1>5. CASE i > b /\ i <= e /\ j > b
  \* x stays between or leaves for the last place
  <2>1. ASSUME NEW k \in 1 .. l + 1, k > b, k <= e, k # j, k # e \/ j <= e
        PROVE  new[k] \in Old
    <3>1. new[k] = IF k < j THEN others[k] ELSE others[k - 1]
      BY <2>1 DEF IsWith
    <3>2. CASE k < j /\ k < i
      BY <2>1, <3>1, <3>2 DEF IsWith
    <3>3. CASE k < j /\ k >= i
      <4>1. k + 1 \in 1 .. l + 1 /\ k + 1 > b /\ k + 1 <= e /\ old[k + 1] = others[k]
        BY <1>5, <2>1, <3>3 DEF IsWith
      <4>2. QED
        BY <3>1, <3>3, <4>1
    <3>4. CASE k > j /\ k > i
      BY <2>1, <3>1, <3>4 DEF IsWith
    <3>5. CASE k > j /\ k <= i
      <4>1. k - 1 \in 1 .. l + 1 /\ k - 1 > b /\ k - 1 <= e /\ old[k - 1] = others[k - 1]
        BY <1>5, <2>1, <3>5 DEF IsWith
      <4>2. QED
        BY <3>1, <3>5, <4>1
    <3>6. QED
      BY <2>1, <3>2, <3>3, <3>4, <3>5
  <2>2. CASE j <= e
    <3>1. New \subseteq Old \cup {new[j]}
      BY <2>1, <2>2
    <3>2. QED
      BY <1>0, <3>1 DEF OneMore
  <2>3. CASE j > e
    <3>1. New \subseteq Old \cup {new[e]}
      BY <2>1, <2>3
    <3>2. QED
      BY <1>0, <3>1 DEF OneMore
  <2>4. QED
    BY <2>2, <2>3
<1>6. CASE i > b /\ i <= e /\ j <= b
  <2>1. ASSUME NEW k \in 1 .. l + 1, k > b, k <= e, k # b + 1
        PROVE  new[k] \in Old
    <3>1. CASE k <= i
      <4>1. k - 1 \in 1 .. l + 1 /\ k - 1 > b /\ k - 1 <= e /\ old[k - 1] = others[k - 1] /\ new[k] = others[k - 1]
        BY <1>6, <2>1, <3>1 DEF IsWith
      <4>2. QED
        BY <4>1
    <3>2. CASE k > i
      <4>1. old[k] = others[k - 1] /\ new[k] = others[k - 1]
        BY <1>6, <2>1, <3>2 DEF IsWith
      <4>2. QED
        BY <2>1, <4>1
    <3>3. QED
      BY <2>1, <3>1, <3>2
  <2>2. New \subseteq Old \cup {new[b + 1]}
    BY <2>1
  <2>3. QED
    BY <1>0, <2>2 DEF OneMore
<1>7. QED
  BY <1>1, <1>2, <1>3, <1>4, <1>5, <1>6

LEMMA OneMoreCounted ==
    ASSUME NEW more, NEW less, OneMore(more, less), IsFiniteSet(less)
    PROVE  /\ IsFiniteSet(more) /\ Cardinality(more) \in Nat /\ Cardinality(less) \in Nat
           /\ Cardinality(more) <= Cardinality(less) + 1
<1>1. PICK y : more \subseteq less \cup {y}
  BY DEF OneMore
<1> PICK all : all = less \cup {y}
  OBVIOUS
<1>2. Cardinality(less) \in Nat
  BY FS_CardinalityType
<1>3. IsFiniteSet(all) /\ Cardinality(all) \in Nat /\ Cardinality(all) <= Cardinality(less) + 1
  <2>1. CASE y \in less
    <3>1. all = less
      BY <2>1
    <3>2. QED
      BY <1>2, <3>1
  <2>2. CASE y \notin less
    <3>1. IsFiniteSet(all) /\ Cardinality(all) = Cardinality(less) + 1
      BY <2>2, FS_AddElement
    <3>2. QED
      BY <1>2, <3>1
  <2>3. QED
    BY <2>1, <2>2
<1>4. more \subseteq all
  BY <1>1
<1>5. IsFiniteSet(more) /\ Cardinality(more) <= Cardinality(all)
  BY <1>3, <1>4, FS_Subset
<1>6. Cardinality(more) \in Nat
  BY <1>5, FS_CardinalityType
<1>7. QED
  BY <1>2, <1>3, <1>5, <1>6

\* The list changes, and no part of it by more than a row.
ListMoves ==
    \A b, e \in Nat : b <= e =>
        /\ OneMore(Between(shown', b, e), Between(shown, b, e))
        /\ OneMore(Between(shown, b, e), Between(shown', b, e))

LEMMA TakenOut ==
    ASSUME NEW l \in Nat, NEW Elem, NEW rows, rows \in Line(l, Elem),
           \A j, k \in 1 .. l : rows[j] = rows[k] => j = k, NEW x, L!Contains(rows, x)
    PROVE  \E i \in 1 .. l :
               /\ rows[i] = x
               /\ L!RemoveFirst(rows, x) \in Line(l - 1, Elem)
               /\ IsWithout(L!RemoveFirst(rows, x), rows, i, l)
<1>1. Len(rows) = l
  BY RowsAreSeq DEF Line
<1>2. PICK i \in 1 .. l : rows[i] = x
  BY <1>1 DEF L!Contains
<1>3. L!RemoveFirst(rows, x) = L!RemoveAt(rows, i)
  BY <1>2, RemovedFirst
<1>4. QED
  BY <1>2, <1>3, RemovedAt

LEMMA RowsMove ==
    ASSUME PagesAssumption, PagingInv, L!Create \/ \E x \in L!Row : L!Leave(x) \/ L!Enter(x) \/ L!Touch(x)
    PROVE  ListMoves
<1>1. ListInv /\ list.sorted \in L!Sort /\ created \in Nat
  BY ListIsSorted DEF PagingInv, ListInv, PagesAssumption
<1>2. PICK l \in 0 .. created : IsListed(shown, l, created)
  BY <1>1 DEF ListInv
<1>3. l \in Nat /\ shown \in Line(l, Nat)
  BY <1>1, <1>2 DEF IsListed, Line
<1>4. \A j, k \in 1 .. l : shown[j] = shown[k] => j = k
  BY <1>2 DEF IsListed
<1>5. SUFFICES ASSUME NEW b \in Nat, NEW e \in Nat, b <= e
               PROVE  /\ OneMore(Between(shown', b, e), Between(shown, b, e))
                      /\ OneMore(Between(shown, b, e), Between(shown', b, e))
  BY DEF ListMoves
<1>6. ASSUME NEW x \in Nat, NEW i \in L!Places(x, shown), shown' = L!InsertAt(shown, i, x)
      PROVE  /\ OneMore(Between(shown', b, e), Between(shown, b, e))
             /\ OneMore(Between(shown, b, e), Between(shown', b, e))
  <2>1. i \in 1 .. l + 1
    BY <1>1, <1>2, <1>3, PlaceIsAmong
  <2>2. shown' \in Line(l + 1, Nat) /\ IsWith(shown', shown, i, x, l)
    BY <1>3, <1>6, <2>1, InsertedAt
  <2>3. QED
    BY <1>3, <1>5, <2>1, <2>2, BetweenWith
<1>7. CASE L!Create
  <2>1. created + 1 \in Nat
    BY <1>1
  <2>2. QED
    BY <1>6, <1>7, <2>1 DEF L!Create
<1>8. CASE \E x \in L!Row : L!Enter(x)
  <2>1. PICK x \in L!Row : L!Enter(x)
    BY <1>8
  <2>2. x \in Nat
    BY <1>1, <2>1 DEF L!Enter
  <2>3. QED
    BY <1>6, <2>1, <2>2 DEF L!Enter
<1>9. CASE \E x \in L!Row : L!Leave(x)
  <2>1. PICK x \in L!Row : L!Leave(x)
    BY <1>9
  <2>2. L!Contains(shown, x) /\ shown' = L!RemoveFirst(shown, x)
    BY <2>1 DEF L!Leave
  <2>3. PICK i \in 1 .. l : shown' \in Line(l - 1, Nat) /\ IsWithout(shown', shown, i, l)
    BY <1>3, <1>4, <2>2, TakenOut
  <2>4. QED
    BY <1>3, <1>5, <2>3, BetweenWithout
<1>10. CASE \E x \in L!Row : L!Touch(x)
  <2>1. PICK x \in L!Row : L!Touch(x)
    BY <1>10
  <2> PICK others : others = L!RemoveFirst(shown, x)
    OBVIOUS
  <2>2. L!Contains(shown, x)
    BY <2>1 DEF L!Touch
  <2>3. PICK i \in 1 .. l : shown[i] = x /\ others \in Line(l - 1, Nat) /\ IsWithout(others, shown, i, l)
    BY <1>3, <1>4, <2>2, TakenOut
  <2>4. PICK m \in Nat : m = l - 1 /\ l = m + 1
    BY <1>3
  <2>5. shown \in Line(m + 1, Nat) /\ others \in Line(m, Nat) /\ i \in 1 .. m + 1 /\ x \in Nat
    BY <1>3, <2>3, <2>4 DEF Line
  <2>6. IsWith(shown, others, i, x, m)
    BY <2>3, <2>4 DEF IsWith, IsWithout
  <2>7. PICK j \in L!Places(x, others) : shown' = L!InsertAt(others, j, x)
    BY <2>1 DEF L!Touch
  <2>8. IsListed(others, m, created)
    <3>1. IsListed(L!RemoveFirst(shown, x), l - 1, created)
      BY <1>1, <1>2, <1>3, <2>2, ListedWithout
    <3>2. QED
      BY <2>4, <3>1
  <2>9. j \in 1 .. m + 1
    BY <1>1, <2>7, <2>8, PlaceIsAmong
  <2>10. shown' \in Line(m + 1, Nat) /\ IsWith(shown', others, j, x, m)
    BY <2>5, <2>7, <2>9, InsertedAt
  <2>11. QED
    BY <1>5, <2>5, <2>6, <2>9, <2>10, BetweenMoved
<1>11. QED
  BY <1>7, <1>8, <1>9, <1>10

(***************************************************************************)
(* The walk: what it will still read, unless the list changes.             *)
(***************************************************************************)
AtLastPage == walk.total # MaxRows + 1 /\ ~L!HasNextPage(walk.page, walk.total)
WalkFrom == IF walk.data THEN walk.page * Limit ELSE (walk.page - 1) * Limit
WalkTo == IF AtLastPage THEN walk.page * Limit ELSE walk.page * Limit + MaxRows
Ahead == Between(shown, WalkFrom, WalkTo)
\* Listed, and neither read nor to be read; read, and to be read again.
Lost == walk.listed \ (walk.seen \cup Ahead)
Again == walk.seen \cap Ahead

OldestFirst == [moving |-> FALSE, sorted |-> "created", ascending |-> TRUE]

CloseInv ==
    walk # L!Resting =>
        /\ walk.seen \subseteq 1 .. created
        /\ Cardinality(Lost) <= walk.changes
        /\ walk.twice + Cardinality(Again) <= walk.changes
        /\ walk.at = "end" => walk.data /\ AtLastPage
        /\ list = OldestFirst => Lost = {} /\ Again = {} /\ walk.twice = 0

LEMMA PlacesAhead ==
    ASSUME PagesAssumption, walk \in Walking
    PROVE  /\ WalkFrom \in Nat /\ WalkTo \in Nat /\ WalkFrom <= WalkTo
           /\ walk.page * Limit \in Nat /\ (walk.page - 1) * Limit \in Nat
           /\ (walk.page - 1) * Limit <= walk.page * Limit
           /\ (walk.page + 1) * Limit \in Nat /\ walk.page * Limit <= (walk.page + 1) * Limit
<1>1. walk.page \in 1 .. MaxRows + 1 /\ walk.data \in BOOLEAN
  BY DEF Walking
<1>2. PICK p \in Nat : p = walk.page - 1 /\ walk.page = p + 1
  BY <1>1 DEF PagesAssumption
<1>3. p * Limit \in Nat /\ (p + 1) * Limit = p * Limit + Limit /\ (p + 1 + 1) * Limit = p * Limit + Limit + Limit
  BY DEF PagesAssumption
<1>4. PICK k \in Nat : k = p * Limit
  BY <1>3
<1>5. (walk.page - 1) * Limit = k /\ walk.page * Limit = k + Limit /\ (walk.page + 1) * Limit = k + Limit + Limit
  BY <1>2, <1>3, <1>4
<1>6. QED
  BY <1>1, <1>5 DEF PagesAssumption, WalkFrom, WalkTo

LEMMA WalkIsFinite ==
    ASSUME PagesAssumption, walk \in Walking
    PROVE  IsFiniteSet(Lost) /\ Cardinality(Lost) \in Nat /\ IsFiniteSet(Again) /\ Cardinality(Again) \in Nat
<1>1. IsFiniteSet(L!Row)
  BY FS_Interval DEF L!Row, PagesAssumption
<1>2. Lost \subseteq L!Row /\ Again \subseteq L!Row
  BY DEF Lost, Again, Walking
<1>3. QED
  BY <1>1, <1>2, FS_Subset, FS_CardinalityType

\* A change of the list, noted by a walk under way.
LEMMA CloseAfterChange ==
    ASSUME PagesAssumption, PagingInv, CloseInv, ListMoves, L!Change,
           list' = list, created' \in Nat, created <= created', created \in Nat,
           list = OldestFirst => \E x : /\ x \notin 1 .. created
                                        /\ \A b, e \in Nat : b <= e =>
                                            /\ Between(shown, b, e) \subseteq Between(shown', b, e)
                                            /\ Between(shown', b, e) \subseteq Between(shown, b, e) \cup {x}
    PROVE  CloseInv'
<1>1. CASE walk = L!Resting
  BY <1>1 DEF L!Change, CloseInv
<1>2. CASE walk # L!Resting
  <2>1. walk \in Walking /\ walk' = [walk EXCEPT !.changes = @ + 1]
    BY <1>2 DEF PagingInv, WalkInv, L!Change
  <2>2. /\ walk'.page = walk.page /\ walk'.total = walk.total /\ walk'.data = walk.data /\ walk'.at = walk.at
        /\ walk'.seen = walk.seen /\ walk'.listed = walk.listed /\ walk'.twice = walk.twice
        /\ walk'.changes = walk.changes + 1
    BY <2>1 DEF Walking
  <2>3. walk.changes \in Nat /\ walk.twice \in Nat
    BY <2>1 DEF Walking, PagesAssumption
  <2>4. WalkFrom' = WalkFrom /\ WalkTo' = WalkTo /\ (AtLastPage <=> AtLastPage')
    BY <2>2 DEF WalkFrom, WalkTo, AtLastPage, L!HasNextPage
  <2>5. WalkFrom \in Nat /\ WalkTo \in Nat /\ WalkFrom <= WalkTo
    BY <2>1, PlacesAhead
  <2>6. Ahead' = Between(shown', WalkFrom, WalkTo)
    BY <2>4 DEF Ahead, Between
  <2>7. OneMore(Ahead', Ahead) /\ OneMore(Ahead, Ahead')
    BY <2>5, <2>6 DEF ListMoves, Ahead
  <2>8. OneMore(Lost', Lost) /\ OneMore(Again', Again)
    BY <2>2, <2>7 DEF OneMore, Lost, Again
  <2>9. IsFiniteSet(Lost) /\ Cardinality(Lost) \in Nat /\ IsFiniteSet(Again) /\ Cardinality(Again) \in Nat
    BY <2>1, WalkIsFinite
  <2>10. Cardinality(Lost') \in Nat /\ Cardinality(Lost') <= Cardinality(Lost) + 1
    BY <2>8, <2>9, OneMoreCounted
  <2>11. Cardinality(Again') \in Nat /\ Cardinality(Again') <= Cardinality(Again) + 1
    BY <2>8, <2>9, OneMoreCounted
  <2>12. /\ walk.seen \subseteq 1 .. created
         /\ Cardinality(Lost) <= walk.changes
         /\ walk.twice + Cardinality(Again) <= walk.changes
         /\ walk.at = "end" => walk.data /\ AtLastPage
         /\ list = OldestFirst => Lost = {} /\ Again = {} /\ walk.twice = 0
    BY <1>2 DEF CloseInv
  <2>13. walk'.seen \subseteq 1 .. created'
    BY <2>2, <2>12
  <2>14. Cardinality(Lost') <= walk'.changes
    BY <2>2, <2>3, <2>9, <2>10, <2>12
  <2>15. walk'.twice + Cardinality(Again') <= walk'.changes
    BY <2>2, <2>3, <2>9, <2>11, <2>12
  <2>16. walk'.at = "end" => walk'.data /\ AtLastPage'
    BY <2>2, <2>4, <2>12
  <2>17. ASSUME list' = OldestFirst
         PROVE  Lost' = {} /\ Again' = {} /\ walk'.twice = 0
    <3>1. Lost = {} /\ Again = {} /\ walk.twice = 0
      BY <2>12, <2>17
    <3>2. PICK x : x \notin 1 .. created /\ Ahead \subseteq Ahead' /\ Ahead' \subseteq Ahead \cup {x}
      BY <2>5, <2>6, <2>17 DEF Ahead
    <3>3. QED
      BY <2>2, <2>12, <3>1, <3>2 DEF Lost, Again
  <2>18. QED
    BY <2>13, <2>14, <2>15, <2>16, <2>17 DEF CloseInv
<1>3. QED
  BY <1>1, <1>2

\* A list whose rows stay and come last only grows at its end.
LEMMA GrowsAtEnd ==
    ASSUME PagesAssumption, PagingInv, L!Create, list = OldestFirst,
           NEW b \in Nat, NEW e \in Nat, b <= e
    PROVE  /\ Between(shown, b, e) \subseteq Between(shown', b, e)
           /\ Between(shown', b, e) \subseteq Between(shown, b, e) \cup {created + 1}
<1>1. ListInv /\ created \in Nat
  BY DEF PagingInv, ListInv, PagesAssumption
<1>2. PICK l \in 0 .. created : IsListed(shown, l, created)
  BY <1>1 DEF ListInv
<1>3. l \in Nat /\ shown \in Line(l, Nat) /\ DOMAIN shown = 1 .. l
  BY <1>1, <1>2 DEF IsListed, Line
<1>4. list.sorted = "created" /\ list.ascending = TRUE
  BY DEF OldestFirst
<1> PICK x : x = created + 1
  OBVIOUS
<1>5. {i \in DOMAIN shown : (shown[i] < x) = list.ascending} = 1 .. l
  <2>1. \A i \in 1 .. l : shown[i] < x
    BY <1>1, <1>2 DEF IsListed, Line
  <2>2. QED
    BY <1>3, <1>4, <2>1
<1>6. Cardinality(1 .. l) = l
  <2>1. IsFiniteSet(1 .. l) /\ Cardinality(1 .. l) = IF 1 > l THEN 0 ELSE l - 1 + 1
    BY <1>3, FS_Interval
  <2>2. QED
    BY <1>3, <2>1
<1>7. L!Places(x, shown) = {l + 1}
  BY <1>4, <1>5, <1>6, PagingCounted DEF L!Places
<1>8. shown' = L!InsertAt(shown, l + 1, x)
  BY <1>7 DEF L!Create
<1>9. shown' \in Line(l + 1, Nat) /\ IsWith(shown', shown, l + 1, x, l)
  <2>1. l + 1 \in 1 .. l + 1 /\ x \in Nat
    BY <1>1, <1>3
  <2>2. QED
    BY <1>3, <1>8, <2>1, InsertedAt
<1>10. DOMAIN shown' = 1 .. l + 1
  BY <1>9 DEF Line
<1>11. (\A j \in 1 .. l : shown'[j] = shown[j]) /\ shown'[l + 1] = x
  BY <1>3, <1>9 DEF IsWith
<1>12. Between(shown, b, e) \subseteq Between(shown', b, e)
  <2> SUFFICES ASSUME NEW j \in 1 .. l, j > b, j <= e PROVE shown[j] \in Between(shown', b, e)
    BY <1>3 DEF Between
  <2>1. j \in 1 .. l + 1 /\ shown'[j] = shown[j]
    BY <1>3, <1>11
  <2>2. QED
    BY <1>10, <2>1 DEF Between
<1>13. Between(shown', b, e) \subseteq Between(shown, b, e) \cup {x}
  <2> SUFFICES ASSUME NEW j \in 1 .. l + 1, j > b, j <= e, j # l + 1 PROVE shown'[j] \in Between(shown, b, e)
    BY <1>10, <1>11 DEF Between
  <2>1. j \in 1 .. l /\ shown'[j] = shown[j]
    BY <1>3, <1>11
  <2>2. QED
    BY <1>3, <2>1 DEF Between
<1>14. QED
  BY <1>12, <1>13

LEMMA ListKeepsClose ==
    ASSUME PagesAssumption, PagingInv, CloseInv,
           L!Create \/ \E x \in L!Row : L!Leave(x) \/ L!Enter(x) \/ L!Touch(x)
    PROVE  CloseInv'
<1>1. ListMoves
  BY RowsMove
<1>2. created \in Nat
  BY DEF PagingInv, ListInv, PagesAssumption
<1>3. CASE L!Create
  <2>1. list' = list /\ created' = created + 1 /\ L!Change
    BY <1>3 DEF L!Create
  <2>2. created + 1 \notin 1 .. created /\ created + 1 \in Nat /\ created <= created + 1
    BY <1>2
  <2>3. list = OldestFirst => \A b, e \in Nat : b <= e =>
            /\ Between(shown, b, e) \subseteq Between(shown', b, e)
            /\ Between(shown', b, e) \subseteq Between(shown, b, e) \cup {created + 1}
    BY <1>3, GrowsAtEnd
  <2>4. QED
    BY <1>1, <1>2, <2>1, <2>2, <2>3, CloseAfterChange
<1>4. CASE \E x \in L!Row : L!Leave(x) \/ L!Enter(x) \/ L!Touch(x)
  <2>1. list' = list /\ created' = created /\ L!Change /\ list # OldestFirst
    BY <1>4 DEF L!Leave, L!Enter, L!Touch, OldestFirst
  <2>2. QED
    BY <1>1, <1>2, <2>1, CloseAfterChange
<1>5. QED
  BY <1>3, <1>4

\* Every place there is lies between a place and another that is MaxRows later.
LEMMA AllPlaces ==
    ASSUME PagesAssumption, ListInv
    PROVE  \E l \in 0 .. MaxRows :
               /\ DOMAIN shown = 1 .. l /\ Len(shown) = l
               /\ L!ToSet(shown) = {shown[i] : i \in 1 .. l}
               /\ \A j, k \in 1 .. l : shown[j] = shown[k] => j = k
               /\ \A i \in 1 .. l : shown[i] \in 1 .. created
<1>1. created \in 0 .. MaxRows /\ created \in Nat
  BY DEF ListInv, PagesAssumption
<1>2. PICK l \in 0 .. created : IsListed(shown, l, created)
  BY DEF ListInv
<1>3. l \in 0 .. MaxRows /\ l \in Nat
  BY <1>1, <1>2 DEF PagesAssumption
<1>4. shown \in [1 .. l -> 1 .. created] /\ \A j, k \in 1 .. l : shown[j] = shown[k] => j = k
  BY <1>2 DEF IsListed, Line
<1>5. Len(shown) = l /\ L!ToSet(shown) = {shown[i] : i \in 1 .. l}
  BY <1>4, <1>3, RowsAreSeq DEF L!ToSet
<1>6. QED
  BY <1>3, <1>4, <1>5

LEMMA StartIsClose ==
    ASSUME PagesAssumption, PagingInv, L!Start
    PROVE  CloseInv'
<1>1. PICK l \in 0 .. MaxRows : DOMAIN shown = 1 .. l /\ L!ToSet(shown) = {shown[i] : i \in 1 .. l}
  BY AllPlaces DEF PagingInv
<1>2. /\ walk'.at = "ask" /\ walk'.page = 1 /\ walk'.data = FALSE /\ walk'.total = MaxRows + 1
      /\ walk'.listed = L!ToSet(shown) /\ walk'.seen = {} /\ walk'.twice = 0 /\ walk'.changes = 0
      /\ UNCHANGED <<list, created, shown>>
  BY DEF L!Start
<1>3. WalkFrom' = 0 /\ WalkTo' \in Nat /\ WalkTo' >= MaxRows
  BY <1>2 DEF WalkFrom, WalkTo, AtLastPage, PagesAssumption
<1>4. Ahead' = L!ToSet(shown)
  <2>1. \A i \in 1 .. l : i > 0 /\ i <= WalkTo'
    BY <1>3 DEF PagesAssumption
  <2>2. Ahead' = Between(shown, 0, WalkTo')
    BY <1>2, <1>3 DEF Ahead, Between
  <2>3. QED
    BY <1>1, <2>1, <2>2 DEF Between
<1>5. Lost' = {} /\ Again' = {}
  BY <1>2, <1>4 DEF Lost, Again
<1>6. Cardinality(Lost') = 0 /\ Cardinality(Again') = 0
  BY <1>5, FS_EmptySet
<1>7. QED
  BY <1>2, <1>5, <1>6 DEF CloseInv

LEMMA ReadDataIsClose ==
    ASSUME PagesAssumption, PagingInv, CloseInv, L!ReadData
    PROVE  CloseInv'
<1> PICK got : got = L!Page(walk.page)
  OBVIOUS
<1> PICK met : met = walk.seen \cap got
  OBVIOUS
<1>1. walk \in Walking /\ walk # L!Resting /\ walk.at = "ask" /\ walk.data = FALSE
  BY DEF PagingInv, WalkInv, L!ReadData, L!Resting, Walking
<1>2. walk' = [walk EXCEPT !.data = TRUE, !.seen = @ \cup got, !.twice = @ + Cardinality(met)]
      /\ UNCHANGED <<list, created, shown>>
  BY PagingCounted DEF L!ReadData
<1>3. /\ walk'.at = walk.at /\ walk'.page = walk.page /\ walk'.total = walk.total /\ walk'.listed = walk.listed
      /\ walk'.changes = walk.changes /\ walk'.data = TRUE /\ walk'.seen = walk.seen \cup got
      /\ walk'.twice = walk.twice + Cardinality(met)
  BY <1>1, <1>2 DEF Walking
<1>4. PICK l \in 0 .. MaxRows :
          /\ DOMAIN shown = 1 .. l
          /\ \A j, k \in 1 .. l : shown[j] = shown[k] => j = k
          /\ \A i \in 1 .. l : shown[i] \in 1 .. created
  BY AllPlaces DEF PagingInv
<1>5. PICK b \in Nat, c \in Nat, e \in Nat :
          /\ b = (walk.page - 1) * Limit /\ c = walk.page * Limit /\ e = WalkTo
          /\ b <= c /\ c <= e /\ WalkFrom = b /\ WalkFrom' = c /\ WalkTo' = e
  <2>1. WalkFrom = (walk.page - 1) * Limit /\ WalkFrom' = walk.page * Limit
    BY <1>1, <1>3 DEF WalkFrom
  <2>2. WalkTo' = WalkTo
    BY <1>3 DEF WalkTo, AtLastPage, L!HasNextPage
  <2>3. WalkTo \in Nat /\ walk.page * Limit \in Nat /\ (walk.page - 1) * Limit \in Nat
        /\ (walk.page - 1) * Limit <= walk.page * Limit
    BY <1>1, PlacesAhead
  <2>4. walk.page * Limit <= WalkTo
    BY <2>3 DEF WalkTo, PagesAssumption
  <2>5. QED
    BY <2>1, <2>2, <2>3, <2>4
<1>6. /\ Ahead = {shown[i] : i \in {n \in 1 .. l : n > b /\ n <= e}}
      /\ Ahead' = {shown[i] : i \in {n \in 1 .. l : n > c /\ n <= e}}
      /\ got = {shown[i] : i \in {n \in 1 .. l : n > b /\ n <= c}}
  <2>1. Ahead' = Between(shown, c, e)
    BY <1>2, <1>5 DEF Ahead, Between
  <2>2. QED
    BY <1>4, <1>5, <2>1 DEF Ahead, Between, L!Page
<1>7. Ahead = got \cup Ahead'
  <2>1. \A i \in 1 .. l : i > b /\ i <= e <=> (i > b /\ i <= c) \/ (i > c /\ i <= e)
    BY <1>5
  <2>2. QED
    BY <1>6, <2>1
<1>8. got \cap Ahead' = {}
  BY <1>4, <1>6
<1>9. Lost' = Lost
  BY <1>3, <1>7 DEF Lost
<1>10. Again = met \cup Again' /\ met \cap Again' = {}
  BY <1>3, <1>7, <1>8 DEF Again
<1>11. Cardinality(Again) = Cardinality(met) + Cardinality(Again') /\ Cardinality(Again') \in Nat
       /\ Cardinality(met) \in Nat
  <2>1. IsFiniteSet(Again)
    BY <1>1, WalkIsFinite
  <2>2. IsFiniteSet(met) /\ IsFiniteSet(Again')
    BY <1>10, <2>1, FS_Subset
  <2>3. IsFiniteSet(met \cap Again') /\ Cardinality(met \cap Again') = 0
    BY <1>10, FS_EmptySet
  <2>4. Cardinality(met) \in Nat /\ Cardinality(Again') \in Nat
    BY <2>2, FS_CardinalityType
  <2>5. Cardinality(met \cup Again') = Cardinality(met) + Cardinality(Again') - Cardinality(met \cap Again')
    BY <2>2, FS_Union
  <2>6. QED
    BY <1>10, <2>3, <2>4, <2>5
<1>12. walk.twice \in Nat /\ walk.changes \in Nat
  BY <1>1 DEF Walking, PagesAssumption
<1>13. walk'.seen \subseteq 1 .. created'
  BY <1>1, <1>2, <1>3, <1>4, <1>6 DEF CloseInv
<1>14. Cardinality(Lost') <= walk'.changes
  BY <1>1, <1>3, <1>9 DEF CloseInv
<1>15. walk'.twice + Cardinality(Again') <= walk'.changes
  BY <1>1, <1>3, <1>11, <1>12 DEF CloseInv
<1>16. ASSUME list' = OldestFirst
       PROVE  Lost' = {} /\ Again' = {} /\ walk'.twice = 0
  <2>1. Lost = {} /\ Again = {} /\ walk.twice = 0
    BY <1>1, <1>2, <1>16 DEF CloseInv
  <2>2. met = {} /\ Again' = {}
    BY <1>10, <2>1
  <2>3. Cardinality(met) = 0
    BY <2>2, FS_EmptySet
  <2>4. QED
    BY <1>3, <1>9, <2>1, <2>2, <2>3
<1>17. walk'.at # "end"
  BY <1>1, <1>3
<1>18. QED
  BY <1>13, <1>14, <1>15, <1>16, <1>17 DEF CloseInv

\* A step of the client that leaves what it will read as it was.
LEMMA SameAhead ==
    ASSUME CloseInv, walk # L!Resting, UNCHANGED <<list, created, shown>>, Ahead' = Ahead,
           walk'.seen = walk.seen, walk'.listed = walk.listed, walk'.twice = walk.twice,
           walk'.changes = walk.changes,
           walk'.at = "end" => walk'.data /\ AtLastPage'
    PROVE  CloseInv'
<1>1. Lost' = Lost /\ Again' = Again
  BY DEF Lost, Again
<1>2. QED
  BY <1>1 DEF CloseInv

LEMMA ReadTotalIsClose ==
    ASSUME PagesAssumption, PagingInv, CloseInv, L!ReadTotal
    PROVE  CloseInv'
<1>1. walk \in Walking /\ walk # L!Resting /\ walk.at = "ask" /\ walk.total = MaxRows + 1
  BY DEF PagingInv, WalkInv, L!ReadTotal, L!Resting, Walking
<1>2. PICK l \in 0 .. MaxRows : DOMAIN shown = 1 .. l /\ Len(shown) = l
  BY AllPlaces DEF PagingInv
<1>3. walk' = [walk EXCEPT !.total = l] /\ UNCHANGED <<list, created, shown>>
  BY <1>2 DEF L!ReadTotal
<1>4. /\ walk'.at = walk.at /\ walk'.page = walk.page /\ walk'.total = l /\ walk'.listed = walk.listed
      /\ walk'.changes = walk.changes /\ walk'.data = walk.data /\ walk'.seen = walk.seen
      /\ walk'.twice = walk.twice
  BY <1>1, <1>3 DEF Walking
<1>5. WalkFrom' = WalkFrom
  BY <1>4 DEF WalkFrom
<1>6. PICK c \in Nat : c = walk.page * Limit
  BY <1>1, PlacesAhead
<1>7. WalkTo = c + MaxRows
  BY <1>1, <1>6 DEF WalkTo, AtLastPage
<1>8. \/ WalkTo' = WalkTo
      \/ WalkTo' = c /\ l <= c
  BY <1>2, <1>4, <1>6, <1>7 DEF WalkTo, AtLastPage, L!HasNextPage, PagesAssumption
<1>9. Ahead' = Ahead
  <2>1. Ahead' = Between(shown, WalkFrom, WalkTo')
    BY <1>3, <1>5 DEF Ahead, Between
  <2>2. CASE WalkTo' = WalkTo
    BY <2>1, <2>2 DEF Ahead
  <2>3. CASE WalkTo' = c /\ l <= c
    <3>1. \A i \in 1 .. l : i <= c /\ i <= c + MaxRows
      BY <1>2, <2>3 DEF PagesAssumption
    <3>2. QED
      BY <1>2, <1>7, <2>1, <2>3, <3>1 DEF Ahead, Between
  <2>4. QED
    BY <1>8, <2>2, <2>3
<1>10. QED
  BY <1>1, <1>3, <1>4, <1>9, SameAhead

LEMMA GoOnIsClose ==
    ASSUME PagesAssumption, PagingInv, CloseInv, L!GoOn
    PROVE  CloseInv'
<1>1. walk \in Walking /\ walk # L!Resting /\ walk.at = "ask" /\ walk.data /\ walk.total # MaxRows + 1
  BY DEF PagingInv, WalkInv, L!GoOn, L!Resting, Walking
<1>2. PICK l \in 0 .. MaxRows : DOMAIN shown = 1 .. l
  BY AllPlaces DEF PagingInv
<1>3. UNCHANGED <<list, created, shown>>
  BY DEF L!GoOn
<1>4. CASE ~L!HasNextPage(walk.page, walk.total)
  <2>1. walk' = [walk EXCEPT !.at = "end"]
    BY <1>4 DEF L!GoOn
  <2>2. /\ walk'.page = walk.page /\ walk'.total = walk.total /\ walk'.listed = walk.listed
        /\ walk'.changes = walk.changes /\ walk'.data = walk.data /\ walk'.seen = walk.seen
        /\ walk'.twice = walk.twice
    BY <1>1, <2>1 DEF Walking
  <2>3. AtLastPage /\ AtLastPage' /\ walk'.data
    BY <1>1, <1>4, <2>2 DEF AtLastPage, L!HasNextPage
  <2>4. WalkFrom' = WalkFrom /\ WalkTo' = WalkTo
    BY <2>2, <2>3 DEF WalkFrom, WalkTo
  <2>5. Ahead' = Ahead
    BY <1>3, <2>4 DEF Ahead, Between
  <2>6. QED
    BY <1>1, <1>3, <2>2, <2>3, <2>5, SameAhead
<1>5. CASE L!HasNextPage(walk.page, walk.total)
  <2>1. walk' = [walk EXCEPT !.page = @ + 1, !.data = FALSE, !.total = MaxRows + 1]
    BY <1>5 DEF L!GoOn
  <2>2. /\ walk'.page = walk.page + 1 /\ walk'.total = MaxRows + 1 /\ walk'.listed = walk.listed
        /\ walk'.changes = walk.changes /\ walk'.data = FALSE /\ walk'.seen = walk.seen
        /\ walk'.twice = walk.twice /\ walk'.at = walk.at
    BY <1>1, <2>1 DEF Walking
  <2>3. PICK c \in Nat, d \in Nat : c = walk.page * Limit /\ d = (walk.page + 1) * Limit
    BY <1>1, PlacesAhead
  <2>4. walk.page \in Nat
    BY <1>1 DEF Walking, PagesAssumption
  <2>5. WalkFrom = c /\ WalkTo = c + MaxRows
    BY <1>1, <1>5, <2>3 DEF WalkFrom, WalkTo, AtLastPage
  <2>6. WalkFrom' = c /\ WalkTo' = d + MaxRows
    <3>1. WalkFrom' = (walk'.page - 1) * Limit /\ WalkTo' = walk'.page * Limit + MaxRows
      BY <2>2 DEF WalkFrom, WalkTo, AtLastPage
    <3>2. walk'.page - 1 = walk.page /\ walk'.page = walk.page + 1
      BY <2>2, <2>4
    <3>3. QED
      BY <2>3, <3>1, <3>2, Zenon
  <2>7. Ahead' = Between(shown, c, d + MaxRows) /\ Ahead = Between(shown, c, c + MaxRows)
    BY <1>3, <2>5, <2>6 DEF Ahead, Between
  <2>8. \A i \in 1 .. l : i <= c + MaxRows /\ i <= d + MaxRows
    BY <1>2, <2>3 DEF PagesAssumption
  <2>9. Ahead' = Ahead
    BY <1>2, <2>7, <2>8 DEF Between
  <2>10. QED
    BY <1>1, <1>3, <2>2, <2>9, SameAhead
<1>6. QED
  BY <1>4, <1>5

LEMMA CloseNext ==
    ASSUME PagesAssumption, PagingInv, CloseInv, L!Next \/ UNCHANGED L!vars
    PROVE  CloseInv'
<1>1. CASE UNCHANGED L!vars
  <2>1. UNCHANGED <<list, created, shown, walk>>
    BY <1>1 DEF L!vars
  <2>2. WalkFrom' = WalkFrom /\ WalkTo' = WalkTo /\ (AtLastPage <=> AtLastPage')
    BY <2>1 DEF WalkFrom, WalkTo, AtLastPage, L!HasNextPage
  <2>3. Ahead' = Ahead
    BY <2>1, <2>2 DEF Ahead, Between
  <2>4. Lost' = Lost /\ Again' = Again
    BY <2>1, <2>3 DEF Lost, Again
  <2>5. QED
    BY <2>1, <2>2, <2>4 DEF CloseInv
<1>2. CASE L!Finish
  BY <1>2 DEF L!Finish, CloseInv
<1>3. QED
  BY <1>1, <1>2, ListKeepsClose, StartIsClose, ReadDataIsClose, ReadTotalIsClose, GoOnIsClose DEF L!Next

LEMMA CloseInit == L!Init => CloseInv
BY DEF L!Init, CloseInv

LEMMA CloseHolds ==
    ASSUME PagesAssumption, PagingInv, CloseInv
    PROVE  L!WalkIsClose
<1> SUFFICES ASSUME walk.at = "end" PROVE L!WalkIsClose
  BY DEF L!WalkIsClose
<1>1. walk # L!Resting /\ walk \in Walking
  BY DEF PagingInv, WalkInv, L!Resting
<1>2. AtLastPage /\ walk.data
  BY <1>1 DEF CloseInv
<1>3. Ahead = {}
  <2>1. WalkFrom = walk.page * Limit /\ WalkTo = walk.page * Limit /\ walk.page * Limit \in Nat
    BY <1>1, <1>2, PlacesAhead DEF WalkFrom, WalkTo
  <2>2. PICK l \in 0 .. MaxRows : DOMAIN shown = 1 .. l
    BY AllPlaces DEF PagingInv
  <2>3. QED
    BY <2>1, <2>2 DEF Ahead, Between
<1> PICK missed : missed = (walk.listed \cap L!ToSet(shown)) \ walk.seen
  OBVIOUS
<1>4. missed \subseteq Lost
  BY <1>3 DEF Lost
<1>5. IsFiniteSet(Lost) /\ Cardinality(Lost) \in Nat /\ Cardinality(Again) \in Nat
  BY <1>1, WalkIsFinite
<1>6. Cardinality(missed) \in Nat /\ Cardinality(missed) <= Cardinality(Lost)
  BY <1>4, <1>5, FS_Subset, FS_CardinalityType
<1>7. walk.twice \in Nat /\ walk.changes \in Nat
  BY <1>1 DEF Walking, PagesAssumption
<1>8. Cardinality(missed) <= walk.changes /\ walk.twice <= walk.changes
  BY <1>1, <1>5, <1>6, <1>7 DEF CloseInv
<1>9. ASSUME list = OldestFirst
      PROVE  Cardinality(missed) = 0 /\ walk.twice = 0
  <2>1. Lost = {} /\ walk.twice = 0
    BY <1>1, <1>9 DEF CloseInv
  <2>2. missed = {}
    BY <1>4, <2>1
  <2>3. QED
    BY <2>1, <2>2, FS_EmptySet
<1>10. QED
  BY <1>8, <1>9, PagingCounted DEF L!WalkIsClose, OldestFirst

(***************************************************************************)
(* Inbox.  Calls are about notifications that came, each of which came     *)
(* once; no write turns back what a reader has seen.                       *)
(***************************************************************************)

NotesAssumption == IsFiniteSet(Note) /\ ReadAlls \in Nat

NoteRow == [user : Reader, state : {"UNREAD", "READ", "DELETED"}]
NoteCall == [op : {"markAsRead", "delete"}, note : Note, user : Reader]
Came == {n \in Note : note[n] # N!Absent}

InboxInv ==
    /\ note \in [Note -> {N!Absent} \cup NoteRow]
    /\ noteCall \in [NoteRequest -> {N!Idle} \cup NoteCall]
    /\ \A r \in NoteRequest : noteCall[r] # N!Idle => noteCall[r].note \in Came
    /\ arrived \in Seq(Note) /\ Len(arrived) = Cardinality(Came)
    /\ readAll \in [Reader -> [calls : 0 .. ReadAlls, sum : Nat]]

\* What a reader has seen stays.
SeenStays ==
    \A n \in Note :
        /\ note[n].state = "READ" => note'[n].state # "UNREAD"
        /\ note[n].state = "DELETED" => note'[n] = note[n]

\* Counting is the same in the part and here.
LEMMA InboxCounted == \A s : N!Cardinality(s) = Cardinality(s)
BY DEF N!Cardinality, Cardinality

LEMMA InboxInit == NotesAssumption /\ N!Init => InboxInv
<1> SUFFICES ASSUME NotesAssumption, N!Init PROVE InboxInv
  OBVIOUS
<1>1. Came = {}
  BY DEF N!Init, Came
<1>2. Cardinality(Came) = 0
  BY <1>1, FS_EmptySet
<1>3. [calls |-> 0, sum |-> 0] \in [calls : 0 .. ReadAlls, sum : Nat]
  BY DEF NotesAssumption
<1>4. QED
  BY <1>2, <1>3 DEF N!Init, InboxInv

\* Rows are written, none is taken away and none comes.
LEMMA NoteWrite ==
    ASSUME InboxInv, UNCHANGED arrived,
           note' \in [Note -> {N!Absent} \cup NoteRow],
           \A n \in Note : note'[n] = N!Absent <=> note[n] = N!Absent,
           readAll' \in [Reader -> [calls : 0 .. ReadAlls, sum : Nat]],
           noteCall' \in [NoteRequest -> {N!Idle} \cup NoteCall],
           \A r \in NoteRequest : noteCall'[r] = N!Idle \/ noteCall'[r] = noteCall[r]
    PROVE  InboxInv'
<1>1. Came' = Came
  BY DEF Came
<1>2. QED
  BY <1>1 DEF InboxInv

LEMMA CreateNoteStep ==
    ASSUME NotesAssumption, InboxInv, NEW n \in Note, NEW u \in Reader, N!CreateNote(n, u)
    PROVE  InboxInv' /\ SeenStays
<1> PICK row : row = [user |-> u, state |-> "UNREAD"]
  OBVIOUS
<1>1. row \in NoteRow /\ row # N!Absent
  BY DEF NoteRow, N!Absent
<1>2. note[n] = N!Absent /\ note' = [note EXCEPT ![n] = row] /\ UNCHANGED <<noteCall, readAll>>
      /\ arrived' = Append(arrived, n)
  BY DEF N!CreateNote
<1>3. note' \in [Note -> {N!Absent} \cup NoteRow] /\ \A m \in Note : note'[m] = IF m = n THEN row ELSE note[m]
  BY <1>1, <1>2 DEF InboxInv
<1>4. Came' = Came \cup {n} /\ n \notin Came
  BY <1>1, <1>2, <1>3 DEF Came
<1>5. IsFiniteSet(Came)
  BY FS_Subset DEF NotesAssumption, Came
<1>6. Cardinality(Came') = Cardinality(Came) + 1
  BY <1>4, <1>5, FS_AddElement
<1>7. arrived' \in Seq(Note) /\ Len(arrived') = Len(arrived) + 1
  BY <1>2 DEF InboxInv
<1>8. InboxInv'
  BY <1>2, <1>3, <1>4, <1>6, <1>7 DEF InboxInv
<1>9. note[n].state = "ABSENT"
  BY <1>2 DEF N!Absent
<1>10. SeenStays
  BY <1>3, <1>9 DEF SeenStays, InboxInv, N!Absent, NoteRow
<1>11. QED
  BY <1>8, <1>10

\* A call that found a notification, or lets it go.
LEMMA NoteCallStep ==
    ASSUME InboxInv, NEW r \in NoteRequest,
           \/ N!Fail(r)
           \/ \E n \in Note, u \in Reader, op \in {"markAsRead", "delete"} : N!Find(r, op, n, u)
    PROVE  InboxInv' /\ SeenStays
<1>1. UNCHANGED <<arrived, note, readAll>>
  BY DEF N!Fail, N!Find
<1>2. SeenStays
  BY <1>1 DEF SeenStays
<1>3. Came' = Came
  BY <1>1 DEF Came
<1>4. CASE N!Fail(r)
  BY <1>1, <1>2, <1>3, <1>4 DEF N!Fail, InboxInv
<1>5. ASSUME NEW n \in Note, NEW u \in Reader, NEW op \in {"markAsRead", "delete"}, N!Find(r, op, n, u)
      PROVE  InboxInv'
  <2> PICK new : new = [op |-> op, note |-> n, user |-> u]
    OBVIOUS
  <2>1. new \in NoteCall /\ new.note = n /\ noteCall' = [noteCall EXCEPT ![r] = new]
    BY <1>5 DEF NoteCall, N!Find
  <2>2. n \in Came
    BY <1>5 DEF N!Find, N!NotesOf, Came, N!Absent
  <2>3. QED
    BY <1>1, <1>3, <2>1, <2>2 DEF InboxInv
<1>6. QED
  BY <1>2, <1>4, <1>5

LEMMA MarkStep ==
    ASSUME InboxInv, NEW r \in NoteRequest, N!MarkAsRead(r) \/ N!DeleteNote(r)
    PROVE  InboxInv' /\ SeenStays
<1> PICK n : n = noteCall[r].note
  OBVIOUS
<1>1. noteCall[r] \in NoteCall /\ noteCall[r] # N!Idle
  BY DEF N!MarkAsRead, N!DeleteNote, InboxInv, N!Idle
<1>2. n \in Note /\ note[n] \in NoteRow /\ n \in Came
  BY <1>1 DEF NoteCall, InboxInv, Came
<1>3. PICK state \in {"READ", "DELETED"} :
          /\ note' = [note EXCEPT ![n].state = state]
          /\ note[n].state = "DELETED" => state = "DELETED"
  BY <1>2 DEF N!MarkAsRead, N!DeleteNote, NoteRow
<1> PICK row : row = [note[n] EXCEPT !.state = state]
  OBVIOUS
<1>4. note' = [note EXCEPT ![n] = row]
  BY <1>2, <1>3 DEF InboxInv
<1>5. row \in NoteRow /\ row.state = state /\ row.user = note[n].user
  BY <1>2 DEF NoteRow
<1>6. note[n].state = "DELETED" => row = note[n]
  BY <1>2, <1>3, <1>5 DEF NoteRow
<1>7. row # N!Absent /\ note[n] # N!Absent
  BY <1>2, <1>5 DEF N!Absent, NoteRow
<1>8. note' \in [Note -> {N!Absent} \cup NoteRow] /\ \A m \in Note : note'[m] = IF m = n THEN row ELSE note[m]
  BY <1>4, <1>5 DEF InboxInv
<1>9. noteCall' = [noteCall EXCEPT ![r] = N!Idle] /\ UNCHANGED <<arrived, readAll>>
  BY DEF N!MarkAsRead, N!DeleteNote
<1>10. InboxInv'
  BY <1>7, <1>8, <1>9, NoteWrite DEF InboxInv
<1>11. SeenStays
  BY <1>5, <1>6, <1>8 DEF SeenStays
<1>12. QED
  BY <1>10, <1>11

LEMMA MarkAllStep ==
    ASSUME NotesAssumption, InboxInv, NEW u \in Reader, N!MarkAllAsRead(u)
    PROVE  InboxInv' /\ SeenStays
<1>1. note' = [n \in Note |-> IF n \in N!UnreadOf(u) THEN [note[n] EXCEPT !.state = "READ"] ELSE note[n]]
      /\ UNCHANGED <<arrived, noteCall>>
  BY DEF N!MarkAllAsRead
<1>2. ASSUME NEW n \in Note
      PROVE  /\ note'[n] \in {N!Absent} \cup NoteRow
             /\ note'[n] = N!Absent <=> note[n] = N!Absent
             /\ note'[n] = note[n] \/ (note[n].state = "UNREAD" /\ note'[n].state = "READ")
  <2>1. CASE n \notin N!UnreadOf(u)
    BY <1>1, <2>1 DEF InboxInv
  <2>2. CASE n \in N!UnreadOf(u)
    <3>1. note[n].state = "UNREAD" /\ note[n] # N!Absent
      BY <2>2 DEF N!UnreadOf, N!Absent
    <3>2. note[n] \in NoteRow
      BY <3>1 DEF InboxInv
    <3>3. note'[n] = [note[n] EXCEPT !.state = "READ"]
      BY <1>1, <2>2
    <3>4. note'[n] \in NoteRow /\ note'[n].state = "READ"
      BY <3>2, <3>3 DEF NoteRow
    <3>5. note'[n] # N!Absent
      BY <3>4 DEF N!Absent
    <3>6. QED
      BY <3>1, <3>4, <3>5
  <2>3. QED
    BY <2>1, <2>2
<1>3. note' \in [Note -> {N!Absent} \cup NoteRow]
  BY <1>1, <1>2
<1>4. N!UnreadCount(u) \in Nat
  <2>1. N!UnreadOf(u) \in SUBSET Note
    BY DEF N!UnreadOf, N!NotesOf
  <2>2. QED
    BY InboxCounted, <2>1, FS_Subset, FS_CardinalityType DEF NotesAssumption, N!UnreadCount
<1>5. readAll' \in [Reader -> [calls : 0 .. ReadAlls, sum : Nat]]
  <2> PICK old : old = readAll[u]
    OBVIOUS
  <2> PICK more : more = N!UnreadCount(u)
    OBVIOUS
  <2>1. old \in [calls : 0 .. ReadAlls, sum : Nat] /\ old.calls < ReadAlls /\ more \in Nat
    BY <1>4 DEF InboxInv, N!MarkAllAsRead
  <2>2. old.calls + 1 \in 0 .. ReadAlls /\ old.sum + more \in Nat
    BY <2>1 DEF NotesAssumption
  <2>3. readAll' = [readAll EXCEPT ![u] = [calls |-> old.calls + 1, sum |-> old.sum + more]]
    BY DEF N!MarkAllAsRead, InboxInv
  <2>4. QED
    BY <2>2, <2>3 DEF InboxInv
<1>6. InboxInv'
  BY <1>1, <1>2, <1>3, <1>5, NoteWrite DEF InboxInv
<1>7. SeenStays
  BY <1>2 DEF SeenStays
<1>8. QED
  BY <1>6, <1>7

LEMMA InboxNext ==
    ASSUME NotesAssumption, InboxInv, N!Next \/ UNCHANGED N!vars
    PROVE  InboxInv' /\ SeenStays
<1>1. CASE UNCHANGED N!vars
  <2>1. UNCHANGED <<arrived, note, noteCall, readAll>>
    BY <1>1 DEF N!vars
  <2>2. QED
    BY <2>1 DEF InboxInv, SeenStays, Came
<1>2. CASE N!Next
  BY <1>2, CreateNoteStep, NoteCallStep, MarkStep, MarkAllStep DEF N!Next
<1>3. QED
  BY <1>1, <1>2

LEMMA InboxHolds == NotesAssumption /\ InboxInv => N!TypeOK
<1> SUFFICES ASSUME NotesAssumption, InboxInv PROVE N!TypeOK
  OBVIOUS
<1>1. Cardinality(Came) <= Cardinality(Note) /\ Cardinality(Came) \in Nat /\ Cardinality(Note) \in Nat
  BY FS_Subset, FS_CardinalityType DEF NotesAssumption, Came
<1>2. Len(arrived) \in 0 .. Cardinality(Note) /\ arrived \in [1 .. Len(arrived) -> Note]
  BY <1>1 DEF InboxInv
<1>3. arrived \in N!SeqOf(Note, Cardinality(Note))
  BY <1>2 DEF N!SeqOf
<1>4. QED
  BY InboxCounted, <1>3 DEF InboxInv, NoteRow, NoteCall, N!TypeOK

(***************************************************************************)
(* The newest of a set: of its members, those that fewer than limit of the *)
(* others are newer than.                                                  *)
(***************************************************************************)

LEMMA SmallestNumber ==
    ASSUME NEW Set, Set \subseteq Nat, Set # {}
    PROVE  \E n \in Set : \A m \in Set : n <= m
<1>1. PICK n \in Set : \A m \in Set : ~(<<m, n>> \in OpToRel(<, Nat))
  BY NatLessThanWellFounded, WFMin
<1>2. \A m \in Set : ~(m < n)
  BY <1>1 DEF OpToRel
<1>3. QED
  BY <1>2

\* A member of a set whose place is the first, the last.
LEMMA FirstOf ==
    ASSUME NEW Set, Set # {}, NEW at, \A x \in Set : at[x] \in Nat
    PROVE  \E x \in Set : \A y \in Set : at[x] <= at[y]
<1>1. PICK n \in {at[x] : x \in Set} : \A m \in {at[x] : x \in Set} : n <= m
  <2>1. {at[x] : x \in Set} \subseteq Nat /\ {at[x] : x \in Set} # {}
    OBVIOUS
  <2>2. QED
    BY <2>1, SmallestNumber
<1>2. QED
  BY <1>1

LEMMA LastOf ==
    ASSUME NEW Set, Set # {}, NEW at, NEW l \in Nat, \A x \in Set : at[x] \in 0 .. l
    PROVE  \E x \in Set : \A y \in Set : at[y] <= at[x]
<1>1. PICK back : back = [x \in Set |-> l - at[x]]
  OBVIOUS
<1>2. \A x \in Set : back[x] \in Nat /\ back[x] = l - at[x]
  BY <1>1
<1>3. PICK x \in Set : \A y \in Set : back[x] <= back[y]
  BY <1>2, FirstOf
<1>4. \A y \in Set : at[y] <= at[x]
  BY <1>2, <1>3
<1>5. QED
  BY <1>4

Later(Set, at, x) == {y \in Set : at[x] < at[y]}
Newest(Set, at, limit) == {x \in Set : Cardinality(Later(Set, at, x)) < limit}

LEMMA LaterIsFinite ==
    ASSUME NEW Set, IsFiniteSet(Set), NEW at, NEW x
    PROVE  IsFiniteSet(Later(Set, at, x)) /\ Cardinality(Later(Set, at, x)) \in Nat
<1>1. Later(Set, at, x) \in SUBSET Set
  BY DEF Later
<1>2. QED
  BY <1>1, FS_Subset, FS_CardinalityType

\* The newest are at most so many, all if they are fewer, and newer than the others.
LEMMA NewestOnes ==
    ASSUME NEW Set, IsFiniteSet(Set), NEW at, NEW l \in Nat, \A x \in Set : at[x] \in 0 .. l,
           \A x, y \in Set : at[x] = at[y] => x = y, NEW limit \in Nat
    PROVE  /\ Cardinality(Newest(Set, at, limit)) <= limit
           /\ Cardinality(Newest(Set, at, limit)) < limit => Newest(Set, at, limit) = Set
           /\ \A x \in Set \ Newest(Set, at, limit) : Newest(Set, at, limit) \subseteq Later(Set, at, x)
<1> PICK newest : newest = Newest(Set, at, limit)
  OBVIOUS
<1>1. newest \in SUBSET Set /\ IsFiniteSet(newest) /\ Cardinality(newest) \in Nat
  <2>1. newest \in SUBSET Set
    BY DEF Newest
  <2>2. QED
    BY <2>1, FS_Subset, FS_CardinalityType
<1>2. ASSUME NEW x \in Set \ newest
      PROVE  newest \subseteq Later(Set, at, x)
  <2> SUFFICES ASSUME NEW y \in newest, at[y] <= at[x] PROVE FALSE
    BY <1>1 DEF Later
  <2>1. Later(Set, at, x) \in SUBSET Later(Set, at, y)
    BY <1>1 DEF Later
  <2>2. Cardinality(Later(Set, at, x)) <= Cardinality(Later(Set, at, y))
    BY <2>1, LaterIsFinite, FS_Subset
  <2>3. Cardinality(Later(Set, at, y)) < limit /\ ~(Cardinality(Later(Set, at, x)) < limit)
    BY DEF Newest
  <2>4. Cardinality(Later(Set, at, x)) \in Nat /\ Cardinality(Later(Set, at, y)) \in Nat
    BY LaterIsFinite
  <2>5. QED
    BY <2>2, <2>3, <2>4
<1>3. Cardinality(newest) <= limit
  <2>1. CASE newest = {}
    BY <2>1, FS_EmptySet
  <2>2. CASE newest # {}
    <3>1. PICK x \in newest : \A y \in newest : at[x] <= at[y]
      BY <1>1, <2>2, FirstOf
    <3>2. newest \ {x} \in SUBSET Later(Set, at, x)
      BY <1>1, <3>1 DEF Later
    <3>3. Cardinality(newest \ {x}) <= Cardinality(Later(Set, at, x))
      BY <3>2, LaterIsFinite, FS_Subset
    <3>4. Cardinality(newest \ {x}) = Cardinality(newest) - 1
      BY <1>1, FS_RemoveElement
    <3>5. Cardinality(Later(Set, at, x)) < limit /\ Cardinality(Later(Set, at, x)) \in Nat
      BY LaterIsFinite DEF Newest
    <3>6. QED
      BY <1>1, <3>3, <3>4, <3>5
  <2>3. QED
    BY <2>1, <2>2
<1>4. ASSUME newest # Set
      PROVE  limit <= Cardinality(newest)
  <2>1. Set \ newest # {}
    BY <1>1, <1>4
  <2>2. PICK x \in Set \ newest : \A y \in Set \ newest : at[y] <= at[x]
    BY <2>1, LastOf
  <2>3. Later(Set, at, x) \in SUBSET newest
    BY <2>2 DEF Later
  <2>4. Cardinality(Later(Set, at, x)) <= Cardinality(newest)
    BY <1>1, <2>3, FS_Subset
  <2>5. ~(Cardinality(Later(Set, at, x)) < limit) /\ Cardinality(Later(Set, at, x)) \in Nat
    BY <2>2, LaterIsFinite DEF Newest
  <2>6. QED
    BY <1>1, <2>4, <2>5
<1>5. QED
  BY <1>1, <1>2, <1>3, <1>4


(***************************************************************************)
(* Inbox: what calls of read-all counted and what is unread were different *)
(* notifications; each that came has its one place in the order of arrival.*)
(***************************************************************************)

\* The notifications of a reader, the deleted ones among them.
Owned(u) == {n \in Came : note[n].user = u}
\* Each has one place in the order of arrival.
InOrder ==
    /\ \A i \in 1 .. Len(arrived) : arrived[i] \in Came
    /\ \A n \in Came : \E i \in 1 .. Len(arrived) : arrived[i] = n
    /\ \A i, j \in 1 .. Len(arrived) : arrived[i] = arrived[j] => i = j
CountsInv ==
    /\ InOrder
    /\ \A u \in Reader : readAll[u].sum + N!UnreadCount(u) <= Cardinality(Owned(u))

LEMMA UnreadIsOwned ==
    ASSUME NotesAssumption, InboxInv, NEW u
    PROVE  /\ IsFiniteSet(N!UnreadOf(u)) /\ N!UnreadCount(u) = Cardinality(N!UnreadOf(u)) /\ N!UnreadCount(u) \in Nat
           /\ IsFiniteSet(Owned(u)) /\ Cardinality(Owned(u)) \in Nat
<1>1. N!UnreadOf(u) \in SUBSET Note /\ Owned(u) \in SUBSET Note
  BY DEF N!UnreadOf, N!NotesOf, Owned, Came
<1>2. QED
  BY <1>1, InboxCounted, FS_Subset, FS_CardinalityType DEF NotesAssumption, N!UnreadCount

LEMMA CountsInit == NotesAssumption /\ N!Init => CountsInv
<1> SUFFICES ASSUME NotesAssumption, N!Init PROVE CountsInv
  OBVIOUS
<1>1. Came = {} /\ \A u : N!UnreadOf(u) = {} /\ Owned(u) = {}
  BY DEF N!Init, Came, N!UnreadOf, N!NotesOf, N!Absent, Owned
<1>2. \A u : N!UnreadCount(u) = 0 /\ Cardinality(Owned(u)) = 0
  BY <1>1, InboxCounted, FS_EmptySet DEF N!UnreadCount
<1>3. InOrder
  BY <1>1 DEF N!Init, InOrder
<1>4. \A u \in Reader : readAll[u].sum = 0
  BY DEF N!Init
<1>5. QED
  BY <1>2, <1>3, <1>4 DEF CountsInv

\* Rows stay, and no more of a reader's are unread, or fewer and as many counted.
LEMMA CountsKept ==
    ASSUME NotesAssumption, InboxInv, InboxInv', CountsInv, UNCHANGED arrived, Came' = Came,
           \A n \in Note : note'[n].user = note[n].user,
           \A u \in Reader : readAll'[u].sum + N!UnreadCount(u)' <= readAll[u].sum + N!UnreadCount(u)
    PROVE  CountsInv'
<1>1. InOrder'
  BY DEF CountsInv, InOrder
<1>2. ASSUME NEW u \in Reader
      PROVE  readAll'[u].sum + N!UnreadCount(u)' <= Cardinality(Owned(u)')
  <2>1. Owned(u)' = Owned(u)
    BY DEF Owned, Came
  <2>2. Cardinality(Owned(u)) \in Nat /\ N!UnreadCount(u) \in Nat /\ readAll[u].sum \in Nat
    BY UnreadIsOwned DEF InboxInv
  <2>3. N!UnreadCount(u)' \in Nat /\ readAll'[u].sum \in Nat
    <3>1. IsFiniteSet(N!UnreadOf(u)')
      <4>1. N!UnreadOf(u)' \in SUBSET Note
        BY DEF N!UnreadOf, N!NotesOf
      <4>2. QED
        BY <4>1, FS_Subset DEF NotesAssumption
    <3>2. N!UnreadCount(u)' = Cardinality(N!UnreadOf(u)')
      BY InboxCounted DEF N!UnreadCount
    <3>3. QED
      BY <3>1, <3>2, FS_CardinalityType DEF InboxInv
  <2>4. readAll[u].sum + N!UnreadCount(u) <= Cardinality(Owned(u))
    BY DEF CountsInv
  <2>5. QED
    BY <2>1, <2>2, <2>3, <2>4
<1>3. QED
  BY <1>1, <1>2 DEF CountsInv

\* No other reader's notifications become unread.
LEMMA FewerUnread ==
    ASSUME NotesAssumption, InboxInv, NEW u \in Reader, N!UnreadOf(u)' \subseteq N!UnreadOf(u), readAll'[u] = readAll[u]
    PROVE  readAll'[u].sum + N!UnreadCount(u)' <= readAll[u].sum + N!UnreadCount(u)
<1>1. IsFiniteSet(N!UnreadOf(u)) /\ N!UnreadOf(u)' \in SUBSET N!UnreadOf(u)
  BY UnreadIsOwned
<1>2. /\ Cardinality(N!UnreadOf(u)') <= Cardinality(N!UnreadOf(u))
      /\ Cardinality(N!UnreadOf(u)') \in Nat /\ Cardinality(N!UnreadOf(u)) \in Nat
  BY <1>1, FS_Subset, FS_CardinalityType
<1>3. N!UnreadCount(u)' = Cardinality(N!UnreadOf(u)') /\ N!UnreadCount(u) = Cardinality(N!UnreadOf(u))
  BY InboxCounted DEF N!UnreadCount
<1>4. readAll[u].sum \in Nat
  BY DEF InboxInv
<1>5. QED
  BY <1>2, <1>3, <1>4

LEMMA CountsAtCreate ==
    ASSUME NotesAssumption, InboxInv, InboxInv', CountsInv, NEW n \in Note, NEW v \in Reader, N!CreateNote(n, v)
    PROVE  CountsInv'
<1>1. /\ note[n] = N!Absent /\ note' = [note EXCEPT ![n] = [user |-> v, state |-> "UNREAD"]]
      /\ arrived' = Append(arrived, n) /\ UNCHANGED readAll
  BY DEF N!CreateNote
<1>2. note'[n] = [user |-> v, state |-> "UNREAD"] /\ \A m \in Note : m # n => note'[m] = note[m]
  BY <1>1 DEF InboxInv
<1>3. n \notin Came /\ Came' = Came \cup {n}
  BY <1>1, <1>2 DEF Came, N!Absent
<1>4. InOrder'
  <2>1. /\ Len(arrived') = Len(arrived) + 1 /\ Len(arrived) \in Nat
        /\ \A i \in 1 .. Len(arrived) : arrived'[i] = arrived[i]
        /\ arrived'[Len(arrived) + 1] = n
    BY <1>1 DEF InboxInv
  <2> PICK l \in Nat : l = Len(arrived)
    BY <2>1
  <2>2. \A i \in 1 .. l : arrived'[i] = arrived[i] /\ arrived[i] \in Came /\ arrived[i] # n
    BY <1>3, <2>1 DEF CountsInv, InOrder
  <2>3. arrived'[l + 1] = n /\ Len(arrived') = l + 1
    BY <2>1
  <2>4. \A i \in 1 .. l + 1 : i \in 1 .. l \/ i = l + 1
    OBVIOUS
  <2>5. \A m \in Came : \E i \in 1 .. l + 1 : arrived'[i] = m
    BY <2>2 DEF CountsInv, InOrder
  <2>6. \A i, j \in 1 .. l + 1 : arrived'[i] = arrived'[j] => i = j
    BY <2>2, <2>3, <2>4 DEF CountsInv, InOrder
  <2>7. \A i \in 1 .. l + 1 : arrived'[i] \in Came'
    BY <1>3, <2>2, <2>3, <2>4
  <2>8. l + 1 \in 1 .. l + 1
    OBVIOUS
  <2>9. QED
    BY <1>3, <2>3, <2>5, <2>6, <2>7, <2>8 DEF InOrder
<1>5. ASSUME NEW u \in Reader
      PROVE  readAll'[u].sum + N!UnreadCount(u)' <= Cardinality(Owned(u)')
  <2>1. /\ IsFiniteSet(N!UnreadOf(u)) /\ IsFiniteSet(Owned(u)) /\ readAll[u].sum \in Nat
        /\ Cardinality(N!UnreadOf(u)) \in Nat /\ Cardinality(Owned(u)) \in Nat
        /\ readAll[u].sum + Cardinality(N!UnreadOf(u)) <= Cardinality(Owned(u))
    BY UnreadIsOwned DEF InboxInv, CountsInv
  <2>2. N!UnreadCount(u)' = Cardinality(N!UnreadOf(u)') /\ readAll'[u] = readAll[u]
    BY <1>1, InboxCounted DEF N!UnreadCount
  <2>3. n \notin N!UnreadOf(u) /\ n \notin Owned(u)
    BY <1>1, <1>3 DEF N!UnreadOf, Owned, N!Absent
  <2>4. CASE u = v
    <3>1. N!UnreadOf(u)' = N!UnreadOf(u) \cup {n}
      BY <1>2, <2>4 DEF N!UnreadOf, N!NotesOf
    <3>2. Owned(u)' = Owned(u) \cup {n}
      BY <1>2, <1>3, <2>4 DEF Owned, Came
    <3>3. Cardinality(N!UnreadOf(u)') = Cardinality(N!UnreadOf(u)) + 1
      BY <2>1, <2>3, <3>1, FS_AddElement
    <3>4. Cardinality(Owned(u)') = Cardinality(Owned(u)) + 1
      BY <2>1, <2>3, <3>2, FS_AddElement
    <3>5. QED
      BY <2>1, <2>2, <3>3, <3>4
  <2>5. CASE u # v
    <3>1. N!UnreadOf(u)' = N!UnreadOf(u)
      BY <1>2, <2>3, <2>5 DEF N!UnreadOf, N!NotesOf
    <3>2. Owned(u)' = Owned(u)
      BY <1>2, <1>3, <2>5 DEF Owned, Came
    <3>3. QED
      BY <2>1, <2>2, <3>1, <3>2
  <2>6. QED
    BY <2>4, <2>5
<1>6. QED
  BY <1>4, <1>5 DEF CountsInv

LEMMA CountsAtMark ==
    ASSUME NotesAssumption, InboxInv, InboxInv', CountsInv, NEW r \in NoteRequest, N!MarkAsRead(r) \/ N!DeleteNote(r)
    PROVE  CountsInv'
<1> PICK n : n = noteCall[r].note
  OBVIOUS
<1>1. n \in Came /\ n \in Note /\ note[n] \in NoteRow
  BY DEF N!MarkAsRead, N!DeleteNote, InboxInv, N!Idle, NoteCall, Came
<1>2. UNCHANGED <<arrived, readAll>> /\ \E state \in {"READ", "DELETED"} : note' = [note EXCEPT ![n].state = state]
  BY <1>1 DEF N!MarkAsRead, N!DeleteNote, NoteRow
<1>3. PICK state \in {"READ", "DELETED"} : note' = [note EXCEPT ![n].state = state]
  BY <1>2
<1>4. /\ note'[n].user = note[n].user /\ note'[n].state = state /\ \A m \in Note : m # n => note'[m] = note[m]
      /\ note'[n] # N!Absent
  BY <1>1, <1>3 DEF InboxInv, NoteRow, N!Absent
<1>5. Came' = Came
  BY <1>1, <1>4 DEF Came
<1>6. \A u : N!UnreadOf(u)' \subseteq N!UnreadOf(u)
  BY <1>1, <1>4 DEF N!UnreadOf, N!NotesOf
<1>7. \A u \in Reader : readAll'[u].sum + N!UnreadCount(u)' <= readAll[u].sum + N!UnreadCount(u)
  BY <1>2, <1>6, FewerUnread
<1>8. QED
  BY <1>1, <1>2, <1>4, <1>5, <1>7, CountsKept

LEMMA CountsAtReadAll ==
    ASSUME NotesAssumption, InboxInv, InboxInv', CountsInv, NEW v \in Reader, N!MarkAllAsRead(v)
    PROVE  CountsInv'
<1>1. /\ note' = [n \in Note |-> IF n \in N!UnreadOf(v) THEN [note[n] EXCEPT !.state = "READ"] ELSE note[n]]
      /\ UNCHANGED arrived
  BY DEF N!MarkAllAsRead
<1>2. ASSUME NEW n \in Note, n \in N!UnreadOf(v)
      PROVE  note[n] \in NoteRow /\ n \in Came /\ note'[n].user = note[n].user /\ note'[n].state = "READ"
  <2>1. note[n].state = "UNREAD"
    BY <1>2 DEF N!UnreadOf
  <2>2. note[n] \in NoteRow /\ n \in Came
    BY <2>1 DEF InboxInv, N!Absent, Came
  <2>3. note'[n] = [note[n] EXCEPT !.state = "READ"]
    BY <1>1, <1>2
  <2>4. QED
    BY <2>2, <2>3 DEF NoteRow
<1>3. \A n \in Note : n \notin N!UnreadOf(v) => note'[n] = note[n]
  BY <1>1
<1>4. \A n \in Note : note'[n].user = note[n].user
  BY <1>2, <1>3
<1>5. Came' = Came
  BY <1>2, <1>3 DEF Came, N!Absent
<1>6. \A u : N!UnreadOf(u)' \subseteq N!UnreadOf(u)
  BY <1>2, <1>3 DEF N!UnreadOf, N!NotesOf
<1>7. ASSUME NEW u \in Reader
      PROVE  readAll'[u].sum + N!UnreadCount(u)' <= readAll[u].sum + N!UnreadCount(u)
  <2>1. CASE u # v
    <3>1. readAll'[u] = readAll[u]
      BY <2>1 DEF N!MarkAllAsRead, InboxInv
    <3>2. QED
      BY <1>6, <3>1, FewerUnread
  <2>2. CASE u = v
    <3>1. N!UnreadOf(u)' = {}
      BY <1>2, <1>3, <2>2 DEF N!UnreadOf, N!NotesOf
    <3>2. N!UnreadCount(u)' = 0
      BY <3>1, InboxCounted, FS_EmptySet DEF N!UnreadCount
    <3>3. readAll[u].sum \in Nat /\ N!UnreadCount(u) \in Nat
      BY UnreadIsOwned DEF InboxInv
    <3>4. readAll'[u].sum = readAll[u].sum + N!UnreadCount(u)
      BY <2>2 DEF N!MarkAllAsRead, InboxInv
    <3>5. QED
      BY <3>2, <3>3, <3>4
  <2>3. QED
    BY <2>1, <2>2
<1>8. QED
  BY <1>1, <1>4, <1>5, <1>7, CountsKept

LEMMA CountsNext ==
    ASSUME NotesAssumption, InboxInv, CountsInv, N!Next \/ UNCHANGED N!vars
    PROVE  CountsInv'
<1>0. InboxInv'
  BY InboxNext
<1>1. CASE UNCHANGED <<arrived, note, readAll>>
  <2>1. Came' = Came /\ \A u : Owned(u)' = Owned(u) /\ N!UnreadCount(u)' = N!UnreadCount(u)
    BY <1>1 DEF Came, Owned, N!UnreadCount, N!UnreadOf, N!NotesOf
  <2>2. QED
    BY <1>1, <2>1 DEF CountsInv, InOrder
<1>2. CASE UNCHANGED N!vars
  BY <1>1, <1>2 DEF N!vars
<1>3. ASSUME NEW r \in NoteRequest,
             \/ N!Fail(r)
             \/ \E n \in Note, u \in Reader, op \in {"markAsRead", "delete"} : N!Find(r, op, n, u)
      PROVE  CountsInv'
  BY <1>1, <1>3 DEF N!Fail, N!Find
<1>4. CASE N!Next
  BY <1>0, <1>3, <1>4, CountsAtCreate, CountsAtMark, CountsAtReadAll DEF N!Next
<1>5. QED
  BY <1>2, <1>4

LEMMA CountsHold == NotesAssumption /\ InboxInv /\ CountsInv => N!CountedOnce
<1> SUFFICES ASSUME NotesAssumption, InboxInv, CountsInv, NEW u \in Reader
             PROVE  readAll[u].sum + N!UnreadCount(u) <= N!Cardinality({n \in Note : note[n].user = u})
  BY DEF N!CountedOnce
<1> PICK mine : mine = {n \in Note : note[n].user = u}
  OBVIOUS
<1>1. IsFiniteSet(mine) /\ Owned(u) \in SUBSET mine
  <2>1. mine \in SUBSET Note /\ Owned(u) \in SUBSET mine
    BY DEF Owned, Came
  <2>2. QED
    BY <2>1, FS_Subset DEF NotesAssumption
<1>2. Cardinality(Owned(u)) <= Cardinality(mine) /\ Cardinality(mine) \in Nat
  BY <1>1, FS_Subset, FS_CardinalityType
<1>3. readAll[u].sum + N!UnreadCount(u) <= Cardinality(Owned(u)) /\ Cardinality(Owned(u)) \in Nat
      /\ N!UnreadCount(u) \in Nat /\ readAll[u].sum \in Nat
  BY UnreadIsOwned DEF CountsInv, InboxInv
<1>4. N!Cardinality(mine) = Cardinality(mine)
  BY InboxCounted
<1>5. QED
  BY <1>2, <1>3, <1>4

LEMMA BadgeHolds == NotesAssumption /\ Recent \in Nat /\ InboxInv /\ CountsInv => N!BadgeIsShown
<1> SUFFICES ASSUME NotesAssumption, Recent \in Nat, InboxInv, CountsInv, NEW u \in Reader
             PROVE  LET new == N!FindByUser(u) IN
                    /\ N!Cardinality(new) <= Recent
                    /\ N!Cardinality(new) < Recent => N!UnreadOf(u) \subseteq new
                    /\ \A n \in N!NotesOf(u) \ new : new \subseteq N!NewerNotes(u, n)
  BY DEF N!BadgeIsShown
<1> PICK mine : mine = N!NotesOf(u)
  OBVIOUS
<1>1. IsFiniteSet(mine) /\ mine \subseteq Came
  <2>1. mine \in SUBSET Note /\ mine \subseteq Came
    BY DEF N!NotesOf, Came, N!Absent
  <2>2. QED
    BY <2>1, FS_Subset DEF NotesAssumption
<1>2. Len(arrived) \in Nat /\ DOMAIN arrived = 1 .. Len(arrived)
  BY DEF InboxInv
<1> PICK at : at = [n \in Came |-> CHOOSE i \in 1 .. Len(arrived) : arrived[i] = n]
  OBVIOUS
<1>3. \A n \in Came : at[n] \in 1 .. Len(arrived) /\ arrived[at[n]] = n
  BY DEF CountsInv, InOrder
<1>4. \A n \in mine : at[n] \in 0 .. Len(arrived)
  BY <1>1, <1>2, <1>3
<1>5. \A n, m \in mine : at[n] = at[m] => n = m
  BY <1>1, <1>3
<1>6. \A n \in mine : N!NewerNotes(u, n) = Later(mine, at, n)
  <2> SUFFICES ASSUME NEW n \in mine, NEW m \in mine
               PROVE  (\E j, k \in DOMAIN arrived : j < k /\ arrived[j] = n /\ arrived[k] = m) <=> at[n] < at[m]
    BY DEF N!NewerNotes, Later
  <2>1. \A j \in DOMAIN arrived : (arrived[j] = n <=> j = at[n]) /\ (arrived[j] = m <=> j = at[m])
    BY <1>1, <1>2, <1>3 DEF CountsInv, InOrder
  <2>2. at[n] \in DOMAIN arrived /\ at[m] \in DOMAIN arrived
    BY <1>1, <1>2, <1>3
  <2>3. QED
    BY <2>1, <2>2
<1> PICK newest : newest = Newest(mine, at, Recent)
  OBVIOUS
<1>7. N!FindByUser(u) = newest
  BY <1>6, InboxCounted DEF N!FindByUser, Newest
<1>8. /\ Cardinality(newest) <= Recent
      /\ Cardinality(newest) < Recent => newest = mine
      /\ \A n \in mine \ newest : newest \subseteq Later(mine, at, n)
  BY <1>1, <1>2, <1>4, <1>5, NewestOnes
<1>9. N!UnreadOf(u) \subseteq mine
  BY DEF N!UnreadOf
<1>10. N!Cardinality(newest) = Cardinality(newest)
  BY InboxCounted
<1>11. \A n \in mine \ newest : newest \subseteq N!NewerNotes(u, n)
  BY <1>6, <1>8
<1>12. QED
  BY <1>7, <1>8, <1>9, <1>10, <1>11

(***************************************************************************)
(* Messaging.                                                              *)
(***************************************************************************)

MessagesInv == message \in Seq(M!Mail) /\ Len(message) <= MaxMessages

LEMMA MessagesInit == MaxMessages \in Nat /\ M!Init => MessagesInv
BY DEF M!Init, MessagesInv

LEMMA MessagesNext ==
    ASSUME MaxMessages \in Nat, MessagesInv, M!Next \/ UNCHANGED M!vars
    PROVE  MessagesInv'
<1>1. message \in Seq(M!Mail) /\ Len(message) \in Nat
  BY DEF MessagesInv
<1>2. CASE UNCHANGED M!vars
  BY <1>2 DEF M!vars, MessagesInv
<1>3. ASSUME NEW u \in Writer, NEW v \in Writer, M!Send(u, v)
      PROVE  MessagesInv'
  <2> PICK mail : mail = [from |-> u, to |-> v, read |-> FALSE]
    OBVIOUS
  <2>1. mail \in M!Mail
    BY DEF M!Mail
  <2>2. message' = Append(message, mail) /\ Len(message) < MaxMessages
    BY <1>3 DEF M!Send
  <2>3. message' \in Seq(M!Mail) /\ Len(message') = Len(message) + 1
    BY <1>1, <2>1, <2>2
  <2>4. QED
    BY <1>1, <2>2, <2>3 DEF MessagesInv
<1>4. ASSUME NEW u \in Writer, NEW i \in DOMAIN message, M!MarkAsRead(u, i)
      PROVE  MessagesInv'
  <2>1. message[i] \in M!Mail
    BY <1>1
  <2> PICK mail : mail = [message[i] EXCEPT !.read = TRUE]
    OBVIOUS
  <2>2. mail \in M!Mail
    BY <2>1 DEF M!Mail
  <2>3. message' = [message EXCEPT ![i] = mail]
    BY <1>1, <1>4 DEF M!MarkAsRead
  <2>4. message' \in Seq(M!Mail) /\ Len(message') = Len(message)
    BY <1>1, <2>2, <2>3
  <2>5. QED
    BY <2>4 DEF MessagesInv
<1>5. QED
  BY <1>2, <1>3, <1>4 DEF M!Next

LEMMA MessagesHold == MessagesInv => M!TypeOK
<1>1. message \in Seq(M!Mail) => \A i \in DOMAIN message : message[i] \in M!Mail
  OBVIOUS
<1>2. QED
  BY <1>1 DEF MessagesInv, M!TypeOK

(***************************************************************************)
(* Messaging: the last message with a partner is among the newest, if any  *)
(* with that partner is.                                                   *)
(***************************************************************************)

\* Counting and the greatest number are the same in the part and here.
LEMMA MessagesCounted == \A s : M!Cardinality(s) = Cardinality(s)
BY DEF M!Cardinality, Cardinality

LEMMA GreatestOf ==
    ASSUME NEW Set, NEW l \in Nat, Set \subseteq 0 .. l, Set # {}
    PROVE  M!Max(Set) \in Set /\ \A i \in Set : i <= M!Max(Set)
<1>1. PICK at : at = [i \in Set |-> i]
  OBVIOUS
<1>2. \A i \in Set : at[i] \in 0 .. l /\ at[i] = i
  BY <1>1
<1>3. PICK i \in Set : \A j \in Set : at[j] <= at[i]
  BY <1>2, LastOf
<1>4. \A j \in Set : i >= j
  BY <1>2, <1>3
<1>5. M!Max(Set) \in Set /\ \A j \in Set : M!Max(Set) >= j
  BY <1>4, Zenon DEF M!Max
<1>6. Set \subseteq Nat
  OBVIOUS
<1>7. QED
  BY <1>5, <1>6

LEMMA GreatestIs ==
    ASSUME NEW Set, NEW l \in Nat, Set \subseteq 0 .. l, NEW n \in Set, \A i \in Set : i <= n
    PROVE  M!Max(Set) = n
<1>1. M!Max(Set) \in Set /\ n <= M!Max(Set)
  BY GreatestOf
<1>2. PICK end \in Set : end = M!Max(Set) /\ n <= end
  BY <1>1
<1>3. end <= n /\ end \in Nat /\ n \in Nat
  OBVIOUS
<1>4. QED
  BY <1>2, <1>3

MailOf(u) == {i \in DOMAIN message : u \in M!Parties(i)}

LEMMA MailIsTyped ==
    ASSUME MessagesInv
    PROVE  /\ Len(message) \in Nat /\ DOMAIN message = 1 .. Len(message) /\ IsFiniteSet(DOMAIN message)
           /\ \A i \in DOMAIN message : message[i].from \in Writer /\ message[i].to \in Writer
<1>1. Len(message) \in Nat /\ DOMAIN message = 1 .. Len(message)
      /\ \A i \in DOMAIN message : message[i] \in M!Mail
  BY DEF MessagesInv
<1>2. IsFiniteSet(1 .. Len(message))
  BY <1>1, FS_Interval
<1>3. QED
  BY <1>1, <1>2 DEF M!Mail

LEMMA NewerIsFinite ==
    ASSUME MessagesInv, NEW u, NEW i
    PROVE  IsFiniteSet(M!NewerThan(u, i)) /\ Cardinality(M!NewerThan(u, i)) \in Nat
<1>1. M!NewerThan(u, i) \in SUBSET DOMAIN message
  BY DEF M!NewerThan
<1>2. QED
  BY <1>1, MailIsTyped, FS_Subset, FS_CardinalityType

\* What is newer than a message that is fetched is fetched.
LEMMA NewerIsFetched ==
    ASSUME MessagesInv, FetchLimit \in Nat, NEW u, NEW i \in M!Fetched(u), NEW j \in MailOf(u), i <= j
    PROVE  j \in M!Fetched(u)
<1>1. i \in DOMAIN message /\ j \in DOMAIN message /\ i \in Nat /\ j \in Nat /\ u \in M!Parties(j)
      /\ M!Cardinality(M!NewerThan(u, i)) < FetchLimit
  BY MailIsTyped DEF M!Fetched, MailOf
<1>2. M!NewerThan(u, j) \in SUBSET M!NewerThan(u, i)
  BY <1>1, MailIsTyped DEF M!NewerThan
<1>3. Cardinality(M!NewerThan(u, j)) <= Cardinality(M!NewerThan(u, i))
  BY <1>2, NewerIsFinite, FS_Subset
<1>4. Cardinality(M!NewerThan(u, j)) < FetchLimit
  BY <1>1, <1>3, NewerIsFinite, MessagesCounted
<1>5. QED
  BY <1>1, <1>4, MessagesCounted DEF M!Fetched

\* A message with a partner is one of the conversation with the partner.
LEMMA PartnersTalk ==
    ASSUME NEW u, NEW v, NEW i \in MailOf(u)
    PROVE  M!Partner(u, i) = v <=> M!Parties(i) = {u, v}
BY DEF MailOf, M!Parties, M!Partner

\* The list of conversations of a user: those with a message that is fetched, each at its end.
LEMMA ConversationEnds ==
    ASSUME MessagesInv, FetchLimit \in Nat, NEW u, NEW v
    PROVE  LET talk == M!FindConversation(u, v)
               found == M!FindConversations(u)
           IN  /\ v \in DOMAIN found <=> talk # {} /\ M!Cardinality(M!NewerThan(u, M!Max(talk))) < FetchLimit
               /\ v \in DOMAIN found => found[v] = M!Max(talk)
<1> PICK talk : talk = M!FindConversation(u, v)
  OBVIOUS
<1> PICK found : found = M!FindConversations(u)
  OBVIOUS
<1> PICK of : of = {i \in M!Fetched(u) : M!Partner(u, i) = v}
  OBVIOUS
<1>1. talk \subseteq MailOf(u) /\ talk \subseteq 0 .. Len(message) /\ Len(message) \in Nat
  BY MailIsTyped DEF M!FindConversation, MailOf
<1>2. of = {i \in talk : i \in M!Fetched(u)}
  <2>1. M!Fetched(u) \subseteq MailOf(u)
    BY DEF M!Fetched, MailOf
  <2>2. \A i \in MailOf(u) : i \in talk <=> M!Partner(u, i) = v
    BY PartnersTalk DEF M!FindConversation, MailOf
  <2>3. QED
    BY <1>1, <2>1, <2>2
<1>3. v \in DOMAIN found <=> of # {}
  BY DEF M!FindConversations
<1>4. v \in DOMAIN found => found[v] = M!Max(of)
  BY DEF M!FindConversations
<1>5. CASE talk = {}
  BY <1>2, <1>3, <1>5
<1>6. CASE talk # {}
  <2> PICK end : end = M!Max(talk)
    OBVIOUS
  <2>1. end \in talk /\ \A i \in talk : i <= end
    BY <1>1, <1>6, GreatestOf
  <2>2. end \in M!Fetched(u) <=> M!Cardinality(M!NewerThan(u, end)) < FetchLimit
    BY <1>1, <2>1 DEF M!Fetched, MailOf
  <2>3. of # {} => end \in M!Fetched(u)
    BY <1>1, <1>2, <2>1, NewerIsFetched
  <2>4. end \in M!Fetched(u) => M!Max(of) = end
    <3> SUFFICES ASSUME end \in M!Fetched(u) PROVE M!Max(of) = end
      OBVIOUS
    <3>1. end \in of /\ of \subseteq 0 .. Len(message) /\ \A i \in of : i <= end
      BY <1>1, <1>2, <2>1
    <3>2. QED
      BY <1>1, <3>1, GreatestIs
  <2>5. of # {} <=> end \in M!Fetched(u)
    BY <1>2, <2>1, <2>3
  <2>6. QED
    BY <1>3, <1>4, <1>6, <2>2, <2>4, <2>5
<1>7. QED
  BY <1>5, <1>6

LEMMA ConversationsHold == MessagesInv /\ FetchLimit \in Nat => M!ConversationsAreCurrent
<1> SUFFICES ASSUME MessagesInv, FetchLimit \in Nat PROVE M!ConversationsAreCurrent
  OBVIOUS
<1>1. \A u, v : M!FindConversation(u, v) = M!FindConversation(v, u)
  BY DEF M!FindConversation
<1>2. ASSUME NEW u \in Writer, NEW v \in Writer
      PROVE  LET talk == M!FindConversation(u, v)
                 found == M!FindConversations(u)
             IN  /\ v \in DOMAIN found <=> talk # {} /\ M!Cardinality(M!NewerThan(u, M!Max(talk))) < FetchLimit
                 /\ v \in DOMAIN found => found[v] = M!Max(talk)
                 /\ v \in DOMAIN found /\ u \in DOMAIN M!FindConversations(v) =>
                        M!FindConversations(v)[u] = found[v]
  <2>1. u \in DOMAIN M!FindConversations(v) => M!FindConversations(v)[u] = M!Max(M!FindConversation(v, u))
    BY ConversationEnds
  <2>2. M!FindConversation(v, u) = M!FindConversation(u, v)
    BY <1>1
  <2>3. v \in DOMAIN M!FindConversations(u) => M!FindConversations(u)[v] = M!Max(M!FindConversation(u, v))
    BY ConversationEnds
  <2>4. v \in DOMAIN M!FindConversations(u) <=>
            M!FindConversation(u, v) # {}
            /\ M!Cardinality(M!NewerThan(u, M!Max(M!FindConversation(u, v)))) < FetchLimit
    BY ConversationEnds
  <2>5. QED
    BY <2>1, <2>2, <2>3, <2>4
<1>3. QED
  BY <1>2 DEF M!ConversationsAreCurrent

LEMMA UnreadHolds == MessagesInv => M!UnreadIsInConversations
<1> SUFFICES ASSUME MessagesInv, NEW u \in Writer
             PROVE  {i \in DOMAIN message : message[i].to = u /\ ~message[i].read} =
                    UNION {{i \in M!FindConversation(u, v) : message[i].to = u /\ ~message[i].read} : v \in Writer}
  BY DEF M!UnreadIsInConversations, M!UnreadMail
<1>1. ASSUME NEW i \in DOMAIN message, message[i].to = u
      PROVE  \E v \in Writer : i \in M!FindConversation(u, v)
  <2>1. message[i].from \in Writer /\ M!Parties(i) = {u, message[i].from}
    BY <1>1, MailIsTyped DEF M!Parties
  <2>2. i \in M!FindConversation(u, message[i].from)
    BY <2>1 DEF M!FindConversation
  <2>3. QED
    BY <2>1, <2>2
<1>2. \A v \in Writer : M!FindConversation(u, v) \subseteq DOMAIN message
  BY DEF M!FindConversation
<1>3. QED
  BY <1>1, <1>2

LEMMA ConversationHolds ==
    MessagesInv /\ FetchLimit \in Nat => M!ConversationsAreCurrent /\ M!UnreadIsInConversations
BY ConversationsHold, UnreadHolds

(***************************************************************************)
(* Watchlist.  Calls are about deals that exist; the list and what was     *)
(* told change together.                                                   *)
(***************************************************************************)

WatchCall == [op : {"find", "add", "remove"}, deal : Watched]

WatchlistInv ==
    /\ watchable \subseteq Watched
    /\ items \in [Watched -> {0, 1}]
    /\ additions \in [Watched -> {0, 1}]
    /\ additions = items
    /\ \A d \in Watched : items[d] > 0 => d \in watchable
    /\ watchCall \in [WatchRequest -> {W!Idle} \cup WatchCall]
    /\ \A r \in WatchRequest : watchCall[r] # W!Idle => watchCall[r].deal \in watchable

LEMMA WatchlistInit == W!Init => WatchlistInv
BY DEF W!Init, WatchlistInv, W!Idle

\* The call of a request is about a deal that is known.
LEMMA CallOf ==
    ASSUME WatchlistInv, NEW r \in WatchRequest, watchCall[r].op # "idle"
    PROVE  watchCall[r] \in WatchCall /\ watchCall[r].deal \in Watched /\ watchCall[r].deal \in watchable
BY DEF WatchlistInv, W!Idle, WatchCall

LEMMA WatchBegins ==
    ASSUME WatchlistInv, NEW d \in Watched,
           W!CreateDeal(d) \/ \E r \in WatchRequest : W!FindDeal(r, d) \/ W!FindItem(r, d)
    PROVE  WatchlistInv'
<1>1. CASE W!CreateDeal(d)
  BY <1>1 DEF W!CreateDeal, WatchlistInv
<1>2. ASSUME NEW r \in WatchRequest, W!FindDeal(r, d) \/ W!FindItem(r, d)
      PROVE  WatchlistInv'
  <2> PICK op \in {"find", "remove"} : watchCall' = [watchCall EXCEPT ![r] = [op |-> op, deal |-> d]]
    BY <1>2 DEF W!FindDeal, W!FindItem
  <2> PICK new : new = [op |-> op, deal |-> d]
    OBVIOUS
  <2>1. new \in WatchCall /\ new.deal = d
    BY DEF WatchCall
  <2>2. UNCHANGED <<watchable, items, additions>> /\ d \in watchable
    BY <1>2 DEF W!FindDeal, W!FindItem, WatchlistInv
  <2>3. QED
    BY <2>1, <2>2 DEF WatchlistInv
<1>3. QED
  BY <1>1, <1>2

LEMMA CheckExistingStep ==
    ASSUME WatchlistInv, NEW r \in WatchRequest, W!CheckExisting(r)
    PROVE  WatchlistInv'
<1> PICK d : d = watchCall[r].deal
  OBVIOUS
<1>1. watchCall[r] \in WatchCall /\ d \in watchable
  BY CallOf DEF W!CheckExisting
<1> PICK new \in {W!Idle, [watchCall[r] EXCEPT !.op = "add"]} : watchCall' = [watchCall EXCEPT ![r] = new]
  BY DEF W!CheckExisting, WatchlistInv
<1>2. new \in {W!Idle} \cup WatchCall /\ (new # W!Idle => new.deal = d)
  BY <1>1 DEF WatchCall
<1>3. UNCHANGED <<watchable, items, additions>>
  BY DEF W!CheckExisting
<1>4. QED
  BY <1>1, <1>2, <1>3 DEF WatchlistInv

LEMMA ItemStep ==
    ASSUME WatchlistInv, NEW r \in WatchRequest, W!CreateItem(r) \/ W!DeleteItem(r) \/ W!Fail(r)
    PROVE  WatchlistInv'
<1> PICK d : d = watchCall[r].deal
  OBVIOUS
<1>1. watchCall' = [watchCall EXCEPT ![r] = W!Idle] /\ UNCHANGED watchable
  BY DEF W!CreateItem, W!DeleteItem, W!Fail
<1>2. watchCall' \in [WatchRequest -> {W!Idle} \cup WatchCall]
      /\ \A s \in WatchRequest : watchCall'[s] # W!Idle => watchCall'[s].deal \in watchable
  BY <1>1 DEF WatchlistInv
<1>3. CASE UNCHANGED <<items, additions>>
  BY <1>1, <1>2, <1>3 DEF WatchlistInv
<1>4. CASE W!CreateItem(r) /\ items[d] = 0
  <2>1. d \in Watched /\ d \in watchable
    BY <1>4, CallOf DEF W!CreateItem
  <2>2. /\ items' = [items EXCEPT ![d] = 1]
        /\ additions' = [additions EXCEPT ![d] = additions[d] + 1]
    BY <1>4 DEF W!CreateItem
  <2>3. additions[d] + 1 = 1
    BY <1>4 DEF WatchlistInv
  <2>4. QED
    BY <1>1, <1>2, <2>1, <2>2, <2>3 DEF WatchlistInv
<1>5. CASE W!DeleteItem(r) /\ items[d] > 0
  <2>1. d \in Watched
    BY <1>5, CallOf DEF W!DeleteItem
  <2>2. /\ items' = [items EXCEPT ![d] = 0]
        /\ additions' = [additions EXCEPT ![d] = additions[d] - 1]
    BY <1>5 DEF W!DeleteItem
  <2>3. additions[d] - 1 = 0
    BY <1>5, <2>1 DEF WatchlistInv
  <2>4. additions' = items'
    BY <2>2, <2>3 DEF WatchlistInv
  <2>5. /\ items' \in [Watched -> {0, 1}]
        /\ \A e \in Watched : items'[e] > 0 => items[e] > 0
    BY <2>1, <2>2 DEF WatchlistInv
  <2>6. QED
    BY <1>1, <1>2, <2>4, <2>5 DEF WatchlistInv
<1>6. QED
  BY <1>3, <1>4, <1>5 DEF W!CreateItem, W!DeleteItem, W!Fail

LEMMA WatchlistNext ==
    ASSUME WatchlistInv, W!Next \/ UNCHANGED W!vars
    PROVE  WatchlistInv'
<1>1. CASE UNCHANGED W!vars
  BY <1>1 DEF W!vars, WatchlistInv
<1>2. CASE W!Next
  BY <1>2, WatchBegins, CheckExistingStep, ItemStep DEF W!Next
<1>3. QED
  BY <1>1, <1>2

LEMMA WatchlistHolds == WatchlistInv => W!TypeOK /\ W!ListedAsTold
BY DEF WatchlistInv, WatchCall, W!TypeOK, W!ListedAsTold

(***************************************************************************)
(* Advisor.  How far a call has come tells what its session holds of it,   *)
(* and where: the answer after the question.                               *)
(***************************************************************************)

Said == [role : {"user", "ai"}, of : Question]
Call == [at : {"asking", "asked", "answered", "done", "failed"}, session : ChatSession]

Silent(s, q) == A!SaidBy(s, q, "user") = {} /\ A!SaidBy(s, q, "ai") = {}
AskedIn(s, q) == A!SaidBy(s, q, "ai") = {} /\ \E j \in Nat : A!SaidBy(s, q, "user") = {j}
AnsweredIn(s, q) ==
    \E i, j \in Nat : j < i /\ A!SaidBy(s, q, "user") = {j} /\ A!SaidBy(s, q, "ai") = {i}

\* What the sessions hold of a call.
CallHolds(q) ==
    /\ \A s \in ChatSession : chatCall[q] = A!Start \/ s # chatCall[q].session => Silent(s, q)
    /\ chatCall[q].at = "asking" => Silent(chatCall[q].session, q)
    /\ chatCall[q].at = "asked" => AskedIn(chatCall[q].session, q)
    /\ chatCall[q].at \in {"answered", "done"} => AnsweredIn(chatCall[q].session, q)
    /\ chatCall[q].at = "failed" =>
           \/ Silent(chatCall[q].session, q)
           \/ AskedIn(chatCall[q].session, q)
           \/ AnsweredIn(chatCall[q].session, q)
EmptyIsAsking ==
    \A s \in ChatSession : s \in chats /\ chat[s] = <<>> =>
        \E q \in Question : chatCall[q].at \in {"asking", "failed"} /\ chatCall[q].session = s

AdvisorInv ==
    /\ chats \subseteq ChatSession
    /\ chat \in [ChatSession -> Seq(Said)]
    /\ chatCall \in [Question -> {A!Start} \cup Call]
    /\ \A q \in Question : CallHolds(q)
    /\ EmptyIsAsking

\* Counting is the same in the part and here.
LEMMA AdvisorCounted == \A s : A!Cardinality(s) = Cardinality(s)
BY DEF A!Cardinality, Cardinality

LEMMA AdvisorInit == A!Init => AdvisorInv
<1> SUFFICES ASSUME A!Init PROVE AdvisorInv
  OBVIOUS
<1>1. \A s \in ChatSession, q \in Question : Silent(s, q)
  BY DEF A!Init, Silent, A!SaidBy
<1>2. \A q \in Question : CallHolds(q)
  BY <1>1 DEF A!Init, CallHolds, A!Start
<1>3. QED
  BY <1>2 DEF A!Init, AdvisorInv, EmptyIsAsking

\* A call that has begun.
LEMMA ChatOf ==
    ASSUME AdvisorInv, NEW q \in Question, chatCall[q].at # "start"
    PROVE  chatCall[q] \in Call /\ chatCall[q].session \in ChatSession
BY DEF AdvisorInv, A!Start, Call

\* Positions are numbers up to the length.
LEMMA SaidEarlier ==
    ASSUME AdvisorInv, NEW s \in ChatSession, NEW q, NEW role, NEW i \in A!SaidBy(s, q, role)
    PROVE  i \in Nat /\ i <= Len(chat[s]) /\ Len(chat[s]) \in Nat
BY DEF AdvisorInv, A!SaidBy

\* What is said is said at the end, and only by its call.
LEMMA SayStep ==
    ASSUME AdvisorInv, NEW q \in Question, NEW role \in {"user", "ai"},
           NEW s \in ChatSession, s = chatCall[q].session, A!Say(q, role)
    PROVE  /\ chat' \in [ChatSession -> Seq(Said)]
           /\ chat'[s] # <<>>
           /\ \A t \in ChatSession : t # s => chat'[t] = chat[t]
           /\ \A t \in ChatSession, p \in Question, other \in {"user", "ai"} :
                  A!SaidBy(t, p, other)' =
                      IF t = s /\ p = q /\ other = role
                      THEN A!SaidBy(t, p, other) \cup {Len(chat[s]) + 1}
                      ELSE A!SaidBy(t, p, other)
<1> PICK entry : entry = [role |-> role, of |-> q]
  OBVIOUS
<1> PICK old : old = chat[s]
  OBVIOUS
<1>1. entry \in Said /\ old \in Seq(Said) /\ Len(old) \in Nat
  <2>1. entry \in Said
    BY DEF Said
  <2>2. old \in Seq(Said)
    BY DEF AdvisorInv
  <2>3. QED
    BY <2>1, <2>2
<1>2. chat' = [chat EXCEPT ![s] = Append(old, entry)]
  BY DEF A!Say
<1>3. chat' \in [ChatSession -> Seq(Said)] /\ chat'[s] = Append(old, entry)
      /\ \A t \in ChatSession : t # s => chat'[t] = chat[t]
  BY <1>1, <1>2 DEF AdvisorInv
<1>4. /\ DOMAIN Append(old, entry) = 1 .. Len(old) + 1
      /\ DOMAIN old = 1 .. Len(old)
      /\ Append(old, entry)[Len(old) + 1] = entry
      /\ \A i \in 1 .. Len(old) : Append(old, entry)[i] = old[i]
      /\ Append(old, entry) # <<>>
  BY <1>1
<1>5. ASSUME NEW t \in ChatSession, NEW p \in Question, NEW other \in {"user", "ai"}
      PROVE  A!SaidBy(t, p, other)' =
                 IF t = s /\ p = q /\ other = role
                 THEN A!SaidBy(t, p, other) \cup {Len(chat[s]) + 1}
                 ELSE A!SaidBy(t, p, other)
  <2>1. CASE t # s
    BY <1>3, <2>1 DEF A!SaidBy
  <2>2. CASE t = s
    <3> PICK word : word = [role |-> other, of |-> p]
      OBVIOUS
    <3>1. A!SaidBy(t, p, other) = {i \in 1 .. Len(old) : old[i] = word}
      BY <1>4, <2>2 DEF A!SaidBy
    <3>2. A!SaidBy(t, p, other)' = {i \in 1 .. Len(old) + 1 : Append(old, entry)[i] = word}
      BY <1>3, <1>4, <2>2 DEF A!SaidBy
    <3>3. entry = word <=> p = q /\ other = role
      OBVIOUS
    <3>4. 1 .. Len(old) + 1 = 1 .. Len(old) \cup {Len(old) + 1}
      BY <1>1
    <3>5. CASE entry = word
      <4>1. A!SaidBy(t, p, other)' = A!SaidBy(t, p, other) \cup {Len(old) + 1}
        BY <1>4, <3>1, <3>2, <3>4, <3>5
      <4>2. QED
        BY <2>2, <3>3, <3>5, <4>1
    <3>6. CASE entry # word
      <4>1. A!SaidBy(t, p, other)' = A!SaidBy(t, p, other)
        BY <1>4, <3>1, <3>2, <3>4, <3>6
      <4>2. QED
        BY <2>2, <3>3, <3>6, <4>1
    <3>7. QED
      BY <3>5, <3>6
  <2>3. QED
    BY <2>1, <2>2
<1>6. QED
  BY <1>3, <1>4, <1>5

\* The call of one question is written, and nothing is said.
LEMMA CallWrite ==
    ASSUME AdvisorInv, NEW q \in Question, NEW new \in Call,
           chatCall' = [chatCall EXCEPT ![q] = new], UNCHANGED chat,
           chats' \subseteq ChatSession, chats' \subseteq chats \cup {new.session},
           chatCall[q] = A!Start \/ new.session = chatCall[q].session,
           chatCall[q] = A!Start => new.at = "asking",
           chatCall[q] # A!Start => chats' = chats,
           chatCall[q] # A!Start =>
               \/ new.at = "failed"
               \/ chatCall[q].at = "answered" /\ new.at = "done"
    PROVE  AdvisorInv'
<1>1. chatCall' \in [Question -> {A!Start} \cup Call] /\ chatCall'[q] = new
      /\ \A p \in Question : p # q => chatCall'[p] = chatCall[p]
  BY DEF AdvisorInv
<1>2. \A s \in ChatSession, p \in Question, role \in {"user", "ai"} : A!SaidBy(s, p, role)' = A!SaidBy(s, p, role)
  BY DEF A!SaidBy
<1>3. \A s \in ChatSession, p \in Question :
          /\ Silent(s, p) => Silent(s, p)'
          /\ AskedIn(s, p) => AskedIn(s, p)'
          /\ AnsweredIn(s, p) => AnsweredIn(s, p)'
  BY <1>2 DEF Silent, AskedIn, AnsweredIn
<1>4. new.session \in ChatSession /\ new # A!Start
  BY DEF Call, A!Start
<1>5. ASSUME NEW p \in Question PROVE CallHolds(p)'
  <2>1. CASE p # q
    <3>1. chatCall[p] \in {A!Start} \cup Call
      BY DEF AdvisorInv
    <3>2. chatCall[p] = A!Start \/ chatCall[p].session \in ChatSession
      BY <3>1 DEF Call
    <3>3. QED
      BY <1>1, <1>3, <2>1, <3>2 DEF AdvisorInv, CallHolds, A!Start
  <2>2. CASE p = q /\ chatCall[q] = A!Start
    <3>1. \A s \in ChatSession : Silent(s, q)
      BY <2>2 DEF AdvisorInv, CallHolds
    <3>2. QED
      BY <1>1, <1>3, <1>4, <2>2, <3>1 DEF CallHolds
  <2>3. CASE p = q /\ chatCall[q] # A!Start
    <3>1. chatCall[q] \in Call
      BY <2>3 DEF AdvisorInv
    <3>2. CallHolds(q)
      BY DEF AdvisorInv
    <3>3. \A s \in ChatSession : s # new.session => Silent(s, q)
      BY <2>3, <3>2 DEF CallHolds
    <3>4. \/ Silent(new.session, q)
          \/ AskedIn(new.session, q)
          \/ AnsweredIn(new.session, q)
      BY <2>3, <3>1, <3>2 DEF CallHolds, Call
    <3>5. new.at = "done" => AnsweredIn(new.session, q)
      BY <2>3, <3>2 DEF CallHolds
    <3>6. new.at \in {"failed", "done"}
      BY <2>3
    <3>7. QED
      BY <1>1, <1>3, <1>4, <2>3, <3>3, <3>4, <3>5, <3>6 DEF CallHolds
  <2>4. QED
    BY <2>1, <2>2, <2>3
<1>6. EmptyIsAsking'
  <2> SUFFICES ASSUME NEW s \in ChatSession, s \in chats', chat'[s] = <<>>
               PROVE  \E p \in Question : chatCall'[p].at \in {"asking", "failed"} /\ chatCall'[p].session = s
    BY DEF EmptyIsAsking
  <2>1. CASE s \notin chats
    BY <1>1, <2>1
  <2>2. CASE s \in chats
    <3>1. PICK p \in Question : chatCall[p].at \in {"asking", "failed"} /\ chatCall[p].session = s
      BY <2>2 DEF AdvisorInv, EmptyIsAsking
    <3>2. CASE p # q
      BY <1>1, <3>1, <3>2
    <3>3. CASE p = q
      <4>1. chatCall[q] # A!Start
        BY <3>1, <3>3 DEF A!Start
      <4>2. new.at = "failed" /\ new.session = s
        BY <3>1, <3>3, <4>1
      <4>3. QED
        BY <1>1, <4>2
    <3>4. QED
      BY <3>2, <3>3
  <2>3. QED
    BY <2>1, <2>2
<1>7. chat' \in [ChatSession -> Seq(Said)] /\ chats' \subseteq ChatSession
  BY DEF AdvisorInv
<1>8. QED
  BY <1>1, <1>5, <1>6, <1>7 DEF AdvisorInv

\* A call says something, and goes on.
LEMMA SpeakStep ==
    ASSUME AdvisorInv, NEW q \in Question,
           NEW role \in {"user", "ai"}, NEW new \in Call,
           A!Say(q, role), UNCHANGED chats, chatCall' = [chatCall EXCEPT ![q] = new],
           chatCall[q] \in Call, new.session = chatCall[q].session,
           \/ role = "user" /\ chatCall[q].at = "asking" /\ new.at = "asked"
           \/ role = "ai" /\ chatCall[q].at = "asked" /\ new.at = "answered"
    PROVE  AdvisorInv'
<1> PICK s : s = chatCall[q].session
  OBVIOUS
<1> PICK last : last = Len(chat[s]) + 1
  OBVIOUS
<1>1. s \in ChatSession /\ chat[s] \in Seq(Said) /\ last \in Nat
  BY DEF Call, AdvisorInv
<1>2. /\ chat' \in [ChatSession -> Seq(Said)]
      /\ chat'[s] # <<>>
      /\ \A t \in ChatSession : t # s => chat'[t] = chat[t]
      /\ \A t \in ChatSession, p \in Question, other \in {"user", "ai"} :
             A!SaidBy(t, p, other)' =
                 IF t = s /\ p = q /\ other = role
                 THEN A!SaidBy(t, p, other) \cup {last}
                 ELSE A!SaidBy(t, p, other)
  BY <1>1, SayStep
<1>3. chatCall' \in [Question -> {A!Start} \cup Call] /\ chatCall'[q] = new
      /\ \A p \in Question : p # q => chatCall'[p] = chatCall[p]
  BY DEF AdvisorInv
<1>4. ASSUME NEW t \in ChatSession, NEW p \in Question, t # s \/ p # q
      PROVE  /\ Silent(t, p) => Silent(t, p)'
             /\ AskedIn(t, p) => AskedIn(t, p)'
             /\ AnsweredIn(t, p) => AnsweredIn(t, p)'
  BY <1>2, <1>4 DEF Silent, AskedIn, AnsweredIn
<1>5. CallHolds(q)
  BY DEF AdvisorInv
<1>6. CallHolds(q)'
  <2>1. \A t \in ChatSession : t # s => Silent(t, q)'
    BY <1>4, <1>5 DEF CallHolds
  <2>2. CASE role = "user"
    <3>1. Silent(s, q) /\ new.at = "asked"
      BY <1>5, <2>2 DEF CallHolds
    <3>2. AskedIn(s, q)'
      BY <1>1, <1>2, <2>2, <3>1 DEF Silent, AskedIn
    <3>3. QED
      BY <1>3, <2>1, <3>1, <3>2 DEF CallHolds, A!Start, Call
  <2>3. CASE role = "ai"
    <3>1. AskedIn(s, q) /\ new.at = "answered"
      BY <1>5, <2>3 DEF CallHolds
    <3>2. PICK j \in Nat : A!SaidBy(s, q, "user") = {j} /\ A!SaidBy(s, q, "ai") = {}
      BY <3>1 DEF AskedIn
    <3>3. j < last
      <4>1. j \in A!SaidBy(s, q, "user")
        BY <3>2
      <4>2. j <= Len(chat[s]) /\ Len(chat[s]) \in Nat
        BY <1>1, <4>1, SaidEarlier
      <4>3. QED
        BY <4>2
    <3>4. A!SaidBy(s, q, "user")' = {j} /\ A!SaidBy(s, q, "ai")' = {last}
      BY <1>1, <1>2, <2>3, <3>2
    <3>5. AnsweredIn(s, q)'
      BY <1>1, <3>3, <3>4 DEF AnsweredIn
    <3>6. QED
      BY <1>3, <2>1, <3>1, <3>5 DEF CallHolds, A!Start, Call
  <2>4. QED
    BY <2>2, <2>3
<1>7. ASSUME NEW p \in Question, p # q PROVE CallHolds(p)'
  <2>1. chatCall'[p] = chatCall[p] /\ CallHolds(p) /\ chatCall[p] \in {A!Start} \cup Call
    BY <1>3, <1>7 DEF AdvisorInv
  <2>2. chatCall[p] = A!Start \/ chatCall[p].session \in ChatSession
    BY <2>1 DEF Call
  <2>3. QED
    BY <1>4, <1>7, <2>1, <2>2 DEF CallHolds, A!Start
<1>8. EmptyIsAsking'
  <2> SUFFICES ASSUME NEW t \in ChatSession, t \in chats', chat'[t] = <<>>
               PROVE  \E p \in Question : chatCall'[p].at \in {"asking", "failed"} /\ chatCall'[p].session = t
    BY DEF EmptyIsAsking
  <2>1. t # s /\ t \in chats /\ chat[t] = <<>>
    BY <1>2
  <2>2. PICK p \in Question : chatCall[p].at \in {"asking", "failed"} /\ chatCall[p].session = t
    BY <2>1 DEF AdvisorInv, EmptyIsAsking
  <2>3. p # q
    BY <2>1, <2>2
  <2>4. QED
    BY <1>3, <2>2, <2>3
<1>9. QED
  BY <1>2, <1>3, <1>6, <1>7, <1>8 DEF AdvisorInv

LEMMA AdvisorCallStep ==
    ASSUME AdvisorInv, NEW q \in Question,
           A!AskAdvisor(q) \/ A!AnswerUser(q) \/ A!TouchSession(q) \/ A!GiveUp(q)
    PROVE  AdvisorInv'
<1>1. chatCall[q] \in Call /\ chatCall[q] # A!Start
  BY ChatOf DEF A!AskAdvisor, A!AnswerUser, A!TouchSession, A!GiveUp, Call, A!Start
<1>2. PICK at \in {"asked", "answered", "done", "failed"} :
          /\ chatCall' = [chatCall EXCEPT ![q].at = at]
          /\ \/ A!Say(q, "user") /\ chatCall[q].at = "asking" /\ at = "asked"
             \/ A!Say(q, "ai") /\ chatCall[q].at = "asked" /\ at = "answered"
             \/ UNCHANGED chat /\ (at = "failed" \/ (chatCall[q].at = "answered" /\ at = "done"))
  BY DEF A!AskAdvisor, A!AnswerUser, A!TouchSession, A!GiveUp
<1> PICK new : new = [chatCall[q] EXCEPT !.at = at]
  OBVIOUS
<1>3. new \in Call /\ new.at = at /\ new.session = chatCall[q].session
  BY <1>1 DEF Call
<1>4. chatCall' = [chatCall EXCEPT ![q] = new] /\ UNCHANGED chats
  BY <1>2 DEF AdvisorInv, A!AskAdvisor, A!AnswerUser, A!TouchSession, A!GiveUp
<1>5. chats' \subseteq ChatSession
  BY <1>4 DEF AdvisorInv
<1>6. QED
  BY <1>1, <1>2, <1>3, <1>4, <1>5, CallWrite, SpeakStep

LEMMA OpenStep ==
    ASSUME AdvisorInv, NEW q \in Question, NEW s \in ChatSession, A!OpenSession(q, s) \/ A!FindSession(q, s)
    PROVE  AdvisorInv'
<1> PICK new : new = [at |-> "asking", session |-> s]
  OBVIOUS
<1>1. new \in Call /\ new.at = "asking" /\ new.session = s
  BY DEF Call
<1>2. chatCall[q] = A!Start /\ chatCall' = [chatCall EXCEPT ![q] = new] /\ UNCHANGED chat
      /\ chats' \subseteq chats \cup {s}
  BY DEF A!OpenSession, A!FindSession
<1>3. chats' \subseteq ChatSession
  BY <1>2 DEF AdvisorInv
<1>4. QED
  BY <1>1, <1>2, <1>3, CallWrite

LEMMA AdvisorNext ==
    ASSUME AdvisorInv, A!Next \/ UNCHANGED A!vars
    PROVE  AdvisorInv'
<1>1. CASE UNCHANGED A!vars
  <2>1. UNCHANGED <<chats, chat, chatCall>>
    BY <1>1 DEF A!vars
  <2>2. \A s \in ChatSession, q \in Question : A!SaidBy(s, q, "user")' = A!SaidBy(s, q, "user")
            /\ A!SaidBy(s, q, "ai")' = A!SaidBy(s, q, "ai")
    BY <2>1 DEF A!SaidBy
  <2>3. \A q \in Question : chatCall[q] = A!Start \/ chatCall[q].session \in ChatSession
    BY DEF AdvisorInv, Call
  <2>4. \A s \in ChatSession, q \in Question :
            /\ Silent(s, q) => Silent(s, q)'
            /\ AskedIn(s, q) => AskedIn(s, q)'
            /\ AnsweredIn(s, q) => AnsweredIn(s, q)'
    BY <2>2 DEF Silent, AskedIn, AnsweredIn
  <2>5. \A q \in Question : CallHolds(q)'
    BY <2>1, <2>3, <2>4 DEF AdvisorInv, CallHolds, A!Start
  <2>6. QED
    BY <2>1, <2>5 DEF AdvisorInv, EmptyIsAsking
<1>2. CASE A!Next
  BY <1>2, AdvisorCallStep, OpenStep DEF A!Next
<1>3. QED
  BY <1>1, <1>2

LEMMA AdvisorHolds == AdvisorInv => A!TypeOK /\ A!AnswersFollow
<1> SUFFICES ASSUME AdvisorInv PROVE A!TypeOK /\ A!AnswersFollow
  OBVIOUS
<1>1. A!TypeOK
  <2>1. ASSUME NEW s \in ChatSession, NEW i \in DOMAIN chat[s] PROVE chat[s][i] \in Said
    <3>1. chat[s] \in Seq(Said)
      BY DEF AdvisorInv
    <3>2. QED
      BY <3>1
  <2>2. chats \subseteq ChatSession /\ \A q \in Question : chatCall[q] \in {A!Start} \cup Call
    BY DEF AdvisorInv
  <2>3. QED
    BY <2>1, <2>2, Zenon DEF A!TypeOK, Said, Call
<1>2. ASSUME NEW s \in ChatSession, NEW q \in Question
      PROVE  \/ Silent(s, q)
             \/ AskedIn(s, q) /\ chatCall[q].at \in {"asked", "failed"}
             \/ AnsweredIn(s, q)
  <2>1. CallHolds(q) /\ chatCall[q] \in {A!Start} \cup Call
    BY DEF AdvisorInv
  <2>2. CASE chatCall[q] = A!Start \/ s # chatCall[q].session
    BY <2>1, <2>2 DEF CallHolds
  <2>3. CASE chatCall[q] # A!Start /\ s = chatCall[q].session
    BY <2>1, <2>3 DEF CallHolds, Call
  <2>4. QED
    BY <2>2, <2>3
<1>3. Cardinality({}) = 0 /\ \A x : Cardinality({x}) = 1
  BY FS_EmptySet, FS_Singleton
<1>4. ASSUME NEW s \in ChatSession, NEW q \in Question
      PROVE  /\ Cardinality(A!SaidBy(s, q, "user")) <= 1 /\ Cardinality(A!SaidBy(s, q, "ai")) <= 1
             /\ \A i \in A!SaidBy(s, q, "ai") : \E j \in A!SaidBy(s, q, "user") : j < i
             /\ A!SaidBy(s, q, "user") # {} /\ A!SaidBy(s, q, "ai") = {} => chatCall[q].at \in {"asked", "failed"}
  <2>1. CASE Silent(s, q)
    BY <1>3, <2>1 DEF Silent
  <2>2. CASE AskedIn(s, q) /\ chatCall[q].at \in {"asked", "failed"}
    <3>1. PICK j \in Nat : A!SaidBy(s, q, "user") = {j} /\ A!SaidBy(s, q, "ai") = {}
      BY <2>2 DEF AskedIn
    <3>2. Cardinality(A!SaidBy(s, q, "user")) = 1 /\ Cardinality(A!SaidBy(s, q, "ai")) = 0
      BY <1>3, <3>1, Zenon
    <3>3. QED
      BY <2>2, <3>1, <3>2
  <2>3. CASE AnsweredIn(s, q)
    <3>1. PICK i, j \in Nat : j < i /\ A!SaidBy(s, q, "user") = {j} /\ A!SaidBy(s, q, "ai") = {i}
      BY <2>3 DEF AnsweredIn
    <3>2. Cardinality(A!SaidBy(s, q, "user")) = 1 /\ Cardinality(A!SaidBy(s, q, "ai")) = 1
      BY <1>3, <3>1, Zenon
    <3>3. QED
      BY <3>1, <3>2
  <2>4. QED
    BY <1>2, <2>1, <2>2, <2>3
<1>5. QED
  BY AdvisorCounted, <1>1, <1>4 DEF A!AnswersFollow, AdvisorInv, EmptyIsAsking

(***************************************************************************)
(* Gallery.  A transaction names media, none twice; the media that have    *)
(* not moved since stand where the order that was committed last put them. *)
(***************************************************************************)

PicturesAssumption == IsFiniteSet(Picture)

\* Lists of media, none twice.
Order == {ids \in Seq(Picture) :
              /\ Len(ids) <= Cardinality(Picture)
              /\ \A i, j \in 1 .. Len(ids) : i # j => ids[i] # ids[j]}
OpenTx == {t \in [at : {"open"}, ids : Order, done : Nat] : t.done <= Len(t.ids)}

GalleryInv ==
    /\ place \in [Picture -> 0 .. Cardinality(Picture) - 1 \cup SortOrders]
    /\ tx \in [Reorder -> {O!Start, O!Over} \cup OpenTx]
    /\ ordered \in [ids : Order, moved : SUBSET Picture]
    /\ \A i \in 1 .. Len(ordered.ids) :
           ordered.ids[i] \notin ordered.moved => place[ordered.ids[i]] = i - 1

\* Counting is the same in the part and here.
LEMMA GalleryCounted == \A s : O!Cardinality(s) = Cardinality(s)
BY DEF O!Cardinality, Cardinality

LEMMA PictureCount == PicturesAssumption => Cardinality(Picture) \in Nat
BY FS_CardinalityType DEF PicturesAssumption

LEMMA GalleryInit == PicturesAssumption /\ O!Init => GalleryInv
<1> SUFFICES ASSUME PicturesAssumption, O!Init PROVE GalleryInv
  OBVIOUS
<1>1. ASSUME NEW x \in Picture PROVE 0 \in 0 .. Cardinality(Picture) - 1
  <2>1. Cardinality(Picture) # 0
    BY FS_EmptySet DEF PicturesAssumption
  <2>2. QED
    BY <2>1, PictureCount
<1>2. <<>> \in Order
  BY PictureCount DEF Order
<1>3. QED
  BY <1>1, <1>2 DEF O!Init, GalleryInv

\* The lists a request may name.
LEMMA ListsAreOrders ==
    ASSUME PicturesAssumption, NEW some \in SUBSET Picture, NEW ids \in O!SetToSeqs(some)
    PROVE  ids \in Order
<1>1. IsFiniteSet(some) /\ Cardinality(some) <= Cardinality(Picture) /\ Cardinality(some) \in Nat
  BY FS_Subset, FS_CardinalityType DEF PicturesAssumption
<1>2. ids \in [1 .. Cardinality(some) -> some]
      /\ \A i, j \in 1 .. Cardinality(some) : i # j => ids[i] # ids[j]
  BY GalleryCounted DEF O!SetToSeqs
<1>3. ids \in Seq(Picture) /\ Len(ids) = Cardinality(some)
  BY <1>1, <1>2
<1>4. QED
  BY <1>1, <1>2, <1>3 DEF Order

LEMMA OpenOf ==
    ASSUME GalleryInv, NEW r \in Reorder, O!Open(r)
    PROVE  /\ tx[r] \in OpenTx /\ tx[r].ids \in Order
           /\ tx[r].done \in Nat /\ tx[r].done <= Len(tx[r].ids)
BY DEF GalleryInv, O!Open, O!Start, O!Over, OpenTx

\* Transactions that begin, go on or are undone.
LEMMA TxStep ==
    ASSUME PicturesAssumption, GalleryInv, NEW r \in Reorder,
           O!BeginOrder(r) \/ O!PlaceNext(r) \/ O!AbortOrder(r)
    PROVE  GalleryInv'
<1>1. UNCHANGED <<place, ordered>>
  BY DEF O!BeginOrder, O!PlaceNext, O!AbortOrder
<1>2. tx' \in [Reorder -> {O!Start, O!Over} \cup OpenTx]
  <2>1. CASE O!AbortOrder(r)
    BY <2>1 DEF O!AbortOrder, GalleryInv
  <2>2. CASE O!BeginOrder(r)
    <3>1. PICK some \in SUBSET Picture : \E ids \in O!SetToSeqs(some) :
              tx' = [tx EXCEPT ![r] = [at |-> "open", ids |-> ids, done |-> 0]]
      BY <2>2 DEF O!BeginOrder
    <3>2. PICK ids \in O!SetToSeqs(some) :
              tx' = [tx EXCEPT ![r] = [at |-> "open", ids |-> ids, done |-> 0]]
      BY <3>1
    <3>3. ids \in Order
      BY ListsAreOrders
    <3>4. [at |-> "open", ids |-> ids, done |-> 0] \in OpenTx
      BY <3>3 DEF OpenTx, Order
    <3>5. QED
      BY <3>2, <3>4 DEF GalleryInv
  <2>3. CASE O!PlaceNext(r)
    <3> PICK old : old = tx[r]
      OBVIOUS
    <3> PICK new : new = [old EXCEPT !.done = old.done + 1]
      OBVIOUS
    <3>1. old \in OpenTx /\ old.done < Len(old.ids) /\ tx' = [tx EXCEPT ![r] = new]
      BY <2>3, OpenOf DEF O!PlaceNext
    <3>2. new \in [at : {"open"}, ids : Order, done : Nat] /\ new.done = old.done + 1 /\ new.ids = old.ids
      BY <3>1 DEF OpenTx
    <3>3. Len(old.ids) \in Nat /\ old.done \in Nat
      BY <3>1 DEF OpenTx, Order
    <3>4. new \in OpenTx
      BY <3>1, <3>2, <3>3 DEF OpenTx
    <3>5. QED
      BY <3>1, <3>4 DEF GalleryInv
  <2>4. QED
    BY <2>1, <2>2, <2>3
<1>3. QED
  BY <1>1, <1>2 DEF GalleryInv

\* All media the list names get their places at once.
LEMMA CommitOrderStep ==
    ASSUME PicturesAssumption, GalleryInv, NEW r \in Reorder, O!CommitOrder(r)
    PROVE  GalleryInv'
<1> PICK ids : ids = tx[r].ids
  OBVIOUS
<1>1. ids \in Order /\ tx[r].done = Len(ids)
  BY OpenOf DEF O!CommitOrder
<1>2. ids \in Seq(Picture) /\ Len(ids) \in Nat /\ DOMAIN ids = 1 .. Len(ids)
      /\ Len(ids) <= Cardinality(Picture)
      /\ \A i, j \in 1 .. Len(ids) : i # j => ids[i] # ids[j]
  BY <1>1 DEF Order
<1>3. O!Written(r) = {ids[i] : i \in 1 .. Len(ids)}
  BY <1>1 DEF O!Written
<1>4. ASSUME NEW i \in 1 .. Len(ids)
      PROVE  ids[i] \in Picture /\ place'[ids[i]] = i - 1
  <2>1. ids[i] \in Picture /\ ids[i] \in O!Written(r)
    BY <1>2, <1>3
  <2>2. (CHOOSE k \in DOMAIN ids : ids[k] = ids[i]) = i
    BY <1>2
  <2>3. QED
    BY <2>1, <2>2 DEF O!CommitOrder
<1>5. ASSUME NEW x \in Picture
      PROVE  place'[x] \in 0 .. Cardinality(Picture) - 1 \cup SortOrders
  <2>1. CASE x \in O!Written(r)
    <3>1. PICK i \in 1 .. Len(ids) : x = ids[i]
      BY <1>3, <2>1
    <3>2. place'[x] = i - 1
      BY <1>4, <3>1
    <3>3. QED
      BY <1>2, <3>2, PictureCount
  <2>2. CASE x \notin O!Written(r)
    BY <2>2 DEF O!CommitOrder, GalleryInv
  <2>3. QED
    BY <2>1, <2>2
<1>6. place' \in [Picture -> 0 .. Cardinality(Picture) - 1 \cup SortOrders]
  BY <1>5 DEF O!CommitOrder
<1>7. tx' \in [Reorder -> {O!Start, O!Over} \cup OpenTx]
  BY DEF O!CommitOrder, GalleryInv
<1>8. ordered' = [ids |-> ids, moved |-> {}]
  BY DEF O!CommitOrder
<1>9. ordered' \in [ids : Order, moved : SUBSET Picture] /\ ordered'.ids = ids
  BY <1>1, <1>8
<1>10. \A i \in 1 .. Len(ordered'.ids) :
           ordered'.ids[i] \notin ordered'.moved => place'[ordered'.ids[i]] = i - 1
  BY <1>4, <1>9
<1>11. QED
  BY <1>6, <1>7, <1>9, <1>10 DEF GalleryInv

\* One medium is moved on its own.
LEMMA UpdateMediaStep ==
    ASSUME GalleryInv, NEW x \in Picture, NEW n \in SortOrders, O!UpdateMedia(x, n)
    PROVE  GalleryInv'
<1>1. /\ place' = [place EXCEPT ![x] = n] /\ UNCHANGED tx
      /\ ordered' = [ordered EXCEPT !.moved = ordered.moved \cup {x}]
  BY DEF O!UpdateMedia
<1>2. /\ ordered' \in [ids : Order, moved : SUBSET Picture]
      /\ ordered'.ids = ordered.ids /\ ordered'.moved = ordered.moved \cup {x}
  BY <1>1 DEF GalleryInv
<1>3. \A i \in 1 .. Len(ordered.ids) : ordered.ids[i] \in Picture
  BY DEF GalleryInv, Order
<1>4. QED
  BY <1>1, <1>2, <1>3 DEF GalleryInv

LEMMA GalleryNext ==
    ASSUME PicturesAssumption, GalleryInv, O!Next \/ UNCHANGED O!vars
    PROVE  GalleryInv'
<1>1. CASE UNCHANGED O!vars
  BY <1>1 DEF O!vars, GalleryInv
<1>2. CASE O!Next
  BY <1>2, TxStep, CommitOrderStep, UpdateMediaStep DEF O!Next
<1>3. QED
  BY <1>1, <1>2

LEMMA GalleryHolds == GalleryInv => O!TypeOK /\ O!LastOrderStands
<1> SUFFICES ASSUME GalleryInv PROVE O!TypeOK /\ O!LastOrderStands
  OBVIOUS
<1>1. ordered.ids \in Seq(Picture)
  BY DEF GalleryInv, Order
<1>2. O!LastOrderStands
  BY <1>1 DEF GalleryInv, O!LastOrderStands, O!Before
<1>3. \A r \in Reorder : tx[r] \in {O!Start, O!Over} \/ tx[r].done \in 0 .. Len(tx[r].ids)
  BY DEF GalleryInv, OpenTx, Order
<1>4. QED
  BY GalleryCounted, <1>2, <1>3 DEF GalleryInv, O!TypeOK

(***************************************************************************)
(* Milestones.  A call is about a milestone; no write takes back who       *)
(* vouched, or touches what was removed.                                   *)
(***************************************************************************)

MilestoneRow == [status : C!MilestoneStatus \cup {"ABSENT", "REMOVED"}, completed : BOOLEAN]
StageCall ==
    [op : {"remove", "complete"}, of : Milestone]
    \cup [op : {"update"}, of : Milestone, asked : C!MilestoneStatus \cup {""}]

MilestonesInv ==
    /\ milestone \in [Milestone -> MilestoneRow]
    /\ stageCall \in [StageRequest -> {C!Idle} \cup StageCall]

LEMMA MilestonesInit == C!Init => MilestonesInv
BY DEF C!Init, MilestonesInv, C!NoMilestone, MilestoneRow

LEMMA FindMilestoneStep ==
    ASSUME MilestonesInv, NEW q \in StageRequest, NEW m \in Milestone, C!FindMilestone(q, m)
    PROVE  MilestonesInv'
<1>1. PICK new \in StageCall : stageCall' = [stageCall EXCEPT ![q] = new]
  BY DEF C!FindMilestone, StageCall
<1>2. QED
  BY <1>1 DEF MilestonesInv, C!FindMilestone

\* A write of a call: the row it finds, unless it was removed.
LEMMA FinishMilestoneStep ==
    ASSUME MilestonesInv, NEW q \in StageRequest, NEW m \in Milestone, NEW row \in MilestoneRow,
           m = stageCall[q].of, C!Finish(q, row),
           milestone[m].completed => row.completed
    PROVE  /\ MilestonesInv'
           /\ \A n \in Milestone :
                  /\ milestone[n].completed => milestone'[n].completed
                  /\ milestone[n].status = "REMOVED" => milestone'[n] = milestone[n]
<1>1. milestone' = [milestone EXCEPT ![m] = IF milestone[m].status = "REMOVED" THEN milestone[m] ELSE row]
  BY DEF C!Finish, MilestonesInv
<1>2. stageCall' = [stageCall EXCEPT ![q] = C!Idle]
  BY DEF C!Finish
<1>3. QED
  BY <1>1, <1>2 DEF MilestonesInv

LEMMA MilestoneWrites ==
    ASSUME MilestonesInv, NEW q \in StageRequest,
           C!UpdateMilestone(q) \/ C!CompleteMilestone(q) \/ C!RemoveMilestone(q)
    PROVE  /\ MilestonesInv'
           /\ \A n \in Milestone :
                  /\ milestone[n].completed => milestone'[n].completed
                  /\ milestone[n].status = "REMOVED" => milestone'[n] = milestone[n]
<1> PICK m : m = stageCall[q].of
  OBVIOUS
<1>1. stageCall[q].op \in {"update", "complete", "remove"}
  BY DEF C!UpdateMilestone, C!CompleteMilestone, C!RemoveMilestone
<1>2. stageCall[q] \in StageCall /\ m \in Milestone
  <2>1. stageCall[q] \in StageCall
    BY <1>1 DEF MilestonesInv, C!Idle
  <2>2. QED
    BY <2>1 DEF StageCall
<1>3. milestone[m] \in MilestoneRow
  BY <1>2 DEF MilestonesInv
<1>4. CASE C!UpdateMilestone(q)
  <2> PICK status : status = IF stageCall[q].asked = "" THEN milestone[m].status ELSE stageCall[q].asked
    OBVIOUS
  <2> PICK row : row = [milestone[m] EXCEPT !.status = status]
    OBVIOUS
  <2>1. stageCall[q].op = "update" /\ C!Finish(q, row)
    BY <1>3, <1>4 DEF C!UpdateMilestone, MilestoneRow
  <2>2. stageCall[q].asked \in C!MilestoneStatus \cup {""}
    BY <1>2, <2>1 DEF StageCall
  <2>3. status \in C!MilestoneStatus \cup {"ABSENT", "REMOVED"}
    BY <1>3, <2>2 DEF MilestoneRow
  <2>4. row \in MilestoneRow /\ row.completed = milestone[m].completed
    BY <1>3, <2>3 DEF MilestoneRow
  <2>5. QED
    BY <1>2, <2>1, <2>4, FinishMilestoneStep
<1>5. CASE C!CompleteMilestone(q)
  <2> PICK row : row = [status |-> "COMPLETED", completed |-> TRUE]
    OBVIOUS
  <2>1. row \in MilestoneRow /\ row.completed /\ C!Finish(q, row)
    BY <1>5 DEF C!CompleteMilestone, MilestoneRow, C!MilestoneStatus
  <2>2. QED
    BY <1>2, <2>1, FinishMilestoneStep
<1>6. CASE C!RemoveMilestone(q)
  <2> PICK row : row = [milestone[m] EXCEPT !.status = "REMOVED"]
    OBVIOUS
  <2>1. C!Finish(q, row)
    BY <1>6 DEF C!RemoveMilestone
  <2>2. row \in MilestoneRow /\ row.completed = milestone[m].completed
    BY <1>3 DEF MilestoneRow
  <2>3. QED
    BY <1>2, <2>1, <2>2, FinishMilestoneStep
<1>7. QED
  BY <1>4, <1>5, <1>6

LEMMA MilestonesNext ==
    ASSUME MilestonesInv, C!Next \/ UNCHANGED C!vars
    PROVE  /\ MilestonesInv'
           /\ \A n \in Milestone :
                  /\ milestone[n].completed => milestone'[n].completed
                  /\ milestone[n].status = "REMOVED" => milestone'[n] = milestone[n]
<1>1. CASE UNCHANGED milestone /\ MilestonesInv'
  BY <1>1
<1>2. CASE UNCHANGED C!vars
  BY <1>1, <1>2 DEF C!vars, MilestonesInv
<1>3. ASSUME NEW m \in Milestone, C!CreateMilestone(m)
      PROVE  /\ MilestonesInv'
             /\ \A n \in Milestone :
                    /\ milestone[n].completed => milestone'[n].completed
                    /\ milestone[n].status = "REMOVED" => milestone'[n] = milestone[n]
  <2> PICK row : row = [milestone[m] EXCEPT !.status = "PENDING"]
    OBVIOUS
  <2>a. milestone[m] = C!NoMilestone /\ UNCHANGED stageCall
    BY <1>3 DEF C!CreateMilestone
  <2>b. milestone \in [Milestone -> MilestoneRow]
    BY DEF MilestonesInv
  <2>c. milestone' = [milestone EXCEPT ![m].status = "PENDING"]
    BY <1>3 DEF C!CreateMilestone
  <2>d. milestone' = [milestone EXCEPT ![m] = row]
    BY <2>b, <2>c
  <2>1. milestone[m] = C!NoMilestone /\ milestone' = [milestone EXCEPT ![m] = row] /\ UNCHANGED stageCall
    BY <2>a, <2>d
  <2>e. milestone[m] \in MilestoneRow
    BY DEF MilestonesInv
  <2>2. row \in MilestoneRow
    BY <2>e DEF MilestoneRow, C!MilestoneStatus
  <2>3. milestone[m].status = "ABSENT" /\ ~milestone[m].completed
    BY <2>1 DEF C!NoMilestone
  <2>4. MilestonesInv'
    BY <2>1, <2>2 DEF MilestonesInv
  <2>5. \A n \in Milestone : n # m => milestone'[n] = milestone[n]
    BY <2>1 DEF MilestonesInv
  <2>6. ASSUME NEW n \in Milestone
        PROVE  /\ milestone[n].completed => milestone'[n].completed
               /\ milestone[n].status = "REMOVED" => milestone'[n] = milestone[n]
    <3>1. CASE n = m
      BY <2>3, <3>1
    <3>2. CASE n # m
      BY <2>5, <3>2, Zenon
    <3>3. QED
      BY <3>1, <3>2
  <2>7. QED
    BY <2>4, <2>6
<1>4. ASSUME NEW m \in Milestone, NEW q \in StageRequest, C!FindMilestone(q, m)
      PROVE  UNCHANGED milestone /\ MilestonesInv'
  BY <1>4, FindMilestoneStep DEF C!FindMilestone
<1>5. ASSUME NEW q \in StageRequest, C!Fail(q)
      PROVE  UNCHANGED milestone /\ MilestonesInv'
  BY <1>5 DEF C!Fail, MilestonesInv
<1>6. CASE C!Next
  BY <1>1, <1>3, <1>4, <1>5, <1>6, MilestoneWrites DEF C!Next
<1>7. QED
  BY <1>2, <1>6

LEMMA MilestonesHold == MilestonesInv => C!TypeOK
BY DEF MilestonesInv, MilestoneRow, StageCall, C!TypeOK

(***************************************************************************)
(* The composition: a step is a step of one part, and the others stutter.  *)
(***************************************************************************)

ServicesInv ==
    /\ ProjectsInv /\ DiligenceInv /\ LoginsInv /\ SessionsInv /\ VerificationInv /\ VotesInv /\ DisputesInv
    /\ PagingInv /\ CloseInv /\ ReportsInv /\ MatchInv /\ InboxInv /\ CountsInv /\ MessagesInv
    /\ WatchlistInv /\ AdvisorInv /\ GalleryInv /\ MilestonesInv

\* What each part needs of the constants.
LEMMA PartsAssumptions ==
    /\ TextsAssumption /\ LoginsAssumption /\ SessionsAssumption /\ VerificationAssumption /\ VotersAssumption /\ DisputesAssumption
    /\ PagesAssumption /\ RowsAssumption /\ NotesAssumption /\ PicturesAssumption
    /\ {MaxMessages, Recent, FetchLimit} \subseteq Nat
BY ServicesAssumption
   DEF TextsAssumption, LoginsAssumption, SessionsAssumption, VerificationAssumption, VotersAssumption, DisputesAssumption, PagesAssumption,
       RowsAssumption, NotesAssumption, PicturesAssumption

LEMMA ServicesInit == Init => ServicesInv
<1> SUFFICES ASSUME Init PROVE ServicesInv
  OBVIOUS
<1>1. /\ P!Init /\ G!Init /\ I!Init /\ S!Init /\ K!Init /\ V!Init /\ D!Init
      /\ L!Init /\ R!Init /\ N!Init /\ M!Init
      /\ W!Init /\ A!Init /\ O!Init /\ C!Init
  BY DEF Init
<1>2. ProjectsInv /\ DiligenceInv /\ LoginsInv /\ SessionsInv /\ VerificationInv /\ VotesInv /\ DisputesInv
  BY <1>1, PartsAssumptions, ProjectsInit, DiligenceInit, LoginsInit, SessionsInit, VerificationInit, VotesInit, DisputesInit
<1>3. PagingInv /\ CloseInv /\ ReportsInv /\ MatchInv /\ InboxInv /\ CountsInv /\ MessagesInv
  BY <1>1, PartsAssumptions, PagingInit, CloseInit, ReportsInit, MatchInit, InboxInit, CountsInit,
     MessagesInit
<1>4. WatchlistInv /\ AdvisorInv /\ GalleryInv /\ MilestonesInv
  BY <1>1, PartsAssumptions, WatchlistInit, AdvisorInit, GalleryInit, MilestonesInit
<1>5. QED
  BY <1>2, <1>3, <1>4 DEF ServicesInv

\* The steps of the parts of each group.
DeskSteps ==
    /\ P!Next \/ UNCHANGED P!vars
    /\ G!Next \/ UNCHANGED G!vars
    /\ I!Next \/ UNCHANGED I!vars
    /\ S!Next \/ UNCHANGED S!vars
HallSteps ==
    /\ K!Next \/ UNCHANGED K!vars
    /\ V!Next \/ UNCHANGED V!vars
    /\ D!Next \/ UNCHANGED D!vars
RoomSteps ==
    /\ L!Next \/ UNCHANGED L!vars
    /\ R!Next \/ UNCHANGED R!vars
    /\ N!Next \/ UNCHANGED N!vars
    /\ M!Next \/ UNCHANGED M!vars
ShelfSteps ==
    /\ W!Next \/ UNCHANGED W!vars
    /\ A!Next \/ UNCHANGED A!vars
    /\ O!Next \/ UNCHANGED O!vars
    /\ C!Next \/ UNCHANGED C!vars

LEMMA DeskStutters == ASSUME UNCHANGED desk PROVE DeskSteps
BY DEF desk, projectVars, diligenceVars, loginVars, sessionVars, DeskSteps, P!vars, G!vars, I!vars, S!vars

LEMMA HallStutters == ASSUME UNCHANGED hall PROVE HallSteps
BY DEF hall, kycVars, voteVars, disputeVars, HallSteps, K!vars, V!vars, D!vars

LEMMA RoomStutters == ASSUME UNCHANGED room PROVE RoomSteps
BY DEF room, pagingVars, reportVars, inboxVars, RoomSteps, L!vars, R!vars, N!vars, M!vars

LEMMA ShelfStutters == ASSUME UNCHANGED shelf PROVE ShelfSteps
BY DEF shelf, watchVars, chatVars, galleryVars, stageVars, ShelfSteps, W!vars, A!vars, O!vars, C!vars

LEMMA DeskStep ==
    ASSUME ProjectsStep \/ DiligenceStep \/ LoginsStep \/ SessionsStep
    PROVE  DeskSteps /\ UNCHANGED <<hall, room, shelf>>
<1>1. UNCHANGED <<hall, room, shelf>>
  BY DEF ProjectsStep, DiligenceStep, LoginsStep, SessionsStep, OfDesk
<1>2. /\ P!Next \/ UNCHANGED projectVars
      /\ G!Next \/ UNCHANGED diligenceVars
      /\ I!Next \/ UNCHANGED loginVars
      /\ S!Next \/ UNCHANGED sessionVars
  BY DEF ProjectsStep, DiligenceStep, LoginsStep, SessionsStep
<1>3. QED
  BY <1>1, <1>2
     DEF projectVars, diligenceVars, loginVars, sessionVars, DeskSteps, P!vars, G!vars, I!vars, S!vars

LEMMA HallStep ==
    ASSUME KycStep \/ VotesStep \/ DisputesStep
    PROVE  HallSteps /\ UNCHANGED <<desk, room, shelf>>
<1>1. UNCHANGED <<desk, room, shelf>>
  BY DEF KycStep, VotesStep, DisputesStep, OfHall
<1>2. /\ K!Next \/ UNCHANGED kycVars
      /\ V!Next \/ UNCHANGED voteVars
      /\ D!Next \/ UNCHANGED disputeVars
  BY DEF KycStep, VotesStep, DisputesStep
<1>3. QED
  BY <1>1, <1>2 DEF kycVars, voteVars, disputeVars, HallSteps, K!vars, V!vars, D!vars

LEMMA RoomStep ==
    ASSUME PagingStep \/ ReportsStep \/ InboxStep \/ MessagesStep
    PROVE  RoomSteps /\ UNCHANGED <<desk, hall, shelf>>
<1>1. UNCHANGED <<desk, hall, shelf>>
  BY DEF PagingStep, ReportsStep, InboxStep, MessagesStep, OfRoom
<1>2. /\ L!Next \/ UNCHANGED pagingVars
      /\ R!Next \/ UNCHANGED reportVars
      /\ N!Next \/ UNCHANGED inboxVars
      /\ M!Next \/ UNCHANGED message
  BY DEF PagingStep, ReportsStep, InboxStep, MessagesStep
<1>3. QED
  BY <1>1, <1>2
     DEF pagingVars, reportVars, inboxVars, RoomSteps, L!vars, R!vars, N!vars, M!vars

LEMMA ShelfStep ==
    ASSUME WatchlistStep \/ AdvisorStep \/ GalleryStep \/ MilestonesStep
    PROVE  ShelfSteps /\ UNCHANGED <<desk, hall, room>>
<1>1. UNCHANGED <<desk, hall, room>>
  BY DEF WatchlistStep, AdvisorStep, GalleryStep, MilestonesStep, OfShelf
<1>2. /\ W!Next \/ UNCHANGED watchVars
      /\ A!Next \/ UNCHANGED chatVars
      /\ O!Next \/ UNCHANGED galleryVars
      /\ C!Next \/ UNCHANGED stageVars
  BY DEF WatchlistStep, AdvisorStep, GalleryStep, MilestonesStep
<1>3. QED
  BY <1>1, <1>2 DEF watchVars, chatVars, galleryVars, stageVars, ShelfSteps, W!vars, A!vars, O!vars, C!vars

LEMMA Separate ==
    ASSUME Next \/ UNCHANGED vars
    PROVE  DeskSteps /\ HallSteps /\ RoomSteps /\ ShelfSteps
<1>1. CASE UNCHANGED vars
  <2>1. UNCHANGED desk /\ UNCHANGED hall /\ UNCHANGED room /\ UNCHANGED shelf
    BY <1>1 DEF vars
  <2>2. QED
    BY <2>1, DeskStutters, HallStutters, RoomStutters, ShelfStutters
<1>2. CASE ProjectsStep \/ DiligenceStep \/ LoginsStep \/ SessionsStep
  BY <1>2, DeskStep, HallStutters, RoomStutters, ShelfStutters
<1>3. CASE KycStep \/ VotesStep \/ DisputesStep
  BY <1>3, HallStep, DeskStutters, RoomStutters, ShelfStutters
<1>4. CASE PagingStep \/ ReportsStep \/ InboxStep \/ MessagesStep
  BY <1>4, RoomStep, DeskStutters, HallStutters, ShelfStutters
<1>5. CASE WatchlistStep \/ AdvisorStep \/ GalleryStep \/ MilestonesStep
  BY <1>5, ShelfStep, DeskStutters, HallStutters, RoomStutters
<1>6. QED
  BY <1>1, <1>2, <1>3, <1>4, <1>5 DEF Next

LEMMA ServicesNext == ServicesInv /\ [Next]_vars => ServicesInv'
<1> SUFFICES ASSUME ServicesInv, [Next]_vars PROVE ServicesInv'
  OBVIOUS
<1>1. DeskSteps /\ HallSteps /\ RoomSteps /\ ShelfSteps
  BY Separate
<1>2. ProjectsInv' /\ DiligenceInv' /\ LoginsInv' /\ SessionsInv'
  BY <1>1, PartsAssumptions, ProjectsNext, DiligenceNext, LoginsNext, SessionsNext DEF ServicesInv, DeskSteps
<1>3. VerificationInv' /\ VotesInv' /\ DisputesInv'
  BY <1>1, PartsAssumptions, VerificationNext, VotesNext, DisputesNext DEF ServicesInv, HallSteps
<1>4. PagingInv' /\ CloseInv' /\ MessagesInv'
  BY <1>1, PartsAssumptions, PagingNext, CloseNext, MessagesNext DEF ServicesInv, RoomSteps
<1>5. ReportsInv' /\ MatchInv' /\ InboxInv' /\ CountsInv'
  BY <1>1, PartsAssumptions, ReportsNext, MatchNext, InboxNext, CountsNext DEF ServicesInv, RoomSteps
<1>6. WatchlistInv' /\ AdvisorInv' /\ GalleryInv' /\ MilestonesInv'
  BY <1>1, PartsAssumptions, WatchlistNext, AdvisorNext, GalleryNext, MilestonesNext
     DEF ServicesInv, ShelfSteps
<1>7. QED
  BY <1>2, <1>3, <1>4, <1>5, <1>6 DEF ServicesInv

\* The inductive invariant of the composed specification.
THEOREM ServicesInvariant == Spec => []ServicesInv
BY ServicesInit, ServicesNext, PTL DEF Spec

\* Every part keeps the types of its rows, requests and counts, whatever the number of rows,
\* requests and changes: among them that no list has a row twice and no page is beyond the
\* rows there are.
THEOREM ServicesTypeCorrect == Spec => []TypeOK
<1>1. ServicesInv => TypeOK
  <2> SUFFICES ASSUME ServicesInv PROVE TypeOK
    OBVIOUS
  <2>1. P!TypeOK /\ G!TypeOK /\ I!TypeOK /\ S!TypeOK /\ K!TypeOK /\ V!TypeOK /\ D!TypeOK
    BY PartsAssumptions, DiligenceHolds, LoginsHold, SessionsHold, VerificationHolds, VotesHold, DisputesHold
       DEF ServicesInv, ProjectsInv
  <2>2. L!TypeOK /\ R!TypeOK /\ N!TypeOK /\ M!TypeOK
    BY PartsAssumptions, PagingHolds, ReportsHold, InboxHolds, MessagesHold DEF ServicesInv
  <2>3. W!TypeOK /\ A!TypeOK /\ O!TypeOK /\ C!TypeOK
    BY WatchlistHolds, AdvisorHolds, GalleryHolds, MilestonesHold DEF ServicesInv
  <2>4. QED
    BY <2>1, <2>2, <2>3 DEF TypeOK
<1>2. QED
  BY <1>1, ServicesInvariant, PTL

\* Projects: no interleaving of handlers and investments shows a project to investors that
\* was not approved, unless an investment in a deal of it made it FUNDED.
THEOREM OfferedWasApprovedHolds == Spec => []OfferedWasApproved
<1>1. ServicesInv => OfferedWasApproved
  BY DEF ServicesInv, ProjectsInv, OfferedWasApproved
<1>2. QED
  BY <1>1, ServicesInvariant, PTL

\* Logins, Sessions: whatever logins read before others wrote, the account is locked exactly
\* when its count is full, and the failures that did not overlap fill it; wherever requests
\* stop or overtake each other, a refresh token is spent for a successor, and has only one
\* unless refreshes of it overlap or stop.
THEOREM SessionsAreKeptHolds == Spec => []SessionsAreKept
<1>1. ServicesInv => SessionsAreKept
  BY PartsAssumptions, LoginsHold, SessionsHold DEF ServicesInv, SessionsAreKept
<1>2. QED
  BY <1>1, ServicesInvariant, PTL

\* Verification: whatever the provider says and when, its last word with no answer on its way
\* is what the row has, from the announcement on no word is refused, and a rejection that is
\* announced is on the officers' list.
THEOREM VerdictsAreKeptHolds == Spec => []VerdictsAreKept
<1>1. ServicesInv => VerdictsAreKept
  BY VerificationHolds DEF ServicesInv, VerdictsAreKept
<1>2. QED
  BY <1>1, ServicesInvariant, PTL

\* DueDiligence, Watchlist, Advisor, Gallery: however handlers overtake each other, a completed
\* task was worked on, the watchlist is what was told, answers follow their questions, and the
\* last order of a gallery stands.
THEOREM RecordsAreKeptHolds == Spec => []RecordsAreKept
<1>1. ServicesInv => RecordsAreKept
  BY DiligenceHolds, WatchlistHolds, AdvisorHolds, GalleryHolds DEF ServicesInv, RecordsAreKept
<1>2. QED
  BY <1>1, ServicesInvariant, PTL

\* Votes, Disputes, Paging, Reports, Inbox, Messaging: however writes come in between, tallies,
\* reports, lists and counts are off by no more than what changed while they were read; a
\* resolved dispute has its date.
THEOREM FiguresAreCloseHolds == Spec => []FiguresAreClose
<1>1. ServicesInv => FiguresAreClose
  <2> SUFFICES ASSUME ServicesInv PROVE FiguresAreClose
    OBVIOUS
  <2>1. V!TallyIsClose /\ D!FiguresAgree /\ D!ResolvedIsDated
    BY PartsAssumptions, VotesHold, DisputesHold DEF ServicesInv
  <2>2. L!WalkIsClose /\ R!FiguresMatch
    BY PartsAssumptions, CloseHolds, MatchHolds DEF ServicesInv
  <2>3. N!CountedOnce /\ N!BadgeIsShown
    BY PartsAssumptions, CountsHold, BadgeHolds DEF ServicesInv
  <2>4. M!ConversationsAreCurrent /\ M!UnreadIsInConversations
    BY PartsAssumptions, ConversationHolds DEF ServicesInv
  <2>5. QED
    BY <2>1, <2>2, <2>3, <2>4 DEF FiguresAreClose
<1>2. QED
  BY <1>1, ServicesInvariant, PTL

\* What DecisionsStand says of a step.
AdminDecides ==
    \A p \in Assessed :
        diligence'[p].status \in G!Decided /\ diligence'[p].status # diligence[p].status =>
            \A r \in CaseRequest : diligenceReq'[r] # diligenceReq[r] => diligenceReq[r].by = Admin
VouchedStay ==
    \A m \in Milestone :
        /\ milestone[m].completed => milestone'[m].completed
        /\ milestone[m].status = "REMOVED" => milestone'[m] = milestone[m]

LEMMA DecisionsStandStep ==
    ASSUME ServicesInv, Next \/ UNCHANGED vars
    PROVE  AdminDecides /\ OutcomeKept /\ SeenStays /\ VouchedStay
<1>1. DeskSteps /\ HallSteps /\ RoomSteps /\ ShelfSteps
  BY Separate
<1>2. AdminDecides
  BY <1>1, PartsAssumptions, DecidesStep DEF ServicesInv, DeskSteps, AdminDecides
<1>3. OutcomeKept
  BY <1>1, PartsAssumptions, VotesNext DEF ServicesInv, HallSteps
<1>4. SeenStays
  BY <1>1, PartsAssumptions, InboxNext DEF ServicesInv, RoomSteps
<1>5. VouchedStay
  BY <1>1, MilestonesNext DEF ServicesInv, ShelfSteps, VouchedStay
<1>6. QED
  BY <1>2, <1>3, <1>4, <1>5

\* Only administrators decide a due-diligence case; once a vote is over and nobody is in
\* flight, its outcome stays; what was read or deleted stays so; who vouched for a milestone
\* stays on record.
THEOREM DecisionsStandHolds == Spec => DecisionsStand
<1>1. ServicesInv /\ [Next]_vars => AdminDecides /\ OutcomeKept /\ SeenStays /\ VouchedStay
  BY DecisionsStandStep
<1>2. Spec => [][AdminDecides]_(G!vars)
  BY <1>1, ServicesInvariant, PTL DEF Spec
<1>3. Spec => [][OutcomeKept]_(V!vars)
  BY <1>1, ServicesInvariant, PTL DEF Spec
<1>4. Spec => [][SeenStays]_(N!vars)
  BY <1>1, ServicesInvariant, PTL DEF Spec
<1>5. Spec => [][VouchedStay]_(C!vars)
  BY <1>1, ServicesInvariant, PTL DEF Spec
<1>6. QED
  BY <1>2, <1>3, <1>4, <1>5
     DEF DecisionsStand, G!NoAssessorDecides, AdminDecides, V!OutcomeStays, OutcomeKept,
         N!SeenStaysSeen, SeenStays, C!VouchedStays, VouchedStay

=============================================================================
