---------------------------- MODULE QueriesProofs ----------------------------
(***************************************************************************)
(* Theorems of Pagination, for every total, limit and cursor, and of       *)
(* Queries, for every set of walks, inputs and payloads and every bound.   *)
(*                                                                         *)
(*   - The page arithmetic.                                                *)
(*   - Offsets: what a place in the order of a query says of a set of rows,*)
(*     and that it stays when the set grows at its end (Follows).          *)
(*   - No row of a query whose rows stay goes, whatever fails and in       *)
(*     whatever order inputs come (MatchingCovers).                        *)
(*   - As long as no input came below one that is stored, inputs are       *)
(*     worked on in order (WorkInOrder), so that the four tables grow at   *)
(*     their end (GrowsAtEnd), and so do the rows of such a query          *)
(*     (MatchingFollows).                                                  *)
(*   - The inductive invariant: StoreSide is kept by the server,           *)
(*     ReaderSide by the server, by CountRows and by SelectRows.           *)
(***************************************************************************)
EXTENDS Queries, StoreOutputsProofs

-----------------------------------------------------------------------------
(* The page arithmetic: what it promises for every total, limit, cursor.   *)

Request(first, last, after, before, total) ==
  /\ first \in Optional(Int) /\ last \in Optional(Int)
  /\ after \in Optional(Cursor) /\ before \in Optional(Cursor)
  /\ total \in Nat

-----------------------------------------------------------------------------
(* A number that is asked for is an integer, also when it is left out.     *)
LEMMA AskedIsInt == ASSUME NEW number \in Optional(Int) PROVE Asked(number) \in Int
BY DEF Asked, Optional, Nil, DefaultPaginationLimit

(* A cursor that decodes lies within the total.                            *)
LEMMA DecodedOffset ==
  ASSUME NEW after \in Optional(Cursor), after # Nil, NEW total, Decodes(after[1], total)
  PROVE  after[1].offset \in Int /\ 0 <= after[1].offset /\ after[1].offset < total
<1>1. PICK cursor \in Cursor : after = <<cursor>> BY DEF Optional, Nil
<1> QED BY <1>1 DEF Decodes, Cursor

(* computeForwardPage (pagination.go:47): the page is within the total.    *)
LEMMA ForwardWithinTotal ==
  ASSUME NEW first \in Optional(Int), NEW after \in Optional(Cursor), NEW total \in Nat,
         ComputeForwardPage(first, after, total).error = "none"
  PROVE  LET page == ComputeForwardPage(first, after, total)
         IN  page.offset \in 0 .. total /\ page.limit \in 0 .. (total - page.offset)
<1>1. Asked(first) \in Int BY AskedIsInt
<1>2. Asked(first) >= 0 /\ (after # Nil => Decodes(after[1], total))
  BY <1>1 DEF ComputeForwardPage, NoPage
<1>3. CASE after = Nil
  BY <1>1, <1>2, <1>3 DEF ComputeForwardPage, PageOf, NoPage, Lesser
<1>4. CASE after # Nil
  <2>1. after[1].offset \in Int /\ 0 <= after[1].offset /\ after[1].offset < total
    BY <1>2, <1>4, DecodedOffset
  <2> QED BY <1>1, <1>2, <1>4, <2>1 DEF ComputeForwardPage, PageOf, NoPage, Lesser
<1> QED BY <1>3, <1>4

(* computeBackwardPage (pagination.go:70): the page is within the total,   *)
(* and it reaches the cursor, or the last row when there is no cursor,     *)
(* unless fewer rows were asked for than there are between.                *)
LEMMA BackwardWithinTotal ==
  ASSUME NEW last \in Optional(Int), NEW before \in Optional(Cursor), NEW total \in Nat,
         ComputeBackwardPage(last, before, total).error = "none"
  PROVE  LET page == ComputeBackwardPage(last, before, total)
             end  == IF before = Nil THEN total ELSE before[1].offset
         IN  /\ page.offset \in 0 .. total /\ page.limit \in 0 .. (total - page.offset)
             /\ page.offset + page.limit >= end
             /\ Asked(last) <= end => page.offset + page.limit = end
<1>1. Asked(last) \in Int BY AskedIsInt
<1>2. Asked(last) >= 0 /\ (before # Nil => Decodes(before[1], total))
  BY <1>1 DEF ComputeBackwardPage, NoPage
<1>3. CASE before = Nil
  BY <1>1, <1>2, <1>3 DEF ComputeBackwardPage, PageOf, NoPage, Lesser, Greater
<1>4. CASE before # Nil
  <2>1. before[1].offset \in Int /\ 0 <= before[1].offset /\ before[1].offset < total
    BY <1>2, <1>4, DecodedOffset
  <2> QED BY <1>1, <1>2, <1>4, <2>1 DEF ComputeBackwardPage, PageOf, NoPage, Lesser, Greater
<1> QED BY <1>3, <1>4

-----------------------------------------------------------------------------
(* ComputePage (pagination.go:27): whatever the caller asks for, a page    *)
(* that is computed has an offset and a limit that are not negative and    *)
(* that lie within the total.  SQLite takes a negative limit for none.     *)
THEOREM PageWithinTotal ==
  ASSUME NEW first, NEW last, NEW after, NEW before, NEW total,
         Request(first, last, after, before, total),
         ComputePage(first, last, after, before, total).error = "none"
  PROVE  LET page == ComputePage(first, last, after, before, total)
         IN  page.offset \in 0 .. total /\ page.limit \in 0 .. (total - page.offset)
<1>1. ComputePage(first, last, after, before, total)
        \in {ComputeBackwardPage(last, before, total), ComputeForwardPage(first, after, total)}
  BY DEF ComputePage, NoPage
<1>2. CASE ComputePage(first, last, after, before, total) = ComputeBackwardPage(last, before, total)
  BY <1>2, BackwardWithinTotal DEF Request
<1>3. CASE ComputePage(first, last, after, before, total) = ComputeForwardPage(first, after, total)
  BY <1>3, ForwardWithinTotal DEF Request
<1> QED BY <1>1, <1>2, <1>3

(* Forward pages adjoin: the page after the cursor of the last row of a    *)
(* page that has rows begins where that page ends, and is never refused,   *)
(* though the total may have grown in between.                             *)
THEOREM ForwardPagesAdjoin ==
  ASSUME NEW first \in Optional(Int), NEW after \in Optional(Cursor), NEW total \in Nat,
         NEW later \in Nat, later >= total,
         ComputeForwardPage(first, after, total).error = "none",
         ComputeForwardPage(first, after, total).limit > 0
  PROVE  LET page == ComputeForwardPage(first, after, total)
             next == ComputeForwardPage(first, <<EncodeCursor(page.offset + page.limit - 1)>>, later)
         IN  next.error = "none" /\ next.offset = page.offset + page.limit
<1> DEFINE page   == ComputeForwardPage(first, after, total)
           cursor == EncodeCursor(page.offset + page.limit - 1)
<1>1. page.offset \in 0 .. total /\ page.limit \in 1 .. (total - page.offset)
  BY ForwardWithinTotal
<1>2. Asked(first) \in Int /\ Asked(first) >= 0
  BY AskedIsInt DEF ComputeForwardPage, NoPage
<1> HIDE DEF page
<1>3. cursor.offset = page.offset + page.limit - 1 /\ Decodes(cursor, later)
  BY <1>1 DEF EncodeCursor, Decodes
<1> HIDE DEF cursor
<1>4. <<cursor>> # Nil /\ <<cursor>>[1] = cursor BY DEF Nil
<1>5. /\ ComputeForwardPage(first, <<cursor>>, later).error = "none"
      /\ ComputeForwardPage(first, <<cursor>>, later).offset = cursor.offset + 1
  BY <1>2, <1>3, <1>4 DEF ComputeForwardPage, PageOf, NoPage
<1>6. cursor.offset + 1 = page.offset + page.limit BY <1>1, <1>3
<1> QED BY <1>5, <1>6 DEF page, cursor

(* A backward page leaves no hole before its cursor: it reaches up to the  *)
(* cursor at least, and exactly when as many rows precede it as were asked *)
(* for.  When fewer do, it goes on over rows the caller has already.       *)
THEOREM BackwardPageReachesCursor ==
  ASSUME NEW last \in Optional(Int), NEW before \in Cursor, NEW total \in Nat,
         ComputeBackwardPage(last, <<before>>, total).error = "none"
  PROVE  LET page == ComputeBackwardPage(last, <<before>>, total)
         IN  /\ page.offset + page.limit >= before.offset
             /\ Asked(last) <= before.offset => page.offset + page.limit = before.offset
<1>1. <<before>> \in Optional(Cursor) /\ <<before>> # Nil /\ <<before>>[1] = before
  BY DEF Optional, Nil
<1> QED BY <1>1, BackwardWithinTotal

-----------------------------------------------------------------------------
(* Rows in the order of a query.  What follows is of any finite set of     *)
(* rows no two of which have the same place in that order.                 *)

SamePlace(r, s) == r.input = s.input /\ r.output = s.output /\ r.place = s.place

IsRows(S) ==
  /\ IsFiniteSet(S)
  /\ \A r \in S : r.input \in Nat /\ r.output \in Nat /\ r.place \in Nat
  /\ \A r, s \in S : SamePlace(r, s) => r = s

(* T has all the rows of S, perhaps with other values.                     *)
Covers(S, T) == \A s \in S : \E t \in T : SamePlace(s, t)

(* And what else it has comes after all of S.                              *)
Follows(S, T) ==
  /\ Covers(S, T)
  /\ \A t \in T : (\E s \in S : SamePlace(s, t)) \/ \A s \in S : RowBefore(s, t)

LEMMA BeforeIsOrder ==
  /\ \A r, s : Key(r) = Key(s) <=> r.input = s.input /\ r.output = s.output
  /\ \A S : IsRows(S) =>
       /\ \A r, s \in S : r # s => RowBefore(r, s) \/ RowBefore(s, r)
       /\ \A r, s \in S : ~(RowBefore(r, s) /\ RowBefore(s, r))
       /\ \A r, s, t \in S : RowBefore(r, s) /\ RowBefore(s, t) => RowBefore(r, t)
<1>1. \A r, s : Key(r) = Key(s) <=> r.input = s.input /\ r.output = s.output
  BY DEF Key
<1>2. \A r, s : RowBefore(r, s) <=>
        \/ r.input < s.input
        \/ r.input = s.input /\ r.output < s.output
        \/ r.input = s.input /\ r.output = s.output /\ r.place < s.place
  BY <1>1 DEF RowBefore
<1> QED  BY <1>1, <1>2 DEF IsRows, SamePlace

LEMMA SubsetIsRows ==
  ASSUME NEW S, IsRows(S), NEW T, T \subseteq S
  PROVE  IsRows(T)
BY FS_Subset DEF IsRows

(* The offsets of n rows are 0 to n - 1, in their order.                   *)
LEMMA OffsetBounds ==
  ASSUME NEW S, IsRows(S), NEW r \in S
  PROVE  Cardinality(S) \in Nat /\ Offset(r, S) \in 0 .. (Cardinality(S) - 1)
<1> DEFINE before == {s \in S : RowBefore(s, r)}
<1>1. IsFiniteSet(S) /\ r \notin before /\ before \subseteq S
  BY BeforeIsOrder DEF IsRows
<1>2. /\ IsFiniteSet(before) /\ Cardinality(before) <= Cardinality(S)
      /\ Cardinality(before) # Cardinality(S)
  BY <1>1, FS_Subset
<1>3. Cardinality(S) \in Nat /\ Cardinality(before) \in Nat
  BY <1>1, <1>2, FS_CardinalityType
<1> QED  BY <1>2, <1>3 DEF Offset

LEMMA OffsetMonotonic ==
  ASSUME NEW S, IsRows(S), NEW r \in S, NEW s \in S, RowBefore(r, s)
  PROVE  Offset(r, S) < Offset(s, S)
<1> DEFINE A == {t \in S : RowBefore(t, r)}
           B == {t \in S : RowBefore(t, s)}
<1>1. A \subseteq B /\ r \in B /\ r \notin A
  BY BeforeIsOrder
<1>2. IsFiniteSet(B)
  BY FS_Subset DEF IsRows
<1> HIDE DEF A, B
<1>3. /\ IsFiniteSet(A) /\ Cardinality(A) <= Cardinality(B) /\ Cardinality(A) # Cardinality(B)
  BY <1>1, <1>2, FS_Subset
<1>4. Cardinality(A) \in Nat /\ Cardinality(B) \in Nat
  BY <1>2, <1>3, FS_CardinalityType
<1> QED  BY <1>3, <1>4 DEF A, B, Offset

LEMMA OffsetsDistinct ==
  ASSUME NEW S, IsRows(S), NEW r \in S, NEW s \in S, Offset(r, S) = Offset(s, S)
  PROVE  r = s
<1>1. Offset(r, S) \in Nat
  BY OffsetBounds
<1>2. ~(Offset(r, S) < Offset(s, S)) /\ ~(Offset(s, S) < Offset(r, S))
  BY <1>1
<1> QED  BY <1>2, OffsetMonotonic, BeforeIsOrder

LEMMA OffsetsAreAll ==
  ASSUME NEW S, IsRows(S), NEW k \in 0 .. (Cardinality(S) - 1)
  PROVE  \E r \in S : Offset(r, S) = k
<1> DEFINE n == Cardinality(S)
           T == 0 .. (n - 1)
           f == [r \in S |-> Offset(r, S)]
<1>1. n \in Nat
  BY FS_CardinalityType DEF IsRows
<1>2. IsFiniteSet(T) /\ Cardinality(T) = n
  BY <1>1, FS_Interval
<1>3. f \in [S -> T] /\ \A r, s \in S : f[r] = f[s] => r = s
  BY OffsetBounds, OffsetsDistinct
<1> HIDE DEF f
<1>4. f \in Injection(S, T)
  BY <1>3 DEF Injection, IsInjective
<1>5. f \in Surjection(S, T)
  BY <1>2, <1>4, FS_Injection
<1>6. \E r \in S : f[r] = k
  BY <1>5 DEF Surjection
<1> QED  BY <1>6 DEF f

LEMMA RowAtOffset ==
  ASSUME NEW S, IsRows(S), NEW k \in 0 .. (Cardinality(S) - 1)
  PROVE  /\ RowAt(k, S) \in S /\ Offset(RowAt(k, S), S) = k
         /\ \A r \in S : Offset(r, S) = k => RowAt(k, S) = r
<1>1. RowAt(k, S) \in S /\ Offset(RowAt(k, S), S) = k
  BY OffsetsAreAll DEF RowAt
<1> QED  BY <1>1, OffsetsDistinct

(* The keys of the rows at the offsets from a up to, not including, b.     *)
KeysBetween(a, b, S) == {Key(row) : row \in {r \in S : Offset(r, S) \in a .. (b - 1)}}

LEMMA KeysAreAt ==
  ASSUME NEW S, IsRows(S), NEW a \in Nat, NEW b \in Nat, b <= Cardinality(S)
  PROVE  KeysBetween(a, b, S) = {Key(RowAt(k, S)) : k \in a .. (b - 1)}
<1>1. Cardinality(S) \in Nat
  BY FS_CardinalityType DEF IsRows
<1>2. ASSUME NEW k \in a .. (b - 1)
      PROVE  Key(RowAt(k, S)) \in KeysBetween(a, b, S)
  <2>1. k \in 0 .. (Cardinality(S) - 1)
    BY <1>1
  <2>2. RowAt(k, S) \in S /\ Offset(RowAt(k, S), S) \in a .. (b - 1)
    BY <2>1, RowAtOffset
  <2> QED  BY <2>2 DEF KeysBetween
<1>3. ASSUME NEW r \in S, Offset(r, S) \in a .. (b - 1)
      PROVE  Key(r) \in {Key(RowAt(k, S)) : k \in a .. (b - 1)}
  <2>1. Offset(r, S) \in 0 .. (Cardinality(S) - 1)
    BY <1>1, <1>3
  <2>2. RowAt(Offset(r, S), S) = r
    BY <2>1, RowAtOffset
  <2> QED  BY <1>3, <2>2
<1> QED  BY <1>2, <1>3 DEF KeysBetween

-----------------------------------------------------------------------------
(* A table that grows at its end: the rows there were keep their offsets.  *)

LEMMA FollowsOffset ==
  ASSUME NEW S, NEW T, IsRows(S), IsRows(T), Follows(S, T),
         NEW s \in S, NEW t \in T, SamePlace(s, t)
  PROVE  Offset(s, S) = Offset(t, T)
<1> DEFINE A == {r \in S : RowBefore(r, s)}
           B == {r \in T : RowBefore(r, t)}
           f == [r \in A |-> CHOOSE u \in T : SamePlace(r, u)]
<1>1. IsFiniteSet(A)
  BY FS_Subset DEF IsRows
<1>2. \A r \in S : \A u \in T : SamePlace(r, u) => (RowBefore(r, s) <=> RowBefore(u, t))
  BY BeforeIsOrder DEF RowBefore, SamePlace
<1>3. \A r \in S : \E u \in T : SamePlace(r, u)
  BY DEF Follows, Covers
<1>4. \A r \in A : f[r] \in T /\ SamePlace(r, f[r])
  BY <1>3
<1>5. \A r \in A : f[r] \in B
  BY <1>2, <1>4
<1>6. ASSUME NEW u \in B
      PROVE  \E r \in A : f[r] = u
  <2>1. CASE \E r \in S : SamePlace(r, u)
    <3>1. PICK r \in S : SamePlace(r, u)
      BY <2>1
    <3>2. r \in A
      BY <1>2, <3>1
    <3>3. SamePlace(u, f[r]) /\ f[r] \in T /\ u \in T
      BY <1>4, <3>1, <3>2 DEF SamePlace
    <3> QED  BY <3>2, <3>3 DEF IsRows
  <2>2. CASE \A r \in S : RowBefore(r, u)
    <3>1. RowBefore(s, u) /\ RowBefore(u, t)
      BY <2>2
    <3>2. RowBefore(t, u)
      BY <3>1, BeforeIsOrder DEF RowBefore, SamePlace
    <3> QED  BY <3>1, <3>2, BeforeIsOrder
  <2> QED  BY <2>1, <2>2 DEF Follows, Covers
<1>7. \A r, u \in A : f[r] = f[u] => r = u
  BY <1>4 DEF IsRows, SamePlace
<1>8. f \in [A -> B]
  BY <1>5
<1> HIDE DEF A, B, f
<1>9. f \in Bijection(A, B)
  BY <1>6, <1>7, <1>8 DEF Bijection, Injection, Surjection, IsInjective
<1>10. Cardinality(A) = Cardinality(B)
  BY <1>1, <1>9, FS_Bijection DEF ExistsBijection
<1> QED  BY <1>10 DEF A, B, Offset

LEMMA CoversTotal ==
  ASSUME NEW S, NEW T, IsRows(S), IsRows(T), Covers(S, T)
  PROVE  /\ Cardinality(S) \in Nat /\ Cardinality(T) \in Nat
         /\ Cardinality(S) <= Cardinality(T)
<1> DEFINE f == [r \in S |-> CHOOSE u \in T : SamePlace(r, u)]
<1>1. \A r \in S : f[r] \in T /\ SamePlace(r, f[r])
  BY DEF Covers
<1>2. f \in [S -> T] /\ \A r, u \in S : f[r] = f[u] => r = u
  BY <1>1 DEF IsRows, SamePlace
<1> HIDE DEF f
<1>3. f \in Injection(S, T)
  BY <1>2 DEF Injection, IsInjective
<1> QED  BY <1>3, FS_Injection, FS_CardinalityType DEF IsRows

LEMMA FollowsRowAt ==
  ASSUME NEW S, NEW T, IsRows(S), IsRows(T), Follows(S, T),
         NEW k \in 0 .. (Cardinality(S) - 1)
  PROVE  Key(RowAt(k, T)) = Key(RowAt(k, S))
<1> DEFINE s == RowAt(k, S)
<1>1. s \in S /\ Offset(s, S) = k
  BY RowAtOffset
<1> HIDE DEF s
<1>2. PICK t \in T : SamePlace(s, t)
  BY <1>1 DEF Follows, Covers
<1>3. Offset(t, T) = k
  BY <1>1, <1>2, FollowsOffset
<1>4. k \in 0 .. (Cardinality(T) - 1)
  BY CoversTotal DEF Follows
<1>5. RowAt(k, T) = t
  BY <1>3, <1>4, RowAtOffset
<1> QED  BY <1>2, <1>5, BeforeIsOrder DEF s, SamePlace

LEMMA FollowsKeys ==
  ASSUME NEW S, NEW T, IsRows(S), IsRows(T), Follows(S, T),
         NEW a \in Nat, NEW b \in Nat, b <= Cardinality(S)
  PROVE  KeysBetween(a, b, T) = KeysBetween(a, b, S)
<1>1. Cardinality(S) \in Nat /\ Cardinality(T) \in Nat /\ b <= Cardinality(T)
  BY CoversTotal DEF Follows
<1>2. \A k \in a .. (b - 1) : Key(RowAt(k, T)) = Key(RowAt(k, S))
  BY <1>1, FollowsRowAt
<1>3. {Key(RowAt(k, T)) : k \in a .. (b - 1)} = {Key(RowAt(k, S)) : k \in a .. (b - 1)}
  BY <1>2
<1>4. /\ KeysBetween(a, b, S) = {Key(RowAt(k, S)) : k \in a .. (b - 1)}
      /\ KeysBetween(a, b, T) = {Key(RowAt(k, T)) : k \in a .. (b - 1)}
  BY <1>1, KeysAreAt
<1> QED  BY <1>3, <1>4

(* What a filter leaves of a table that grows at its end grows at its end, *)
(* when the filter holds of a row as it held before.                       *)
LEMMA FollowsFiltered ==
  ASSUME NEW S, NEW T, Follows(S, T), NEW P \in SUBSET S, NEW Q \in SUBSET T,
         \A s \in S : \A t \in T : SamePlace(s, t) => (s \in P <=> t \in Q)
  PROVE  Follows(P, Q)
BY DEF Follows, Covers

LEMMA CoversFiltered ==
  ASSUME NEW S, NEW T, Covers(S, T), NEW P \in SUBSET S, NEW Q \in SUBSET T,
         \A s \in S : \A t \in T : SamePlace(s, t) => (s \in P <=> t \in Q)
  PROVE  Covers(P, Q)
BY DEF Covers

-----------------------------------------------------------------------------
(* The rows of each table are such rows.                                   *)

LEMMA RangeFinite ==
  ASSUME NEW D, IsFiniteSet(D), NEW T, NEW f \in [D -> T], \A y \in T : \E x \in D : f[x] = y
  PROVE  IsFiniteSet(T)
<1>1. f \in Surjection(D, T)
  BY DEF Surjection
<1> QED  BY <1>1, FS_Surjection

LEMMA RowFields ==
  \A i, o, p, v : /\ Row(i, o, p, v).input = i /\ Row(i, o, p, v).output = o
                  /\ Row(i, o, p, v).place = p /\ Row(i, o, p, v).value = v
BY DEF Row

(* Of a table of inputs.                                                   *)
InputTableOf(table) == {Row(i, 0, 0, table[i]) : i \in {j \in InputIndex : table[j] # "absent"}}

LEMMA InputRowIs ==
  ASSUME NEW table
  PROVE  /\ \A r \in InputTableOf(table) :
              /\ r.input \in InputIndex /\ r.input \in Nat /\ table[r.input] # "absent"
              /\ r.output = 0 /\ r.place = 0 /\ r.value = table[r.input]
              /\ r = Row(r.input, 0, 0, table[r.input])
         /\ \A i \in InputIndex : table[i] # "absent" =>
              Row(i, 0, 0, table[i]) \in InputTableOf(table)
<1>1. \A r \in InputTableOf(table) : \E i \in InputIndex :
        table[i] # "absent" /\ r = Row(i, 0, 0, table[i])
  BY DEF InputTableOf
<1>2. \A i \in InputIndex : table[i] # "absent" => Row(i, 0, 0, table[i]) \in InputTableOf(table)
  BY DEF InputTableOf
<1> QED  BY <1>1, <1>2, RowFields, ModelAssumption

LEMMA InputTableRows ==
  ASSUME NEW table
  PROVE  IsRows(InputTableOf(table))
<1> DEFINE D == {j \in InputIndex : table[j] # "absent"}
           f == [i \in D |-> Row(i, 0, 0, table[i])]
<1>1. IsFiniteSet(D)
  BY ModelAssumption, FS_Subset
<1>2. IsFiniteSet(InputTableOf(table))
  <2>1. /\ f \in [D -> InputTableOf(table)]
        /\ \A y \in InputTableOf(table) : \E x \in D : f[x] = y
    BY DEF InputTableOf
  <2> HIDE DEF D, f
  <2> QED  BY <1>1, <2>1, RangeFinite
<1> QED  BY <1>2, InputRowIs DEF IsRows, SamePlace

(* The rows of vouchers or of notices.                                     *)
OutputTable(table) == {Row(r.input, r.output, 0, r.payload) : r \in table}

LEMMA OutputRowIs ==
  ASSUME NEW table, table \subseteq OutputRow
  PROVE  /\ \A r \in OutputTable(table) : \E q \in table :
              /\ r = Row(q.input, q.output, 0, q.payload)
              /\ r.input = q.input /\ r.output = q.output /\ r.place = 0
              /\ r.value = q.payload
              /\ q.input \in Nat /\ q.output \in Nat
         /\ \A q \in table : Row(q.input, q.output, 0, q.payload) \in OutputTable(table)
BY RowFields, ModelAssumption DEF OutputTable, OutputRow

LEMMA OutputTableRows ==
  ASSUME NEW table, table \subseteq OutputRow, IsFiniteSet(table),
         \A r, s \in table : SameKey(r, s) => r = s
  PROVE  IsRows(OutputTable(table))
<1> DEFINE f == [r \in table |-> Row(r.input, r.output, 0, r.payload)]
<1>1. f \in [table -> OutputTable(table)]
      /\ \A y \in OutputTable(table) : \E x \in table : f[x] = y
  BY DEF OutputTable
<1>2. IsFiniteSet(OutputTable(table))
  <2> HIDE DEF f
  <2> QED  BY <1>1, RangeFinite
<1>3. ASSUME NEW r \in OutputTable(table), NEW s \in OutputTable(table), SamePlace(r, s)
      PROVE  r = s
  BY <1>3, OutputRowIs DEF SamePlace, SameKey
<1> QED  BY <1>2, <1>3, OutputRowIs DEF IsRows

(* Of a table of reports.                                                  *)
ReportsOfInput(table, i) ==
  {Row(i, table[i][k].output, k, table[i][k].payload) : k \in DOMAIN table[i]}

ReportTableOf(table) == UNION {ReportsOfInput(table, i) : i \in InputIndex}

LEMMA ReportRowIs ==
  ASSUME NEW table, table \in [InputIndex -> Seq(ReportRow)]
  PROVE  /\ \A r \in ReportTableOf(table) :
              /\ r.input \in InputIndex /\ r.input \in Nat
              /\ r.place \in 1 .. Len(table[r.input])
              /\ r.place \in Nat /\ r.output \in Nat
              /\ r.output = table[r.input][r.place].output
              /\ r = Row(r.input, table[r.input][r.place].output, r.place,
                         table[r.input][r.place].payload)
         /\ \A i \in InputIndex : \A k \in 1 .. Len(table[i]) :
              Row(i, table[i][k].output, k, table[i][k].payload) \in ReportTableOf(table)
<1>1. \A i \in InputIndex : DOMAIN table[i] = 1 .. Len(table[i]) /\ Len(table[i]) \in Nat
  BY LenProperties
<1>2. ASSUME NEW r \in ReportTableOf(table)
      PROVE  /\ r.input \in InputIndex /\ r.input \in Nat
             /\ r.place \in 1 .. Len(table[r.input])
             /\ r.place \in Nat /\ r.output \in Nat
             /\ r.output = table[r.input][r.place].output
             /\ r = Row(r.input, table[r.input][r.place].output, r.place,
                        table[r.input][r.place].payload)
  <2>1. PICK i \in InputIndex : r \in ReportsOfInput(table, i)
    BY DEF ReportTableOf
  <2>2. PICK k \in DOMAIN table[i] : r = Row(i, table[i][k].output, k, table[i][k].payload)
    BY <2>1 DEF ReportsOfInput
  <2>3. k \in 1 .. Len(table[i]) /\ Len(table[i]) \in Nat
    BY <1>1
  <2>4. table[i][k] \in ReportRow
    BY <2>3, ElementOfSeq
  <2>5. r.input = i /\ r.place = k /\ r.output = table[i][k].output
    BY <2>2, RowFields
  <2> QED  BY <2>2, <2>3, <2>4, <2>5, ModelAssumption DEF ReportRow
<1>3. ASSUME NEW i \in InputIndex, NEW k \in 1 .. Len(table[i])
      PROVE  Row(i, table[i][k].output, k, table[i][k].payload) \in ReportTableOf(table)
  <2>1. Row(i, table[i][k].output, k, table[i][k].payload) \in ReportsOfInput(table, i)
    BY <1>1 DEF ReportsOfInput
  <2> QED  BY <2>1 DEF ReportTableOf
<1> QED  BY <1>2, <1>3

LEMMA ReportTableRows ==
  ASSUME NEW table, table \in [InputIndex -> Seq(ReportRow)]
  PROVE  IsRows(ReportTableOf(table))
<1>1. ASSUME NEW i \in InputIndex
      PROVE  IsFiniteSet(ReportsOfInput(table, i))
  <2> DEFINE D == DOMAIN table[i]
             f == [k \in D |-> Row(i, table[i][k].output, k, table[i][k].payload)]
  <2>1. D = 1 .. Len(table[i]) /\ Len(table[i]) \in Nat
    BY LenProperties
  <2>2. IsFiniteSet(D)
    BY <2>1, FS_Interval
  <2>3. /\ f \in [D -> ReportsOfInput(table, i)]
        /\ \A y \in ReportsOfInput(table, i) : \E x \in D : f[x] = y
    BY DEF ReportsOfInput
  <2> HIDE DEF D, f
  <2> QED  BY <2>2, <2>3, RangeFinite
<1> DEFINE family == {ReportsOfInput(table, i) : i \in InputIndex}
           g == [i \in InputIndex |-> ReportsOfInput(table, i)]
<1>2. g \in [InputIndex -> family] /\ \A y \in family : \E x \in InputIndex : g[x] = y
  OBVIOUS
<1>3. (\A y \in family : IsFiniteSet(y)) /\ ReportTableOf(table) = UNION family
  BY <1>1 DEF ReportTableOf
<1> HIDE DEF family, g
<1>4. IsFiniteSet(family)
  BY <1>2, RangeFinite, ModelAssumption
<1>5. IsFiniteSet(ReportTableOf(table))
  BY <1>3, <1>4, FS_UNION
<1> QED  BY <1>5, ReportRowIs DEF IsRows, SamePlace

LEMMA TablesAre ==
  /\ InputTable = InputTableOf(inputs) /\ InputTable' = InputTableOf(inputs')
  /\ VoucherTable = OutputTable(vouchers) /\ VoucherTable' = OutputTable(vouchers')
  /\ NoticeTable = OutputTable(notices) /\ NoticeTable' = OutputTable(notices')
  /\ ReportTable = ReportTableOf(reports) /\ ReportTable' = ReportTableOf(reports')
<1>1. InputTable = InputTableOf(inputs) /\ InputTable' = InputTableOf(inputs')
  BY DEF InputTable, InputTableOf
<1>2. /\ VoucherTable = OutputTable(vouchers) /\ VoucherTable' = OutputTable(vouchers')
      /\ NoticeTable = OutputTable(notices) /\ NoticeTable' = OutputTable(notices')
  BY DEF VoucherTable, NoticeTable, OutputTable
<1>3. ReportTable = ReportTableOf(reports) /\ ReportTable' = ReportTableOf(reports')
  BY DEF ReportTable, ReportTableOf, ReportsOfInput
<1> QED  BY <1>1, <1>2, <1>3

LEMMA TablesAreRows ==
  ASSUME StoreIInv, IsFiniteSet(vouchers), IsFiniteSet(notices)
  PROVE  /\ IsRows(InputTable) /\ IsRows(VoucherTable) /\ IsRows(NoticeTable)
         /\ IsRows(ReportTable)
<1>1. StoredFit
  BY StoreParts
<1>2. /\ \A r, s \in vouchers : SameKey(r, s) => r = s
      /\ \A r, s \in notices : SameKey(r, s) => r = s
  BY <1>1 DEF StoredFit, StoredIndicesGapless, GaplessTable
<1> QED  BY <1>1, <1>2, TablesAre, InputTableRows, OutputTableRows, ReportTableRows
         DEF StoredFit

LEMMA TablesAreRowsPrime ==
  ASSUME StoreIInv', IsFiniteSet(vouchers'), IsFiniteSet(notices')
  PROVE  /\ IsRows(InputTable') /\ IsRows(VoucherTable') /\ IsRows(NoticeTable')
         /\ IsRows(ReportTable')
<1>1. StoredFit'
  BY StorePartsPrime
<1>2. /\ vouchers' \subseteq OutputRow /\ notices' \subseteq OutputRow
      /\ reports' \in [InputIndex -> Seq(ReportRow)]
      /\ \A r, s \in vouchers' : SameKey(r, s) => r = s
      /\ \A r, s \in notices' : SameKey(r, s) => r = s
  BY <1>1 DEF StoredFit, StoredIndicesGapless, GaplessTable
<1> QED  BY <1>2, TablesAre, InputTableRows, OutputTableRows, ReportTableRows

-----------------------------------------------------------------------------
(* What matches a query whose rows stay depends on the rows only.          *)

Holds(row, c) ==
  /\ c.field \in {"Index", "InputIndex"} => Compares(row.input, c)
  /\ c.field = "OutputIndex" => Compares(row.output, c)
  /\ c.field = "Status" => row.value # c.ne
  /\ c.field = "Destination" => c.eq.checksummed /\ c.eq.address = row.value

AllHold(row) == \A k \in DOMAIN Query.filter : Holds(row, Query.filter[k])

(* The fields that a filter of a table may have.                           *)
Fields(table) ==
  CASE table = "inputs"   -> {"Index", "Status"}
    [] table = "vouchers" -> {"Destination", "InputIndex"}
    [] table = "notices"  -> {"InputIndex"}
    [] table = "reports"  -> {"OutputIndex", "InputIndex"}

LEMMA QueryFits ==
  ASSUME reader \in Reader
  PROVE  /\ Query.table \in {"inputs", "vouchers", "notices", "reports"}
         /\ Query.direction \in {"forward", "backward"}
         /\ Query.size \in Seq(Nat \ {0}) /\ Len(Query.size) <= 1
         /\ Query.direction = "backward" => Query.size # Nil
BY QueriesAssumption DEF Reader, Query

LEMMA TransformsFields ==
  ASSUME NEW table \in {"inputs", "vouchers", "notices", "reports"}, NEW c,
         Transforms(table, c), c.field # "Executed"
  PROVE  c.field \in Fields(table)
<1>1. CASE table = "inputs"
  BY <1>1 DEF Transforms, TransformsToInputQuery, Fields
<1>2. CASE table = "vouchers"
  BY <1>2 DEF Transforms, TransformsToQuery, Fields
<1>3. CASE table = "notices"
  BY <1>3 DEF Transforms, TransformsToNoticeQuery, Fields
<1>4. CASE table = "reports"
  BY <1>4 DEF Transforms, TransformsToReportQuery, Fields
<1> QED  BY <1>1, <1>2, <1>3, <1>4

LEMMA SatisfiesHolds ==
  ASSUME NEW table \in {"inputs", "vouchers", "notices", "reports"}, NEW row, NEW c,
         c.field \in Fields(table)
  PROVE  (Satisfies(row, c) <=> Holds(row, c)) /\ (Satisfies(row, c)' <=> Holds(row, c))
<1>1. c.field \in {"Index", "Status", "Destination", "InputIndex", "OutputIndex"}
  BY DEF Fields
<1>2. CASE c.field \in {"Index", "InputIndex"}
  BY <1>2 DEF Satisfies, Holds, Compares
<1>3. CASE c.field = "OutputIndex"
  BY <1>3 DEF Satisfies, Holds, Compares
<1>4. CASE c.field = "Status"
  BY <1>4 DEF Satisfies, Holds
<1>5. CASE c.field = "Destination"
  BY <1>5 DEF Satisfies, Holds
<1> QED  BY <1>1, <1>2, <1>3, <1>4, <1>5

LEMMA MatchingIs ==
  ASSUME reader \in Reader, Stays
  PROVE  /\ \A k \in DOMAIN Query.filter : Query.filter[k].field \in Fields(Query.table)
         /\ Query.table = "inputs"   => Matching(Query) = {row \in InputTable : AllHold(row)}
         /\ Query.table = "vouchers" => Matching(Query) = {row \in VoucherTable : AllHold(row)}
         /\ Query.table = "notices"  => Matching(Query) = {row \in NoticeTable : AllHold(row)}
         /\ Query.table = "reports"  => Matching(Query) = {row \in ReportTable : AllHold(row)}
<1>1. \A k \in DOMAIN Query.filter : Query.filter[k].field \in Fields(Query.table)
  BY QueryFits, TransformsFields DEF Stays
<1>2. \A row : \A k \in DOMAIN Query.filter :
        Satisfies(row, Query.filter[k]) <=> Holds(row, Query.filter[k])
  BY <1>1, QueryFits, SatisfiesHolds
<1>3. Matching(Query) = {row \in Rows(Query.table) : AllHold(row)}
  BY <1>2 DEF Matching, AllHold
<1>4. /\ Query.table = "inputs" => Rows(Query.table) = InputTable
      /\ Query.table = "vouchers" => Rows(Query.table) = VoucherTable
      /\ Query.table = "notices" => Rows(Query.table) = NoticeTable
      /\ Query.table = "reports" => Rows(Query.table) = ReportTable
  BY DEF Rows
<1> QED  BY <1>1, <1>3, <1>4

LEMMA MatchingIsPrime ==
  ASSUME reader \in Reader, Stays', reader'.walk = reader.walk
  PROVE  /\ Query' = Query
         /\ \A k \in DOMAIN Query.filter : Query.filter[k].field \in Fields(Query.table)
         /\ Query.table = "inputs"   => Matching(Query)' = {row \in InputTable' : AllHold(row)}
         /\ Query.table = "vouchers" => Matching(Query)' = {row \in VoucherTable' : AllHold(row)}
         /\ Query.table = "notices"  => Matching(Query)' = {row \in NoticeTable' : AllHold(row)}
         /\ Query.table = "reports"  => Matching(Query)' = {row \in ReportTable' : AllHold(row)}
<1>0. Query' = Query
  BY DEF Query
<1>1. \A k \in DOMAIN Query.filter : Query.filter[k].field \in Fields(Query.table)
  <2>1. \A k \in DOMAIN Query.filter : /\ Transforms(Query.table, Query.filter[k])
                                       /\ Query.filter[k].field # "Executed"
    BY <1>0 DEF Stays, Transforms, TransformsToInputQuery, TransformsToQuery,
                TransformsToNoticeQuery, TransformsToReportQuery
  <2> QED  BY <2>1, QueryFits, TransformsFields
<1>2. \A c : c.field \in Fields(Query.table) =>
        \A row : Satisfies(row, c)' <=> Holds(row, c)
  BY QueryFits, SatisfiesHolds
<1>3. \A row : AllHold(row) <=> \A k \in DOMAIN Query'.filter : Satisfies(row, Query.filter[k])'
  BY <1>0, <1>1, <1>2 DEF AllHold
<1>4. Matching(Query)' = {row \in Rows(Query.table)' : AllHold(row)}
  BY <1>0, <1>3 DEF Matching
<1>5. /\ Query.table = "inputs" => Rows(Query.table)' = InputTable'
      /\ Query.table = "vouchers" => Rows(Query.table)' = VoucherTable'
      /\ Query.table = "notices" => Rows(Query.table)' = NoticeTable'
      /\ Query.table = "reports" => Rows(Query.table)' = ReportTable'
  BY <1>0 DEF Rows
<1> QED  BY <1>0, <1>1, <1>4, <1>5

LEMMA MatchingRows ==
  ASSUME StoreIInv, IsFiniteSet(vouchers), IsFiniteSet(notices), reader \in Reader
  PROVE  IsRows(Matching(Query)) /\ Total \in Nat
<1>1. IsRows(Rows(Query.table))
  BY TablesAreRows, QueryFits DEF Rows
<1>2. IsRows(Matching(Query))
  BY <1>1, SubsetIsRows DEF Matching
<1> QED  BY <1>2, FS_CardinalityType DEF IsRows, Total

-----------------------------------------------------------------------------
(* What a step of the server does to the tables: they grow at their end.   *)

Precedes(r, s) == r.input < s.input \/ (r.input = s.input /\ r.output < s.output)

(* A table of vouchers or notices whose new keys are after all the others. *)
GrowsAtEnd(old, new) ==
  /\ \A r \in old : \E s \in new : SameKey(r, s)
  /\ \A s \in new : (\E r \in old : SameKey(r, s)) \/ \A r \in old : Precedes(r, s)

LEMMA SameGrows == \A table : GrowsAtEnd(table, table)
BY DEF GrowsAtEnd, SameKey

LEMMA UpsertGrows ==
  ASSUME NEW table, table \subseteq OutputRow, GaplessTable(table),
         NEW row \in OutputRow, \A r \in table : r.input <= row.input
  PROVE  GrowsAtEnd(table, Upsert(table, {row}))
<1> DEFINE new == Upsert(table, {row})
<1>1. \A r : r \in new <=> (r \in table /\ ~SameKey(r, row)) \/ r = row
  BY DEF Upsert
<1> HIDE DEF new
<1>2. \A r \in table : \E s \in new : SameKey(r, s)
  BY <1>1 DEF SameKey
<1>3. /\ row.input \in InputIndex /\ row.output \in Nat /\ row.input \in Nat
      /\ \A r \in table : r.input \in Nat /\ r.output \in Nat
  BY ModelAssumption DEF OutputRow
<1>4. PICK n \in 0 .. MaxOutputs : {r.output : r \in RowsOf(table, row.input)} = 0 .. (n - 1)
  BY <1>3 DEF GaplessTable
<1>5. ASSUME \A r \in table : ~SameKey(r, row)
      PROVE  \A r \in table : Precedes(r, row)
  <2>1. row.output \notin {r.output : r \in RowsOf(table, row.input)}
    BY <1>5 DEF RowsOf, SameKey
  <2>2. n <= row.output
    BY <1>3, <1>4, <2>1, ModelAssumption
  <2>3. ASSUME NEW r \in table, r.input = row.input
        PROVE  r.output < row.output
    <3>1. r.output \in {s.output : s \in RowsOf(table, row.input)}
      BY <2>3 DEF RowsOf
    <3>2. r.output \in 0 .. (n - 1)
      BY <1>4, <3>1
    <3> QED  BY <1>3, <2>2, <3>2, ModelAssumption
  <2>4. ASSUME NEW r \in table, r.input # row.input
        PROVE  r.input < row.input
    BY <1>3, <2>4
  <2> QED  BY <2>3, <2>4 DEF Precedes
<1>6. \A s \in new : (\E r \in table : SameKey(r, s)) \/ \A r \in table : Precedes(r, s)
  <2>1. CASE \E r \in table : SameKey(r, row)
    BY <1>1, <2>1 DEF SameKey
  <2>2. CASE \A r \in table : ~SameKey(r, row)
    <3>1. \A r \in table : Precedes(r, row)
      BY <1>5, <2>2
    <3> QED  BY <1>1, <3>1 DEF SameKey
  <2> QED  BY <2>1, <2>2
<1> QED  BY <1>2, <1>6 DEF new, GrowsAtEnd

(* A write is of the input in progress, and of no input after it is        *)
(* anything stored.                                                        *)
LEMMA HeadWrite ==
  ASSUME StoreIInv, WorkInOrder, WriteNext
  PROVE  /\ Head(job.writes) \in Write /\ Head(job.writes) = job.writes[1]
         /\ 1 \in DOMAIN job.writes
         /\ state.mode = "advance" /\ state.input \in InputIndex /\ state.input \in Nat
         /\ Head(job.writes).table \in {"vouchers", "notices"} =>
              Head(job.writes).row \in OutputRow /\ Head(job.writes).row.input = state.input
         /\ \A i \in InputIndex : Begun(i) => i <= state.input
<1>1. job \in Job /\ job.writes # <<>> /\ state.mode = "advance" /\ StateTyped
  BY StoreParts, WriteContext DEF WriteNext
<1>2. /\ Head(job.writes) \in Write /\ Head(job.writes) = job.writes[1]
      /\ DOMAIN job.writes = 1 .. Len(job.writes) /\ Len(job.writes) \in Nat \ {0}
  BY <1>1, HeadOfWrites
<1>3. 1 \in DOMAIN job.writes
  BY <1>2
<1>4. Head(job.writes).table \in {"vouchers", "notices"} =>
        Head(job.writes).row.input = state.input
  BY <1>2, <1>3, StoreParts DEF WritesInOrder
<1>5. Head(job.writes).table \in {"vouchers", "notices"} => Head(job.writes).row \in OutputRow
  BY <1>2 DEF Write
<1> QED  BY <1>1, <1>2, <1>3, <1>4, <1>5, ModelAssumption DEF WorkInOrder, StateTyped

(* A row that is written replaces that of its key, and no other goes.      *)
LEMMA OutputsKept ==
  ASSUME StoreIInv, [StoreNext]_storeVars
  PROVE  /\ \A r \in vouchers : \E s \in vouchers' : SameKey(r, s)
         /\ \A r \in notices : \E s \in notices' : SameKey(r, s)
<1>1. ASSUME NEW table, NEW row
      PROVE  \A r \in table : \E s \in Upsert(table, {row}) : SameKey(r, s)
  BY DEF Upsert, SameKey
<1>2. CASE WriteNext
  <2>1. /\ vouchers' = vouchers \/ vouchers' = Upsert(vouchers, {Head(job.writes).row})
        /\ notices' = notices \/ notices' = Upsert(notices, {Head(job.writes).row})
    BY <1>2, WriteContext
  <2>2. \A r \in vouchers : \E s \in vouchers' : SameKey(r, s)
    <3>1. CASE vouchers' = vouchers
      BY <3>1 DEF SameKey
    <3>2. CASE vouchers' = Upsert(vouchers, {Head(job.writes).row})
      BY <1>1, <3>2
    <3> QED  BY <2>1, <3>1, <3>2
  <2>3. \A r \in notices : \E s \in notices' : SameKey(r, s)
    <3>1. CASE notices' = notices
      BY <3>1 DEF SameKey
    <3>2. CASE notices' = Upsert(notices, {Head(job.writes).row})
      BY <1>1, <3>2
    <3> QED  BY <2>1, <3>1, <3>2
  <2> QED  BY <2>2, <2>3
<1>3. CASE UNCHANGED <<vouchers, notices>>
  BY <1>3 DEF SameKey
<1> QED  BY <1>2, <1>3, OtherSteps DEF AddAdvanceInput, tables

LEMMA OutputsGrow ==
  ASSUME StoreIInv, WorkInOrder, [StoreNext]_storeVars
  PROVE  GrowsAtEnd(vouchers, vouchers') /\ GrowsAtEnd(notices, notices')
<1>1. CASE WriteNext
  <2> DEFINE h == Head(job.writes)
  <2>1. /\ vouchers' = IF h.table = "vouchers" THEN Upsert(vouchers, {h.row}) ELSE vouchers
        /\ notices' = IF h.table = "notices" THEN Upsert(notices, {h.row}) ELSE notices
    BY <1>1, WriteContext
  <2>2. /\ vouchers \subseteq OutputRow /\ GaplessTable(vouchers)
        /\ notices \subseteq OutputRow /\ GaplessTable(notices)
    BY StoreParts DEF StoredFit, StoredIndicesGapless
  <2>3. h.table \in {"vouchers", "notices"} =>
          /\ h.row \in OutputRow
          /\ \A r \in vouchers : r.input <= h.row.input
          /\ \A r \in notices : r.input <= h.row.input
    <3>1. \A r \in vouchers \cup notices : r.input \in InputIndex /\ Begun(r.input)
      BY <2>2 DEF OutputRow, Begun
    <3> QED  BY <1>1, <3>1, HeadWrite
  <2> HIDE DEF h
  <2>4. GrowsAtEnd(vouchers, vouchers')
    <3>1. CASE h.table = "vouchers"
      BY <2>1, <2>2, <2>3, <3>1, UpsertGrows
    <3> QED  BY <2>1, <3>1, SameGrows
  <2>5. GrowsAtEnd(notices, notices')
    <3>1. CASE h.table = "notices"
      BY <2>1, <2>2, <2>3, <3>1, UpsertGrows
    <3> QED  BY <2>1, <3>1, SameGrows
  <2> QED  BY <2>4, <2>5
<1>2. CASE UNCHANGED <<vouchers, notices>>
  BY <1>2, SameGrows
<1> QED  BY <1>1, <1>2, OtherSteps DEF AddAdvanceInput, tables

(* Whatever fails, an input that is stored stays, and so does that it is   *)
(* decided.                                                                *)
LEMMA InputsStay ==
  ASSUME StoreIInv, [StoreNext]_storeVars
  PROVE  /\ \A i \in InputIndex : inputs[i] # "absent" => inputs'[i] # "absent"
         /\ \A i \in InputIndex : Decided(i) => Decided(i)'
         /\ \A i \in InputIndex : inputs[i] = "unprocessed" /\ inputs'[i] # "unprocessed" =>
              WriteNext /\ i = state.input
<1>1. inputs \in [InputIndex -> {"absent"} \cup Status]
  BY StoreParts DEF StoredFit
<1>2. CASE WriteNext
  <2> DEFINE h == Head(job.writes)
  <2>1. inputs' = IF h.table = "inputs" THEN [inputs EXCEPT ![state.input] = h.row] ELSE inputs
    BY <1>2 DEF WriteNext, Apply
  <2>2. h \in Write
    <3>1. job \in Job /\ job.writes # <<>>
      BY <1>2, StoreParts DEF WriteNext
    <3> QED  BY <3>1, HeadOfWrites
  <2>3. h.table = "inputs" => h.row \in Verdict
    BY <2>2 DEF Write
  <2> HIDE DEF h
  <2>4. ASSUME NEW i \in InputIndex
        PROVE  inputs'[i] = inputs[i] \/ (inputs'[i] \in Verdict /\ i = state.input)
    BY <1>1, <2>1, <2>3
  <2> QED  BY <1>2, <2>4 DEF Decided, Verdict
<1>3. CASE \E i \in InputIndex : AddAdvanceInput(i)
  BY <1>1, <1>3 DEF AddAdvanceInput, Decided, Verdict
<1>4. CASE UNCHANGED tables
  BY <1>4 DEF tables, Decided
<1> QED  BY <1>2, <1>3, <1>4, OtherSteps

LEMMA InputsGrow ==
  ASSUME StoreIInv, WorkInOrder, [StoreNext]_storeVars, ~ArrivesLate
  PROVE  /\ \A i, j \in InputIndex :
              inputs[i] = "absent" /\ inputs'[i] # "absent" /\ inputs[j] # "absent" => j < i
         /\ \A i, j \in InputIndex :
              inputs[i] = "unprocessed" /\ inputs'[i] # "unprocessed" /\ Decided(j) => j < i
<1>1. ASSUME NEW i \in InputIndex, NEW j \in InputIndex,
             inputs[i] = "absent", inputs'[i] # "absent", inputs[j] # "absent"
      PROVE  j < i
  <2>1. ~(i < j) /\ i # j
    BY <1>1 DEF ArrivesLate, Arrives
  <2> QED  BY <2>1, ModelAssumption
<1>2. ASSUME NEW i \in InputIndex, NEW j \in InputIndex,
             inputs[i] = "unprocessed", inputs'[i] # "unprocessed", Decided(j)
      PROVE  j < i
  <2>1. WriteNext /\ i = state.input
    BY <1>2, InputsStay
  <2>2. j <= i
    BY <1>2, <2>1, HeadWrite DEF Begun
  <2>3. i # j
    BY <1>2 DEF Decided, Verdict
  <2> QED  BY <2>2, <2>3, ModelAssumption
<1> QED  BY <1>1, <1>2

(* Until a job is cut short a report that is written is numbered after     *)
(* those that its input has.                                               *)
LEMMA ReportNumbered ==
  ASSUME StoreIInv, JobComplete, faults.dberror = 0, JobAlone, WriteNext,
         Head(job.writes).table = "reports"
  PROVE  Head(job.writes).row.output = Len(reports[state.input])
<1> DEFINE w == job.writes
           h == Head(w)
           i == state.input
<1>1. /\ w \in Seq(Write) /\ w # <<>> /\ StateTyped /\ reports[i] \in Seq(ReportRow)
      /\ job.kind \in {"finish", "exception"} /\ Reports \in Seq(ReportRow)
  BY WriteContext
<1>2. /\ h = w[1] /\ Len(w) \in Nat \ {0} /\ DOMAIN w = 1 .. Len(w)
  BY <1>1, TailShape
<1>3. /\ Len(Reports) = Len(state.reports) /\ Len(Reports) \in Nat
      /\ \A k \in 1 .. Len(Reports) : Reports[k].output = k - 1
  <2>1. DOMAIN Reports = 1 .. Len(state.reports) /\ Len(state.reports) \in Nat
        /\ \A k \in 1 .. Len(state.reports) : Reports[k].output = k - 1
    BY <1>1, ReportRowsShape, LenProperties DEF StateTyped, Reports
  <2>2. DOMAIN Reports = 1 .. Len(Reports) /\ Len(Reports) \in Nat
    BY <1>1, LenProperties
  <2> QED  BY <2>1, <2>2
<1>4. /\ Len(reports[i]) \in Nat /\ job # NoJob
      /\ StatusWritesLeft = {} <=> Decided(i)
  BY <1>1, LenProperties, EmptySeq, AloneContext DEF NoJob
<1>5. w[1].table = "reports" /\ h.row = w[1].row
  BY <1>2
<1>6. CASE job.kind = "finish"
  <2>1. FinishFits(w, job.status, vouchers, notices, reports[i])
    BY <1>1, <1>6, CompleteParts
  <2>2. w[Len(w)].table = "inputs"
    BY <2>1 DEF FinishFits, StatusLast
  <2>3. Len(w) \in StatusWritesLeft
    BY <1>2, <2>2 DEF StatusWritesLeft
  <2>4. Len(reports[i]) = IF Len(w) > Len(state.reports) THEN 0 ELSE Len(state.reports) + 1 - Len(w)
    BY <1>4, <1>6, <2>3 DEF JobAlone, FinishAlone
  <2>5. PICK s \in 0 .. Len(Reports), before \in 0 .. Len(w) :
          /\ Len(w) = before + (Len(Reports) - s) + 1
          /\ \A k \in 1 .. before : w[k].table # "reports"
          /\ \A k \in 1 .. (Len(Reports) - s) :
               w[before + k] = [table |-> "reports", row |-> Reports[s + k]]
          /\ s <= Len(reports[i])
          /\ \A k \in 1 .. s : reports[i][Len(reports[i]) - s + k] = Reports[k]
    <3>1. ReportsIn(w, Reports, reports[i])
      BY <2>1 DEF FinishFits
    <3> HIDE DEF w, h, i
    <3> QED  BY <3>1 DEF ReportsIn
  <2> HIDE DEF w, h
  <2>6. ~(1 \in 1 .. before) /\ Len(w) # 1
    <3>1. ~(1 \in 1 .. before)
      BY <1>5, <2>5
    <3>2. Len(w) # 1
      BY <1>5, <2>2
    <3> QED  BY <3>1, <3>2
  <2>7. before = 0 /\ s + 1 \in 1 .. Len(Reports) /\ 1 \in 1 .. (Len(Reports) - s)
    BY <1>2, <1>3, <2>5, <2>6
  <2>8. w[1] = [table |-> "reports", row |-> Reports[s + 1]]
    <3>1. w[before + 1] = [table |-> "reports", row |-> Reports[s + 1]]
      BY <2>5, <2>7
    <3> QED  BY <2>7, <3>1
  <2>9. h.row.output = s
    BY <1>3, <1>5, <2>7, <2>8
  <2>10. Len(reports[i]) = s
    BY <1>2, <1>3, <2>4, <2>5, <2>7
  <2> QED  BY <2>9, <2>10 DEF h, w
<1>7. CASE job.kind = "exception"
  <2>1. Decided(i)
    <3>1. ~Decided(i) => w = ExceptionWrites
      BY <1>7 DEF JobAlone, ExceptionAlone
    <3> QED  BY <1>1, <3>1, ExceptionWritesShape
  <2>2. /\ \A k \in DOMAIN w : w[k].table = "reports"
        /\ reports[i] \o PendingReports = Reports
    BY <1>7, <2>1 DEF JobAlone, ExceptionAlone, Reports
  <2>3. PendingReports = RowsIn(w)
    BY DEF PendingReports, RowsIn
  <2>4. /\ RowsIn(w) \in Seq(ReportRow) /\ Len(RowsIn(w)) = Len(w)
        /\ \A k \in 1 .. Len(w) : RowsIn(w)[k] = w[k].row
    BY <1>1, <2>2, RowsInShape
  <2> DEFINE list == reports[i]
             left == RowsIn(w)
  <2>5. list \in Seq(ReportRow) /\ left \in Seq(ReportRow) /\ list \o left = Reports
    BY <1>1, <2>2, <2>3, <2>4
  <2>6. left[1] = h.row /\ Len(left) = Len(w) /\ Len(list) \in Nat
    BY <1>2, <1>4, <1>5, <2>4
  <2> HIDE DEF list, left, w, h
  <2>7. /\ Len(list \o left) = Len(list) + Len(left)
        /\ \A k \in 1 .. Len(list) + Len(left) :
             (list \o left)[k] = IF k <= Len(list) THEN list[k] ELSE left[k - Len(list)]
    BY <2>5, ConcatProperties
  <2>8. /\ Len(list) + 1 \in 1 .. Len(list) + Len(left) /\ ~(Len(list) + 1 <= Len(list))
        /\ (Len(list) + 1) - Len(list) = 1
    BY <1>2, <2>6
  <2>9. (list \o left)[Len(list) + 1] = left[1]
    BY <2>7, <2>8
  <2>10. Len(list) + 1 \in 1 .. Len(Reports) /\ (Len(list) + 1) - 1 = Len(list)
    BY <2>5, <2>6, <2>7, <2>8
  <2>11. h.row.output = Len(list)
    BY <1>3, <2>5, <2>6, <2>9, <2>10
  <2> QED  BY <2>11 DEF list, h, w
<1> QED  BY <1>1, <1>6, <1>7

LEMMA ReportsAppended ==
  ASSUME StoreIInv, [StoreNext]_storeVars
  PROVE  \/ reports' = reports
         \/ \E i \in InputIndex : \E row \in ReportRow :
              reports' = [reports EXCEPT ![i] = Append(@, row)]
<1>1. CASE WriteNext /\ Head(job.writes).table = "reports"
  <2>1. reports' = [reports EXCEPT ![state.input] = Append(@, Head(job.writes).row)]
    BY <1>1 DEF WriteNext, Apply
  <2>2. job \in Job /\ job.writes # <<>> /\ state.mode = "advance" /\ StateTyped
    BY <1>1, StoreParts, WriteContext DEF WriteNext
  <2>3. Head(job.writes) \in Write
    BY <2>2, HeadOfWrites
  <2>4. Head(job.writes).row \in ReportRow /\ state.input \in InputIndex
    BY <1>1, <2>2, <2>3 DEF Write, StateTyped
  <2> QED  BY <2>1, <2>4
<1>2. CASE WriteNext /\ Head(job.writes).table # "reports"
  BY <1>2 DEF WriteNext, Apply
<1> QED  BY <1>1, <1>2, OtherSteps DEF AddAdvanceInput, tables

LEMMA ReportsGrow ==
  ASSUME StoreIInv, JobComplete, WorkInOrder, faults.dberror = 0, JobAlone,
         [StoreNext]_storeVars
  PROVE  \/ reports' = reports
         \/ \E i \in InputIndex : \E row \in ReportRow :
              /\ reports' = [reports EXCEPT ![i] = Append(@, row)]
              /\ row.output = Len(reports[i])
              /\ \A j \in InputIndex : reports[j] # <<>> => j <= i
<1>1. CASE WriteNext /\ Head(job.writes).table = "reports"
  <2>1. reports' = [reports EXCEPT ![state.input] = Append(@, Head(job.writes).row)]
    BY <1>1 DEF WriteNext, Apply
  <2>2. /\ Head(job.writes) \in Write /\ state.input \in InputIndex
        /\ \A j \in InputIndex : reports[j] # <<>> => j <= state.input
    BY <1>1, HeadWrite DEF Begun
  <2>3. Head(job.writes).row \in ReportRow
    BY <1>1, <2>2 DEF Write
  <2> QED  BY <1>1, <2>1, <2>2, <2>3, ReportNumbered
<1>2. CASE WriteNext /\ Head(job.writes).table # "reports"
  BY <1>2 DEF WriteNext, Apply
<1> QED  BY <1>1, <1>2, OtherSteps DEF AddAdvanceInput, tables

-----------------------------------------------------------------------------
(* The rows that match, table by table, before and after such a step.      *)

LEMMA InputsCover ==
  ASSUME NEW old, NEW new,
         \A i \in InputIndex : old[i] # "absent" => new[i] # "absent",
         \A i \in InputIndex : old[i] \notin {"absent", "unprocessed"} => new[i] # "unprocessed",
         NEW filter,
         \A k \in DOMAIN filter : filter[k].field \in Fields("inputs"),
         \A k \in DOMAIN filter : filter[k].field = "Status" => filter[k].ne = "unprocessed"
  PROVE  Covers({row \in InputTableOf(old) : \A k \in DOMAIN filter : Holds(row, filter[k])},
                {row \in InputTableOf(new) : \A k \in DOMAIN filter : Holds(row, filter[k])})
<1> DEFINE S == {row \in InputTableOf(old) : \A k \in DOMAIN filter : Holds(row, filter[k])}
           T == {row \in InputTableOf(new) : \A k \in DOMAIN filter : Holds(row, filter[k])}
<1>1. \A k \in DOMAIN filter :
        \A r : Holds(r, filter[k]) <=>
                 /\ filter[k].field = "Index" => Compares(r.input, filter[k])
                 /\ filter[k].field = "Status" => r.value # "unprocessed"
  BY DEF Holds, Fields
<1>2. ASSUME NEW s \in S
      PROVE  \E t \in T : SamePlace(s, t)
  <2> DEFINE i == s.input
             t == Row(i, 0, 0, new[i])
  <2>1. i \in InputIndex /\ old[i] # "absent" /\ s.output = 0 /\ s.place = 0 /\ s.value = old[i]
    BY InputRowIs
  <2>2. new[i] # "absent" /\ (old[i] # "unprocessed" => new[i] # "unprocessed")
    BY <2>1
  <2>3. t \in InputTableOf(new) /\ t.input = i /\ t.output = 0 /\ t.place = 0 /\ t.value = new[i]
    BY <2>1, <2>2, InputRowIs, RowFields
  <2> HIDE DEF t
  <2>4. t \in T
    BY <1>1, <2>1, <2>2, <2>3
  <2> QED  BY <2>1, <2>3, <2>4 DEF SamePlace
<1> QED  BY <1>2 DEF Covers

LEMMA InputsFollow ==
  ASSUME NEW old, NEW new,
         \A i \in InputIndex : old[i] # "absent" => new[i] # "absent",
         \A i \in InputIndex : old[i] \notin {"absent", "unprocessed"} => new[i] # "unprocessed",
         \A i, j \in InputIndex :
           old[i] = "absent" /\ new[i] # "absent" /\ old[j] # "absent" => j < i,
         \A i, j \in InputIndex :
           old[i] = "unprocessed" /\ new[i] # "unprocessed"
             /\ old[j] \notin {"absent", "unprocessed"} => j < i,
         NEW filter,
         \A k \in DOMAIN filter : filter[k].field \in Fields("inputs"),
         \A k \in DOMAIN filter : filter[k].field = "Status" => filter[k].ne = "unprocessed"
  PROVE  Follows({row \in InputTableOf(old) : \A k \in DOMAIN filter : Holds(row, filter[k])},
                 {row \in InputTableOf(new) : \A k \in DOMAIN filter : Holds(row, filter[k])})
<1> DEFINE S == {row \in InputTableOf(old) : \A k \in DOMAIN filter : Holds(row, filter[k])}
           T == {row \in InputTableOf(new) : \A k \in DOMAIN filter : Holds(row, filter[k])}
<1>1. \A k \in DOMAIN filter :
        \A r : Holds(r, filter[k]) <=>
                 /\ filter[k].field = "Index" => Compares(r.input, filter[k])
                 /\ filter[k].field = "Status" => r.value # "unprocessed"
  BY DEF Holds, Fields
<1>2. Covers(S, T)
  BY InputsCover
<1>3. ASSUME NEW t \in T, ~\E s \in S : SamePlace(s, t)
      PROVE  \A s \in S : RowBefore(s, t)
  <2> DEFINE i == t.input
             s == Row(i, 0, 0, old[i])
  <2>1. i \in InputIndex /\ new[i] # "absent" /\ t.output = 0 /\ t.place = 0 /\ t.value = new[i]
    BY InputRowIs
  <2>2. s.input = i /\ s.output = 0 /\ s.place = 0 /\ s.value = old[i]
    BY RowFields
  <2>3. s \notin S
    BY <1>3, <2>1, <2>2 DEF SamePlace
  <2>4. old[i] # "absent" => s \in InputTableOf(old)
    BY <2>1, InputRowIs
  <2> HIDE DEF s
  <2>5. ASSUME NEW r \in S
        PROVE  r.input < i
    <3>1. /\ r.input \in InputIndex /\ old[r.input] # "absent" /\ r.value = old[r.input]
      BY InputRowIs
    <3>2. CASE old[i] = "absent"
      BY <2>1, <3>1, <3>2
    <3>3. CASE old[i] # "absent"
      <4>1. PICK k \in DOMAIN filter : ~Holds(s, filter[k])
        BY <2>3, <2>4, <3>3
      <4>2. Holds(t, filter[k]) /\ Holds(r, filter[k])
        OBVIOUS
      <4>3. filter[k].field = "Status" /\ old[i] = "unprocessed" /\ new[i] # "unprocessed"
        BY <1>1, <2>1, <2>2, <4>1, <4>2
      <4>4. old[r.input] # "unprocessed"
        BY <1>1, <3>1, <4>2, <4>3
      <4> QED  BY <2>1, <3>1, <4>3, <4>4
    <3> QED  BY <3>2, <3>3
  <2> QED  BY <2>5 DEF RowBefore
<1> QED  BY <1>2, <1>3 DEF Follows

LEMMA OutputsCover ==
  ASSUME NEW old, NEW new, old \subseteq OutputRow, new \subseteq OutputRow,
         \A r \in old : \E s \in new : SameKey(r, s), \A r, s \in new : SameKey(r, s) => r = s
  PROVE  /\ Covers(OutputTable(old), OutputTable(new))
         /\ old \subseteq new =>
              \A s \in OutputTable(old) : \A t \in OutputTable(new) :
                SamePlace(s, t) => s.value = t.value
<1>1. ASSUME NEW s \in OutputTable(old)
      PROVE  \E t \in OutputTable(new) : SamePlace(s, t)
  <2>1. PICK q \in old : s.input = q.input /\ s.output = q.output /\ s.place = 0
    BY OutputRowIs
  <2>2. PICK p \in new : SameKey(q, p)
    OBVIOUS
  <2>3. Row(p.input, p.output, 0, p.payload) \in OutputTable(new)
    BY OutputRowIs
  <2> QED  BY <2>1, <2>2, <2>3, RowFields DEF SamePlace, SameKey
<1>2. ASSUME old \subseteq new, NEW s \in OutputTable(old), NEW t \in OutputTable(new),
             SamePlace(s, t)
      PROVE  s.value = t.value
  <2>1. PICK q \in old : s.input = q.input /\ s.output = q.output /\ s.value = q.payload
    BY OutputRowIs
  <2>2. PICK p \in new : t.input = p.input /\ t.output = p.output /\ t.value = p.payload
    BY OutputRowIs
  <2>3. q = p
    BY <1>2, <2>1, <2>2 DEF SamePlace, SameKey
  <2> QED  BY <2>1, <2>2, <2>3
<1> QED  BY <1>1, <1>2 DEF Covers

LEMMA OutputsFollow ==
  ASSUME NEW old, NEW new, old \subseteq OutputRow, new \subseteq OutputRow,
         GrowsAtEnd(old, new), \A r, s \in new : SameKey(r, s) => r = s
  PROVE  Follows(OutputTable(old), OutputTable(new))
<1>1. Covers(OutputTable(old), OutputTable(new))
  BY OutputsCover DEF GrowsAtEnd
<1>2. ASSUME NEW t \in OutputTable(new), ~\E s \in OutputTable(old) : SamePlace(s, t)
      PROVE  \A s \in OutputTable(old) : RowBefore(s, t)
  <2>1. PICK p \in new : t.input = p.input /\ t.output = p.output /\ t.place = 0
    BY OutputRowIs
  <2>2. ~\E q \in old : SameKey(q, p)
    <3> SUFFICES ASSUME NEW q \in old, SameKey(q, p) PROVE FALSE
      OBVIOUS
    <3>1. Row(q.input, q.output, 0, q.payload) \in OutputTable(old)
      BY OutputRowIs
    <3> QED  BY <1>2, <2>1, <3>1, RowFields DEF SamePlace, SameKey
  <2>3. \A q \in old : Precedes(q, p)
    BY <2>2 DEF GrowsAtEnd
  <2>4. \A s \in OutputTable(old) : \E q \in old : s.input = q.input /\ s.output = q.output
    BY OutputRowIs
  <2> QED  BY <2>1, <2>3, <2>4 DEF RowBefore, Precedes
<1> QED  BY <1>1, <1>2 DEF Follows

LEMMA ReportsCover ==
  ASSUME NEW old, old \in [InputIndex -> Seq(ReportRow)],
         NEW i \in InputIndex, NEW row \in ReportRow
  PROVE  Covers(ReportTableOf(old), ReportTableOf([old EXCEPT ![i] = Append(@, row)]))
<1> DEFINE n == Len(old[i])
           list == Append(old[i], row)
           new == [old EXCEPT ![i] = list]
<1>1. /\ old[i] \in Seq(ReportRow) /\ n \in Nat /\ DOMAIN old[i] = 1 .. n
      /\ list \in Seq(ReportRow) /\ Len(list) = n + 1
      /\ \A k \in 1 .. n : list[k] = old[i][k]
      /\ list[n + 1] = row
  BY AppendProperties, LenProperties
<1> HIDE DEF list
<1>2. /\ new \in [InputIndex -> Seq(ReportRow)] /\ new[i] = list
      /\ \A j \in InputIndex \ {i} : new[j] = old[j]
  BY <1>1
<1> HIDE DEF new
<1>3. ASSUME NEW j \in InputIndex, NEW k \in 1 .. Len(old[j])
      PROVE  k \in 1 .. Len(new[j]) /\ new[j][k] = old[j][k]
  <2>1. CASE j = i
    BY <1>1, <1>2, <2>1
  <2> QED  BY <1>2, <2>1
<1>4. ASSUME NEW s \in ReportTableOf(old)
      PROVE  \E t \in ReportTableOf(new) : SamePlace(s, t)
  <2>1. /\ s.input \in InputIndex /\ s.place \in 1 .. Len(old[s.input])
        /\ s.output = old[s.input][s.place].output
        /\ s = Row(s.input, old[s.input][s.place].output, s.place,
                   old[s.input][s.place].payload)
    BY ReportRowIs
  <2>2. s.place \in 1 .. Len(new[s.input]) /\ new[s.input][s.place] = old[s.input][s.place]
    BY <1>3, <2>1
  <2>3. s = Row(s.input, new[s.input][s.place].output, s.place, new[s.input][s.place].payload)
    BY <2>1, <2>2
  <2>4. Row(s.input, new[s.input][s.place].output, s.place, new[s.input][s.place].payload)
          \in ReportTableOf(new)
    BY <1>2, <2>1, <2>2, ReportRowIs
  <2> QED  BY <2>3, <2>4 DEF SamePlace
<1>5. Covers(ReportTableOf(old), ReportTableOf(new))
  BY <1>4 DEF Covers
<1> QED  BY <1>5 DEF new, list

LEMMA ReportsFollow ==
  ASSUME NEW old, old \in [InputIndex -> Seq(ReportRow)],
         NEW i \in InputIndex, NEW row \in ReportRow, row.output = Len(old[i]),
         \A j \in InputIndex : old[j] # <<>> => j <= i,
         \A k \in DOMAIN old[i] : old[i][k].output = k - 1
  PROVE  Follows(ReportTableOf(old), ReportTableOf([old EXCEPT ![i] = Append(@, row)]))
<1> DEFINE n == Len(old[i])
           list == Append(old[i], row)
           new == [old EXCEPT ![i] = list]
<1>1. /\ old[i] \in Seq(ReportRow) /\ n \in Nat /\ DOMAIN old[i] = 1 .. n
      /\ list \in Seq(ReportRow) /\ Len(list) = n + 1
      /\ \A k \in 1 .. n : list[k] = old[i][k]
      /\ list[n + 1] = row
  BY AppendProperties, LenProperties
<1> HIDE DEF list
<1>2. /\ new \in [InputIndex -> Seq(ReportRow)] /\ new[i] = list
      /\ \A j \in InputIndex \ {i} : new[j] = old[j]
  BY <1>1
<1> HIDE DEF new
<1>3. \A j \in InputIndex : Len(old[j]) \in Nat /\ (Len(old[j]) # 0 => old[j] # <<>>)
  BY LenProperties, EmptySeq
<1>4. ASSUME NEW j \in InputIndex, NEW k \in 1 .. Len(old[j])
      PROVE  k \in 1 .. Len(new[j]) /\ new[j][k] = old[j][k]
  <2>1. CASE j = i
    BY <1>1, <1>2, <2>1
  <2> QED  BY <1>2, <2>1
<1>5. Covers(ReportTableOf(old), ReportTableOf(new))
  BY ReportsCover DEF new, list
<1>6. ASSUME NEW t \in ReportTableOf(new), ~\E s \in ReportTableOf(old) : SamePlace(s, t)
      PROVE  \A s \in ReportTableOf(old) : RowBefore(s, t)
  <2>1. /\ t.input \in InputIndex /\ t.place \in 1 .. Len(new[t.input])
        /\ t.output = new[t.input][t.place].output
        /\ t = Row(t.input, new[t.input][t.place].output, t.place,
                   new[t.input][t.place].payload)
    BY <1>2, ReportRowIs
  <2>2. t.place \notin 1 .. Len(old[t.input])
    <3> SUFFICES ASSUME t.place \in 1 .. Len(old[t.input]) PROVE FALSE
      OBVIOUS
    <3>1. new[t.input][t.place] = old[t.input][t.place]
      BY <1>4, <2>1
    <3>2. t \in ReportTableOf(old)
      BY <2>1, <3>1, ReportRowIs
    <3> QED  BY <1>6, <3>2 DEF SamePlace
  <2>3. t.input = i
    BY <1>2, <2>1, <2>2
  <2>4. t.place = n + 1
    BY <1>1, <1>2, <2>1, <2>2, <2>3
  <2>5. t.output = n
    BY <1>1, <1>2, <2>1, <2>3, <2>4
  <2>6. ASSUME NEW s \in ReportTableOf(old)
        PROVE  RowBefore(s, t)
    <3>1. /\ s.input \in InputIndex /\ s.input \in Nat /\ s.place \in 1 .. Len(old[s.input])
          /\ s.output = old[s.input][s.place].output
      BY ReportRowIs
    <3>2. s.input <= i
      BY <1>3, <3>1
    <3>3. CASE s.input = i
      <4>1. s.output = s.place - 1 /\ s.place \in 1 .. n
        BY <1>1, <3>1, <3>3
      <4>2. s.output < t.output
        BY <1>1, <2>5, <4>1
      <4> QED  BY <2>3, <3>3, <4>2 DEF RowBefore
    <3>4. CASE s.input # i
      <4>1. s.input < t.input
        BY <2>3, <3>1, <3>2, <3>4, ModelAssumption
      <4> QED  BY <4>1 DEF RowBefore
    <3> QED  BY <3>3, <3>4
  <2> QED  BY <2>6
<1>7. Follows(ReportTableOf(old), ReportTableOf(new))
  BY <1>5, <1>6 DEF Follows
<1> QED  BY <1>7 DEF new, list

-----------------------------------------------------------------------------
(* A step of the server: the rows of a query whose rows stay are kept, and *)
(* grow at their end as long as inputs come in order.                      *)

ServerStep == Serve \/ ServerStops \/ UpdateExecuted

LEMMA ServerSteps ==
  ASSUME StoreIInv, late \in BOOLEAN, ServerStep
  PROVE  /\ [StoreNext]_storeVars /\ late' \in BOOLEAN
         /\ late => late'
         /\ ~late' => ~late /\ ~ArrivesLate
         /\ NoFault' => NoFault /\ faults' = faults
<1>1. CASE Serve
  <2>1. [StoreNext]_storeVars
    BY <1>1 DEF Serve, StoreNext
  <2>2. late' = (late \/ ArrivesLate)
    BY <1>1 DEF Serve
  <2>3. ArrivesLate \in BOOLEAN
    BY DEF ArrivesLate
  <2> QED  BY <2>1, <2>2, <2>3, FaultsOnlyGrow DEF NoFault
<1>2. CASE ServerStops
  <2>1. [StoreNext]_storeVars /\ late' = late
    BY <1>2 DEF ServerStops, StoreNext
  <2>2. inputs' = inputs
    BY <1>2 DEF ServerStops, Stop, Crash, Restart, tables
  <2>3. ~ArrivesLate
    BY <2>2 DEF ArrivesLate, Arrives
  <2> QED  BY <2>1, <2>3, FaultsOnlyGrow DEF NoFault
<1>3. CASE UpdateExecuted
  <2>1. UNCHANGED storeVars /\ late' = late
    BY <1>3 DEF UpdateExecuted
  <2>2. inputs' = inputs /\ faults' = faults
    BY <2>1 DEF storeVars, vars
  <2>3. ~ArrivesLate
    BY <2>2 DEF ArrivesLate, Arrives
  <2> QED  BY <2>1, <2>2, <2>3 DEF NoFault
<1> QED  BY <1>1, <1>2, <1>3 DEF ServerStep

(* The client stays what it is but for a query that is cut off.            *)
LEMMA ServerReader ==
  ASSUME reader \in Reader, ServerStep
  PROVE  /\ reader' \in Reader
         /\ \/ reader' = reader
            \/ /\ reader.pc = "counted" /\ reader'.pc = "idle"
               /\ reader'.page = PageOf(0, 0) /\ reader'.received = 0
         /\ reader'.walk = reader.walk /\ reader'.cursor = reader.cursor
         /\ reader'.total = reader.total
         /\ reader'.began = reader.began /\ reader'.seen = reader.seen
         /\ Query' = Query
<1>1. reader' = reader \/ (reader.pc = "counted" /\
        reader' = [reader EXCEPT !.pc = "idle", !.page = PageOf(0, 0), !.received = 0])
  BY DEF ServerStep, Serve, ServerStops, UpdateExecuted
<1>2. PageOf(0, 0) \in [error : {"none"}, offset : Nat, limit : Nat]
  BY DEF PageOf
<1>3. CASE reader' = reader
  BY <1>3 DEF Query
<1>4. CASE reader.pc = "counted" /\
        reader' = [reader EXCEPT !.pc = "idle", !.page = PageOf(0, 0), !.received = 0]
  BY <1>2, <1>4 DEF Reader, Query
<1> QED  BY <1>1, <1>3, <1>4

(* Until a job is cut short no voucher is written twice.                   *)
LEMMA VouchersStay ==
  ASSUME StoreIInv, WrittenOnce, [StoreNext]_storeVars
  PROVE  vouchers \subseteq vouchers'
<1>1. CASE WriteNext
  <2> DEFINE h == Head(job.writes)
  <2>1. vouchers' = IF h.table = "vouchers" THEN Upsert(vouchers, {h.row}) ELSE vouchers
    BY <1>1, WriteContext
  <2>2. h = job.writes[1] /\ 1 \in DOMAIN job.writes
    BY <1>1, WriteContext, TailShape
  <2>3. h.table = "vouchers" => \A r \in vouchers : ~SameKey(r, h.row)
    BY <2>2 DEF WrittenOnce
  <2> HIDE DEF h
  <2> QED  BY <2>1, <2>3 DEF Upsert
<1> QED  BY <1>1, OtherSteps DEF AddAdvanceInput, tables

LEMMA SamePlaceHolds ==
  ASSUME NEW r, NEW s, SamePlace(r, s),
         \/ r.value = s.value
         \/ \A k \in DOMAIN Query.filter : Query.filter[k].field \notin {"Status", "Destination"}
  PROVE  AllHold(r) <=> AllHold(s)
<1>1. ASSUME NEW c, r.value = s.value \/ c.field \notin {"Status", "Destination"}
      PROVE  Holds(r, c) <=> Holds(s, c)
  BY <1>1 DEF Holds, SamePlace
<1> QED  BY <1>1 DEF AllHold

(* Whatever the server does, no row of a query whose rows stay goes.       *)
LEMMA MatchingCovers ==
  ASSUME StoreIInv, NoFault => WrittenOnce, late \in BOOLEAN, reader \in Reader,
         ServerStep, Stays'
  PROVE  Stays /\ Covers(Matching(Query), Matching(Query)')
<1>1. /\ [StoreNext]_storeVars /\ reader'.walk = reader.walk
      /\ Query' = Query /\ (NoFault' => NoFault)
  BY ServerSteps, ServerReader
<1>2. Stays
  BY <1>1 DEF Stays, Transforms, TransformsToInputQuery, TransformsToQuery,
              TransformsToNoticeQuery, TransformsToReportQuery
<1>3. StoreIInv'
  BY <1>1, StoreNextKeeps
<1>4. /\ StoredFit /\ StoredFit'
  BY <1>3, StoreParts, StorePartsPrime
<1>5. /\ vouchers \subseteq OutputRow /\ vouchers' \subseteq OutputRow
      /\ notices \subseteq OutputRow /\ notices' \subseteq OutputRow
      /\ \A r, s \in vouchers' : SameKey(r, s) => r = s
      /\ \A r, s \in notices' : SameKey(r, s) => r = s
      /\ \A r \in vouchers : \E s \in vouchers' : SameKey(r, s)
      /\ \A r \in notices : \E s \in notices' : SameKey(r, s)
  BY <1>1, <1>4, OutputsKept DEF StoredFit, StoredIndicesGapless, GaplessTable
<1>6. CASE Query.table = "inputs"
  <2> DEFINE q == Query.filter
  <2>1. /\ Matching(Query) = {row \in InputTable : \A k \in DOMAIN q : Holds(row, q[k])}
        /\ Matching(Query)' = {row \in InputTable' : \A k \in DOMAIN q : Holds(row, q[k])}
    BY <1>1, <1>2, <1>6, MatchingIs, MatchingIsPrime DEF AllHold
  <2>2. /\ \A k \in DOMAIN q : q[k].field \in Fields("inputs")
        /\ \A k \in DOMAIN q : q[k].field = "Status" => q[k].ne = "unprocessed"
    BY <1>2, <1>6, MatchingIs DEF Stays
  <2>3. /\ \A i \in InputIndex : inputs[i] # "absent" => inputs'[i] # "absent"
        /\ \A i \in InputIndex : Decided(i) => Decided(i)'
    BY <1>1, InputsStay
  <2>4. \A i \in InputIndex : Decided(i) <=> inputs[i] \notin {"absent", "unprocessed"}
    BY <1>4 DEF StoredFit, Decided, Status, Verdict
  <2>5. \A i \in InputIndex :
          inputs[i] \notin {"absent", "unprocessed"} => inputs'[i] # "unprocessed"
    BY <2>3, <2>4 DEF Decided, Verdict
  <2> HIDE DEF q
  <2>6. Covers({row \in InputTableOf(inputs) : \A k \in DOMAIN q : Holds(row, q[k])},
               {row \in InputTableOf(inputs') : \A k \in DOMAIN q : Holds(row, q[k])})
    BY <2>2, <2>3, <2>4, <2>5, InputsCover
  <2> QED  BY <1>2, <2>1, <2>6, TablesAre
<1>7. CASE Query.table = "vouchers"
  <2>1. /\ Matching(Query) = {row \in VoucherTable : AllHold(row)}
        /\ Matching(Query)' = {row \in VoucherTable' : AllHold(row)}
        /\ \A k \in DOMAIN Query.filter : Query.filter[k].field \in {"Destination", "InputIndex"}
    BY <1>1, <1>2, <1>7, MatchingIs, MatchingIsPrime DEF Fields
  <2>2. /\ Covers(VoucherTable, VoucherTable')
        /\ vouchers \subseteq vouchers' =>
             \A s \in VoucherTable : \A t \in VoucherTable' : SamePlace(s, t) => s.value = t.value
    BY <1>5, OutputsCover, TablesAre
  <2>3. ASSUME NEW s \in VoucherTable, NEW t \in VoucherTable', SamePlace(s, t)
        PROVE  AllHold(s) <=> AllHold(t)
    <3>1. CASE \E k \in DOMAIN Query.filter : Query.filter[k].field = "Destination"
      <4>1. NoFault
        BY <1>2, <3>1 DEF Stays
      <4>2. s.value = t.value
        BY <1>1, <2>2, <2>3, <4>1, VouchersStay
      <4> QED  BY <2>3, <4>2, SamePlaceHolds
    <3>2. CASE \A k \in DOMAIN Query.filter : Query.filter[k].field = "InputIndex"
      BY <2>3, <3>2, SamePlaceHolds
    <3> QED  BY <2>1, <3>1, <3>2
  <2>4. \A s \in VoucherTable : \A t \in VoucherTable' :
          SamePlace(s, t) => (s \in Matching(Query) <=> t \in Matching(Query)')
    BY <2>1, <2>3
  <2>5. Matching(Query) \in SUBSET VoucherTable /\ Matching(Query)' \in SUBSET VoucherTable'
    BY <2>1
  <2> QED  BY <1>2, <2>2, <2>4, <2>5, CoversFiltered
<1>8. CASE Query.table = "notices"
  <2>1. /\ Matching(Query) = {row \in NoticeTable : AllHold(row)}
        /\ Matching(Query)' = {row \in NoticeTable' : AllHold(row)}
        /\ \A k \in DOMAIN Query.filter : Query.filter[k].field = "InputIndex"
    BY <1>1, <1>2, <1>8, MatchingIs, MatchingIsPrime DEF Fields
  <2>2. Covers(NoticeTable, NoticeTable')
    BY <1>5, OutputsCover, TablesAre
  <2>3. \A s, t : SamePlace(s, t) => (AllHold(s) <=> AllHold(t))
    BY <2>1, SamePlaceHolds
  <2>4. \A s \in NoticeTable : \A t \in NoticeTable' :
          SamePlace(s, t) => (s \in Matching(Query) <=> t \in Matching(Query)')
    BY <2>1, <2>3
  <2>5. Matching(Query) \in SUBSET NoticeTable /\ Matching(Query)' \in SUBSET NoticeTable'
    BY <2>1
  <2> QED  BY <1>2, <2>2, <2>4, <2>5, CoversFiltered
<1>9. CASE Query.table = "reports"
  <2>1. /\ Matching(Query) = {row \in ReportTable : AllHold(row)}
        /\ Matching(Query)' = {row \in ReportTable' : AllHold(row)}
        /\ \A k \in DOMAIN Query.filter : Query.filter[k].field \in {"OutputIndex", "InputIndex"}
    BY <1>1, <1>2, <1>9, MatchingIs, MatchingIsPrime DEF Fields
  <2>2. Covers(ReportTable, ReportTable')
    <3>1. CASE reports' = reports
      <4>1. ReportTable' = ReportTable
        BY <3>1, TablesAre
      <4> QED  BY <4>1 DEF Covers, SamePlace
    <3>2. ASSUME NEW i \in InputIndex, NEW row \in ReportRow,
                 reports' = [reports EXCEPT ![i] = Append(@, row)]
          PROVE  Covers(ReportTable, ReportTable')
      <4>1. reports \in [InputIndex -> Seq(ReportRow)]
        BY <1>4 DEF StoredFit
      <4>2. Covers(ReportTableOf(reports), ReportTableOf([reports EXCEPT ![i] = Append(@, row)]))
        BY <3>2, <4>1, ReportsCover
      <4> QED  BY <3>2, <4>2, TablesAre
    <3> QED  BY <1>1, <3>1, <3>2, ReportsAppended
  <2>3. \A s, t : SamePlace(s, t) => (AllHold(s) <=> AllHold(t))
    BY <2>1, SamePlaceHolds
  <2>4. \A s \in ReportTable : \A t \in ReportTable' :
          SamePlace(s, t) => (s \in Matching(Query) <=> t \in Matching(Query)')
    BY <2>1, <2>3
  <2>5. Matching(Query) \in SUBSET ReportTable /\ Matching(Query)' \in SUBSET ReportTable'
    BY <2>1
  <2> QED  BY <1>2, <2>2, <2>4, <2>5, CoversFiltered
<1> QED  BY <1>6, <1>7, <1>8, <1>9, QueryFits

LEMMA MatchingFollows ==
  ASSUME StoreIInv, JobComplete, late \in BOOLEAN, ~late => WorkInOrder,
         NoFault => JobAlone /\ WrittenOnce, reader \in Reader, ServerStep, Grows'
  PROVE  Grows /\ Follows(Matching(Query), Matching(Query)')
<1>1. /\ [StoreNext]_storeVars /\ reader'.walk = reader.walk
      /\ Query' = Query /\ (NoFault' => NoFault /\ faults' = faults)
      /\ ~late' /\ ~late /\ ~ArrivesLate /\ WorkInOrder
  BY ServerSteps, ServerReader DEF Grows
<1>2. Stays /\ Stays'
  BY MatchingCovers DEF Grows
<1>3. Grows
  BY <1>1, <1>2 DEF Grows
<1>4. StoreIInv' /\ StoredFit /\ StoredFit'
  <2>1. StoreIInv'
    BY <1>1, StoreNextKeeps
  <2> QED  BY <2>1, StoreParts, StorePartsPrime
<1>5. /\ vouchers \subseteq OutputRow /\ vouchers' \subseteq OutputRow
      /\ notices \subseteq OutputRow /\ notices' \subseteq OutputRow
      /\ \A r, s \in vouchers' : SameKey(r, s) => r = s
      /\ \A r, s \in notices' : SameKey(r, s) => r = s
      /\ GrowsAtEnd(vouchers, vouchers') /\ GrowsAtEnd(notices, notices')
  BY <1>1, <1>4, OutputsGrow DEF StoredFit, StoredIndicesGapless, GaplessTable
<1>6. CASE Query.table = "inputs"
  <2> DEFINE q == Query.filter
  <2>1. /\ Matching(Query) = {row \in InputTable : \A k \in DOMAIN q : Holds(row, q[k])}
        /\ Matching(Query)' = {row \in InputTable' : \A k \in DOMAIN q : Holds(row, q[k])}
    BY <1>1, <1>2, <1>6, MatchingIs, MatchingIsPrime DEF AllHold
  <2>2. /\ \A k \in DOMAIN q : q[k].field \in Fields("inputs")
        /\ \A k \in DOMAIN q : q[k].field = "Status" => q[k].ne = "unprocessed"
    BY <1>2, <1>6, MatchingIs DEF Stays
  <2>3. /\ \A i \in InputIndex : inputs[i] # "absent" => inputs'[i] # "absent"
        /\ \A i \in InputIndex : Decided(i) => Decided(i)'
        /\ \A i, j \in InputIndex :
             inputs[i] = "absent" /\ inputs'[i] # "absent" /\ inputs[j] # "absent" => j < i
        /\ \A i, j \in InputIndex :
             inputs[i] = "unprocessed" /\ inputs'[i] # "unprocessed" /\ Decided(j) => j < i
    BY <1>1, InputsStay, InputsGrow
  <2>4. \A i \in InputIndex : Decided(i) <=> inputs[i] \notin {"absent", "unprocessed"}
    BY <1>4 DEF StoredFit, Decided, Status, Verdict
  <2>5. \A i \in InputIndex :
          inputs[i] \notin {"absent", "unprocessed"} => inputs'[i] # "unprocessed"
    BY <2>3, <2>4 DEF Decided, Verdict
  <2> HIDE DEF q
  <2>6. Follows({row \in InputTableOf(inputs) : \A k \in DOMAIN q : Holds(row, q[k])},
                {row \in InputTableOf(inputs') : \A k \in DOMAIN q : Holds(row, q[k])})
    BY <2>2, <2>3, <2>4, <2>5, InputsFollow
  <2> QED  BY <1>3, <2>1, <2>6, TablesAre
<1>7. CASE Query.table = "vouchers"
  <2>1. /\ Matching(Query) = {row \in VoucherTable : AllHold(row)}
        /\ Matching(Query)' = {row \in VoucherTable' : AllHold(row)}
        /\ \A k \in DOMAIN Query.filter : Query.filter[k].field \in {"Destination", "InputIndex"}
    BY <1>1, <1>2, <1>7, MatchingIs, MatchingIsPrime DEF Fields
  <2>2. /\ Follows(VoucherTable, VoucherTable')
        /\ vouchers \subseteq vouchers' =>
             \A s \in VoucherTable : \A t \in VoucherTable' : SamePlace(s, t) => s.value = t.value
    BY <1>5, OutputsCover, OutputsFollow, TablesAre DEF GrowsAtEnd
  <2>3. ASSUME NEW s \in VoucherTable, NEW t \in VoucherTable', SamePlace(s, t)
        PROVE  AllHold(s) <=> AllHold(t)
    <3>1. CASE \E k \in DOMAIN Query.filter : Query.filter[k].field = "Destination"
      <4>1. NoFault
        BY <1>2, <3>1 DEF Stays
      <4>2. s.value = t.value
        BY <1>1, <2>2, <2>3, <4>1, VouchersStay
      <4> QED  BY <2>3, <4>2, SamePlaceHolds
    <3>2. CASE \A k \in DOMAIN Query.filter : Query.filter[k].field = "InputIndex"
      BY <2>3, <3>2, SamePlaceHolds
    <3> QED  BY <2>1, <3>1, <3>2
  <2>4. \A s \in VoucherTable : \A t \in VoucherTable' :
          SamePlace(s, t) => (s \in Matching(Query) <=> t \in Matching(Query)')
    BY <2>1, <2>3
  <2>5. Matching(Query) \in SUBSET VoucherTable /\ Matching(Query)' \in SUBSET VoucherTable'
    BY <2>1
  <2> QED  BY <1>3, <2>2, <2>4, <2>5, FollowsFiltered
<1>8. CASE Query.table = "notices"
  <2>1. /\ Matching(Query) = {row \in NoticeTable : AllHold(row)}
        /\ Matching(Query)' = {row \in NoticeTable' : AllHold(row)}
        /\ \A k \in DOMAIN Query.filter : Query.filter[k].field = "InputIndex"
    BY <1>1, <1>2, <1>8, MatchingIs, MatchingIsPrime DEF Fields
  <2>2. Follows(NoticeTable, NoticeTable')
    BY <1>5, OutputsFollow, TablesAre
  <2>3. \A s, t : SamePlace(s, t) => (AllHold(s) <=> AllHold(t))
    BY <2>1, SamePlaceHolds
  <2>4. \A s \in NoticeTable : \A t \in NoticeTable' :
          SamePlace(s, t) => (s \in Matching(Query) <=> t \in Matching(Query)')
    BY <2>1, <2>3
  <2>5. Matching(Query) \in SUBSET NoticeTable /\ Matching(Query)' \in SUBSET NoticeTable'
    BY <2>1
  <2> QED  BY <1>3, <2>2, <2>4, <2>5, FollowsFiltered
<1>9. CASE Query.table = "reports"
  <2>1. /\ Matching(Query) = {row \in ReportTable : AllHold(row)}
        /\ Matching(Query)' = {row \in ReportTable' : AllHold(row)}
        /\ \A k \in DOMAIN Query.filter : Query.filter[k].field \in {"OutputIndex", "InputIndex"}
        /\ NoFault
    BY <1>1, <1>2, <1>3, <1>9, MatchingIs, MatchingIsPrime DEF Fields, Grows
  <2>2. Follows(ReportTable, ReportTable')
    <3>1. CASE reports' = reports
      <4>1. ReportTable' = ReportTable
        BY <3>1, TablesAre
      <4> QED  BY <4>1 DEF Follows, Covers, SamePlace
    <3>2. ASSUME NEW i \in InputIndex, NEW row \in ReportRow,
                 reports' = [reports EXCEPT ![i] = Append(@, row)],
                 row.output = Len(reports[i]),
                 \A j \in InputIndex : reports[j] # <<>> => j <= i
          PROVE  Follows(ReportTable, ReportTable')
      <4>1. \A k \in DOMAIN reports[i] : reports[i][k].output = k - 1
        BY <2>1 DEF WrittenOnce
      <4>2. reports \in [InputIndex -> Seq(ReportRow)]
        BY <1>4 DEF StoredFit
      <4>3. Follows(ReportTableOf(reports), ReportTableOf([reports EXCEPT ![i] = Append(@, row)]))
        BY <3>2, <4>1, <4>2, ReportsFollow
      <4> QED  BY <3>2, <4>3, TablesAre
    <3> QED  BY <1>1, <2>1, <3>1, <3>2, ReportsGrow DEF NoFault
  <2>3. \A s, t : SamePlace(s, t) => (AllHold(s) <=> AllHold(t))
    BY <2>1, SamePlaceHolds
  <2>4. \A s \in ReportTable : \A t \in ReportTable' :
          SamePlace(s, t) => (s \in Matching(Query) <=> t \in Matching(Query)')
    BY <2>1, <2>3
  <2>5. Matching(Query) \in SUBSET ReportTable /\ Matching(Query)' \in SUBSET ReportTable'
    BY <2>1
  <2> QED  BY <1>3, <2>2, <2>4, <2>5, FollowsFiltered
<1> QED  BY <1>6, <1>7, <1>8, <1>9, QueryFits

-----------------------------------------------------------------------------
(* A step of the server: what the invariant says of the tables and of the  *)
(* job.                                                                    *)

LEMMA WorkStaysInOrder ==
  ASSUME StoreIInv, WorkInOrder, [StoreNext]_storeVars, ~ArrivesLate
  PROVE  WorkInOrder'
<1>1. /\ inputs \in [InputIndex -> {"absent"} \cup Status]
      /\ vouchers \subseteq OutputRow /\ notices \subseteq OutputRow
      /\ reports \in [InputIndex -> Seq(ReportRow)]
      /\ state.mode = "advance" => state.input \in InputIndex
  BY StoreParts DEF StoredFit, JobFits
<1>2. /\ \A i \in InputIndex : inputs[i] # "absent" => inputs'[i] # "absent"
      /\ \A i, j \in InputIndex :
           inputs[i] = "absent" /\ inputs'[i] # "absent" /\ inputs[j] # "absent" => j < i
  BY InputsStay, InputsGrow
<1>3. ASSUME NEW i \in InputIndex, Served(i)
      PROVE  Served(i)'
  <2>1. inputs'[i] # "absent"
    BY <1>2, <1>3 DEF Served
  <2>2. ASSUME NEW j \in InputIndex, inputs'[j] = "unprocessed"
        PROVE  i <= j
    <3>1. CASE inputs[j] = "unprocessed"
      BY <1>3, <3>1 DEF Served
    <3>2. CASE inputs[j] = "absent"
      <4>1. i < j
        BY <1>2, <1>3, <2>2, <3>2 DEF Served
      <4> QED  BY <4>1, ModelAssumption
    <3>3. inputs[j] \notin Verdict
      BY <2>2, InputsStay DEF Decided, Verdict
    <3> QED  BY <1>1, <3>1, <3>2, <3>3 DEF Status
  <2> QED  BY <2>1, <2>2 DEF Served
<1>4. \A i \in InputIndex : Begun(i)' => Begun(i) \/ (state.mode = "advance" /\ i = state.input)
  <2>1. CASE WriteNext
    <3>1. ASSUME NEW i \in InputIndex, i # state.input
          PROVE  Begun(i)' <=> Begun(i)
      <4>1. /\ RowsOf(vouchers', i) = RowsOf(vouchers, i)
            /\ RowsOf(notices', i) = RowsOf(notices, i)
            /\ reports'[i] = reports[i] /\ inputs'[i] = inputs[i]
        BY <2>1, <3>1, OwnRows
      <4>2. /\ Begun(i) <=> \/ inputs[i] \in Verdict \/ reports[i] # <<>>
                            \/ RowsOf(vouchers, i) # {} \/ RowsOf(notices, i) # {}
            /\ Begun(i)' <=> \/ inputs'[i] \in Verdict \/ reports'[i] # <<>>
                             \/ RowsOf(vouchers', i) # {} \/ RowsOf(notices', i) # {}
        BY DEF Begun, Decided, RowsOf
      <4> QED  BY <4>1, <4>2
    <3>2. state.mode = "advance"
      BY <2>1, WriteContext
    <3> QED  BY <3>1, <3>2
  <2>2. CASE \E i \in InputIndex : AddAdvanceInput(i)
    <3>1. UNCHANGED <<vouchers, notices, reports>>
          /\ \A i \in InputIndex : inputs'[i] \in Verdict => inputs[i] \in Verdict
      BY <1>1, <2>2 DEF AddAdvanceInput, Verdict
    <3> QED  BY <3>1 DEF Begun, Decided
  <2>3. CASE UNCHANGED tables
    BY <2>3 DEF tables, Begun, Decided
  <2> QED  BY <2>1, <2>2, <2>3, OtherSteps
<1>5. \A i \in InputIndex : Begun(i)' => Served(i)'
  BY <1>1, <1>3, <1>4 DEF WorkInOrder
<1>6. \/ state'.mode = state.mode /\ state'.input = state.input
      \/ state'.mode # "advance"
      \/ IsNext(state', inputs', inspects')
  <2>1. OneWrite => \/ state'.mode = state.mode /\ state'.input = state.input
                    \/ state'.mode # "advance"
                    \/ IsNext(state', inputs', inspects')
    <3>1. CASE \E p \in Payload : AddOutput(p)
      BY <3>1, AddOutputState, StoreParts
    <3>2. CASE RegisterException
      BY <3>2 DEF RegisterException, RollupsStateIdle, Working
    <3> QED  BY <3>1, <3>2 DEF OneWrite, AddAdvanceInput, AddInspectInput, FinishAndGetNext
  <2>2. (\/ UNCHANGED storeVars \/ StartException \/ WriteNext \/ DbError \/ InspectDbError
         \/ \E accepted \in BOOLEAN : StartFinish(accepted)) => state' = state
    BY DEF storeVars, vars, StartException, StartFinish, Start, WriteNext, DbError,
           InspectDbError
  <2>3. ExceptionDone \/ Stop \/ Crash => state'.mode # "advance"
    BY DEF ExceptionDone, Stop, Crash, Restart, RollupsStateIdle, Working
  <2>4. FinishDone => IsNext(state', inputs', inspects')
    BY DEF FinishDone, tables
  <2> QED  BY <2>1, <2>2, <2>3, <2>4 DEF StoreNext
<1>7. ASSUME state'.mode = "advance"
      PROVE  Served(state.input)' /\ \A i \in InputIndex : Begun(i)' => i <= state'.input
  <2>1. CASE state'.mode = state.mode /\ state'.input = state.input
    <3>1. PICK n \in InputIndex : n = state.input /\ Served(n)
      BY <1>1, <1>7, <2>1 DEF WorkInOrder
    <3>2. Served(n)'
      BY <1>3, <3>1
    <3>3. \A i \in InputIndex : Begun(i)' => i <= n
      BY <1>4, <1>7, <2>1, <3>1, ModelAssumption DEF WorkInOrder
    <3>4. state'.input = n
      BY <2>1, <3>1
    <3> QED  BY <3>2, <3>3, <3>4 DEF Served
  <2>2. CASE IsNext(state', inputs', inspects')
    <3>1. PICK n \in InputIndex :
            /\ state' = RollupsStateAdvance(n) /\ inputs'[n] = "unprocessed"
            /\ \A j \in InputIndex : inputs'[j] = "unprocessed" => n <= j
      BY <1>7, <2>2 DEF IsNext, IsLeast, RollupsStateAdvance, RollupsStateInspect,
                        RollupsStateIdle, Working
    <3>2. state'.input = n
      BY <3>1 DEF RollupsStateAdvance, Working
    <3>3. \A i \in InputIndex : Begun(i)' => i <= n
      BY <1>5, <3>1 DEF Served
    <3> QED  BY <3>1, <3>2, <3>3 DEF Served
  <2> QED  BY <1>6, <1>7, <2>1, <2>2
<1> QED  BY <1>5, <1>7 DEF WorkInOrder

(* The writes of a job are written once when nothing is stored of its      *)
(* input.                                                                  *)
LEMMA StartsWrittenOnce ==
  ASSUME StoreIInv, faults.dberror = 0, JobAlone, WrittenOnce,
         (\E accepted \in BOOLEAN : StartFinish(accepted)) \/ StartException
  PROVE  WrittenOnce'
<1>1. PICK kind \in {"finish", "exception"}, status \in Verdict,
           w \in {ExceptionWrites} \cup {FinishWrites(s) : s \in {"accepted", "rejected"}} :
        Start(kind, status, w)
  <2>1. ASSUME NEW accepted \in BOOLEAN, StartFinish(accepted)
        PROVE  \E s \in {"accepted", "rejected"} : Start("finish", s, FinishWrites(s))
    BY <2>1 DEF StartFinish
  <2>2. StartException => Start("exception", "exception", ExceptionWrites)
    BY DEF StartException
  <2> QED  BY <2>1, <2>2 DEF Verdict
<1>2. /\ job' = [kind |-> kind, status |-> status, writes |-> w] /\ UNCHANGED vars
      /\ StateTyped /\ reports' = reports
      /\ ~Decided(state.input) /\ job = NoJob
  <2>1. /\ job' = [kind |-> kind, status |-> status, writes |-> w] /\ UNCHANGED vars
        /\ StateTyped /\ reports' = reports
    BY <1>1, StartAlone
  <2>2. job = NoJob /\ state.mode = "advance"
    BY <1>1 DEF Start
  <2>3. ~Decided(state.input)
    BY <2>2, AloneContext DEF Decided, Verdict
  <2> QED  BY <2>1, <2>2, <2>3
<1>3. \A r \in vouchers : r.input # state.input
  <2>1. RowsOf(vouchers, state.input) = {}
    BY <1>2 DEF JobAlone, UndecidedRows, InJob, StateTyped
  <2> QED  BY <2>1 DEF RowsOf
<1>4. \A k \in DOMAIN w : w[k].table = "vouchers" =>
        w[k].row.input = state.input /\ w[k].row.output = k - 1 /\ k \in Nat
  <2>1. ASSUME NEW s \in {"accepted", "rejected"}, w = FinishWrites(s)
        PROVE  \A k \in DOMAIN w : w[k].table = "vouchers" =>
                 w[k].row.input = state.input /\ w[k].row.output = k - 1 /\ k \in Nat
    <3> DEFINE n == Len(state.reports)
               v == FinishWrites(s)
    <3>1. PICK outputs \in Seq(Write) :
            /\ v \in Seq(Write)
            /\ Len(outputs) \in Nat /\ n \in Nat
            /\ Len(v) = Len(outputs) + n + 1
            /\ \A k \in 1 .. Len(outputs) : v[k] = outputs[k]
            /\ \A k \in 1 .. n : v[Len(outputs) + k] = ReportWrites[k]
            /\ v[Len(outputs) + n + 1] = [table |-> "inputs", row |-> s]
            /\ outputs = IF s = "accepted" THEN VoucherWrites \o NoticeWrites ELSE <<>>
      BY <1>2, FinishWritesShape
    <3>2. /\ DOMAIN v = 1 .. Len(v)
          /\ \A k \in 1 .. n : ReportWrites[k].table = "reports"
          /\ s # "accepted" => Len(outputs) = 0
      BY <1>2, <3>1, WritesShape, LenProperties, EmptySeq
    <3>3. /\ VoucherWrites \in Seq(Write) /\ NoticeWrites \in Seq(Write)
          /\ Len(VoucherWrites) \in Nat /\ Len(NoticeWrites) \in Nat
          /\ Len(VoucherWrites \o NoticeWrites) = Len(VoucherWrites) + Len(NoticeWrites)
          /\ \A k \in 1 .. Len(VoucherWrites) :
               /\ (VoucherWrites \o NoticeWrites)[k] = VoucherWrites[k]
               /\ VoucherWrites[k].row.input = state.input
               /\ VoucherWrites[k].row.output = k - 1
          /\ \A k \in 1 .. Len(NoticeWrites) :
               /\ (VoucherWrites \o NoticeWrites)[Len(VoucherWrites) + k] = NoticeWrites[k]
               /\ NoticeWrites[k].table = "notices"
      <4>1. StateTyped
        BY <1>2
      <4>2. /\ VoucherWrites \in Seq(Write)
            /\ NoticeWrites \in Seq(Write)
        BY <4>1, WritesShape
      <4>3. /\ Len(VoucherWrites) = Len(state.vouchers) /\ Len(NoticeWrites) = Len(state.notices)
            /\ \A k \in 1 .. Len(state.vouchers) :
                 /\ VoucherWrites[k].row.input = state.input
                 /\ VoucherWrites[k].row.output = k - 1
            /\ \A k \in 1 .. Len(state.notices) : NoticeWrites[k].table = "notices"
        BY <4>1, WritesShape
      <4>4. /\ Len(VoucherWrites) \in Nat /\ Len(NoticeWrites) \in Nat
            /\ Len(VoucherWrites \o NoticeWrites) = Len(VoucherWrites) + Len(NoticeWrites)
            /\ \A k \in 1 .. Len(VoucherWrites) :
                 (VoucherWrites \o NoticeWrites)[k] = VoucherWrites[k]
            /\ \A k \in 1 .. Len(NoticeWrites) :
                 (VoucherWrites \o NoticeWrites)[Len(VoucherWrites) + k] = NoticeWrites[k]
        BY <4>2, ConcatWrites
      <4> QED  BY <4>2, <4>3, <4>4
    <3> HIDE DEF n, v
    <3>4. ASSUME NEW k \in DOMAIN v, v[k].table = "vouchers"
          PROVE  v[k].row.input = state.input /\ v[k].row.output = k - 1 /\ k \in Nat
      <4>1. k \in 1 .. Len(outputs)
        <5>1. k # Len(outputs) + n + 1
          BY <3>1, <3>4
        <5>2. k - Len(outputs) \notin 1 .. n
          <6> SUFFICES ASSUME k - Len(outputs) \in 1 .. n PROVE FALSE
            OBVIOUS
          <6>1. v[Len(outputs) + (k - Len(outputs))] = ReportWrites[k - Len(outputs)]
            BY <3>1
          <6>2. Len(outputs) + (k - Len(outputs)) = k
            BY <3>1, <3>2
          <6> QED  BY <3>2, <3>4, <6>1, <6>2
        <5>3. k \in 1 .. (Len(outputs) + n + 1) /\ Len(outputs) \in Nat /\ n \in Nat
          BY <3>1, <3>2
        <5> QED  BY <5>1, <5>2, <5>3
      <4>2. s = "accepted" /\ outputs = VoucherWrites \o NoticeWrites /\ v[k] = outputs[k]
        BY <3>1, <3>2, <4>1
      <4>3. k \in 1 .. Len(VoucherWrites)
        <5> SUFFICES ASSUME k \notin 1 .. Len(VoucherWrites) PROVE FALSE
          OBVIOUS
        <5> DEFINE l == k - Len(VoucherWrites)
        <5>1. l \in 1 .. Len(NoticeWrites) /\ Len(VoucherWrites) + l = k
          BY <3>3, <4>1, <4>2
        <5> HIDE DEF l
        <5>2. outputs[k].table = "notices"
          BY <3>3, <4>2, <5>1
        <5> QED  BY <3>4, <4>2, <5>2
      <4> QED  BY <3>3, <4>2, <4>3
    <3> QED  BY <2>1, <3>4 DEF v
  <2>2. CASE w = ExceptionWrites
    <3> DEFINE t == ReportWrites
    <3>1. /\ w \in Seq(Write) /\ w # <<>> /\ Head(w) = [table |-> "inputs", row |-> "exception"]
          /\ Tail(w) = t
      BY <1>2, <2>2, ExceptionWritesShape
    <3>2. /\ Head(w) = w[1] /\ Len(w) \in Nat \ {0} /\ DOMAIN w = 1 .. Len(w)
          /\ Len(Tail(w)) = Len(w) - 1 /\ \A k \in 1 .. (Len(w) - 1) : Tail(w)[k] = w[k + 1]
      BY <3>1, TailShape
    <3>3. Len(t) = Len(state.reports) /\ \A k \in 1 .. Len(state.reports) : t[k].table = "reports"
      BY <1>2, WritesShape
    <3> HIDE DEF t
    <3>4. ASSUME NEW k \in DOMAIN w
          PROVE  w[k].table # "vouchers"
      <4>1. CASE k = 1
        BY <3>1, <3>2, <4>1
      <4>2. CASE k # 1
        <5> DEFINE l == k - 1
        <5>1. l \in 1 .. (Len(w) - 1) /\ l + 1 = k /\ l \in 1 .. Len(t)
          BY <3>1, <3>2, <4>2
        <5> HIDE DEF l
        <5>2. w[k] = t[l]
          BY <3>1, <3>2, <5>1
        <5> QED  BY <3>3, <5>1, <5>2
      <4> QED  BY <4>1, <4>2
    <3> QED  BY <3>4
  <2> QED  BY <1>1, <2>1, <2>2
<1>5. vouchers' = vouchers /\ job'.writes = w
  BY <1>2 DEF vars
<1>6. \A k \in DOMAIN w : w[k].table = "vouchers" =>
        /\ \A r \in vouchers : ~SameKey(r, w[k].row)
        /\ \A l \in DOMAIN w : w[l].table = "vouchers" /\ SameKey(w[k].row, w[l].row) => l = k
  BY <1>3, <1>4 DEF SameKey
<1>7. \A i \in InputIndex : \A k \in DOMAIN reports'[i] : reports'[i][k].output = k - 1
  BY <1>2 DEF WrittenOnce
<1> QED  BY <1>5, <1>6, <1>7 DEF WrittenOnce

LEMMA WrittenOnceKeeps ==
  ASSUME StoreIInv, JobComplete, faults.dberror = 0, JobAlone, WrittenOnce,
         [StoreNext]_storeVars
  PROVE  WrittenOnce'
<1>1. CASE (\E accepted \in BOOLEAN : StartFinish(accepted)) \/ StartException
  BY <1>1, StartsWrittenOnce
<1>2. CASE WriteNext
  <2> DEFINE w == job.writes
             h == Head(w)
             t == Tail(w)
  <2>1. /\ w \in Seq(Write) /\ w # <<>> /\ job'.writes = t
        /\ vouchers' = IF h.table = "vouchers" THEN Upsert(vouchers, {h.row}) ELSE vouchers
    BY <1>2, WriteContext
  <2>2. /\ h = w[1] /\ Len(w) \in Nat \ {0} /\ DOMAIN w = 1 .. Len(w)
        /\ DOMAIN t = 1 .. (Len(w) - 1) /\ \A k \in 1 .. (Len(w) - 1) : t[k] = w[k + 1]
    BY <2>1, TailShape
  <2>3. \A k \in DOMAIN w : w[k].table = "vouchers" =>
          /\ \A r \in vouchers : ~SameKey(r, w[k].row)
          /\ \A l \in DOMAIN w : w[l].table = "vouchers" /\ SameKey(w[k].row, w[l].row) => l = k
    BY DEF WrittenOnce
  <2>4. /\ reports \in [InputIndex -> Seq(ReportRow)] /\ state.input \in InputIndex
        /\ \A i \in InputIndex : \A k \in DOMAIN reports[i] : reports[i][k].output = k - 1
    BY <1>2, WriteContext, StoreParts DEF StoredFit, StateTyped, WrittenOnce
  <2>5. reports' = IF h.table = "reports"
                   THEN [reports EXCEPT ![state.input] = Append(@, h.row)] ELSE reports
    BY <1>2 DEF WriteNext, Apply
  <2>6. h.table = "reports" => h.row \in ReportRow /\ h.row.output = Len(reports[state.input])
    <3>1. h \in Write
      BY <2>1, <2>2, ElementOfSeq
    <3> QED  BY <1>2, <3>1, ReportNumbered DEF Write
  <2> HIDE DEF w, h, t
  <2>7. ASSUME NEW k \in DOMAIN t, t[k].table = "vouchers"
        PROVE  /\ \A r \in vouchers' : ~SameKey(r, t[k].row)
               /\ \A l \in DOMAIN t : t[l].table = "vouchers" /\ SameKey(t[k].row, t[l].row) => l = k
    <3>1. k + 1 \in DOMAIN w /\ t[k] = w[k + 1] /\ 1 \in DOMAIN w /\ k + 1 # 1
      BY <2>2
    <3>2. \A r \in vouchers : ~SameKey(r, t[k].row)
      BY <2>3, <2>7, <3>1
    <3>3. h.table = "vouchers" => ~SameKey(h.row, t[k].row)
      BY <2>2, <2>3, <2>7, <3>1 DEF SameKey
    <3>4. \A r \in vouchers' : r \in vouchers \/ (h.table = "vouchers" /\ r = h.row)
      BY <2>1 DEF Upsert
    <3>5. ASSUME NEW l \in DOMAIN t, t[l].table = "vouchers", SameKey(t[k].row, t[l].row)
          PROVE  l = k
      <4>1. l + 1 \in DOMAIN w /\ t[l] = w[l + 1]
        BY <2>2
      <4>2. l + 1 = k + 1
        BY <2>3, <2>7, <3>1, <3>5, <4>1
      <4> QED  BY <2>2, <4>2
    <3> QED  BY <3>2, <3>3, <3>4, <3>5
  <2>8. ASSUME NEW i \in InputIndex, NEW k \in DOMAIN reports'[i]
        PROVE  reports'[i][k].output = k - 1
    <3>1. CASE h.table = "reports" /\ i = state.input
      <4> DEFINE list == reports[i]
      <4>1. list \in Seq(ReportRow) /\ reports'[i] = Append(list, h.row) /\ h.row \in ReportRow
            /\ h.row.output = Len(list)
        BY <2>4, <2>5, <2>6, <3>1
      <4>2. \A n \in DOMAIN list : list[n].output = n - 1
        BY <2>4
      <4> HIDE DEF list
      <4>3. /\ Append(list, h.row) \in Seq(ReportRow) /\ Len(Append(list, h.row)) = Len(list) + 1
            /\ \A n \in 1 .. Len(list) : Append(list, h.row)[n] = list[n]
            /\ Append(list, h.row)[Len(list) + 1] = h.row
            /\ Len(list) \in Nat /\ DOMAIN list = 1 .. Len(list)
        BY <4>1, AppendProperties, LenProperties
      <4>4. DOMAIN Append(list, h.row) = 1 .. (Len(list) + 1)
        BY <4>3, LenProperties
      <4>5. k \in 1 .. Len(list) \/ k = Len(list) + 1
        BY <4>1, <4>3, <4>4
      <4>6. CASE k \in 1 .. Len(list)
        BY <4>1, <4>2, <4>3, <4>6
      <4>7. CASE k = Len(list) + 1
        <5>1. reports'[i][k].output = Len(list) /\ k - 1 = Len(list)
          BY <4>1, <4>3, <4>7
        <5> QED  BY <5>1
      <4> QED  BY <4>5, <4>6, <4>7
    <3>2. CASE ~(h.table = "reports" /\ i = state.input)
      <4>1. reports'[i] = reports[i]
        BY <2>4, <2>5, <3>2
      <4> QED  BY <2>4, <4>1
    <3> QED  BY <3>1, <3>2
  <2> QED  BY <2>1, <2>7, <2>8 DEF WrittenOnce
<1>3. CASE job' = NoJob /\ UNCHANGED <<vouchers, reports>>
  <2>1. DOMAIN job'.writes = {}
    BY <1>3, EmptySeq, LenProperties DEF NoJob
  <2>2. \A i \in InputIndex : \A k \in DOMAIN reports'[i] : reports'[i][k].output = k - 1
    BY <1>3 DEF WrittenOnce
  <2> QED  BY <2>1, <2>2 DEF WrittenOnce
<1>4. CASE UNCHANGED storeVars
  BY <1>4 DEF WrittenOnce, storeVars, vars
<1>5. OneWrite => job' = NoJob /\ UNCHANGED <<vouchers, reports>>
  BY DEF OneWrite, AddAdvanceInput, AddInspectInput, AddOutput, AddVoucher, AddNotice, AddReport,
         FinishAndGetNext, IdleFinish, AdvanceFinish, InspectFinish, RegisterException,
         AdvanceException, tables
<1>6. FinishDone \/ ExceptionDone \/ Stop \/ Crash \/ DbError \/ InspectDbError =>
        job' = NoJob /\ UNCHANGED <<vouchers, reports>>
  BY DEF FinishDone, ExceptionDone, Stop, Crash, Restart, DbError, InspectDbError, vars, tables
<1> QED  BY <1>1, <1>2, <1>3, <1>4, <1>5, <1>6 DEF StoreNext

(* Written vouchers stay finitely many, and an executed voucher is stored. *)
LEMMA OutputsStayFinite ==
  ASSUME StoreIInv, IsFiniteSet(vouchers), IsFiniteSet(notices), [StoreNext]_storeVars
  PROVE  IsFiniteSet(vouchers') /\ IsFiniteSet(notices')
<1>1. ASSUME NEW table, IsFiniteSet(table), NEW row
      PROVE  IsFiniteSet(Upsert(table, {row}))
  <2>1. IsFiniteSet(table \cup {row})
    BY <1>1, FS_AddElement
  <2>2. Upsert(table, {row}) \in SUBSET (table \cup {row})
    BY DEF Upsert
  <2> QED  BY <2>1, <2>2, FS_Subset
<1>2. CASE WriteNext
  <2>1. /\ vouchers' = vouchers \/ vouchers' = Upsert(vouchers, {Head(job.writes).row})
        /\ notices' = notices \/ notices' = Upsert(notices, {Head(job.writes).row})
    BY <1>2, WriteContext
  <2> QED  BY <1>1, <2>1
<1> QED  BY <1>2, OtherSteps DEF AddAdvanceInput, tables

LEMMA ExecutedStays ==
  ASSUME StoreIInv, late \in BOOLEAN,
         executed \subseteq {Key(row) : row \in vouchers}, ServerStep
  PROVE  executed' \subseteq {Key(row) : row \in vouchers'}
<1>1. \A r \in vouchers : \E s \in vouchers' : Key(s) = Key(r)
  BY ServerSteps, OutputsKept DEF SameKey, Key
<1>2. CASE Serve \/ ServerStops
  <2>1. executed' \subseteq executed
    BY <1>2 DEF Serve, ServerStops
  <2> QED  BY <1>1, <2>1
<1>3. CASE UpdateExecuted
  <2>1. PICK row \in vouchers : executed' \subseteq executed \cup {Key(row)}
    BY <1>3 DEF UpdateExecuted
  <2> QED  BY <1>1, <2>1
<1> QED  BY <1>2, <1>3 DEF ServerStep

-----------------------------------------------------------------------------
(* The page that the client asks for.                                      *)

LEMMA AtMostOne ==
  ASSUME NEW S, NEW s \in Seq(S), Len(s) <= 1
  PROVE  s \in Optional(S) /\ (s # Nil => s[1] \in S)
<1>1. Len(s) \in Nat /\ s \in [1 .. Len(s) -> S]
  BY LenProperties
<1>2. CASE Len(s) = 0
  BY <1>2, EmptySeq DEF Optional, Nil
<1>3. CASE Len(s) = 1
  <2>1. s[1] \in S
    BY <1>1, <1>3
  <2>2. s = <<s[1]>>
    BY <1>3, <2>1
  <2> QED  BY <2>1, <2>2 DEF Optional
<1> QED  BY <1>1, <1>2, <1>3

LEMMA AskedFits ==
  ASSUME reader \in Reader, Len(reader.cursor) <= 1
  PROVE  /\ Query.size \in Optional(Int) /\ Asked(Query.size) \in Nat \ {0}
         /\ reader.cursor \in Optional(Cursor)
         /\ reader.cursor # Nil => reader.cursor[1].offset \in Nat
         /\ \A total : Query.direction = "forward" =>
              PageAsked(total) = ComputeForwardPage(Query.size, reader.cursor, total)
         /\ \A total : Query.direction = "backward" =>
              PageAsked(total) = ComputeBackwardPage(Query.size, reader.cursor, total)
<1>1. Query.size \in Optional(Nat \ {0}) /\ (Query.size # Nil => Query.size[1] \in Nat \ {0})
  BY QueryFits, AtMostOne
<1>2. Query.size \in Optional(Int)
  BY <1>1 DEF Optional
<1>3. Asked(Query.size) \in Nat \ {0}
  BY <1>1 DEF Asked, DefaultPaginationLimit
<1>4. /\ reader.cursor \in Optional([number : {TRUE}, offset : Nat])
      /\ reader.cursor # Nil => reader.cursor[1] \in [number : {TRUE}, offset : Nat]
  BY AtMostOne DEF Reader
<1>5. reader.cursor \in Optional(Cursor)
  <2>1. ASSUME NEW x \in [number : {TRUE}, offset : Nat]
        PROVE  x \in Cursor
    <3>1. x = [number |-> x.number, offset |-> x.offset]
      OBVIOUS
    <3>2. x.number = TRUE
      BY Zenon
    <3>3. x.offset \in Int
      OBVIOUS
    <3>4. [number |-> x.number, offset |-> x.offset] \in [number : BOOLEAN, offset : Int]
      BY <3>2, <3>3
    <3> QED  BY <3>1, <3>4 DEF Cursor
  <2>2. CASE reader.cursor = Nil
    BY <2>2 DEF Optional
  <2>3. CASE reader.cursor # Nil
    <3>1. PICK x \in [number : {TRUE}, offset : Nat] : reader.cursor = <<x>>
      BY <1>4, <2>3 DEF Optional
    <3> QED  BY <2>1, <3>1 DEF Optional
  <2> QED  BY <2>2, <2>3
<1>6. \A total : Query.direction = "forward" =>
        PageAsked(total) = ComputeForwardPage(Query.size, reader.cursor, total)
  BY DEF PageAsked, ComputePage, Nil
<1>7. \A total : Query.direction = "backward" =>
        PageAsked(total) = ComputeBackwardPage(Query.size, reader.cursor, total)
  BY QueryFits DEF PageAsked, ComputePage, Nil
<1> QED  BY <1>2, <1>3, <1>4, <1>5, <1>6, <1>7

(* Where the page begins and ends.                                         *)
LEMMA PageAskedFits ==
  ASSUME reader \in Reader, Len(reader.cursor) <= 1, NEW total \in Nat,
         PageAsked(total).error = "none"
  PROVE  LET page == PageAsked(total)
             end  == IF reader.cursor = Nil THEN total ELSE reader.cursor[1].offset
         IN  /\ page \in [error : {"none"}, offset : Nat, limit : Nat]
             /\ page.offset \in 0 .. total /\ page.limit \in 0 .. (total - page.offset)
             /\ Query.direction = "forward" =>
                  page.offset = IF reader.cursor = Nil THEN 0 ELSE reader.cursor[1].offset + 1
             /\ Query.direction = "backward" =>
                  /\ page.offset = Greater(0, end - Asked(Query.size))
                  /\ page.limit <= Asked(Query.size)
                  /\ page.offset + page.limit >= end
                  /\ Asked(Query.size) <= end => page.offset + page.limit = end
<1> DEFINE page == PageAsked(total)
           end  == IF reader.cursor = Nil THEN total ELSE reader.cursor[1].offset
           size == Asked(Query.size)
<1>1. size \in Nat \ {0} /\ Query.direction \in {"forward", "backward"} /\ end \in Nat
  BY AskedFits, QueryFits
<1>2. page.error = "none"
  OBVIOUS
<1>3. CASE Query.direction = "forward"
  <2>1. page = ComputeForwardPage(Query.size, reader.cursor, total)
    BY <1>3, AskedFits
  <2>2. page.offset \in 0 .. total /\ page.limit \in 0 .. (total - page.offset)
    BY <1>2, <2>1, AskedFits, ForwardWithinTotal
  <2>3. PICK offset, limit :
          /\ page = PageOf(offset, limit)
          /\ offset = IF reader.cursor = Nil THEN 0 ELSE reader.cursor[1].offset + 1
    BY <1>2, <2>1 DEF ComputeForwardPage, NoPage
  <2> HIDE DEF page
  <2>4. page \in [error : {"none"}, offset : Nat, limit : Nat]
    BY <2>2, <2>3 DEF PageOf
  <2> QED  BY <1>3, <2>2, <2>3, <2>4 DEF page, PageOf
<1>4. CASE Query.direction = "backward"
  <2>1. page = ComputeBackwardPage(Query.size, reader.cursor, total)
    BY <1>4, AskedFits
  <2>2. /\ page.offset \in 0 .. total /\ page.limit \in 0 .. (total - page.offset)
        /\ page.offset + page.limit >= end
        /\ size <= end => page.offset + page.limit = end
    BY <1>2, <2>1, AskedFits, BackwardWithinTotal
  <2>3. /\ page = PageOf(Greater(0, end - size), Lesser(size, total - Greater(0, end - size)))
    BY <1>2, <2>1 DEF ComputeBackwardPage, NoPage
  <2>4. page.offset = Greater(0, end - size) /\ page.limit <= size
    BY <1>1, <2>3 DEF PageOf, Lesser, Greater
  <2>5. page \in [error : {"none"}, offset : Nat, limit : Nat]
    <3> DEFINE o == Greater(0, end - size)
               l == Lesser(size, total - Greater(0, end - size))
    <3>1. page = PageOf(o, l)
      BY <2>3
    <3> HIDE DEF o, l, page
    <3> QED  BY <2>2, <3>1 DEF PageOf
  <2> QED  BY <1>4, <2>2, <2>4, <2>5
<1> QED  BY <1>1, <1>3, <1>4

-----------------------------------------------------------------------------
(* The two halves of the inductive invariant: of the server and its        *)
(* tables, and of the client.                                              *)

StoreSide ==
  /\ thisLife \subseteq InputIndex /\ late \in BOOLEAN
  /\ executed \subseteq {Key(row) : row \in vouchers}
  /\ executions \in 0 .. MaxExecutions
  /\ IsFiniteSet(vouchers) /\ IsFiniteSet(notices)
  /\ LateIsOfAnotherLife
  /\ ~late => WorkInOrder
  /\ NoFault => JobAlone /\ WrittenOnce

ReaderSide ==
  /\ reader \in Reader
  /\ reader.page.offset \in 0 .. reader.total
  /\ reader.page.limit \in 0 .. (reader.total - reader.page.offset)
  /\ ReaderFits
  /\ WalkIsPrefix
  /\ PageIsFull
  /\ BackwardWalkHasNoHole

LEMMA TwoSides == QueriesIInv <=> StoreTypeOK /\ StoreSide /\ ReaderSide
BY DEF QueriesIInv, QueriesTypeOK, StoreSide, ReaderSide

(* An input that comes below one that is stored comes in a later life.     *)
LEMMA LateStays ==
  ASSUME StoreIInv, thisLife \subseteq InputIndex, LateIsOfAnotherLife, ServerStep
  PROVE  thisLife' \subseteq InputIndex /\ LateIsOfAnotherLife'
<1>1. CASE Serve
  <2>1. /\ thisLife' = thisLife \cup {i \in InputIndex : Arrives(i)} /\ InBoxOrder
        /\ late' = (late \/ ArrivesLate)
    BY <1>1 DEF Serve
  <2>2. \A i \in InputIndex : inputs[i] # "absent" => inputs'[i] # "absent"
    <3>1. [StoreNext]_storeVars
      BY <1>1 DEF Serve, StoreNext
    <3> QED  BY <3>1, InputsStay
  <2>3. late' => \E j \in InputIndex : inputs[j] # "absent" /\ j \notin thisLife
    <3>1. CASE late
      BY <3>1 DEF LateIsOfAnotherLife
    <3>2. CASE ArrivesLate
      <4>1. PICK i, j \in InputIndex : Arrives(i) /\ inputs[j] # "absent" /\ i < j
        BY <3>2 DEF ArrivesLate
      <4>2. j \notin thisLife
        BY <2>1, <4>1, ModelAssumption DEF InBoxOrder
      <4> QED  BY <4>1, <4>2
    <3> QED  BY <2>1, <3>1, <3>2
  <2>4. late' => \E j \in InputIndex : inputs'[j] # "absent" /\ j \notin thisLife'
    BY <2>1, <2>2, <2>3 DEF Arrives
  <2> QED  BY <2>1, <2>4 DEF LateIsOfAnotherLife
<1>2. CASE ServerStops
  <2>1. thisLife' = {} /\ late' = late /\ inputs' = inputs
    BY <1>2 DEF ServerStops, Stop, Crash, Restart, tables
  <2> QED  BY <2>1 DEF LateIsOfAnotherLife
<1>3. CASE UpdateExecuted
  <2>1. thisLife' = thisLife /\ late' = late /\ inputs' = inputs
    BY <1>3 DEF UpdateExecuted, storeVars, vars
  <2> QED  BY <2>1 DEF LateIsOfAnotherLife
<1> QED  BY <1>1, <1>2, <1>3 DEF ServerStep

LEMMA QueriesSteps ==
  ASSUME StoreIInv, StoreSide, [QueriesNext]_queryVars
  PROVE  /\ [StoreNext]_storeVars /\ late' \in BOOLEAN
         /\ thisLife' \subseteq InputIndex /\ LateIsOfAnotherLife'
         /\ ~late' => ~late /\ ~ArrivesLate
         /\ NoFault' => NoFault /\ faults' = faults
         /\ executed' \subseteq {Key(row) : row \in vouchers'}
         /\ executions' \in 0 .. MaxExecutions
<1>1. CASE ServerStep
  <2>1. executed' \subseteq {Key(row) : row \in vouchers'}
    BY <1>1, ExecutedStays DEF StoreSide
  <2>2. executions' = executions \/ (executions < MaxExecutions /\ executions' = executions + 1)
    BY <1>1 DEF ServerStep, Serve, ServerStops, UpdateExecuted
  <2>3. executions' \in 0 .. MaxExecutions
    BY <2>2, QueriesAssumption DEF StoreSide
  <2> QED  BY <1>1, <2>1, <2>3, ServerSteps, LateStays DEF StoreSide
<1>2. CASE UNCHANGED <<storeVars, thisLife, late, executed, executions>>
  <2>1. inputs' = inputs /\ faults' = faults /\ vouchers' = vouchers
    BY <1>2 DEF storeVars, vars
  <2>2. ~ArrivesLate
    BY <2>1 DEF ArrivesLate, Arrives
  <2>3. LateIsOfAnotherLife'
    BY <1>2, <2>1 DEF StoreSide, LateIsOfAnotherLife
  <2>4. NoFault' => NoFault
    BY <2>1 DEF NoFault
  <2> QED  BY <1>2, <2>1, <2>2, <2>3, <2>4 DEF StoreSide
<1>3. ServerStep \/ UNCHANGED <<storeVars, thisLife, late, executed, executions>>
  BY DEF QueriesNext, ServerStep, CountRows, SelectRows, queryVars
<1> QED  BY <1>1, <1>2, <1>3

LEMMA StoreSideKeeps ==
  ASSUME StoreIInv, JobComplete, StoreSide, [QueriesNext]_queryVars
  PROVE  StoreIInv' /\ JobComplete' /\ StoreSide'
<1>1. /\ [StoreNext]_storeVars /\ late' \in BOOLEAN
      /\ thisLife' \subseteq InputIndex /\ LateIsOfAnotherLife'
      /\ ~late' => ~late /\ ~ArrivesLate
      /\ NoFault' => NoFault /\ faults' = faults
      /\ executed' \subseteq {Key(row) : row \in vouchers'}
      /\ executions' \in 0 .. MaxExecutions
  BY QueriesSteps
<1>2. StoreIInv' /\ JobComplete'
  BY <1>1, StoreNextKeeps, JobCompleteKeeps
<1>3. IsFiniteSet(vouchers') /\ IsFiniteSet(notices')
  BY <1>1, OutputsStayFinite DEF StoreSide
<1>4. ~late' => WorkInOrder'
  BY <1>1, WorkStaysInOrder DEF StoreSide
<1>5. NoFault' => JobAlone' /\ WrittenOnce'
  <2> SUFFICES ASSUME NoFault' PROVE JobAlone' /\ WrittenOnce'
    OBVIOUS
  <2>1. NoFault /\ faults.dberror = 0 /\ faults' = faults
    BY <1>1 DEF NoFault
  <2>2. JobAlone /\ WrittenOnce
    BY <2>1 DEF StoreSide
  <2> QED  BY <1>1, <2>1, <2>2, JobAloneKeeps, WrittenOnceKeeps
<1> QED  BY <1>1, <1>2, <1>3, <1>4, <1>5 DEF StoreSide

(* The rows that match, before and after a step of the server.             *)
LEMMA ServerRows ==
  ASSUME StoreIInv, JobComplete, StoreSide, StoreIInv', StoreSide', reader \in Reader, ServerStep
  PROVE  /\ Stays' => Stays /\ Covers(Matching(Query), Matching(Query)')
         /\ Grows' => Grows /\ Follows(Matching(Query), Matching(Query)')
         /\ Stays' => IsRows(Matching(Query)) /\ IsRows(Matching(Query)')
<1>1. Stays' => Stays /\ Covers(Matching(Query), Matching(Query)')
  BY MatchingCovers DEF StoreSide
<1>2. Grows' => Grows /\ Follows(Matching(Query), Matching(Query)')
  BY MatchingFollows DEF StoreSide
<1>3. IsRows(Matching(Query))
  BY MatchingRows DEF StoreSide
<1>4. ASSUME Stays'
      PROVE  IsRows(Matching(Query)')
  <2>1. reader'.walk = reader.walk
    BY ServerReader
  <2>2. IsRows(InputTable') /\ IsRows(VoucherTable') /\ IsRows(NoticeTable') /\ IsRows(ReportTable')
    BY TablesAreRowsPrime DEF StoreSide
  <2>3. PICK table \in {InputTable', VoucherTable', NoticeTable', ReportTable'} :
          Matching(Query)' = {row \in table : AllHold(row)}
    BY <1>4, <2>1, MatchingIsPrime, QueryFits
  <2> QED  BY <2>2, <2>3, SubsetIsRows
<1> QED  BY <1>1, <1>2, <1>3, <1>4

(* What the invariant says of the client after a step, in terms of the     *)
(* rows that match then.                                                   *)
LEMMA ReaderPrimed ==
  ASSUME NEW T, T = Matching(Query)',
         NEW stays \in BOOLEAN, stays <=> Stays', NEW grows \in BOOLEAN, grows <=> Grows',
         NEW r, r = reader', NEW q, q = Query',
         r \in Reader,
         r.page.offset \in 0 .. r.total, r.page.limit \in 0 .. (r.total - r.page.offset),
         Len(r.cursor) <= 1,
         r.pc = "counted" => /\ r.page = PageAsked(r.total)'
                             /\ q.direction = "backward" /\ r.cursor # Nil => r.cursor[1].offset > 0
                             /\ stays => r.total <= Cardinality(T),
         (q.direction = "forward" /\ grows) =>
           /\ r.cursor = IF r.seen = <<>> THEN Nil ELSE <<EncodeCursor(Len(r.seen) - 1)>>
           /\ Len(r.seen) <= Cardinality(T)
           /\ \A k \in DOMAIN r.seen : r.seen[k] = Key(RowAt(k - 1, T)),
         (q.direction = "backward" /\ grows) =>
           IF r.cursor = Nil THEN r.seen = <<>>
           ELSE /\ r.cursor[1].offset < r.began
                /\ r.began <= Cardinality(T)
                /\ r.cursor[1].offset = 0 \/ Asked(q.size) <= r.began
                /\ ToSet(r.seen) = KeysBetween(r.cursor[1].offset, r.began, T),
         (r.pc = "idle" /\ stays) => r.received = r.page.limit
  PROVE  ReaderSide'
<1>1. ReaderFits'
  BY DEF ReaderFits, Total
<1>2. WalkIsPrefix'
  BY DEF WalkIsPrefix, Total
<1>3. PageIsFull'
  BY DEF PageIsFull
<1>4. BackwardWalkHasNoHole'
  BY DEF BackwardWalkHasNoHole, KeysBetween
<1>5. Reader' = Reader
  BY DEF Reader
<1> QED  BY <1>1, <1>2, <1>3, <1>4, <1>5 DEF ReaderSide

LEMMA ServerKeepsReader ==
  ASSUME StoreIInv, JobComplete, StoreSide, StoreIInv', StoreSide', ReaderSide, ServerStep
  PROVE  ReaderSide'
<1> DEFINE S == Matching(Query)
           c == reader.cursor
<1>1. /\ reader \in Reader /\ reader' \in Reader /\ Query' = Query
      /\ \/ reader' = reader
         \/ /\ reader.pc = "counted" /\ reader'.pc = "idle"
            /\ reader'.page = PageOf(0, 0) /\ reader'.received = 0
      /\ reader'.cursor = c /\ reader'.total = reader.total
      /\ reader'.began = reader.began /\ reader'.seen = reader.seen
  BY ServerReader DEF ReaderSide, ServerStep
<1>2. PICK T, r, q : T = Matching(Query)' /\ r = reader' /\ q = Query'
  OBVIOUS
<1>3. PICK stays \in BOOLEAN, grows \in BOOLEAN : (stays <=> Stays') /\ (grows <=> Grows')
  BY DEF Stays, Grows
<1>4. /\ grows => Grows /\ stays /\ Follows(S, T)
      /\ stays => /\ Stays /\ IsRows(S) /\ IsRows(T)
                  /\ Cardinality(S) \in Nat /\ Cardinality(T) \in Nat
                  /\ Cardinality(S) <= Cardinality(T)
  <2>1. /\ grows => Grows /\ stays /\ Follows(S, T)
        /\ stays => Stays /\ Covers(S, T) /\ IsRows(S) /\ IsRows(T)
    <3>1. Grows' => Stays'
      BY DEF Grows
    <3> QED  BY <1>1, <1>2, <1>3, <3>1, ServerRows DEF ReaderSide
  <2> QED  BY <2>1, CoversTotal
<1> HIDE DEF S
<1>5. /\ reader'.page.offset \in 0 .. reader'.total
      /\ reader'.page.limit \in 0 .. (reader'.total - reader'.page.offset)
  BY <1>1 DEF ReaderSide, PageOf, Reader
<1>6. r.pc = "counted" =>
        /\ r.page = PageAsked(r.total)'
        /\ q.direction = "backward" /\ r.cursor # Nil => r.cursor[1].offset > 0
        /\ stays => r.total <= Cardinality(T)
  <2> SUFFICES ASSUME r.pc = "counted"
               PROVE  /\ r.page = PageAsked(r.total)'
                      /\ q.direction = "backward" /\ r.cursor # Nil =>
                           r.cursor[1].offset > 0
                      /\ stays => r.total <= Cardinality(T)
    OBVIOUS
  <2>1. r = reader
    BY <1>1, <1>2
  <2>2. PageAsked(r.total)' = PageAsked(reader.total)
    BY <1>1, <1>2, <2>1 DEF PageAsked
  <2>3. stays => reader.total <= Cardinality(S)
    BY <1>4, <2>1 DEF ReaderSide, ReaderFits, Total, S
  <2>4. reader.total \in Nat
    BY <1>1 DEF Reader
  <2>5. stays => reader.total <= Cardinality(T)
    BY <1>4, <2>3, <2>4
  <2> QED  BY <1>1, <1>2, <2>1, <2>2, <2>5 DEF ReaderSide, ReaderFits
<1>7. (q.direction = "forward" /\ grows) =>
        /\ r.cursor = IF r.seen = <<>> THEN Nil
                            ELSE <<EncodeCursor(Len(r.seen) - 1)>>
        /\ Len(r.seen) <= Cardinality(T)
        /\ \A k \in DOMAIN r.seen : r.seen[k] = Key(RowAt(k - 1, T))
  <2> SUFFICES ASSUME Query.direction = "forward", grows
               PROVE  /\ c = IF reader.seen = <<>> THEN Nil
                             ELSE <<EncodeCursor(Len(reader.seen) - 1)>>
                      /\ Len(reader.seen) <= Cardinality(T)
                      /\ \A k \in DOMAIN reader.seen : reader.seen[k] = Key(RowAt(k - 1, T))
    BY <1>1, <1>2
  <2>1. /\ c = IF reader.seen = <<>> THEN Nil ELSE <<EncodeCursor(Len(reader.seen) - 1)>>
        /\ Len(reader.seen) <= Cardinality(S)
        /\ \A k \in DOMAIN reader.seen : reader.seen[k] = Key(RowAt(k - 1, S))
    BY <1>4 DEF ReaderSide, ReaderFits, WalkIsPrefix, Total, S
  <2>2. Len(reader.seen) \in Nat /\ DOMAIN reader.seen = 1 .. Len(reader.seen)
    BY <1>1, LenProperties DEF Reader
  <2>3. ASSUME NEW k \in DOMAIN reader.seen
        PROVE  Key(RowAt(k - 1, T)) = Key(RowAt(k - 1, S))
    <3>1. k - 1 \in 0 .. (Cardinality(S) - 1)
      BY <1>4, <2>1, <2>2
    <3> QED  BY <1>4, <3>1, FollowsRowAt
  <2> QED  BY <1>4, <2>1, <2>2, <2>3
<1>8. (q.direction = "backward" /\ grows) =>
        IF r.cursor = Nil THEN r.seen = <<>>
        ELSE /\ r.cursor[1].offset < r.began
             /\ r.began <= Cardinality(T)
             /\ r.cursor[1].offset = 0 \/ Asked(q.size) <= r.began
             /\ ToSet(r.seen) = KeysBetween(r.cursor[1].offset, r.began, T)
  <2> SUFFICES ASSUME Query.direction = "backward", grows
               PROVE  IF c = Nil THEN reader.seen = <<>>
                      ELSE /\ c[1].offset < reader.began
                           /\ reader.began <= Cardinality(T)
                           /\ c[1].offset = 0 \/ Asked(Query.size) <= reader.began
                           /\ ToSet(reader.seen) = KeysBetween(c[1].offset, reader.began, T)
    BY <1>1, <1>2
  <2>1. CASE c = Nil
    BY <1>4, <2>1 DEF ReaderSide, ReaderFits
  <2>2. CASE c # Nil
    <3>1. /\ c[1].offset < reader.began /\ reader.began <= Cardinality(S)
          /\ c[1].offset = 0 \/ Asked(Query.size) <= reader.began
          /\ ToSet(reader.seen) = KeysBetween(c[1].offset, reader.began, S)
      BY <1>4, <2>2 DEF ReaderSide, ReaderFits, BackwardWalkHasNoHole, KeysBetween, Total, S
    <3>2. c[1].offset \in Nat /\ reader.began \in Nat
      BY <1>1, <2>2, AskedFits DEF ReaderSide, ReaderFits, Reader
    <3>3. KeysBetween(c[1].offset, reader.began, T) = KeysBetween(c[1].offset, reader.began, S)
      BY <1>4, <3>1, <3>2, FollowsKeys
    <3>4. reader.began <= Cardinality(T)
      BY <1>4, <3>1, <3>2
    <3> QED  BY <2>2, <3>1, <3>3, <3>4
  <2> QED  BY <2>1, <2>2
<1>9. (r.pc = "idle" /\ stays) => r.received = r.page.limit
  <2>1. CASE r = reader
    BY <1>2, <1>3, <1>4, <2>1 DEF ReaderSide, PageIsFull
  <2>2. CASE r.page = PageOf(0, 0) /\ r.received = 0
    BY <2>2 DEF PageOf
  <2> QED  BY <1>1, <1>2, <2>1, <2>2
<1>10. Len(r.cursor) <= 1
  BY <1>1, <1>2 DEF ReaderSide, ReaderFits
<1> QED  BY <1>1, <1>2, <1>3, <1>5, <1>6, <1>7, <1>8, <1>9, <1>10, ReaderPrimed

-----------------------------------------------------------------------------
(* The steps of the client: nothing is written, the same rows match.       *)

LEMMA ReadsOnly ==
  ASSUME UNCHANGED <<storeVars, late, executed>>, reader'.walk = reader.walk
  PROVE  /\ Query' = Query /\ Matching(Query)' = Matching(Query)
         /\ (Stays' <=> Stays) /\ (Grows' <=> Grows)
<1>1. /\ inputs' = inputs /\ vouchers' = vouchers /\ notices' = notices
      /\ reports' = reports /\ faults' = faults /\ executed' = executed
  BY DEF storeVars, vars
<1>2. Query' = Query
  BY DEF Query
<1>3. /\ InputTable' = InputTable /\ VoucherTable' = VoucherTable
      /\ NoticeTable' = NoticeTable /\ ReportTable' = ReportTable
  BY <1>1 DEF InputTable, VoucherTable, NoticeTable, ReportTable, Row
<1>4. Rows(Query.table)' = Rows(Query.table)
  BY <1>2, <1>3 DEF Rows
<1>5. \A row, c : Satisfies(row, c)' <=> Satisfies(row, c)
  BY <1>1 DEF Satisfies, Compares, Key
<1>6. \A row : (\A k \in DOMAIN Query.filter : Satisfies(row, Query.filter[k]))
                <=> \A k \in DOMAIN Query'.filter : Satisfies(row, Query.filter[k])'
  BY <1>2, <1>5
<1>7. Matching(Query)' = Matching(Query)
  BY <1>2, <1>4, <1>6 DEF Matching
<1>8. Stays' <=> Stays
  BY <1>1, <1>2 DEF Stays, NoFault, Transforms, TransformsToInputQuery, TransformsToQuery,
                    TransformsToNoticeQuery, TransformsToReportQuery
<1>9. Grows' <=> Grows
  BY <1>1, <1>2, <1>8 DEF Grows, NoFault
<1> QED  BY <1>2, <1>7, <1>8, <1>9

(* A step that leaves alone what the client has seen.                      *)
LEMMA CountKeepsReader ==
  ASSUME StoreIInv, StoreSide, ReaderSide, CountRows
  PROVE  ReaderSide'
<1> DEFINE page == PageAsked(Total)
<1>1. reader \in Reader /\ Len(reader.cursor) <= 1 /\ UNCHANGED <<storeVars, late, executed>>
  BY DEF ReaderSide, ReaderFits, CountRows
<1>2. Total \in Nat
  BY <1>1, MatchingRows DEF StoreSide
<1>3. \/ reader' = [reader EXCEPT !.pc = "failed"]
      \/ /\ page.error = "none"
         /\ reader' = [reader EXCEPT !.pc = "counted", !.total = Total, !.page = page]
  BY DEF CountRows
<1>4. page.error = "none" =>
        /\ page \in [error : {"none"}, offset : Nat, limit : Nat]
        /\ page.offset \in 0 .. Total /\ page.limit \in 0 .. (Total - page.offset)
  BY <1>1, <1>2, PageAskedFits
<1> HIDE DEF page
<1>5. /\ reader' \in Reader /\ reader'.walk = reader.walk /\ reader'.cursor = reader.cursor
      /\ reader'.began = reader.began /\ reader'.seen = reader.seen
      /\ \/ reader'.pc = "failed" /\ reader'.total = reader.total /\ reader'.page = reader.page
         \/ /\ reader'.pc = "counted" /\ reader'.total = Total /\ reader'.page = page
            /\ page.error = "none"
  <2>1. CASE reader' = [reader EXCEPT !.pc = "failed"]
    BY <1>1, <2>1 DEF Reader
  <2>2. CASE /\ page.error = "none"
             /\ reader' = [reader EXCEPT !.pc = "counted", !.total = Total, !.page = page]
    BY <1>1, <1>2, <1>4, <2>2 DEF Reader
  <2> QED  BY <1>3, <2>1, <2>2
<1>6. /\ Query' = Query /\ Matching(Query)' = Matching(Query)
      /\ (Stays' <=> Stays) /\ (Grows' <=> Grows)
  BY <1>1, <1>5, ReadsOnly
<1>7. PICK T, r, q : /\ T = Matching(Query)' /\ T = Matching(Query) /\ Cardinality(T) = Total
                    /\ r = reader' /\ q = Query'
  BY <1>6 DEF Total
<1>8. PICK stays \in BOOLEAN, grows \in BOOLEAN :
        /\ (stays <=> Stays') /\ (stays <=> Stays)
        /\ (grows <=> Grows') /\ (grows <=> Grows)
  BY <1>6 DEF Stays, Grows
<1>9. /\ r.page.offset \in 0 .. r.total
      /\ r.page.limit \in 0 .. (r.total - r.page.offset)
  BY <1>4, <1>5, <1>7 DEF ReaderSide
<1>10. r.pc = "counted" =>
        /\ r.page = PageAsked(r.total)'
        /\ q.direction = "backward" /\ r.cursor # Nil => r.cursor[1].offset > 0
        /\ stays => r.total <= Cardinality(T)
  <2> SUFFICES ASSUME r.pc = "counted"
               PROVE  /\ r.page = PageAsked(r.total)'
                      /\ q.direction = "backward" /\ r.cursor # Nil =>
                           r.cursor[1].offset > 0
                      /\ stays => r.total <= Cardinality(T)
    OBVIOUS
  <2>1. r.total = Total /\ r.page = page
    BY <1>5, <1>7
  <2>2. PageAsked(r.total)' = PageAsked(Total)
    BY <1>5, <1>6, <1>7, <2>1 DEF PageAsked
  <2>3. q.direction = "backward" /\ r.cursor # Nil => r.cursor[1].offset > 0
    BY <1>5, <1>6, <1>7 DEF CountRows, Wants
  <2> QED  BY <1>2, <1>7, <2>1, <2>2, <2>3 DEF page
<1>11. (q.direction = "forward" /\ grows) =>
        /\ r.cursor = IF r.seen = <<>> THEN Nil
                            ELSE <<EncodeCursor(Len(r.seen) - 1)>>
        /\ Len(r.seen) <= Cardinality(T)
        /\ \A k \in DOMAIN r.seen : r.seen[k] = Key(RowAt(k - 1, T))
  BY <1>5, <1>6, <1>7, <1>8 DEF ReaderSide, ReaderFits, WalkIsPrefix
<1>12. (q.direction = "backward" /\ grows) =>
        IF r.cursor = Nil THEN r.seen = <<>>
        ELSE /\ r.cursor[1].offset < r.began
             /\ r.began <= Cardinality(T)
             /\ r.cursor[1].offset = 0 \/ Asked(q.size) <= r.began
             /\ ToSet(r.seen) = KeysBetween(r.cursor[1].offset, r.began, T)
  BY <1>5, <1>6, <1>7, <1>8 DEF ReaderSide, ReaderFits, BackwardWalkHasNoHole, KeysBetween
<1>13. r.pc # "idle" /\ Len(r.cursor) <= 1
  BY <1>1, <1>5, <1>7
<1> QED  BY <1>5, <1>7, <1>8, <1>9, <1>10, <1>11, <1>12, <1>13, ReaderPrimed

(* The rows that a page is selected as.                                    *)
RowsFrom(from, upto, S) == [k \in 1 .. (upto - from) |-> Key(RowAt(from + k - 1, S))]

RowsFit(from, upto, S) ==
  LET rows == RowsFrom(from, upto, S)
  IN  /\ rows \in Seq(Nat \X Nat) /\ Len(rows) = upto - from /\ DOMAIN rows = 1 .. (upto - from)
      /\ rows = <<>> <=> from = upto
      /\ \A k \in DOMAIN rows : rows[k] = Key(RowAt(from + k - 1, S))
      /\ upto <= Cardinality(S) => ToSet(rows) = KeysBetween(from, upto, S)

LEMMA RowsSelected ==
  ASSUME NEW S, IsRows(S), NEW from \in Nat, NEW upto \in Nat, from <= upto,
         from < upto => upto <= Cardinality(S)
  PROVE  RowsFit(from, upto, S)
<1> DEFINE rows == RowsFrom(from, upto, S)
<1>1. upto - from \in Nat /\ Cardinality(S) \in Nat
  BY FS_CardinalityType DEF IsRows
<1>2. ASSUME NEW k \in 1 .. (upto - from)
      PROVE  Key(RowAt(from + k - 1, S)) \in Nat \X Nat
  <2>1. from + k - 1 \in 0 .. (Cardinality(S) - 1)
    BY <1>1
  <2>2. RowAt(from + k - 1, S) \in S
    BY <2>1, RowAtOffset
  <2> QED  BY <2>2 DEF IsRows, Key
<1>3. /\ rows \in [1 .. (upto - from) -> Nat \X Nat]
      /\ \A k \in 1 .. (upto - from) : rows[k] = Key(RowAt(from + k - 1, S))
  BY <1>2 DEF RowsFrom
<1> HIDE DEF rows
<1>4. rows \in Seq(Nat \X Nat)
  BY <1>1, <1>3, SeqDef
<1>5. Len(rows) = upto - from /\ DOMAIN rows = 1 .. (upto - from)
  <2>1. DOMAIN rows = 1 .. (upto - from)
    BY <1>3
  <2>2. Len(rows) \in Nat /\ DOMAIN rows = 1 .. Len(rows)
    BY <1>4, LenProperties
  <2> QED  BY <1>1, <2>1, <2>2
<1>6. rows = <<>> <=> from = upto
  <2>1. rows = <<>> <=> Len(rows) = 0
    BY <1>4, EmptySeq
  <2> QED  BY <1>5, <2>1
<1>7. ASSUME upto <= Cardinality(S)
      PROVE  ToSet(rows) = KeysBetween(from, upto, S)
  <2>1. KeysBetween(from, upto, S) = {Key(RowAt(k, S)) : k \in from .. (upto - 1)}
    BY <1>7, KeysAreAt
  <2>2. ToSet(rows) = {rows[k] : k \in 1 .. (upto - from)}
    BY <1>5 DEF ToSet
  <2>3. ASSUME NEW k \in 1 .. (upto - from)
        PROVE  \E l \in from .. (upto - 1) : rows[k] = Key(RowAt(l, S))
    <3>1. from + k - 1 \in from .. (upto - 1)
      OBVIOUS
    <3> QED  BY <1>3, <3>1
  <2>4. ASSUME NEW l \in from .. (upto - 1)
        PROVE  \E k \in 1 .. (upto - from) : rows[k] = Key(RowAt(l, S))
    <3>1. PICK k \in 1 .. (upto - from) : k = l - from + 1
      OBVIOUS
    <3>2. from + k - 1 = l
      BY <3>1
    <3> QED  BY <1>3, <3>2
  <2>5. \A x : x \in ToSet(rows) <=> x \in KeysBetween(from, upto, S)
    BY <2>1, <2>2, <2>3, <2>4
  <2> QED  BY <2>5 DEF ToSet, KeysBetween
<1> QED  BY <1>3, <1>4, <1>5, <1>6, <1>7 DEF rows, RowsFit

LEMMA KeysJoin ==
  ASSUME NEW S, IsRows(S), NEW a \in Nat, NEW b \in Nat, NEW c \in Nat, NEW d \in Nat,
         a <= c, c <= b, b <= d
  PROVE  KeysBetween(a, b, S) \cup KeysBetween(c, d, S) = KeysBetween(a, d, S)
<1>1. \A r \in S : Offset(r, S) \in Nat
  BY OffsetBounds
<1>2. \A r \in S : Offset(r, S) \in a .. (d - 1) <=>
        Offset(r, S) \in a .. (b - 1) \/ Offset(r, S) \in c .. (d - 1)
  BY <1>1
<1> QED  BY <1>2 DEF KeysBetween

LEMMA ConcatSets ==
  ASSUME NEW S, NEW s \in Seq(S), NEW t \in Seq(S)
  PROVE  /\ s \o t \in Seq(S) /\ Len(s \o t) = Len(s) + Len(t)
         /\ \A k \in 1 .. Len(s) : (s \o t)[k] = s[k]
         /\ \A k \in 1 .. Len(t) : (s \o t)[Len(s) + k] = t[k]
         /\ ToSet(s \o t) = ToSet(s) \cup ToSet(t)
<1>1. /\ s \o t \in Seq(S) /\ Len(s \o t) = Len(s) + Len(t)
      /\ \A k \in 1 .. (Len(s) + Len(t)) :
           (s \o t)[k] = IF k <= Len(s) THEN s[k] ELSE t[k - Len(s)]
  BY ConcatProperties
<1>2. /\ Len(s) \in Nat /\ DOMAIN s = 1 .. Len(s) /\ Len(t) \in Nat /\ DOMAIN t = 1 .. Len(t)
      /\ DOMAIN (s \o t) = 1 .. (Len(s) + Len(t))
  BY <1>1, LenProperties
<1>3. \A k \in 1 .. Len(s) : (s \o t)[k] = s[k]
  BY <1>1, <1>2
<1>4. ASSUME NEW k \in 1 .. Len(t)
      PROVE  (s \o t)[Len(s) + k] = t[k]
  <2>1. /\ Len(s) + k \in 1 .. (Len(s) + Len(t)) /\ ~(Len(s) + k <= Len(s))
        /\ (Len(s) + k) - Len(s) = k
    BY <1>2
  <2> QED  BY <1>1, <2>1
<1>5. ASSUME NEW k \in 1 .. (Len(s) + Len(t))
      PROVE  (s \o t)[k] \in ToSet(s) \cup ToSet(t)
  <2>1. CASE k <= Len(s)
    BY <1>2, <1>3, <2>1 DEF ToSet
  <2>2. CASE ~(k <= Len(s))
    <3>1. k - Len(s) \in 1 .. Len(t) /\ (s \o t)[k] = t[k - Len(s)]
      BY <1>1, <1>2, <2>2
    <3> QED  BY <1>2, <3>1 DEF ToSet
  <2> QED  BY <2>1, <2>2
<1>6. \A k \in 1 .. Len(s) : k \in 1 .. (Len(s) + Len(t))
  BY <1>2
<1>7. \A k \in 1 .. Len(t) : Len(s) + k \in 1 .. (Len(s) + Len(t))
  BY <1>2
<1>8. \A x : x \in ToSet(s) \cup ToSet(t) => x \in ToSet(s \o t)
  BY <1>2, <1>3, <1>4, <1>6, <1>7 DEF ToSet
<1>9. \A x : x \in ToSet(s \o t) => x \in ToSet(s) \cup ToSet(t)
  BY <1>2, <1>5 DEF ToSet
<1> QED  BY <1>1, <1>3, <1>4, <1>8, <1>9

(* Where the second statement reads from and up to.                        *)
LEMMA SelectBounds ==
  ASSUME NEW from \in Nat, NEW limit \in Nat, NEW total \in Nat,
         NEW upto, upto = Greater(from, Lesser(from + limit, total))
  PROVE  /\ upto \in Nat /\ from <= upto /\ (from < upto => upto <= total)
         /\ from + limit <= total => upto = from + limit
BY DEF Greater, Lesser

(* What the second statement of a query does, as a whole.                 *)
Selected(from, upto, S, rows) ==
  /\ reader \in Reader /\ reader' \in Reader /\ Query' = Query
  /\ IsRows(S) /\ Cardinality(S) = Total /\ Total \in Nat
  /\ from \in Nat /\ upto \in Nat /\ from <= upto /\ reader.page.limit \in Nat
  /\ rows \in Seq(Nat \X Nat) /\ Len(rows) = upto - from /\ DOMAIN rows = 1 .. (upto - from)
  /\ rows = <<>> <=> from = upto
  /\ \A k \in DOMAIN rows : rows[k] = Key(RowAt(from + k - 1, S))
  /\ upto <= Total => ToSet(rows) = KeysBetween(from, upto, S)
  /\ reader'.pc = "idle" /\ reader'.received = upto - from
  /\ reader'.total = reader.total /\ reader'.page = reader.page
  /\ reader'.began = IF reader.cursor = Nil THEN reader.total ELSE reader.began
  /\ reader'.cursor = IF rows = <<>> THEN reader.cursor
                      ELSE IF Query.direction = "forward" THEN <<EncodeCursor(upto - 1)>>
                      ELSE <<EncodeCursor(from)>>
  /\ reader'.seen = IF Query.direction = "forward" THEN reader.seen \o rows
                    ELSE rows \o reader.seen
  /\ (Stays' <=> Stays) /\ (Grows' <=> Grows) /\ Matching(Query)' = S

LEMMA SelectContext ==
  ASSUME StoreIInv, StoreSide, ReaderSide, SelectRows,
         NEW from, from = reader.page.offset,
         NEW upto, upto = Greater(from, Lesser(from + reader.page.limit, Total)),
         NEW S, S = Matching(Query),
         NEW rows, rows = RowsFrom(from, upto, S)
  PROVE  Selected(from, upto, S, rows)
<1>1. reader \in Reader
  BY DEF ReaderSide
<1>2. IsRows(S) /\ Cardinality(S) = Total /\ Total \in Nat
  BY <1>1, MatchingRows DEF StoreSide, Total
<1>3. from \in Nat /\ reader.page.limit \in Nat
  BY <1>1 DEF Reader
<1>4. upto \in Nat /\ from <= upto /\ (from < upto => upto <= Total)
  <2>1. PICK limit \in Nat, total \in Nat :
          /\ limit = reader.page.limit /\ total = Total
          /\ upto = Greater(from, Lesser(from + limit, total))
    BY <1>2, <1>3
  <2> QED  BY <1>3, <2>1, SelectBounds
<1>5. /\ rows \in Seq(Nat \X Nat) /\ Len(rows) = upto - from /\ DOMAIN rows = 1 .. (upto - from)
      /\ rows = <<>> <=> from = upto
      /\ \A k \in DOMAIN rows : rows[k] = Key(RowAt(from + k - 1, S))
      /\ upto <= Total => ToSet(rows) = KeysBetween(from, upto, S)
  <2>1. from < upto => upto <= Cardinality(S)
    BY <1>2, <1>4
  <2>2. RowsFit(from, upto, S)
    BY <1>2, <1>3, <1>4, <2>1, RowsSelected
  <2> QED  BY <1>2, <2>2 DEF RowsFit
<1>6. PICK cursor, seen, began :
        /\ cursor = IF rows = <<>> THEN reader.cursor
                    ELSE IF Query.direction = "forward" THEN <<EncodeCursor(upto - 1)>>
                    ELSE <<EncodeCursor(from)>>
        /\ seen = IF Query.direction = "forward" THEN reader.seen \o rows ELSE rows \o reader.seen
        /\ began = IF reader.cursor = Nil THEN reader.total ELSE reader.began
  OBVIOUS
<1>7. reader' = [reader EXCEPT !.pc = "idle", !.received = Len(rows), !.began = began,
                               !.cursor = cursor, !.seen = seen]
  <2>1. rows = [k \in 1 .. (upto - from) |-> Key(RowAt(from + k - 1, Matching(Query)))]
    BY DEF RowsFrom
  <2>2. reader' =
          [reader EXCEPT
             !.pc = "idle", !.received = Len(rows),
             !.began = IF reader.cursor = Nil THEN reader.total ELSE @,
             !.cursor = IF rows = <<>> THEN @
                        ELSE IF Query.direction = "forward" THEN <<EncodeCursor(upto - 1)>>
                        ELSE <<EncodeCursor(from)>>,
             !.seen = IF Query.direction = "forward" THEN @ \o rows ELSE rows \o @]
    BY <2>1 DEF SelectRows
  <2> QED  BY <1>1, <1>6, <2>2 DEF Reader
<1>8. cursor \in Seq([number : {TRUE}, offset : Nat])
  <2>1. \A n \in Nat : <<EncodeCursor(n)>> \in Seq([number : {TRUE}, offset : Nat])
    BY DEF EncodeCursor
  <2>2. rows # <<>> => upto - 1 \in Nat
    BY <1>3, <1>4, <1>5
  <2>3. reader.cursor \in Seq([number : {TRUE}, offset : Nat])
    BY <1>1 DEF Reader
  <2> QED  BY <1>3, <1>6, <2>1, <2>2, <2>3
<1>9. seen \in Seq(Nat \X Nat)
  <2>1. reader.seen \in Seq(Nat \X Nat)
    BY <1>1 DEF Reader
  <2> QED  BY <1>5, <1>6, <2>1, ConcatSets
<1>10. began \in Nat /\ Len(rows) \in Nat
  <2>1. reader.total \in Nat /\ reader.began \in Nat
    BY <1>1 DEF Reader
  <2>2. began \in Nat
    BY <1>6, <2>1
  <2>3. upto - from \in Nat
    BY <1>3, <1>4
  <2> QED  BY <1>5, <2>2, <2>3
<1>11. /\ reader' \in Reader /\ reader'.walk = reader.walk
       /\ reader'.pc = "idle" /\ reader'.received = Len(rows)
       /\ reader'.total = reader.total /\ reader'.page = reader.page
       /\ reader'.began = began /\ reader'.cursor = cursor /\ reader'.seen = seen
  BY <1>1, <1>7, <1>8, <1>9, <1>10 DEF Reader
<1>12. /\ Query' = Query /\ Matching(Query)' = Matching(Query)
       /\ (Stays' <=> Stays) /\ (Grows' <=> Grows)
  BY <1>11, ReadsOnly DEF SelectRows
<1> QED  BY <1>1, <1>2, <1>3, <1>4, <1>5, <1>6, <1>11, <1>12 DEF Selected

(* A page that was counted, of a query whose rows stay, is full.           *)
LEMMA SelectIsFull ==
  ASSUME StoreIInv, StoreSide, ReaderSide, reader.pc = "counted", Stays,
         NEW from, from = reader.page.offset,
         NEW upto, upto = Greater(from, Lesser(from + reader.page.limit, Total)),
         NEW end, end = IF reader.cursor = Nil THEN reader.total ELSE reader.cursor[1].offset
  PROVE  /\ upto = from + reader.page.limit
         /\ reader.total <= Total /\ upto <= reader.total /\ reader.total \in Nat /\ end \in Nat
         /\ Asked(Query.size) \in Nat
         /\ Query.direction = "forward" =>
              from = IF reader.cursor = Nil THEN 0 ELSE reader.cursor[1].offset + 1
         /\ Query.direction = "backward" =>
              /\ reader.cursor # Nil => reader.cursor[1].offset > 0
              /\ from = Greater(0, end - Asked(Query.size))
              /\ upto - from <= Asked(Query.size) /\ upto >= end
              /\ Asked(Query.size) <= end => upto = end
<1>1. /\ reader \in Reader /\ Len(reader.cursor) <= 1
      /\ reader.page = PageAsked(reader.total)
      /\ Query.direction = "backward" /\ reader.cursor # Nil => reader.cursor[1].offset > 0
      /\ reader.total <= Total
  BY DEF ReaderSide, ReaderFits
<1>2. /\ reader.total \in Nat /\ from \in Nat /\ reader.page.limit \in Nat
      /\ reader.page.error = "none"
  BY <1>1 DEF Reader
<1>3. Total \in Nat
  BY <1>1, MatchingRows DEF StoreSide
<1>4. Asked(Query.size) \in Nat /\ end \in Nat
  BY <1>1, <1>2, AskedFits
<1>5. PICK page : page = reader.page /\ page = PageAsked(reader.total) /\ page.error = "none"
  BY <1>1, <1>2
<1>6. /\ page.offset \in 0 .. reader.total /\ page.limit \in 0 .. (reader.total - page.offset)
      /\ Query.direction = "forward" =>
           page.offset = IF reader.cursor = Nil THEN 0 ELSE reader.cursor[1].offset + 1
      /\ Query.direction = "backward" =>
           /\ page.offset = Greater(0, end - Asked(Query.size))
           /\ page.limit <= Asked(Query.size)
           /\ page.offset + page.limit >= end
           /\ Asked(Query.size) <= end => page.offset + page.limit = end
  BY <1>1, <1>2, <1>5, PageAskedFits
<1>7. from + reader.page.limit <= reader.total
  BY <1>2, <1>5, <1>6
<1>8. upto = from + reader.page.limit
  BY <1>1, <1>2, <1>3, <1>7 DEF Greater, Lesser
<1>9. from = page.offset /\ reader.page.limit = page.limit
  BY <1>5
<1>10. upto <= reader.total
  BY <1>7, <1>8
<1>11. upto - from = page.limit /\ upto = page.offset + page.limit
  BY <1>2, <1>8, <1>9
<1> QED  BY <1>1, <1>2, <1>4, <1>6, <1>8, <1>9, <1>10, <1>11

(* Forward: what the client has seen goes on by the page.                  *)
LEMMA ForwardSelects ==
  ASSUME StoreIInv, StoreSide, ReaderSide, SelectRows, Query.direction = "forward", Grows,
         NEW S, S = Matching(Query)
  PROVE  /\ reader'.cursor = IF reader'.seen = <<>> THEN Nil
                             ELSE <<EncodeCursor(Len(reader'.seen) - 1)>>
         /\ Len(reader'.seen) <= Cardinality(S)
         /\ \A k \in DOMAIN reader'.seen : reader'.seen[k] = Key(RowAt(k - 1, S))
<1>1. PICK from, upto, rows :
        /\ from = reader.page.offset
        /\ upto = Greater(from, Lesser(from + reader.page.limit, Total))
        /\ rows = RowsFrom(from, upto, S)
  OBVIOUS
<1>2. /\ reader \in Reader /\ Cardinality(S) = Total /\ Total \in Nat
      /\ from \in Nat /\ upto \in Nat /\ from <= upto
      /\ rows \in Seq(Nat \X Nat) /\ Len(rows) = upto - from /\ DOMAIN rows = 1 .. (upto - from)
      /\ rows = <<>> <=> from = upto
      /\ \A k \in DOMAIN rows : rows[k] = Key(RowAt(from + k - 1, S))
      /\ reader'.cursor = IF rows = <<>> THEN reader.cursor ELSE <<EncodeCursor(upto - 1)>>
      /\ reader'.seen = reader.seen \o rows
  <2>1. Selected(from, upto, S, rows)
    BY <1>1, SelectContext
  <2> QED  BY <2>1 DEF Selected
<1>3. /\ reader.total <= Total /\ upto <= reader.total /\ reader.total \in Nat
      /\ from = IF reader.cursor = Nil THEN 0 ELSE reader.cursor[1].offset + 1
  BY <1>1, SelectIsFull DEF SelectRows, Grows
<1>4. /\ reader.cursor = IF reader.seen = <<>> THEN Nil ELSE <<EncodeCursor(Len(reader.seen) - 1)>>
      /\ \A k \in DOMAIN reader.seen : reader.seen[k] = Key(RowAt(k - 1, S))
  BY DEF ReaderSide, ReaderFits, WalkIsPrefix
<1>5. reader.seen \in Seq(Nat \X Nat)
  BY <1>2 DEF Reader
<1>6. from = Len(reader.seen) /\ Len(reader.seen) \in Nat
  <2>1. Len(reader.seen) \in Nat /\ (reader.seen = <<>> <=> Len(reader.seen) = 0)
    BY <1>5, LenProperties, EmptySeq
  <2>2. CASE reader.seen = <<>>
    BY <1>3, <1>4, <2>1, <2>2
  <2>3. CASE reader.seen # <<>>
    <3>1. reader.cursor # Nil /\ reader.cursor[1].offset = Len(reader.seen) - 1
      BY <1>4, <2>3 DEF Nil, EncodeCursor
    <3> QED  BY <1>3, <2>1, <3>1
  <2> QED  BY <2>1, <2>2, <2>3
<1>7. PICK seen, list : seen = reader.seen /\ list = reader'.seen /\ list = seen \o rows
  BY <1>2
<1>8. /\ list \in Seq(Nat \X Nat) /\ Len(list) = Len(seen) + Len(rows)
      /\ \A k \in 1 .. Len(seen) : list[k] = seen[k]
      /\ \A k \in 1 .. Len(rows) : list[Len(seen) + k] = rows[k]
  <2>1. seen \in Seq(Nat \X Nat) /\ rows \in Seq(Nat \X Nat)
    BY <1>2, <1>5, <1>7
  <2>2. /\ seen \o rows \in Seq(Nat \X Nat) /\ Len(seen \o rows) = Len(seen) + Len(rows)
        /\ \A k \in 1 .. Len(seen) : (seen \o rows)[k] = seen[k]
        /\ \A k \in 1 .. Len(rows) : (seen \o rows)[Len(seen) + k] = rows[k]
    BY <2>1, ConcatSets
  <2>3. list = seen \o rows
    BY <1>7
  <2> QED  BY <2>2, <2>3
<1>9. Len(seen) = from /\ Len(list) = upto /\ DOMAIN list = 1 .. upto /\ DOMAIN seen = 1 .. from
  <2>1. Len(seen) = from
    BY <1>6, <1>7
  <2>2. Len(list) = Len(seen) + Len(rows)
    BY <1>8
  <2>3. from \in Nat /\ upto \in Nat /\ Len(rows) = upto - from
    BY <1>2
  <2>4. Len(list) = upto
    BY <2>1, <2>2, <2>3
  <2>5. seen \in Seq(Nat \X Nat)
    BY <1>5, <1>7
  <2>6. list \in Seq(Nat \X Nat)
    BY <1>8
  <2>7. DOMAIN list = 1 .. Len(list)
    BY <2>6, LenProperties
  <2>8. DOMAIN seen = 1 .. Len(seen)
    BY <2>5, LenProperties
  <2> QED  BY <2>1, <2>4, <2>7, <2>8
<1>10. ASSUME NEW k \in DOMAIN list
       PROVE  list[k] = Key(RowAt(k - 1, S))
  <2>1. CASE k \in 1 .. from
    BY <1>4, <1>7, <1>8, <1>9, <2>1
  <2>2. CASE k \notin 1 .. from
    <3>1. PICK l \in 1 .. (upto - from) : k = from + l
      <4>1. from \in Nat /\ upto \in Nat
        BY <1>2
      <4>2. k \in 1 .. upto
        BY <1>9
      <4>3. k - from \in 1 .. (upto - from) /\ k = from + (k - from)
        BY <4>1, <4>2, <2>2
      <4> QED  BY <4>3
    <3>2. list[k] = rows[l] /\ rows[l] = Key(RowAt(from + l - 1, S))
      BY <1>2, <1>8, <1>9, <3>1
    <3>3. from + l - 1 = k - 1
      BY <1>2, <3>1
    <3> QED  BY <3>2, <3>3
  <2> QED  BY <2>1, <2>2
<1>11. reader'.cursor = IF list = <<>> THEN Nil ELSE <<EncodeCursor(Len(list) - 1)>>
  <2>1. list = <<>> <=> upto = 0
    BY <1>8, <1>9, EmptySeq
  <2>2. CASE from = upto
    <3>1. reader'.cursor = reader.cursor
      BY <1>2, <2>2
    <3>2. seen = <<>> <=> upto = 0
      BY <1>5, <1>7, <1>9, <2>2, EmptySeq
    <3> QED  BY <1>4, <1>7, <1>9, <2>1, <2>2, <3>1, <3>2
  <2>3. CASE from # upto
    BY <1>2, <1>9, <2>1, <2>3
  <2> QED  BY <2>2, <2>3
<1>12. Len(list) <= Cardinality(S)
  BY <1>2, <1>3, <1>9
<1> QED  BY <1>7, <1>10, <1>11, <1>12

(* Backward: the page adjoins, or reaches into, what the client has seen.  *)
LEMMA BackwardSelects ==
  ASSUME StoreIInv, StoreSide, ReaderSide, SelectRows, Query.direction = "backward", Grows,
         NEW S, S = Matching(Query)
  PROVE  IF reader'.cursor = Nil THEN reader'.seen = <<>>
         ELSE /\ reader'.cursor[1].offset < reader'.began
              /\ reader'.began <= Cardinality(S)
              /\ reader'.cursor[1].offset = 0 \/ Asked(Query.size) <= reader'.began
              /\ ToSet(reader'.seen) = KeysBetween(reader'.cursor[1].offset, reader'.began, S)
<1>1. PICK from, upto, rows, end, size :
        /\ from = reader.page.offset
        /\ upto = Greater(from, Lesser(from + reader.page.limit, Total))
        /\ rows = RowsFrom(from, upto, S)
        /\ end = IF reader.cursor = Nil THEN reader.total ELSE reader.cursor[1].offset
        /\ size = Asked(Query.size)
  OBVIOUS
<1>2. /\ reader \in Reader /\ IsRows(S) /\ Cardinality(S) = Total /\ Total \in Nat
      /\ from \in Nat /\ upto \in Nat /\ from <= upto
      /\ rows \in Seq(Nat \X Nat)
      /\ rows = <<>> <=> from = upto
      /\ upto <= Total => ToSet(rows) = KeysBetween(from, upto, S)
      /\ reader'.began = IF reader.cursor = Nil THEN reader.total ELSE reader.began
      /\ reader'.cursor = IF rows = <<>> THEN reader.cursor ELSE <<EncodeCursor(from)>>
      /\ reader'.seen = rows \o reader.seen
  <2>1. Selected(from, upto, S, rows)
    BY <1>1, SelectContext
  <2> QED  BY <2>1 DEF Selected
<1>3. /\ reader.total <= Total /\ upto <= reader.total /\ reader.total \in Nat /\ end \in Nat
      /\ size \in Nat
      /\ reader.cursor # Nil => reader.cursor[1].offset > 0
      /\ from = Greater(0, end - size)
      /\ upto - from <= size /\ upto >= end
      /\ size <= end => upto = end
  BY <1>1, SelectIsFull DEF SelectRows, Grows
<1>4. reader.seen \in Seq(Nat \X Nat) /\ reader.began \in Nat
  BY <1>2 DEF Reader
<1>5. /\ from = 0 \/ size <= end
      /\ from <= end
  BY <1>3 DEF Greater
<1>6. ToSet(rows) = KeysBetween(from, upto, S)
  BY <1>2, <1>3
<1>7. ToSet(reader'.seen) = ToSet(rows) \cup ToSet(reader.seen)
  BY <1>2, <1>4, ConcatSets
<1>8. rows # <<>> => reader'.cursor # Nil /\ reader'.cursor[1].offset = from
  BY <1>2 DEF Nil, EncodeCursor
<1>9. CASE reader.cursor = Nil
  <2>1. end = reader.total /\ upto = end /\ reader'.began = end /\ reader.seen = <<>>
    BY <1>1, <1>2, <1>3, <1>9 DEF ReaderSide, ReaderFits
  <2>2. CASE rows = <<>>
    <3>1. reader'.cursor = Nil /\ reader'.seen = <<>> \o <<>>
      BY <1>2, <1>9, <2>1, <2>2
    <3> QED  BY <3>1
  <2>3. CASE rows # <<>>
    <3>1. ToSet(reader'.seen) = KeysBetween(from, end, S)
      <4>1. ToSet(reader.seen) = {}
        BY <2>1, EmptySeq, LenProperties DEF ToSet
      <4> QED  BY <1>6, <1>7, <2>1, <4>1
    <3>2. from < end /\ end <= Cardinality(S) /\ (from = 0 \/ size <= end)
      BY <1>2, <1>3, <1>5, <2>1, <2>3
    <3> QED  BY <1>1, <1>8, <2>1, <2>3, <3>1, <3>2
  <2> QED  BY <2>2, <2>3
<1>10. CASE reader.cursor # Nil
  <2>1. PICK began \in Nat : began = reader.began
    BY <1>4
  <2>2. /\ end < began /\ began <= Cardinality(S) /\ (end = 0 \/ size <= began)
        /\ ToSet(reader.seen) = KeysBetween(end, began, S) /\ end > 0
    <3>1. ToSet(reader.seen) = KeysBetween(reader.cursor[1].offset, reader.began, S)
      BY <1>10 DEF ReaderSide, BackwardWalkHasNoHole, KeysBetween
    <3>2. /\ reader.cursor[1].offset < reader.began /\ reader.began <= Total
          /\ reader.cursor[1].offset = 0 \/ Asked(Query.size) <= reader.began
      BY <1>10 DEF ReaderSide, ReaderFits
    <3> QED  BY <1>1, <1>2, <1>3, <1>10, <2>1, <3>1, <3>2
  <2>3. reader'.began = began
    BY <1>2, <1>10, <2>1
  <2>4. size <= began /\ upto <= began
    <3>1. size <= began
      BY <1>3, <2>2
    <3>2. upto <= began
      BY <1>2, <1>3, <1>5, <2>2, <3>1
    <3> QED  BY <3>1, <3>2
  <2>5. ToSet(reader'.seen) = KeysBetween(from, began, S)
    <3>1. KeysBetween(from, upto, S) \cup KeysBetween(end, began, S) = KeysBetween(from, began, S)
      <4>1. /\ IsRows(S) /\ from \in Nat /\ upto \in Nat /\ end \in Nat /\ began \in Nat
            /\ from <= end /\ end <= upto /\ upto <= began
        BY <1>2, <1>3, <1>5, <2>1, <2>4
      <4> QED  BY <4>1, KeysJoin
    <3> QED  BY <1>6, <1>7, <2>2, <3>1
  <2>6. CASE rows # <<>>
    <3>1. from < began
      BY <1>2, <1>3, <1>5, <2>2
    <3> QED  BY <1>1, <1>8, <2>2, <2>3, <2>4, <2>5, <2>6, <3>1
  <2>7. CASE rows = <<>>
    <3>1. from = end /\ reader'.cursor = reader.cursor
      BY <1>2, <1>3, <1>5, <2>7
    <3>2. reader.cursor[1].offset = end
      BY <1>1, <1>10
    <3> QED  BY <1>1, <1>10, <2>2, <2>3, <2>4, <2>5, <3>1, <3>2
  <2> QED  BY <2>6, <2>7
<1> QED  BY <1>9, <1>10

LEMMA SelectKeepsReader ==
  ASSUME StoreIInv, StoreSide, ReaderSide, SelectRows
  PROVE  ReaderSide'
<1>1. PICK from, upto, S, rows :
        /\ from = reader.page.offset
        /\ upto = Greater(from, Lesser(from + reader.page.limit, Total))
        /\ S = Matching(Query)
        /\ rows = RowsFrom(from, upto, S)
  OBVIOUS
<1>2. /\ reader \in Reader /\ reader' \in Reader /\ Query' = Query
      /\ from \in Nat /\ reader.page.limit \in Nat
      /\ rows = <<>> \/ rows # <<>>
      /\ reader'.pc = "idle" /\ reader'.received = upto - from
      /\ reader'.total = reader.total /\ reader'.page = reader.page
      /\ reader'.cursor = IF rows = <<>> THEN reader.cursor
                          ELSE IF Query.direction = "forward" THEN <<EncodeCursor(upto - 1)>>
                          ELSE <<EncodeCursor(from)>>
      /\ (Stays' <=> Stays) /\ (Grows' <=> Grows) /\ Matching(Query)' = S
  <2>1. Selected(from, upto, S, rows)
    BY <1>1, SelectContext
  <2> QED  BY <2>1 DEF Selected
<1>3. PICK T, r, q : T = Matching(Query)' /\ r = reader' /\ q = Query' /\ T = S
  BY <1>2
<1>4. PICK stays \in BOOLEAN, grows \in BOOLEAN :
        /\ (stays <=> Stays') /\ (stays <=> Stays)
        /\ (grows <=> Grows') /\ (grows <=> Grows)
  BY <1>2 DEF Stays, Grows
<1>5. /\ r \in Reader
      /\ r.page.offset \in 0 .. r.total /\ r.page.limit \in 0 .. (r.total - r.page.offset)
  BY <1>2, <1>3 DEF ReaderSide
<1>6. Len(r.cursor) <= 1
  <2>1. \A n : Len(<<EncodeCursor(n)>>) <= 1
    OBVIOUS
  <2>2. Len(reader.cursor) <= 1
    BY DEF ReaderSide, ReaderFits
  <2> QED  BY <1>2, <1>3, <2>1, <2>2
<1>7. (q.direction = "forward" /\ grows) =>
        /\ r.cursor = IF r.seen = <<>> THEN Nil ELSE <<EncodeCursor(Len(r.seen) - 1)>>
        /\ Len(r.seen) <= Cardinality(T)
        /\ \A k \in DOMAIN r.seen : r.seen[k] = Key(RowAt(k - 1, T))
  BY <1>1, <1>2, <1>3, <1>4, ForwardSelects
<1>8. (q.direction = "backward" /\ grows) =>
        IF r.cursor = Nil THEN r.seen = <<>>
        ELSE /\ r.cursor[1].offset < r.began
             /\ r.began <= Cardinality(T)
             /\ r.cursor[1].offset = 0 \/ Asked(q.size) <= r.began
             /\ ToSet(r.seen) = KeysBetween(r.cursor[1].offset, r.began, T)
  BY <1>1, <1>2, <1>3, <1>4, BackwardSelects
<1>9. stays => r.received = r.page.limit
  <2> SUFFICES ASSUME stays PROVE r.received = r.page.limit
    OBVIOUS
  <2>1. upto = from + reader.page.limit
    BY <1>1, <1>4, SelectIsFull DEF SelectRows
  <2> QED  BY <1>2, <1>3, <2>1
<1>10. r.pc # "counted"
  BY <1>2, <1>3
<1> QED  BY <1>3, <1>4, <1>5, <1>6, <1>7, <1>8, <1>9, <1>10, ReaderPrimed

-----------------------------------------------------------------------------
(* The invariant.                                                          *)

LEMMA ReaderSideKeeps ==
  ASSUME StoreIInv, JobComplete, StoreSide, ReaderSide, StoreIInv', StoreSide',
         [QueriesNext]_queryVars
  PROVE  ReaderSide'
<1>1. CASE ServerStep
  BY <1>1, ServerKeepsReader
<1>2. CASE CountRows
  BY <1>2, CountKeepsReader
<1>3. CASE SelectRows
  BY <1>3, SelectKeepsReader
<1>4. CASE UNCHANGED queryVars
  <2>1. UNCHANGED <<storeVars, late, executed>> /\ reader' = reader
    BY <1>4 DEF queryVars
  <2>2. /\ Query' = Query /\ Matching(Query)' = Matching(Query)
        /\ (Stays' <=> Stays) /\ (Grows' <=> Grows)
    BY <2>1, ReadsOnly
  <2>3. PICK T, r, q : T = Matching(Query)' /\ T = Matching(Query) /\ r = reader' /\ r = reader
                       /\ q = Query' /\ q = Query
    BY <2>1, <2>2
  <2>4. PICK stays \in BOOLEAN, grows \in BOOLEAN :
        /\ (stays <=> Stays') /\ (stays <=> Stays)
        /\ (grows <=> Grows') /\ (grows <=> Grows)
    BY <2>2 DEF Stays, Grows
  <2>5. PageAsked(r.total)' = PageAsked(r.total)
    BY <2>1, <2>2 DEF PageAsked
  <2>6. /\ r \in Reader
        /\ r.page.offset \in 0 .. r.total /\ r.page.limit \in 0 .. (r.total - r.page.offset)
        /\ Len(r.cursor) <= 1
    BY <2>3 DEF ReaderSide, ReaderFits
  <2>7. r.pc = "counted" => /\ r.page = PageAsked(r.total)'
                            /\ q.direction = "backward" /\ r.cursor # Nil => r.cursor[1].offset > 0
                            /\ stays => r.total <= Cardinality(T)
    BY <2>3, <2>4, <2>5 DEF ReaderSide, ReaderFits, Total
  <2>8. (q.direction = "forward" /\ grows) =>
          /\ r.cursor = IF r.seen = <<>> THEN Nil ELSE <<EncodeCursor(Len(r.seen) - 1)>>
          /\ Len(r.seen) <= Cardinality(T)
          /\ \A k \in DOMAIN r.seen : r.seen[k] = Key(RowAt(k - 1, T))
    BY <2>3, <2>4 DEF ReaderSide, ReaderFits, WalkIsPrefix, Total
  <2>9. (q.direction = "backward" /\ grows) =>
          IF r.cursor = Nil THEN r.seen = <<>>
          ELSE /\ r.cursor[1].offset < r.began
               /\ r.began <= Cardinality(T)
               /\ r.cursor[1].offset = 0 \/ Asked(q.size) <= r.began
               /\ ToSet(r.seen) = KeysBetween(r.cursor[1].offset, r.began, T)
    BY <2>3, <2>4 DEF ReaderSide, ReaderFits, BackwardWalkHasNoHole, KeysBetween, Total
  <2>10. (r.pc = "idle" /\ stays) => r.received = r.page.limit
    BY <2>3, <2>4 DEF ReaderSide, PageIsFull
  <2> QED  BY <2>3, <2>4, <2>6, <2>7, <2>8, <2>9, <2>10, ReaderPrimed
<1> QED  BY <1>1, <1>2, <1>3, <1>4 DEF QueriesNext, ServerStep

LEMMA QueriesInitFits == QueriesInit => StoreIInv /\ JobComplete /\ StoreSide /\ ReaderSide
<1> SUFFICES ASSUME QueriesInit PROVE StoreIInv /\ JobComplete /\ StoreSide /\ ReaderSide
  OBVIOUS
<1>1. StoreInit /\ thisLife = {} /\ late = FALSE /\ executed = {} /\ executions = 0
  BY DEF QueriesInit
<1>2. StoreIInv /\ JobComplete
  BY <1>1, StoreInitFits DEF StoreInit, JobComplete, NoJob
<1>3. /\ inputs = [i \in InputIndex |-> "absent"] /\ vouchers = {} /\ notices = {}
      /\ reports = [i \in InputIndex |-> <<>>] /\ state = RollupsStateIdle /\ job = NoJob
      /\ faults = [crash |-> 0, dberror |-> 0]
  BY <1>1 DEF StoreInit, Init
<1>4. \A i \in InputIndex : ~Begun(i)
  BY <1>3 DEF Begun, Decided, Verdict
<1>5. state.mode # "advance"
  BY <1>3 DEF RollupsStateIdle, Working
<1>6. WorkInOrder
  BY <1>4, <1>5 DEF WorkInOrder
<1>7. JobAlone
  BY <1>1, AloneInit
<1>8. DOMAIN job.writes = {} /\ \A i \in InputIndex : DOMAIN reports[i] = {}
  BY <1>3, EmptySeq, LenProperties DEF NoJob
<1>9. WrittenOnce
  BY <1>8 DEF WrittenOnce
<1>10. StoreSide
  <2>1. thisLife \subseteq InputIndex /\ late = FALSE /\ late \in BOOLEAN
    BY <1>1
  <2>2. LateIsOfAnotherLife
    BY <2>1 DEF LateIsOfAnotherLife
  <2>3. /\ executed \subseteq {Key(row) : row \in vouchers} /\ executions \in 0 .. MaxExecutions
        /\ IsFiniteSet(vouchers) /\ IsFiniteSet(notices)
    BY <1>1, <1>3, FS_EmptySet, QueriesAssumption
  <2> QED  BY <1>6, <1>7, <1>9, <2>1, <2>2, <2>3 DEF StoreSide
<1>11. PICK w \in DOMAIN Walks : reader = ReaderInit(w)
  BY DEF QueriesInit
<1>12. /\ reader.walk = w /\ reader.pc = "idle" /\ reader.cursor = Nil /\ reader.total = 0
       /\ reader.page.error = "none" /\ reader.page.offset = 0 /\ reader.page.limit = 0
       /\ reader.received = 0 /\ reader.began = 0 /\ reader.seen = <<>>
  BY <1>11 DEF ReaderInit, PageOf
<1>13. reader \in Reader
  BY <1>11 DEF ReaderInit, Reader, PageOf, Nil
<1>14. Total \in Nat
  BY <1>2, <1>10, <1>13, MatchingRows DEF StoreSide
<1>15. Len(<<>>) = 0 /\ DOMAIN <<>> = {}
  BY EmptySeq, LenProperties
<1>16. ReaderFits
  BY <1>12, <1>15 DEF ReaderFits, Nil
<1>17. WalkIsPrefix /\ PageIsFull /\ BackwardWalkHasNoHole
  BY <1>12, <1>14, <1>15 DEF WalkIsPrefix, PageIsFull, BackwardWalkHasNoHole
<1> QED  BY <1>2, <1>10, <1>12, <1>13, <1>16, <1>17 DEF ReaderSide

LEMMA QueriesInductive ==
  QueriesSpec => [](StoreIInv /\ JobComplete /\ StoreSide /\ ReaderSide)
<1>1. StoreIInv /\ JobComplete /\ StoreSide /\ ReaderSide /\ [QueriesNext]_queryVars
        => (StoreIInv /\ JobComplete /\ StoreSide /\ ReaderSide)'
  <2> SUFFICES ASSUME StoreIInv, JobComplete, StoreSide, ReaderSide, [QueriesNext]_queryVars
               PROVE  StoreIInv' /\ JobComplete' /\ StoreSide' /\ ReaderSide'
    OBVIOUS
  <2>1. StoreIInv' /\ JobComplete' /\ StoreSide'
    BY StoreSideKeeps
  <2> QED  BY <2>1, ReaderSideKeeps
<1> QED  BY <1>1, QueriesInitFits, PTL DEF QueriesSpec

(* The inductive invariant of the queries: an input that comes below one   *)
(* that is stored is of a later life, and until there is one the tables    *)
(* grow in the order that rows are sorted in, so that the offsets a client *)
(* has stay good; the total of a query whose rows stay never falls.        *)
THEOREM QueriesInvariance == QueriesSpec => []QueriesIInv
<1>1. StoreIInv /\ StoreSide /\ ReaderSide => QueriesIInv
  BY TwoSides DEF StoreIInv
<1> QED  BY <1>1, QueriesInductive, PTL

(* Every variable keeps its type, and the page that a query under way was  *)
(* given lies within the total it was computed from.                       *)
THEOREM QueriesTypeCorrect == QueriesSpec => []QueriesTypeOK
<1>1. QueriesIInv => QueriesTypeOK
  BY DEF QueriesIInv
<1> QED  BY <1>1, QueriesInvariance, PTL

(* Page after page, a forward walk has seen the first rows of its query,   *)
(* each once and in order, through crashes and failed statements, until an *)
(* input comes below one that is stored.                                   *)
THEOREM WalksArePrefixes == QueriesSpec => []WalkIsPrefix
<1>1. QueriesIInv => WalkIsPrefix
  BY DEF QueriesIInv
<1> QED  BY <1>1, QueriesInvariance, PTL

(* The rows promised by the count are there when they are selected, also   *)
(* when inputs come late, statements fail and requests are done again.     *)
THEOREM PagesAreFull == QueriesSpec => []PageIsFull
<1>1. QueriesIInv => PageIsFull
  BY DEF QueriesIInv
<1> QED  BY <1>1, QueriesInvariance, PTL

(* A backward walk passes over no row, until an input comes below one that *)
(* is stored.                                                              *)
THEOREM BackwardWalksHaveNoHole == QueriesSpec => []BackwardWalkHasNoHole
<1>1. QueriesIInv => BackwardWalkHasNoHole
  BY DEF QueriesIInv
<1> QED  BY <1>1, QueriesInvariance, PTL

-----------------------------------------------------------------------------
(* Executed vouchers.                                                      *)

LEMMA NoneWrittenAgain ==
  ASSUME StoreIInv, JobComplete, StoreSide, NoFault, executions' = executions,
         [QueriesNext]_queryVars
  PROVE  executed \subseteq executed'
<1>1. executions \in Nat
  BY QueriesAssumption DEF StoreSide
<1>2. CASE Serve
  <2>1. executed' = executed \ WrittenRows
    BY <1>2 DEF Serve
  <2>2. ASSUME NEW key \in WrittenRows
        PROVE  FALSE
    <3> DEFINE h == Head(job.writes)
    <3>1. /\ key \in executed /\ job.writes # <<>> /\ h.table = "vouchers" /\ key = Key(h.row)
      BY <2>2 DEF WrittenRows
    <3>2. PICK r \in vouchers : key = Key(r)
      BY <3>1 DEF StoreSide
    <3>3. job.writes \in Seq(Write)
      BY <3>1, StoreParts DEF Job, NoJob
    <3>4. h = job.writes[1] /\ 1 \in DOMAIN job.writes
      BY <3>1, <3>3, TailShape
    <3> HIDE DEF h
    <3>5. ~SameKey(r, h.row)
      BY <3>1, <3>4 DEF StoreSide, WrittenOnce
    <3> QED  BY <3>1, <3>2, <3>5 DEF SameKey, Key
  <2> QED  BY <2>1, <2>2
<1>3. CASE UpdateExecuted
  BY <1>1, <1>3 DEF UpdateExecuted
<1>4. CASE ServerStops \/ CountRows \/ SelectRows \/ UNCHANGED queryVars
  BY <1>4 DEF ServerStops, CountRows, SelectRows, queryVars
<1> QED  BY <1>2, <1>3, <1>4 DEF QueriesNext

(* Storing outputs never takes back that a voucher was executed, unless a  *)
(* crash or a failed statement made the input be done again: Finish writes *)
(* each voucher once.                                                      *)
THEOREM ExecutedKept == QueriesSpec => ExecutedIsKept
<1>1. StoreIInv /\ JobComplete /\ StoreSide /\ [QueriesNext]_queryVars =>
        [NoFault /\ executions' = executions => executed \subseteq executed']_queryVars
  BY NoneWrittenAgain
<1> QED  BY <1>1, QueriesInductive, PTL DEF QueriesSpec, ExecutedIsKept
=============================================================================
