----------------------------- MODULE Pagination -----------------------------
(***************************************************************************)
(* The page arithmetic of the queries (util/pagination.go): which rows, by *)
(* offset and number, a page of a table of a given total holds.            *)
(*                                                                         *)
(* An argument the caller may leave out (a nil pointer) is a sequence of   *)
(* at most one element.  A cursor is the number its text decodes to, or    *)
(* no number when the text is not the base64 of one.                       *)
(***************************************************************************)
EXTENDS Integers, Sequences

DefaultPaginationLimit == 1000

Nil == <<>>
Optional(S) == {Nil} \cup {<<x>> : x \in S}

Cursor == [number : BOOLEAN, offset : Int]

PageOf(offset, limit) == [error |-> "none", offset |-> offset, limit |-> limit]
NoPage(error)         == [error |-> error, offset |-> 0, limit |-> 0]

EncodeCursor(offset) == [number |-> TRUE, offset |-> offset]

(* Faulty variant: the offset after the last row is let through.           *)
DecodesUpToTotal(cursor, total) ==
  cursor.number /\ 0 <= cursor.offset /\ cursor.offset <= total

(* Whether DecodeCursor returns the cursor's offset or an error.           *)
Decodes(cursor, total) ==
  cursor.number /\ 0 <= cursor.offset /\ cursor.offset < total

(* The number of rows asked for, by first or by last.                      *)
Asked(number) == IF number = Nil THEN DefaultPaginationLimit ELSE number[1]

Lesser(m, n)  == IF m <= n THEN m ELSE n
Greater(m, n) == IF m >= n THEN m ELSE n

(* Faulty variant: the page begins at its cursor, not after it.            *)
ComputeForwardPageAtCursor(first, after, total) ==
  LET offset == IF after = Nil THEN 0 ELSE after[1].offset
  IN  IF Asked(first) < 0 THEN NoPage("limit")
      ELSE IF after # Nil /\ ~Decodes(after[1], total) THEN NoPage("cursor")
      ELSE PageOf(offset, Lesser(Asked(first), total - offset))

(* Faulty variant: the last row is left out.                               *)
ComputeForwardPageShort(first, after, total) ==
  LET offset == IF after = Nil THEN 0 ELSE after[1].offset + 1
  IN  IF Asked(first) < 0 THEN NoPage("limit")
      ELSE IF after # Nil /\ ~Decodes(after[1], total) THEN NoPage("cursor")
      ELSE PageOf(offset, Greater(0, Lesser(Asked(first), total - offset - 1)))

ComputeForwardPage(first, after, total) ==
  LET offset == IF after = Nil THEN 0 ELSE after[1].offset + 1
  IN  IF Asked(first) < 0 THEN NoPage("limit")
      ELSE IF after # Nil /\ ~Decodes(after[1], total) THEN NoPage("cursor")
      ELSE PageOf(offset, Lesser(Asked(first), total - offset))

(* Faulty variant: one row too far back.                                   *)
ComputeBackwardPageTooFar(last, before, total) ==
  LET end    == IF before = Nil THEN total ELSE before[1].offset
      offset == Greater(0, end - Asked(last) - 1)
  IN  IF Asked(last) < 0 THEN NoPage("limit")
      ELSE IF before # Nil /\ ~Decodes(before[1], total) THEN NoPage("cursor")
      ELSE PageOf(offset, Lesser(Asked(last), total - offset))

(* The limit is cut to the total, not to the cursor: when fewer rows than  *)
(* asked for precede the cursor, the page goes on past it.                 *)
ComputeBackwardPage(last, before, total) ==
  LET end    == IF before = Nil THEN total ELSE before[1].offset
      offset == Greater(0, end - Asked(last))
  IN  IF Asked(last) < 0 THEN NoPage("limit")
      ELSE IF before # Nil /\ ~Decodes(before[1], total) THEN NoPage("cursor")
      ELSE PageOf(offset, Lesser(Asked(last), total - offset))

ComputePage(first, last, after, before, total) ==
  LET forward  == first # Nil \/ after # Nil
      backward == last # Nil \/ before # Nil
  IN  IF forward /\ backward THEN NoPage("mixed")
      ELSE IF backward THEN ComputeBackwardPage(last, before, total)
      ELSE ComputeForwardPage(first, after, total)
=============================================================================
