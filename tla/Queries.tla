------------------------------ MODULE Queries -------------------------------
(***************************************************************************)
(* The queries of the repositories (FindAll, Count and their filters),     *)
(* next to the server that writes the tables.                              *)
(*                                                                         *)
(* A query is two statements: it counts the rows that match, computes the  *)
(* page from that total, and then selects.  It does not take the model's   *)
(* mutex, so the server may write before, between and after the two.  A    *)
(* process that is started again has the tables of before, but the chain   *)
(* numbers its inputs from 0 anew: an index that was missed before may be  *)
(* stored then, below those that are stored.                               *)
(*                                                                         *)
(* A client walks through the rows of a query page by page, each page from *)
(* the cursor of the last row it has (of the first, when it walks          *)
(* backward), and at the end of a forward walk keeps asking for more.  To  *)
(* walk backward is to say how many rows are wanted: a query with neither  *)
(* a number nor a cursor gets the first rows, not the last.                *)
(***************************************************************************)
EXTENDS ModelStore, Pagination

CONSTANTS
  Walks,         \* the walks a client may make: a sequence of records
  MaxExecutions  \* bound: vouchers executed in a behaviour

ASSUME QueriesAssumption ==
  /\ MaxExecutions \in Nat
  /\ \A w \in DOMAIN Walks :
       /\ Walks[w].table \in {"inputs", "vouchers", "notices", "reports"}
       /\ Walks[w].direction \in {"forward", "backward"}
       /\ Walks[w].size \in Seq(Nat \ {0}) /\ Len(Walks[w].size) <= 1
       /\ Walks[w].direction = "backward" => Walks[w].size # Nil

VARIABLES
  thisLife,    \* inputs stored by this life of the process
  late,        \* whether an input was ever stored below one that was stored
  executed,    \* keys of the vouchers whose executed flag is set
  executions,  \* how many were set so far
  reader       \* the client and the query it has under way

queryVars == <<storeVars, thisLife, late, executed, executions, reader>>

-----------------------------------------------------------------------------
(* The rows of a table, and their order in the queries: by input index,    *)
(* then by output index.  Of reports stored twice, which have no other     *)
(* difference, the earlier comes first.                                    *)

Row(input, output, place, value) ==
  [input |-> input, output |-> output, place |-> place, value |-> value]

InputTable == {Row(i, 0, 0, inputs[i]) : i \in {j \in InputIndex : inputs[j] # "absent"}}

VoucherTable == {Row(r.input, r.output, 0, r.payload) : r \in vouchers}

NoticeTable == {Row(r.input, r.output, 0, r.payload) : r \in notices}

ReportTable ==
  UNION {{Row(i, reports[i][k].output, k, reports[i][k].payload) : k \in DOMAIN reports[i]}
           : i \in InputIndex}

Rows(table) ==
  CASE table = "inputs"   -> InputTable
    [] table = "vouchers" -> VoucherTable
    [] table = "notices"  -> NoticeTable
    [] table = "reports"  -> ReportTable

Key(row) == <<row.input, row.output>>

RowBefore(r, s) ==
  \/ r.input < s.input
  \/ r.input = s.input /\ r.output < s.output
  \/ Key(r) = Key(s) /\ r.place < s.place

Offset(row, rows) == Cardinality({r \in rows : RowBefore(r, row)})

RowAt(offset, rows) == CHOOSE row \in rows : Offset(row, rows) = offset

-----------------------------------------------------------------------------
(* Filters: a list of conditions that a row must all satisfy.  A condition *)
(* is [field, op], where op, one of eq, ne, gt and so on, has the value.   *)

TransformsToInputQuery(c) ==
  \/ c.field = "Index"  /\ DOMAIN c \cap {"eq", "gt", "lt"} # {}
  \/ c.field = "Status" /\ "ne" \in DOMAIN c

TransformsToQuery(c) ==
  /\ "eq" \in DOMAIN c
  /\ \/ c.field = "Executed" /\ c.eq \in {"true", "false"}
     \/ c.field \in {"Destination", "InputIndex"}

TransformsToNoticeQuery(c) == c.field = "InputIndex" /\ "eq" \in DOMAIN c

TransformsToReportQuery(c) == c.field \in {"OutputIndex", "InputIndex"} /\ "eq" \in DOMAIN c

(* A condition that no statement is made from: the query fails.            *)
Transforms(table, c) ==
  CASE table = "inputs"   -> TransformsToInputQuery(c)
    [] table = "vouchers" -> TransformsToQuery(c)
    [] table = "notices"  -> TransformsToNoticeQuery(c)
    [] table = "reports"  -> TransformsToReportQuery(c)

Compares(number, c) ==
  CASE "eq" \in DOMAIN c -> number = c.eq
    [] "gt" \in DOMAIN c -> number > c.gt
    [] "lt" \in DOMAIN c -> number < c.lt

(* A destination, here the payload, is stored in its checksummed form and  *)
(* compared as text with the address of the filter as the caller wrote it. *)
Satisfies(row, c) ==
  CASE c.field \in {"Index", "InputIndex"} -> Compares(row.input, c)
    [] c.field = "OutputIndex" -> Compares(row.output, c)
    [] c.field = "Status"      -> row.value # c.ne
    [] c.field = "Executed"    -> (Key(row) \in executed) = (c.eq = "true")
    [] c.field = "Destination" -> c.eq.checksummed /\ c.eq.address = row.value

Query == Walks[reader.walk]

Matching(query) ==
  {row \in Rows(query.table) :
     \A k \in DOMAIN query.filter : Satisfies(row, query.filter[k])}

(* The filter of FindAllByInputIndex.                                      *)
OfInput(index) == <<[field |-> "InputIndex", eq |-> index]>>

-----------------------------------------------------------------------------
(* The client                                                              *)

(* cursor: of the last row it has, or of the first when it walks backward. *)
(* total, page: what is known between the two statements of a query.       *)
(* received, seen: how many rows the last page had, and all rows so far.   *)
(* began: where a backward walk began, behind the last row at the time.    *)
Reader ==
  [walk : DOMAIN Walks, pc : {"idle", "counted", "failed"},
   cursor : Seq([number : {TRUE}, offset : Nat]), total : Nat,
   page : [error : {"none"}, offset : Nat, limit : Nat],
   received : Nat, began : Nat, seen : Seq(Nat \X Nat)]

ReaderInit(walk) ==
  [walk |-> walk, pc |-> "idle", cursor |-> Nil, total |-> 0, page |-> PageOf(0, 0),
   received |-> 0, began |-> 0, seen |-> <<>>]

(* A client that walks backward is done when nothing precedes its page.    *)
Wants ==
  /\ reader.pc = "idle"
  /\ Query.direction = "backward" /\ reader.cursor # Nil => reader.cursor[1].offset > 0

Total == Cardinality(Matching(Query))

PageAsked(total) ==
  IF Query.direction = "forward"
  THEN ComputePage(Query.size, Nil, reader.cursor, Nil, total)
  ELSE ComputePage(Nil, Query.size, Nil, reader.cursor, total)

Fails == \E k \in DOMAIN Query.filter : ~Transforms(Query.table, Query.filter[k])

(* Faulty variant: all rows are counted, not those that match.             *)
CountRowsUnfiltered ==
  /\ Wants
  /\ UNCHANGED <<storeVars, thisLife, late, executed, executions>>
  /\ LET total == Cardinality(Rows(Query.table))
         page  == PageAsked(total)
     IN  reader' = IF Fails \/ page.error # "none"
                   THEN [reader EXCEPT !.pc = "failed"]
                   ELSE [reader EXCEPT !.pc = "counted", !.total = total, !.page = page]

(* The first statement, and the page computed from its answer.             *)
CountRows ==
  /\ Wants
  /\ UNCHANGED <<storeVars, thisLife, late, executed, executions>>
  /\ LET page == PageAsked(Total)
     IN  reader' = IF Fails \/ page.error # "none"
                   THEN [reader EXCEPT !.pc = "failed"]
                   ELSE [reader EXCEPT !.pc = "counted", !.total = Total, !.page = page]

(* The second statement, and what the client does with the page.           *)
SelectRows ==
  /\ reader.pc = "counted"
  /\ UNCHANGED <<storeVars, thisLife, late, executed, executions>>
  /\ LET from == reader.page.offset
         upto == Greater(from, Lesser(from + reader.page.limit, Total))
         rows == [k \in 1 .. (upto - from) |-> Key(RowAt(from + k - 1, Matching(Query)))]
     IN  reader' =
           [reader EXCEPT
              !.pc = "idle", !.received = Len(rows),
              !.began = IF reader.cursor = Nil THEN reader.total ELSE @,
              !.cursor = IF rows = <<>> THEN @
                         ELSE IF Query.direction = "forward" THEN <<EncodeCursor(upto - 1)>>
                         ELSE <<EncodeCursor(from)>>,
              !.seen = IF Query.direction = "forward" THEN @ \o rows ELSE rows \o @]

-----------------------------------------------------------------------------
(* The server                                                              *)

(* Faulty variant: the whole input's vouchers are updated.                 *)
WrittenRowsOfInput ==
  {key \in executed : job.writes # <<>> /\ job'.writes = Tail(job.writes)
                        /\ Head(job.writes).table = "vouchers"
                        /\ key[1] = Head(job.writes).row.input}

(* A voucher that is written, inserted or updated, is not executed.        *)
WrittenRows ==
  {key \in executed : job.writes # <<>> /\ job'.writes = Tail(job.writes)
                        /\ Head(job.writes).table = "vouchers"
                        /\ key = Key(Head(job.writes).row)}

Arrives(i) == inputs[i] = "absent" /\ inputs'[i] # "absent"

(* The inputs come as the worker reads them, in the order of the box, in   *)
(* which some may be missing; what an earlier life stored may be above.    *)
InBoxOrder == \A i \in InputIndex : Arrives(i) => \A j \in thisLife : j < i

ArrivesLate == \E i, j \in InputIndex : Arrives(i) /\ inputs[j] # "absent" /\ i < j

(* Any step of the model; a statement that fails ends a request half done, *)
(* and the process goes on.                                                *)
Serve ==
  /\ \/ OneWrite
     \/ \E accepted \in BOOLEAN : StartFinish(accepted)
     \/ StartException
     \/ WriteNext
     \/ FinishDone
     \/ ExceptionDone
     \/ DbError
     \/ InspectDbError
  /\ InBoxOrder
  /\ thisLife' = thisLife \cup {i \in InputIndex : Arrives(i)}
  /\ late' = (late \/ ArrivesLate)
  /\ executed' = executed \ WrittenRows
  /\ UNCHANGED <<executions, reader>>

(* The query under way ends with the process; its client asks again.       *)
ServerStops ==
  /\ Stop \/ Crash
  /\ thisLife' = {}
  /\ reader' = IF reader.pc = "counted"
               THEN [reader EXCEPT !.pc = "idle", !.page = PageOf(0, 0), !.received = 0]
               ELSE reader
  /\ UNCHANGED <<late, executed, executions>>

(* A voucher was executed on the chain, for all that can be seen of it.    *)
UpdateExecuted ==
  /\ executions < MaxExecutions
  /\ executions' = executions + 1
  /\ \E row \in vouchers, value \in BOOLEAN :
       executed' = IF value THEN executed \cup {Key(row)} ELSE executed \ {Key(row)}
  /\ UNCHANGED <<storeVars, thisLife, late, reader>>

QueriesInit ==
  /\ StoreInit
  /\ thisLife = {}
  /\ late = FALSE
  /\ executed = {}
  /\ executions = 0
  /\ \E w \in DOMAIN Walks : reader = ReaderInit(w)

QueriesNext == Serve \/ ServerStops \/ UpdateExecuted \/ CountRows \/ SelectRows

(* The client keeps asking, and not each of its queries is cut off by the  *)
(* end of the process.                                                     *)
QueriesSpec ==
  QueriesInit /\ [][QueriesNext]_queryVars
    /\ WF_queryVars(CountRows) /\ SF_queryVars(SelectRows)

-----------------------------------------------------------------------------
(* Properties                                                              *)

(* The type of every variable; an offset or a limit is never negative      *)
(* (SQLite takes a negative limit for no limit) and a page lies within the *)
(* total it was computed from.                                             *)
QueriesTypeOK ==
  /\ StoreTypeOK
  /\ thisLife \subseteq InputIndex
  /\ late \in BOOLEAN
  /\ executed \subseteq {Key(row) : row \in vouchers}
  /\ executions \in 0 .. MaxExecutions
  /\ reader \in Reader
  /\ reader.page.offset \in 0 .. reader.total
  /\ reader.page.limit \in 0 .. (reader.total - reader.page.offset)

NoFault == faults.crash = 0 /\ faults.dberror = 0

(* A query whose rows stay: its filter is neither on the executed flag nor *)
(* on a verdict.  A request that was cut short, by the end of the process  *)
(* or by a statement that failed, is done again, and its vouchers may get  *)
(* another destination.                                                    *)
Stays ==
  \A k \in DOMAIN Query.filter :
    /\ Transforms(Query.table, Query.filter[k])
    /\ Query.filter[k].field # "Executed"
    /\ Query.filter[k].field = "Status" => Query.filter[k].ne = "unprocessed"
    /\ Query.filter[k].field = "Destination" => NoFault

(* A query whose rows stay and come in their order.  They do not when an   *)
(* input is stored below another, which only a process that was started    *)
(* again does, and the reports of a request that is done again are stored  *)
(* again, among those before.                                              *)
Grows ==
  /\ Stays
  /\ ~late
  /\ Query.table = "reports" => NoFault

(* Page after page, a forward walk has seen the first rows of its query,   *)
(* each once and in order, though inputs arrive, are decided and are done  *)
(* again after crashes and failed statements while it goes: FindAll's      *)
(* offsets stay good as long as rows come in the order they are sorted in. *)
WalkIsPrefix ==
  (Query.direction = "forward" /\ Grows) =>
    /\ Len(reader.seen) <= Total
    /\ \A k \in DOMAIN reader.seen : reader.seen[k] = Key(RowAt(k - 1, Matching(Query)))

(* The page has as many rows as were promised when they were counted,      *)
(* whatever was written between the two statements.                        *)
PageIsFull ==
  (reader.pc = "idle" /\ Stays) => reader.received = reader.page.limit

(* A backward walk has passed over no row between where it is and the last *)
(* row there was when it began, also when its last page, with fewer rows   *)
(* left than asked for, repeats some.                                      *)
BackwardWalkHasNoHole ==
  (Query.direction = "backward" /\ Grows /\ reader.cursor # Nil) =>
    ToSet(reader.seen) =
      {Key(row) : row \in {r \in Matching(Query) :
         Offset(r, Matching(Query)) \in reader.cursor[1].offset .. (reader.began - 1)}}

(* Storing outputs never takes back that a voucher was executed, unless a  *)
(* crash or a failed statement made the input be done again: Finish writes *)
(* each voucher once.                                                      *)
ExecutedIsKept ==
  [][NoFault /\ executions' = executions => executed \subseteq executed']_queryVars

(* Served(i): whatever waits is of input i or of a later one.              *)
Served(i) ==
  inputs[i] # "absent" /\ \A j \in InputIndex : inputs[j] = "unprocessed" => i <= j

(* Begun(i): input i is decided, or something is stored of it.             *)
Begun(i) ==
  \/ Decided(i)
  \/ reports[i] # <<>>
  \/ \E r \in vouchers \cup notices : r.input = i

(* Inputs are worked on in their order: nothing is decided, stored or in   *)
(* progress of an input after one that waits or is in progress.            *)
WorkInOrder ==
  /\ \A i \in InputIndex : Begun(i) => Served(i)
  /\ state.mode = "advance" =>
       /\ Served(state.input)
       /\ \A i \in InputIndex : Begun(i) => i <= state.input

(* Until a job is cut short, no voucher that is left to write is stored,   *)
(* or to be written twice, and reports are numbered.                       *)
WrittenOnce ==
  /\ \A k \in DOMAIN job.writes : job.writes[k].table = "vouchers" =>
       /\ \A r \in vouchers : ~SameKey(r, job.writes[k].row)
       /\ \A l \in DOMAIN job.writes :
            job.writes[l].table = "vouchers" /\ SameKey(job.writes[k].row, job.writes[l].row)
              => l = k
  /\ \A i \in InputIndex : \A k \in DOMAIN reports[i] : reports[i][k].output = k - 1

(* What the client knows between its steps, and where its walk stands.     *)
ReaderFits ==
  /\ Len(reader.cursor) <= 1
  /\ reader.pc = "counted" =>
       /\ reader.page = PageAsked(reader.total)
       /\ Query.direction = "backward" /\ reader.cursor # Nil => reader.cursor[1].offset > 0
       /\ Stays => reader.total <= Total
  /\ (Query.direction = "forward" /\ Grows) =>
       reader.cursor = IF reader.seen = <<>> THEN Nil ELSE <<EncodeCursor(Len(reader.seen) - 1)>>
  /\ (Query.direction = "backward" /\ Grows) =>
       IF reader.cursor = Nil THEN reader.seen = <<>>
       ELSE /\ reader.cursor[1].offset < reader.began
            /\ reader.began <= Total
            /\ reader.cursor[1].offset = 0 \/ Asked(Query.size) <= reader.began

(* Inputs were stored in the order of the box as long as all that is       *)
(* stored is of one life of the process.                                   *)
LateIsOfAnotherLife ==
  late => \E i \in InputIndex : inputs[i] # "absent" /\ i \notin thisLife

(* The inductive invariant of the proofs (QueriesProofs).                  *)
QueriesIInv ==
  /\ QueriesTypeOK
  /\ IsFiniteSet(vouchers) /\ IsFiniteSet(notices)
  /\ LateIsOfAnotherLife
  /\ ~late => WorkInOrder
  /\ NoFault => JobAlone /\ WrittenOnce
  /\ ReaderFits
  /\ WalkIsPrefix
  /\ PageIsFull
  /\ BackwardWalkHasNoHole

Unseen(i) == {row \in Matching(Query) : row.input = i /\ Key(row) \notin ToSet(reader.seen)}

(* A client that keeps asking for the next page sees every row of its      *)
(* query in the end: neither a page that comes back empty nor a total that *)
(* is out of date makes it pass one over or its cursor invalid.            *)
WalkCatchesUp ==
  \A i \in InputIndex :
    (Query.direction = "forward" /\ Grows /\ Unseen(i) # {}) ~> (Grows => Unseen(i) = {})
=============================================================================
