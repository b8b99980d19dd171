----------------------------- MODULE ModelStore -----------------------------
(***************************************************************************)
(* AppModel with the database writes of a finish or an exception taken one *)
(* by one.  Each is a statement of its own outside any transaction, so the *)
(* process can stop, or a statement fail, between two of them.             *)
(*                                                                         *)
(* AppModel.Mutex is held from the first write to the last, so no other    *)
(* method runs meanwhile: job # NoJob is the mutex held.                   *)
(*   - Crash: the process ends with a handler under way.  A kill does it,  *)
(*     and so does a shutdown: http.go calls server.Shutdown with a        *)
(*     context already cancelled, which does not await handlers.           *)
(*   - DbError: a statement fails; the repository's or the state's panic   *)
(*     unwinds the handler, the deferred Unlock runs, echo's Recover       *)
(*     middleware answers 500 and the process goes on.                     *)
(***************************************************************************)
EXTENDS AppModel, SequencesExt

CONSTANTS
  Faults,     \* the faults that may happen, of "crash" and "dberror"
  MaxFaults   \* bound: faults in a behaviour

ASSUME StoreAssumption ==
  /\ Faults \subseteq {"crash", "dberror"}
  /\ MaxFaults \in Nat

VARIABLES
  job,        \* the finish or exception under way
  faults      \* faults so far, of each kind

storeVars == <<vars, job, faults>>

Write == [table : {"vouchers", "notices"}, row : OutputRow]
           \cup [table : {"reports"}, row : ReportRow]
           \cup [table : {"inputs"}, row : Verdict]

NoJob == [kind |-> "none", status |-> "unprocessed", writes |-> <<>>]

Job == {NoJob} \cup
       [kind : {"finish", "exception"}, status : Verdict, writes : Seq(Write)]

-----------------------------------------------------------------------------
(* The writes, in the order of the code.                                   *)

(* Faulty variant: the vouchers are written last first.                    *)
VoucherWritesLastFirst ==
  LET n == Len(state.vouchers)
  IN  [k \in DOMAIN state.vouchers |->
         [table |-> "vouchers",
          row   |-> [input |-> state.input, output |-> n - k,
                     payload |-> state.vouchers[n - k + 1]]]]

VoucherWrites ==
  [k \in DOMAIN state.vouchers |->
     [table |-> "vouchers",
      row   |-> [input |-> state.input, output |-> k - 1, payload |-> state.vouchers[k]]]]

NoticeWrites ==
  [k \in DOMAIN state.notices |->
     [table |-> "notices",
      row   |-> [input |-> state.input, output |-> k - 1, payload |-> state.notices[k]]]]

ReportWrites ==
  [k \in DOMAIN state.reports |->
     [table |-> "reports", row |-> ReportRows(state.reports)[k]]]

(* Faulty variant: writes back the status the row had when it was read.    *)
StatusWriteStale(status) == <<[table |-> "inputs", row |-> inputs[state.input]]>>

StatusWrite(status) == <<[table |-> "inputs", row |-> status]>>

(* Faulty variant: the outputs of a rejected request are kept.             *)
FinishWritesKept(status) ==
  VoucherWrites \o NoticeWrites \o ReportWrites \o StatusWrite(status)

(* Faulty variant: the status is written first, as in RegisterException.   *)
FinishWritesStatusFirst(status) ==
  StatusWrite(status)
    \o (IF status = "accepted" THEN VoucherWrites \o NoticeWrites ELSE <<>>)
    \o ReportWrites

FinishWrites(status) ==
  (IF status = "accepted" THEN VoucherWrites \o NoticeWrites ELSE <<>>)
    \o ReportWrites \o StatusWrite(status)

ExceptionWrites == StatusWrite("exception") \o ReportWrites

(* Faulty variant: the mutex is not taken.                                 *)
StartUnlocked(kind, status, writes) ==
  /\ state.mode = "advance"
  /\ job' = [kind |-> kind, status |-> status, writes |-> writes]
  /\ UNCHANGED <<vars, faults>>

Start(kind, status, writes) ==
  /\ job = NoJob
  /\ state.mode = "advance"
  /\ job' = [kind |-> kind, status |-> status, writes |-> writes]
  /\ UNCHANGED <<vars, faults>>

StartFinish(accepted) ==
  LET status == IF accepted THEN "accepted" ELSE "rejected"
  IN  Start("finish", status, FinishWrites(status))

StartException == Start("exception", "exception", ExceptionWrites)

Apply(w) ==
  /\ vouchers' = IF w.table = "vouchers" THEN Upsert(vouchers, {w.row}) ELSE vouchers
  /\ notices'  = IF w.table = "notices"  THEN Upsert(notices, {w.row})  ELSE notices
  /\ reports'  = IF w.table = "reports"
                 THEN [reports EXCEPT ![state.input] = Append(@, w.row)] ELSE reports
  /\ inputs'   = IF w.table = "inputs"
                 THEN [inputs EXCEPT ![state.input] = w.row] ELSE inputs

WriteNext ==
  /\ job.writes # <<>>
  /\ Apply(Head(job.writes))
  /\ job' = [job EXCEPT !.writes = Tail(@)]
  /\ UNCHANGED <<inspects, state, faults>>

(* All is written: the model moves on and the mutex is released.           *)
FinishDone ==
  /\ job.kind = "finish" /\ job.writes = <<>>
  /\ IsNext(state', inputs, inspects)
  /\ job' = NoJob
  /\ UNCHANGED <<tables, inspects, faults>>

ExceptionDone ==
  /\ job.kind = "exception" /\ job.writes = <<>>
  /\ state' = RollupsStateIdle
  /\ job' = NoJob
  /\ UNCHANGED <<tables, inspects, faults>>

-----------------------------------------------------------------------------
Fault(kind) ==
  /\ kind \in Faults
  /\ faults.crash + faults.dberror < MaxFaults
  /\ faults' = [faults EXCEPT ![kind] = @ + 1]

Crash ==
  /\ Fault("crash")
  /\ job # NoJob
  /\ job' = NoJob
  /\ Restart

(* The failing statement may be any of the writes, or the query for the    *)
(* next input that a finish makes after them.  The state stays in advance. *)
DbError ==
  /\ Fault("dberror")
  /\ job.writes # <<>> \/ job.kind = "finish"
  /\ job' = NoJob
  /\ UNCHANGED vars

(* The finish or exception of an inspect writes to no table but counts the *)
(* processed inputs after it has set the status, and a finish then asks    *)
(* for the next input; when one of these fails the inspect is half done,   *)
(* or done, and the state stays in inspect.                                *)
InspectDbError ==
  /\ Fault("dberror")
  /\ job = NoJob
  /\ state.mode = "inspect"
  /\ \/ \E status \in Verdict :
          inspects' = [inspects EXCEPT ![state.input].status = status]
     \/ \E status \in {"accepted", "rejected"} : InspectFinish(status)
  /\ UNCHANGED <<tables, state, job>>

-----------------------------------------------------------------------------
StoreInit ==
  /\ Init
  /\ job = NoJob
  /\ faults = [crash |-> 0, dberror |-> 0]

(* The methods that write at most one row, as in AppModel.                 *)
OneWrite ==
  /\ job = NoJob
  /\ \/ \E i \in InputIndex : AddAdvanceInput(i)
     \/ AddInspectInput
     \/ \E p \in Payload : AddOutput(p)
     \/ state.mode # "advance" /\ \E accepted \in BOOLEAN : FinishAndGetNext(accepted)
     \/ state.mode # "advance" /\ RegisterException
  /\ UNCHANGED <<job, faults>>

(* The process ends with no finish or exception under way.                 *)
Stop ==
  /\ job = NoJob
  /\ Restart
  /\ UNCHANGED <<job, faults>>

StoreNext ==
  \/ OneWrite
  \/ \E accepted \in BOOLEAN : StartFinish(accepted)
  \/ StartException
  \/ WriteNext
  \/ FinishDone
  \/ ExceptionDone
  \/ Stop
  \/ Crash
  \/ DbError
  \/ InspectDbError

StoreSpec == StoreInit /\ [][StoreNext]_storeVars

-----------------------------------------------------------------------------
(* Properties                                                              *)

(* The type of every variable, the job's writes included.                  *)
StoreTypeOK ==
  /\ TypeOK
  /\ job \in Job
  /\ faults \in [crash : 0 .. MaxFaults, dberror : 0 .. MaxFaults]

(* As long as no statement has failed, and however often the process stops *)
(* between two writes, a decided input keeps its verdict: Finish writes    *)
(* the status last, RegisterException first, and both leave an input they  *)
(* did not decide to be done again.                                        *)
StoredVerdictIsFinal ==
  [][faults.dberror = 0 =>
       \A i \in InputIndex : inputs[i] \in Verdict => inputs'[i] = inputs[i]]_storeVars

(* By the time an input shows as accepted or rejected, everything the      *)
(* request emitted for it is in the tables, and stays: no reader that      *)
(* waits for the status can miss an output, also across crashes, as long   *)
(* as no statement has failed.                                             *)
AcceptedOutputsComplete ==
  [][faults.dberror = 0 => \A i \in InputIndex :
       /\ inputs[i] = "unprocessed" /\ inputs'[i] \in {"accepted", "rejected"} =>
            /\ IsSuffix(ReportRows(state.reports), reports'[i])
            /\ inputs'[i] = "accepted" =>
                 /\ OutputRows(i, state.vouchers) \subseteq vouchers'
                 /\ OutputRows(i, state.notices) \subseteq notices'
       /\ inputs[i] \in Verdict =>
            /\ RowsOf(vouchers', i) = RowsOf(vouchers, i)
            /\ RowsOf(notices', i) = RowsOf(notices, i)]_storeVars

(* Whatever attempt of a request was cut short, and whatever a later       *)
(* attempt emits instead, the vouchers and the notices stored for an input *)
(* are numbered from 0 without a gap and no number is stored twice: a row  *)
(* left behind is found by its key and updated.                            *)
StoredIndicesGapless == GaplessTable(vouchers) /\ GaplessTable(notices)

(* Each output row that is left to write is of the input in progress, and  *)
(* whatever precedes it in number is stored or written before it.          *)
WritesInOrder(name, table) ==
  \A k \in DOMAIN job.writes : job.writes[k].table = name =>
    /\ job.writes[k].row.input = state.input
    /\ job.writes[k].row.output < MaxOutputs
    /\ \A m \in 0 .. (job.writes[k].row.output - 1) :
         \/ \E r \in table : r.input = state.input /\ r.output = m
         \/ \E j \in 1 .. (k - 1) : /\ job.writes[j].table = name
                                    /\ job.writes[j].row.output = m

StatusWritesLeft == {k \in DOMAIN job.writes : job.writes[k].table = "inputs"}

(* The mutex is held for a request in progress only, whose status is       *)
(* written once: as long as no statement has failed, an input that is not  *)
(* waiting any more is in progress only after its status was written.      *)
JobFits ==
  /\ state.mode = "advance" => state.input \in InputIndex
  /\ job # NoJob => state.mode = "advance"
  /\ \A k, l \in StatusWritesLeft : k = l
  /\ (faults.dberror = 0 /\ state.mode = "advance" /\ inputs[state.input] # "unprocessed")
       => job # NoJob /\ StatusWritesLeft = {}

(* The inductive invariant of the proofs (ModelStoreProofs).               *)
StoreIInv ==
  /\ StoreTypeOK
  /\ Emitted <= MaxOutputs
  /\ JobFits
  /\ WritesInOrder("vouchers", vouchers)
  /\ WritesInOrder("notices", notices)
  /\ StoredIndicesGapless

(* The outputs that a finish has yet to write are those the request        *)
(* emitted, and those of an accepted one are stored or yet to be written.  *)
OutputsFit(name, table, rows) ==
  /\ \A k \in DOMAIN job.writes : job.writes[k].table = name => job.writes[k].row \in rows
  /\ job.status = "accepted" =>
       \A r \in rows : r \in table \/ \E k \in DOMAIN job.writes :
                           job.writes[k].table = name /\ job.writes[k].row = r

(* The last rows of the list are the first s of those that the request     *)
(* emitted, and the others are the last writes before the status.          *)
ReportsFit(rows, list) ==
  \E s \in 0 .. Len(rows), before \in 0 .. Len(job.writes) :
    /\ Len(job.writes) = before + (Len(rows) - s) + 1
    /\ \A k \in 1 .. before : job.writes[k].table # "reports"
    /\ \A k \in 1 .. (Len(rows) - s) :
         job.writes[before + k] = [table |-> "reports", row |-> rows[s + k]]
    /\ s <= Len(list)
    /\ \A k \in 1 .. s : list[Len(list) - s + k] = rows[k]

(* What a finish has stored and what it has yet to write are all that the  *)
(* request emitted, with the status last; an exception writes no outputs.  *)
JobComplete ==
  /\ job.kind = "finish" /\ job.writes # <<>> =>
       /\ \A k \in DOMAIN job.writes :
            job.writes[k].table = "inputs" => k = Len(job.writes)
       /\ job.writes[Len(job.writes)] = [table |-> "inputs", row |-> job.status]
       /\ OutputsFit("vouchers", vouchers, OutputRows(state.input, state.vouchers))
       /\ OutputsFit("notices", notices, OutputRows(state.input, state.notices))
       /\ ReportsFit(ReportRows(state.reports), reports[state.input])
  /\ job.kind = "exception" =>
       \A k \in DOMAIN job.writes :
         /\ job.writes[k].table \in {"inputs", "reports"}
         /\ job.writes[k].table = "inputs" => job.writes[k].row = "exception"

(* The vouchers and notices of a rejected request are discarded            *)
(* (api/rollup.yaml:90).  So it is until a crash has left some behind: the *)
(* input is done again after the restart, and rejecting it then removes    *)
(* nothing.                                                                *)
RejectedHasNoOutputs ==
  \A r \in vouchers \cup notices : inputs[r.input] # "rejected"

(* An input skipped with an exception stays skipped (api/rollup.yaml:265). *)
(* Not so when saving its reports fails after its status was written: the  *)
(* state is still advance and the next finish decides the input again.     *)
ExceptionIsFinal ==
  [][\A i \in InputIndex : inputs[i] = "exception" => inputs'[i] = "exception"]_storeVars

-----------------------------------------------------------------------------
(* The refinement: without faults a job is one step of AppModel, made when *)
(* the status is written.  Before it the rows of the input are hidden;     *)
(* after it what is still to do counts as done.                            *)

Decided(i) == inputs[i] \in Verdict

InJob(i) == job # NoJob /\ state.input = i

VisibleRows(table) == {r \in table : Decided(r.input)}

PendingReports == [k \in DOMAIN job.writes |-> job.writes[k].row]

VisibleReports ==
  [i \in InputIndex |->
     IF ~Decided(i) THEN <<>>
     ELSE IF InJob(i) THEN reports[i] \o PendingReports ELSE reports[i]]

FollowingState ==
  IF job.kind = "exception" THEN RollupsStateIdle
  ELSE CHOOSE next \in {RollupsStateIdle}
                         \cup {RollupsStateAdvance(i) : i \in InputIndex}
                         \cup {RollupsStateInspect(k) : k \in DOMAIN inspects} :
         IsNext(next, inputs, inspects)

VisibleState ==
  IF job # NoJob /\ Decided(state.input) THEN FollowingState ELSE state

(* What is stored of an input that is not decided: vouchers and notices    *)
(* that its own finish has written, and no reports without a job of its.   *)
UndecidedRows ==
  \A i \in InputIndex : ~Decided(i) =>
    LET accepting == InJob(i) /\ job.status = "accepted"
    IN  /\ RowsOf(vouchers, i) \subseteq IF accepting THEN OutputRows(i, state.vouchers) ELSE {}
        /\ RowsOf(notices, i) \subseteq IF accepting THEN OutputRows(i, state.notices) ELSE {}
        /\ ~InJob(i) => reports[i] = <<>>

(* The reports a finish has left to write come right before the status,    *)
(* and as many are stored as it has written.                               *)
FinishAlone ==
  LET left == Len(job.writes)
      all  == Len(state.reports)
  IN  /\ job.status \in {"accepted", "rejected"}
      /\ \A k \in DOMAIN job.writes :
           /\ job.writes[k].table = "reports" <=> left - k \in 1 .. all
           /\ job.status # "accepted" => job.writes[k].table \notin {"vouchers", "notices"}
      /\ Len(reports[state.input]) = IF left > all THEN 0 ELSE all + 1 - left

(* An exception stores no report before its status, and no output at all.  *)
ExceptionAlone ==
  /\ job.status = "exception"
  /\ IF Decided(state.input)
     THEN /\ \A k \in DOMAIN job.writes : job.writes[k].table = "reports"
          /\ reports[state.input] \o PendingReports = ReportRows(state.reports)
     ELSE reports[state.input] = <<>> /\ job.writes = ExceptionWrites

(* Without faults a job is alone with its input: nothing is stored of one  *)
(* that is not decided but what its own finish has written, and the status *)
(* tells how far the job is.                                               *)
JobAlone ==
  /\ job # NoJob /\ StatusWritesLeft = {} => Decided(state.input)
  /\ UndecidedRows
  /\ job.kind = "finish" /\ ~Decided(state.input) => FinishAlone
  /\ job.kind = "exception" => ExceptionAlone

Atomic == INSTANCE AppModel WITH
  vouchers <- VisibleRows(vouchers),
  notices  <- VisibleRows(notices),
  reports  <- VisibleReports,
  state    <- VisibleState

(* Without faults, the writes of a finish or an exception are one atomic   *)
(* step to whoever looks at decided inputs only: AppModel is faithful to   *)
(* the code that writes row by row.                                        *)
ImplementsAppModel == Atomic!Spec
=============================================================================
