------------------------------ MODULE AppModel ------------------------------
(***************************************************************************)
(* The shared model of the server: model.AppModel, the three rollup states *)
(* it moves between (idle, advance, inspect) and the tables its            *)
(* repositories keep.  Every method of AppModel, and                       *)
(* sequencer.FinishAndGetNext, holds AppModel.Mutex from its first line to *)
(* its last, so here each is one step, made by any caller at any time.     *)
(* ModelStore takes the steps apart into the database writes they consist  *)
(* of.                                                                     *)
(*                                                                         *)
(* A method that returns an error (an output in the wrong state) changes   *)
(* nothing and is a stuttering step.                                       *)
(***************************************************************************)
EXTENDS Naturals, Sequences, FiniteSets

CONSTANTS
  InputIndex,   \* indices of the advance inputs the input box can emit
  Payload,      \* payloads of vouchers, notices and reports
  MaxInspects,  \* bound: inspect inputs added in one life of the process
  MaxOutputs    \* bound: outputs emitted for one request

ASSUME ModelAssumption ==
  /\ InputIndex \subseteq Nat
  /\ IsFiniteSet(InputIndex)
  /\ MaxInspects \in Nat
  /\ MaxOutputs \in Nat

VARIABLES
  inputs,    \* table inputs: the status of each stored input, or "absent"
  vouchers,  \* table vouchers, keyed by input and output index
  notices,   \* table notices, keyed by input and output index
  reports,   \* table reports, which has no key: per input, in insertion order
  inspects,  \* AppModel.Inspects; only in memory
  state      \* AppModel.State; only in memory

tables == <<inputs, vouchers, notices, reports>>
vars   == <<inputs, vouchers, notices, reports, inspects, state>>

Verdict     == {"accepted", "rejected", "exception"}
Status      == {"unprocessed"} \cup Verdict
OutputRow   == [input : InputIndex, output : Nat, payload : Payload]
ReportRow   == [output : Nat, payload : Payload]
InspectInput == [status : Status, processedInputCount : Nat, reports : Seq(ReportRow)]

-----------------------------------------------------------------------------
(* The rollup states.  The lists of the idle state, and the vouchers and   *)
(* notices of the inspect state, are never appended to.                    *)

Working(mode, input) ==
  [mode |-> mode, input |-> input, vouchers |-> <<>>, notices |-> <<>>, reports |-> <<>>]

RollupsStateIdle        == Working("idle", 0)
RollupsStateAdvance(i)  == Working("advance", i)
RollupsStateInspect(k)  == Working("inspect", k)

Emitted == Len(state.vouchers) + Len(state.notices) + Len(state.reports)

(* The rows a list of payloads is stored as: the output index is the       *)
(* position in the list, counted from 0.                                   *)
OutputRows(i, list) ==
  {[input |-> i, output |-> k - 1, payload |-> list[k]] : k \in DOMAIN list}

ReportRows(list) ==
  [k \in DOMAIN list |-> [output |-> k - 1, payload |-> list[k]]]

SameKey(r, s) == r.input = s.input /\ r.output = s.output

(* HandleOutput looks a row up by its key, updates it when it is there and *)
(* inserts it otherwise.                                                   *)
Upsert(table, rows) ==
  {r \in table : \A s \in rows : ~SameKey(r, s)} \cup rows

InputsWith(statuses) == {i \in InputIndex : inputs[i] \in statuses}

(* Faulty variant: does not count the input decided last.                  *)
GetProcessedInputCountOffByOne == Cardinality(InputsWith(Verdict)) - 1

GetProcessedInputCount == Cardinality(InputsWith(Verdict))

IsLeast(x, S) == x \in S /\ \A y \in S : x <= y

-----------------------------------------------------------------------------
(* Inputs come in.                                                         *)

(* Faulty variant: a row stored before is overwritten.                     *)
AddAdvanceInputOverwrites(i) ==
  /\ inputs' = [inputs EXCEPT ![i] = "unprocessed"]
  /\ UNCHANGED <<vouchers, notices, reports, inspects, state>>

(* Create returns the row it finds when the index is already stored: the   *)
(* second input of an index is dropped, whatever its content.              *)
AddAdvanceInput(i) ==
  /\ inputs[i] = "absent"
  /\ inputs' = [inputs EXCEPT ![i] = "unprocessed"]
  /\ UNCHANGED <<vouchers, notices, reports, inspects, state>>

AddInspectInput ==
  /\ Len(inspects) < MaxInspects
  /\ inspects' = Append(inspects, [status              |-> "unprocessed",
                                   processedInputCount |-> 0,
                                   reports             |-> <<>>])
  /\ UNCHANGED <<inputs, vouchers, notices, reports, state>>

-----------------------------------------------------------------------------
(* Outputs of the request in progress.                                     *)

AddVoucher(p) ==
  /\ state.mode = "advance"
  /\ Emitted < MaxOutputs
  /\ state' = [state EXCEPT !.vouchers = Append(@, p)]
  /\ UNCHANGED <<tables, inspects>>

AddNotice(p) ==
  /\ state.mode = "advance"
  /\ Emitted < MaxOutputs
  /\ state' = [state EXCEPT !.notices = Append(@, p)]
  /\ UNCHANGED <<tables, inspects>>

AddReport(p) ==
  /\ state.mode \in {"advance", "inspect"}
  /\ Emitted < MaxOutputs
  /\ state' = [state EXCEPT !.reports = Append(@, p)]
  /\ UNCHANGED <<tables, inspects>>

-----------------------------------------------------------------------------
(* The end of a request: what each state's Finish and RegisterException    *)
(* record, and the state the model moves to.                               *)

SaveAllReports ==
  reports' = [reports EXCEPT ![state.input] = @ \o ReportRows(state.reports)]

SendAllOutputsToDecoder ==
  /\ vouchers' = Upsert(vouchers, OutputRows(state.input, state.vouchers))
  /\ notices'  = Upsert(notices, OutputRows(state.input, state.notices))

IdleFinish ==
  /\ state.mode = "idle"
  /\ UNCHANGED <<tables, inspects>>

(* Faulty variant: vouchers and notices are stored whatever the status.    *)
AdvanceFinishKeepsOutputs(status) ==
  /\ state.mode = "advance"
  /\ SendAllOutputsToDecoder
  /\ SaveAllReports
  /\ inputs' = [inputs EXCEPT ![state.input] = status]
  /\ UNCHANGED inspects

AdvanceFinish(status) ==
  /\ state.mode = "advance"
  /\ \/ status = "accepted" /\ SendAllOutputsToDecoder
     \/ status # "accepted" /\ UNCHANGED <<vouchers, notices>>
  /\ SaveAllReports
  /\ inputs' = [inputs EXCEPT ![state.input] = status]
  /\ UNCHANGED inspects

InspectFinish(status) ==
  /\ state.mode = "inspect"
  /\ inspects' = [inspects EXCEPT ![state.input] =
                    [status              |-> status,
                     processedInputCount |-> GetProcessedInputCount,
                     reports             |-> ReportRows(state.reports)]]
  /\ UNCHANGED tables

Unprocessed(list) == {k \in DOMAIN list : list[k].status = "unprocessed"}

(* Faulty variant: any waiting inspect is taken, not the first.            *)
IsNextAnyInspect(next, table, list) ==
  LET waiting == Unprocessed(list)
      pending == {i \in InputIndex : table[i] = "unprocessed"}
  IN  \/ \E k \in waiting : next = RollupsStateInspect(k)
      \/ /\ waiting = {}
         /\ \E i \in pending : IsLeast(i, pending) /\ next = RollupsStateAdvance(i)
      \/ waiting = {} /\ pending = {} /\ next = RollupsStateIdle

(* The state that follows, given the tables: inspects go first, and both   *)
(* kinds in the order of their index.                                      *)
IsNext(next, table, list) ==
  LET waiting == Unprocessed(list)
      pending == {i \in InputIndex : table[i] = "unprocessed"}
  IN  \/ \E k \in waiting : /\ IsLeast(k, waiting)
                            /\ next = RollupsStateInspect(k)
      \/ /\ waiting = {}
         /\ \E i \in pending : /\ IsLeast(i, pending)
                               /\ next = RollupsStateAdvance(i)
      \/ /\ waiting = {} /\ pending = {}
         /\ next = RollupsStateIdle

FinishAndGetNext(accepted) ==
  LET status == IF accepted THEN "accepted" ELSE "rejected"
  IN  /\ IdleFinish \/ AdvanceFinish(status) \/ InspectFinish(status)
      /\ IsNext(state', inputs', inspects')

AdvanceException ==
  /\ state.mode = "advance"
  /\ inputs' = [inputs EXCEPT ![state.input] = "exception"]
  /\ SaveAllReports
  /\ UNCHANGED <<vouchers, notices, inspects>>

(* Faulty variant: the state is not reset to idle.                         *)
RegisterExceptionKeepsState ==
  /\ AdvanceException \/ InspectFinish("exception")
  /\ UNCHANGED state

RegisterException ==
  /\ AdvanceException \/ InspectFinish("exception")
  /\ state' = RollupsStateIdle

(* Faulty variant: the table of inputs is created anew.                    *)
RestartDropsInputs ==
  /\ inputs' = [i \in InputIndex |-> "absent"]
  /\ inspects' = <<>>
  /\ state' = RollupsStateIdle
  /\ UNCHANGED <<vouchers, notices, reports>>

(* The process stops between two requests and is started again.  The       *)
(* database is a file (main.go opens "sqlite3") and CreateTables keeps     *)
(* what it holds; everything else is built anew.                           *)
Restart ==
  /\ inspects' = <<>>
  /\ state' = RollupsStateIdle
  /\ UNCHANGED tables

-----------------------------------------------------------------------------
Init ==
  /\ inputs   = [i \in InputIndex |-> "absent"]
  /\ vouchers = {}
  /\ notices  = {}
  /\ reports  = [i \in InputIndex |-> <<>>]
  /\ inspects = <<>>
  /\ state    = RollupsStateIdle

AddOutput(p) == AddVoucher(p) \/ AddNotice(p) \/ AddReport(p)

Next ==
  \/ \E i \in InputIndex : AddAdvanceInput(i)
  \/ AddInspectInput
  \/ \E p \in Payload : AddOutput(p)
  \/ \E accepted \in BOOLEAN : FinishAndGetNext(accepted)
  \/ RegisterException
  \/ Restart

Spec == Init /\ [][Next]_vars

-----------------------------------------------------------------------------
(* Properties                                                              *)

(* The type of every variable (model.go, types.go, the repositories).      *)
TypeOK ==
  /\ inputs \in [InputIndex -> {"absent"} \cup Status]
  /\ vouchers \subseteq OutputRow
  /\ notices \subseteq OutputRow
  /\ reports \in [InputIndex -> Seq(ReportRow)]
  /\ inspects \in Seq(InspectInput)
  /\ state \in [mode     : {"idle", "advance", "inspect"},
                input    : Nat,
                vouchers : Seq(Payload),
                notices  : Seq(Payload),
                reports  : Seq(Payload)]

(* A voucher or notice is in the database only if its input was accepted:  *)
(* those of rejected, failed and abandoned requests are discarded          *)
(* (rollupsStateAdvance.Finish, api/rollup.yaml POST /finish).             *)
OutputsOnlyOfAccepted ==
  \A r \in vouchers \cup notices : inputs[r.input] = "accepted"

RowsOf(table, i) == {r \in table : r.input = i}

GaplessTable(table) ==
  /\ \A i \in InputIndex : \E n \in 0 .. MaxOutputs :
       {r.output : r \in RowsOf(table, i)} = 0 .. (n - 1)
  /\ \A r, s \in table : SameKey(r, s) => r = s

(* The outputs of an input are numbered from 0 without a gap, one row per  *)
(* number, also after restarts and requests done twice: the keys that      *)
(* Upsert matches on, and the positions in the keyless report table, never *)
(* collide.                                                                *)
OutputIndicesGapless ==
  /\ GaplessTable(vouchers)
  /\ GaplessTable(notices)
  /\ \A i \in InputIndex : \A k \in DOMAIN reports[i] : reports[i][k].output = k - 1

(* Inspects are answered first in, first out, and each with the number of  *)
(* inputs processed by then: later answers never report fewer, and none    *)
(* more than there are.                                                    *)
InspectCountsOrdered ==
  \A j, k \in DOMAIN inspects :
    (j <= k /\ inspects[k].status # "unprocessed") =>
      /\ inspects[j].status # "unprocessed"
      /\ inspects[j].processedInputCount <= inspects[k].processedInputCount
      /\ inspects[k].processedInputCount <= GetProcessedInputCount

(* What was decided about an input is never decided again, by whatever     *)
(* sequence of finishes, exceptions and restarts.                          *)
VerdictIsFinal ==
  [][\A i \in InputIndex : inputs[i] \in Verdict => inputs'[i] = inputs[i]]_vars

(* The request in progress is one nobody has decided yet, and the first    *)
(* inspect of those that wait: the tables, the list of inspects and the    *)
(* state in memory agree, whatever came in since it was taken.             *)
InProgressIsPending ==
  /\ state.mode = "advance" =>
       state.input \in InputIndex /\ inputs[state.input] = "unprocessed"
  /\ state.mode = "inspect" => IsLeast(state.input, Unprocessed(inspects))

(* Reports are stored for decided inputs only, so that a request done from *)
(* the start after a restart stores its reports once.                      *)
ReportsOnlyOfDecided ==
  \A i \in InputIndex : inputs[i] \notin Verdict => reports[i] = <<>>

(* The inductive invariant of the proofs (AppModelProofs).                 *)
IInv ==
  /\ TypeOK
  /\ Emitted <= MaxOutputs
  /\ InProgressIsPending
  /\ ReportsOnlyOfDecided
  /\ OutputsOnlyOfAccepted
  /\ OutputIndicesGapless
  /\ InspectCountsOrdered

-----------------------------------------------------------------------------
(* The refinement: the rows of an input become visible when its status is  *)
(* written.                                                                *)
Published ==
  [i \in InputIndex |-> ({"voucher"} \X RowsOf(vouchers, i))
                          \cup ({"notice"} \X RowsOf(notices, i))]

Lifecycle == INSTANCE InputLifecycle WITH
  Output    <- {"voucher", "notice"} \X OutputRow,
  Log       <- Seq(ReportRow),
  verdict   <- inputs,
  published <- Published,
  logged    <- reports

(* An input arrives once, is decided once, and its outputs and reports     *)
(* appear together with the decision, for accepted inputs only.            *)
ImplementsLifecycle == Lifecycle!Spec

=============================================================================
