--------------------------- MODULE AppModelProofs ---------------------------
(***************************************************************************)
(* Theorems of AppModel, for every set of inputs and payloads and every    *)
(* bound.  IInv (in AppModel) is inductive: one lemma for each action says *)
(* so, and the theorems at the end follow from it.                         *)
(***************************************************************************)
EXTENDS AppModel, FiniteSetTheorems, SequenceTheorems, TLAPS

-----------------------------------------------------------------------------
(* Lemmas on the operators of the model.                                   *)

(* A list of reports is stored as rows numbered from 0, in its order.      *)
LEMMA ReportRowsShape ==
  ASSUME NEW list \in Seq(Payload)
  PROVE  /\ ReportRows(list) \in Seq(ReportRow)
         /\ DOMAIN ReportRows(list) = 1 .. Len(list)
         /\ \A k \in 1 .. Len(list) : ReportRows(list)[k].output = k - 1
<1>1. /\ Len(list) \in Nat
      /\ DOMAIN list = 1 .. Len(list)
      /\ \A k \in 1 .. Len(list) : list[k] \in Payload
  BY LenProperties, ElementOfSeq
<1>2. ReportRows(list) \in [1 .. Len(list) -> ReportRow]
  BY <1>1, SMT DEF ReportRows, ReportRow
<1>3. ReportRows(list) \in Seq(ReportRow)
  BY <1>1, <1>2, SeqDef
<1> QED  BY <1>1, <1>2, <1>3 DEF ReportRows

(* The rows of a list of outputs: of the input given, numbered from 0      *)
(* without a gap, and no two with the same number.                         *)
LEMMA OutputRowsShape ==
  ASSUME NEW i \in InputIndex, NEW list \in Seq(Payload)
  PROVE  /\ OutputRows(i, list) \subseteq OutputRow
         /\ \A r \in OutputRows(i, list) : r.input = i
         /\ {r.output : r \in OutputRows(i, list)} = 0 .. (Len(list) - 1)
         /\ \A r, s \in OutputRows(i, list) : SameKey(r, s) => r = s
<1>1. /\ Len(list) \in Nat
      /\ DOMAIN list = 1 .. Len(list)
      /\ \A k \in 1 .. Len(list) : list[k] \in Payload
  BY LenProperties, ElementOfSeq
<1>2. OutputRows(i, list) \subseteq OutputRow
  BY <1>1 DEF OutputRows, OutputRow
<1>3. \A r \in OutputRows(i, list) : r.input = i
  BY DEF OutputRows
<1>4. {r.output : r \in OutputRows(i, list)} = 0 .. (Len(list) - 1)
  <2>1. \A r \in OutputRows(i, list) : r.output \in 0 .. (Len(list) - 1)
    BY <1>1 DEF OutputRows
  <2>2. ASSUME NEW n \in 0 .. (Len(list) - 1)
        PROVE  \E r \in OutputRows(i, list) : r.output = n
    <3> DEFINE r == [input |-> i, output |-> (n + 1) - 1, payload |-> list[n + 1]]
    <3>1. n + 1 \in DOMAIN list
      BY <1>1, <2>2
    <3>2. r \in OutputRows(i, list)
      BY <3>1 DEF OutputRows
    <3>3. r.output = n
      BY <2>2
    <3> QED  BY <3>2, <3>3
  <2> QED  BY <2>1, <2>2
<1>5. ASSUME NEW r \in OutputRows(i, list), NEW s \in OutputRows(i, list), SameKey(r, s)
      PROVE  r = s
  <2>1. PICK j \in DOMAIN list : r = [input |-> i, output |-> j - 1, payload |-> list[j]]
    BY DEF OutputRows
  <2>2. PICK k \in DOMAIN list : s = [input |-> i, output |-> k - 1, payload |-> list[k]]
    BY DEF OutputRows
  <2>3. j = k
    BY <1>1, <1>5, <2>1, <2>2 DEF SameKey
  <2> QED  BY <2>1, <2>2, <2>3
<1> QED  BY <1>2, <1>3, <1>4, <1>5

(* The outputs of a request that is accepted: of an input that has no rows *)
(* yet, and within the bound.                                              *)
FreshOutputs(table, i, list) ==
  /\ table \subseteq OutputRow
  /\ i \in InputIndex
  /\ list \in Seq(Payload) /\ Len(list) <= MaxOutputs
  /\ \A r \in table : r.input # i

(* Storing the outputs of an input that has none adds exactly these, and   *)
(* leaves the rows of every other input alone.                             *)
LEMMA UpsertFresh ==
  ASSUME NEW table, NEW i, NEW list, FreshOutputs(table, i, list)
  PROVE  /\ \A r \in Upsert(table, OutputRows(i, list)) :
              r \in table \/ r \in OutputRows(i, list)
         /\ RowsOf(Upsert(table, OutputRows(i, list)), i) = OutputRows(i, list)
         /\ \A j \in InputIndex \ {i} :
              RowsOf(Upsert(table, OutputRows(i, list)), j) = RowsOf(table, j)
<1>1. \A r \in OutputRows(i, list) : r.input = i
  BY OutputRowsShape DEF FreshOutputs
<1>2. \A r \in table : \A s \in OutputRows(i, list) : ~SameKey(r, s)
  BY <1>1 DEF SameKey, FreshOutputs
<1>3. Upsert(table, OutputRows(i, list)) = table \cup OutputRows(i, list)
  BY <1>2 DEF Upsert
<1> QED  BY <1>1, <1>3 DEF RowsOf, FreshOutputs

(* It also keeps the numbering of the table without gaps and collisions.   *)
LEMMA UpsertGapless ==
  ASSUME NEW table, NEW i, NEW list, FreshOutputs(table, i, list), GaplessTable(table)
  PROVE  GaplessTable(Upsert(table, OutputRows(i, list)))
<1> DEFINE rows == OutputRows(i, list)
           new  == Upsert(table, rows)
<1>1. /\ Len(list) \in 0 .. MaxOutputs
      /\ i \in InputIndex /\ list \in Seq(Payload)
      /\ \A r \in table : r.input # i
  BY LenProperties, ModelAssumption DEF FreshOutputs
<1>2. /\ \A r \in new : r \in table \/ r \in rows
      /\ RowsOf(new, i) = rows
      /\ \A j \in InputIndex \ {i} : RowsOf(new, j) = RowsOf(table, j)
  BY UpsertFresh
<1>3. /\ {r.output : r \in rows} = 0 .. (Len(list) - 1)
      /\ \A r \in rows : r.input = i
      /\ \A r, s \in rows : SameKey(r, s) => r = s
  BY <1>1, OutputRowsShape
<1>4. ASSUME NEW j \in InputIndex
      PROVE  \E n \in 0 .. MaxOutputs : {r.output : r \in RowsOf(new, j)} = 0 .. (n - 1)
  <2>1. CASE j = i
    BY <1>1, <1>2, <1>3, <2>1
  <2>2. CASE j # i
    <3>1. RowsOf(new, j) = RowsOf(table, j)
      BY <1>2, <2>2
    <3> QED  BY <3>1 DEF GaplessTable
  <2> QED  BY <2>1, <2>2
<1>5. \A r, s \in new : SameKey(r, s) => r = s
  BY <1>1, <1>2, <1>3 DEF SameKey, GaplessTable
<1> QED  BY <1>4, <1>5 DEF GaplessTable

(* The number of processed inputs is a number, and grows as long as no     *)
(* verdict is taken back.                                                  *)
LEMMA CountMonotonic ==
  ASSUME \A i \in InputIndex : inputs[i] \in Verdict => inputs'[i] \in Verdict
  PROVE  /\ GetProcessedInputCount \in Nat
         /\ GetProcessedInputCount' \in Nat
         /\ GetProcessedInputCount <= GetProcessedInputCount'
<1>1. InputsWith(Verdict) \subseteq InputIndex /\ InputsWith(Verdict)' \subseteq InputIndex
  BY DEF InputsWith
<1>2. IsFiniteSet(InputsWith(Verdict)) /\ IsFiniteSet(InputsWith(Verdict)')
  BY <1>1, ModelAssumption, FS_Subset
<1>3. InputsWith(Verdict) \subseteq InputsWith(Verdict)'
  BY DEF InputsWith, Verdict
<1>4. Cardinality(InputsWith(Verdict)) <= Cardinality(InputsWith(Verdict)')
  BY <1>2, <1>3, FS_Subset
<1> QED  BY <1>2, <1>4, FS_CardinalityType DEF GetProcessedInputCount

(* As long as nothing is decided the count stays as it is.                 *)
LEMMA CountUnchanged ==
  ASSUME UNCHANGED inputs
  PROVE  GetProcessedInputCount' = GetProcessedInputCount
BY DEF GetProcessedInputCount, InputsWith

(* The states the model moves to hold no output yet.                       *)
LEMMA WorkingType ==
  ASSUME NEW mode \in {"idle", "advance", "inspect"}, NEW n \in Nat
  PROVE  /\ Working(mode, n) \in [mode     : {"idle", "advance", "inspect"},
                                  input    : Nat,
                                  vouchers : Seq(Payload),
                                  notices  : Seq(Payload),
                                  reports  : Seq(Payload)]
         /\ Len(Working(mode, n).vouchers) + Len(Working(mode, n).notices)
              + Len(Working(mode, n).reports) = 0
BY EmptySeq DEF Working

StateFits ==
  /\ state \in [mode     : {"idle", "advance", "inspect"},
                input    : Nat,
                vouchers : Seq(Payload),
                notices  : Seq(Payload),
                reports  : Seq(Payload)]
  /\ Emitted <= MaxOutputs
  /\ InProgressIsPending

(* Whatever state a finish moves to is typed, empty, and about an input    *)
(* that waits.                                                             *)
LEMMA NextFits ==
  ASSUME inspects' \in Seq(InspectInput), IsNext(state', inputs', inspects')
  PROVE  StateFits'
<1> USE ModelAssumption
<1> DEFINE waiting == Unprocessed(inspects')
           pending == {i \in InputIndex : inputs'[i] = "unprocessed"}
<1>1. ASSUME NEW k \in waiting, IsLeast(k, waiting), state' = RollupsStateInspect(k)
      PROVE  StateFits'
  <2>1. k \in Nat
    BY LenProperties DEF Unprocessed
  <2> QED  BY <1>1, <2>1, WorkingType
           DEF StateFits, Emitted, InProgressIsPending, RollupsStateInspect, Working
<1>2. ASSUME NEW i \in pending, state' = RollupsStateAdvance(i)
      PROVE  StateFits'
  BY <1>2, WorkingType
     DEF StateFits, Emitted, InProgressIsPending, RollupsStateAdvance, Working
<1>3. CASE state' = RollupsStateIdle
  BY <1>3, WorkingType
     DEF StateFits, Emitted, InProgressIsPending, RollupsStateIdle, Working
<1> QED  BY <1>1, <1>2, <1>3 DEF IsNext

LEMMA IdleFits ==
  ASSUME state' = RollupsStateIdle
  PROVE  StateFits'
BY WorkingType, ModelAssumption
   DEF StateFits, Emitted, InProgressIsPending, RollupsStateIdle, Working

-----------------------------------------------------------------------------
(* The invariant in three parts: the tables, the inspects, the state.      *)

TablesFit ==
  /\ inputs \in [InputIndex -> {"absent"} \cup Status]
  /\ vouchers \subseteq OutputRow
  /\ notices \subseteq OutputRow
  /\ reports \in [InputIndex -> Seq(ReportRow)]
  /\ ReportsOnlyOfDecided
  /\ OutputsOnlyOfAccepted
  /\ OutputIndicesGapless

InspectsFit ==
  /\ inspects \in Seq(InspectInput)
  /\ InspectCountsOrdered

LEMMA IInvParts == IInv <=> TablesFit /\ InspectsFit /\ StateFits
BY DEF IInv, TypeOK, TablesFit, InspectsFit, StateFits

LEMMA IInvPartsPrime == IInv' <=> TablesFit' /\ InspectsFit' /\ StateFits'
BY DEF IInv, TypeOK, TablesFit, InspectsFit, StateFits

LEMMA TablesUnchanged ==
  ASSUME TablesFit, UNCHANGED tables
  PROVE  TablesFit'
BY DEF TablesFit, tables, ReportsOnlyOfDecided, OutputsOnlyOfAccepted,
       OutputIndicesGapless, GaplessTable, RowsOf

(* The inspects stay in order whatever is decided.                         *)
LEMMA InspectsUnchanged ==
  ASSUME InspectsFit, UNCHANGED inspects,
         \A i \in InputIndex : inputs[i] \in Verdict => inputs'[i] \in Verdict
  PROVE  InspectsFit'
<1>1. /\ GetProcessedInputCount \in Nat /\ GetProcessedInputCount' \in Nat
      /\ GetProcessedInputCount <= GetProcessedInputCount'
  BY CountMonotonic
<1>2. inspects \in Seq(InspectInput) /\ InspectCountsOrdered
  BY DEF InspectsFit
<1>3. \A k \in DOMAIN inspects : inspects[k].processedInputCount \in Nat
  <2>1. \A k \in DOMAIN inspects : inspects[k] \in InspectInput
    BY <1>2, LenProperties, ElementOfSeq
  <2> QED  BY <2>1 DEF InspectInput
<1>4. ASSUME NEW j \in DOMAIN inspects, NEW k \in DOMAIN inspects,
             j <= k, inspects[k].status # "unprocessed"
      PROVE  /\ inspects[j].status # "unprocessed"
             /\ inspects[j].processedInputCount <= inspects[k].processedInputCount
             /\ inspects[k].processedInputCount <= GetProcessedInputCount'
  <2>1. /\ inspects[j].status # "unprocessed"
        /\ inspects[j].processedInputCount <= inspects[k].processedInputCount
        /\ inspects[k].processedInputCount <= GetProcessedInputCount
    BY <1>2, <1>4 DEF InspectCountsOrdered
  <2> QED  BY <1>1, <1>3, <2>1
<1> QED  BY <1>2, <1>4 DEF InspectsFit, InspectCountsOrdered

-----------------------------------------------------------------------------
(* One lemma for each action.                                              *)

LEMMA AddAdvanceInputKeeps ==
  ASSUME IInv, NEW i \in InputIndex, AddAdvanceInput(i)
  PROVE  IInv'
<1> USE DEF AddAdvanceInput
<1>1. TablesFit /\ InspectsFit /\ StateFits
  BY IInvParts
<1>2. \A j \in InputIndex : inputs[j] \in Verdict => inputs'[j] = inputs[j]
  BY <1>1 DEF TablesFit, Verdict
<1>3. TablesFit'
  BY <1>1 DEF TablesFit, Status, Verdict, ReportsOnlyOfDecided, OutputsOnlyOfAccepted,
              OutputIndicesGapless, GaplessTable, RowsOf, OutputRow
<1>4. InspectsFit'
  BY <1>1, <1>2, InspectsUnchanged
<1>5. StateFits'
  BY <1>1 DEF StateFits, TablesFit, Emitted, InProgressIsPending
<1> QED  BY <1>3, <1>4, <1>5, IInvPartsPrime

LEMMA AddInspectInputKeeps ==
  ASSUME IInv, AddInspectInput
  PROVE  IInv'
<1> DEFINE new == [status |-> "unprocessed", processedInputCount |-> 0, reports |-> <<>>]
<1>1. TablesFit /\ InspectsFit /\ StateFits
  BY IInvParts
<1>2. TablesFit'
  BY <1>1, TablesUnchanged DEF AddInspectInput, tables
<1>3. /\ inspects' \in Seq(InspectInput)
      /\ Len(inspects) \in Nat
      /\ DOMAIN inspects = 1 .. Len(inspects)
      /\ DOMAIN inspects' = 1 .. Len(inspects) + 1
      /\ \A k \in DOMAIN inspects : inspects'[k] = inspects[k]
      /\ inspects'[Len(inspects) + 1] = new
  <2>1. inspects' = Append(inspects, new)
    BY DEF AddInspectInput
  <2>2. new \in InspectInput
    BY EmptySeq DEF InspectInput, Status
  <2>3. inspects \in Seq(InspectInput)
    BY <1>1 DEF InspectsFit
  <2> QED  BY <2>1, <2>2, <2>3, AppendProperties, LenProperties
<1>4. InspectsFit'
  <2>1. GetProcessedInputCount' = GetProcessedInputCount
    BY CountUnchanged DEF AddInspectInput
  <2>2. ASSUME NEW j \in DOMAIN inspects', NEW k \in DOMAIN inspects',
               j <= k, inspects'[k].status # "unprocessed"
        PROVE  j \in DOMAIN inspects /\ k \in DOMAIN inspects
    BY <1>3, <2>2
  <2> QED  BY <1>1, <1>3, <2>1, <2>2 DEF InspectsFit, InspectCountsOrdered
<1>5. StateFits'
  <2>1. UNCHANGED <<inputs, state>>
    BY DEF AddInspectInput
  <2>2. ASSUME state.mode = "inspect"
        PROVE  IsLeast(state.input, Unprocessed(inspects'))
    <3>1. IsLeast(state.input, Unprocessed(inspects))
      BY <1>1, <2>2 DEF StateFits, InProgressIsPending
    <3> QED  BY <1>3, <3>1 DEF IsLeast, Unprocessed
  <2> QED  BY <1>1, <2>1, <2>2 DEF StateFits, Emitted, InProgressIsPending
<1> QED  BY <1>2, <1>4, <1>5, IInvPartsPrime

(* The state a handler keeps while it works on a request.                  *)
StateTypeOK ==
  /\ state \in [mode     : {"idle", "advance", "inspect"},
                input    : Nat,
                vouchers : Seq(Payload),
                notices  : Seq(Payload),
                reports  : Seq(Payload)]
  /\ Emitted <= MaxOutputs

(* An output is appended to one of the lists, and the request stays.       *)
LEMMA AddOutputState ==
  ASSUME StateTypeOK, NEW p \in Payload, AddOutput(p)
  PROVE  StateTypeOK' /\ state'.mode = state.mode /\ state'.input = state.input
<1>1. /\ state.vouchers \in Seq(Payload) /\ Len(state.vouchers) \in Nat
      /\ state.notices \in Seq(Payload) /\ Len(state.notices) \in Nat
      /\ state.reports \in Seq(Payload) /\ Len(state.reports) \in Nat
      /\ state = [mode |-> state.mode, input |-> state.input,
                  vouchers |-> state.vouchers, notices |-> state.notices,
                  reports |-> state.reports]
      /\ state.mode \in {"idle", "advance", "inspect"} /\ state.input \in Nat
  BY LenProperties DEF StateTypeOK
<1>2. \A list \in Seq(Payload) : /\ Append(list, p) \in Seq(Payload)
                                 /\ Len(Append(list, p)) = Len(list) + 1
  BY AppendProperties
<1>3. Emitted < MaxOutputs
  BY DEF AddOutput, AddVoucher, AddNotice, AddReport
<1>4. CASE AddVoucher(p)
  <2>1. state' = [state EXCEPT !.vouchers = Append(state.vouchers, p)]
    BY <1>4 DEF AddVoucher
  <2>2. /\ state' = [mode |-> state.mode, input |-> state.input,
                     vouchers |-> state'.vouchers, notices |-> state'.notices,
                     reports |-> state'.reports]
        /\ state'.vouchers = Append(state.vouchers, p)
        /\ state'.notices = state.notices /\ state'.reports = state.reports
    BY <1>1, <2>1
  <2>3. Emitted' = Emitted + 1 /\ Emitted \in Nat
    BY <1>1, <1>2, <2>2 DEF Emitted
  <2>4. Emitted' <= MaxOutputs
    BY <1>3, <2>3, ModelAssumption
  <2>5. /\ state'.mode = state.mode /\ state'.input = state.input
        /\ state'.vouchers \in Seq(Payload)
        /\ state'.notices \in Seq(Payload)
        /\ state'.reports \in Seq(Payload)
    BY <1>1, <1>2, <2>2
  <2> QED  BY <1>1, <2>2, <2>4, <2>5 DEF StateTypeOK
<1>5. CASE AddNotice(p)
  <2>1. state' = [state EXCEPT !.notices = Append(state.notices, p)]
    BY <1>5 DEF AddNotice
  <2>2. /\ state' = [mode |-> state.mode, input |-> state.input,
                     vouchers |-> state'.vouchers, notices |-> state'.notices,
                     reports |-> state'.reports]
        /\ state'.notices = Append(state.notices, p)
        /\ state'.vouchers = state.vouchers /\ state'.reports = state.reports
    BY <1>1, <2>1
  <2>3. Emitted' = Emitted + 1 /\ Emitted \in Nat
    BY <1>1, <1>2, <2>2 DEF Emitted
  <2>4. Emitted' <= MaxOutputs
    BY <1>3, <2>3, ModelAssumption
  <2>5. /\ state'.mode = state.mode /\ state'.input = state.input
        /\ state'.vouchers \in Seq(Payload)
        /\ state'.notices \in Seq(Payload)
        /\ state'.reports \in Seq(Payload)
    BY <1>1, <1>2, <2>2
  <2> QED  BY <1>1, <2>2, <2>4, <2>5 DEF StateTypeOK
<1>6. CASE AddReport(p)
  <2>1. state' = [state EXCEPT !.reports = Append(state.reports, p)]
    BY <1>6 DEF AddReport
  <2>2. /\ state' = [mode |-> state.mode, input |-> state.input,
                     vouchers |-> state'.vouchers, notices |-> state'.notices,
                     reports |-> state'.reports]
        /\ state'.reports = Append(state.reports, p)
        /\ state'.vouchers = state.vouchers /\ state'.notices = state.notices
    BY <1>1, <2>1
  <2>3. Emitted' = Emitted + 1 /\ Emitted \in Nat
    BY <1>1, <1>2, <2>2 DEF Emitted
  <2>4. Emitted' <= MaxOutputs
    BY <1>3, <2>3, ModelAssumption
  <2>5. /\ state'.mode = state.mode /\ state'.input = state.input
        /\ state'.vouchers \in Seq(Payload)
        /\ state'.notices \in Seq(Payload)
        /\ state'.reports \in Seq(Payload)
    BY <1>1, <1>2, <2>2
  <2> QED  BY <1>1, <2>2, <2>4, <2>5 DEF StateTypeOK
<1> QED  BY <1>4, <1>5, <1>6 DEF AddOutput, StateTypeOK

LEMMA AddOutputKeeps ==
  ASSUME IInv, NEW p \in Payload, AddOutput(p)
  PROVE  IInv'
<1>1. TablesFit /\ InspectsFit /\ StateFits
  BY IInvParts
<1>2. UNCHANGED <<tables, inspects>>
  BY DEF AddOutput, AddVoucher, AddNotice, AddReport
<1>3. TablesFit' /\ InspectsFit'
  <2>1. UNCHANGED tables /\ UNCHANGED inspects /\ UNCHANGED inputs
    BY <1>2 DEF tables
  <2> QED  BY <1>1, <2>1, TablesUnchanged, InspectsUnchanged
<1>4. StateFits'
  <2>1. StateTypeOK' /\ state'.mode = state.mode /\ state'.input = state.input
    BY <1>1, AddOutputState DEF StateFits, StateTypeOK
  <2>2. UNCHANGED <<inputs, inspects>>
    BY <1>2 DEF tables
  <2> QED  BY <1>1, <2>1, <2>2 DEF StateFits, StateTypeOK, InProgressIsPending
<1> QED  BY <1>3, <1>4, IInvPartsPrime

LEMMA RestartKeeps ==
  ASSUME IInv, Restart
  PROVE  IInv'
<1>1. TablesFit'
  BY IInvParts, TablesUnchanged DEF Restart
<1>2. InspectsFit'
  BY EmptySeq DEF Restart, InspectsFit, InspectCountsOrdered
<1>3. StateFits'
  BY IdleFits DEF Restart
<1> QED  BY <1>1, <1>2, <1>3, IInvPartsPrime

(* The end of an advance request, by a finish or an exception: what the    *)
(* tables hold then.                                                       *)
AdvanceEnds(v) ==
  /\ state.mode = "advance"
  /\ inputs' = [inputs EXCEPT ![state.input] = v]
  /\ SaveAllReports
  /\ \/ v = "accepted" /\ SendAllOutputsToDecoder
     \/ v # "accepted" /\ UNCHANGED <<vouchers, notices>>
  /\ UNCHANGED inspects

(* What SendAllOutputsToDecoder does to one table.                         *)
LEMMA TableAfterAccept ==
  ASSUME NEW table, NEW i, NEW list, FreshOutputs(table, i, list), GaplessTable(table)
  PROVE  /\ Upsert(table, OutputRows(i, list)) \subseteq OutputRow
         /\ GaplessTable(Upsert(table, OutputRows(i, list)))
         /\ \A r \in Upsert(table, OutputRows(i, list)) : r \in table \/ r.input = i
         /\ \A j \in InputIndex \ {i} :
              RowsOf(Upsert(table, OutputRows(i, list)), j) = RowsOf(table, j)
<1>1. /\ \A r \in Upsert(table, OutputRows(i, list)) :
           r \in table \/ r \in OutputRows(i, list)
      /\ \A j \in InputIndex \ {i} :
           RowsOf(Upsert(table, OutputRows(i, list)), j) = RowsOf(table, j)
  BY UpsertFresh
<1>2. GaplessTable(Upsert(table, OutputRows(i, list)))
  BY UpsertGapless
<1>3. OutputRows(i, list) \subseteq OutputRow /\ \A r \in OutputRows(i, list) : r.input = i
  BY OutputRowsShape DEF FreshOutputs
<1> QED  BY <1>1, <1>2, <1>3 DEF FreshOutputs

LEMMA AdvanceEndsTables ==
  ASSUME IInv, NEW v \in Verdict, AdvanceEnds(v)
  PROVE  /\ TablesFit'
         /\ state.input \in InputIndex
         /\ inputs[state.input] = "unprocessed"
         /\ inputs' = [inputs EXCEPT ![state.input] = v]
         /\ \A j \in InputIndex \ {state.input} :
              /\ RowsOf(vouchers', j) = RowsOf(vouchers, j)
              /\ RowsOf(notices', j) = RowsOf(notices, j)
              /\ reports'[j] = reports[j]
<1> DEFINE i == state.input
<1>1. TablesFit /\ InspectsFit /\ StateFits
  BY IInvParts
<1>2. i \in InputIndex /\ inputs[i] = "unprocessed"
  BY <1>1 DEF AdvanceEnds, StateFits, InProgressIsPending
<1>3. /\ inputs \in [InputIndex -> {"absent"} \cup Status]
      /\ inputs' = [inputs EXCEPT ![i] = v]
      /\ inputs' \in [InputIndex -> {"absent"} \cup Status]
      /\ inputs'[i] = v
      /\ \A j \in InputIndex \ {i} : inputs'[j] = inputs[j]
  BY <1>1, <1>2 DEF TablesFit, AdvanceEnds, Status
<1>4. /\ state.vouchers \in Seq(Payload) /\ Len(state.vouchers) \in Nat
      /\ state.notices \in Seq(Payload) /\ Len(state.notices) \in Nat
      /\ state.reports \in Seq(Payload) /\ Len(state.reports) \in Nat
  BY <1>1, LenProperties DEF StateFits
<1>5. Len(state.vouchers) <= MaxOutputs /\ Len(state.notices) <= MaxOutputs
  BY <1>1, <1>4, ModelAssumption DEF StateFits, Emitted
<1>6. /\ vouchers \in SUBSET OutputRow /\ notices \in SUBSET OutputRow
      /\ \A r \in vouchers \cup notices : inputs[r.input] = "accepted"
      /\ \A r \in vouchers \cup notices : r.input # i
      /\ GaplessTable(vouchers) /\ GaplessTable(notices)
  BY <1>1, <1>2 DEF TablesFit, OutputsOnlyOfAccepted, OutputIndicesGapless
<1>7. reports' \in [InputIndex -> Seq(ReportRow)]
      /\ reports' = [reports EXCEPT ![i] = ReportRows(state.reports)]
  <2>1. reports \in [InputIndex -> Seq(ReportRow)] /\ reports[i] = <<>>
    BY <1>1, <1>2 DEF TablesFit, ReportsOnlyOfDecided, Verdict
  <2>2. ReportRows(state.reports) \in Seq(ReportRow)
    BY <1>4, ReportRowsShape
  <2>3. reports[i] \o ReportRows(state.reports) = ReportRows(state.reports)
    BY <2>1, <2>2, ConcatEmptySeq
  <2>4. reports' = [reports EXCEPT ![i] = reports[i] \o ReportRows(state.reports)]
    BY DEF AdvanceEnds, SaveAllReports
  <2> QED  BY <1>2, <2>1, <2>2, <2>3, <2>4
<1>8. /\ vouchers' \subseteq OutputRow /\ notices' \subseteq OutputRow
      /\ GaplessTable(vouchers') /\ GaplessTable(notices')
      /\ \A r \in vouchers' \cup notices' :
           r \in vouchers \cup notices \/ (v = "accepted" /\ r.input = i)
      /\ \A j \in InputIndex \ {i} : /\ RowsOf(vouchers', j) = RowsOf(vouchers, j)
                                     /\ RowsOf(notices', j) = RowsOf(notices, j)
  <2>1. CASE v = "accepted" /\ SendAllOutputsToDecoder
    <3>1. /\ vouchers' = Upsert(vouchers, OutputRows(i, state.vouchers))
          /\ notices' = Upsert(notices, OutputRows(i, state.notices))
      BY <2>1 DEF SendAllOutputsToDecoder
    <3>2. /\ vouchers' \subseteq OutputRow
          /\ GaplessTable(vouchers')
          /\ \A r \in vouchers' : r \in vouchers \/ r.input = i
          /\ \A j \in InputIndex \ {i} : RowsOf(vouchers', j) = RowsOf(vouchers, j)
      <4> DEFINE after == Upsert(vouchers, OutputRows(i, state.vouchers))
      <4>1. FreshOutputs(vouchers, i, state.vouchers) /\ GaplessTable(vouchers)
        BY <1>2, <1>4, <1>5, <1>6 DEF FreshOutputs
      <4>2. /\ after \subseteq OutputRow
            /\ GaplessTable(after)
            /\ \A r \in after : r \in vouchers \/ r.input = i
            /\ \A j \in InputIndex \ {i} : RowsOf(after, j) = RowsOf(vouchers, j)
        BY <4>1, TableAfterAccept
      <4> QED  BY <3>1, <4>2
    <3>3. /\ notices' \subseteq OutputRow
          /\ GaplessTable(notices')
          /\ \A r \in notices' : r \in notices \/ r.input = i
          /\ \A j \in InputIndex \ {i} : RowsOf(notices', j) = RowsOf(notices, j)
      <4> DEFINE after == Upsert(notices, OutputRows(i, state.notices))
      <4>1. FreshOutputs(notices, i, state.notices) /\ GaplessTable(notices)
        BY <1>2, <1>4, <1>5, <1>6 DEF FreshOutputs
      <4>2. /\ after \subseteq OutputRow
            /\ GaplessTable(after)
            /\ \A r \in after : r \in notices \/ r.input = i
            /\ \A j \in InputIndex \ {i} : RowsOf(after, j) = RowsOf(notices, j)
        BY <4>1, TableAfterAccept
      <4> QED  BY <3>1, <4>2
    <3> QED  BY <2>1, <3>2, <3>3
  <2>2. CASE UNCHANGED <<vouchers, notices>>
    BY <1>6, <2>2
  <2> QED  BY <2>1, <2>2 DEF AdvanceEnds
<1>9. ReportsOnlyOfDecided'
  BY <1>1, <1>3, <1>7 DEF TablesFit, ReportsOnlyOfDecided
<1>10. OutputsOnlyOfAccepted'
  BY <1>3, <1>6, <1>8 DEF OutputsOnlyOfAccepted, OutputRow
<1>11. OutputIndicesGapless'
  <2>1. ASSUME NEW j \in InputIndex, NEW k \in DOMAIN reports'[j]
        PROVE  reports'[j][k].output = k - 1
    <3>1. CASE j = i
      <4>1. reports'[j] = ReportRows(state.reports)
        BY <1>1, <1>7, <3>1 DEF TablesFit
      <4> QED  BY <1>4, <2>1, <4>1, ReportRowsShape
    <3>2. CASE j # i
      <4>1. reports'[j] = reports[j]
        BY <1>1, <1>7, <3>2 DEF TablesFit
      <4> QED  BY <1>1, <2>1, <4>1 DEF TablesFit, OutputIndicesGapless
    <3> QED  BY <3>1, <3>2
  <2> QED  BY <1>8, <2>1 DEF OutputIndicesGapless
<1>12. \A j \in InputIndex \ {i} : reports'[j] = reports[j]
  BY <1>1, <1>7 DEF TablesFit
<1> QED  BY <1>2, <1>3, <1>7, <1>8, <1>9, <1>10, <1>11, <1>12 DEF TablesFit

LEMMA AdvanceEndsInspects ==
  ASSUME IInv, NEW v \in Verdict, AdvanceEnds(v)
  PROVE  InspectsFit'
<1>1. TablesFit /\ InspectsFit
  BY IInvParts
<1>2. \A i \in InputIndex : inputs[i] \in Verdict => inputs'[i] \in Verdict
  BY <1>1, AdvanceEndsTables DEF TablesFit, Verdict
<1> QED  BY <1>1, <1>2, InspectsUnchanged DEF AdvanceEnds

(* The end of an inspect request: it was the first that waited, so those   *)
(* before it have counts no higher, and those after it have none.          *)
LEMMA InspectEnds ==
  ASSUME IInv, NEW v \in Verdict, InspectFinish(v)
  PROVE  InspectsFit'
<1> DEFINE n == state.input
           new == [status |-> v, processedInputCount |-> GetProcessedInputCount,
                   reports |-> ReportRows(state.reports)]
<1>1. TablesFit /\ InspectsFit /\ StateFits
  BY IInvParts
<1>2. IsLeast(n, Unprocessed(inspects))
  BY <1>1 DEF StateFits, InspectFinish, InProgressIsPending
<1>3. GetProcessedInputCount \in Nat /\ GetProcessedInputCount' = GetProcessedInputCount
  BY CountMonotonic, CountUnchanged DEF InspectFinish, tables
<1>4. /\ inspects \in Seq(InspectInput)
      /\ Len(inspects) \in Nat
      /\ DOMAIN inspects = 1 .. Len(inspects)
      /\ n \in 1 .. Len(inspects)
  BY <1>1, <1>2, LenProperties DEF InspectsFit, IsLeast, Unprocessed
<1>5. new \in InspectInput
  <2>1. ReportRows(state.reports) \in Seq(ReportRow)
    BY <1>1, ReportRowsShape DEF StateFits
  <2> QED  BY <1>3, <2>1 DEF InspectInput, Status
<1>6. /\ inspects' \in Seq(InspectInput)
      /\ DOMAIN inspects' = 1 .. Len(inspects)
      /\ \A k \in 1 .. Len(inspects) : inspects'[k] = IF k = n THEN new ELSE inspects[k]
  <2>1. inspects' = [inspects EXCEPT ![n] = new]
    BY DEF InspectFinish
  <2> QED  BY <1>4, <1>5, <2>1, ExceptSeq, LenProperties
<1>7. \A k \in 1 .. Len(inspects) : (k < n) => inspects[k].status # "unprocessed"
  BY <1>2, <1>4 DEF IsLeast, Unprocessed
<1>8. \A k \in 1 .. Len(inspects) : (k > n) => inspects[k].status = "unprocessed"
  <2>1. inspects[n].status = "unprocessed"
    BY <1>2 DEF IsLeast, Unprocessed
  <2> QED  BY <1>1, <1>4, <2>1 DEF InspectsFit, InspectCountsOrdered
<1>9. ASSUME NEW j \in DOMAIN inspects', NEW k \in DOMAIN inspects',
             j <= k, inspects'[k].status # "unprocessed"
      PROVE  /\ inspects'[j].status # "unprocessed"
             /\ inspects'[j].processedInputCount <= inspects'[k].processedInputCount
             /\ inspects'[k].processedInputCount <= GetProcessedInputCount'
  <2>1. k <= n
    BY <1>4, <1>6, <1>8, <1>9
  <2>2. \A m \in 1 .. Len(inspects) :
          inspects[m].status # "unprocessed" =>
            inspects[m].processedInputCount <= GetProcessedInputCount
    BY <1>1, <1>4 DEF InspectsFit, InspectCountsOrdered
  <2>3. new.status # "unprocessed" /\ new.processedInputCount = GetProcessedInputCount
    BY DEF Verdict
  <2>4. CASE k = n
    BY <1>3, <1>4, <1>6, <1>7, <1>9, <2>2, <2>3, <2>4
  <2>5. CASE k < n
    <3>1. inspects'[j] = inspects[j] /\ inspects'[k] = inspects[k]
      BY <1>4, <1>6, <1>9, <2>5
    <3> QED  BY <1>1, <1>3, <1>4, <1>6, <1>9, <3>1 DEF InspectsFit, InspectCountsOrdered
  <2> QED  BY <1>4, <1>6, <2>1, <2>4, <2>5
<1> QED  BY <1>6, <1>9 DEF InspectsFit, InspectCountsOrdered

LEMMA FinishAndGetNextKeeps ==
  ASSUME IInv, NEW accepted \in BOOLEAN, FinishAndGetNext(accepted)
  PROVE  IInv'
<1> DEFINE status == IF accepted THEN "accepted" ELSE "rejected"
<1>1. status \in Verdict
  BY DEF Verdict
<1>2. TablesFit /\ InspectsFit
  BY IInvParts
<1>3. TablesFit' /\ InspectsFit'
  <2>1. CASE IdleFinish
    <3>1. UNCHANGED tables /\ UNCHANGED inspects /\ UNCHANGED inputs
      BY <2>1 DEF IdleFinish, tables
    <3> QED  BY <1>2, <3>1, TablesUnchanged, InspectsUnchanged
  <2>2. CASE AdvanceFinish(status)
    <3>1. AdvanceEnds(status)
      BY <2>2 DEF AdvanceFinish, AdvanceEnds
    <3> QED  BY <1>1, <3>1, AdvanceEndsTables, AdvanceEndsInspects
  <2>3. CASE InspectFinish(status)
    <3>1. UNCHANGED tables
      BY <2>3 DEF InspectFinish
    <3> QED  BY <1>1, <1>2, <2>3, <3>1, InspectEnds, TablesUnchanged
  <2> QED  BY <2>1, <2>2, <2>3 DEF FinishAndGetNext
<1>4. StateFits'
  <2>1. inspects' \in Seq(InspectInput)
    BY <1>3 DEF InspectsFit
  <2> QED  BY <2>1, NextFits DEF FinishAndGetNext
<1> QED  BY <1>3, <1>4, IInvPartsPrime

LEMMA RegisterExceptionKeeps ==
  ASSUME IInv, RegisterException
  PROVE  IInv'
<1>1. "exception" \in Verdict
  BY DEF Verdict
<1>2. TablesFit' /\ InspectsFit'
  <2>1. CASE AdvanceException
    <3>1. AdvanceEnds("exception")
      BY <2>1 DEF AdvanceException, AdvanceEnds
    <3> QED  BY <1>1, <3>1, AdvanceEndsTables, AdvanceEndsInspects
  <2>2. CASE InspectFinish("exception")
    <3>1. UNCHANGED tables
      BY <2>2 DEF InspectFinish
    <3> QED  BY <1>1, <2>2, <3>1, IInvParts, InspectEnds, TablesUnchanged
  <2> QED  BY <2>1, <2>2 DEF RegisterException
<1>3. StateFits'
  BY IdleFits DEF RegisterException
<1> QED  BY <1>2, <1>3, IInvPartsPrime

LEMMA StutterKeeps ==
  ASSUME IInv, UNCHANGED vars
  PROVE  IInv'
<1>1. TablesFit /\ InspectsFit /\ StateFits
  BY IInvParts
<1>2. UNCHANGED tables /\ UNCHANGED inspects /\ UNCHANGED state /\ UNCHANGED inputs
  BY DEF vars, tables
<1>3. TablesFit' /\ InspectsFit'
  BY <1>1, <1>2, TablesUnchanged, InspectsUnchanged
<1>4. StateFits'
  BY <1>1, <1>2 DEF StateFits, Emitted, InProgressIsPending
<1> QED  BY <1>3, <1>4, IInvPartsPrime

-----------------------------------------------------------------------------
(* The theorems.                                                           *)

LEMMA InitFits == Init => IInv
<1> SUFFICES ASSUME Init PROVE IInv
  OBVIOUS
<1>1. vouchers = {} /\ notices = {}
  BY DEF Init
<1>2. GaplessTable(vouchers) /\ GaplessTable(notices)
  <2>1. 0 \in 0 .. MaxOutputs /\ {} = 0 .. (0 - 1)
    BY ModelAssumption
  <2>2. \A i \in InputIndex : {r.output : r \in RowsOf({}, i)} = {}
    BY DEF RowsOf
  <2> QED  BY <1>1, <2>1, <2>2 DEF GaplessTable
<1>3. reports = [i \in InputIndex |-> <<>>]
  BY DEF Init
<1>4. reports \in [InputIndex -> Seq(ReportRow)] /\ \A i \in InputIndex : DOMAIN reports[i] = {}
  BY <1>3, EmptySeq, LenProperties
<1>5. TablesFit
  BY <1>1, <1>2, <1>3, <1>4
     DEF TablesFit, Init, OutputIndicesGapless, ReportsOnlyOfDecided, OutputsOnlyOfAccepted
<1>6. InspectsFit
  BY EmptySeq DEF InspectsFit, Init, InspectCountsOrdered
<1>7. StateFits
  BY WorkingType, ModelAssumption
     DEF Init, StateFits, Emitted, InProgressIsPending, RollupsStateIdle, Working
<1> QED  BY <1>5, <1>6, <1>7, IInvParts

LEMMA NextKeeps == IInv /\ [Next]_vars => IInv'
<1> SUFFICES ASSUME IInv, [Next]_vars PROVE IInv'
  OBVIOUS
<1>1. CASE \E i \in InputIndex : AddAdvanceInput(i)
  BY <1>1, AddAdvanceInputKeeps
<1>2. CASE AddInspectInput
  BY <1>2, AddInspectInputKeeps
<1>3. CASE \E p \in Payload : AddOutput(p)
  BY <1>3, AddOutputKeeps
<1>4. CASE \E accepted \in BOOLEAN : FinishAndGetNext(accepted)
  BY <1>4, FinishAndGetNextKeeps
<1>5. CASE RegisterException
  BY <1>5, RegisterExceptionKeeps
<1>6. CASE Restart
  BY <1>6, RestartKeeps
<1>7. CASE UNCHANGED vars
  BY <1>7, StutterKeeps
<1> QED  BY <1>1, <1>2, <1>3, <1>4, <1>5, <1>6, <1>7 DEF Next

(* The inductive invariant holds in every behaviour.                       *)
THEOREM Invariance == Spec => []IInv
BY InitFits, NextKeeps, PTL DEF Spec

(* Every variable keeps its type.                                          *)
THEOREM TypeCorrect == Spec => []TypeOK
<1>1. IInv => TypeOK
  BY DEF IInv
<1> QED  BY <1>1, Invariance, PTL

(* The database holds vouchers and notices of accepted inputs only, after  *)
(* any sequence of requests, exceptions and restarts.                      *)
THEOREM OnlyAcceptedPublish == Spec => []OutputsOnlyOfAccepted
<1>1. IInv => OutputsOnlyOfAccepted
  BY DEF IInv
<1> QED  BY <1>1, Invariance, PTL

(* The outputs of an input are numbered without gaps and collisions.       *)
THEOREM IndicesGapless == Spec => []OutputIndicesGapless
<1>1. IInv => OutputIndicesGapless
  BY DEF IInv
<1> QED  BY <1>1, Invariance, PTL

(* Inspects are answered in order, with counts that never go down.         *)
THEOREM CountsOrdered == Spec => []InspectCountsOrdered
<1>1. IInv => InspectCountsOrdered
  BY DEF IInv
<1> QED  BY <1>1, Invariance, PTL

(* The steps, as the lifecycle of the inputs sees them: a new input, a     *)
(* decision, or nothing.                                                   *)
LEMMA StepCases ==
  ASSUME IInv, [Next]_vars
  PROVE  \/ \E i \in InputIndex : AddAdvanceInput(i)
         \/ \E v \in Verdict : AdvanceEnds(v)
         \/ UNCHANGED tables
<1>1. CASE \E p \in Payload : AddOutput(p)
  BY <1>1 DEF AddOutput, AddVoucher, AddNotice, AddReport
<1>2. CASE \E accepted \in BOOLEAN : FinishAndGetNext(accepted)
  <2>1. PICK accepted \in BOOLEAN : FinishAndGetNext(accepted)
    BY <1>2
  <2> DEFINE status == IF accepted THEN "accepted" ELSE "rejected"
  <2>2. status \in Verdict
    BY DEF Verdict
  <2>3. AdvanceFinish(status) => AdvanceEnds(status)
    BY DEF AdvanceFinish, AdvanceEnds
  <2> QED  BY <2>1, <2>2, <2>3 DEF FinishAndGetNext, IdleFinish, InspectFinish
<1>3. CASE RegisterException
  <2>1. AdvanceException => AdvanceEnds("exception")
    BY DEF AdvanceException, AdvanceEnds
  <2>2. "exception" \in Verdict
    BY DEF Verdict
  <2> QED  BY <1>3, <2>1, <2>2 DEF RegisterException, InspectFinish
<1> QED  BY <1>1, <1>2, <1>3 DEF Next, AddInspectInput, Restart, vars, tables

LEMMA StepKeepsVerdicts ==
  ASSUME IInv, [Next]_vars
  PROVE  \A i \in InputIndex : inputs[i] \in Verdict => inputs'[i] = inputs[i]
<1>1. inputs \in [InputIndex -> {"absent"} \cup Status]
  BY DEF IInv, TypeOK
<1>2. CASE \E i \in InputIndex : AddAdvanceInput(i)
  BY <1>1, <1>2 DEF AddAdvanceInput, Verdict
<1>3. CASE \E v \in Verdict : AdvanceEnds(v)
  BY <1>1, <1>3, AdvanceEndsTables DEF Verdict
<1>4. CASE UNCHANGED tables
  BY <1>4 DEF tables
<1> QED  BY <1>2, <1>3, <1>4, StepCases

(* What was decided about an input stays decided.                          *)
THEOREM VerdictsAreFinal == Spec => VerdictIsFinal
<1>1. IInv /\ [Next]_vars =>
        [\A i \in InputIndex : inputs[i] \in Verdict => inputs'[i] = inputs[i]]_vars
  BY StepKeepsVerdicts
<1> QED  BY <1>1, Invariance, PTL DEF Spec, VerdictIsFinal

-----------------------------------------------------------------------------
(* The refinement.                                                         *)

(* What is published of an input: the rows of its own, with the right type.*)
LEMMA PublishedShape ==
  /\ Published = [i \in InputIndex |-> Published[i]]
  /\ \A i \in InputIndex : Published[i] = ({"voucher"} \X RowsOf(vouchers, i))
                                            \cup ({"notice"} \X RowsOf(notices, i))
BY DEF Published

LEMMA InitRefines == Init => Lifecycle!Init
<1> SUFFICES ASSUME Init PROVE Lifecycle!Init
  OBVIOUS
<1>1. \A i \in InputIndex : RowsOf(vouchers, i) = {} /\ RowsOf(notices, i) = {}
  BY DEF Init, RowsOf
<1>2. Published = [i \in InputIndex |-> {}]
  BY <1>1 DEF Published
<1> QED  BY <1>2 DEF Init, Lifecycle!Init

LEMMA TablesUnchangedRefines ==
  ASSUME UNCHANGED tables
  PROVE  UNCHANGED Lifecycle!lifecycleVars
BY DEF tables, Published, RowsOf, Lifecycle!lifecycleVars

LEMMA ArriveRefines ==
  ASSUME NEW i \in InputIndex, AddAdvanceInput(i)
  PROVE  Lifecycle!Arrive(i)
BY DEF AddAdvanceInput, Lifecycle!Arrive, Published, RowsOf

LEMMA DecideRefines ==
  ASSUME IInv, NEW v \in Verdict, AdvanceEnds(v)
  PROVE  Lifecycle!Decide(state.input, v)
<1> DEFINE i == state.input
           Output == {"voucher", "notice"} \X OutputRow
<1>1. /\ TablesFit'
      /\ i \in InputIndex
      /\ inputs[i] = "unprocessed"
      /\ inputs' = [inputs EXCEPT ![i] = v]
      /\ \A j \in InputIndex \ {i} : /\ RowsOf(vouchers', j) = RowsOf(vouchers, j)
                                     /\ RowsOf(notices', j) = RowsOf(notices, j)
                                     /\ reports'[j] = reports[j]
  BY AdvanceEndsTables
<1>2. Published' = [j \in InputIndex |-> ({"voucher"} \X RowsOf(vouchers', j))
                                           \cup ({"notice"} \X RowsOf(notices', j))]
  BY DEF Published, RowsOf
<1>3. Published' \in [InputIndex -> SUBSET Output]
  <2>1. \A j \in InputIndex : RowsOf(vouchers', j) \subseteq OutputRow
                                /\ RowsOf(notices', j) \subseteq OutputRow
    BY <1>1 DEF TablesFit, RowsOf
  <2> QED  BY <1>2, <2>1
<1>4. reports' \in [InputIndex -> Seq(ReportRow)]
  BY <1>1 DEF TablesFit
<1>5. v # "accepted" => Published'[i] = {}
  <2>1. IInv => inputs \in [InputIndex -> {"absent"} \cup Status]
    BY DEF IInv, TypeOK
  <2>2. inputs'[i] = v
    BY <1>1, <2>1
  <2>3. v # "accepted" => RowsOf(vouchers', i) = {} /\ RowsOf(notices', i) = {}
    BY <1>1, <2>2 DEF TablesFit, OutputsOnlyOfAccepted, RowsOf
  <2> QED  BY <1>1, <1>2, <2>3
<1>6. \A j \in InputIndex \ {i} : Published'[j] = Published[j]
  BY <1>1, <1>2 DEF Published
<1> QED  BY <1>1, <1>3, <1>4, <1>5, <1>6 DEF Lifecycle!Decide

LEMMA StepRefines ==
  ASSUME IInv, [Next]_vars
  PROVE  [Lifecycle!Next]_(Lifecycle!lifecycleVars)
<1>1. CASE \E i \in InputIndex : AddAdvanceInput(i)
  BY <1>1, ArriveRefines DEF Lifecycle!Next
<1>2. CASE \E v \in Verdict : AdvanceEnds(v)
  <2>1. PICK v \in Verdict : AdvanceEnds(v)
    BY <1>2
  <2>2. state.input \in InputIndex
    BY <2>1, AdvanceEndsTables
  <2>3. Lifecycle!Decide(state.input, v)
    BY <2>1, DecideRefines
  <2> QED  BY <2>1, <2>2, <2>3 DEF Lifecycle!Next, Verdict
<1>3. CASE UNCHANGED tables
  BY <1>3, TablesUnchangedRefines
<1> QED  BY <1>1, <1>2, <1>3, StepCases

(* The model implements the lifecycle: an input arrives once, is decided   *)
(* once, and what was emitted for it appears with the decision.            *)
THEOREM Refinement == Spec => ImplementsLifecycle
<1>1. IInv /\ [Next]_vars => [Lifecycle!Next]_(Lifecycle!lifecycleVars)
  BY StepRefines
<1> QED  BY <1>1, InitRefines, Invariance, PTL DEF Spec, ImplementsLifecycle, Lifecycle!Spec
=============================================================================
