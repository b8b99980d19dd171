------------------------- MODULE StoreOutputsProofs -------------------------
(***************************************************************************)
(* Theorems of ModelStore about what is stored by the time an input shows  *)
(* as decided, for every set of inputs and payloads and every bound.       *)
(*   - With any number of faults: JobComplete is inductive relative to     *)
(*     StoreIInv, and outputs are complete.                                *)
(*   - Without faults: JobAlone is inductive relative to both, and the     *)
(*     writes of a job are one step of AppModel.                           *)
(***************************************************************************)
EXTENDS ModelStoreProofs

-----------------------------------------------------------------------------
(* JobComplete, of any list of writes and any tables.                      *)

OutputsIn(w, status, name, table, rows) ==
  /\ \A k \in DOMAIN w : w[k].table = name => w[k].row \in rows
  /\ status = "accepted" =>
       \A r \in rows : r \in table \/ \E k \in DOMAIN w : w[k].table = name /\ w[k].row = r

ReportsIn(w, rows, list) ==
  \E s \in 0 .. Len(rows), before \in 0 .. Len(w) :
    /\ Len(w) = before + (Len(rows) - s) + 1
    /\ \A k \in 1 .. before : w[k].table # "reports"
    /\ \A k \in 1 .. (Len(rows) - s) : w[before + k] = [table |-> "reports", row |-> rows[s + k]]
    /\ s <= Len(list)
    /\ \A k \in 1 .. s : list[Len(list) - s + k] = rows[k]

StatusLast(w, status) ==
  /\ \A k \in DOMAIN w : w[k].table = "inputs" => k = Len(w)
  /\ w[Len(w)] = [table |-> "inputs", row |-> status]

Vouchers == OutputRows(state.input, state.vouchers)
Notices  == OutputRows(state.input, state.notices)
Reports  == ReportRows(state.reports)

FinishFits(w, status, vs, ns, list) ==
  /\ StatusLast(w, status)
  /\ OutputsIn(w, status, "vouchers", vs, Vouchers)
  /\ OutputsIn(w, status, "notices", ns, Notices)
  /\ ReportsIn(w, Reports, list)

ExceptionFits(w) ==
  \A k \in DOMAIN w : /\ w[k].table \in {"inputs", "reports"}
                      /\ w[k].table = "inputs" => w[k].row = "exception"

LEMMA CompleteParts ==
  JobComplete <=>
    /\ job.kind = "finish" /\ job.writes # <<>> =>
         FinishFits(job.writes, job.status, vouchers, notices, reports[state.input])
    /\ job.kind = "exception" => ExceptionFits(job.writes)
BY DEF JobComplete, FinishFits, ExceptionFits, StatusLast, OutputsIn, ReportsIn, OutputsFit,
       ReportsFit, Vouchers, Notices, Reports

LEMMA CompletePartsPrime ==
  ASSUME state' = state
  PROVE  JobComplete' <=>
           /\ job'.kind = "finish" /\ job'.writes # <<>> =>
                FinishFits(job'.writes, job'.status, vouchers', notices', reports'[state.input])
           /\ job'.kind = "exception" => ExceptionFits(job'.writes)
BY DEF JobComplete, FinishFits, ExceptionFits, StatusLast, OutputsIn, ReportsIn, OutputsFit,
       ReportsFit, Vouchers, Notices, Reports

LEMMA NoJobComplete ==
  ASSUME job' = NoJob
  PROVE  JobComplete'
BY DEF JobComplete, NoJob

-----------------------------------------------------------------------------
(* The lists a job starts with.                                            *)

(* The output writes that a finish starts with, and those of the reports   *)
(* and of the status after them.                                           *)
LEMMA FinishWritesShape ==
  ASSUME StateTyped, NEW status \in {"accepted", "rejected"}
  PROVE  \E outputs \in Seq(Write) :
           /\ FinishWrites(status) \in Seq(Write)
           /\ Len(outputs) \in Nat /\ Len(state.reports) \in Nat
           /\ Len(FinishWrites(status)) = Len(outputs) + Len(state.reports) + 1
           /\ \A k \in 1 .. Len(outputs) : FinishWrites(status)[k] = outputs[k]
           /\ \A k \in 1 .. Len(state.reports) :
                FinishWrites(status)[Len(outputs) + k] = ReportWrites[k]
           /\ FinishWrites(status)[Len(outputs) + Len(state.reports) + 1]
                = [table |-> "inputs", row |-> status]
           /\ outputs = IF status = "accepted" THEN VoucherWrites \o NoticeWrites ELSE <<>>
<1> DEFINE outputs == IF status = "accepted" THEN VoucherWrites \o NoticeWrites ELSE <<>>
           both == outputs \o ReportWrites
           last == StatusWrite(status)
<1>1. outputs \in Seq(Write)
  BY WritesShape, ConcatWrites, EmptySeq
<1>2. FinishWrites(status) = both \o last
  BY DEF FinishWrites
<1>3. status \in Verdict
  BY DEF Verdict
<1>4. last \in Seq(Write) /\ Len(last) = 1 /\ last[1] = [table |-> "inputs", row |-> status]
  BY <1>3, StatusWriteShape
<1>5. ReportWrites \in Seq(Write) /\ Len(ReportWrites) = Len(state.reports)
  BY WritesShape
<1> HIDE DEF outputs
<1>6. /\ both \in Seq(Write) /\ Len(outputs) \in Nat /\ Len(state.reports) \in Nat
      /\ Len(both) = Len(outputs) + Len(state.reports)
      /\ \A k \in 1 .. Len(outputs) : both[k] = outputs[k]
      /\ \A k \in 1 .. Len(state.reports) : both[Len(outputs) + k] = ReportWrites[k]
  <2>1. /\ both \in Seq(Write)
        /\ Len(outputs) \in Nat /\ Len(ReportWrites) \in Nat
        /\ Len(both) = Len(outputs) + Len(ReportWrites)
    BY <1>1, <1>5, ConcatWrites
  <2>2. \A k \in 1 .. Len(outputs) : both[k] = outputs[k]
    BY <1>1, <1>5, ConcatWrites
  <2>3. \A k \in 1 .. Len(ReportWrites) : both[Len(outputs) + k] = ReportWrites[k]
    BY <1>1, <1>5, ConcatWrites
  <2> HIDE DEF both
  <2> QED  BY <1>5, <2>1, <2>2, <2>3
<1> HIDE DEF both, last
<1>7. /\ both \o last \in Seq(Write) /\ Len(both) \in Nat /\ Len(both \o last) = Len(both) + 1
      /\ \A k \in 1 .. Len(both) : (both \o last)[k] = both[k]
      /\ (both \o last)[Len(both) + 1] = last[1]
  <2>1. /\ both \o last \in Seq(Write)
        /\ Len(both) \in Nat /\ Len(both \o last) = Len(both) + Len(last)
        /\ \A k \in 1 .. Len(both) : (both \o last)[k] = both[k]
    BY <1>4, <1>6, ConcatWrites
  <2>2. \A k \in 1 .. Len(last) : (both \o last)[Len(both) + k] = last[k]
    BY <1>4, <1>6, ConcatWrites
  <2>3. 1 \in 1 .. Len(last)
    BY <1>4
  <2> QED  BY <1>4, <2>1, <2>2, <2>3
<1>8. \A k \in 1 .. Len(outputs) : (both \o last)[k] = outputs[k]
  BY <1>6, <1>7
<1>9. \A k \in 1 .. Len(state.reports) : (both \o last)[Len(outputs) + k] = ReportWrites[k]
  <2>1. \A k \in 1 .. Len(state.reports) : Len(outputs) + k \in 1 .. Len(both)
    BY <1>6
  <2> QED  BY <1>6, <1>7, <2>1
<1> QED  BY <1>1, <1>2, <1>4, <1>6, <1>7, <1>8, <1>9 DEF outputs

(* The output writes are of the vouchers and the notices emitted, all of   *)
(* them if the request is accepted.                                        *)
LEMMA OutputWritesShape ==
  ASSUME StateTyped, NEW status, NEW outputs \in Seq(Write),
         outputs = IF status = "accepted" THEN VoucherWrites \o NoticeWrites ELSE <<>>
  PROVE  /\ \A k \in DOMAIN outputs : outputs[k].table \in {"vouchers", "notices"}
         /\ \A vs : OutputsIn(outputs, status, "vouchers", vs, Vouchers)
         /\ \A ns : OutputsIn(outputs, status, "notices", ns, Notices)
<1>1. /\ Len(state.vouchers) \in Nat /\ DOMAIN state.vouchers = 1 .. Len(state.vouchers)
      /\ Len(state.notices) \in Nat /\ DOMAIN state.notices = 1 .. Len(state.notices)
  BY LenProperties DEF StateTyped
<1>2. CASE status = "accepted"
  <2> DEFINE v == VoucherWrites
             n == NoticeWrites
  <2>1. /\ v \in Seq(Write) /\ Len(v) = Len(state.vouchers)
        /\ n \in Seq(Write) /\ Len(n) = Len(state.notices)
    BY WritesShape
  <2>2. /\ \A k \in 1 .. Len(v) : /\ v[k].table = "vouchers" /\ v[k].row \in Vouchers
        /\ \A r \in Vouchers : \E k \in 1 .. Len(v) : v[k].row = r
    BY <1>1, <2>1 DEF VoucherWrites, Vouchers, OutputRows
  <2>3. /\ \A k \in 1 .. Len(n) : /\ n[k].table = "notices" /\ n[k].row \in Notices
        /\ \A r \in Notices : \E k \in 1 .. Len(n) : n[k].row = r
    BY <1>1, <2>1 DEF NoticeWrites, Notices, OutputRows
  <2> HIDE DEF v, n
  <2>4. /\ outputs = v \o n
        /\ DOMAIN outputs = 1 .. (Len(v) + Len(n)) /\ Len(v) \in Nat /\ Len(n) \in Nat
        /\ \A k \in 1 .. Len(v) : outputs[k] = v[k]
        /\ \A k \in 1 .. Len(n) : outputs[Len(v) + k] = n[k]
    <3>1. outputs = v \o n
      BY <1>2 DEF v, n
    <3>2. /\ v \o n \in Seq(Write) /\ Len(v) \in Nat /\ Len(n) \in Nat
          /\ Len(v \o n) = Len(v) + Len(n)
      BY <2>1, ConcatWrites
    <3>3. DOMAIN outputs = 1 .. Len(outputs)
      BY LenProperties
    <3>4. \A k \in 1 .. Len(v) : (v \o n)[k] = v[k]
      BY <2>1, ConcatWrites
    <3>5. \A k \in 1 .. Len(n) : (v \o n)[Len(v) + k] = n[k]
      BY <2>1, ConcatWrites
    <3> QED  BY <3>1, <3>2, <3>3, <3>4, <3>5
  <2>5. ASSUME NEW k \in DOMAIN outputs
        PROVE  \/ outputs[k].table = "vouchers" /\ outputs[k].row \in Vouchers
               \/ outputs[k].table = "notices" /\ outputs[k].row \in Notices
    <3>1. CASE k \in 1 .. Len(v)
      BY <2>2, <2>4, <3>1
    <3>2. CASE k \notin 1 .. Len(v)
      <4>1. k - Len(v) \in 1 .. Len(n) /\ Len(v) + (k - Len(v)) = k
        BY <2>4, <2>5, <3>2
      <4>2. outputs[k] = n[k - Len(v)]
        BY <2>4, <4>1
      <4> QED  BY <2>3, <4>1, <4>2
    <3> QED  BY <3>1, <3>2
  <2>6. ASSUME NEW r \in Vouchers
        PROVE  \E k \in DOMAIN outputs : outputs[k].table = "vouchers" /\ outputs[k].row = r
    <3>1. PICK k \in 1 .. Len(v) : v[k].row = r
      BY <2>2, <2>6
    <3>2. k \in DOMAIN outputs
      BY <2>4
    <3> QED  BY <2>2, <2>4, <3>1, <3>2
  <2>7. ASSUME NEW r \in Notices
        PROVE  \E k \in DOMAIN outputs : outputs[k].table = "notices" /\ outputs[k].row = r
    <3>1. PICK k \in 1 .. Len(n) : n[k].row = r
      BY <2>3, <2>7
    <3>2. Len(v) + k \in DOMAIN outputs
      BY <2>4
    <3> QED  BY <2>3, <2>4, <3>1, <3>2, ZenonT(60)
  <2> QED  BY <2>5, <2>6, <2>7 DEF OutputsIn
<1>3. CASE status # "accepted"
  <2>1. DOMAIN outputs = {}
    BY <1>3, EmptySeq, LenProperties
  <2> QED  BY <1>3, <2>1 DEF OutputsIn
<1> QED  BY <1>2, <1>3

(* A finish starts with all that was emitted, none of it stored by it.     *)
LEMMA FinishStarts ==
  ASSUME StateTyped, NEW status \in {"accepted", "rejected"},
         NEW vs, NEW ns, NEW list \in Seq(ReportRow)
  PROVE  FinishFits(FinishWrites(status), status, vs, ns, list)
<1> DEFINE w == FinishWrites(status)
           n == Len(state.reports)
<1>1. PICK outputs \in Seq(Write) :
        /\ w \in Seq(Write)
        /\ Len(outputs) \in Nat /\ n \in Nat
        /\ Len(w) = Len(outputs) + n + 1
        /\ \A k \in 1 .. Len(outputs) : w[k] = outputs[k]
        /\ \A k \in 1 .. n : w[Len(outputs) + k] = ReportWrites[k]
        /\ w[Len(outputs) + n + 1] = [table |-> "inputs", row |-> status]
        /\ outputs = IF status = "accepted" THEN VoucherWrites \o NoticeWrites ELSE <<>>
  BY FinishWritesShape
<1>2. /\ \A k \in DOMAIN outputs : outputs[k].table \in {"vouchers", "notices"}
      /\ OutputsIn(outputs, status, "vouchers", vs, Vouchers)
      /\ OutputsIn(outputs, status, "notices", ns, Notices)
  BY <1>1, OutputWritesShape
<1>3. /\ Reports \in Seq(ReportRow) /\ Len(Reports) = n
      /\ \A k \in 1 .. n : /\ ReportWrites[k] = [table |-> "reports", row |-> Reports[k]]
                           /\ ReportWrites[k].table = "reports"
  <2>1. DOMAIN state.reports = 1 .. n /\ Reports \in Seq(ReportRow)
    BY ReportRowsShape, LenProperties DEF StateTyped, Reports
  <2>2. DOMAIN Reports = 1 .. n
    BY ReportRowsShape DEF StateTyped, Reports
  <2>3. Len(Reports) = n
    BY <1>1, <2>1, <2>2, LenProperties
  <2>4. \A k \in 1 .. n : ReportWrites[k].table = "reports"
    BY WritesShape
  <2> QED  BY <2>1, <2>3, <2>4 DEF ReportWrites, Reports
<1>4. DOMAIN w = 1 .. Len(w) /\ DOMAIN outputs = 1 .. Len(outputs) /\ Len(list) \in Nat
  BY <1>1, LenProperties
<1> HIDE DEF w, n
<1>5. ASSUME NEW k \in DOMAIN w
      PROVE  \/ k \in DOMAIN outputs /\ w[k] = outputs[k]
             \/ w[k].table = "reports"
             \/ k = Len(w)
  <2>1. CASE k \in 1 .. Len(outputs)
    BY <1>1, <1>4, <2>1
  <2>2. CASE k \notin 1 .. Len(outputs) /\ k # Len(w)
    <3>1. k - Len(outputs) \in 1 .. n /\ Len(outputs) + (k - Len(outputs)) = k
      BY <1>1, <1>4, <2>2
    <3>2. w[k] = ReportWrites[k - Len(outputs)]
      BY <1>1, <3>1
    <3> QED  BY <1>3, <3>1, <3>2
  <2> QED  BY <2>1, <2>2
<1>6. Len(w) \in DOMAIN w /\ w[Len(w)] = [table |-> "inputs", row |-> status]
  BY <1>1, <1>4
<1>7. StatusLast(w, status)
  BY <1>2, <1>5, <1>6 DEF StatusLast
<1>8. ASSUME NEW name \in {"vouchers", "notices"}, NEW table, NEW rows,
             OutputsIn(outputs, status, name, table, rows)
      PROVE  OutputsIn(w, status, name, table, rows)
  <2>1. \A k \in DOMAIN outputs : k \in DOMAIN w /\ w[k] = outputs[k]
    BY <1>1, <1>4
  <2>2. \A k \in DOMAIN w : w[k].table = name => k \in DOMAIN outputs
    BY <1>5, <1>6
  <2> QED  BY <1>8, <2>1, <2>2 DEF OutputsIn
<1>9. ReportsIn(w, Reports, list)
  <2>1. 0 \in 0 .. Len(Reports) /\ Len(outputs) \in 0 .. Len(w) /\ 0 <= Len(list)
    BY <1>1, <1>3, <1>4
  <2>2. Len(w) = Len(outputs) + (Len(Reports) - 0) + 1
    BY <1>1, <1>3
  <2>3. \A k \in 1 .. Len(outputs) : w[k].table # "reports"
    BY <1>1, <1>2, <1>4
  <2>4. \A k \in 1 .. (Len(Reports) - 0) :
          w[Len(outputs) + k] = [table |-> "reports", row |-> Reports[0 + k]]
    <3>1. ASSUME NEW k \in 1 .. (Len(Reports) - 0)
          PROVE  w[Len(outputs) + k] = [table |-> "reports", row |-> Reports[0 + k]]
      <4>1. k \in 1 .. n /\ 0 + k = k
        BY <1>1, <1>3, <3>1
      <4> QED  BY <1>1, <1>3, <4>1
    <3> QED  BY <3>1
  <2>5. \A k \in 1 .. 0 : list[Len(list) - 0 + k] = Reports[k]
    OBVIOUS
  <2> QED  BY <2>1, <2>2, <2>3, <2>4, <2>5 DEF ReportsIn
<1> QED  BY <1>2, <1>7, <1>8, <1>9 DEF FinishFits, w

LEMMA ExceptionStarts ==
  ASSUME StateTyped
  PROVE  ExceptionFits(ExceptionWrites)
<1> DEFINE s == StatusWrite("exception")
           t == ReportWrites
<1>1. "exception" \in Verdict
  BY DEF Verdict
<1>2. /\ s \in Seq(Write) /\ Len(s) = 1
      /\ s[1] = [table |-> "inputs", row |-> "exception"]
      /\ t \in Seq(Write) /\ \A k \in 1 .. Len(t) : t[k].table = "reports"
  BY <1>1, StatusWriteShape, WritesShape
<1>3. ExceptionWrites = s \o t
  BY DEF ExceptionWrites
<1> HIDE DEF s, t
<1>4. /\ s \o t \in Seq(Write) /\ Len(t) \in Nat /\ Len(s \o t) = Len(s) + Len(t)
      /\ \A k \in 1 .. Len(s) : (s \o t)[k] = s[k]
  BY <1>2, ConcatWrites
<1>5. \A k \in 1 .. Len(t) : (s \o t)[Len(s) + k] = t[k]
  BY <1>2, ConcatWrites
<1>6. ASSUME NEW k \in DOMAIN (s \o t)
      PROVE  (k = 1 /\ (s \o t)[k] = s[1]) \/ (s \o t)[k].table = "reports"
  <2>1. k \in 1 .. (1 + Len(t))
    BY <1>2, <1>4, LenProperties
  <2>2. CASE k = 1
    BY <1>2, <1>4, <2>2
  <2>3. CASE k # 1
    <3>1. k - 1 \in 1 .. Len(t) /\ 1 + (k - 1) = k
      BY <1>4, <2>1, <2>3
    <3> QED  BY <1>2, <1>5, <3>1
  <2> QED  BY <2>2, <2>3
<1> QED  BY <1>2, <1>3, <1>6 DEF ExceptionFits

-----------------------------------------------------------------------------
(* One write is made.                                                      *)

(* What is known of a list of writes and of what is left of it.            *)
LEMMA TailShape ==
  ASSUME NEW w \in Seq(Write), w # <<>>
  PROVE  /\ Head(w) = w[1] /\ Len(w) \in Nat \ {0} /\ DOMAIN w = 1 .. Len(w)
         /\ Tail(w) \in Seq(Write) /\ Len(Tail(w)) = Len(w) - 1
         /\ DOMAIN Tail(w) = 1 .. (Len(w) - 1)
         /\ \A k \in 1 .. (Len(w) - 1) : Tail(w)[k] = w[k + 1]
<1>1. /\ Tail(w) \in Seq(Write) /\ Len(Tail(w)) = Len(w) - 1
      /\ \A k \in 1 .. Len(Tail(w)) : Tail(w)[k] = w[k + 1]
  BY HeadTailProperties
<1>2. Len(w) \in Nat \ {0} /\ DOMAIN w = 1 .. Len(w) /\ DOMAIN Tail(w) = 1 .. Len(Tail(w))
  BY <1>1, LenProperties, EmptySeq
<1> QED  BY <1>1, <1>2

LEMMA StatusStaysLast ==
  ASSUME NEW w \in Seq(Write), w # <<>>, Tail(w) # <<>>, NEW status, StatusLast(w, status)
  PROVE  StatusLast(Tail(w), status) /\ Head(w).table # "inputs"
<1>1. Len(w) - 1 \in Nat \ {0}
  BY TailShape, EmptySeq
<1>2. \A k \in 1 .. (Len(w) - 1) : k + 1 \in DOMAIN w /\ Tail(w)[k] = w[k + 1]
  BY <1>1, TailShape
<1>3. \A k \in DOMAIN Tail(w) : Tail(w)[k].table = "inputs" => k + 1 = Len(w)
  BY <1>2, TailShape DEF StatusLast
<1>4. \A k \in DOMAIN Tail(w) : k + 1 = Len(w) => k = Len(Tail(w))
  BY TailShape
<1>5. Len(Tail(w)) \in 1 .. (Len(w) - 1) /\ Len(Tail(w)) + 1 = Len(w)
  BY <1>1, TailShape
<1>6. Tail(w)[Len(Tail(w))] = w[Len(w)]
  BY <1>2, <1>5
<1>7. Head(w).table # "inputs"
  <2>1. 1 \in DOMAIN w /\ 1 # Len(w) /\ Head(w) = w[1]
    BY <1>1, TailShape
  <2> QED  BY <2>1 DEF StatusLast
<1> QED  BY <1>3, <1>4, <1>6, <1>7 DEF StatusLast

(* A row that is written replaces none of the other outputs.               *)
LEMMA OutputsWritten ==
  ASSUME NEW w \in Seq(Write), w # <<>>, NEW status, NEW name, NEW table, NEW rows, NEW new,
         OutputsIn(w, status, name, table, rows),
         \A r, s \in rows : SameKey(r, s) => r = s,
         new = IF Head(w).table = name THEN Upsert(table, {Head(w).row}) ELSE table
  PROVE  OutputsIn(Tail(w), status, name, new, rows)
<1>1. 1 \in DOMAIN w /\ Head(w) = w[1]
  BY TailShape
<1>2. \A k \in DOMAIN Tail(w) : k + 1 \in DOMAIN w /\ Tail(w)[k] = w[k + 1]
  BY TailShape
<1>3. Head(w).table = name => Head(w).row \in rows /\ Head(w).row \in new
  BY <1>1 DEF OutputsIn, Upsert
<1>4. \A r \in rows : r \in table => r \in new
  BY <1>3 DEF Upsert
<1>5. ASSUME NEW r \in rows, NEW k \in DOMAIN w, w[k].table = name, w[k].row = r
      PROVE  \/ r \in new
             \/ \E l \in DOMAIN Tail(w) : Tail(w)[l].table = name /\ Tail(w)[l].row = r
  <2>1. CASE k = 1
    BY <1>1, <1>3, <1>5, <2>1
  <2>2. CASE k # 1
    <3>1. k - 1 \in DOMAIN Tail(w) /\ (k - 1) + 1 = k
      BY <2>2, TailShape
    <3> QED  BY <1>2, <1>5, <3>1
  <2> QED  BY <2>1, <2>2
<1>6. \A k \in DOMAIN Tail(w) : Tail(w)[k].table = name => Tail(w)[k].row \in rows
  BY <1>2 DEF OutputsIn
<1>7. ASSUME status = "accepted", NEW r \in rows
      PROVE  \/ r \in new
             \/ \E l \in DOMAIN Tail(w) : Tail(w)[l].table = name /\ Tail(w)[l].row = r
  <2>1. r \in table \/ \E k \in DOMAIN w : w[k].table = name /\ w[k].row = r
    BY <1>7 DEF OutputsIn
  <2> QED  BY <1>4, <1>5, <1>7, <2>1
<1> QED  BY <1>6, <1>7 DEF OutputsIn

(* A report that is written is the next of the list.                       *)
LEMMA ReportWritten ==
  ASSUME NEW w \in Seq(Write), w # <<>>, Tail(w) # <<>>,
         NEW rows \in Seq(ReportRow), NEW list \in Seq(ReportRow), NEW new,
         ReportsIn(w, rows, list), Head(w).table # "inputs",
         new = IF Head(w).table = "reports" THEN Append(list, Head(w).row) ELSE list
  PROVE  ReportsIn(Tail(w), rows, new)
<1> DEFINE t == Tail(w)
           n == Len(w)
           all == Len(rows)
<1>1. PICK s \in 0 .. all, before \in 0 .. n :
        /\ n = before + (all - s) + 1
        /\ \A k \in 1 .. before : w[k].table # "reports"
        /\ \A k \in 1 .. (all - s) : w[before + k] = [table |-> "reports", row |-> rows[s + k]]
        /\ s <= Len(list)
        /\ \A k \in 1 .. s : list[Len(list) - s + k] = rows[k]
  BY DEF ReportsIn
<1>2. /\ Head(w) = w[1] /\ n \in Nat \ {0} /\ Len(t) = n - 1
      /\ \A k \in 1 .. (n - 1) : t[k] = w[k + 1]
      /\ Len(list) \in Nat /\ all \in Nat
  BY TailShape, LenProperties
<1>3. n > 1
  BY <1>2, EmptySeq, TailShape
<1> HIDE DEF t, n, all
<1>4. CASE before > 0
  <2>1. new = list
    <3>1. 1 \in 1 .. before
      BY <1>4
    <3> QED  BY <1>1, <1>2, <3>1
  <2>2. before - 1 \in 0 .. Len(t) /\ Len(t) = (before - 1) + (all - s) + 1
    BY <1>1, <1>2, <1>4
  <2>3. \A k \in 1 .. (before - 1) : t[k].table # "reports"
    <3>1. \A k \in 1 .. (before - 1) : k \in 1 .. (n - 1) /\ k + 1 \in 1 .. before
      BY <1>1, <1>2, <1>4
    <3> QED  BY <1>1, <1>2, <3>1, ZenonT(60)
  <2>4. ASSUME NEW k \in 1 .. (all - s)
        PROVE  t[(before - 1) + k] = [table |-> "reports", row |-> rows[s + k]]
    <3>1. (before - 1) + k \in 1 .. (n - 1) /\ ((before - 1) + k) + 1 = before + k
      BY <1>1, <1>2, <1>4, <2>4
    <3>2. t[(before - 1) + k] = w[before + k]
      BY <1>2, <3>1
    <3> QED  BY <1>1, <2>4, <3>2
  <2> QED  BY <1>1, <2>1, <2>2, <2>3, <2>4, ZenonT(60) DEF ReportsIn, t, all
<1>5. CASE before = 0
  <2>1. s < all /\ s + 1 \in 0 .. all /\ 0 \in 0 .. Len(t)
        /\ Len(t) = 0 + (all - (s + 1)) + 1
    BY <1>1, <1>2, <1>3, <1>5
  <2>2. Head(w) = [table |-> "reports", row |-> rows[s + 1]]
    <3>1. 1 \in 1 .. (all - s) /\ before + 1 = 1
      BY <1>1, <1>2, <1>5, <2>1
    <3> QED  BY <1>1, <1>2, <3>1
  <2>3. s + 1 \in 1 .. all /\ rows[s + 1] \in ReportRow
    <3>1. s + 1 \in 1 .. all
      BY <1>1, <2>1
    <3> QED  BY <3>1, ElementOfSeq DEF all
  <2>4. /\ new = Append(list, rows[s + 1]) /\ Len(new) = Len(list) + 1
        /\ \A k \in 1 .. Len(list) : new[k] = list[k]
        /\ new[Len(list) + 1] = rows[s + 1]
    <3>1. new = Append(list, rows[s + 1])
      BY <2>2
    <3> QED  BY <2>3, <3>1, AppendProperties
  <2>5. ASSUME NEW k \in 1 .. (all - (s + 1))
        PROVE  t[0 + k] = [table |-> "reports", row |-> rows[(s + 1) + k]]
    <3>1. /\ 0 + k \in 1 .. (n - 1) /\ (0 + k) + 1 = before + (k + 1)
          /\ k + 1 \in 1 .. (all - s) /\ s + (k + 1) = (s + 1) + k
      BY <1>1, <1>2, <1>5, <2>5
    <3>2. t[0 + k] = w[before + (k + 1)]
      BY <1>2, <3>1
    <3>3. w[before + (k + 1)] = [table |-> "reports", row |-> rows[s + (k + 1)]]
      BY <1>1, <3>1
    <3> QED  BY <3>1, <3>2, <3>3
  <2>6. ASSUME NEW k \in 1 .. (s + 1)
        PROVE  new[Len(new) - (s + 1) + k] = rows[k]
    <3>1. CASE k = s + 1
      <4>1. Len(new) - (s + 1) + k = Len(list) + 1
        <5>1. \A x, y \in Nat : (x + 1) - (y + 1) + (y + 1) = x + 1
          OBVIOUS
        <5>2. s \in Nat /\ Len(list) \in Nat /\ Len(new) = Len(list) + 1
          BY <1>2, <2>4
        <5> QED  BY <3>1, <5>1, <5>2
      <4> QED  BY <2>4, <3>1, <4>1
    <3>2. CASE k # s + 1
      <4>1. /\ k \in 1 .. s /\ Len(new) - (s + 1) + k = Len(list) - s + k
            /\ Len(list) - s + k \in 1 .. Len(list)
        BY <1>1, <1>2, <2>4, <2>6, <3>2
      <4> QED  BY <1>1, <2>4, <4>1
    <3> QED  BY <3>1, <3>2
  <2>7. s + 1 <= Len(new) /\ \A k \in 1 .. 0 : t[k].table # "reports"
    BY <1>1, <1>2, <2>4
  <2> QED  BY <2>1, <2>5, <2>6, <2>7 DEF ReportsIn, t, all
<1> QED  BY <1>1, <1>4, <1>5

(* When the status is all that is left, all reports are stored.            *)
LEMMA ReportsAreSuffix ==
  ASSUME NEW w \in Seq(Write), w # <<>>, Tail(w) = <<>>,
         NEW rows \in Seq(ReportRow), NEW list \in Seq(ReportRow), ReportsIn(w, rows, list)
  PROVE  IsSuffix(rows, list)
<1> DEFINE a == Len(rows)
           b == Len(list)
<1>1. a \in Nat /\ b \in Nat /\ Len(w) = 1
  <2>1. Len(w) \in Nat \ {0} /\ Len(w) - 1 = 0
    BY TailShape, EmptySeq
  <2> QED  BY <2>1, LenProperties
<1>2. a <= b /\ \A k \in 1 .. a : list[b - a + k] = rows[k]
  <2>1. PICK s \in 0 .. a, before \in 0 .. Len(w) :
          /\ Len(w) = before + (a - s) + 1
          /\ s <= b
          /\ \A k \in 1 .. s : list[b - s + k] = rows[k]
    BY DEF ReportsIn
  <2> HIDE DEF a, b
  <2>2. s = a
    <3>1. \A x, y, z \in Nat : y <= x /\ 1 = z + (x - y) + 1 => y = x
      OBVIOUS
    <3>2. s \in Nat /\ before \in Nat /\ s <= a /\ a \in Nat
      BY <1>1
    <3> QED  BY <1>1, <2>1, <3>1, <3>2
  <2> QED  BY <2>1, <2>2
<1>3. /\ \A k \in 1 .. a : Reverse(rows)[k] = rows[(a - k) + 1]
      /\ \A k \in 1 .. b : Reverse(list)[k] = list[(b - k) + 1]
  BY DEF Reverse
<1>4. /\ Reverse(rows) \in Seq(ReportRow) /\ Len(Reverse(rows)) = a
      /\ Reverse(list) \in Seq(ReportRow) /\ Len(Reverse(list)) = b
  <2>1. ASSUME NEW l \in Seq(ReportRow)
        PROVE  Reverse(l) \in Seq(ReportRow) /\ Len(Reverse(l)) = Len(l)
    <3>1. Len(l) \in Nat
      BY LenProperties
    <3>2. \A k \in 1 .. Len(l) : (Len(l) - k) + 1 \in 1 .. Len(l)
      BY <3>1
    <3>3. \A k \in 1 .. Len(l) : l[(Len(l) - k) + 1] \in ReportRow
      BY <3>2, ElementOfSeq
    <3>4. Reverse(l) \in [1 .. Len(l) -> ReportRow]
      BY <3>3 DEF Reverse
    <3>5. Reverse(l) \in Seq(ReportRow)
      BY <3>1, <3>4, SeqDef
    <3>6. Len(Reverse(l)) \in Nat /\ 1 .. Len(Reverse(l)) = 1 .. Len(l)
      BY <3>4, <3>5, LenProperties
    <3> QED  BY <3>1, <3>5, <3>6
  <2> QED  BY <2>1
<1>5. \A k \in 1 .. a : Reverse(rows)[k] = Reverse(list)[k]
  <2>1. ASSUME NEW k \in 1 .. a
        PROVE  Reverse(rows)[k] = Reverse(list)[k]
    <3>1. /\ (a - k) + 1 \in 1 .. a /\ k \in 1 .. b
          /\ b - a + ((a - k) + 1) = (b - k) + 1
      BY <1>1, <1>2, <2>1
    <3>2. list[(b - k) + 1] = rows[(a - k) + 1]
      BY <1>2, <3>1
    <3> QED  BY <1>3, <2>1, <3>1, <3>2
  <2> QED  BY <2>1
<1> HIDE DEF a, b
<1>6. SubSeq(Reverse(rows), 1, a) = SubSeq(Reverse(list), 1, a)
  <2> DEFINE x == Reverse(rows)
             y == Reverse(list)
  <2>1. /\ \A k \in 1 .. a : x[k] \in ReportRow /\ y[k] \in ReportRow
        /\ 1 \in Int /\ a \in Int
    <3>1. \A k \in 1 .. a : x[k] \in ReportRow
      BY <1>4, ElementOfSeq
    <3> QED  BY <1>1, <1>5, <3>1
  <2> HIDE DEF x, y
  <2>2. /\ SubSeq(x, 1, a) \in Seq(ReportRow)
        /\ Len(SubSeq(x, 1, a)) = IF 1 <= a THEN a - 1 + 1 ELSE 0
        /\ \A k \in 1 .. a - 1 + 1 : SubSeq(x, 1, a)[k] = x[1 + k - 1]
    BY <2>1, SubSeqProperties
  <2>3. /\ SubSeq(y, 1, a) \in Seq(ReportRow)
        /\ Len(SubSeq(y, 1, a)) = IF 1 <= a THEN a - 1 + 1 ELSE 0
        /\ \A k \in 1 .. a - 1 + 1 : SubSeq(y, 1, a)[k] = y[1 + k - 1]
    BY <2>1, SubSeqProperties
  <2>4. \A k \in 1 .. a : SubSeq(x, 1, a)[k] = x[k] /\ SubSeq(y, 1, a)[k] = y[k]
    <3>1. \A k \in 1 .. a : k \in 1 .. a - 1 + 1 /\ 1 + k - 1 = k
      BY <1>1
    <3> QED  BY <2>2, <2>3, <3>1
  <2>5. Len(SubSeq(x, 1, a)) = a /\ Len(SubSeq(y, 1, a)) = a
    BY <1>1, <2>2, <2>3
  <2>6. \A k \in 1 .. a : x[k] = y[k]
    BY <1>5 DEF x, y
  <2>7. SubSeq(x, 1, a) = SubSeq(y, 1, a)
    BY <2>2, <2>3, <2>4, <2>5, <2>6, SeqEqual
  <2> QED  BY <2>7 DEF x, y
<1> QED  BY <1>2, <1>4, <1>6 DEF IsSuffix, IsPrefix

(* What is known when a write is made.                                     *)
LEMMA WriteContext ==
  ASSUME StoreIInv, WriteNext
  PROVE  /\ job.writes \in Seq(Write) /\ job.writes # <<>>
         /\ job.kind \in {"finish", "exception"}
         /\ job'.kind = job.kind /\ job'.status = job.status
         /\ job'.writes = Tail(job.writes)
         /\ state' = state /\ state.mode = "advance"
         /\ StateTyped /\ reports[state.input] \in Seq(ReportRow)
         /\ Reports \in Seq(ReportRow)
         /\ \A r, s \in Vouchers : SameKey(r, s) => r = s
         /\ \A r, s \in Notices : SameKey(r, s) => r = s
         /\ vouchers' = IF Head(job.writes).table = "vouchers"
                        THEN Upsert(vouchers, {Head(job.writes).row}) ELSE vouchers
         /\ notices' = IF Head(job.writes).table = "notices"
                       THEN Upsert(notices, {Head(job.writes).row}) ELSE notices
         /\ reports'[state.input] =
              IF Head(job.writes).table = "reports"
              THEN Append(reports[state.input], Head(job.writes).row) ELSE reports[state.input]
<1>1. /\ StoredFit /\ StateTypeOK /\ JobFits /\ job \in Job /\ job.writes # <<>>
  BY StoreParts DEF WriteNext
<1>2. job # NoJob
  BY <1>1, HeadOfWrites
<1>3. job \in [kind : {"finish", "exception"}, status : Verdict, writes : Seq(Write)]
  BY <1>1, <1>2 DEF Job
<1>4. /\ state' = state /\ job' = [job EXCEPT !.writes = Tail(job.writes)]
      /\ vouchers' = IF Head(job.writes).table = "vouchers"
                     THEN Upsert(vouchers, {Head(job.writes).row}) ELSE vouchers
      /\ notices' = IF Head(job.writes).table = "notices"
                    THEN Upsert(notices, {Head(job.writes).row}) ELSE notices
      /\ reports' = IF Head(job.writes).table = "reports"
                    THEN [reports EXCEPT ![state.input]
                            = Append(reports[state.input], Head(job.writes).row)]
                    ELSE reports
  BY DEF WriteNext, Apply
<1>5. state.mode = "advance" /\ StateTyped
  BY <1>1, <1>2 DEF JobFits, StateTypeOK, StateTyped
<1>6. reports \in [InputIndex -> Seq(ReportRow)] /\ state.input \in InputIndex
  BY <1>1, <1>5 DEF StoredFit, StateTyped
<1>7. Reports \in Seq(ReportRow)
  BY <1>5, ReportRowsShape DEF StateTyped, Reports
<1>8. /\ \A r, s \in Vouchers : SameKey(r, s) => r = s
      /\ \A r, s \in Notices : SameKey(r, s) => r = s
  BY <1>5, OutputRowsShape DEF StateTyped, Vouchers, Notices
<1>9. job'.kind = job.kind /\ job'.status = job.status /\ job'.writes = Tail(job.writes)
  BY <1>3, <1>4
<1>10. reports'[state.input] =
         IF Head(job.writes).table = "reports"
         THEN Append(reports[state.input], Head(job.writes).row) ELSE reports[state.input]
  BY <1>4, <1>6
<1> QED  BY <1>1, <1>3, <1>4, <1>5, <1>6, <1>7, <1>8, <1>9, <1>10

LEMMA WriteNextCompletes ==
  ASSUME StoreIInv, JobComplete, WriteNext
  PROVE  JobComplete'
<1> DEFINE w == job.writes
           t == job'.writes
<1>1. /\ w \in Seq(Write) /\ w # <<>> /\ t = Tail(w)
      /\ job'.kind = job.kind /\ job'.status = job.status /\ state' = state
  BY WriteContext
<1>2. ASSUME job.kind = "finish", t # <<>>
      PROVE  FinishFits(t, job.status, vouchers', notices', reports'[state.input])
  <2>1. FinishFits(w, job.status, vouchers, notices, reports[state.input])
    BY <1>1, <1>2, CompleteParts
  <2>2. StatusLast(t, job.status) /\ Head(w).table # "inputs"
    BY <1>1, <1>2, <2>1, StatusStaysLast DEF FinishFits
  <2>3. OutputsIn(t, job.status, "vouchers", vouchers', Vouchers)
    BY <1>1, <2>1, WriteContext, OutputsWritten DEF FinishFits
  <2>4. OutputsIn(t, job.status, "notices", notices', Notices)
    BY <1>1, <2>1, WriteContext, OutputsWritten DEF FinishFits
  <2>5. ReportsIn(t, Reports, reports'[state.input])
    BY <1>1, <1>2, <2>1, <2>2, WriteContext, ReportWritten DEF FinishFits
  <2> QED  BY <2>2, <2>3, <2>4, <2>5 DEF FinishFits
<1>3. ASSUME job.kind = "exception"
      PROVE  ExceptionFits(t)
  <2>1. ExceptionFits(w)
    BY <1>3, CompleteParts
  <2>2. \A k \in DOMAIN Tail(w) : k + 1 \in DOMAIN w /\ Tail(w)[k] = w[k + 1]
    BY <1>1, TailShape
  <2> QED  BY <1>1, <2>1, <2>2 DEF ExceptionFits
<1> QED  BY <1>1, <1>2, <1>3, CompletePartsPrime

LEMMA JobCompleteKeeps == StoreIInv /\ JobComplete /\ [StoreNext]_storeVars => JobComplete'
<1> SUFFICES ASSUME StoreIInv, JobComplete, [StoreNext]_storeVars PROVE JobComplete'
  OBVIOUS
<1>1. ASSUME NEW kind, NEW status, NEW writes, Start(kind, status, writes)
      PROVE  /\ job'.kind = kind /\ job'.status = status /\ job'.writes = writes
             /\ state' = state /\ vouchers' = vouchers /\ notices' = notices
             /\ reports' = reports
             /\ StateTyped /\ reports[state.input] \in Seq(ReportRow)
  <2>1. /\ state.mode = "advance" /\ UNCHANGED vars
        /\ job' = [kind |-> kind, status |-> status, writes |-> writes]
    BY <1>1 DEF Start
  <2>2. StoredFit /\ StateTypeOK /\ JobFits
    BY StoreParts
  <2>3. StateTyped
    BY <2>1, <2>2 DEF StateTyped, StateTypeOK, JobFits
  <2>4. reports[state.input] \in Seq(ReportRow)
    BY <2>2, <2>3 DEF StoredFit, StateTyped
  <2> QED  BY <2>1, <2>3, <2>4 DEF vars
<1>2. ASSUME NEW accepted \in BOOLEAN, StartFinish(accepted)
      PROVE  JobComplete'
  <2> DEFINE status == IF accepted THEN "accepted" ELSE "rejected"
  <2>1. Start("finish", status, FinishWrites(status)) /\ status \in {"accepted", "rejected"}
    BY <1>2 DEF StartFinish
  <2> HIDE DEF status
  <2>2. FinishFits(job'.writes, job'.status, vouchers', notices', reports'[state.input])
    BY <1>1, <2>1, FinishStarts
  <2> QED  BY <1>1, <2>1, <2>2, CompletePartsPrime
<1>3. CASE StartException
  <2>1. Start("exception", "exception", ExceptionWrites)
    BY <1>3 DEF StartException
  <2>2. ExceptionFits(job'.writes)
    BY <1>1, <2>1, ExceptionStarts
  <2> QED  BY <1>1, <2>1, <2>2, CompletePartsPrime
<1>4. CASE WriteNext
  BY <1>4, WriteNextCompletes
<1>5. CASE \/ OneWrite \/ FinishDone \/ ExceptionDone \/ Stop \/ Crash \/ DbError
           \/ InspectDbError
  <2>1. job' = NoJob
    BY <1>5 DEF OneWrite, FinishDone, ExceptionDone, Stop, Crash, DbError, InspectDbError
  <2> QED  BY <2>1, NoJobComplete
<1>6. CASE UNCHANGED storeVars
  <2>1. /\ state' = state /\ job' = job /\ vouchers' = vouchers /\ notices' = notices
        /\ reports' = reports
    BY <1>6 DEF storeVars, vars
  <2> QED  BY <2>1, CompleteParts, CompletePartsPrime
<1> QED  BY <1>2, <1>3, <1>4, <1>5, <1>6 DEF StoreNext

-----------------------------------------------------------------------------
(* The theorems.                                                           *)

(* In every behaviour, what a finish has stored and what it has yet to     *)
(* write are all that the request emitted.                                 *)
THEOREM JobAlwaysComplete == StoreSpec => []JobComplete
<1>1. StoreInit => JobComplete
  BY DEF StoreInit, JobComplete, NoJob
<1> QED  BY <1>1, JobCompleteKeeps, StoreInvariance, PTL DEF StoreSpec

LEMMA OtherSteps ==
  ASSUME [StoreNext]_storeVars
  PROVE  WriteNext \/ (\E i \in InputIndex : AddAdvanceInput(i)) \/ UNCHANGED tables
<1>1. OneWrite => (\E i \in InputIndex : AddAdvanceInput(i)) \/ UNCHANGED tables
  BY DEF OneWrite, AddInspectInput, AddOutput, AddVoucher, AddNotice, AddReport,
         FinishAndGetNext, IdleFinish, AdvanceFinish, InspectFinish,
         RegisterException, AdvanceException, tables
<1>2. (\/ UNCHANGED storeVars \/ StartException \/ FinishDone \/ ExceptionDone
       \/ Stop \/ Crash \/ DbError \/ InspectDbError
       \/ \E accepted \in BOOLEAN : StartFinish(accepted)) => UNCHANGED tables
  BY DEF storeVars, vars, tables, StartException, StartFinish, Start, FinishDone,
         ExceptionDone, Stop, Crash, Restart, DbError, InspectDbError
<1> QED  BY <1>1, <1>2 DEF StoreNext

(* When the status is written the rest is stored.                          *)
LEMMA DecidedIsComplete ==
  ASSUME StoreIInv, JobComplete, WriteNext, NEW i \in InputIndex,
         inputs[i] = "unprocessed", inputs'[i] \in {"accepted", "rejected"}
  PROVE  /\ IsSuffix(ReportRows(state.reports), reports'[i])
         /\ inputs'[i] = "accepted" => /\ OutputRows(i, state.vouchers) \subseteq vouchers'
                                       /\ OutputRows(i, state.notices) \subseteq notices'
<1> DEFINE w == job.writes
<1>1. /\ Head(w).table = "inputs"
      /\ inputs' = [inputs EXCEPT ![state.input] = Head(w).row]
  BY WriteNextStatus
<1>2. inputs \in [InputIndex -> {"absent"} \cup Status]
  BY StoreParts DEF StoredFit
<1>3. i = state.input /\ Head(w).row = inputs'[i]
  BY <1>1, <1>2
<1>4. /\ w \in Seq(Write) /\ w # <<>> /\ Head(w) = w[1] /\ DOMAIN w = 1 .. Len(w)
      /\ Len(w) \in Nat \ {0} /\ 1 \in DOMAIN w
  BY WriteContext, TailShape
<1>5. job.kind = "finish"
  <2>1. job.kind # "exception"
    BY <1>1, <1>3, <1>4, CompleteParts DEF ExceptionFits
  <2> QED  BY <2>1, WriteContext
<1>6. FinishFits(w, job.status, vouchers, notices, reports[state.input])
  BY <1>4, <1>5, CompleteParts
<1>7. Len(w) = 1 /\ Head(w).row = job.status /\ Tail(w) = <<>>
  <2>1. 1 = Len(w) /\ w[1] = [table |-> "inputs", row |-> job.status]
    BY <1>1, <1>4, <1>6 DEF FinishFits, StatusLast
  <2>2. Tail(w) \in Seq(Write) /\ Len(Tail(w)) = 0
    BY <1>4, <2>1, TailShape
  <2>3. Tail(w) = <<>>
    BY <2>2, EmptySeq
  <2>4. Len(w) = 1
    BY <2>1
  <2>5. Head(w).row = job.status
    BY <1>4, <2>1
  <2> QED  BY <2>3, <2>4, <2>5
<1>8. IsSuffix(Reports, reports[state.input])
  BY <1>4, <1>6, <1>7, WriteContext, ReportsAreSuffix DEF FinishFits
<1>9. /\ reports'[i] = reports[state.input] /\ vouchers' = vouchers /\ notices' = notices
  BY <1>1, <1>3, WriteContext
<1>10. inputs'[i] = "accepted" => Vouchers \subseteq vouchers /\ Notices \subseteq notices
  <2>1. \A k \in DOMAIN w : w[k].table = "inputs"
    BY <1>1, <1>4, <1>7
  <2> QED  BY <1>3, <1>6, <1>7, <2>1 DEF FinishFits, OutputsIn
<1> QED  BY <1>3, <1>8, <1>9, <1>10 DEF Reports, Vouchers, Notices

(* A write is not of an input that is decided.                             *)
LEMMA DecidedStays ==
  ASSUME StoreIInv, JobComplete, WriteNext, faults.dberror = 0,
         NEW i \in InputIndex, inputs[i] \in Verdict
  PROVE  RowsOf(vouchers', i) = RowsOf(vouchers, i) /\ RowsOf(notices', i) = RowsOf(notices, i)
<1> DEFINE w == job.writes
<1>1. /\ w \in Seq(Write) /\ w # <<>> /\ Head(w) = w[1] /\ DOMAIN w = 1 .. Len(w)
      /\ Len(w) \in Nat \ {0} /\ 1 \in DOMAIN w
  BY WriteContext, TailShape
<1>2. ASSUME Head(w).table \in {"vouchers", "notices"}
      PROVE  Head(w).row.input = state.input /\ state.input # i
  <2>1. Head(w).row.input = state.input
    BY <1>1, <1>2, StoreParts DEF WritesInOrder
  <2>2. job.kind = "finish"
    <3>1. job.kind # "exception"
      BY <1>1, <1>2, CompleteParts DEF ExceptionFits
    <3> QED  BY <3>1, WriteContext
  <2>3. Len(w) \in StatusWritesLeft
    <3>1. StatusLast(w, job.status)
      BY <1>1, <2>2, CompleteParts DEF FinishFits
    <3>2. Len(w) \in DOMAIN w
      BY <1>1
    <3> QED  BY <3>1, <3>2 DEF StatusLast, StatusWritesLeft
  <2>4. inputs[state.input] = "unprocessed"
    BY <2>3, WriteContext, StoreParts DEF JobFits
  <2> QED  BY <2>1, <2>4 DEF Verdict
<1>3. ASSUME NEW table, NEW row, row.input # i
      PROVE  RowsOf(Upsert(table, {row}), i) = RowsOf(table, i)
  BY <1>3 DEF RowsOf, Upsert, SameKey
<1>4. /\ vouchers' = IF Head(w).table = "vouchers" THEN Upsert(vouchers, {Head(w).row})
                     ELSE vouchers
      /\ notices' = IF Head(w).table = "notices" THEN Upsert(notices, {Head(w).row})
                    ELSE notices
  BY WriteContext
<1>5. RowsOf(vouchers', i) = RowsOf(vouchers, i)
  <2>1. CASE Head(w).table = "vouchers"
    BY <1>2, <1>3, <1>4, <2>1
  <2>2. CASE Head(w).table # "vouchers"
    BY <1>4, <2>2
  <2> QED  BY <2>1, <2>2
<1>6. RowsOf(notices', i) = RowsOf(notices, i)
  <2>1. CASE Head(w).table = "notices"
    BY <1>2, <1>3, <1>4, <2>1
  <2>2. CASE Head(w).table # "notices"
    BY <1>4, <2>2
  <2> QED  BY <2>1, <2>2
<1> QED  BY <1>5, <1>6

(* By the time an input shows as accepted or rejected all that its request *)
(* emitted is stored, and stays, however often the process stopped between *)
(* two writes, as long as no statement has failed.                         *)
THEOREM OutputsAreComplete == StoreSpec => AcceptedOutputsComplete
<1> DEFINE Complete(i) ==
      /\ inputs[i] = "unprocessed" /\ inputs'[i] \in {"accepted", "rejected"} =>
           /\ IsSuffix(ReportRows(state.reports), reports'[i])
           /\ inputs'[i] = "accepted" => /\ OutputRows(i, state.vouchers) \subseteq vouchers'
                                         /\ OutputRows(i, state.notices) \subseteq notices'
      /\ inputs[i] \in Verdict => /\ RowsOf(vouchers', i) = RowsOf(vouchers, i)
                                  /\ RowsOf(notices', i) = RowsOf(notices, i)
<1>1. ASSUME StoreIInv, JobComplete, [StoreNext]_storeVars, faults.dberror = 0,
             NEW i \in InputIndex
      PROVE  Complete(i)
  <2>1. CASE WriteNext
    BY <1>1, <2>1, DecidedIsComplete, DecidedStays
  <2>2. CASE \E j \in InputIndex : AddAdvanceInput(j)
    <3>1. inputs \in [InputIndex -> {"absent"} \cup Status]
      BY <1>1, StoreParts DEF StoredFit
    <3> QED  BY <2>2, <3>1 DEF AddAdvanceInput
  <2>3. CASE UNCHANGED tables
    BY <2>3 DEF tables
  <2> QED  BY <1>1, <2>1, <2>2, <2>3, OtherSteps
<1>2. StoreIInv /\ JobComplete /\ [StoreNext]_storeVars =>
        [faults.dberror = 0 => \A i \in InputIndex : Complete(i)]_storeVars
  BY <1>1
<1> QED  BY <1>2, StoreInvariance, JobAlwaysComplete, PTL DEF StoreSpec, AcceptedOutputsComplete
-----------------------------------------------------------------------------
(* Without faults: JobAlone is inductive relative to the invariants above. *)

LEMMA AloneContext ==
  ASSUME StoreIInv, faults.dberror = 0, JobAlone
  PROVE  /\ StoredFit /\ job \in Job
         /\ state.mode = "advance" => state.input \in InputIndex
         /\ job = NoJob /\ state.mode = "advance" => inputs[state.input] = "unprocessed"
         /\ job # NoJob => /\ state.mode = "advance" /\ StateTyped
                           /\ StatusWritesLeft = {} <=> Decided(state.input)
                           /\ ~Decided(state.input) => inputs[state.input] = "unprocessed"
<1>1. /\ StoredFit /\ StateTypeOK /\ JobFits /\ job \in Job
  BY StoreParts
<1>2. job # NoJob => state.mode = "advance" /\ StateTyped
  BY <1>1 DEF JobFits, StateTypeOK, StateTyped
<1>3. job # NoJob /\ StatusWritesLeft # {} => inputs[state.input] = "unprocessed"
  BY <1>1, <1>2 DEF JobFits
<1>4. job # NoJob /\ StatusWritesLeft = {} => Decided(state.input)
  BY DEF JobAlone
<1>5. inputs[state.input] = "unprocessed" => ~Decided(state.input)
  BY DEF Decided, Verdict
<1>6. /\ state.mode = "advance" => state.input \in InputIndex
      /\ job = NoJob /\ state.mode = "advance" => inputs[state.input] = "unprocessed"
  BY <1>1 DEF JobFits
<1> QED  BY <1>1, <1>2, <1>3, <1>4, <1>5, <1>6

LEMMA NoJobAlone ==
  ASSUME job' = NoJob
  PROVE  JobAlone' <=> UndecidedRows'
BY DEF JobAlone, NoJob

LEMMA JobAlonePrime ==
  ASSUME job' # NoJob, UndecidedRows',
         StatusWritesLeft' = {} => Decided(state.input)',
         job'.kind = "finish" /\ ~Decided(state.input)' => FinishAlone',
         job'.kind = "exception" => ExceptionAlone'
  PROVE  JobAlone'
BY DEF JobAlone

(* The mutex is free again, and what is not decided was not in a job.      *)
LEMMA ReleasedAlone ==
  ASSUME JobAlone, job' = NoJob, UNCHANGED <<vouchers, notices, reports>>,
         \A i \in InputIndex : ~Decided(i)' => ~Decided(i) /\ ~InJob(i)
  PROVE  JobAlone'
<1>1. \A i \in InputIndex : ~Decided(i)' =>
        RowsOf(vouchers, i) = {} /\ RowsOf(notices, i) = {} /\ reports[i] = <<>>
  BY DEF JobAlone, UndecidedRows
<1>2. UndecidedRows'
  BY <1>1 DEF UndecidedRows, RowsOf
<1> QED  BY <1>2, NoJobAlone

LEMMA ReleaseAlone ==
  ASSUME StoreIInv, JobComplete, faults.dberror = 0, JobAlone,
         OneWrite \/ FinishDone \/ ExceptionDone \/ Stop
  PROVE  JobAlone'
<1>1. CASE OneWrite
  <2>1. job = NoJob /\ job' = NoJob
    BY <1>1 DEF OneWrite
  <2>2. \A i \in InputIndex : ~InJob(i)
    BY <2>1 DEF InJob
  <2>3. inputs \in [InputIndex -> {"absent"} \cup Status]
    BY AloneContext DEF StoredFit
  <2>4. CASE \E i \in InputIndex : AddAdvanceInput(i)
    <3>1. \A j \in InputIndex : inputs[j] \in Verdict => inputs'[j] \in Verdict
      BY <2>3, <2>4 DEF AddAdvanceInput, Verdict
    <3>2. \A j \in InputIndex : ~Decided(j)' => ~Decided(j)
      BY <3>1 DEF Decided
    <3> QED  BY <2>1, <2>2, <2>4, <3>2, ReleasedAlone DEF AddAdvanceInput
  <2>5. CASE UNCHANGED tables
    <3>1. \A j \in InputIndex : ~Decided(j)' => ~Decided(j)
      BY <2>5 DEF tables, Decided
    <3> QED  BY <2>1, <2>2, <2>5, <3>1, ReleasedAlone DEF tables
  <2>6. ~WriteNext
    BY <2>1 DEF WriteNext, NoJob
  <2> QED  BY <1>1, <2>4, <2>5, <2>6, OtherSteps DEF StoreNext
<1>2. CASE FinishDone \/ ExceptionDone
  <2>1. job # NoJob /\ job' = NoJob /\ job.writes = <<>> /\ UNCHANGED tables
    BY <1>2 DEF FinishDone, ExceptionDone, NoJob
  <2>2. StatusWritesLeft = {}
    <3>1. <<>> \in Seq(Write) /\ Len(<<>>) = 0
      BY EmptySeq
    <3>2. DOMAIN job.writes = 1 .. 0
      BY <2>1, <3>1, LenProperties
    <3> QED  BY <3>2 DEF StatusWritesLeft
  <2>3. Decided(state.input)
    BY <2>1, <2>2, AloneContext
  <2>4. \A i \in InputIndex : ~Decided(i)' => ~Decided(i)
    BY <2>1 DEF tables, Decided
  <2>5. \A i \in InputIndex : ~Decided(i) => ~InJob(i)
    BY <2>3 DEF InJob
  <2> QED  BY <2>1, <2>4, <2>5, ReleasedAlone DEF tables
<1>3. CASE Stop
  <2>1. job = NoJob /\ job' = NoJob /\ UNCHANGED tables
    BY <1>3 DEF Stop, Restart
  <2>2. \A i \in InputIndex : ~Decided(i)' => ~Decided(i) /\ ~InJob(i)
    BY <2>1 DEF tables, Decided, InJob
  <2> QED  BY <2>1, <2>2, ReleasedAlone DEF tables
<1> QED  BY <1>1, <1>2, <1>3

(* A job starts with nothing stored of its input.                          *)
LEMMA StartAlone ==
  ASSUME StoreIInv, faults.dberror = 0, JobAlone,
         NEW kind \in {"finish", "exception"}, NEW status, NEW writes,
         Start(kind, status, writes)
  PROVE  /\ job' = [kind |-> kind, status |-> status, writes |-> writes] /\ job' # NoJob
         /\ UNCHANGED vars /\ state' = state /\ UndecidedRows'
         /\ StateTyped /\ reports[state.input] = <<>> /\ reports' = reports
<1>1. /\ job' = [kind |-> kind, status |-> status, writes |-> writes]
      /\ UNCHANGED vars /\ job = NoJob /\ state.mode = "advance"
  BY DEF Start
<1>2. job'.kind # NoJob.kind
  BY <1>1 DEF NoJob
<1>3. /\ state' = state /\ inputs' = inputs /\ vouchers' = vouchers /\ notices' = notices
      /\ reports' = reports
  BY <1>1 DEF vars
<1>4. StateTyped /\ ~Decided(state.input)
  BY <1>1, AloneContext, StoreParts DEF StateTyped, StateTypeOK, Decided, Verdict
<1>5. \A i \in InputIndex : ~Decided(i) =>
        RowsOf(vouchers, i) = {} /\ RowsOf(notices, i) = {} /\ reports[i] = <<>>
  BY <1>1 DEF JobAlone, UndecidedRows, InJob
<1>6. UndecidedRows'
  BY <1>3, <1>5 DEF UndecidedRows, RowsOf, Decided
<1>7. reports[state.input] = <<>>
  BY <1>4, <1>5 DEF StateTyped
<1> QED  BY <1>1, <1>2, <1>3, <1>4, <1>6, <1>7

LEMMA StartFinishAlone ==
  ASSUME StoreIInv, faults.dberror = 0, JobAlone, NEW accepted \in BOOLEAN,
         StartFinish(accepted)
  PROVE  JobAlone'
<1> DEFINE status == IF accepted THEN "accepted" ELSE "rejected"
           w == FinishWrites(status)
           n == Len(state.reports)
<1>1. Start("finish", status, w) /\ status \in {"accepted", "rejected"}
  BY DEF StartFinish
<1> HIDE DEF status
<1>2. /\ job' = [kind |-> "finish", status |-> status, writes |-> w] /\ job' # NoJob
      /\ state' = state /\ UndecidedRows'
      /\ StateTyped /\ reports[state.input] = <<>> /\ reports' = reports
  BY <1>1, StartAlone
<1>3. PICK outputs \in Seq(Write) :
        /\ w \in Seq(Write)
        /\ Len(outputs) \in Nat /\ n \in Nat
        /\ Len(w) = Len(outputs) + n + 1
        /\ \A k \in 1 .. Len(outputs) : w[k] = outputs[k]
        /\ \A k \in 1 .. n : w[Len(outputs) + k] = ReportWrites[k]
        /\ w[Len(outputs) + n + 1] = [table |-> "inputs", row |-> status]
        /\ outputs = IF status = "accepted" THEN VoucherWrites \o NoticeWrites ELSE <<>>
  BY <1>1, <1>2, FinishWritesShape
<1>4. /\ DOMAIN w = 1 .. Len(w) /\ DOMAIN outputs = 1 .. Len(outputs)
      /\ \A k \in DOMAIN outputs : outputs[k].table \in {"vouchers", "notices"}
      /\ \A k \in 1 .. n : ReportWrites[k].table = "reports"
      /\ status # "accepted" => Len(outputs) = 0
  BY <1>2, <1>3, OutputWritesShape, WritesShape, LenProperties, EmptySeq
<1> HIDE DEF w, n
<1>5. ASSUME NEW k \in DOMAIN w
      PROVE  /\ w[k].table = "reports" <=> Len(w) - k \in 1 .. n
             /\ status # "accepted" => w[k].table \notin {"vouchers", "notices"}
  <2>1. /\ Len(outputs) \in Nat /\ n \in Nat /\ Len(w) = Len(outputs) + n + 1
        /\ k \in 1 .. Len(w)
    BY <1>3, <1>4
  <2>2. CASE k \in 1 .. Len(outputs)
    <3>1. k \in DOMAIN outputs /\ w[k] = outputs[k] /\ Len(outputs) # 0
      BY <1>3, <1>4, <2>1, <2>2
    <3>2. w[k].table \in {"vouchers", "notices"} /\ status = "accepted"
      BY <1>4, <3>1
    <3>3. Len(w) - k \notin 1 .. n
      BY <2>1, <2>2
    <3> QED  BY <3>2, <3>3
  <2>3. CASE k \in (Len(outputs) + 1) .. (Len(outputs) + n)
    <3>1. /\ k - Len(outputs) \in 1 .. n /\ Len(outputs) + (k - Len(outputs)) = k
          /\ Len(w) - k \in 1 .. n
      BY <2>1, <2>3
    <3>2. w[k] = ReportWrites[k - Len(outputs)]
      BY <1>3, <3>1
    <3>3. w[k].table = "reports"
      BY <1>4, <3>1, <3>2
    <3> QED  BY <3>1, <3>3
  <2>4. CASE k = Len(outputs) + n + 1
    <3>1. w[k].table = "inputs"
      BY <1>3, <2>4
    <3>2. Len(w) - k \notin 1 .. n
      BY <2>1, <2>4
    <3> QED  BY <3>1, <3>2
  <2> QED  BY <2>1, <2>2, <2>3, <2>4
<1>6. Len(w) > n /\ Len(w) \in DOMAIN w /\ w[Len(w)].table = "inputs"
  BY <1>3, <1>4
<1>7. job'.writes = w /\ job'.status = status /\ job'.kind = "finish"
  BY <1>2
<1>8. FinishAlone'
  <2>1. Len(reports'[state'.input]) = 0
    BY <1>2, EmptySeq
  <2> QED  BY <1>1, <1>2, <1>5, <1>6, <1>7, <2>1 DEF FinishAlone, n
<1>9. StatusWritesLeft' # {}
  BY <1>6, <1>7 DEF StatusWritesLeft
<1> QED  BY <1>2, <1>7, <1>8, <1>9, JobAlonePrime

LEMMA ExceptionWritesShape ==
  ASSUME StateTyped
  PROVE  /\ ExceptionWrites \in Seq(Write) /\ ExceptionWrites # <<>>
         /\ Head(ExceptionWrites) = [table |-> "inputs", row |-> "exception"]
         /\ Tail(ExceptionWrites) = ReportWrites
<1> DEFINE s == StatusWrite("exception")
           t == ReportWrites
           w == s \o t
<1>1. "exception" \in Verdict
  BY DEF Verdict
<1>2. /\ s \in Seq(Write) /\ Len(s) = 1
      /\ s[1] = [table |-> "inputs", row |-> "exception"] /\ t \in Seq(Write)
  BY <1>1, StatusWriteShape, WritesShape
<1> HIDE DEF s, t
<1>3. /\ w \in Seq(Write) /\ Len(t) \in Nat /\ Len(w) = 1 + Len(t)
      /\ w[1] = s[1] /\ \A k \in 1 .. Len(t) : w[1 + k] = t[k]
  <2>1. /\ w \in Seq(Write) /\ Len(t) \in Nat /\ Len(w) = Len(s) + Len(t)
        /\ \A k \in 1 .. Len(s) : w[k] = s[k]
    BY <1>2, ConcatWrites
  <2>2. \A k \in 1 .. Len(t) : w[Len(s) + k] = t[k]
    BY <1>2, ConcatWrites
  <2>3. 1 \in 1 .. Len(s)
    BY <1>2
  <2> HIDE DEF w
  <2> QED  BY <1>2, <2>1, <2>2, <2>3
<1> HIDE DEF w
<1>4. w # <<>>
  BY <1>3, EmptySeq
<1>5. /\ Head(w) = w[1] /\ Tail(w) \in Seq(Write) /\ Len(Tail(w)) = Len(t)
      /\ \A k \in 1 .. Len(t) : Tail(w)[k] = w[k + 1]
  BY <1>3, <1>4, TailShape
<1>6. \A k \in 1 .. Len(t) : Tail(w)[k] = t[k]
  BY <1>3, <1>5
<1>7. Tail(w) = t
  BY <1>2, <1>5, <1>6, SeqEqual
<1>8. ExceptionWrites = w
  BY DEF ExceptionWrites, s, t, w
<1> QED  BY <1>2, <1>3, <1>4, <1>5, <1>7, <1>8 DEF t

LEMMA StartExceptionAlone ==
  ASSUME StoreIInv, faults.dberror = 0, JobAlone, StartException
  PROVE  JobAlone'
<1>1. Start("exception", "exception", ExceptionWrites)
  BY DEF StartException
<1>2. /\ job' = [kind |-> "exception", status |-> "exception", writes |-> ExceptionWrites]
      /\ job' # NoJob /\ UNCHANGED vars /\ state' = state /\ UndecidedRows'
      /\ StateTyped /\ reports[state.input] = <<>> /\ reports' = reports
  BY <1>1, StartAlone
<1>3. ~Decided(state.input) /\ Decided(state.input)' = Decided(state.input)
  <2>1. job = NoJob /\ state.mode = "advance"
    BY <1>1 DEF Start
  <2>2. inputs[state.input] = "unprocessed"
    BY <2>1, AloneContext
  <2> QED  BY <1>2, <2>2 DEF Decided, Verdict, vars
<1>4. StatusWritesLeft' # {}
  <2>1. 1 \in DOMAIN ExceptionWrites /\ ExceptionWrites[1].table = "inputs"
    BY <1>2, ExceptionWritesShape, TailShape
  <2> QED  BY <1>2, <2>1 DEF StatusWritesLeft
<1>5. ExceptionWrites' = ExceptionWrites
  BY <1>2 DEF ExceptionWrites, StatusWrite, ReportWrites, ReportRows
<1>6. ExceptionAlone'
  BY <1>2, <1>3, <1>5 DEF ExceptionAlone
<1> QED  BY <1>2, <1>4, <1>6, JobAlonePrime

(* A write stores nothing of the other inputs.                             *)
LEMMA OwnRows ==
  ASSUME StoreIInv, WriteNext, NEW i \in InputIndex, i # state.input
  PROVE  /\ RowsOf(vouchers', i) = RowsOf(vouchers, i)
         /\ RowsOf(notices', i) = RowsOf(notices, i)
         /\ reports'[i] = reports[i] /\ inputs'[i] = inputs[i]
<1> DEFINE h == Head(job.writes)
<1>1. /\ vouchers' = IF h.table = "vouchers" THEN Upsert(vouchers, {h.row}) ELSE vouchers
      /\ notices' = IF h.table = "notices" THEN Upsert(notices, {h.row}) ELSE notices
      /\ job.writes \in Seq(Write) /\ job.writes # <<>>
  BY WriteContext
<1>2. h = job.writes[1] /\ 1 \in DOMAIN job.writes
  BY <1>1, TailShape
<1>3. h.table \in {"vouchers", "notices"} => h.row.input = state.input
  BY <1>2, StoreParts DEF WritesInOrder
<1>4. ASSUME NEW table, NEW row, row.input # i
      PROVE  RowsOf(Upsert(table, {row}), i) = RowsOf(table, i)
  BY <1>4 DEF RowsOf, Upsert, SameKey
<1>5. reports'[i] = reports[i] /\ inputs'[i] = inputs[i]
  <2>1. /\ reports \in [InputIndex -> Seq(ReportRow)]
        /\ inputs \in [InputIndex -> {"absent"} \cup Status]
    BY StoreParts DEF StoredFit
  <2> QED  BY <2>1 DEF WriteNext, Apply
<1> HIDE DEF h
<1>6. RowsOf(vouchers', i) = RowsOf(vouchers, i)
  <2>1. CASE h.table = "vouchers"
    BY <1>1, <1>3, <1>4, <2>1
  <2> QED  BY <1>1, <2>1
<1>7. RowsOf(notices', i) = RowsOf(notices, i)
  <2>1. CASE h.table = "notices"
    BY <1>1, <1>3, <1>4, <2>1
  <2> QED  BY <1>1, <2>1
<1> QED  BY <1>5, <1>6, <1>7

RowsIn(w) == [k \in DOMAIN w |-> w[k].row]

LEMMA RowsInShape ==
  ASSUME NEW w \in Seq(Write), \A k \in DOMAIN w : w[k].table = "reports"
  PROVE  /\ RowsIn(w) \in Seq(ReportRow) /\ Len(RowsIn(w)) = Len(w)
         /\ \A k \in 1 .. Len(w) : RowsIn(w)[k] = w[k].row
<1>1. Len(w) \in Nat /\ DOMAIN w = 1 .. Len(w)
  BY LenProperties
<1>2. ASSUME NEW k \in 1 .. Len(w)
      PROVE  w[k].row \in ReportRow
  <2>1. w[k] \in Write /\ w[k].table = "reports"
    BY <1>1, <1>2, ElementOfSeq
  <2> QED  BY <2>1 DEF Write
<1>3. RowsIn(w) \in [1 .. Len(w) -> ReportRow]
  BY <1>1, <1>2 DEF RowsIn
<1>4. RowsIn(w) \in Seq(ReportRow)
  BY <1>1, <1>3, SeqDef
<1>5. Len(RowsIn(w)) \in Nat /\ 1 .. Len(RowsIn(w)) = 1 .. Len(w)
  BY <1>3, <1>4, LenProperties
<1>6. Len(RowsIn(w)) = Len(w)
  BY <1>1, <1>5
<1> QED  BY <1>1, <1>4, <1>6 DEF RowsIn

(* A report goes from the front of what is left to the end of the list.    *)
LEMMA ReportMoves ==
  ASSUME NEW w \in Seq(Write), w # <<>>, \A k \in DOMAIN w : w[k].table = "reports",
         NEW list \in Seq(ReportRow)
  PROVE  Append(list, Head(w).row) \o RowsIn(Tail(w)) = list \o RowsIn(w)
<1> DEFINE row == Head(w).row
           t == Tail(w)
           new == Append(list, row)
           left == RowsIn(w)
           rest == RowsIn(t)
           n == Len(list)
<1>1. /\ Head(w) = w[1] /\ Len(w) \in Nat \ {0} /\ DOMAIN w = 1 .. Len(w)
      /\ t \in Seq(Write) /\ Len(t) = Len(w) - 1 /\ DOMAIN t = 1 .. (Len(w) - 1)
      /\ \A k \in 1 .. (Len(w) - 1) : t[k] = w[k + 1]
  BY TailShape
<1>2. /\ left \in Seq(ReportRow) /\ Len(left) = Len(w)
      /\ \A k \in 1 .. Len(w) : left[k] = w[k].row
  BY RowsInShape
<1>3. \A k \in DOMAIN t : t[k].table = "reports"
  BY <1>1
<1>4. /\ rest \in Seq(ReportRow) /\ Len(rest) = Len(t)
      /\ \A k \in 1 .. Len(t) : rest[k] = t[k].row
  BY <1>1, <1>3, RowsInShape
<1>5. row = left[1] /\ row \in ReportRow
  <2>1. 1 \in 1 .. Len(left)
    BY <1>1, <1>2
  <2> QED  BY <1>1, <1>2, <2>1, ElementOfSeq
<1>6. \A k \in 1 .. (Len(w) - 1) : rest[k] = left[k + 1]
  <2>1. \A k \in 1 .. (Len(w) - 1) : k + 1 \in 1 .. Len(w)
    BY <1>1
  <2> QED  BY <1>1, <1>2, <1>4, <2>1
<1> HIDE DEF row, t, left, rest
<1>7. /\ new \in Seq(ReportRow) /\ Len(new) = n + 1 /\ n \in Nat
      /\ \A k \in 1 .. n : new[k] = list[k]
      /\ new[n + 1] = row
  BY <1>5, AppendProperties, LenProperties
<1> HIDE DEF new, n
<1>8. /\ new \o rest \in Seq(ReportRow) /\ Len(new \o rest) = n + Len(w)
      /\ \A k \in 1 .. (n + Len(w)) :
           (new \o rest)[k] = IF k <= n + 1 THEN new[k] ELSE rest[k - (n + 1)]
  <2> new \in Seq(ReportRow) /\ rest \in Seq(ReportRow)
    BY <1>4, <1>7
  <2>1. /\ new \o rest \in Seq(ReportRow) /\ Len(new \o rest) = Len(new) + Len(rest)
        /\ \A k \in 1 .. Len(new) + Len(rest) :
             (new \o rest)[k] = IF k <= Len(new) THEN new[k] ELSE rest[k - Len(new)]
    BY ConcatProperties
  <2>2. Len(new) = n + 1 /\ Len(new) + Len(rest) = n + Len(w)
    BY <1>1, <1>4, <1>7
  <2> QED  BY <2>1, <2>2
<1>9. /\ list \o left \in Seq(ReportRow) /\ Len(list \o left) = n + Len(w)
      /\ \A k \in 1 .. (n + Len(w)) :
           (list \o left)[k] = IF k <= n THEN list[k] ELSE left[k - n]
  <2> left \in Seq(ReportRow)
    BY <1>2
  <2>1. /\ list \o left \in Seq(ReportRow) /\ Len(list \o left) = Len(list) + Len(left)
        /\ \A k \in 1 .. Len(list) + Len(left) :
             (list \o left)[k] = IF k <= Len(list) THEN list[k] ELSE left[k - Len(list)]
    BY ConcatProperties
  <2> QED  BY <1>2, <2>1 DEF n
<1>10. ASSUME NEW k \in 1 .. (n + Len(w))
       PROVE  (new \o rest)[k] = (list \o left)[k]
  <2> n \in Nat /\ Len(w) \in Nat
    BY <1>1, <1>7
  <2>1. CASE k \in 1 .. n
    <3>1. k <= n /\ k <= n + 1
      BY <2>1
    <3>2. (new \o rest)[k] = new[k] /\ (list \o left)[k] = list[k]
      BY <1>8, <1>9, <3>1
    <3> QED  BY <1>7, <2>1, <3>2
  <2>2. CASE k = n + 1
    <3>1. k <= n + 1 /\ ~(k <= n) /\ k - n = 1
      BY <1>7, <2>2
    <3> QED  BY <1>5, <1>7, <1>8, <1>9, <2>2, <3>1
  <2>3. CASE k > n + 1
    <3>1. /\ ~(k <= n + 1) /\ ~(k <= n) /\ k - (n + 1) \in 1 .. (Len(w) - 1)
          /\ (k - (n + 1)) + 1 = k - n
      BY <1>1, <1>7, <2>3
    <3>2. rest[k - (n + 1)] = left[k - n]
      BY <1>6, <3>1
    <3> QED  BY <1>8, <1>9, <3>1, <3>2
  <2>4. k \in 1 .. n \/ k = n + 1 \/ k > n + 1
    BY <1>10
  <2> HIDE DEF n
  <2> QED  BY <2>1, <2>2, <2>3, <2>4
<1>11. Len(new \o rest) = Len(list \o left)
  BY <1>8, <1>9
<1>12. \A k \in 1 .. Len(new \o rest) : (new \o rest)[k] = (list \o left)[k]
  BY <1>8, <1>10
<1>13. new \o rest = list \o left
  BY <1>8, <1>9, <1>11, <1>12, SeqEqual
<1> QED  BY <1>13 DEF new, rest, left, row, t

LEMMA ReportWritesRows == RowsIn(ReportWrites) = Reports
<1>1. DOMAIN ReportWrites = DOMAIN state.reports /\ DOMAIN Reports = DOMAIN state.reports
  BY DEF ReportWrites, Reports, ReportRows
<1>2. \A k \in DOMAIN state.reports : ReportWrites[k].row = Reports[k]
  BY DEF ReportWrites, Reports
<1>3. RowsIn(ReportWrites) = [k \in DOMAIN state.reports |-> Reports[k]]
  BY <1>1, <1>2 DEF RowsIn
<1>4. Reports = [k \in DOMAIN state.reports |-> Reports[k]]
  BY DEF Reports, ReportRows
<1> QED  BY <1>3, <1>4

LEMMA FinishWriteAlone ==
  ASSUME StoreIInv, JobComplete, faults.dberror = 0, JobAlone, WriteNext, job.kind = "finish"
  PROVE  JobAlone'
<1> DEFINE w == job.writes
           t == Tail(w)
           h == Head(w)
           i == state.input
           all == Len(state.reports)
<1>1. /\ w \in Seq(Write) /\ w # <<>> /\ job'.writes = t /\ job'.kind = "finish"
      /\ job'.status = job.status /\ state' = state /\ StateTyped
      /\ reports[i] \in Seq(ReportRow)
  BY WriteContext
<1>2. /\ h = w[1] /\ Len(w) \in Nat \ {0} /\ DOMAIN w = 1 .. Len(w)
      /\ t \in Seq(Write) /\ Len(t) = Len(w) - 1 /\ DOMAIN t = 1 .. (Len(w) - 1)
      /\ \A k \in 1 .. (Len(w) - 1) : t[k] = w[k + 1]
  BY <1>1, TailShape
<1>3. FinishFits(w, job.status, vouchers, notices, reports[i])
  BY <1>1, CompleteParts
<1>4. job # NoJob /\ job' # NoJob
  BY <1>1, EmptySeq DEF NoJob
<1>5. ~Decided(i) /\ inputs \in [InputIndex -> {"absent"} \cup Status] /\ i \in InputIndex
  <2>1. Len(w) \in DOMAIN w /\ w[Len(w)].table = "inputs"
    BY <1>2, <1>3 DEF FinishFits, StatusLast
  <2>2. StatusWritesLeft # {}
    BY <2>1 DEF StatusWritesLeft
  <2> QED  BY <1>1, <1>4, <2>2, AloneContext DEF StoredFit, StateTyped
<1>6. /\ \A k \in DOMAIN w : /\ w[k].table = "reports" <=> Len(w) - k \in 1 .. all
                             /\ job.status # "accepted" =>
                                  w[k].table \notin {"vouchers", "notices"}
      /\ Len(reports[i]) = IF Len(w) > all THEN 0 ELSE all + 1 - Len(w)
      /\ all \in Nat /\ Len(reports[i]) \in Nat
      /\ job.status \in {"accepted", "rejected"}
  BY <1>1, <1>5, LenProperties DEF JobAlone, FinishAlone, StateTyped
<1>7. /\ vouchers' = IF h.table = "vouchers" THEN Upsert(vouchers, {h.row}) ELSE vouchers
      /\ notices' = IF h.table = "notices" THEN Upsert(notices, {h.row}) ELSE notices
      /\ reports'[i] = IF h.table = "reports" THEN Append(reports[i], h.row) ELSE reports[i]
      /\ inputs' = IF h.table = "inputs" THEN [inputs EXCEPT ![i] = h.row] ELSE inputs
  BY WriteContext, WriteNextStatus
<1>8. /\ h.table = "vouchers" => h.row \in Vouchers /\ job.status = "accepted"
      /\ h.table = "notices" => h.row \in Notices /\ job.status = "accepted"
  BY <1>2, <1>3, <1>6 DEF FinishFits, OutputsIn
<1>9. /\ RowsOf(vouchers, i) \subseteq IF job.status = "accepted" THEN Vouchers ELSE {}
      /\ RowsOf(notices, i) \subseteq IF job.status = "accepted" THEN Notices ELSE {}
  BY <1>4, <1>5 DEF JobAlone, UndecidedRows, InJob, Vouchers, Notices
<1>10. /\ RowsOf(vouchers', i) \subseteq IF job.status = "accepted" THEN Vouchers ELSE {}
       /\ RowsOf(notices', i) \subseteq IF job.status = "accepted" THEN Notices ELSE {}
  <2>1. ASSUME NEW table, NEW row
        PROVE  RowsOf(Upsert(table, {row}), i) \subseteq RowsOf(table, i) \cup {row}
    BY DEF RowsOf, Upsert
  <2> HIDE DEF h
  <2>2. RowsOf(vouchers', i) \subseteq IF job.status = "accepted" THEN Vouchers ELSE {}
    <3>1. CASE h.table = "vouchers"
      <4>1. RowsOf(vouchers', i) \subseteq RowsOf(vouchers, i) \cup {h.row}
        BY <1>7, <2>1, <3>1
      <4> QED  BY <1>8, <1>9, <3>1, <4>1
    <3> QED  BY <1>7, <1>9, <3>1
  <2>3. RowsOf(notices', i) \subseteq IF job.status = "accepted" THEN Notices ELSE {}
    <3>1. CASE h.table = "notices"
      <4>1. RowsOf(notices', i) \subseteq RowsOf(notices, i) \cup {h.row}
        BY <1>7, <2>1, <3>1
      <4> QED  BY <1>8, <1>9, <3>1, <4>1
    <3> QED  BY <1>7, <1>9, <3>1
  <2> QED  BY <2>2, <2>3
<1> HIDE DEF w, t, h, all
<1>11. UndecidedRows'
  <2>1. \A j \in InputIndex : j # i => (Decided(j)' <=> Decided(j))
    BY OwnRows DEF Decided
  <2>2. ASSUME NEW j \in InputIndex, ~Decided(j)', j # i
        PROVE  /\ RowsOf(vouchers', j) = {} /\ RowsOf(notices', j) = {} /\ reports'[j] = <<>>
               /\ ~InJob(j)'
    <3>1. /\ RowsOf(vouchers', j) = RowsOf(vouchers, j)
          /\ RowsOf(notices', j) = RowsOf(notices, j) /\ reports'[j] = reports[j]
      BY <2>2, OwnRows
    <3>2. ~InJob(j) /\ ~InJob(j)'
      BY <1>1, <2>2 DEF InJob
    <3> QED  BY <2>1, <2>2, <3>1, <3>2 DEF JobAlone, UndecidedRows
  <2>3. InJob(i)'
    BY <1>1, <1>4 DEF InJob
  <2>4. OutputRows(i, state.vouchers) = Vouchers /\ OutputRows(i, state.notices) = Notices
    BY DEF Vouchers, Notices
  <2> QED  BY <1>1, <1>10, <2>2, <2>3, <2>4 DEF UndecidedRows, RowsOf
<1>12. CASE t # <<>>
  <2>1. StatusLast(t, job.status) /\ h.table # "inputs"
    BY <1>1, <1>3, <1>12, StatusStaysLast DEF FinishFits, w, t, h
  <2>2. StatusWritesLeft' # {}
    <3>1. Len(t) \in DOMAIN t /\ t[Len(t)].table = "inputs"
      BY <1>2, <1>12, <2>1, EmptySeq, LenProperties DEF StatusLast
    <3> QED  BY <1>1, <3>1 DEF StatusWritesLeft
  <2>3. Len(w) - 1 \in Nat \ {0}
    BY <1>2, <1>12, EmptySeq
  <2>4. ASSUME NEW k \in DOMAIN t
        PROVE  /\ t[k].table = "reports" <=> Len(t) - k \in 1 .. all
               /\ job.status # "accepted" => t[k].table \notin {"vouchers", "notices"}
    <3>1. k \in 1 .. (Len(w) - 1) /\ k + 1 \in DOMAIN w /\ Len(w) - (k + 1) = Len(t) - k
      BY <1>2
    <3>2. t[k] = w[k + 1]
      BY <1>2, <3>1
    <3> QED  BY <1>6, <3>1, <3>2
  <2>5. h.table = "reports" <=> Len(w) - 1 \in 1 .. all
    BY <1>2, <1>6, <2>3
  <2>6. h.table = "reports" => Len(reports'[i]) = Len(reports[i]) + 1
    <3>1. ASSUME h.table = "reports" PROVE h.row \in ReportRow
      <4>1. h \in Write
        BY <1>1, <1>2, ElementOfSeq
      <4> QED  BY <3>1, <4>1 DEF Write
    <3> QED  BY <1>1, <1>7, <3>1, AppendProperties
  <2>7. Len(reports'[i]) = IF Len(t) > all THEN 0 ELSE all + 1 - Len(t)
    <3>1. CASE h.table = "reports"
      <4>1. Len(w) - 1 <= all /\ Len(t) = Len(w) - 1
        BY <1>2, <2>5, <3>1
      <4>2. /\ Len(w) \in Nat /\ all \in Nat /\ Len(reports'[i]) = Len(reports[i]) + 1
            /\ Len(reports[i]) = IF Len(w) > all THEN 0 ELSE all + 1 - Len(w)
        BY <1>2, <1>6, <2>6, <3>1
      <4> QED  BY <4>1, <4>2
    <3>2. CASE h.table # "reports"
      <4>1. Len(t) > all /\ Len(w) > all
        BY <1>2, <1>6, <2>3, <2>5, <3>2
      <4> QED  BY <1>6, <1>7, <3>2, <4>1
    <3> QED  BY <3>1, <3>2
  <2>8. FinishAlone'
    BY <1>1, <1>6, <2>4, <2>7 DEF FinishAlone, all
  <2> QED  BY <1>1, <1>4, <1>11, <2>2, <2>8, JobAlonePrime
<1>13. CASE t = <<>>
  <2>1. Len(w) = 1
    <3>1. Len(t) = 0
      BY <1>13, EmptySeq
    <3>2. Len(t) = Len(w) - 1 /\ Len(w) \in Nat
      BY <1>2
    <3> QED  BY <3>1, <3>2
  <2>2. h = [table |-> "inputs", row |-> job.status]
    BY <1>2, <1>3, <2>1 DEF FinishFits, StatusLast
  <2>3. job.status \in Verdict
    <3>1. job \in Job
      BY StoreParts
    <3> QED  BY <1>4, <3>1 DEF Job
  <2>4. Decided(state.input)'
    BY <1>1, <1>5, <1>7, <2>2, <2>3 DEF Decided
  <2> QED  BY <1>1, <1>4, <1>11, <2>4, JobAlonePrime
<1> QED  BY <1>12, <1>13

LEMMA ExceptionWriteAlone ==
  ASSUME StoreIInv, faults.dberror = 0, JobAlone, WriteNext, job.kind = "exception"
  PROVE  JobAlone'
<1> DEFINE w == job.writes
           t == Tail(w)
           h == Head(w)
           i == state.input
<1>1. /\ w \in Seq(Write) /\ w # <<>> /\ job'.writes = t /\ job'.kind = "exception"
      /\ job'.status = job.status /\ state' = state /\ StateTyped
      /\ reports[i] \in Seq(ReportRow) /\ Reports \in Seq(ReportRow)
  BY WriteContext
<1>2. /\ h = w[1] /\ Len(w) \in Nat \ {0} /\ DOMAIN w = 1 .. Len(w)
      /\ t \in Seq(Write) /\ Len(t) = Len(w) - 1 /\ DOMAIN t = 1 .. (Len(w) - 1)
      /\ \A k \in 1 .. (Len(w) - 1) : t[k] = w[k + 1]
  BY <1>1, TailShape
<1>3. job # NoJob /\ job' # NoJob
  BY <1>1, EmptySeq DEF NoJob
<1>4. /\ inputs \in [InputIndex -> {"absent"} \cup Status] /\ i \in InputIndex
      /\ ExceptionAlone
  BY <1>1, AloneContext DEF StoredFit, StateTyped, JobAlone
<1>5. /\ reports'[i] = IF h.table = "reports" THEN Append(reports[i], h.row) ELSE reports[i]
      /\ inputs' = IF h.table = "inputs" THEN [inputs EXCEPT ![i] = h.row] ELSE inputs
  BY WriteContext, WriteNextStatus
<1>6. PendingReports = RowsIn(w) /\ PendingReports' = RowsIn(t)
  BY <1>1 DEF PendingReports, RowsIn
<1>7. /\ Decided(i)'
      /\ \A k \in DOMAIN t : t[k].table = "reports"
      /\ reports'[i] \o RowsIn(t) = Reports
  <2>1. CASE Decided(i)
    <3>1. /\ \A k \in DOMAIN w : w[k].table = "reports"
          /\ reports[i] \o RowsIn(w) = Reports
      BY <1>4, <1>6, <2>1 DEF ExceptionAlone, Reports
    <3>2. h.table = "reports"
      BY <1>2, <3>1
    <3>3. inputs' = inputs /\ reports'[i] = Append(reports[i], h.row)
      BY <1>5, <3>2
    <3>4. \A k \in DOMAIN t : t[k].table = "reports"
      BY <1>2, <3>1
    <3>5. reports'[i] \o RowsIn(t) = reports[i] \o RowsIn(w)
      BY <1>1, <3>1, <3>3, ReportMoves
    <3> QED  BY <1>1, <2>1, <3>1, <3>3, <3>4, <3>5 DEF Decided
  <2>2. CASE ~Decided(i)
    <3>1. reports[i] = <<>> /\ w = ExceptionWrites
      BY <1>4, <2>2 DEF ExceptionAlone
    <3>2. h = [table |-> "inputs", row |-> "exception"] /\ t = ReportWrites
      BY <1>1, <3>1, ExceptionWritesShape
    <3>3. inputs'[i] = "exception" /\ reports'[i] = <<>>
      BY <1>4, <1>5, <3>1, <3>2
    <3>4. \A k \in DOMAIN t : t[k].table = "reports"
      BY <3>2 DEF ReportWrites
    <3>5. RowsIn(t) = Reports
      BY <3>2, ReportWritesRows
    <3>6. <<>> \o Reports = Reports
      BY <1>1, ConcatEmptySeq
    <3> QED  BY <1>1, <3>3, <3>4, <3>5, <3>6 DEF Decided, Verdict
  <2> QED  BY <2>1, <2>2
<1> HIDE DEF w, t, h
<1>8. ExceptionAlone'
  <2>1. /\ Decided(state.input)' /\ Reports = ReportRows(state.reports)
        /\ \A k \in DOMAIN job'.writes : job'.writes[k].table = "reports"
        /\ reports'[state'.input] \o PendingReports' = ReportRows(state'.reports)
    BY <1>1, <1>6, <1>7 DEF Reports, Decided
  <2>2. job'.status = "exception"
    BY <1>1, <1>4 DEF ExceptionAlone
  <2> QED  BY <2>1, <2>2 DEF ExceptionAlone
<1>9. UndecidedRows'
  <2>1. \A j \in InputIndex : j # i => (Decided(j)' <=> Decided(j))
    BY OwnRows DEF Decided
  <2>2. ASSUME NEW j \in InputIndex, ~Decided(j)', j # i
        PROVE  RowsOf(vouchers', j) = {} /\ RowsOf(notices', j) = {} /\ reports'[j] = <<>>
    <3>1. /\ RowsOf(vouchers', j) = RowsOf(vouchers, j)
          /\ RowsOf(notices', j) = RowsOf(notices, j) /\ reports'[j] = reports[j]
      BY <2>2, OwnRows
    <3>2. ~InJob(j)
      BY <2>2 DEF InJob
    <3> QED  BY <2>1, <2>2, <3>1, <3>2 DEF JobAlone, UndecidedRows
  <2>3. \A j \in InputIndex : ~Decided(j)' => j # i
    BY <1>1, <1>7 DEF Decided
  <2> QED  BY <2>2, <2>3 DEF UndecidedRows, RowsOf
<1>10. Decided(state.input)'
  BY <1>1, <1>7 DEF Decided
<1> QED  BY <1>1, <1>3, <1>8, <1>9, <1>10, JobAlonePrime

(* A fault is counted.                                                     *)
LEMMA FaultIsNew ==
  ASSUME FaultsTyped, faults' = faults
  PROVE  ~Fault("crash") /\ ~Fault("dberror")
<1>1. faults.crash \in Nat /\ faults.dberror \in Nat
  BY StoreAssumption DEF FaultsTyped
<1>2. Fault("crash") => faults'.crash = faults.crash + 1
  BY DEF Fault, FaultsTyped
<1>3. Fault("dberror") => faults'.dberror = faults.dberror + 1
  BY DEF Fault, FaultsTyped
<1> QED  BY <1>1, <1>2, <1>3

LEMMA FaultsOnlyGrow ==
  ASSUME StoreIInv, [StoreNext]_storeVars, faults'.crash = 0, faults'.dberror = 0
  PROVE  faults' = faults
<1>1. FaultsTyped /\ faults.crash \in Nat /\ faults.dberror \in Nat
  BY StoreParts, StoreAssumption DEF FaultsTyped
<1>2. ~Fault("crash") /\ ~Fault("dberror")
  <2>1. Fault("crash") => faults'.crash = faults.crash + 1
    BY <1>1 DEF Fault, FaultsTyped
  <2>2. Fault("dberror") => faults'.dberror = faults.dberror + 1
    BY <1>1 DEF Fault, FaultsTyped
  <2> QED  BY <1>1, <2>1, <2>2
<1>3. ~Crash /\ ~DbError /\ ~InspectDbError
  BY <1>2 DEF Crash, DbError, InspectDbError
<1> QED  BY <1>3 DEF StoreNext, storeVars, OneWrite, StartFinish, StartException, Start,
                    WriteNext, FinishDone, ExceptionDone, Stop

LEMMA JobAloneKeeps ==
  ASSUME StoreIInv, JobComplete, faults.dberror = 0, JobAlone,
         [StoreNext]_storeVars, faults' = faults
  PROVE  JobAlone'
<1>1. CASE OneWrite \/ FinishDone \/ ExceptionDone \/ Stop
  BY <1>1, ReleaseAlone
<1>2. CASE \E accepted \in BOOLEAN : StartFinish(accepted)
  BY <1>2, StartFinishAlone
<1>3. CASE StartException
  BY <1>3, StartExceptionAlone
<1>4. CASE WriteNext
  <2>1. job.kind \in {"finish", "exception"}
    BY <1>4, WriteContext
  <2> QED  BY <1>4, <2>1, FinishWriteAlone, ExceptionWriteAlone
<1>5. ~Crash /\ ~DbError /\ ~InspectDbError
  <2>1. ~Fault("crash") /\ ~Fault("dberror")
    BY FaultIsNew, StoreParts
  <2> QED  BY <2>1 DEF Crash, DbError, InspectDbError
<1>6. CASE UNCHANGED storeVars
  <2>1. /\ inputs' = inputs /\ vouchers' = vouchers /\ notices' = notices
        /\ reports' = reports /\ state' = state /\ job' = job /\ faults' = faults
    BY <1>6 DEF storeVars, vars
  <2>2. UndecidedRows'
    BY <2>1 DEF JobAlone, UndecidedRows, RowsOf, InJob, Decided
  <2>3. StatusWritesLeft' = StatusWritesLeft /\ Decided(state.input)' = Decided(state.input)
    BY <2>1 DEF StatusWritesLeft, Decided
  <2>4. FinishAlone => FinishAlone'
    BY <2>1 DEF FinishAlone
  <2>5. ExceptionAlone => ExceptionAlone'
    <3>1. ExceptionWrites' = ExceptionWrites /\ PendingReports' = PendingReports
      BY <2>1 DEF ExceptionWrites, StatusWrite, ReportWrites, ReportRows, PendingReports
    <3> QED  BY <2>1, <2>3, <3>1 DEF ExceptionAlone
  <2> QED  BY <2>1, <2>2, <2>3, <2>4, <2>5 DEF JobAlone
<1> QED  BY <1>1, <1>2, <1>3, <1>4, <1>5, <1>6 DEF StoreNext

LEMMA AloneInit == StoreInit => JobAlone /\ faults.dberror = 0
<1> SUFFICES ASSUME StoreInit PROVE JobAlone /\ faults.dberror = 0
  OBVIOUS
<1>1. job = NoJob /\ faults.dberror = 0 /\ vouchers = {} /\ notices = {}
      /\ reports = [i \in InputIndex |-> <<>>]
  BY DEF StoreInit, Init
<1>2. UndecidedRows
  BY <1>1 DEF UndecidedRows, RowsOf
<1> QED  BY <1>1, <1>2 DEF JobAlone, NoJob

LEMMA AloneInvariance ==
  ASSUME Faults = {}
  PROVE  StoreSpec => [](JobAlone /\ faults.dberror = 0)
<1>1. [StoreNext]_storeVars => faults' = faults
  BY DEF StoreNext, storeVars, OneWrite, StartFinish, StartException, Start, WriteNext,
         FinishDone, ExceptionDone, Stop, Crash, DbError, InspectDbError, Fault
<1>2. StoreIInv /\ JobComplete /\ (JobAlone /\ faults.dberror = 0) /\ [StoreNext]_storeVars
        => (JobAlone /\ faults.dberror = 0)'
  BY <1>1, JobAloneKeeps
<1> QED  BY <1>2, AloneInit, StoreInvariance, JobAlwaysComplete, PTL DEF StoreSpec

(* Without faults, nothing is stored of an input that is not decided but   *)
(* what its own finish has written.                                        *)
THEOREM JobsAreAlone ==
  ASSUME Faults = {}
  PROVE  StoreSpec => []JobAlone
BY AloneInvariance, PTL

(* No output is stored of an input that was rejected or skipped.           *)
RefusedRows ==
  \A i \in InputIndex : inputs[i] \in {"rejected", "exception"} =>
    RowsOf(vouchers, i) = {} /\ RowsOf(notices, i) = {}

(* A write that refuses an input finds no output of it, and no later one   *)
(* is of an input that is decided.                                         *)
LEMMA WriteRefuses ==
  ASSUME StoreIInv, JobComplete, faults.dberror = 0, JobAlone, RefusedRows, WriteNext
  PROVE  RefusedRows'
<1> DEFINE h == Head(job.writes)
           i == state.input
<1>1. /\ inputs' = IF h.table = "inputs" THEN [inputs EXCEPT ![i] = h.row] ELSE inputs
      /\ h.table = "inputs" => StatusWritesLeft # {}
  BY WriteNextStatus
<1>2. /\ i \in InputIndex /\ inputs \in [InputIndex -> {"absent"} \cup Status]
      /\ job.kind \in {"finish", "exception"} /\ job.writes \in Seq(Write) /\ job.writes # <<>>
  BY WriteContext, StoreParts DEF StoredFit, StateTyped
<1>3. job # NoJob
  BY <1>2 DEF NoJob
<1>4. ASSUME h.table = "inputs"
      PROVE  /\ inputs[i] = "unprocessed" /\ ~Decided(i)
             /\ vouchers' = vouchers /\ notices' = notices
  BY <1>1, <1>3, <1>4, AloneContext, WriteContext
<1>5. ASSUME h.table = "inputs", h.row \in {"rejected", "exception"}
      PROVE  job.status # "accepted"
  <2>1. CASE job.kind = "finish"
    <3>1. StatusLast(job.writes, job.status)
      BY <1>2, <2>1, CompleteParts DEF FinishFits
    <3>2. h = job.writes[1] /\ 1 \in DOMAIN job.writes
      BY <1>2, TailShape
    <3>3. h = [table |-> "inputs", row |-> job.status]
      BY <1>5, <3>1, <3>2 DEF StatusLast
    <3> QED  BY <1>5, <3>3
  <2>2. CASE job.kind = "exception"
    BY <2>2 DEF JobAlone, ExceptionAlone
  <2> QED  BY <1>2, <2>1, <2>2
<1>6. ASSUME NEW j \in InputIndex, inputs'[j] \in {"rejected", "exception"}
      PROVE  RowsOf(vouchers', j) = {} /\ RowsOf(notices', j) = {}
  <2>1. CASE j = i /\ h.table = "inputs"
    <3>1. h.row \in {"rejected", "exception"}
      BY <1>1, <1>2, <1>6, <2>1
    <3>2. job.status # "accepted" /\ ~Decided(j) /\ vouchers' = vouchers /\ notices' = notices
      BY <1>4, <1>5, <2>1, <3>1
    <3>3. RowsOf(vouchers, j) = {} /\ RowsOf(notices, j) = {}
      BY <3>2 DEF JobAlone, UndecidedRows
    <3> QED  BY <3>2, <3>3
  <2>2. CASE ~(j = i /\ h.table = "inputs")
    <3>1. inputs[j] = inputs'[j]
      BY <1>1, <1>2, <2>2
    <3>2. inputs[j] \in Verdict
      BY <1>6, <3>1 DEF Verdict
    <3>3. RowsOf(vouchers', j) = RowsOf(vouchers, j) /\ RowsOf(notices', j) = RowsOf(notices, j)
      BY <3>2, DecidedStays
    <3> QED  BY <1>6, <3>1, <3>3 DEF RefusedRows
  <2> QED  BY <2>1, <2>2
<1> QED  BY <1>6 DEF RefusedRows

LEMMA RefusedRowsKeeps ==
  ASSUME StoreIInv, JobComplete, faults.dberror = 0, JobAlone, RefusedRows,
         [StoreNext]_storeVars
  PROVE  RefusedRows'
<1>1. CASE WriteNext
  BY <1>1, WriteRefuses
<1>2. CASE \E j \in InputIndex : AddAdvanceInput(j)
  <2>1. PICK j \in InputIndex : AddAdvanceInput(j)
    BY <1>2
  <2>2. /\ inputs \in [InputIndex -> {"absent"} \cup Status]
        /\ inputs' = [inputs EXCEPT ![j] = "unprocessed"]
        /\ vouchers' = vouchers /\ notices' = notices
    BY <2>1, StoreParts DEF AddAdvanceInput, StoredFit
  <2>3. \A i \in InputIndex : inputs'[i] \in {"rejected", "exception"} => inputs[i] = inputs'[i]
    BY <2>2
  <2> QED  BY <2>2, <2>3 DEF RefusedRows
<1>3. CASE UNCHANGED tables
  BY <1>3 DEF tables, RefusedRows
<1> QED  BY <1>1, <1>2, <1>3, OtherSteps

(* As long as no process ended within a finish and no statement failed     *)
(* nothing that a rejected request emitted is stored.                      *)
THEOREM RejectedStoresNothing ==
  StoreSpec => [](faults.crash = 0 /\ faults.dberror = 0 => RejectedHasNoOutputs)
<1> DEFINE NoFault == faults.crash = 0 /\ faults.dberror = 0
           Alone   == NoFault => JobAlone /\ RefusedRows
<1>1. StoreInit => Alone
  <2>1. StoreInit => RefusedRows
    BY DEF StoreInit, Init, RefusedRows
  <2> QED  BY <2>1, AloneInit
<1>2. StoreIInv /\ JobComplete /\ Alone /\ [StoreNext]_storeVars => Alone'
  <2> SUFFICES ASSUME StoreIInv, JobComplete, Alone, [StoreNext]_storeVars, NoFault'
               PROVE  (JobAlone /\ RefusedRows)'
    OBVIOUS
  <2>1. faults' = faults
    BY FaultsOnlyGrow
  <2>2. JobAlone /\ RefusedRows /\ faults.dberror = 0
    BY <2>1
  <2> HIDE DEF NoFault, Alone
  <2> QED  BY <2>1, <2>2, JobAloneKeeps, RefusedRowsKeeps
<1>3. StoreIInv /\ Alone => (faults.crash = 0 /\ faults.dberror = 0 => RejectedHasNoOutputs)
  <2> SUFFICES ASSUME StoreIInv, RefusedRows PROVE RejectedHasNoOutputs
    OBVIOUS
  <2>1. \A r \in vouchers \cup notices : r.input \in InputIndex
    BY StoreParts DEF StoredFit, OutputRow
  <2> QED  BY <2>1 DEF RejectedHasNoOutputs, RefusedRows, RowsOf
<1> QED  BY <1>1, <1>2, <1>3, StoreInvariance, JobAlwaysComplete, PTL DEF StoreSpec

-----------------------------------------------------------------------------
(* The refinement.  The operators of the abstract AppModel are those of    *)
(* the detailed one.                                                       *)
LEMMA SameOperators ==
  /\ Atomic!RollupsStateIdle = RollupsStateIdle
  /\ \A next, table, list : Atomic!IsNext(next, table, list) <=> IsNext(next, table, list)
  /\ \A i, list : Atomic!OutputRows(i, list) = OutputRows(i, list)
  /\ \A list : Atomic!ReportRows(list) = ReportRows(list)
  /\ \A table, rows : Atomic!Upsert(table, rows) = Upsert(table, rows)
  /\ Atomic!GetProcessedInputCount = GetProcessedInputCount
<1>1. /\ Atomic!RollupsStateIdle = RollupsStateIdle
      /\ \A i : Atomic!RollupsStateAdvance(i) = RollupsStateAdvance(i)
      /\ \A k : Atomic!RollupsStateInspect(k) = RollupsStateInspect(k)
  BY DEF Atomic!RollupsStateIdle, Atomic!RollupsStateAdvance, Atomic!RollupsStateInspect,
         Atomic!Working, RollupsStateIdle, RollupsStateAdvance, RollupsStateInspect, Working
<1>2. /\ \A list : Atomic!Unprocessed(list) = Unprocessed(list)
      /\ \A x, S : Atomic!IsLeast(x, S) <=> IsLeast(x, S)
  BY DEF Atomic!Unprocessed, Unprocessed, Atomic!IsLeast, IsLeast
<1>3. \A next, table, list : Atomic!IsNext(next, table, list) <=> IsNext(next, table, list)
  BY <1>1, <1>2 DEF Atomic!IsNext, IsNext
<1>4. /\ \A i, list : Atomic!OutputRows(i, list) = OutputRows(i, list)
      /\ \A list : Atomic!ReportRows(list) = ReportRows(list)
  BY DEF Atomic!OutputRows, OutputRows, Atomic!ReportRows, ReportRows
<1>5. \A table, rows : Atomic!Upsert(table, rows) = Upsert(table, rows)
  BY DEF Atomic!Upsert, Upsert, Atomic!SameKey, SameKey
<1>6. Atomic!GetProcessedInputCount = GetProcessedInputCount
  <2>1. Atomic!Verdict = Verdict
    BY DEF Atomic!Verdict, Verdict
  <2>2. Atomic!InputsWith(Verdict) = InputsWith(Verdict)
    BY DEF Atomic!InputsWith, InputsWith
  <2>3. Atomic!InputsWith(Atomic!Verdict) = InputsWith(Verdict)
    BY <2>1, <2>2
  <2>4. \A S : Atomic!Cardinality(S) = Cardinality(S)
    BY DEF Atomic!Cardinality, Cardinality
  <2> QED  BY <2>3, <2>4 DEF Atomic!GetProcessedInputCount, GetProcessedInputCount
<1> QED  BY <1>1, <1>3, <1>4, <1>5, <1>6

(* There is one state to move to, and one only.                            *)
LEMMA LeastExists ==
  ASSUME NEW S, S \subseteq Nat, S # {}
  PROVE  \E x \in S : IsLeast(x, S)
<1>1. PICK x \in S : \A y \in S : <<y, x>> \notin OpToRel(<, Nat)
  BY NatLessThanWellFounded, WFMin
<1>2. \A y \in S : ~(y < x)
  BY <1>1 DEF OpToRel
<1>3. \A y \in S : x <= y
  BY <1>2
<1> QED  BY <1>3 DEF IsLeast

LEMMA NextIsOne ==
  ASSUME NEW table, NEW list \in Seq(InspectInput)
  PROVE  /\ \E next \in {RollupsStateIdle}
                          \cup {RollupsStateAdvance(i) : i \in InputIndex}
                          \cup {RollupsStateInspect(k) : k \in DOMAIN list} :
              IsNext(next, table, list)
         /\ \A a, b : IsNext(a, table, list) /\ IsNext(b, table, list) => a = b
<1> DEFINE waiting == Unprocessed(list)
           pending == {i \in InputIndex : table[i] = "unprocessed"}
<1>1. waiting \subseteq Nat /\ waiting \subseteq DOMAIN list
  <2>1. DOMAIN list = 1 .. Len(list) /\ Len(list) \in Nat
    BY LenProperties
  <2> QED  BY <2>1 DEF Unprocessed
<1>2. pending \subseteq Nat /\ pending \subseteq InputIndex
  BY ModelAssumption
<1>3. \A S : \A x, y : S \subseteq Nat /\ IsLeast(x, S) /\ IsLeast(y, S) => x = y
  BY DEF IsLeast
<1> HIDE DEF waiting, pending
<1>4. \A next : IsNext(next, table, list) <=>
        \/ \E k \in waiting : IsLeast(k, waiting) /\ next = RollupsStateInspect(k)
        \/ /\ waiting = {}
           /\ \E i \in pending : IsLeast(i, pending) /\ next = RollupsStateAdvance(i)
        \/ waiting = {} /\ pending = {} /\ next = RollupsStateIdle
  BY DEF IsNext, waiting, pending
<1>5. \E next \in {RollupsStateIdle}
                    \cup {RollupsStateAdvance(i) : i \in InputIndex}
                    \cup {RollupsStateInspect(k) : k \in DOMAIN list} :
         IsNext(next, table, list)
  <2>1. CASE waiting # {}
    <3>1. PICK k \in waiting : IsLeast(k, waiting)
      BY <1>1, <2>1, LeastExists
    <3>2. IsNext(RollupsStateInspect(k), table, list) /\ k \in DOMAIN list
      BY <1>1, <1>4, <3>1
    <3> QED  BY <3>2
  <2>2. CASE waiting = {} /\ pending # {}
    <3>1. PICK i \in pending : IsLeast(i, pending)
      BY <1>2, <2>2, LeastExists
    <3>2. IsNext(RollupsStateAdvance(i), table, list) /\ i \in InputIndex
      BY <1>2, <1>4, <2>2, <3>1
    <3> QED  BY <3>2
  <2>3. CASE waiting = {} /\ pending = {}
    <3>1. IsNext(RollupsStateIdle, table, list)
      BY <1>4, <2>3
    <3> QED  BY <3>1
  <2> QED  BY <2>1, <2>2, <2>3
<1>6. ASSUME NEW a, NEW b, IsNext(a, table, list), IsNext(b, table, list)
      PROVE  a = b
  <2>1. CASE waiting # {}
    <3>1. PICK k \in waiting : IsLeast(k, waiting) /\ a = RollupsStateInspect(k)
      BY <1>4, <1>6, <2>1
    <3>2. PICK l \in waiting : IsLeast(l, waiting) /\ b = RollupsStateInspect(l)
      BY <1>4, <1>6, <2>1
    <3>3. k = l
      BY <1>1, <1>3, <3>1, <3>2
    <3> QED  BY <3>1, <3>2, <3>3
  <2>2. CASE waiting = {} /\ pending # {}
    <3>1. PICK i \in pending : IsLeast(i, pending) /\ a = RollupsStateAdvance(i)
      BY <1>4, <1>6, <2>2
    <3>2. PICK j \in pending : IsLeast(j, pending) /\ b = RollupsStateAdvance(j)
      BY <1>4, <1>6, <2>2
    <3>3. i = j
      BY <1>2, <1>3, <3>1, <3>2
    <3> QED  BY <3>1, <3>2, <3>3
  <2>3. CASE waiting = {} /\ pending = {}
    BY <1>4, <1>6, <2>3
  <2> QED  BY <2>1, <2>2, <2>3
<1> QED  BY <1>5, <1>6

(* The state a finish will move to.                                        *)
LEMMA FollowingFinish ==
  ASSUME inspects \in Seq(InspectInput), job.kind = "finish"
  PROVE  /\ IsNext(FollowingState, inputs, inspects)
         /\ \A next : IsNext(next, inputs, inspects) => next = FollowingState
<1> DEFINE all == {RollupsStateIdle}
                    \cup {RollupsStateAdvance(i) : i \in InputIndex}
                    \cup {RollupsStateInspect(k) : k \in DOMAIN inspects}
<1>1. \E next \in all : IsNext(next, inputs, inspects)
  BY NextIsOne
<1>2. FollowingState = CHOOSE next \in all : IsNext(next, inputs, inspects)
  BY DEF FollowingState
<1> HIDE DEF all
<1>3. IsNext(FollowingState, inputs, inspects)
  BY <1>1, <1>2
<1> QED  BY <1>3, NextIsOne

(* What a reader of decided inputs sees depends on their rows only.        *)
LEMMA SameRowsVisible ==
  ASSUME StoredFit, StoredFit',
         \A i \in InputIndex : Decided(i)' <=> Decided(i),
         \A i \in InputIndex : Decided(i) => /\ RowsOf(vouchers', i) = RowsOf(vouchers, i)
                                             /\ RowsOf(notices', i) = RowsOf(notices, i)
  PROVE  VisibleRows(vouchers)' = VisibleRows(vouchers) /\ VisibleRows(notices)' = VisibleRows(notices)
<1>1. /\ \A r \in vouchers : r.input \in InputIndex
      /\ \A r \in vouchers' : r.input \in InputIndex
      /\ \A r \in notices : r.input \in InputIndex
      /\ \A r \in notices' : r.input \in InputIndex
  BY DEF StoredFit, OutputRow
<1>2. /\ \A r \in vouchers : Decided(r.input) => r \in vouchers'
      /\ \A r \in notices : Decided(r.input) => r \in notices'
      /\ \A r \in vouchers' : Decided(r.input) => r \in vouchers
      /\ \A r \in notices' : Decided(r.input) => r \in notices
  BY <1>1 DEF RowsOf
<1>3. VisibleRows(vouchers)' = {r \in vouchers' : Decided(r.input)'}
  BY DEF VisibleRows
<1>4. VisibleRows(notices)' = {r \in notices' : Decided(r.input)'}
  BY DEF VisibleRows
<1>5. VisibleRows(vouchers)' = VisibleRows(vouchers)
  BY <1>1, <1>2, <1>3 DEF VisibleRows, Decided
<1>6. VisibleRows(notices)' = VisibleRows(notices)
  BY <1>1, <1>2, <1>4 DEF VisibleRows, Decided
<1> QED  BY <1>5, <1>6

LEMMA TablesUnchangedVisible ==
  ASSUME StoredFit, StoredFit', UNCHANGED <<vouchers, notices, reports>>,
         \A i \in InputIndex : Decided(i)' <=> Decided(i),
         \A i \in InputIndex : ~InJob(i) /\ ~InJob(i)'
  PROVE  /\ VisibleRows(vouchers)' = VisibleRows(vouchers)
         /\ VisibleRows(notices)' = VisibleRows(notices)
         /\ VisibleReports' = VisibleReports
<1>1. /\ VisibleRows(vouchers)' = VisibleRows(vouchers)
      /\ VisibleRows(notices)' = VisibleRows(notices)
  BY SameRowsVisible
<1>2. VisibleReports = [i \in InputIndex |-> IF ~Decided(i) THEN <<>> ELSE reports[i]]
  BY DEF VisibleReports
<1>3. VisibleReports' = [i \in InputIndex |-> IF ~Decided(i)' THEN <<>> ELSE reports'[i]]
  BY DEF VisibleReports
<1> QED  BY <1>1, <1>2, <1>3

LEMMA StoreStutterRefines ==
  ASSUME UNCHANGED <<inputs, inspects>>,
         VisibleRows(vouchers)' = VisibleRows(vouchers),
         VisibleRows(notices)' = VisibleRows(notices),
         VisibleReports' = VisibleReports, VisibleState' = VisibleState
  PROVE  UNCHANGED Atomic!vars
BY DEF Atomic!vars

LEMMA OneWriteRefines ==
  ASSUME StoreIInv, StoreIInv', OneWrite
  PROVE  Atomic!Next
<1>1. job = NoJob /\ job' = NoJob /\ StoredFit /\ StoredFit'
  BY StoreParts, StorePartsPrime DEF OneWrite
<1>2. VisibleState = state /\ VisibleState' = state' /\ \A i \in InputIndex : ~InJob(i) /\ ~InJob(i)'
  BY <1>1 DEF VisibleState, InJob
<1>3. ASSUME UNCHANGED tables
      PROVE  /\ VisibleRows(vouchers)' = VisibleRows(vouchers)
             /\ VisibleRows(notices)' = VisibleRows(notices)
             /\ VisibleReports' = VisibleReports /\ inputs' = inputs
  <2>1. /\ inputs' = inputs /\ UNCHANGED <<vouchers, notices, reports>>
        /\ \A i \in InputIndex : Decided(i)' <=> Decided(i)
    BY <1>3 DEF tables, Decided
  <2> QED  BY <1>1, <1>2, <2>1, TablesUnchangedVisible
<1>4. CASE \E i \in InputIndex : AddAdvanceInput(i)
  <2>1. PICK i \in InputIndex : AddAdvanceInput(i)
    BY <1>4
  <2>2. /\ inputs[i] = "absent" /\ inputs' = [inputs EXCEPT ![i] = "unprocessed"]
        /\ UNCHANGED <<vouchers, notices, reports, inspects, state>>
    BY <2>1 DEF AddAdvanceInput
  <2>3. \A j \in InputIndex : Decided(j)' <=> Decided(j)
    BY <1>1, <2>2 DEF Decided, Verdict, StoredFit
  <2>4. /\ VisibleRows(vouchers)' = VisibleRows(vouchers)
        /\ VisibleRows(notices)' = VisibleRows(notices)
        /\ VisibleReports' = VisibleReports
    BY <1>1, <1>2, <2>2, <2>3, TablesUnchangedVisible
  <2>5. Atomic!AddAdvanceInput(i)
    BY <1>2, <2>2, <2>4 DEF Atomic!AddAdvanceInput
  <2> QED  BY <2>5 DEF Atomic!Next
<1>5. CASE AddInspectInput
  <2>1. UNCHANGED tables
    BY <1>5 DEF AddInspectInput, tables
  <2>2. Atomic!AddInspectInput
    BY <1>2, <1>3, <1>5, <2>1 DEF AddInspectInput, Atomic!AddInspectInput
  <2> QED  BY <2>2 DEF Atomic!Next
<1>6. CASE \E p \in Payload : AddOutput(p)
  <2>1. PICK p \in Payload : AddOutput(p)
    BY <1>6
  <2>2. UNCHANGED tables /\ inspects' = inspects
    BY <2>1 DEF AddOutput, AddVoucher, AddNotice, AddReport
  <2>3. Atomic!Emitted = Emitted
    BY <1>2 DEF Atomic!Emitted, Emitted
  <2>4. UNCHANGED <<Atomic!tables, inspects>>
    BY <1>3, <2>2 DEF Atomic!tables
  <2>5. /\ AddVoucher(p) => Atomic!AddVoucher(p)
        /\ AddNotice(p) => Atomic!AddNotice(p)
        /\ AddReport(p) => Atomic!AddReport(p)
    BY <1>2, <2>3, <2>4 DEF AddVoucher, AddNotice, AddReport, Atomic!AddVoucher,
                            Atomic!AddNotice, Atomic!AddReport
  <2> QED  BY <2>1, <2>5 DEF AddOutput, Atomic!AddOutput, Atomic!Next
<1>7. ASSUME NEW status, InspectFinish(status)
      PROVE  Atomic!InspectFinish(status) /\ inputs' = inputs
  <2>1. UNCHANGED tables
    BY <1>7 DEF InspectFinish
  <2>2. UNCHANGED Atomic!tables
    BY <1>3, <2>1 DEF Atomic!tables
  <2>3. Atomic!GetProcessedInputCount = GetProcessedInputCount
    BY SameOperators
  <2>4. Atomic!ReportRows(state.reports) = ReportRows(state.reports)
    BY SameOperators
  <2> QED  BY <1>2, <1>3, <1>7, <2>1, <2>2, <2>3, <2>4 DEF InspectFinish, Atomic!InspectFinish
<1>8. CASE state.mode # "advance" /\ \E accepted \in BOOLEAN : FinishAndGetNext(accepted)
  <2>1. PICK accepted \in BOOLEAN : FinishAndGetNext(accepted)
    BY <1>8
  <2> DEFINE status == IF accepted THEN "accepted" ELSE "rejected"
  <2>2. IdleFinish \/ InspectFinish(status)
    BY <1>8, <2>1 DEF FinishAndGetNext, AdvanceFinish
  <2>3. IsNext(state', inputs', inspects')
    BY <2>1 DEF FinishAndGetNext
  <2>4. IdleFinish => Atomic!IdleFinish
    <3>1. IdleFinish => UNCHANGED tables
      BY DEF IdleFinish
    <3> QED  BY <1>2, <1>3, <3>1 DEF IdleFinish, Atomic!IdleFinish, Atomic!tables
  <2>5. InspectFinish(status) => Atomic!InspectFinish(status)
    BY <1>7
  <2>6. Atomic!IsNext(VisibleState', inputs', inspects')
    BY <1>2, <2>3, SameOperators
  <2>7. Atomic!FinishAndGetNext(accepted)
    BY <2>2, <2>4, <2>5, <2>6 DEF Atomic!FinishAndGetNext
  <2> QED  BY <2>7 DEF Atomic!Next
<1>9. CASE state.mode # "advance" /\ RegisterException
  <2>1. InspectFinish("exception") /\ state' = RollupsStateIdle
    BY <1>9 DEF RegisterException, AdvanceException
  <2>2. VisibleState' = Atomic!RollupsStateIdle
    BY <1>2, <2>1, SameOperators
  <2>3. Atomic!RegisterException
    BY <1>7, <2>1, <2>2 DEF Atomic!RegisterException
  <2> QED  BY <2>3 DEF Atomic!Next
<1> QED  BY <1>4, <1>5, <1>6, <1>8, <1>9 DEF OneWrite

LEMMA StartRefines ==
  ASSUME StoreIInv, StoreIInv', faults.dberror = 0, JobAlone,
         NEW kind \in {"finish", "exception"}, NEW status, NEW writes,
         Start(kind, status, writes)
  PROVE  UNCHANGED Atomic!vars
<1>1. /\ job = NoJob /\ job' # NoJob /\ state.mode = "advance"
      /\ inputs' = inputs /\ vouchers' = vouchers /\ notices' = notices
      /\ reports' = reports /\ inspects' = inspects /\ state' = state
  BY StartAlone DEF Start, vars
<1>2. ~Decided(state.input) /\ ~Decided(state.input)'
  BY <1>1, AloneContext DEF Decided, Verdict
<1>3. VisibleState' = VisibleState
  BY <1>1, <1>2 DEF VisibleState
<1>4. VisibleReports' = VisibleReports
  <2>1. \A i \in InputIndex : /\ Decided(i)' <=> Decided(i)
                              /\ Decided(i) => ~InJob(i) /\ ~InJob(i)'
    BY <1>1, <1>2 DEF Decided, InJob
  <2>2. VisibleReports = [i \in InputIndex |-> IF ~Decided(i) THEN <<>> ELSE reports[i]]
    BY <2>1 DEF VisibleReports
  <2>3. VisibleReports' = [i \in InputIndex |-> IF ~Decided(i) THEN <<>> ELSE reports[i]]
    BY <1>1, <2>1 DEF VisibleReports
  <2> QED  BY <2>2, <2>3
<1>5. VisibleRows(vouchers)' = VisibleRows(vouchers) /\ VisibleRows(notices)' = VisibleRows(notices)
  BY <1>1 DEF VisibleRows, Decided
<1> QED  BY <1>1, <1>3, <1>4, <1>5, StoreStutterRefines

(* A write before the status is of an input whose rows are hidden, one     *)
(* after it was seen already.                                              *)
LEMMA HiddenWriteRefines ==
  ASSUME StoreIInv, StoreIInv', JobComplete, faults.dberror = 0, JobAlone, JobAlone',
         WriteNext, Head(job.writes).table # "inputs"
  PROVE  UNCHANGED Atomic!vars
<1> DEFINE i == state.input
           h == Head(job.writes)
<1>1. /\ job.writes \in Seq(Write) /\ job.writes # <<>> /\ job.kind \in {"finish", "exception"}
      /\ job'.kind = job.kind /\ state' = state /\ StateTyped
      /\ vouchers' = IF h.table = "vouchers" THEN Upsert(vouchers, {h.row}) ELSE vouchers
      /\ notices' = IF h.table = "notices" THEN Upsert(notices, {h.row}) ELSE notices
  BY WriteContext
<1>2. inputs' = inputs /\ inspects' = inspects
  BY WriteNextStatus DEF WriteNext
<1>3. /\ job # NoJob /\ job' # NoJob
  BY <1>1 DEF NoJob
<1>4. StoredFit /\ StoredFit'
  BY StoreParts, StorePartsPrime
<1>5. \A j \in InputIndex : Decided(j)' <=> Decided(j)
  BY <1>2 DEF Decided
<1>6. Decided(i) => job.kind = "exception" /\ job'.kind = "exception" /\ h.table = "reports"
  <2>1. ASSUME job.kind = "finish" PROVE ~Decided(i)
    <3>1. FinishFits(job.writes, job.status, vouchers, notices, reports[i])
      BY <1>1, <2>1, CompleteParts
    <3>2. Len(job.writes) \in DOMAIN job.writes
      BY <1>1, TailShape
    <3>3. StatusWritesLeft # {}
      BY <3>1, <3>2 DEF FinishFits, StatusLast, StatusWritesLeft
    <3> QED  BY <1>3, <3>3, AloneContext
  <2>2. ASSUME Decided(i), job.kind = "exception" PROVE h.table = "reports"
    <3>1. 1 \in DOMAIN job.writes /\ h = job.writes[1]
      BY <1>1, TailShape
    <3> QED  BY <2>2, <3>1 DEF JobAlone, ExceptionAlone
  <2> QED  BY <1>1, <2>1, <2>2
<1> HIDE DEF h
<1>7. \A j \in InputIndex : Decided(j) => /\ RowsOf(vouchers', j) = RowsOf(vouchers, j)
                                          /\ RowsOf(notices', j) = RowsOf(notices, j)
                                          /\ j # i => reports'[j] = reports[j]
  <2>1. ASSUME NEW j \in InputIndex, Decided(j), j # i
        PROVE  /\ RowsOf(vouchers', j) = RowsOf(vouchers, j)
               /\ RowsOf(notices', j) = RowsOf(notices, j) /\ reports'[j] = reports[j]
    BY <2>1, OwnRows
  <2>2. Decided(i) => vouchers' = vouchers /\ notices' = notices
    BY <1>1, <1>6
  <2> QED  BY <2>1, <2>2
<1>8. VisibleRows(vouchers)' = VisibleRows(vouchers) /\ VisibleRows(notices)' = VisibleRows(notices)
  BY <1>4, <1>5, <1>7, SameRowsVisible
<1>9. VisibleReports' = VisibleReports
  <2>1. Decided(i) => /\ reports[i] \o PendingReports = Reports
                      /\ reports'[i] \o PendingReports' = Reports
    <3>1. ASSUME Decided(i) PROVE ExceptionAlone /\ ExceptionAlone'
      BY <1>6, <3>1 DEF JobAlone
    <3>2. Decided(i) => Decided(state.input)'
      BY <1>1, <1>2 DEF Decided
    <3>3. Reports' = Reports
      BY <1>1 DEF Reports
    <3> QED  BY <1>1, <3>1, <3>2, <3>3 DEF ExceptionAlone, Reports
  <2>2. VisibleReports = [j \in InputIndex |-> IF ~Decided(j) THEN <<>>
                                               ELSE IF j = i THEN Reports ELSE reports[j]]
    BY <1>3, <2>1 DEF VisibleReports, InJob
  <2>3. VisibleReports' = [j \in InputIndex |->
                             IF ~Decided(j)' THEN <<>>
                             ELSE IF InJob(j)' THEN reports'[j] \o PendingReports'
                             ELSE reports'[j]]
    BY DEF VisibleReports
  <2>4. \A j \in InputIndex : InJob(j)' <=> j = i
    BY <1>1, <1>3 DEF InJob
  <2> HIDE DEF i
  <2>5. VisibleReports' = [j \in InputIndex |-> IF ~Decided(j) THEN <<>>
                                                ELSE IF j = i THEN Reports ELSE reports[j]]
    BY <1>5, <1>7, <2>1, <2>3, <2>4
  <2> QED  BY <2>2, <2>5
<1>10. VisibleState' = VisibleState
  <2>1. FollowingState' = FollowingState
    BY <1>1, <1>2 DEF FollowingState
  <2>2. Decided(state.input)' <=> Decided(state.input)
    BY <1>1, <1>2 DEF Decided
  <2> QED  BY <1>1, <1>3, <2>1, <2>2 DEF VisibleState
<1> QED  BY <1>2, <1>8, <1>9, <1>10, StoreStutterRefines

(* All is written.                                                         *)
LEMMA DoneRefines ==
  ASSUME StoreIInv, StoreIInv', faults.dberror = 0, JobAlone, FinishDone \/ ExceptionDone
  PROVE  UNCHANGED Atomic!vars
<1> DEFINE i == state.input
<1>1. /\ job # NoJob /\ job' = NoJob /\ job.writes = <<>>
      /\ inputs' = inputs /\ vouchers' = vouchers /\ notices' = notices
      /\ reports' = reports /\ inspects' = inspects
  BY DEF FinishDone, ExceptionDone, NoJob, tables
<1>2. DOMAIN job.writes = {}
  <2>1. <<>> \in Seq(Write) /\ Len(<<>>) = 0
    BY EmptySeq
  <2>2. DOMAIN job.writes = 1 .. 0
    BY <1>1, <2>1, LenProperties
  <2> QED  BY <2>2
<1>3. /\ Decided(i) /\ reports \in [InputIndex -> Seq(ReportRow)] /\ i \in InputIndex
      /\ inspects \in Seq(InspectInput)
  <2>1. StatusWritesLeft = {}
    BY <1>2 DEF StatusWritesLeft
  <2> QED  BY <1>1, <2>1, AloneContext, StoreParts DEF StoredFit, StateTyped
<1>4. VisibleState' = VisibleState
  <2>1. VisibleState = FollowingState /\ VisibleState' = state'
    BY <1>1, <1>3 DEF VisibleState
  <2>2. CASE FinishDone
    <3>1. job.kind = "finish" /\ IsNext(state', inputs, inspects)
      BY <2>2 DEF FinishDone
    <3> QED  BY <1>3, <2>1, <3>1, FollowingFinish
  <2>3. CASE ExceptionDone
    BY <2>1, <2>3 DEF ExceptionDone, FollowingState
  <2> QED  BY <2>2, <2>3
<1>5. VisibleRows(vouchers)' = VisibleRows(vouchers) /\ VisibleRows(notices)' = VisibleRows(notices)
  BY <1>1 DEF VisibleRows, Decided
<1>6. VisibleReports' = VisibleReports
  <2>1. PendingReports = <<>>
    <3>1. PendingReports = [k \in {} |-> job.writes[k].row]
      BY <1>2 DEF PendingReports
    <3> QED  BY <3>1
  <2>2. reports[i] \o <<>> = reports[i]
    BY <1>3, ConcatEmptySeq
  <2>3. VisibleReports = [j \in InputIndex |-> IF ~Decided(j) THEN <<>> ELSE reports[j]]
    BY <2>1, <2>2 DEF VisibleReports, InJob
  <2>4. VisibleReports' = [j \in InputIndex |-> IF ~Decided(j) THEN <<>> ELSE reports[j]]
    BY <1>1 DEF VisibleReports, InJob, Decided
  <2> QED  BY <2>3, <2>4
<1> QED  BY <1>1, <1>4, <1>5, <1>6, StoreStutterRefines

LEMMA StopRefines ==
  ASSUME StoreIInv, StoreIInv', Stop
  PROVE  Atomic!Next
<1>1. /\ job = NoJob /\ job' = NoJob /\ UNCHANGED tables /\ StoredFit /\ StoredFit'
      /\ inspects' = <<>> /\ state' = RollupsStateIdle
  BY StoreParts, StorePartsPrime DEF Stop, Restart
<1>2. VisibleState' = state' /\ \A i \in InputIndex : ~InJob(i) /\ ~InJob(i)'
  BY <1>1 DEF VisibleState, InJob
<1>3. /\ UNCHANGED <<vouchers, notices, reports>> /\ inputs' = inputs
      /\ \A i \in InputIndex : Decided(i)' <=> Decided(i)
  BY <1>1 DEF tables, Decided
<1>4. UNCHANGED Atomic!tables
  BY <1>1, <1>2, <1>3, TablesUnchangedVisible DEF Atomic!tables
<1> QED  BY <1>1, <1>2, <1>4, SameOperators DEF Atomic!Restart, Atomic!Next

LEMMA FollowingFinishPrime ==
  ASSUME inspects' \in Seq(InspectInput), job'.kind = "finish"
  PROVE  IsNext(FollowingState', inputs', inspects')
<1> DEFINE all == {RollupsStateIdle}
                    \cup {RollupsStateAdvance(i) : i \in InputIndex}
                    \cup {RollupsStateInspect(k) : k \in DOMAIN inspects'}
<1>1. \E next \in all : IsNext(next, inputs', inspects')
  BY NextIsOne
<1>2. FollowingState' = CHOOSE next \in all : IsNext(next, inputs', inspects')
  BY DEF FollowingState
<1> HIDE DEF all
<1> QED  BY <1>1, <1>2

(* The list is the reports of the request when it is as long.              *)
LEMMA ReportsAreAll ==
  ASSUME NEW w \in Seq(Write), Len(w) = 1,
         NEW rows \in Seq(ReportRow), NEW list \in Seq(ReportRow),
         Len(list) = Len(rows), ReportsIn(w, rows, list)
  PROVE  list = rows
<1>1. Len(rows) \in Nat
  BY LenProperties
<1>2. PICK s \in 0 .. Len(rows), before \in 0 .. Len(w) :
        /\ Len(w) = before + (Len(rows) - s) + 1
        /\ \A k \in 1 .. s : list[Len(list) - s + k] = rows[k]
  BY DEF ReportsIn
<1>3. s = Len(rows)
  <2>1. \A x, y, z \in Nat : y <= x /\ 1 = z + (x - y) + 1 => y = x
    OBVIOUS
  <2>2. s \in Nat /\ before \in Nat /\ s <= Len(rows)
    BY <1>1
  <2> QED  BY <1>1, <1>2, <2>1, <2>2
<1>4. \A k \in 1 .. Len(list) : list[k] = rows[k]
  <2>1. ASSUME NEW k \in 1 .. Len(list) PROVE list[k] = rows[k]
    <3>1. k \in 1 .. s /\ Len(list) - s + k = k
      BY <1>1, <1>3, <2>1
    <3>2. list[Len(list) - s + k] = rows[k]
      BY <1>2, <3>1
    <3> QED  BY <3>1, <3>2
  <2> QED  BY <2>1
<1> QED  BY <1>4, SeqEqual

(* The status is written: the rows of the input are seen from then on.     *)
LEMMA RowsAppear ==
  ASSUME NEW table, \A r \in table : r.input \in InputIndex,
         inputs \in [InputIndex -> {"absent"} \cup Status],
         NEW i \in InputIndex, ~Decided(i), NEW v \in Verdict,
         inputs' = [inputs EXCEPT ![i] = v]
  PROVE  /\ {r \in table : inputs'[r.input] \in Verdict} = VisibleRows(table) \cup RowsOf(table, i)
         /\ \A rows : (\A r \in rows : r.input = i) =>
              Upsert(VisibleRows(table), rows) = VisibleRows(table) \cup rows
<1>1. \A r \in VisibleRows(table) : r.input # i
  BY DEF VisibleRows
<1>2. \A r \in table : inputs'[r.input] \in Verdict <=> Decided(r.input) \/ r.input = i
  BY DEF Decided
<1>3. {r \in table : inputs'[r.input] \in Verdict} = VisibleRows(table) \cup RowsOf(table, i)
  BY <1>2 DEF VisibleRows, RowsOf
<1>4. ASSUME NEW rows, \A r \in rows : r.input = i
      PROVE  Upsert(VisibleRows(table), rows) = VisibleRows(table) \cup rows
  <2>1. \A r \in VisibleRows(table) : \A s \in rows : ~SameKey(r, s)
    BY <1>1, <1>4 DEF SameKey
  <2> QED  BY <2>1 DEF Upsert
<1> QED  BY <1>3, <1>4

(* The status is the last write of a finish: all that was emitted is       *)
(* stored, and nothing else of the input.                                  *)
LEMMA FinishStatus ==
  ASSUME StoreIInv, JobComplete, JobAlone, WriteNext, job.kind = "finish",
         ~Decided(state.input), Head(job.writes).table = "inputs"
  PROVE  /\ Head(job.writes).row \in {"accepted", "rejected"}
         /\ reports'[state.input] \o PendingReports' = Reports
         /\ IF Head(job.writes).row = "accepted"
            THEN RowsOf(vouchers, state.input) = Vouchers /\ RowsOf(notices, state.input) = Notices
            ELSE RowsOf(vouchers, state.input) = {} /\ RowsOf(notices, state.input) = {}
<1> DEFINE i == state.input
           w == job.writes
           v == Head(w).row
<1>1. /\ w \in Seq(Write) /\ w # <<>> /\ job'.writes = Tail(w) /\ StateTyped
      /\ vouchers' = vouchers /\ notices' = notices /\ reports'[i] = reports[i]
      /\ reports[i] \in Seq(ReportRow) /\ Reports \in Seq(ReportRow)
  BY WriteContext
<1>2. job # NoJob /\ i \in InputIndex
  BY <1>1 DEF NoJob, StateTyped
<1>3. /\ Head(w) = w[1] /\ Len(w) \in Nat \ {0} /\ DOMAIN w = 1 .. Len(w) /\ 1 \in DOMAIN w
      /\ Tail(w) \in Seq(Write) /\ Len(Tail(w)) = Len(w) - 1
  BY <1>1, TailShape
<1>4. FinishFits(w, job.status, vouchers, notices, reports[i]) /\ FinishAlone
  BY <1>1, CompleteParts DEF JobAlone
<1>5. Len(w) = 1 /\ v = job.status /\ v \in {"accepted", "rejected"}
  <2>1. /\ w[1].table = "inputs" => 1 = Len(w)
        /\ w[Len(w)] = [table |-> "inputs", row |-> job.status]
    BY <1>3, <1>4 DEF FinishFits, StatusLast
  <2>2. Len(w) = 1
    BY <1>3, <2>1
  <2>3. Head(w) = [table |-> "inputs", row |-> job.status]
    BY <1>3, <2>1, <2>2
  <2>4. job.status \in {"accepted", "rejected"}
    BY <1>4 DEF FinishAlone
  <2> QED  BY <2>2, <2>3, <2>4
<1>6. reports[i] = Reports
  <2>1. Len(state.reports) \in Nat /\ Len(Reports) = Len(state.reports)
    <3>1. /\ DOMAIN Reports = 1 .. Len(state.reports) /\ Len(state.reports) \in Nat
          /\ DOMAIN Reports = 1 .. Len(Reports) /\ Len(Reports) \in Nat
      BY <1>1, ReportRowsShape, LenProperties DEF StateTyped, Reports
    <3> QED  BY <3>1
  <2>2. Len(reports[i]) = Len(Reports)
    BY <1>4, <1>5, <2>1 DEF FinishAlone
  <2> QED  BY <1>1, <1>4, <1>5, <2>2, ReportsAreAll DEF FinishFits
<1>7. PendingReports' = <<>>
  <2>1. job'.writes \in Seq(Write) /\ Len(job'.writes) = 0
    BY <1>1, <1>3, <1>5
  <2>2. DOMAIN job'.writes = {}
    BY <2>1, LenProperties
  <2>3. PendingReports' = [k \in {} |-> job'.writes[k].row]
    BY <2>2 DEF PendingReports
  <2> QED  BY <2>3
<1>8. reports'[i] \o PendingReports' = Reports
  BY <1>1, <1>6, <1>7, ConcatEmptySeq
<1>9. IF v = "accepted" THEN RowsOf(vouchers, i) = Vouchers /\ RowsOf(notices, i) = Notices
                        ELSE RowsOf(vouchers, i) = {} /\ RowsOf(notices, i) = {}
  <2>1. /\ RowsOf(vouchers, i) \subseteq IF v = "accepted" THEN Vouchers ELSE {}
        /\ RowsOf(notices, i) \subseteq IF v = "accepted" THEN Notices ELSE {}
    BY <1>2, <1>5 DEF JobAlone, UndecidedRows, InJob, Vouchers, Notices
  <2>2. v = "accepted" => Vouchers \subseteq vouchers /\ Notices \subseteq notices
    <3>1. \A k \in DOMAIN w : w[k].table = "inputs"
      BY <1>3, <1>5
    <3> QED  BY <1>4, <1>5, <3>1 DEF FinishFits, OutputsIn
  <2>3. (\A r \in Vouchers : r.input = i) /\ (\A r \in Notices : r.input = i)
    BY DEF Vouchers, Notices, OutputRows
  <2> QED  BY <2>1, <2>2, <2>3 DEF RowsOf
<1> QED  BY <1>5, <1>8, <1>9

(* The status is the first write of an exception: its reports follow, and  *)
(* it has no outputs.                                                      *)
LEMMA ExceptionStatus ==
  ASSUME StoreIInv, JobAlone, JobAlone', WriteNext, job.kind = "exception",
         ~Decided(state.input), Head(job.writes).table = "inputs",
         inputs' = [inputs EXCEPT ![state.input] = Head(job.writes).row]
  PROVE  /\ Head(job.writes).row = "exception"
         /\ reports'[state.input] \o PendingReports' = Reports
         /\ RowsOf(vouchers, state.input) = {} /\ RowsOf(notices, state.input) = {}
<1>1. /\ StateTyped /\ job'.kind = job.kind /\ state' = state
      /\ inputs \in [InputIndex -> {"absent"} \cup Status]
  BY WriteContext, StoreParts DEF StoredFit
<1>2. job # NoJob /\ job' # NoJob /\ state.input \in InputIndex
  BY <1>1 DEF NoJob, StateTyped
<1>3. job.status = "exception" /\ job.writes = ExceptionWrites
  BY DEF JobAlone, ExceptionAlone
<1>4. Head(job.writes).row = "exception"
  <2>1. Head(ExceptionWrites) = [table |-> "inputs", row |-> "exception"]
    BY <1>1, ExceptionWritesShape
  <2> QED  BY <1>3, <2>1
<1>5. Decided(state.input)'
  <2>1. inputs'[state.input] = "exception"
    BY <1>1, <1>2, <1>4
  <2> QED  BY <1>1, <2>1 DEF Decided, Verdict
<1>6. reports'[state.input] \o PendingReports' = Reports
  <2>1. ExceptionAlone'
    BY <1>1 DEF JobAlone
  <2>2. reports'[state'.input] \o PendingReports' = ReportRows(state'.reports)
    BY <1>5, <2>1 DEF ExceptionAlone
  <2> QED  BY <1>1, <2>2 DEF Reports
<1>7. RowsOf(vouchers, state.input) = {} /\ RowsOf(notices, state.input) = {}
  BY <1>2, <1>3 DEF JobAlone, UndecidedRows
<1> QED  BY <1>4, <1>6, <1>7

(* What is seen of the reports once the status of an input is written.     *)
LEMMA ReportsAppear ==
  ASSUME StoreIInv, StoreIInv', WriteNext, NEW v \in Verdict, ~Decided(state.input),
         inputs' = [inputs EXCEPT ![state.input] = v],
         reports'[state.input] \o PendingReports' = Reports
  PROVE  VisibleReports' = [VisibleReports EXCEPT ![state.input] = @ \o Reports]
<1> DEFINE i == state.input
<1>1. /\ state' = state /\ i \in InputIndex /\ job' # NoJob /\ job # NoJob
      /\ Reports \in Seq(ReportRow) /\ inputs \in [InputIndex -> {"absent"} \cup Status]
  BY WriteContext, StoreParts, SMTT(30) DEF StoredFit, StateTyped, NoJob
<1>2. <<>> \o Reports = Reports
  BY <1>1, ConcatEmptySeq
<1>3. /\ inputs'[i] \in Verdict
      /\ \A j \in InputIndex : j # i => (Decided(j)' <=> Decided(j)) /\ reports'[j] = reports[j]
  BY <1>1, OwnRows DEF Decided
<1>4. VisibleReports = [j \in InputIndex |-> IF ~Decided(j) THEN <<>> ELSE reports[j]]
  BY DEF VisibleReports, InJob
<1>5. VisibleReports' = [j \in InputIndex |->
                           IF ~Decided(j)' THEN <<>>
                           ELSE IF InJob(j)' THEN reports'[j] \o PendingReports'
                           ELSE reports'[j]]
  BY DEF VisibleReports
<1>6. \A j \in InputIndex : InJob(j)' <=> j = i
  BY <1>1 DEF InJob
<1>7. i \in InputIndex /\ reports'[i] \o PendingReports' = Reports /\ ~Decided(i)
  BY <1>1
<1> HIDE DEF i
<1>8. VisibleReports' = [j \in InputIndex |->
                           IF j = i THEN Reports ELSE IF ~Decided(j) THEN <<>> ELSE reports[j]]
  <2>1. ASSUME NEW j \in InputIndex
        PROVE  (IF ~Decided(j)' THEN <<>>
                ELSE IF InJob(j)' THEN reports'[j] \o PendingReports' ELSE reports'[j])
                 = IF j = i THEN Reports ELSE IF ~Decided(j) THEN <<>> ELSE reports[j]
    <3>1. CASE j = i
      <4>1. Decided(j)' /\ InJob(j)' /\ reports'[j] = reports'[i]
        BY <1>3, <1>6, <1>7, <3>1 DEF Decided
      <4>2. reports'[j] \o PendingReports' = Reports
        BY <1>7, <4>1
      <4> QED  BY <3>1, <4>1, <4>2
    <3>2. CASE j # i
      BY <1>3, <1>6, <3>2
    <3> QED  BY <3>1, <3>2
  <2> QED  BY <1>5, <2>1
<1>9. [VisibleReports EXCEPT ![i] = @ \o Reports]
        = [j \in InputIndex |->
             IF j = i THEN Reports ELSE IF ~Decided(j) THEN <<>> ELSE reports[j]]
  BY <1>2, <1>4, <1>7
<1> QED  BY <1>8, <1>9 DEF i

(* The write of the status is the step of the abstract model.              *)
LEMMA StatusWriteRefines ==
  ASSUME StoreIInv, StoreIInv', JobComplete, faults.dberror = 0, JobAlone, JobAlone',
         WriteNext, Head(job.writes).table = "inputs"
  PROVE  Atomic!Next
<1> DEFINE i == state.input
           v == Head(job.writes).row
<1>1. /\ job.writes \in Seq(Write) /\ job.writes # <<>> /\ job.kind \in {"finish", "exception"}
      /\ job'.kind = job.kind /\ state' = state /\ state.mode = "advance" /\ StateTyped
      /\ vouchers' = vouchers /\ notices' = notices
  BY WriteContext
<1>2. inputs' = [inputs EXCEPT ![i] = v] /\ inspects' = inspects
  BY WriteNextStatus DEF WriteNext
<1>3. job # NoJob /\ job' # NoJob
  BY <1>1 DEF NoJob
<1>4. /\ inputs \in [InputIndex -> {"absent"} \cup Status] /\ i \in InputIndex
      /\ (\A r \in vouchers : r.input \in InputIndex)
      /\ (\A r \in notices : r.input \in InputIndex)
      /\ inspects \in Seq(InspectInput)
  BY <1>1, StoreParts DEF StoredFit, StateTyped, OutputRow
<1>5. ~Decided(i)
  <2>1. 1 \in StatusWritesLeft
    BY <1>1, TailShape DEF StatusWritesLeft
  <2> QED  BY <1>3, <2>1, AloneContext
<1>6. reports'[i] \o PendingReports' = Reports /\ v \in Verdict
  BY <1>1, <1>2, <1>5, FinishStatus, ExceptionStatus DEF Verdict
<1>7. VisibleReports' = [VisibleReports EXCEPT ![i] = @ \o Reports]
  BY <1>2, <1>5, <1>6, ReportsAppear
<1>8. VisibleState = state
  BY <1>5 DEF VisibleState
<1>9. VisibleState' = FollowingState'
  <2>1. Decided(state.input)'
    BY <1>1, <1>2, <1>4, <1>6 DEF Decided
  <2> QED  BY <1>3, <2>1 DEF VisibleState
<1>10. /\ VisibleRows(vouchers)' = VisibleRows(vouchers) \cup RowsOf(vouchers, i)
       /\ VisibleRows(notices)' = VisibleRows(notices) \cup RowsOf(notices, i)
  <2>1. /\ VisibleRows(vouchers)' = {r \in vouchers : inputs'[r.input] \in Verdict}
        /\ VisibleRows(notices)' = {r \in notices : inputs'[r.input] \in Verdict}
    BY <1>1 DEF VisibleRows, Decided
  <2> HIDE DEF i, v
  <2> QED  BY <1>2, <1>4, <1>5, <1>6, <2>1, RowsAppear
<1>11. Atomic!SaveAllReports
  BY <1>7, <1>8, SameOperators DEF Atomic!SaveAllReports, Reports
<1>12. CASE job.kind = "finish"
  <2>1. /\ v \in {"accepted", "rejected"}
        /\ IF v = "accepted" THEN RowsOf(vouchers, i) = Vouchers /\ RowsOf(notices, i) = Notices
                             ELSE RowsOf(vouchers, i) = {} /\ RowsOf(notices, i) = {}
    BY <1>5, <1>12, FinishStatus
  <2>2. v = "accepted" => Atomic!SendAllOutputsToDecoder
    <3>1. /\ Upsert(VisibleRows(vouchers), Vouchers) = VisibleRows(vouchers) \cup Vouchers
          /\ Upsert(VisibleRows(notices), Notices) = VisibleRows(notices) \cup Notices
      <4>1. (\A r \in Vouchers : r.input = i) /\ (\A r \in Notices : r.input = i)
        BY DEF Vouchers, Notices, OutputRows
      <4> HIDE DEF i, v
      <4>2. /\ \A rows : (\A r \in rows : r.input = i) =>
                  Upsert(VisibleRows(vouchers), rows) = VisibleRows(vouchers) \cup rows
            /\ \A rows : (\A r \in rows : r.input = i) =>
                  Upsert(VisibleRows(notices), rows) = VisibleRows(notices) \cup rows
        BY <1>2, <1>4, <1>5, <1>6, RowsAppear
      <4> QED  BY <4>1, <4>2
    <3>2. /\ Atomic!Upsert(VisibleRows(vouchers), Atomic!OutputRows(i, state.vouchers))
               = Upsert(VisibleRows(vouchers), Vouchers)
          /\ Atomic!Upsert(VisibleRows(notices), Atomic!OutputRows(i, state.notices))
               = Upsert(VisibleRows(notices), Notices)
      BY SameOperators DEF Vouchers, Notices
    <3> QED  BY <1>8, <1>10, <2>1, <3>1, <3>2 DEF Atomic!SendAllOutputsToDecoder
  <2>3. v # "accepted" => UNCHANGED <<VisibleRows(vouchers), VisibleRows(notices)>>
    BY <1>10, <2>1
  <2>4. Atomic!AdvanceFinish(v)
    BY <1>1, <1>2, <1>8, <1>11, <2>2, <2>3 DEF Atomic!AdvanceFinish
  <2>5. Atomic!IsNext(VisibleState', inputs', inspects')
    <3>1. IsNext(FollowingState', inputs', inspects')
      BY <1>1, <1>2, <1>4, <1>12, FollowingFinishPrime
    <3> QED  BY <1>9, <3>1, SameOperators
  <2> HIDE DEF v
  <2>6. PICK accepted \in BOOLEAN : v = IF accepted THEN "accepted" ELSE "rejected"
    BY <2>1
  <2>7. Atomic!FinishAndGetNext(accepted)
    BY <2>4, <2>5, <2>6 DEF Atomic!FinishAndGetNext
  <2> QED  BY <2>7 DEF Atomic!Next
<1>13. CASE job.kind = "exception"
  <2>1. v = "exception" /\ RowsOf(vouchers, i) = {} /\ RowsOf(notices, i) = {}
    BY <1>2, <1>5, <1>13, ExceptionStatus
  <2>2. UNCHANGED <<VisibleRows(vouchers), VisibleRows(notices)>>
    BY <1>10, <2>1
  <2>3. Atomic!AdvanceException
    BY <1>1, <1>2, <1>8, <1>11, <2>1, <2>2 DEF Atomic!AdvanceException
  <2>4. VisibleState' = Atomic!RollupsStateIdle
    BY <1>1, <1>9, <1>13, SameOperators DEF FollowingState, Atomic!RollupsStateIdle, Atomic!Working,
                                            RollupsStateIdle, Working
  <2> QED  BY <2>3, <2>4 DEF Atomic!RegisterException, Atomic!Next
<1> QED  BY <1>1, <1>12, <1>13

LEMMA StoreStepRefines ==
  ASSUME Faults = {}, StoreIInv, StoreIInv', JobComplete, faults.dberror = 0,
         JobAlone, JobAlone', [StoreNext]_storeVars
  PROVE  [Atomic!Next]_(Atomic!vars)
<1>1. CASE OneWrite
  BY <1>1, OneWriteRefines
<1>2. CASE \E accepted \in BOOLEAN : StartFinish(accepted)
  BY <1>2, StartRefines DEF StartFinish
<1>3. CASE StartException
  BY <1>3, StartRefines DEF StartException
<1>4. CASE WriteNext
  BY <1>4, StatusWriteRefines, HiddenWriteRefines
<1>5. CASE FinishDone \/ ExceptionDone
  BY <1>5, DoneRefines
<1>6. CASE Stop
  BY <1>6, StopRefines
<1>7. ~Crash /\ ~DbError /\ ~InspectDbError
  BY DEF Crash, DbError, InspectDbError, Fault
<1>8. CASE UNCHANGED storeVars
  <2>1. /\ inputs' = inputs /\ vouchers' = vouchers /\ notices' = notices
        /\ reports' = reports /\ inspects' = inspects /\ state' = state /\ job' = job
    BY <1>8 DEF storeVars, vars
  <2>2. VisibleRows(vouchers)' = VisibleRows(vouchers) /\ VisibleRows(notices)' = VisibleRows(notices)
    BY <2>1 DEF VisibleRows, Decided
  <2>3. VisibleReports' = VisibleReports
    BY <2>1 DEF VisibleReports, PendingReports, Decided, InJob
  <2>4. VisibleState' = VisibleState
    BY <2>1 DEF VisibleState, FollowingState, Decided
  <2> QED  BY <2>1, <2>2, <2>3, <2>4, StoreStutterRefines
<1> QED  BY <1>1, <1>2, <1>3, <1>4, <1>5, <1>6, <1>7, <1>8 DEF StoreNext

LEMMA StoreInitRefines == StoreInit => Atomic!Init
<1> SUFFICES ASSUME StoreInit PROVE Atomic!Init
  OBVIOUS
<1>1. /\ job = NoJob /\ vouchers = {} /\ notices = {} /\ state = RollupsStateIdle
      /\ inputs = [i \in InputIndex |-> "absent"] /\ inspects = <<>>
  BY DEF StoreInit, Init
<1>2. VisibleReports = [i \in InputIndex |-> <<>>]
  BY <1>1 DEF VisibleReports, Decided, Verdict
<1>3. VisibleState = Atomic!RollupsStateIdle
  BY <1>1, SameOperators DEF VisibleState
<1>4. VisibleRows(vouchers) = {} /\ VisibleRows(notices) = {}
  BY <1>1 DEF VisibleRows
<1> QED  BY <1>1, <1>2, <1>3, <1>4 DEF Atomic!Init

(* Without faults the writes of a finish or an exception are one step of   *)
(* AppModel, made when the status is written: whatever is proved of it     *)
(* holds of the code that writes row by row.                               *)
THEOREM StoreRefines ==
  ASSUME Faults = {}
  PROVE  StoreSpec => ImplementsAppModel
<1>1. StoreIInv /\ StoreIInv' /\ JobComplete /\ (JobAlone /\ faults.dberror = 0)
        /\ (JobAlone /\ faults.dberror = 0)' /\ [StoreNext]_storeVars
          => [Atomic!Next]_(Atomic!vars)
  BY StoreStepRefines
<1> QED  BY <1>1, StoreInitRefines, StoreInvariance, JobAlwaysComplete, AloneInvariance, PTL
         DEF StoreSpec, ImplementsAppModel, Atomic!Spec
=============================================================================
