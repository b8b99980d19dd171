-------------------------- MODULE ModelStoreProofs --------------------------
(***************************************************************************)
(* Theorems of ModelStore, for every set of inputs and payloads, every     *)
(* bound and every number of crashes and failing statements.  StoreIInv    *)
(* (in ModelStore) is inductive: one lemma for each action says so.        *)
(***************************************************************************)
EXTENDS ModelStore, AppModelProofs

-----------------------------------------------------------------------------
(* The lists of writes a job starts with.                                  *)

(* What the invariant needs of such a list.                                *)
FreshWrites(w) ==
  /\ w \in Seq(Write)
  /\ \A k, l \in DOMAIN w : w[k].table = "inputs" /\ w[l].table = "inputs" => k = l
  /\ \A name \in {"vouchers", "notices"} : \A k \in DOMAIN w : w[k].table = name =>
       /\ w[k].row.input = state.input
       /\ w[k].row.output < MaxOutputs
       /\ \A m \in 0 .. (w[k].row.output - 1) :
            \E j \in 1 .. (k - 1) : w[j].table = name /\ w[j].row.output = m

StateTyped ==
  /\ state.input \in InputIndex
  /\ state.vouchers \in Seq(Payload)
  /\ state.notices \in Seq(Payload)
  /\ state.reports \in Seq(Payload)
  /\ Emitted <= MaxOutputs

(* A list of writes after another one.                                     *)
LEMMA ConcatWrites ==
  ASSUME NEW a \in Seq(Write), NEW b \in Seq(Write)
  PROVE  /\ a \o b \in Seq(Write)
         /\ Len(a) \in Nat /\ Len(b) \in Nat /\ Len(a \o b) = Len(a) + Len(b)
         /\ \A k \in 1 .. Len(a) : (a \o b)[k] = a[k]
         /\ \A k \in 1 .. Len(b) : (a \o b)[Len(a) + k] = b[k]
<1>1. /\ a \o b \in Seq(Write) /\ Len(a \o b) = Len(a) + Len(b)
      /\ \A i \in 1 .. Len(a) + Len(b) :
           (a \o b)[i] = IF i <= Len(a) THEN a[i] ELSE b[i - Len(a)]
  BY ConcatProperties
<1>2. Len(a) \in Nat /\ Len(b) \in Nat
  BY LenProperties
<1>3. ASSUME NEW k \in 1 .. Len(a)
      PROVE  (a \o b)[k] = a[k]
  BY <1>1, <1>2
<1>4. ASSUME NEW k \in 1 .. Len(b)
      PROVE  (a \o b)[Len(a) + k] = b[k]
  <2>1. /\ Len(a) + k \in 1 .. Len(a) + Len(b)
        /\ ~(Len(a) + k <= Len(a))
        /\ (Len(a) + k) - Len(a) = k
    BY <1>2
  <2> QED  BY <1>1, <2>1
<1> QED  BY <1>1, <1>2, <1>3, <1>4

(* The writes of one table, in the order of the list they come from.       *)
LEMMA WritesShape ==
  ASSUME StateTyped
  PROVE  /\ VoucherWrites \in Seq(Write) /\ Len(VoucherWrites) = Len(state.vouchers)
         /\ \A k \in 1 .. Len(state.vouchers) :
              /\ VoucherWrites[k].table = "vouchers"
              /\ VoucherWrites[k].row.input = state.input
              /\ VoucherWrites[k].row.output = k - 1
         /\ NoticeWrites \in Seq(Write) /\ Len(NoticeWrites) = Len(state.notices)
         /\ \A k \in 1 .. Len(state.notices) :
              /\ NoticeWrites[k].table = "notices"
              /\ NoticeWrites[k].row.input = state.input
              /\ NoticeWrites[k].row.output = k - 1
         /\ ReportWrites \in Seq(Write) /\ Len(ReportWrites) = Len(state.reports)
         /\ \A k \in 1 .. Len(state.reports) : ReportWrites[k].table = "reports"
         /\ Len(state.vouchers) \in 0 .. MaxOutputs
         /\ Len(state.notices) \in 0 .. MaxOutputs
         /\ Len(state.reports) \in Nat
<1>1. /\ Len(state.vouchers) \in Nat /\ DOMAIN state.vouchers = 1 .. Len(state.vouchers)
      /\ Len(state.notices) \in Nat /\ DOMAIN state.notices = 1 .. Len(state.notices)
      /\ Len(state.reports) \in Nat /\ DOMAIN state.reports = 1 .. Len(state.reports)
      /\ \A k \in 1 .. Len(state.vouchers) : state.vouchers[k] \in Payload
      /\ \A k \in 1 .. Len(state.notices) : state.notices[k] \in Payload
  BY LenProperties, ElementOfSeq DEF StateTyped
<1>2. VoucherWrites \in [1 .. Len(state.vouchers) -> Write]
  BY <1>1 DEF VoucherWrites, Write, OutputRow, StateTyped
<1>3. NoticeWrites \in [1 .. Len(state.notices) -> Write]
  BY <1>1 DEF NoticeWrites, Write, OutputRow, StateTyped
<1>4. ReportWrites \in [1 .. Len(state.reports) -> Write]
  <2>1. \A k \in 1 .. Len(state.reports) : ReportRows(state.reports)[k] \in ReportRow
    BY <1>1, ReportRowsShape, ElementOfSeq, LenProperties DEF StateTyped
  <2> QED  BY <1>1, <2>1 DEF ReportWrites, Write
<1>5. \A n \in Nat : \A f \in [1 .. n -> Write] : f \in Seq(Write) /\ Len(f) = n
  <2>1. ASSUME NEW n \in Nat, NEW f \in [1 .. n -> Write]
        PROVE  f \in Seq(Write) /\ Len(f) = n
    <3>1. f \in Seq(Write)
      BY SeqDef
    <3>2. Len(f) \in Nat /\ DOMAIN f = 1 .. Len(f) /\ DOMAIN f = 1 .. n
      BY <3>1, LenProperties
    <3> QED  BY <3>1, <3>2
  <2> QED  BY <2>1
<1>6. Len(state.vouchers) <= MaxOutputs /\ Len(state.notices) <= MaxOutputs
  <2>1. MaxOutputs \in Nat
    BY ModelAssumption
  <2>2. Len(state.vouchers) + Len(state.notices) + Len(state.reports) <= MaxOutputs
    BY DEF StateTyped, Emitted
  <2>3. \A x, y, z, m \in Nat : x + y + z <= m => x <= m /\ y <= m
    OBVIOUS
  <2> QED  BY <1>1, <2>1, <2>2, <2>3
<1>7. /\ VoucherWrites \in Seq(Write) /\ Len(VoucherWrites) = Len(state.vouchers)
      /\ NoticeWrites \in Seq(Write) /\ Len(NoticeWrites) = Len(state.notices)
      /\ ReportWrites \in Seq(Write) /\ Len(ReportWrites) = Len(state.reports)
  BY <1>1, <1>2, <1>3, <1>4, <1>5
<1>8. \A k \in 1 .. Len(state.vouchers) :
        /\ VoucherWrites[k].table = "vouchers"
        /\ VoucherWrites[k].row.input = state.input
        /\ VoucherWrites[k].row.output = k - 1
  BY <1>1 DEF VoucherWrites
<1>9. \A k \in 1 .. Len(state.notices) :
        /\ NoticeWrites[k].table = "notices"
        /\ NoticeWrites[k].row.input = state.input
        /\ NoticeWrites[k].row.output = k - 1
  BY <1>1 DEF NoticeWrites
<1>10. \A k \in 1 .. Len(state.reports) : ReportWrites[k].table = "reports"
  BY <1>1 DEF ReportWrites
<1> QED  BY <1>1, <1>6, <1>7, <1>8, <1>9, <1>10, ModelAssumption

(* The one write of the status.                                            *)
LEMMA StatusWriteShape ==
  ASSUME NEW status \in Verdict
  PROVE  /\ StatusWrite(status) \in Seq(Write) /\ Len(StatusWrite(status)) = 1
         /\ StatusWrite(status)[1] = [table |-> "inputs", row |-> status]
<1> DEFINE w == [table |-> "inputs", row |-> status]
<1>1. w \in Write
  BY DEF Write
<1>2. StatusWrite(status) = <<w>>
  BY DEF StatusWrite
<1> HIDE DEF w
<1>3. <<w>> \in Seq(Write) /\ Len(<<w>>) = 1 /\ <<w>>[1] = w
  BY <1>1
<1> QED  BY <1>2, <1>3 DEF w

(* The tables a list writes to.                                            *)
Tables(w) == {w[k].table : k \in DOMAIN w}

(* Two lists that write to different tables may follow each other.         *)
LEMMA FreshConcat ==
  ASSUME NEW a, NEW b, FreshWrites(a), FreshWrites(b), Tables(a) \cap Tables(b) = {}
  PROVE  FreshWrites(a \o b) /\ Tables(a \o b) = Tables(a) \cup Tables(b)
<1> DEFINE w == a \o b
<1>1. /\ w \in Seq(Write) /\ Len(a) \in Nat /\ Len(b) \in Nat
      /\ DOMAIN a = 1 .. Len(a) /\ DOMAIN b = 1 .. Len(b)
      /\ DOMAIN w = 1 .. (Len(a) + Len(b))
      /\ \A k \in 1 .. Len(a) : w[k] = a[k]
      /\ \A k \in 1 .. Len(b) : w[Len(a) + k] = b[k]
  <2>1. a \in Seq(Write) /\ b \in Seq(Write)
    BY DEF FreshWrites
  <2> QED  BY <2>1, ConcatWrites, LenProperties
<1> HIDE DEF w
<1>2. \A k \in DOMAIN w : \/ k \in 1 .. Len(a) /\ w[k] = a[k]
                          \/ /\ k - Len(a) \in 1 .. Len(b) /\ k = Len(a) + (k - Len(a))
                             /\ w[k] = b[k - Len(a)]
  <2>1. ASSUME NEW k \in DOMAIN w, k \notin 1 .. Len(a)
        PROVE  k - Len(a) \in 1 .. Len(b) /\ k = Len(a) + (k - Len(a))
    BY <1>1, <2>1
  <2> QED  BY <1>1, <2>1
<1>3. \A k \in 1 .. Len(a) : a[k].table \in Tables(a)
  BY <1>1 DEF Tables
<1>4. \A k \in 1 .. Len(b) : b[k].table \in Tables(b)
  BY <1>1 DEF Tables
<1>5. Tables(w) = Tables(a) \cup Tables(b)
  <2>1. Tables(w) \subseteq Tables(a) \cup Tables(b)
    BY <1>2, <1>3, <1>4 DEF Tables
  <2>2. Tables(a) \subseteq Tables(w)
    <3>1. \A k \in DOMAIN a : k \in DOMAIN w /\ w[k].table = a[k].table
      BY <1>1
    <3> QED  BY <3>1 DEF Tables
  <2>3. Tables(b) \subseteq Tables(w)
    <3>1. \A k \in DOMAIN b : Len(a) + k \in DOMAIN w /\ w[Len(a) + k].table = b[k].table
      BY <1>1
    <3> QED  BY <3>1 DEF Tables
  <2> QED  BY <2>1, <2>2, <2>3
<1>6. ASSUME NEW k \in DOMAIN w, NEW l \in DOMAIN w,
             w[k].table = "inputs", w[l].table = "inputs"
      PROVE  k = l
  <2>1. CASE k \in 1 .. Len(a) /\ l \in 1 .. Len(a)
    BY <1>1, <1>6, <2>1 DEF FreshWrites
  <2>2. CASE k \notin 1 .. Len(a) /\ l \notin 1 .. Len(a)
    <3>1. k - Len(a) = l - Len(a)
      BY <1>1, <1>2, <1>6, <2>2 DEF FreshWrites
    <3> QED  BY <1>2, <2>2, <3>1
  <2>3. ~(k \in 1 .. Len(a) /\ l \notin 1 .. Len(a))
    <3>1. k \in 1 .. Len(a) => "inputs" \in Tables(a)
      BY <1>1, <1>3, <1>6
    <3>2. l \notin 1 .. Len(a) => "inputs" \in Tables(b)
      BY <1>2, <1>4, <1>6
    <3> QED  BY <3>1, <3>2
  <2>4. ~(k \notin 1 .. Len(a) /\ l \in 1 .. Len(a))
    BY <1>2, <1>3, <1>4, <1>6
  <2> QED  BY <2>1, <2>2, <2>3, <2>4
<1>7. ASSUME NEW name \in {"vouchers", "notices"}, NEW k \in DOMAIN w, w[k].table = name
      PROVE  /\ w[k].row.input = state.input
             /\ w[k].row.output < MaxOutputs
             /\ \A m \in 0 .. (w[k].row.output - 1) :
                  \E j \in 1 .. (k - 1) : w[j].table = name /\ w[j].row.output = m
  <2>1. CASE k \in 1 .. Len(a)
    <3>1. /\ a[k].row.input = state.input
          /\ a[k].row.output < MaxOutputs
          /\ \A m \in 0 .. (a[k].row.output - 1) :
               \E j \in 1 .. (k - 1) : a[j].table = name /\ a[j].row.output = m
      <4>1. \A x \in DOMAIN a : a[x].table = name =>
              /\ a[x].row.input = state.input
              /\ a[x].row.output < MaxOutputs
              /\ \A m \in 0 .. (a[x].row.output - 1) :
                   \E j \in 1 .. (x - 1) : a[j].table = name /\ a[j].row.output = m
        BY <1>7 DEF FreshWrites
      <4>2. k \in DOMAIN a /\ a[k].table = name
        BY <1>1, <1>7, <2>1
      <4> QED  BY <4>1, <4>2
    <3>2. \A j \in 1 .. (k - 1) : w[j] = a[j]
      BY <1>1, <2>1
    <3> QED  BY <1>1, <2>1, <3>1, <3>2
  <2>2. CASE k \notin 1 .. Len(a)
    <3> DEFINE l == k - Len(a)
    <3>1. l \in 1 .. Len(b) /\ k = Len(a) + l /\ w[k] = b[l]
      BY <1>2, <2>2
    <3> HIDE DEF l
    <3>2. /\ b[l].row.input = state.input
          /\ b[l].row.output < MaxOutputs
          /\ \A m \in 0 .. (b[l].row.output - 1) :
               \E j \in 1 .. (l - 1) : b[j].table = name /\ b[j].row.output = m
      <4>1. \A x \in DOMAIN b : b[x].table = name =>
              /\ b[x].row.input = state.input
              /\ b[x].row.output < MaxOutputs
              /\ \A m \in 0 .. (b[x].row.output - 1) :
                   \E j \in 1 .. (x - 1) : b[j].table = name /\ b[j].row.output = m
        BY <1>7 DEF FreshWrites
      <4>2. l \in DOMAIN b /\ b[l].table = name
        BY <1>1, <1>7, <3>1
      <4> QED  BY <4>1, <4>2
    <3>3. \A j \in 1 .. (l - 1) : Len(a) + j \in 1 .. (k - 1) /\ w[Len(a) + j] = b[j]
      BY <1>1, <3>1
    <3>4. ASSUME NEW m \in 0 .. (w[k].row.output - 1)
          PROVE  \E j \in 1 .. (k - 1) : w[j].table = name /\ w[j].row.output = m
      <4>1. m \in 0 .. (b[l].row.output - 1)
        BY <3>1, <3>4
      <4>2. PICK j \in 1 .. (l - 1) : b[j].table = name /\ b[j].row.output = m
        BY <3>2, <4>1
      <4>3. Len(a) + j \in 1 .. (k - 1) /\ w[Len(a) + j] = b[j]
        BY <3>3
      <4> QED  BY <4>2, <4>3
    <3> QED  BY <3>1, <3>2, <3>4
  <2> QED  BY <2>1, <2>2
<1>8. FreshWrites(w)
  BY <1>1, <1>6, <1>7 DEF FreshWrites
<1> QED  BY <1>5, <1>8 DEF w

(* The lists a finish or an exception is made of.                          *)
LEMMA PartsFresh ==
  ASSUME StateTyped
  PROVE  /\ FreshWrites(VoucherWrites) /\ Tables(VoucherWrites) \subseteq {"vouchers"}
         /\ FreshWrites(NoticeWrites) /\ Tables(NoticeWrites) \subseteq {"notices"}
         /\ FreshWrites(ReportWrites) /\ Tables(ReportWrites) \subseteq {"reports"}
         /\ FreshWrites(<<>>) /\ Tables(<<>>) = {}
         /\ \A status \in Verdict : /\ FreshWrites(StatusWrite(status))
                                    /\ Tables(StatusWrite(status)) = {"inputs"}
<1>1. ASSUME NEW w \in Seq(Write), NEW name \in {"vouchers", "notices"},
             Len(w) \in 0 .. MaxOutputs,
             \A k \in 1 .. Len(w) : /\ w[k].table = name
                                    /\ w[k].row.input = state.input
                                    /\ w[k].row.output = k - 1
      PROVE  FreshWrites(w) /\ Tables(w) \subseteq {name}
  <2>1. DOMAIN w = 1 .. Len(w) /\ Len(w) \in Nat /\ MaxOutputs \in Nat /\ Len(w) <= MaxOutputs
    BY <1>1, LenProperties, ModelAssumption
  <2>2. ASSUME NEW k \in DOMAIN w, NEW m \in 0 .. (w[k].row.output - 1)
        PROVE  \E j \in 1 .. (k - 1) : w[j].table = name /\ w[j].row.output = m
    <3>1. m + 1 \in 1 .. (k - 1) /\ m + 1 \in 1 .. Len(w) /\ (m + 1) - 1 = m
      BY <1>1, <2>1, <2>2
    <3> QED  BY <1>1, <3>1
  <2>3. \A k \in DOMAIN w : w[k].row.output < MaxOutputs /\ w[k].row.input = state.input
    BY <1>1, <2>1
  <2>4. Tables(w) \subseteq {name}
    BY <1>1, <2>1 DEF Tables
  <2>5. \A k \in DOMAIN w : w[k].table = name
    BY <1>1, <2>1
  <2> QED  BY <2>2, <2>3, <2>4, <2>5 DEF FreshWrites
<1>2. FreshWrites(VoucherWrites) /\ Tables(VoucherWrites) \subseteq {"vouchers"}
  BY <1>1, WritesShape
<1>3. FreshWrites(NoticeWrites) /\ Tables(NoticeWrites) \subseteq {"notices"}
  BY <1>1, WritesShape
<1>4. FreshWrites(ReportWrites) /\ Tables(ReportWrites) \subseteq {"reports"}
  <2>1. /\ ReportWrites \in Seq(Write)
        /\ \A k \in DOMAIN ReportWrites : ReportWrites[k].table = "reports"
    BY WritesShape, LenProperties
  <2> QED  BY <2>1 DEF FreshWrites, Tables
<1>5. FreshWrites(<<>>) /\ Tables(<<>>) = {}
  <2>1. <<>> \in Seq(Write) /\ DOMAIN <<>> = {}
    BY EmptySeq
  <2> QED  BY <2>1 DEF FreshWrites, Tables
<1>6. ASSUME NEW status \in Verdict
      PROVE  FreshWrites(StatusWrite(status)) /\ Tables(StatusWrite(status)) = {"inputs"}
  <2>1. /\ StatusWrite(status) \in Seq(Write) /\ DOMAIN StatusWrite(status) = {1}
        /\ StatusWrite(status)[1].table = "inputs"
    <3>1. /\ StatusWrite(status) \in Seq(Write) /\ Len(StatusWrite(status)) = 1
          /\ StatusWrite(status)[1] = [table |-> "inputs", row |-> status]
      BY StatusWriteShape
    <3>2. DOMAIN StatusWrite(status) = 1 .. 1
      BY <3>1, LenProperties
    <3> QED  BY <3>1, <3>2
  <2> QED  BY <2>1 DEF FreshWrites, Tables
<1> QED  BY <1>2, <1>3, <1>4, <1>5, <1>6

LEMMA JobWritesFresh ==
  ASSUME StateTyped
  PROVE  /\ \A status \in {"accepted", "rejected"} :
              FreshWrites(FinishWrites(status)) /\ "inputs" \in Tables(FinishWrites(status))
         /\ FreshWrites(ExceptionWrites) /\ "inputs" \in Tables(ExceptionWrites)
<1>1. ASSUME NEW status \in {"accepted", "rejected"}
      PROVE  FreshWrites(FinishWrites(status)) /\ "inputs" \in Tables(FinishWrites(status))
  <2> DEFINE outputs == IF status = "accepted" THEN VoucherWrites \o NoticeWrites ELSE <<>>
  <2>1. FreshWrites(VoucherWrites \o NoticeWrites)
        /\ Tables(VoucherWrites \o NoticeWrites) \subseteq {"vouchers", "notices"}
    BY PartsFresh, FreshConcat
  <2>2. FreshWrites(outputs) /\ Tables(outputs) \subseteq {"vouchers", "notices"}
    BY <2>1, PartsFresh
  <2> HIDE DEF outputs
  <2>3. FreshWrites(outputs \o ReportWrites)
        /\ Tables(outputs \o ReportWrites) \subseteq {"vouchers", "notices", "reports"}
    BY <2>2, PartsFresh, FreshConcat
  <2>4. status \in Verdict
    BY DEF Verdict
  <2>5. FreshWrites((outputs \o ReportWrites) \o StatusWrite(status))
        /\ "inputs" \in Tables((outputs \o ReportWrites) \o StatusWrite(status))
    BY <2>3, <2>4, PartsFresh, FreshConcat
  <2> QED  BY <2>5 DEF FinishWrites, outputs
<1>2. FreshWrites(ExceptionWrites) /\ "inputs" \in Tables(ExceptionWrites)
  <2>1. "exception" \in Verdict
    BY DEF Verdict
  <2> QED  BY <2>1, PartsFresh, FreshConcat DEF ExceptionWrites
<1> QED  BY <1>1, <1>2

-----------------------------------------------------------------------------
(* The parts of the invariant.                                             *)

StoredFit ==
  /\ inputs \in [InputIndex -> {"absent"} \cup Status]
  /\ vouchers \subseteq OutputRow
  /\ notices \subseteq OutputRow
  /\ reports \in [InputIndex -> Seq(ReportRow)]
  /\ StoredIndicesGapless

FaultsTyped == faults \in [crash : 0 .. MaxFaults, dberror : 0 .. MaxFaults]

LEMMA StoreParts ==
  StoreIInv <=> /\ StoredFit /\ StateTypeOK /\ FaultsTyped
                /\ inspects \in Seq(InspectInput)
                /\ job \in Job
                /\ JobFits
                /\ WritesInOrder("vouchers", vouchers)
                /\ WritesInOrder("notices", notices)
BY DEF StoreIInv, StoreTypeOK, TypeOK, StoredFit, StateTypeOK, FaultsTyped

LEMMA StorePartsPrime ==
  StoreIInv' <=> /\ StoredFit' /\ StateTypeOK' /\ FaultsTyped'
                 /\ inspects' \in Seq(InspectInput)
                 /\ job' \in Job
                 /\ JobFits'
                 /\ WritesInOrder("vouchers", vouchers)'
                 /\ WritesInOrder("notices", notices)'
BY DEF StoreIInv, StoreTypeOK, TypeOK, StoredFit, StateTypeOK, FaultsTyped

LEMMA StoredUnchanged ==
  ASSUME StoredFit, UNCHANGED tables
  PROVE  StoredFit'
BY DEF StoredFit, StoredIndicesGapless, GaplessTable, RowsOf, tables

(* With no write left the order of the writes is nobody's concern.         *)
LEMMA NothingToWrite ==
  ASSUME job' = NoJob
  PROVE  /\ job' \in Job
         /\ StatusWritesLeft' = {}
         /\ WritesInOrder("vouchers", vouchers)'
         /\ WritesInOrder("notices", notices)'
<1>1. job'.writes = <<>> /\ DOMAIN job'.writes = {}
  BY EmptySeq, LenProperties DEF NoJob
<1> QED  BY <1>1 DEF Job, StatusWritesLeft, WritesInOrder

(* The mutex is free and the request in progress, if any, waits.           *)
LEMMA Released ==
  ASSUME job' = NoJob,
         StoredFit', StateTypeOK', FaultsTyped', inspects' \in Seq(InspectInput),
         state'.mode = "advance" => state'.input \in InputIndex,
         faults'.dberror = 0 /\ state'.mode = "advance"
           => inputs'[state'.input] = "unprocessed"
  PROVE  StoreIInv'
<1>1. JobFits'
  BY NothingToWrite DEF JobFits
<1> QED  BY <1>1, NothingToWrite, StorePartsPrime

(* The end of an inspect keeps the type of the list of inspects.           *)
LEMMA InspectFinishTyped ==
  ASSUME StoreIInv, NEW v \in Verdict, InspectFinish(v)
  PROVE  inspects' \in Seq(InspectInput) /\ UNCHANGED tables
<1> DEFINE new == [status |-> v, processedInputCount |-> GetProcessedInputCount,
                   reports |-> ReportRows(state.reports)]
<1>1. inspects \in Seq(InspectInput) /\ state.reports \in Seq(Payload)
  BY StoreParts DEF StateTypeOK
<1>2. ReportRows(state.reports) \in Seq(ReportRow)
  BY <1>1, ReportRowsShape
<1>3. UNCHANGED tables /\ inspects' = [inspects EXCEPT ![state.input] = new]
  BY DEF InspectFinish
<1>4. GetProcessedInputCount \in Nat
  BY <1>3, CountMonotonic DEF tables
<1>5. new \in InspectInput
  BY <1>2, <1>4 DEF InspectInput, Status
<1> HIDE DEF new
<1>6. CASE state.input \in 1 .. Len(inspects)
  BY <1>1, <1>3, <1>5, <1>6, ExceptSeq
<1>7. CASE state.input \notin 1 .. Len(inspects)
  <2>1. inspects \in [1 .. Len(inspects) -> InspectInput]
    BY <1>1, LenProperties
  <2>2. inspects' = inspects
    BY <1>3, <1>7, <2>1
  <2> QED  BY <1>1, <1>3, <2>2
<1> QED  BY <1>6, <1>7

-----------------------------------------------------------------------------
(* One lemma for each action.                                              *)

LEMMA OneWriteKeeps ==
  ASSUME StoreIInv, OneWrite
  PROVE  StoreIInv'
<1>1. /\ job = NoJob /\ job' = NoJob /\ UNCHANGED faults
  BY DEF OneWrite
<1>2. /\ StoredFit /\ StateTypeOK /\ FaultsTyped /\ JobFits
      /\ inspects \in Seq(InspectInput)
  BY StoreParts
<1>3. FaultsTyped'
  BY <1>1, <1>2 DEF FaultsTyped
<1>4. /\ state.mode = "advance" => state.input \in InputIndex
      /\ faults.dberror = 0 /\ state.mode = "advance" => inputs[state.input] = "unprocessed"
  BY <1>1, <1>2 DEF JobFits
<1>5. ASSUME NEW i \in InputIndex, AddAdvanceInput(i)
      PROVE  StoreIInv'
  <2>1. StoredFit'
    BY <1>2, <1>5 DEF AddAdvanceInput, StoredFit, StoredIndicesGapless, GaplessTable,
                      RowsOf, Status
  <2>2. UNCHANGED <<state, inspects>> /\ inputs' = [inputs EXCEPT ![i] = "unprocessed"]
    BY <1>5 DEF AddAdvanceInput
  <2>3. StateTypeOK'
    BY <1>2, <2>2 DEF StateTypeOK, Emitted
  <2>4. inputs \in [InputIndex -> {"absent"} \cup Status]
    BY <1>2 DEF StoredFit
  <2>5. \A j \in InputIndex : inputs[j] = "unprocessed" => inputs'[j] = "unprocessed"
    BY <2>2, <2>4
  <2> QED  BY <1>1, <1>2, <1>3, <1>4, <2>1, <2>2, <2>3, <2>5, Released
<1>6. CASE AddInspectInput
  <2> DEFINE new == [status |-> "unprocessed", processedInputCount |-> 0, reports |-> <<>>]
  <2>1. UNCHANGED tables /\ UNCHANGED inputs /\ UNCHANGED state
        /\ inspects' = Append(inspects, new)
    BY <1>6 DEF AddInspectInput, tables
  <2>2. new \in InspectInput
    BY EmptySeq DEF InspectInput, Status
  <2>3. inspects' \in Seq(InspectInput)
    BY <1>2, <2>1, <2>2, AppendProperties
  <2>4. StateTypeOK'
    BY <1>2, <2>1 DEF StateTypeOK, Emitted
  <2> QED  BY <1>1, <1>2, <1>3, <1>4, <2>1, <2>3, <2>4, StoredUnchanged, Released
<1>7. ASSUME NEW p \in Payload, AddOutput(p)
      PROVE  StoreIInv'
  <2>1. UNCHANGED tables /\ UNCHANGED inputs /\ UNCHANGED inspects
    BY <1>7 DEF AddOutput, AddVoucher, AddNotice, AddReport, tables
  <2>2. StateTypeOK' /\ state'.mode = state.mode /\ state'.input = state.input
    BY <1>2, <1>7, AddOutputState
  <2> QED  BY <1>1, <1>2, <1>3, <1>4, <2>1, <2>2, StoredUnchanged, Released
<1>8. ASSUME state.mode # "advance", NEW accepted \in BOOLEAN, FinishAndGetNext(accepted)
      PROVE  StoreIInv'
  <2> DEFINE status == IF accepted THEN "accepted" ELSE "rejected"
  <2>1. status \in Verdict
    BY DEF Verdict
  <2>2. UNCHANGED tables /\ inspects' \in Seq(InspectInput)
    BY <1>2, <1>8, <2>1, InspectFinishTyped DEF FinishAndGetNext, IdleFinish, AdvanceFinish
  <2>3. StateFits'
    BY <1>8, <2>2, NextFits DEF FinishAndGetNext
  <2>4. StateTypeOK' /\ (state'.mode = "advance" =>
          state'.input \in InputIndex /\ inputs'[state'.input] = "unprocessed")
    BY <2>3 DEF StateFits, StateTypeOK, InProgressIsPending
  <2> QED  BY <1>1, <1>2, <1>3, <2>2, <2>4, StoredUnchanged, Released
<1>9. ASSUME state.mode # "advance", RegisterException
      PROVE  StoreIInv'
  <2>1. "exception" \in Verdict
    BY DEF Verdict
  <2>2. UNCHANGED tables /\ inspects' \in Seq(InspectInput)
    BY <1>9, <2>1, InspectFinishTyped DEF RegisterException, AdvanceException
  <2>3. StateTypeOK' /\ state'.mode = "idle"
    BY <1>9, IdleFits
       DEF RegisterException, StateFits, StateTypeOK, RollupsStateIdle, Working
  <2> QED  BY <1>1, <1>2, <1>3, <2>2, <2>3, StoredUnchanged, Released
<1> QED  BY <1>5, <1>6, <1>7, <1>8, <1>9 DEF OneWrite

LEMMA StartKeeps ==
  ASSUME StoreIInv, NEW kind \in {"finish", "exception"}, NEW status \in Verdict,
         NEW writes, Start(kind, status, writes),
         StateTyped => FreshWrites(writes)
  PROVE  StoreIInv'
<1>1. /\ job = NoJob /\ state.mode = "advance"
      /\ job' = [kind |-> kind, status |-> status, writes |-> writes]
      /\ UNCHANGED vars /\ UNCHANGED faults
  BY DEF Start
<1>2. /\ StoredFit /\ StateTypeOK /\ FaultsTyped /\ JobFits
      /\ inspects \in Seq(InspectInput)
  BY StoreParts
<1>3. StateTyped
  BY <1>1, <1>2 DEF StateTyped, StateTypeOK, JobFits
<1>4. FreshWrites(writes)
  BY <1>3
<1>5. job'.writes = writes /\ writes \in Seq(Write) /\ job' \in Job
  BY <1>1, <1>4 DEF FreshWrites, Job
<1>6. UNCHANGED tables /\ UNCHANGED state /\ UNCHANGED inspects /\ UNCHANGED inputs
  BY <1>1 DEF vars, tables
<1>7. JobFits'
  <2>1. \A k, l \in StatusWritesLeft' : k = l
    BY <1>4, <1>5 DEF FreshWrites, StatusWritesLeft
  <2>2. faults'.dberror = 0 => inputs'[state'.input] = "unprocessed"
    BY <1>1, <1>2, <1>6 DEF JobFits
  <2> QED  BY <1>1, <1>2, <1>6, <2>1, <2>2 DEF JobFits
<1>8. WritesInOrder("vouchers", vouchers)' /\ WritesInOrder("notices", notices)'
  <2>1. ASSUME NEW name \in {"vouchers", "notices"}, NEW k \in DOMAIN writes,
               writes[k].table = name
        PROVE  /\ writes[k].row.input = state.input
               /\ writes[k].row.output < MaxOutputs
               /\ \A m \in 0 .. (writes[k].row.output - 1) :
                    \E j \in 1 .. (k - 1) : writes[j].table = name /\ writes[j].row.output = m
    BY <1>4, <2>1, SMTT(30) DEF FreshWrites
  <2> QED  BY <1>5, <1>6, <2>1 DEF WritesInOrder
<1>9. StateTypeOK' /\ FaultsTyped'
  BY <1>1, <1>2, <1>6 DEF StateTypeOK, Emitted, FaultsTyped
<1> QED  BY <1>2, <1>5, <1>6, <1>7, <1>8, <1>9, StoredUnchanged, StorePartsPrime
(* One row written to a table without gaps leaves it so when the rows that *)
(* precede it in number are there; no key is lost.                         *)
LEMMA UpsertOne ==
  ASSUME NEW table, table \subseteq OutputRow, GaplessTable(table),
         NEW row \in OutputRow, row.output < MaxOutputs,
         \A m \in 0 .. (row.output - 1) :
           \E r \in table : r.input = row.input /\ r.output = m
  PROVE  /\ Upsert(table, {row}) \subseteq OutputRow
         /\ row \in Upsert(table, {row})
         /\ \A r \in table : \E s \in Upsert(table, {row}) : SameKey(r, s)
         /\ GaplessTable(Upsert(table, {row}))
<1> DEFINE new == Upsert(table, {row})
<1>1. \A r : r \in new <=> (r \in table /\ ~SameKey(r, row)) \/ r = row
  BY DEF Upsert
<1> HIDE DEF new
<1>2. /\ row.input \in InputIndex /\ row.output \in Nat /\ MaxOutputs \in Nat
      /\ \A r \in table : r.input \in InputIndex /\ r.output \in Nat
  BY ModelAssumption DEF OutputRow
<1>3. \A r \in table : \E s \in new : SameKey(r, s)
  BY <1>1 DEF SameKey
<1>4. \A r, s \in new : SameKey(r, s) => r = s
  BY <1>1 DEF SameKey, GaplessTable
<1>5. ASSUME NEW i \in InputIndex
      PROVE  \E n \in 0 .. MaxOutputs : {r.output : r \in RowsOf(new, i)} = 0 .. (n - 1)
  <2>1. PICK n \in 0 .. MaxOutputs : {r.output : r \in RowsOf(table, i)} = 0 .. (n - 1)
    BY DEF GaplessTable
  <2>2. CASE i # row.input
    <3>1. RowsOf(new, i) = RowsOf(table, i)
      BY <1>1, <2>2 DEF RowsOf, SameKey
    <3> QED  BY <2>1, <3>1
  <2>3. CASE i = row.input
    <3>1. {r.output : r \in RowsOf(new, i)}
            = {r.output : r \in RowsOf(table, i)} \cup {row.output}
      <4>1. \A r \in RowsOf(new, i) : r.output \in {s.output : s \in RowsOf(table, i)}
                                                     \cup {row.output}
        BY <1>1 DEF RowsOf
      <4>2. \A r \in RowsOf(table, i) : \E s \in RowsOf(new, i) : s.output = r.output
        BY <1>1, <2>3 DEF RowsOf, SameKey
      <4>3. row \in RowsOf(new, i)
        BY <1>1, <2>3 DEF RowsOf
      <4> QED  BY <4>1, <4>2, <4>3
    <3>2. \A m \in 0 .. (row.output - 1) : m \in {r.output : r \in RowsOf(table, i)}
      BY <2>3 DEF RowsOf
    <3>3. row.output <= n
      BY <1>2, <2>1, <3>2
    <3>4. CASE row.output < n
      <4>1. 0 .. (n - 1) = (0 .. (n - 1)) \cup {row.output}
        BY <1>2, <2>1, <3>4
      <4> QED  BY <2>1, <3>1, <4>1
    <3>5. CASE row.output = n
      <4>1. n + 1 \in 0 .. MaxOutputs
        BY <1>2, <2>1, <3>5
      <4>2. 0 .. ((n + 1) - 1) = (0 .. (n - 1)) \cup {row.output}
        BY <1>2, <2>1, <3>5
      <4> QED  BY <2>1, <3>1, <4>1, <4>2
    <3> QED  BY <1>2, <2>1, <3>3, <3>4, <3>5
  <2> QED  BY <2>2, <2>3
<1>6. new \subseteq OutputRow /\ row \in new
  BY <1>1
<1>7. GaplessTable(new)
  BY <1>4, <1>5 DEF GaplessTable
<1> QED  BY <1>3, <1>6, <1>7 DEF new

(* The first write of the list, and what is left after it.                 *)
LEMMA HeadOfWrites ==
  ASSUME job \in Job, job.writes # <<>>
  PROVE  /\ Head(job.writes) \in Write /\ Head(job.writes) = job.writes[1]
         /\ Tail(job.writes) \in Seq(Write)
         /\ DOMAIN job.writes = 1 .. Len(job.writes) /\ Len(job.writes) \in Nat \ {0}
         /\ DOMAIN Tail(job.writes) = 1 .. (Len(job.writes) - 1)
         /\ \A k \in DOMAIN Tail(job.writes) :
              k + 1 \in DOMAIN job.writes /\ Tail(job.writes)[k] = job.writes[k + 1]
         /\ job # NoJob
<1>1. job.writes \in Seq(Write) /\ job # NoJob
  BY EmptySeq DEF Job, NoJob
<1> DEFINE w == job.writes
<1> HIDE DEF w
<1>2. w \in Seq(Write) /\ w # <<>>
  BY <1>1 DEF w
<1>3. /\ Head(w) \in Write /\ Tail(w) \in Seq(Write) /\ Len(Tail(w)) = Len(w) - 1
      /\ \A i \in 1 .. Len(Tail(w)) : Tail(w)[i] = w[i + 1]
  BY <1>2, HeadTailProperties
<1>4. DOMAIN w = 1 .. Len(w) /\ Len(w) \in Nat \ {0} /\ DOMAIN Tail(w) = 1 .. Len(Tail(w))
  BY <1>2, <1>3, LenProperties, EmptySeq
<1>5. Head(w) = w[1]
  BY <1>2
<1> QED  BY <1>1, <1>3, <1>4, <1>5 DEF w

(* WritesInOrder, of any list of writes.                                   *)
InOrder(w, input, name, table) ==
  \A k \in DOMAIN w : w[k].table = name =>
    /\ w[k].row.input = input
    /\ w[k].row.output < MaxOutputs
    /\ \A m \in 0 .. (w[k].row.output - 1) :
         \/ \E r \in table : r.input = input /\ r.output = m
         \/ \E j \in 1 .. (k - 1) : w[j].table = name /\ w[j].row.output = m

(* One write to the table of that name, or none to it.                     *)
LEMMA OutputWritten ==
  ASSUME StoreIInv, job.writes # <<>>, UNCHANGED state,
         job'.writes = Tail(job.writes),
         NEW name \in {"vouchers", "notices"}, NEW table, NEW new,
         table \subseteq OutputRow, GaplessTable(table), WritesInOrder(name, table),
         new = IF Head(job.writes).table = name
               THEN Upsert(table, {Head(job.writes).row}) ELSE table
  PROVE  /\ new \subseteq OutputRow /\ GaplessTable(new)
         /\ InOrder(job'.writes, state'.input, name, new)
<1> DEFINE w == job.writes
           row == Head(w).row
<1>1. /\ Head(w) \in Write /\ Head(w) = w[1] /\ 1 \in DOMAIN w
      /\ DOMAIN w = 1 .. Len(w) /\ Len(w) \in Nat
      /\ DOMAIN Tail(w) = 1 .. (Len(w) - 1)
      /\ \A k \in DOMAIN Tail(w) : k + 1 \in DOMAIN w /\ Tail(w)[k] = w[k + 1]
  <2>1. job \in Job
    BY StoreParts
  <2>2. Len(w) \in Nat \ {0} => 1 \in 1 .. Len(w)
    OBVIOUS
  <2> QED  BY <2>1, <2>2, HeadOfWrites
<1>2. ASSUME w[1].table = name
      PROVE  /\ row \in OutputRow /\ row.input = state.input /\ row.output < MaxOutputs
             /\ \A m \in 0 .. (row.output - 1) :
                  \E r \in table : r.input = row.input /\ r.output = m
  <2>1. row \in OutputRow
    BY <1>1, <1>2 DEF Write
  <2>2. /\ row.input = state.input /\ row.output < MaxOutputs
        /\ \A m \in 0 .. (row.output - 1) :
             \/ \E r \in table : r.input = state.input /\ r.output = m
             \/ \E j \in 1 .. (1 - 1) : w[j].table = name /\ w[j].row.output = m
    BY <1>1, <1>2 DEF WritesInOrder
  <2> QED  BY <2>1, <2>2
<1>3. /\ new \subseteq OutputRow /\ GaplessTable(new)
      /\ \A r \in table : \E s \in new : SameKey(r, s)
      /\ w[1].table = name => row \in new
  <2>1. CASE w[1].table = name
    BY <1>1, <1>2, <2>1, UpsertOne
  <2>2. CASE w[1].table # name
    BY <1>1, <2>2 DEF SameKey
  <2> QED  BY <2>1, <2>2
<1>4. ASSUME NEW k \in DOMAIN Tail(w), Tail(w)[k].table = name
      PROVE  /\ Tail(w)[k].row.input = state.input
             /\ Tail(w)[k].row.output < MaxOutputs
             /\ \A m \in 0 .. (Tail(w)[k].row.output - 1) :
                  \/ \E r \in new : r.input = state.input /\ r.output = m
                  \/ \E j \in 1 .. (k - 1) : Tail(w)[j].table = name /\ Tail(w)[j].row.output = m
  <2>1. /\ Tail(w)[k].row.input = state.input /\ Tail(w)[k].row.output < MaxOutputs
        /\ \A m \in 0 .. (Tail(w)[k].row.output - 1) :
             \/ \E r \in table : r.input = state.input /\ r.output = m
             \/ \E j \in 1 .. ((k + 1) - 1) : w[j].table = name /\ w[j].row.output = m
    BY <1>1, <1>4 DEF WritesInOrder
  <2>2. ASSUME NEW m \in 0 .. (Tail(w)[k].row.output - 1)
        PROVE  \/ \E r \in new : r.input = state.input /\ r.output = m
               \/ \E j \in 1 .. (k - 1) : Tail(w)[j].table = name /\ Tail(w)[j].row.output = m
    <3>1. CASE \E r \in table : r.input = state.input /\ r.output = m
      BY <1>3, <3>1 DEF SameKey
    <3>2. ASSUME NEW j \in 1 .. ((k + 1) - 1), w[j].table = name, w[j].row.output = m
          PROVE  \/ \E r \in new : r.input = state.input /\ r.output = m
                 \/ \E l \in 1 .. (k - 1) : Tail(w)[l].table = name /\ Tail(w)[l].row.output = m
      <4>1. CASE j = 1
        BY <1>1, <1>2, <1>3, <3>2, <4>1
      <4>2. CASE j # 1
        <5>1. j - 1 \in 1 .. (k - 1) /\ j - 1 \in DOMAIN Tail(w) /\ (j - 1) + 1 = j
          <6>1. k \in 1 .. (Len(w) - 1) /\ j \in Nat /\ j >= 1 /\ j <= k
            BY <1>1, <1>4, <3>2
          <6>2. j - 1 \in 1 .. (k - 1) /\ j - 1 \in 1 .. (Len(w) - 1) /\ (j - 1) + 1 = j
            BY <1>1, <4>2, <6>1, SMTT(30)
          <6> QED  BY <1>1, <6>2
        <5>2. Tail(w)[j - 1] = w[j]
          BY <1>1, <5>1
        <5> QED  BY <3>2, <5>1, <5>2
      <4> QED  BY <4>1, <4>2
    <3> QED  BY <2>1, <3>1, <3>2
  <2> QED  BY <2>1, <2>2
<1>5. InOrder(Tail(w), state.input, name, new)
  BY <1>4 DEF InOrder
<1>6. InOrder(job'.writes, state'.input, name, new)
  BY <1>5
<1> QED  BY <1>3, <1>6

(* The status is written once, and nothing more of it is left then.        *)
LEMMA WriteNextStatus ==
  ASSUME StoreIInv, WriteNext
  PROVE  /\ \A k, l \in StatusWritesLeft' : k = l
         /\ Head(job.writes).table = "inputs" =>
              StatusWritesLeft # {} /\ StatusWritesLeft' = {}
         /\ StatusWritesLeft = {} => StatusWritesLeft' = {}
         /\ inputs' = IF Head(job.writes).table = "inputs"
                      THEN [inputs EXCEPT ![state.input] = Head(job.writes).row] ELSE inputs
<1> DEFINE w == job.writes
<1>1. /\ Head(w) = w[1] /\ 1 \in DOMAIN w
      /\ DOMAIN w = 1 .. Len(w) /\ Len(w) \in Nat
      /\ DOMAIN Tail(w) = 1 .. (Len(w) - 1)
      /\ \A k \in DOMAIN Tail(w) : k + 1 \in DOMAIN w /\ Tail(w)[k] = w[k + 1]
  <2>1. job \in Job /\ w # <<>>
    BY StoreParts DEF WriteNext
  <2>2. Len(w) \in Nat \ {0} => 1 \in 1 .. Len(w)
    OBVIOUS
  <2> QED  BY <2>1, <2>2, HeadOfWrites
<1>2. job'.writes = Tail(w)
  BY StoreParts DEF WriteNext, Job, NoJob
<1>3. \A k, l \in StatusWritesLeft : k = l
  BY StoreParts DEF JobFits
<1>4. \A k \in StatusWritesLeft' : k \in Nat /\ k >= 1 /\ k + 1 \in StatusWritesLeft
  BY <1>1, <1>2 DEF StatusWritesLeft
<1>5. Head(w).table = "inputs" => 1 \in StatusWritesLeft
  BY <1>1 DEF StatusWritesLeft
<1>6. \A k, l \in StatusWritesLeft' : k = l
  <2>1. ASSUME NEW k \in StatusWritesLeft', NEW l \in StatusWritesLeft'
        PROVE  k = l
    <3>1. k + 1 = l + 1 /\ k \in Nat /\ l \in Nat
      BY <1>3, <1>4
    <3> QED  BY <3>1
  <2> QED  BY <2>1
<1>7. Head(w).table = "inputs" => StatusWritesLeft' = {}
  <2>1. \A k \in StatusWritesLeft' : k + 1 # 1
    BY <1>4
  <2> QED  BY <1>3, <1>4, <1>5, <2>1
<1>8. inputs' = IF Head(w).table = "inputs"
                THEN [inputs EXCEPT ![state.input] = Head(w).row] ELSE inputs
  BY DEF WriteNext, Apply
<1> QED  BY <1>4, <1>5, <1>6, <1>7, <1>8

LEMMA WriteNextKeeps ==
  ASSUME StoreIInv, WriteNext
  PROVE  StoreIInv'
<1> DEFINE w == job.writes
           h == Head(w)
<1>1. /\ StoredFit /\ StateTypeOK /\ FaultsTyped /\ JobFits /\ job \in Job
      /\ inspects \in Seq(InspectInput)
      /\ WritesInOrder("vouchers", vouchers) /\ WritesInOrder("notices", notices)
  BY StoreParts
<1>2. /\ w # <<>> /\ UNCHANGED inspects /\ UNCHANGED state /\ UNCHANGED faults
      /\ job' = [job EXCEPT !.writes = Tail(w)]
      /\ vouchers' = IF h.table = "vouchers" THEN Upsert(vouchers, {h.row}) ELSE vouchers
      /\ notices' = IF h.table = "notices" THEN Upsert(notices, {h.row}) ELSE notices
      /\ reports' = IF h.table = "reports"
                    THEN [reports EXCEPT ![state.input] = Append(reports[state.input], h.row)]
                    ELSE reports
  BY DEF WriteNext, Apply
<1>3. h \in Write /\ Tail(w) \in Seq(Write) /\ job # NoJob
  BY <1>1, <1>2, HeadOfWrites
<1>4. /\ job'.writes = Tail(w) /\ job' \in Job /\ job' # NoJob
  BY <1>1, <1>2, <1>3 DEF Job, NoJob
<1>5. state.input \in InputIndex /\ state.mode = "advance"
  BY <1>1, <1>3 DEF JobFits
<1>6. StoredIndicesGapless' /\ vouchers' \subseteq OutputRow /\ notices' \subseteq OutputRow
      /\ WritesInOrder("vouchers", vouchers)' /\ WritesInOrder("notices", notices)'
  <2>1. /\ vouchers' \subseteq OutputRow /\ GaplessTable(vouchers')
        /\ WritesInOrder("vouchers", vouchers)'
    <3>1. vouchers \subseteq OutputRow /\ GaplessTable(vouchers)
      BY <1>1 DEF StoredFit, StoredIndicesGapless
    <3>2. vouchers' = IF Head(job.writes).table = "vouchers"
                      THEN Upsert(vouchers, {Head(job.writes).row}) ELSE vouchers
      BY <1>2
    <3>3. /\ vouchers' \subseteq OutputRow /\ GaplessTable(vouchers')
          /\ InOrder(job'.writes, state'.input, "vouchers", vouchers')
      <4>1. job.writes # <<>> /\ UNCHANGED state /\ job'.writes = Tail(job.writes)
            /\ WritesInOrder("vouchers", vouchers)
        BY <1>1, <1>2, <1>4
      <4> QED  BY <3>1, <3>2, <4>1, OutputWritten
    <3> QED  BY <3>3 DEF InOrder, WritesInOrder
  <2>2. /\ notices' \subseteq OutputRow /\ GaplessTable(notices')
        /\ WritesInOrder("notices", notices)'
    <3>1. notices \subseteq OutputRow /\ GaplessTable(notices)
      BY <1>1 DEF StoredFit, StoredIndicesGapless
    <3>2. notices' = IF Head(job.writes).table = "notices"
                      THEN Upsert(notices, {Head(job.writes).row}) ELSE notices
      BY <1>2
    <3>3. /\ notices' \subseteq OutputRow /\ GaplessTable(notices')
          /\ InOrder(job'.writes, state'.input, "notices", notices')
      <4>1. job.writes # <<>> /\ UNCHANGED state /\ job'.writes = Tail(job.writes)
            /\ WritesInOrder("notices", notices)
        BY <1>1, <1>2, <1>4
      <4> QED  BY <3>1, <3>2, <4>1, OutputWritten
    <3> QED  BY <3>3 DEF InOrder, WritesInOrder
  <2>3. GaplessTable(vouchers)' /\ GaplessTable(notices)'
    BY <2>1, <2>2 DEF GaplessTable, RowsOf
  <2> QED  BY <2>1, <2>2, <2>3 DEF StoredIndicesGapless
<1>7. reports' \in [InputIndex -> Seq(ReportRow)]
  <2>1. CASE h.table = "reports"
    <3>1. h.row \in ReportRow
      BY <1>3, <2>1 DEF Write
    <3>2. reports \in [InputIndex -> Seq(ReportRow)]
      BY <1>1 DEF StoredFit
    <3>3. Append(reports[state.input], h.row) \in Seq(ReportRow)
      BY <1>5, <3>1, <3>2, AppendProperties
    <3> QED  BY <1>2, <2>1, <3>2, <3>3
  <2>2. CASE h.table # "reports"
    BY <1>1, <1>2, <2>2 DEF StoredFit
  <2> QED  BY <2>1, <2>2
<1>8. inputs \in [InputIndex -> {"absent"} \cup Status]
  BY <1>1 DEF StoredFit
<1>9. inputs' \in [InputIndex -> {"absent"} \cup Status]
  <2>1. h.table = "inputs" => h.row \in Verdict
    BY <1>3 DEF Write
  <2> QED  BY <1>5, <1>8, <2>1, WriteNextStatus DEF Status
<1>10. JobFits'
  <2>1. ASSUME faults.dberror = 0, inputs'[state.input] # "unprocessed"
        PROVE  StatusWritesLeft' = {}
    <3>1. CASE h.table = "inputs"
      BY <3>1, WriteNextStatus
    <3>2. CASE h.table # "inputs"
      <4>1. inputs' = inputs
        BY <3>2, WriteNextStatus
      <4>2. StatusWritesLeft = {}
        BY <1>1, <1>5, <2>1, <4>1 DEF JobFits
      <4> QED  BY <4>2, WriteNextStatus
    <3> QED  BY <3>1, <3>2
  <2> QED  BY <1>2, <1>4, <1>5, <2>1, WriteNextStatus DEF JobFits
<1>11. StateTypeOK' /\ FaultsTyped'
  BY <1>1, <1>2 DEF StateTypeOK, Emitted, FaultsTyped
<1>12. StoredFit'
  BY <1>6, <1>7, <1>9 DEF StoredFit
<1> QED  BY <1>1, <1>2, <1>4, <1>6, <1>10, <1>11, <1>12, StorePartsPrime

(* The steps after the last write, and those that end a request early.     *)
LEMMA ReleaseKeeps ==
  ASSUME StoreIInv,
         FinishDone \/ ExceptionDone \/ Stop \/ Crash \/ DbError \/ InspectDbError
  PROVE  StoreIInv'
<1>1. /\ StoredFit /\ StateTypeOK /\ FaultsTyped /\ JobFits
      /\ inspects \in Seq(InspectInput)
  BY StoreParts
<1>2. ASSUME NEW kind \in {"crash", "dberror"}, Fault(kind)
      PROVE  /\ FaultsTyped'
             /\ kind = "dberror" => faults'.dberror # 0
  <2>1. /\ faults.crash \in Nat /\ faults.dberror \in Nat
        /\ faults.crash + faults.dberror < MaxFaults /\ MaxFaults \in Nat
        /\ faults = [crash |-> faults.crash, dberror |-> faults.dberror]
        /\ faults' = [faults EXCEPT ![kind] = faults[kind] + 1]
    BY <1>1, <1>2, StoreAssumption DEF FaultsTyped, Fault
  <2>2. CASE kind = "crash"
    <3>1. faults' = [crash |-> faults.crash + 1, dberror |-> faults.dberror]
      BY <2>1, <2>2
    <3> QED  BY <2>1, <2>2, <3>1 DEF FaultsTyped
  <2>3. CASE kind = "dberror"
    <3>1. faults' = [crash |-> faults.crash, dberror |-> faults.dberror + 1]
      BY <2>1, <2>3
    <3> QED  BY <2>1, <2>3, <3>1 DEF FaultsTyped
  <2> QED  BY <2>2, <2>3
<1>3. CASE FinishDone
  <2>1. job' = NoJob /\ UNCHANGED tables /\ UNCHANGED inputs /\ UNCHANGED inspects
        /\ UNCHANGED faults /\ IsNext(state', inputs', inspects')
    BY <1>3 DEF FinishDone, tables
  <2>2. StateFits'
    BY <1>1, <2>1, NextFits
  <2>3. StateTypeOK' /\ (state'.mode = "advance" =>
          state'.input \in InputIndex /\ inputs'[state'.input] = "unprocessed")
    BY <2>2 DEF StateFits, StateTypeOK, InProgressIsPending
  <2>4. FaultsTyped'
    BY <1>1, <2>1 DEF FaultsTyped
  <2> QED  BY <1>1, <2>1, <2>3, <2>4, StoredUnchanged, Released
<1>4. ASSUME state' = RollupsStateIdle, job' = NoJob, UNCHANGED tables,
             inspects' \in Seq(InspectInput), FaultsTyped'
      PROVE  StoreIInv'
  <2>1. StateTypeOK' /\ state'.mode = "idle"
    BY <1>4, IdleFits DEF StateFits, StateTypeOK, RollupsStateIdle, Working
  <2> QED  BY <1>1, <1>4, <2>1, StoredUnchanged, Released
<1>5. UNCHANGED faults => FaultsTyped'
  BY <1>1 DEF FaultsTyped
<1>6. CASE ExceptionDone
  <2>1. state' = RollupsStateIdle /\ job' = NoJob /\ UNCHANGED tables
        /\ UNCHANGED inspects /\ UNCHANGED faults
    BY <1>6 DEF ExceptionDone
  <2> QED  BY <1>1, <1>4, <1>5, <2>1
<1>7. CASE Stop \/ Crash
  <2>1. state' = RollupsStateIdle /\ job' = NoJob /\ UNCHANGED tables /\ inspects' = <<>>
    BY <1>7 DEF Stop, Crash, Restart
  <2>2. FaultsTyped'
    BY <1>2, <1>5, <1>7 DEF Stop, Crash
  <2> QED  BY <1>4, <2>1, <2>2, EmptySeq
<1>8. CASE DbError
  <2>1. job' = NoJob /\ UNCHANGED vars /\ FaultsTyped' /\ faults'.dberror # 0
    BY <1>2, <1>8 DEF DbError
  <2>2. UNCHANGED tables /\ UNCHANGED state /\ UNCHANGED inspects
    BY <2>1 DEF vars, tables
  <2>3. StateTypeOK' /\ (state'.mode = "advance" => state'.input \in InputIndex)
    BY <1>1, <2>2 DEF StateTypeOK, Emitted, JobFits
  <2> QED  BY <1>1, <2>1, <2>2, <2>3, StoredUnchanged, Released
<1>9. CASE InspectDbError
  <2>1. job' = NoJob /\ UNCHANGED tables /\ UNCHANGED state
        /\ FaultsTyped' /\ faults'.dberror # 0
    BY <1>2, <1>9 DEF InspectDbError
  <2>2. inspects' \in Seq(InspectInput)
    <3>1. ASSUME NEW status \in Verdict,
                 inspects' = [inspects EXCEPT ![state.input].status = status]
          PROVE  inspects' \in Seq(InspectInput)
      <4>1. /\ inspects \in [1 .. Len(inspects) -> InspectInput]
            /\ inspects \in Seq(InspectInput) /\ Len(inspects) \in Nat
        BY <1>1, LenProperties
      <4>2. \A x \in InspectInput : [x EXCEPT !.status = status] \in InspectInput
        BY DEF InspectInput, Status
      <4>3. inspects' \in [1 .. Len(inspects) -> InspectInput]
        BY <3>1, <4>1, <4>2
      <4> QED  BY <4>1, <4>3, SeqDef
    <3>2. {"accepted", "rejected"} \subseteq Verdict
      BY DEF Verdict
    <3> QED  BY <1>9, <3>1, <3>2, InspectFinishTyped DEF InspectDbError
  <2>3. StateTypeOK' /\ (state'.mode = "advance" => state'.input \in InputIndex)
    BY <1>1, <2>1 DEF StateTypeOK, Emitted, JobFits
  <2> QED  BY <1>1, <2>1, <2>2, <2>3, StoredUnchanged, Released
<1> QED  BY <1>3, <1>6, <1>7, <1>8, <1>9
LEMMA StoreStutterKeeps ==
  ASSUME StoreIInv, UNCHANGED storeVars
  PROVE  StoreIInv'
<1>1. /\ UNCHANGED tables /\ UNCHANGED inspects /\ UNCHANGED state
      /\ UNCHANGED inputs /\ UNCHANGED vouchers /\ UNCHANGED notices
      /\ UNCHANGED job /\ UNCHANGED faults
  BY DEF storeVars, vars, tables
<1>2. /\ StoredFit /\ StateTypeOK /\ FaultsTyped /\ JobFits /\ job \in Job
      /\ inspects \in Seq(InspectInput)
      /\ WritesInOrder("vouchers", vouchers) /\ WritesInOrder("notices", notices)
  BY StoreParts
<1>3. StoredFit'
  BY <1>1, <1>2, StoredUnchanged
<1>4. StateTypeOK' /\ FaultsTyped' /\ JobFits'
  BY <1>1, <1>2 DEF StateTypeOK, Emitted, FaultsTyped, JobFits, StatusWritesLeft
<1>5. WritesInOrder("vouchers", vouchers)' /\ WritesInOrder("notices", notices)'
  BY <1>1, <1>2 DEF WritesInOrder
<1> QED  BY <1>1, <1>2, <1>3, <1>4, <1>5, StorePartsPrime

-----------------------------------------------------------------------------
(* The theorems.                                                           *)

LEMMA StoreInitFits == StoreInit => StoreIInv
<1> SUFFICES ASSUME StoreInit PROVE StoreIInv
  OBVIOUS
<1>1. IInv /\ job = NoJob /\ faults = [crash |-> 0, dberror |-> 0]
  BY InitFits DEF StoreInit
<1>2. StoredFit /\ StateTypeOK /\ inspects \in Seq(InspectInput)
  BY <1>1 DEF IInv, TypeOK, StoredFit, StateTypeOK, StoredIndicesGapless, OutputIndicesGapless
<1>3. FaultsTyped
  BY <1>1, StoreAssumption DEF FaultsTyped
<1>4. job.writes = <<>> /\ DOMAIN job.writes = {}
  BY <1>1, EmptySeq, LenProperties DEF NoJob
<1>5. /\ job \in Job /\ StatusWritesLeft = {}
      /\ WritesInOrder("vouchers", vouchers) /\ WritesInOrder("notices", notices)
  BY <1>1, <1>4 DEF Job, StatusWritesLeft, WritesInOrder
<1>6. state.mode = "idle"
  BY DEF StoreInit, Init, RollupsStateIdle, Working
<1>7. JobFits
  BY <1>1, <1>5, <1>6 DEF JobFits
<1> QED  BY <1>2, <1>3, <1>5, <1>7, StoreParts

LEMMA StoreNextKeeps == StoreIInv /\ [StoreNext]_storeVars => StoreIInv'
<1> SUFFICES ASSUME StoreIInv, [StoreNext]_storeVars PROVE StoreIInv'
  OBVIOUS
<1>1. CASE OneWrite
  BY <1>1, OneWriteKeeps
<1>2. ASSUME NEW accepted \in BOOLEAN, StartFinish(accepted)
      PROVE  StoreIInv'
  <2> DEFINE status == IF accepted THEN "accepted" ELSE "rejected"
  <2>1. status \in Verdict /\ status \in {"accepted", "rejected"}
    BY DEF Verdict
  <2>2. Start("finish", status, FinishWrites(status))
    BY <1>2 DEF StartFinish
  <2> HIDE DEF status
  <2>3. StateTyped => FreshWrites(FinishWrites(status))
    BY <2>1, JobWritesFresh
  <2> QED  BY <2>1, <2>2, <2>3, StartKeeps
<1>3. CASE StartException
  <2>1. "exception" \in Verdict
    BY DEF Verdict
  <2>2. Start("exception", "exception", ExceptionWrites)
    BY <1>3 DEF StartException
  <2>3. StateTyped => FreshWrites(ExceptionWrites)
    BY JobWritesFresh
  <2> QED  BY <2>1, <2>2, <2>3, StartKeeps
<1>4. CASE WriteNext
  BY <1>4, WriteNextKeeps
<1>5. CASE FinishDone \/ ExceptionDone \/ Stop \/ Crash \/ DbError \/ InspectDbError
  BY <1>5, ReleaseKeeps
<1>6. CASE UNCHANGED storeVars
  BY <1>6, StoreStutterKeeps
<1> QED  BY <1>1, <1>2, <1>3, <1>4, <1>5, <1>6 DEF StoreNext

(* The inductive invariant holds in every behaviour, whatever crashes and  *)
(* failing statements it has.                                              *)
THEOREM StoreInvariance == StoreSpec => []StoreIInv
BY StoreInitFits, StoreNextKeeps, PTL DEF StoreSpec

(* Every variable keeps its type, the writes that are left included.       *)
THEOREM StoreTypeCorrect == StoreSpec => []StoreTypeOK
<1>1. StoreIInv => StoreTypeOK
  BY DEF StoreIInv
<1> QED  BY <1>1, StoreInvariance, PTL

(* The stored outputs of an input are numbered without gaps and            *)
(* collisions, wherever an attempt to store them was cut short.            *)
THEOREM StoredGapless == StoreSpec => []StoredIndicesGapless
<1>1. StoreIInv => StoredIndicesGapless
  BY DEF StoreIInv
<1> QED  BY <1>1, StoreInvariance, PTL

LEMMA StoreStepKeepsVerdicts ==
  ASSUME StoreIInv, [StoreNext]_storeVars, faults.dberror = 0
  PROVE  \A i \in InputIndex : inputs[i] \in Verdict => inputs'[i] = inputs[i]
<1>1. inputs \in [InputIndex -> {"absent"} \cup Status]
  BY DEF StoreIInv, StoreTypeOK, TypeOK
<1>2. CASE WriteNext
  <2>1. CASE Head(job.writes).table = "inputs"
    <3>1. /\ inputs' = [inputs EXCEPT ![state.input] = Head(job.writes).row]
          /\ StatusWritesLeft # {}
      BY <1>2, <2>1, WriteNextStatus
    <3>2. state.mode = "advance" /\ state.input \in InputIndex
      BY <1>2, HeadOfWrites DEF StoreIInv, StoreTypeOK, JobFits, WriteNext
    <3>3. inputs[state.input] = "unprocessed"
      BY <3>1, <3>2 DEF StoreIInv, JobFits
    <3> QED  BY <1>1, <3>1, <3>2, <3>3 DEF Verdict
  <2>2. CASE Head(job.writes).table # "inputs"
    BY <1>2, <2>2, WriteNextStatus
  <2> QED  BY <2>1, <2>2
<1>3. CASE \E i \in InputIndex : AddAdvanceInput(i)
  BY <1>1, <1>3 DEF AddAdvanceInput, Verdict
<1>4. CASE UNCHANGED tables
  BY <1>4 DEF tables
<1>5. OneWrite => (\E i \in InputIndex : AddAdvanceInput(i)) \/ UNCHANGED tables
  BY DEF OneWrite, AddInspectInput, AddOutput, AddVoucher, AddNotice, AddReport,
         FinishAndGetNext, IdleFinish, AdvanceFinish, InspectFinish,
         RegisterException, AdvanceException, tables
<1>6. (\/ UNCHANGED storeVars \/ StartException \/ FinishDone \/ ExceptionDone
       \/ Stop \/ Crash \/ DbError \/ InspectDbError
       \/ \E accepted \in BOOLEAN : StartFinish(accepted)) => UNCHANGED tables
  BY DEF storeVars, vars, tables, StartException, StartFinish, Start, FinishDone,
         ExceptionDone, Stop, Crash, Restart, DbError, InspectDbError
<1> QED  BY <1>2, <1>3, <1>4, <1>5, <1>6 DEF StoreNext

(* What was decided about an input stays decided until a statement fails,  *)
(* however often the process stops between two writes.                     *)
THEOREM StoredVerdictsFinal == StoreSpec => StoredVerdictIsFinal
<1>1. StoreIInv /\ [StoreNext]_storeVars =>
        [faults.dberror = 0 =>
           \A i \in InputIndex : inputs[i] \in Verdict => inputs'[i] = inputs[i]]_storeVars
  BY StoreStepKeepsVerdicts
<1> QED  BY <1>1, StoreInvariance, PTL DEF StoreSpec, StoredVerdictIsFinal
=============================================================================
