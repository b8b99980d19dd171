--------------------------- MODULE InputterProofs ---------------------------
(***************************************************************************)
(* Theorems of Inputter, for every set of inputs, every channel and every  *)
(* number of lives of the process.  InputterIInv (in Inputter) is          *)
(* inductive; one lemma for each action, or each kind of action, says so.  *)
(***************************************************************************)
EXTENDS Inputter, AppModelProofs

-----------------------------------------------------------------------------
(* Lists of logs.                                                          *)

PartOf(t, s) == \A k \in DOMAIN t : \E l \in DOMAIN s : t[k] = s[l]

LEMMA IndexIsNat == \A i \in InputIndex : i \in Nat
BY ModelAssumption

(* The first log of a list and the rest of it.                             *)
LEMMA HeadAndTail ==
  ASSUME NEW s \in Seq(InputIndex), s # <<>>, Increasing(s)
  PROVE  /\ Head(s) \in InputIndex /\ Head(s) = s[1] /\ 1 \in DOMAIN s
         /\ Tail(s) \in Seq(InputIndex) /\ Increasing(Tail(s)) /\ PartOf(Tail(s), s)
         /\ <<Head(s)>> \in Seq(InputIndex) /\ Increasing(<<Head(s)>>)
         /\ PartOf(<<Head(s)>>, s)
         /\ Before(<<Head(s)>>, Tail(s))
<1>1. /\ Len(s) \in Nat /\ Len(s) > 0 /\ DOMAIN s = 1 .. Len(s)
      /\ Head(s) = s[1] /\ s[1] \in InputIndex
  OBVIOUS
<1>2. /\ Tail(s) \in Seq(InputIndex)
      /\ DOMAIN Tail(s) = 1 .. (Len(s) - 1)
      /\ \A k \in 1 .. (Len(s) - 1) : Tail(s)[k] = s[k + 1]
  BY <1>1
<1>3. /\ <<Head(s)>> \in Seq(InputIndex) /\ DOMAIN <<Head(s)>> = 1 .. 1
      /\ <<Head(s)>>[1] = s[1]
  BY <1>1
<1>4. \A k \in 1 .. (Len(s) - 1) : k + 1 \in DOMAIN s /\ k \in Nat /\ 1 < k + 1
  BY <1>1
<1>5. Increasing(Tail(s)) /\ PartOf(Tail(s), s)
  BY <1>1, <1>2, <1>4 DEF Increasing, PartOf
<1>6. Increasing(<<Head(s)>>) /\ PartOf(<<Head(s)>>, s)
  BY <1>1, <1>3 DEF Increasing, PartOf
<1>7. Before(<<Head(s)>>, Tail(s))
  BY <1>1, <1>2, <1>3, <1>4 DEF Increasing, Before
<1> QED BY <1>1, <1>2, <1>3, <1>5, <1>6, <1>7

(* A log that is above all of a list, after them.                          *)
LEMMA AppendLog ==
  ASSUME NEW s \in Seq(InputIndex), Increasing(s), NEW x \in InputIndex,
         \A k \in DOMAIN s : s[k] < x
  PROVE  /\ Append(s, x) \in Seq(InputIndex) /\ Increasing(Append(s, x))
         /\ \A k \in DOMAIN Append(s, x) :
              (k \in DOMAIN s /\ Append(s, x)[k] = s[k]) \/ Append(s, x)[k] = x
<1>1. /\ Append(s, x) \in Seq(InputIndex)
      /\ Len(s) \in Nat /\ DOMAIN s = 1 .. Len(s)
      /\ DOMAIN Append(s, x) = 1 .. (Len(s) + 1)
      /\ \A k \in 1 .. Len(s) : Append(s, x)[k] = s[k]
      /\ Append(s, x)[Len(s) + 1] = x
  OBVIOUS
<1>2. \A k \in DOMAIN Append(s, x) : k \in DOMAIN s \/ k = Len(s) + 1
  BY <1>1
<1>3. \A k, l \in DOMAIN Append(s, x) : k < l => k \in DOMAIN s
  BY <1>1
<1>4. Increasing(Append(s, x))
  BY <1>1, <1>2, <1>3 DEF Increasing
<1> QED BY <1>1, <1>2, <1>4

LEMMA PartsBefore ==
  ASSUME NEW s, NEW t, NEW u, PartOf(t, s)
  PROVE  /\ Before(s, u) => Before(t, u)
         /\ Before(u, s) => Before(u, t)
BY DEF PartOf, Before

LEMMA EmptyLists ==
  /\ <<>> \in Seq(InputIndex) /\ Ordered(<<>>)
  /\ \A s : Before(<<>>, s) /\ Before(s, <<>>)
BY DEF Before, Increasing, Ordered

(* A part of a list that is in order is in order.                          *)
LEMMA OrderedPart ==
  ASSUME NEW s, NEW t, Ordered(s), PartOf(t, s), Increasing(t)
  PROVE  Ordered(t)
BY DEF PartOf, Ordered

(* What a list holds, its first log and the others hold.                   *)
LEMMA HoldsParts ==
  ASSUME NEW s \in Seq(InputIndex), s # <<>>
  PROVE  \A i : Holds(s, i) => Holds(<<Head(s)>>, i) \/ Holds(Tail(s), i)
<1>1. /\ Len(s) \in Nat /\ DOMAIN s = 1 .. Len(s) /\ Head(s) = s[1]
      /\ DOMAIN Tail(s) = 1 .. (Len(s) - 1)
      /\ \A k \in 1 .. (Len(s) - 1) : Tail(s)[k] = s[k + 1]
      /\ DOMAIN <<Head(s)>> = 1 .. 1 /\ <<Head(s)>>[1] = Head(s)
  OBVIOUS
<1>2. ASSUME NEW k \in DOMAIN s, k # 1
      PROVE  k - 1 \in 1 .. (Len(s) - 1) /\ (k - 1) + 1 = k
  BY <1>1, <1>2
<1>3. ASSUME NEW k \in DOMAIN s, k # 1
      PROVE  Holds(Tail(s), s[k])
  <2>1. k - 1 \in DOMAIN Tail(s) /\ Tail(s)[k - 1] = s[k]
    BY <1>1, <1>2, <1>3
  <2> QED  BY <2>1 DEF Holds
<1>4. Holds(<<Head(s)>>, s[1])
  BY <1>1 DEF Holds
<1> QED  BY <1>3, <1>4 DEF Holds

LEMMA HoldsAppended ==
  ASSUME NEW s \in Seq(InputIndex), NEW x \in InputIndex
  PROVE  /\ Holds(Append(s, x), x)
         /\ \A i : Holds(s, i) => Holds(Append(s, x), i)
<1>1. /\ Len(s) \in Nat /\ DOMAIN s = 1 .. Len(s)
      /\ DOMAIN Append(s, x) = 1 .. (Len(s) + 1)
      /\ \A k \in 1 .. Len(s) : Append(s, x)[k] = s[k]
      /\ Append(s, x)[Len(s) + 1] = x
  OBVIOUS
<1>2. Len(s) + 1 \in DOMAIN Append(s, x) /\ DOMAIN s \subseteq DOMAIN Append(s, x)
  BY <1>1
<1> QED  BY <1>1, <1>2 DEF Holds

LEMMA HoldsPart ==
  ASSUME NEW s, NEW t, PartOf(t, s)
  PROVE  \A i : Holds(t, i) => Holds(s, i)
BY DEF PartOf, Holds

LEMMA HoldsNothing == \A i : ~Holds(<<>>, i)
BY DEF Holds

(* A list of one log at most holds its first alone.                        *)
LEMMA HoldsFirst ==
  ASSUME NEW s \in Seq(InputIndex), Len(s) <= 1, NEW i, Holds(s, i)
  PROVE  s # <<>> /\ i = Head(s)
<1>1. PICK k \in DOMAIN s : s[k] = i
  BY DEF Holds
<1>2. Len(s) \in Nat /\ DOMAIN s = 1 .. Len(s)
  OBVIOUS
<1>3. k = 1 /\ s # <<>>
  BY <1>1, <1>2
<1> QED  BY <1>1, <1>3

LEMMA WorkerType ==
  ASSUME InputterIInv
  PROVE  /\ worker \in WorkerState
         /\ worker.event \in Seq(InputIndex) /\ worker.held \in Seq(InputIndex)
         /\ worker.logs \in Seq(InputIndex) /\ worker.found \in Seq(InputIndex)
BY DEF InputterIInv, InputterTypeOK, WorkerState

-----------------------------------------------------------------------------
(* The worker and its goroutines.                                          *)

(* A state that the worker may move to when the query found p inputs.      *)
Fits(next, p) ==
  /\ next \in WorkerState
  /\ Len(next.event) <= 1 /\ Len(next.held) <= 1
  /\ next.done => next.found = <<>>
  /\ next.pc = "read" => next.event = <<>> /\ next.logs = <<>> /\ next.found = <<>>
  /\ next.pc \notin {"dialed", "failed"} =>
       \A i \in InputIndex : Due(i) => inputs[i] # "absent" \/ Carries(next, i)
  /\ Ordered(next.event) /\ Ordered(next.held)
  /\ Ordered(next.logs) /\ Ordered(next.found)
  /\ Before(next.event, next.held) /\ Before(next.event, next.logs)
  /\ Before(next.event, next.found)
  /\ Before(next.held, next.logs) /\ Before(next.held, next.found)
  /\ Before(next.logs, next.found)
  /\ next.pc # "watching" => next.held = <<>>
  /\ next.pc = "watching" => next.found = <<>>
  /\ next.pc = "dialed" => worker.pc = "dialed" /\ next.event = <<>>
  /\ next.pc = "reading" => \A i \in InputIndex : Carries(next, i) => i < p

LEMMA QueryStep ==
  ASSUME InputterIInv, NEW next, NEW p \in Nat, Fits(next, p),
         p = past \/ \A i \in InputIndex : i < chain => Carries(next, i),
         worker' = next, past' = p,
         UNCHANGED <<vars, chain, broken, missed, life, origin>>
  PROVE  InputterIInv'
<1>1. /\ worker' = next /\ past' = p
      /\ UNCHANGED vars /\ UNCHANGED <<inputs, state>>
      /\ chain' = chain /\ broken' = broken /\ missed' = missed
      /\ life' = life /\ origin' = origin
  BY DEF vars
<1>2. IInv'
  BY <1>1, StutterKeeps DEF InputterIInv
<1>3. InputterTypeOK'
  <2>1. TypeOK'
    BY <1>2 DEF IInv
  <2> QED  BY <1>1, <2>1 DEF InputterIInv, InputterTypeOK, Fits
<1>4. LogsInOrder'
  BY <1>1 DEF Fits, LogsInOrder, Ordered
<1>5. WorkerFits'
  <2>1. worker'.pc = "reading" => \A i \in InputIndex : Carries(worker, i)' => i < past'
    BY <1>1 DEF Fits, Carries, Holds
  <2> QED  BY <1>1, <2>1 DEF Fits, WorkerFits, InputterIInv
<1>6. OriginsFit'
  BY <1>1 DEF InputterIInv, OriginsFit
<1>7. FirstOfItsLife' /\ DecidedInOrder'
  BY <1>1 DEF InputterIInv, FirstOfItsLife, DecidedInOrder
<1>8. NoLogIsLost'
  <2>1. CASE p = past
    BY <1>1, <2>1 DEF Fits, NoLogIsLost, Carries, Holds, Due, Dropped
  <2>2. CASE \A i \in InputIndex : i < chain => Carries(next, i)
    BY <1>1, <2>2 DEF NoLogIsLost, Carries, Holds, Due
  <2> QED  BY <2>1, <2>2
<1> QED  BY <1>2, <1>3, <1>4, <1>5, <1>6, <1>7, <1>8 DEF InputterIInv

LEMMA WorkerStep ==
  ASSUME InputterIInv, NEW next, Fits(next, past), Moves(next)
  PROVE  InputterIInv'
<1>1. past \in Nat
  BY DEF InputterIInv, InputterTypeOK
<1> QED  BY <1>1, QueryStep DEF Moves

(* The logs that the worker is about to get, in other places.              *)
LEMMA StillCarried ==
  ASSUME InputterIInv, NEW next,
         worker.pc \notin {"dialed", "failed"},
         \A i \in InputIndex : Carries(worker, i) => Carries(next, i)
  PROVE  \A i \in InputIndex : Due(i) => inputs[i] # "absent" \/ Carries(next, i)
BY DEF InputterIInv, NoLogIsLost

(* What was found stays so.                                                *)
LEMMA StillFound ==
  ASSUME InputterIInv, NEW next, worker.pc = "reading",
         \A i \in InputIndex : Carries(next, i) => Carries(worker, i)
  PROVE  \A i \in InputIndex : Carries(next, i) => i < past
BY DEF InputterIInv, WorkerFits

(* The worker with nothing on its way to it.                               *)
LEMMA EmptyWorkerFits ==
  ASSUME InputterIInv, NEW pc \in {"read", "watching", "failed"},
         pc # "failed" =>
           /\ worker.pc \notin {"dialed", "failed"}
           /\ \A i \in InputIndex : Carries(worker, i) => Dropped(i)
  PROVE  Fits(WorkerAt(pc), past)
<1> DEFINE next == WorkerAt(pc)
<1>1. /\ next \in WorkerState /\ next.pc = pc /\ next.done = FALSE
      /\ next.event = <<>> /\ next.held = <<>>
      /\ next.logs = <<>> /\ next.found = <<>>
  BY EmptyLists DEF WorkerAt, WorkerState
<1>2. next.pc \notin {"dialed", "failed"} =>
        \A i \in InputIndex : Due(i) => inputs[i] # "absent" \/ Carries(next, i)
  BY <1>1 DEF InputterIInv, NoLogIsLost, Due
<1> HIDE DEF next
<1>3. Fits(next, past)
  BY <1>1, <1>2, EmptyLists DEF Fits
<1> QED  BY <1>3 DEF next

(* When the iterator ends, and when the subscription begins, no log is on  *)
(* its way.                                                                *)
LEMMA PhaseKeeps ==
  ASSUME InputterIInv, PastInputsRead \/ WatchNewInputs \/ SubscriptionFails \/ Fail
  PROVE  InputterIInv'
<1>1. CASE PastInputsRead
  <2>1. /\ worker.pc = "reading" /\ worker.event = <<>> /\ worker.logs = <<>>
        /\ worker.found = <<>> /\ worker.held = <<>>
    BY <1>1 DEF PastInputsRead, InputterIInv, WorkerFits
  <2>2. \A i \in InputIndex : ~Carries(worker, i)
    BY <2>1, HoldsNothing DEF Carries
  <2> QED  BY <1>1, <2>1, <2>2, EmptyWorkerFits, WorkerStep DEF PastInputsRead
<1>2. CASE WatchNewInputs
  <2>1. /\ worker.pc = "read" /\ worker.event = <<>> /\ worker.logs = <<>>
        /\ worker.found = <<>> /\ worker.held = <<>>
    BY <1>2 DEF WatchNewInputs, InputterIInv, WorkerFits
  <2>2. \A i \in InputIndex : ~Carries(worker, i)
    BY <2>1, HoldsNothing DEF Carries
  <2> QED  BY <1>2, <2>1, <2>2, EmptyWorkerFits, WorkerStep DEF WatchNewInputs
<1>3. CASE SubscriptionFails \/ Fail
  BY <1>3, EmptyWorkerFits, WorkerStep DEF SubscriptionFails, Fail
<1> QED  BY <1>1, <1>2, <1>3

(* When the iterator fails, the log it failed at is not after any of those *)
(* on their way, and all were found by the query.                          *)
LEMMA NextFailsKeeps ==
  ASSUME InputterIInv, NextFails
  PROVE  InputterIInv'
<1> DEFINE log == Head(worker.logs)
<1>1. /\ worker.pc = "reading" /\ worker.event = <<>> /\ worker.logs # <<>>
      /\ log \in broken /\ LogsInOrder /\ WorkerFits
      /\ worker.held = <<>>
  BY DEF NextFails, InputterIInv, WorkerFits
<1>2. /\ log \in InputIndex /\ log = worker.logs[1] /\ 1 \in DOMAIN worker.logs
      /\ worker.logs \in Seq(InputIndex)
  BY <1>1, WorkerType, HeadAndTail DEF LogsInOrder, Ordered
<1> HIDE DEF log
<1>3. ASSUME NEW i \in InputIndex, Carries(worker, i)
      PROVE  Dropped(i)
  <2>1. CASE Holds(worker.logs, i)
    <3>1. PICK k \in DOMAIN worker.logs : worker.logs[k] = i
      BY <2>1 DEF Holds
    <3>2. k = 1 \/ 1 < k
      BY <1>2, <3>1
    <3>3. log = i \/ log < i
      BY <1>1, <1>2, <3>1, <3>2 DEF LogsInOrder, Ordered, Increasing
    <3> QED  BY <1>1, <1>2, <1>3, <3>3, IndexIsNat DEF Dropped, WorkerFits
  <2>2. CASE Holds(worker.found, i)
    <3>1. log < i
      BY <1>1, <1>2, <2>2 DEF Holds, LogsInOrder, Before
    <3> QED  BY <1>1, <1>2, <1>3, <3>1, IndexIsNat DEF Dropped, WorkerFits
  <2> QED  BY <1>1, <1>3, <2>1, <2>2, HoldsNothing DEF Carries
<1> QED  BY <1>1, <1>3, EmptyWorkerFits, WorkerStep DEF NextFails

LEMMA ReadPastInputsKeeps ==
  ASSUME InputterIInv, ReadPastInputs
  PROVE  InputterIInv'
<1> DEFINE list == [k \in 1 .. chain |-> k - 1]
           next == [WorkerAt("reading") EXCEPT !.found = list]
<1>1. chain \in Nat /\ \A k \in 1 .. chain : k - 1 \in InputIndex
  BY DEF InputterIInv, InputterTypeOK, OriginsFit
<1>2. list \in Seq(InputIndex) /\ DOMAIN list = 1 .. chain
  BY <1>1, SeqDef
<1>3. Ordered(list)
  <2>1. \A k \in 1 .. chain : list[k] = k - 1 /\ list[k] < chain
    BY <1>1
  <2>2. \A i \in InputIndex : origin[i] # life
    BY DEF ReadPastInputs, InputterIInv, WorkerFits
  <2> QED  BY <1>1, <1>2, <2>1, <2>2 DEF Ordered, Increasing
<1>4. ASSUME NEW i \in InputIndex, i < chain
      PROVE  Holds(list, i)
  <2>1. i + 1 \in 1 .. chain /\ (i + 1) - 1 = i
    BY <1>1, <1>4, IndexIsNat
  <2>2. list[i + 1] = i
    BY <2>1
  <2> QED  BY <1>2, <2>1, <2>2 DEF Holds
<1> HIDE DEF list
<1>5. /\ next \in WorkerState
      /\ next.pc = "reading" /\ next.found = list /\ next.done = FALSE
      /\ next.event = <<>> /\ next.held = <<>> /\ next.logs = <<>>
  BY <1>2, EmptyLists DEF WorkerAt, WorkerState
<1>6. \A i \in InputIndex : i < chain => Carries(next, i)
  BY <1>4, <1>5 DEF Carries
<1>7. \A i \in InputIndex : Carries(next, i) => i < chain
  BY <1>3, <1>5, HoldsNothing DEF Carries, Ordered, Holds
<1> HIDE DEF next
<1>8. Fits(next, chain)
  <2>1. \A i \in InputIndex : Due(i) => Carries(next, i)
    BY <1>6 DEF Due
  <2> QED  BY <1>3, <1>5, <1>7, <2>1, EmptyLists DEF Fits
<1>9. /\ worker' = next /\ past' = chain
      /\ UNCHANGED <<vars, chain, broken, missed, life, origin>>
  BY DEF ReadPastInputs, list, next
<1> QED  BY <1>1, <1>6, <1>8, <1>9, QueryStep

LEMMA SendFoundKeeps ==
  ASSUME InputterIInv, SendFound
  PROVE  InputterIInv'
<1> DEFINE log  == Head(worker.found)
           sent == Append(worker.logs, log)
           rest == Tail(worker.found)
           next == [worker EXCEPT !.found = rest, !.logs = sent]
<1>1. worker.found # <<>> /\ LogsInOrder /\ WorkerFits
  BY DEF SendFound, InputterIInv
<1>2. /\ log \in InputIndex /\ log = worker.found[1] /\ 1 \in DOMAIN worker.found
      /\ rest \in Seq(InputIndex) /\ Ordered(rest) /\ PartOf(rest, worker.found)
      /\ Before(<<log>>, rest)
  BY <1>1, WorkerType, HeadAndTail, OrderedPart DEF LogsInOrder, Ordered
<1>3. \A k \in DOMAIN worker.logs : worker.logs[k] < log
  BY <1>1, <1>2 DEF LogsInOrder, Before
<1>4. /\ sent \in Seq(InputIndex) /\ Increasing(sent)
      /\ \A k \in DOMAIN sent :
           (k \in DOMAIN worker.logs /\ sent[k] = worker.logs[k]) \/ sent[k] = log
  BY <1>1, <1>2, <1>3, WorkerType, AppendLog DEF LogsInOrder, Ordered
<1>5. Ordered(sent)
  BY <1>1, <1>2, <1>4 DEF LogsInOrder, Ordered
<1>6. Before(worker.event, sent) /\ Before(worker.held, sent)
  BY <1>1, <1>2, <1>4 DEF LogsInOrder, Before
<1>7. /\ Before(worker.event, rest) /\ Before(worker.held, rest)
      /\ Before(worker.logs, rest)
  BY <1>1, <1>2, PartsBefore DEF LogsInOrder
<1>8. Before(sent, rest)
  <2>1. \A l \in DOMAIN rest : log < rest[l]
    BY <1>2 DEF Before
  <2> QED  BY <1>4, <1>7, <2>1 DEF Before
<1>9. \A i : /\ Holds(worker.found, i) => Holds(sent, i) \/ Holds(rest, i)
             /\ Holds(worker.logs, i) => Holds(sent, i)
  <2>1. Holds(sent, log) /\ \A i : Holds(worker.logs, i) => Holds(sent, i)
    BY <1>2, WorkerType, HoldsAppended
  <2>2. \A i : Holds(worker.found, i) => Holds(<<log>>, i) \/ Holds(rest, i)
    BY <1>1, WorkerType, HoldsParts
  <2>3. \A i : Holds(<<log>>, i) => i = log
    BY DEF Holds
  <2> QED  BY <2>1, <2>2, <2>3
<1> HIDE DEF log, sent, rest
<1>10. Fits(next, past)
  <2>1. /\ next \in WorkerState /\ next.done = worker.done
        /\ next.pc = worker.pc /\ next.event = worker.event /\ next.held = worker.held
        /\ next.logs = sent /\ next.found = rest
    BY <1>2, <1>4, WorkerType DEF WorkerState
  <2>2. worker.pc \notin {"read", "watching"} /\ ~worker.done
    BY <1>1, WorkerType DEF WorkerFits, WorkerState
  <2>3. ASSUME next.pc = "reading"
        PROVE  \A i \in InputIndex : Carries(next, i) => i < past
    <3>1. \A i : Holds(sent, i) => Holds(worker.logs, i) \/ i = log
      BY <1>4 DEF Holds
    <3>2. \A i : Holds(rest, i) => Holds(worker.found, i)
      BY <1>2, HoldsPart
    <3>3. Holds(worker.found, log)
      BY <1>2 DEF Holds
    <3>4. \A i \in InputIndex : Carries(next, i) => Carries(worker, i)
      BY <2>1, <3>1, <3>2, <3>3 DEF Carries
    <3> QED  BY <2>1, <2>3, <3>4, StillFound
  <2>4. next.pc \notin {"dialed", "failed"} =>
          \A i \in InputIndex : Due(i) => inputs[i] # "absent" \/ Carries(next, i)
    <3>1. \A i \in InputIndex : Carries(worker, i) => Carries(next, i)
      BY <1>9, <2>1 DEF Carries
    <3> QED  BY <2>1, <3>1, StillCarried
  <2> HIDE DEF next
  <2> QED  BY <1>1, <1>2, <1>5, <1>6, <1>7, <1>8, <2>1, <2>2, <2>3, <2>4
           DEF Fits, LogsInOrder, WorkerFits
<1> QED  BY <1>10, WorkerStep DEF SendFound, log, sent, rest

(* The worker's next log, whether from the iterator or the subscription.   *)
LEMMA NextLogKeeps ==
  ASSUME InputterIInv, NextLog
  PROVE  InputterIInv'
<1> DEFINE log  == <<Head(worker.logs)>>
           rest == Tail(worker.logs)
           next == [worker EXCEPT !.event = log, !.logs = rest]
<1>1. /\ worker.pc = "reading" /\ worker.logs # <<>>
      /\ LogsInOrder /\ WorkerFits
  BY DEF NextLog, InputterIInv
<1>2. /\ log \in Seq(InputIndex) /\ Ordered(log) /\ PartOf(log, worker.logs)
      /\ rest \in Seq(InputIndex) /\ Ordered(rest) /\ PartOf(rest, worker.logs)
      /\ Before(log, rest)
  BY <1>1, WorkerType, HeadAndTail, OrderedPart DEF LogsInOrder, Ordered
<1>3. /\ Before(log, worker.found) /\ Before(rest, worker.found)
      /\ worker.held = <<>>
  BY <1>1, <1>2, PartsBefore DEF LogsInOrder, WorkerFits
<1>4. Len(log) = 1 /\ \A i : Holds(worker.logs, i) => Holds(log, i) \/ Holds(rest, i)
  BY <1>1, WorkerType, HoldsParts
<1> HIDE DEF log, rest
<1>5. /\ next \in WorkerState /\ next.done = worker.done
      /\ next.pc = worker.pc /\ next.event = log /\ next.held = worker.held
      /\ next.logs = rest /\ next.found = worker.found
  BY <1>2, WorkerType DEF WorkerState
<1>6. \A i \in InputIndex : Carries(worker, i) => Carries(next, i)
  <2>1. worker.event = <<>>
    BY DEF NextLog
  <2> QED  BY <1>4, <1>5, <2>1, HoldsNothing DEF Carries
<1>7. \A i \in InputIndex : Due(i) => inputs[i] # "absent" \/ Carries(next, i)
  BY <1>1, <1>6, StillCarried
<1>8. \A i \in InputIndex : Carries(next, i) => i < past
  <2>1. \A i : Holds(log, i) \/ Holds(rest, i) => Holds(worker.logs, i)
    BY <1>2, HoldsPart
  <2>2. \A i \in InputIndex : Carries(next, i) => Carries(worker, i)
    BY <1>5, <2>1 DEF Carries
  <2> QED  BY <1>1, <2>2, StillFound
<1> HIDE DEF next
<1>9. /\ Ordered(next.event) /\ Ordered(next.held)
      /\ Ordered(next.logs) /\ Ordered(next.found)
      /\ Before(next.event, next.held) /\ Before(next.event, next.logs)
      /\ Before(next.event, next.found)
      /\ Before(next.held, next.logs) /\ Before(next.held, next.found)
      /\ Before(next.logs, next.found)
  BY <1>1, <1>2, <1>3, <1>5, EmptyLists DEF LogsInOrder
<1>10. /\ Len(next.event) <= 1 /\ Len(next.held) <= 1 /\ next.held = <<>>
      /\ next.pc = "reading" /\ (next.done => next.found = <<>>)
  <2>1. Len(worker.held) <= 1 /\ (worker.done => worker.found = <<>>)
    BY <1>1 DEF WorkerFits
  <2>2. Len(log) <= 1
    BY <1>4
  <2>3. /\ next.event = log /\ next.held = worker.held /\ worker.held = <<>>
        /\ next.pc = "reading" /\ next.done = worker.done /\ next.found = worker.found
    BY <1>1, <1>3, <1>5
  <2> QED  BY <2>1, <2>2, <2>3
<1>11. Fits(next, past)
  BY <1>5, <1>7, <1>8, <1>9, <1>10 DEF Fits
<1> QED  BY <1>11, WorkerStep DEF NextLog, log, rest, next

LEMMA TakeLogKeeps ==
  ASSUME InputterIInv, TakeLog
  PROVE  InputterIInv'
<1> DEFINE log  == <<Head(worker.logs)>>
           rest == Tail(worker.logs)
           next == [worker EXCEPT !.held = log, !.logs = rest]
<1>1. /\ worker.pc = "watching" /\ worker.logs # <<>>
      /\ LogsInOrder /\ WorkerFits
  BY DEF TakeLog, InputterIInv
<1>2. /\ log \in Seq(InputIndex) /\ Ordered(log) /\ PartOf(log, worker.logs)
      /\ rest \in Seq(InputIndex) /\ Ordered(rest) /\ PartOf(rest, worker.logs)
      /\ Before(log, rest)
  BY <1>1, WorkerType, HeadAndTail, OrderedPart DEF LogsInOrder, Ordered
<1>3. Len(log) = 1 /\ \A i : Holds(worker.logs, i) => Holds(log, i) \/ Holds(rest, i)
  BY <1>1, WorkerType, HoldsParts
<1> HIDE DEF log, rest
<1>4. /\ Before(worker.event, log) /\ Before(worker.event, rest)
      /\ worker.found = <<>>
  BY <1>1, <1>2, PartsBefore DEF LogsInOrder, WorkerFits
<1>5. /\ next \in WorkerState /\ next.done = worker.done
      /\ next.pc = worker.pc /\ next.event = worker.event /\ next.held = log
      /\ next.logs = rest /\ next.found = worker.found
  BY <1>2, WorkerType DEF WorkerState
<1>6. \A i \in InputIndex : Carries(worker, i) => Carries(next, i)
  <2>1. worker.held = <<>>
    BY DEF TakeLog
  <2> QED  BY <1>3, <1>5, <2>1, HoldsNothing DEF Carries
<1>7. \A i \in InputIndex : Due(i) => inputs[i] # "absent" \/ Carries(next, i)
  BY <1>1, <1>6, StillCarried
<1> HIDE DEF next
<1>8. /\ Ordered(next.event) /\ Ordered(next.held)
      /\ Ordered(next.logs) /\ Ordered(next.found)
      /\ Before(next.event, next.held) /\ Before(next.event, next.logs)
      /\ Before(next.event, next.found)
      /\ Before(next.held, next.logs) /\ Before(next.held, next.found)
      /\ Before(next.logs, next.found)
  BY <1>1, <1>2, <1>4, <1>5, EmptyLists DEF LogsInOrder
<1>9. /\ Len(next.event) <= 1 /\ Len(next.held) <= 1
      /\ next.pc = "watching" /\ next.found = <<>>
  <2>1. Len(worker.event) <= 1
    BY <1>1 DEF WorkerFits
  <2>2. Len(log) <= 1
    BY <1>3
  <2>3. /\ next.event = worker.event /\ next.held = log
        /\ next.pc = "watching" /\ next.found = <<>>
    BY <1>1, <1>4, <1>5
  <2> QED  BY <2>1, <2>2, <2>3
<1>10. Fits(next, past)
  BY <1>5, <1>7, <1>8, <1>9 DEF Fits
<1> QED  BY <1>10, WorkerStep DEF TakeLog, log, rest, next

LEMMA NextDoneKeeps ==
  ASSUME InputterIInv, NextDone
  PROVE  InputterIInv'
<1> DEFINE next == [worker EXCEPT !.done = TRUE]
<1>1. worker.pc = "reading" /\ LogsInOrder /\ WorkerFits
  BY DEF NextDone, InputterIInv
<1>2. /\ next \in WorkerState
      /\ next.pc = worker.pc /\ next.event = worker.event /\ next.held = worker.held
      /\ next.logs = worker.logs /\ next.found = worker.found
  BY WorkerType DEF WorkerState
<1>3. \A i \in InputIndex : Due(i) => inputs[i] # "absent" \/ Carries(next, i)
  BY <1>1, <1>2, StillCarried DEF Carries
<1>4. worker.found = <<>>
  BY DEF NextDone
<1>5. \A i \in InputIndex : Carries(next, i) => i < past
  BY <1>1, <1>2, StillFound DEF Carries
<1> HIDE DEF next
<1>6. Fits(next, past)
  BY <1>1, <1>2, <1>3, <1>4, <1>5 DEF Fits, LogsInOrder, WorkerFits
<1> QED  BY <1>6, WorkerStep DEF NextDone, next

LEMMA HandOverKeeps ==
  ASSUME InputterIInv, HandOver
  PROVE  InputterIInv'
<1> DEFINE next == [worker EXCEPT !.event = worker.held, !.held = <<>>]
<1>1. worker.held # <<>> /\ LogsInOrder /\ WorkerFits
  BY DEF HandOver, InputterIInv
<1>2. worker.pc = "watching"
  BY <1>1 DEF WorkerFits
<1>3. /\ next \in WorkerState /\ next.done = worker.done
      /\ next.pc = worker.pc /\ next.event = worker.held /\ next.held = <<>>
      /\ next.logs = worker.logs /\ next.found = worker.found
  BY WorkerType, EmptyLists DEF WorkerState
<1>4. \A i \in InputIndex : Carries(worker, i) => Carries(next, i)
  <2>1. worker.event = <<>>
    BY DEF HandOver
  <2> QED  BY <1>3, <2>1, HoldsNothing DEF Carries
<1>5. \A i \in InputIndex : Due(i) => inputs[i] # "absent" \/ Carries(next, i)
  BY <1>2, <1>4, StillCarried
<1> HIDE DEF next
<1>6. Fits(next, past)
  BY <1>1, <1>2, <1>3, <1>5, EmptyLists DEF Fits, LogsInOrder, WorkerFits
<1> QED  BY <1>6, WorkerStep DEF HandOver, next

-----------------------------------------------------------------------------
(* The chain.                                                              *)

(* A new input is above all there were.                                    *)
LEMMA OrderedInLongerChain ==
  ASSUME InputterIInv, NEW s \in Seq(InputIndex), Ordered(s), AddInputToBox
  PROVE  Ordered(s)'
<1>1. chain \in Nat /\ chain' = chain + 1 /\ origin' = origin /\ life' = life
  BY DEF AddInputToBox, InputterIInv, InputterTypeOK
<1>2. \A k \in DOMAIN s : s[k] \in Nat
  BY IndexIsNat
<1>3. \A k \in DOMAIN s : s[k] < chain + 1
  BY <1>1, <1>2 DEF Ordered
<1> QED  BY <1>1, <1>3 DEF Ordered

LEMMA AddInputToBoxKeeps ==
  ASSUME InputterIInv, AddInputToBox
  PROVE  InputterIInv'
<1> DEFINE seen == worker.pc = "watching"
           new  == Append(worker.logs, chain)
<1>1. /\ chain \in InputIndex /\ chain \in Nat /\ chain' = chain + 1
      /\ UNCHANGED vars /\ UNCHANGED <<inputs, state>>
      /\ UNCHANGED <<life, origin>>
      /\ LogsInOrder /\ WorkerFits /\ OriginsFit
  BY IndexIsNat DEF AddInputToBox, InputterIInv, vars
<1>2. /\ worker'.pc = worker.pc /\ worker'.event = worker.event
      /\ worker'.done = worker.done
      /\ worker'.held = worker.held /\ worker'.found = worker.found
      /\ worker'.logs = IF seen THEN new ELSE worker.logs
  BY WorkerType DEF AddInputToBox, WorkerState
<1>3. /\ Ordered(worker.event)' /\ Ordered(worker.held)' /\ Ordered(worker.found)'
  BY <1>1, <1>2, OrderedInLongerChain, WorkerType DEF LogsInOrder, Ordered
<1>4. Ordered(worker.logs)'
  <2>1. CASE seen
    <3>1. \A k \in DOMAIN worker.logs : worker.logs[k] < chain
      BY <1>1 DEF LogsInOrder, Ordered
    <3>2. /\ Increasing(new)
          /\ \A k \in DOMAIN new :
               (k \in DOMAIN worker.logs /\ new[k] = worker.logs[k]) \/ new[k] = chain
      BY <1>1, <3>1, WorkerType, AppendLog DEF LogsInOrder, Ordered
    <3>3. \A k \in DOMAIN worker.logs : worker.logs[k] < chain + 1
      BY <1>1, <1>3, OrderedInLongerChain, WorkerType DEF LogsInOrder, Ordered
    <3> HIDE DEF new
    <3>4. \A k \in DOMAIN new : new[k] < chain + 1
      BY <1>1, <3>2, <3>3
    <3>5. \A k \in DOMAIN new, i \in InputIndex : origin[i] = life => i < new[k]
      BY <1>1, <3>2 DEF LogsInOrder, Ordered, OriginsFit
    <3> QED  BY <1>1, <1>2, <2>1, <3>2, <3>4, <3>5 DEF Ordered
  <2>2. CASE ~seen
    BY <1>1, <1>2, <2>2, OrderedInLongerChain, WorkerType DEF LogsInOrder, Ordered
  <2> QED  BY <2>1, <2>2
<1>5. Before(worker.event, worker.logs)' /\ Before(worker.held, worker.logs)'
  <2>1. CASE seen
    <3>1. \A k \in DOMAIN new :
            (k \in DOMAIN worker.logs /\ new[k] = worker.logs[k]) \/ new[k] = chain
      BY <1>1, WorkerType, AppendLog DEF LogsInOrder, Ordered
    <3> HIDE DEF new
    <3>2. Before(worker.event, new) /\ Before(worker.held, new)
      BY <1>1, <3>1 DEF LogsInOrder, Ordered, Before
    <3> QED  BY <1>2, <2>1, <3>2 DEF Before
  <2>2. CASE ~seen
    BY <1>1, <1>2, <2>2 DEF LogsInOrder, Before
  <2> QED  BY <2>1, <2>2
<1>6. Before(worker.logs, worker.found)'
  <2>1. CASE seen
    BY <1>1, <1>2, <2>1 DEF WorkerFits, Before
  <2>2. CASE ~seen
    BY <1>1, <1>2, <2>2 DEF LogsInOrder, Before
  <2> QED  BY <2>1, <2>2
<1>7. LogsInOrder'
  <2>1. /\ Before(worker.event, worker.held)' /\ Before(worker.event, worker.found)'
        /\ Before(worker.held, worker.found)'
    BY <1>1, <1>2 DEF LogsInOrder, Before
  <2> QED  BY <1>3, <1>4, <1>5, <1>6, <2>1 DEF LogsInOrder
<1>8. IInv'
  BY <1>1, StutterKeeps DEF InputterIInv
<1>9. InputterTypeOK'
  <2>1. worker' \in WorkerState
    <3>1. CASE seen
      <4>1. new \in Seq(InputIndex)
        BY <1>1, WorkerType, AppendProperties
      <4>2. worker' = [worker EXCEPT !.logs = new]
        BY <3>1 DEF AddInputToBox
      <4> HIDE DEF new
      <4> QED  BY <4>1, <4>2, WorkerType DEF WorkerState
    <3>2. CASE ~seen
      BY <3>2, WorkerType DEF AddInputToBox
    <3> QED  BY <3>1, <3>2
  <2>2. missed' \subseteq InputIndex /\ broken' \subseteq InputIndex /\ past' \in Nat
    BY <1>1 DEF AddInputToBox, InputterIInv, InputterTypeOK
  <2> QED  BY <1>1, <1>8, <2>1, <2>2 DEF InputterIInv, InputterTypeOK, IInv
<1>10. WorkerFits'
  <2>1. past' = past
    BY DEF AddInputToBox
  <2>2. ASSUME worker.pc = "reading", NEW i \in InputIndex, Carries(worker, i)'
        PROVE  Carries(worker, i)
    BY <1>2, <2>2 DEF Carries, Holds
  <2>3. worker'.pc = "reading" => \A i \in InputIndex : Carries(worker, i)' => i < past'
    BY <1>1, <1>2, <2>1, <2>2 DEF WorkerFits
  <2> QED  BY <1>1, <1>2, <2>3 DEF WorkerFits
<1>11. OriginsFit'
  <2>1. 0 .. chain \subseteq InputIndex /\ (chain + 1) - 1 = chain
    BY <1>1, InputterAssumption
  <2>2. ASSUME NEW i \in InputIndex, origin[i] = life PROVE i < chain + 1
    BY <1>1, <2>2, IndexIsNat DEF OriginsFit
  <2> QED  BY <1>1, <2>1, <2>2 DEF OriginsFit
<1>12. FirstOfItsLife' /\ DecidedInOrder'
  BY <1>1 DEF InputterIInv, FirstOfItsLife, DecidedInOrder
<1>13. NoLogIsLost'
  <2>1. missed' = IF worker.pc \in {"reading", "read"} THEN missed \cup {chain} ELSE missed
    BY DEF AddInputToBox
  <2>2. ASSUME NEW i \in InputIndex, worker.pc \notin {"dialed", "failed"},
               i < chain + 1, i \notin missed', ~Dropped(i)
        PROVE  inputs[i] # "absent" \/ Carries(worker, i)'
    <3>1. CASE i = chain
      <4>1. worker.pc = "watching"
        BY <2>1, <2>2, <3>1, WorkerType DEF WorkerState
      <4>2. Holds(new, chain)
        BY <1>1, WorkerType, HoldsAppended
      <4> HIDE DEF new
      <4> QED  BY <1>2, <3>1, <4>1, <4>2 DEF Carries, Holds
    <3>2. CASE i # chain
      <4>1. i < chain /\ i \notin missed
        BY <1>1, <2>1, <2>2, <3>2, IndexIsNat
      <4>2. inputs[i] # "absent" \/ Carries(worker, i)
        BY <2>2, <4>1 DEF InputterIInv, NoLogIsLost, Due
      <4>3. Holds(worker.logs, i) => Holds(new, i)
        BY <1>1, WorkerType, HoldsAppended
      <4> HIDE DEF new
      <4> QED  BY <1>2, <4>2, <4>3 DEF Carries, Holds
    <3> QED  BY <3>1, <3>2
  <2>3. past' = past /\ broken \subseteq broken'
    BY DEF AddInputToBox
  <2>4. \A i : Dropped(i) => Dropped(i)'
    BY <2>3 DEF Dropped
  <2> QED  BY <1>1, <1>2, <2>2, <2>4 DEF NoLogIsLost, Due
<1> QED  BY <1>7, <1>8, <1>9, <1>10, <1>11, <1>12, <1>13 DEF InputterIInv

-----------------------------------------------------------------------------
(* The model.                                                              *)

(* A log is added: what the model holds of this life is below it.          *)
LEMMA AddInputKeeps ==
  ASSUME InputterIInv, AddInput
  PROVE  InputterIInv'
<1> DEFINE i == Head(worker.event)
<1>1. /\ worker.event # <<>>
      /\ i \in InputIndex /\ i = worker.event[1] /\ 1 \in DOMAIN worker.event
      /\ LogsInOrder /\ WorkerFits /\ OriginsFit /\ IInv /\ InputterTypeOK /\ TypeOK
  BY WorkerType, HeadAndTail DEF AddInput, InputterIInv, LogsInOrder, Ordered, IInv
<1>2. i < chain /\ \A j \in InputIndex : origin[j] = life => j < i
  BY <1>1 DEF LogsInOrder, Ordered
<1>3. /\ worker' = [worker EXCEPT !.event = <<>>]
      /\ origin' = [origin EXCEPT ![i] = IF @ = 0 THEN life ELSE @]
      /\ UNCHANGED <<chain, broken, past, missed, life>>
      /\ AddAdvanceInput(i) \/ (inputs[i] # "absent" /\ UNCHANGED vars)
  BY DEF AddInput
<1> HIDE DEF i
<1>4. IInv'
  BY <1>1, <1>3, AddAdvanceInputKeeps, StutterKeeps
<1>5. /\ origin \in [InputIndex -> 0 .. MaxLives] /\ life \in 1 .. MaxLives
      /\ inputs \in [InputIndex -> {"absent"} \cup Status]
      /\ MaxLives \in Nat /\ chain \in Nat
  BY <1>1, InputterAssumption DEF InputterTypeOK, TypeOK
<1>6. /\ \A j \in InputIndex : j # i => origin'[j] = origin[j] /\ inputs'[j] = inputs[j]
      /\ state' = state
      /\ \/ /\ inputs[i] = "absent" /\ inputs'[i] = "unprocessed"
            /\ origin[i] = 0 /\ origin'[i] = life
         \/ inputs[i] # "absent" /\ inputs'[i] = inputs[i] /\ origin'[i] = origin[i]
  <2>1. CASE AddAdvanceInput(i)
    BY <1>1, <1>3, <1>5, <2>1 DEF AddAdvanceInput, OriginsFit
  <2>2. CASE inputs[i] # "absent" /\ UNCHANGED vars
    BY <1>1, <1>3, <1>5, <2>2 DEF vars, OriginsFit
  <2> QED  BY <1>3, <2>1, <2>2
<1>7. /\ worker' \in WorkerState
      /\ worker'.event = <<>> /\ worker'.pc = worker.pc
      /\ worker'.held = worker.held /\ worker'.logs = worker.logs
      /\ worker'.found = worker.found /\ worker'.done = worker.done
  BY <1>3, WorkerType, EmptyLists DEF WorkerState
<1>8. ASSUME NEW s, Ordered(s), Before(worker.event, s)
      PROVE  Ordered(s)'
  <2>1. \A k \in DOMAIN s : i < s[k]
    BY <1>1, <1>8 DEF Before
  <2>2. \A k \in DOMAIN s, j \in InputIndex : origin'[j] = life => j < s[k]
    BY <1>6, <1>8, <2>1 DEF Ordered
  <2> QED  BY <1>3, <1>8, <2>2 DEF Ordered
<1>9. LogsInOrder'
  <2>1. /\ Ordered(worker.held)' /\ Ordered(worker.logs)' /\ Ordered(worker.found)'
    BY <1>1, <1>7, <1>8 DEF LogsInOrder, Ordered
  <2>2. Ordered(worker.event)'
    BY <1>7 DEF Ordered, Increasing
  <2>3. /\ \A s : Before(<<>>, s)
        /\ Before(worker.held, worker.logs)' /\ Before(worker.held, worker.found)'
        /\ Before(worker.logs, worker.found)'
    BY <1>1, <1>7, EmptyLists DEF LogsInOrder, Before
  <2> QED  BY <1>7, <2>1, <2>2, <2>3 DEF LogsInOrder, Before
<1>10. InputterTypeOK'
  <2>1. origin' \in [InputIndex -> 0 .. MaxLives]
    <3>1. life \in 0 .. MaxLives
      BY <1>5
    <3>2. \A j \in InputIndex : origin'[j] \in 0 .. MaxLives
      BY <1>5, <1>6, <3>1
    <3> QED  BY <1>3, <1>5, <3>1, <3>2
  <2>2. TypeOK'
    BY <1>4 DEF IInv
  <2>3. worker' \in WorkerState
    BY <1>7
  <2>4. /\ chain' \in Nat /\ broken' \subseteq InputIndex /\ past' \in Nat
        /\ missed' \subseteq InputIndex /\ life' \in 1 .. MaxLives
    BY <1>1, <1>3 DEF InputterTypeOK
  <2> QED  BY <2>1, <2>2, <2>3, <2>4 DEF InputterTypeOK
<1>11. WorkerFits'
  <2>1. \A j \in InputIndex : Carries(worker, j)' => Carries(worker, j)
    BY <1>7, HoldsNothing DEF Carries, Holds
  <2>2. worker'.pc = "reading" => \A j \in InputIndex : Carries(worker, j)' => j < past'
    BY <1>1, <1>3, <1>7, <2>1 DEF WorkerFits
  <2> QED  BY <1>1, <1>3, <1>7, <2>2 DEF WorkerFits
<1>12. OriginsFit'
  <2>1. ASSUME NEW j \in InputIndex
        PROVE  /\ origin'[j] # 0 <=> inputs'[j] # "absent"
               /\ origin'[j] <= life
               /\ origin'[j] = life => j < chain
    BY <1>1, <1>2, <1>5, <1>6 DEF OriginsFit
  <2> QED  BY <1>1, <1>3, <2>1 DEF OriginsFit
<1>13. ASSUME NEW j \in InputIndex, NEW k \in InputIndex,
              j < k, origin'[j] = origin'[k], inputs[k] # "absent"
       PROVE  inputs'[j] = inputs[j] /\ origin[j] = origin[k]
  <2>1. origin'[k] = origin[k]
    BY <1>6, <1>13
  <2>2. CASE j = i /\ inputs[i] = "absent"
    <3>1. k < j
      BY <1>2, <1>6, <1>13, <2>1, <2>2
    <3> QED  BY <1>13, <3>1, IndexIsNat
  <2>3. CASE j # i \/ inputs[i] # "absent"
    BY <1>6, <1>13, <2>1, <2>3
  <2> QED  BY <2>2, <2>3
<1>14. FirstOfItsLife'
  <2>1. state.mode = "advance" =>
          state.input \in InputIndex /\ inputs[state.input] = "unprocessed"
    BY <1>1 DEF IInv, InProgressIsPending
  <2> QED  BY <1>6, <1>13, <2>1 DEF InputterIInv, FirstOfItsLife
<1>15. DecidedInOrder'
  <2>1. ASSUME NEW j \in InputIndex, NEW k \in InputIndex, j < k,
               origin'[j] # 0, origin'[j] = origin'[k], inputs'[k] \in Verdict
        PROVE  inputs'[j] \in Verdict
    <3>1. inputs[k] # "absent" /\ inputs[k] \in Verdict
      BY <1>6, <2>1 DEF Verdict
    <3>2. inputs'[j] = inputs[j] /\ origin[j] = origin[k] /\ origin[j] # 0
      BY <1>6, <1>13, <2>1, <3>1
    <3> QED  BY <2>1, <3>1, <3>2 DEF InputterIInv, DecidedInOrder
  <2> QED  BY <2>1 DEF DecidedInOrder
<1>16. NoLogIsLost'
  <2>1. ASSUME NEW j \in InputIndex, worker.pc \notin {"dialed", "failed"},
               Due(j), inputs'[j] = "absent"
        PROVE  Carries(worker, j)'
    <3>1. j # i /\ inputs[j] = "absent"
      BY <1>6, <2>1
    <3>2. Carries(worker, j)
      BY <2>1, <3>1 DEF InputterIInv, NoLogIsLost
    <3>3. ~Holds(worker.event, j)
      BY <1>1, <3>1, WorkerType, HoldsFirst DEF WorkerFits, i
    <3> QED  BY <1>7, <3>2, <3>3 DEF Carries, Holds
  <2>2. \A j : Due(j)' <=> Due(j)
    BY <1>3 DEF Due, Dropped
  <2> QED  BY <1>3, <1>7, <2>1, <2>2 DEF NoLogIsLost
<1> QED  BY <1>4, <1>9, <1>10, <1>11, <1>12, <1>14, <1>15, <1>16 DEF InputterIInv

(* A request ends: the next is the first of all that are not decided.      *)
LEMMA ProcessKeeps ==
  ASSUME InputterIInv, Process
  PROVE  InputterIInv'
<1>1. /\ IInv /\ InputterTypeOK /\ LogsInOrder /\ WorkerFits /\ OriginsFit
      /\ UNCHANGED <<chain, broken, past, missed, worker, life, origin>>
  BY DEF InputterIInv, Process
<1>2. IInv' /\ TypeOK'
  <2>1. [Next]_vars
    BY DEF Process, Next
  <2> QED  BY <1>1, <2>1, NextKeeps DEF IInv
<1>3. \A i \in InputIndex :
        \/ inputs'[i] = inputs[i]
        \/ /\ state.mode = "advance" /\ i = state.input
           /\ inputs[i] = "unprocessed" /\ inputs'[i] \in Verdict
  BY <1>1 DEF Process, FinishAndGetNext, IdleFinish, AdvanceFinish, InspectFinish,
              RegisterException, AdvanceException, tables, Verdict,
              IInv, TypeOK, InProgressIsPending
<1>4. InputterTypeOK' /\ LogsInOrder' /\ WorkerFits'
  BY <1>1, <1>2
     DEF InputterTypeOK, LogsInOrder, Ordered, Increasing, Before, WorkerFits,
         Carries, Holds
<1>5. OriginsFit'
  BY <1>1, <1>3 DEF OriginsFit, Verdict
<1>6. DecidedInOrder'
  <2>1. ASSUME NEW i \in InputIndex, NEW j \in InputIndex, i < j,
               origin[i] # 0, origin[i] = origin[j], inputs'[j] \in Verdict
        PROVE  inputs[i] \in Verdict
    BY <1>3, <2>1 DEF InputterIInv, DecidedInOrder, FirstOfItsLife
  <2>2. \A i \in InputIndex : inputs[i] \in Verdict => inputs'[i] \in Verdict
    BY <1>3
  <2> QED  BY <1>1, <2>1, <2>2 DEF DecidedInOrder
<1>7. FirstOfItsLife'
  <2>1. CASE RegisterException
    BY <2>1 DEF RegisterException, RollupsStateIdle, Working, FirstOfItsLife
  <2>2. CASE IsNext(state', inputs', inspects') /\ state'.mode = "advance"
    <3>1. PICK j \in InputIndex :
            /\ inputs'[j] = "unprocessed" /\ state'.input = j
            /\ \A i \in InputIndex : inputs'[i] = "unprocessed" => j <= i
      BY <2>2 DEF IsNext, IsLeast, RollupsStateInspect, RollupsStateAdvance,
                  RollupsStateIdle, Working
    <3>2. ASSUME NEW i \in InputIndex, i < j, origin[i] = origin[j]
          PROVE  inputs'[i] \in Verdict
      <4>1. inputs'[i] # "unprocessed"
        BY <3>1, <3>2, IndexIsNat
      <4>2. inputs'[i] # "absent"
        BY <1>1, <1>5, <3>1, <3>2 DEF OriginsFit
      <4> QED  BY <1>2, <4>1, <4>2 DEF TypeOK, Status
    <3> QED  BY <1>1, <3>1, <3>2 DEF FirstOfItsLife
  <2> QED  BY <2>1, <2>2 DEF Process, FinishAndGetNext, FirstOfItsLife
<1>8. NoLogIsLost'
  <2>1. \A i \in InputIndex : inputs[i] # "absent" => inputs'[i] # "absent"
    BY <1>3 DEF Verdict
  <2> QED  BY <1>1, <2>1 DEF InputterIInv, NoLogIsLost, Carries, Holds, Due, Dropped
<1> QED  BY <1>2, <1>4, <1>5, <1>6, <1>7, <1>8 DEF InputterIInv

(* The next life: the chain is new, and nothing that is stored is of it.   *)
LEMMA StartAgainKeeps ==
  ASSUME InputterIInv, StartAgain
  PROVE  InputterIInv'
<1>1. /\ IInv /\ InputterTypeOK /\ WorkerFits /\ OriginsFit
      /\ chain' = 0 /\ broken' = {} /\ past' = 0 /\ missed' = {}
      /\ worker' = WorkerAt("dialed")
      /\ life' = life + 1 /\ origin' = origin /\ inputs' = inputs
      /\ state' = RollupsStateIdle /\ life < MaxLives
  BY DEF InputterIInv, StartAgain, Restart, tables, WorkerFits
<1>2. IInv' /\ TypeOK'
  BY <1>1, RestartKeeps DEF StartAgain, IInv
<1>3. /\ worker' \in WorkerState /\ worker'.pc = "dialed" /\ worker'.done = FALSE
      /\ worker'.event = <<>> /\ worker'.held = <<>>
      /\ worker'.logs = <<>> /\ worker'.found = <<>>
  BY <1>1, EmptyLists DEF WorkerAt, WorkerState
<1>4. life \in 1 .. MaxLives /\ origin \in [InputIndex -> 0 .. MaxLives]
  BY <1>1 DEF InputterTypeOK
<1>5. \A i \in InputIndex : origin[i] <= life + 1 /\ origin[i] # life + 1
  BY <1>1, <1>4, InputterAssumption DEF OriginsFit
<1>6. InputterTypeOK'
  BY <1>1, <1>2, <1>3, <1>4, InputterAssumption DEF InputterTypeOK
<1>7. LogsInOrder' /\ WorkerFits'
  BY <1>1, <1>3, <1>5 DEF LogsInOrder, Ordered, Increasing, Before, WorkerFits
<1>8. OriginsFit'
  BY <1>1, <1>5 DEF OriginsFit
<1>9. FirstOfItsLife' /\ DecidedInOrder'
  BY <1>1 DEF FirstOfItsLife, RollupsStateIdle, Working, InputterIInv, DecidedInOrder
<1>10. NoLogIsLost'
  BY <1>3 DEF NoLogIsLost
<1> QED  BY <1>2, <1>6, <1>7, <1>8, <1>9, <1>10 DEF InputterIInv

-----------------------------------------------------------------------------
(* The theorems.                                                           *)

LEMMA InputterInitFits == InputterInit => InputterIInv
<1> SUFFICES ASSUME InputterInit PROVE InputterIInv
  OBVIOUS
<1>1. IInv /\ TypeOK
  BY InitFits DEF InputterInit, IInv
<1>2. /\ chain = 0 /\ broken = {} /\ past = 0 /\ missed = {} /\ worker = WorkerAt("dialed") /\ life = 1
      /\ origin = [i \in InputIndex |-> 0]
      /\ inputs = [i \in InputIndex |-> "absent"] /\ state = RollupsStateIdle
  BY DEF InputterInit, Init
<1>3. /\ worker \in WorkerState /\ worker.pc = "dialed" /\ worker.done = FALSE
      /\ worker.event = <<>> /\ worker.held = <<>>
      /\ worker.logs = <<>> /\ worker.found = <<>>
  BY <1>2, EmptyLists DEF WorkerAt, WorkerState
<1>4. InputterTypeOK
  BY <1>1, <1>2, <1>3, InputterAssumption DEF InputterTypeOK
<1>5. LogsInOrder /\ WorkerFits /\ OriginsFit
  BY <1>2, <1>3 DEF LogsInOrder, Ordered, Increasing, Before, WorkerFits, OriginsFit
<1>6. FirstOfItsLife /\ DecidedInOrder
  BY <1>2 DEF FirstOfItsLife, RollupsStateIdle, Working, DecidedInOrder
<1>7. NoLogIsLost
  BY <1>3 DEF NoLogIsLost
<1> QED  BY <1>1, <1>4, <1>5, <1>6, <1>7 DEF InputterIInv

LEMMA InputterNextKeeps == InputterIInv /\ [InputterNext]_inputterVars => InputterIInv'
<1> SUFFICES ASSUME InputterIInv, [InputterNext]_inputterVars PROVE InputterIInv'
  OBVIOUS
<1>1. CASE AddInputToBox
  BY <1>1, AddInputToBoxKeeps
<1>2. CASE Work
  BY <1>2, ReadPastInputsKeeps, SendFoundKeeps, NextLogKeeps, NextDoneKeeps, PhaseKeeps,
     NextFailsKeeps, TakeLogKeeps, HandOverKeeps, AddInputKeeps DEF Work
<1>3. CASE Fail
  BY <1>3, PhaseKeeps
<1>4. CASE StartAgain
  BY <1>4, StartAgainKeeps
<1>5. CASE Process
  BY <1>5, ProcessKeeps
<1>6. CASE UNCHANGED inputterVars
  <2>1. IInv'
    BY <1>6, StutterKeeps DEF inputterVars, InputterIInv
  <2> QED  BY <1>6, <2>1
           DEF inputterVars, vars, InputterIInv, InputterTypeOK, IInv, LogsInOrder, Ordered,
               Increasing, Before, WorkerFits, OriginsFit, FirstOfItsLife, DecidedInOrder,
               NoLogIsLost, Carries, Holds, Due, Dropped
<1> QED  BY <1>1, <1>2, <1>3, <1>4, <1>5, <1>6 DEF InputterNext

(* The inductive invariant holds in every behaviour.                       *)
THEOREM InputterInvariance == InputterSpec => []InputterIInv
BY InputterInitFits, InputterNextKeeps, PTL DEF InputterSpec

(* Every variable of the worker and the chain keeps its type.              *)
THEOREM InputterTypeCorrect == InputterSpec => []InputterTypeOK
<1>1. InputterIInv => InputterTypeOK
  BY DEF InputterIInv
<1> QED  BY <1>1, InputterInvariance, PTL

(* Of the logs of a life only those between its query and its subscription *)
(* can be lost, and those the query found behind one that does not decode: *)
(* any other is stored or in the hands of a goroutine.                     *)
THEOREM NoLogLost == InputterSpec => []NoLogIsLost
<1>1. InputterIInv => NoLogIsLost
  BY DEF InputterIInv
<1> QED  BY <1>1, InputterInvariance, PTL

(* What one life of the process stored is decided in the order of the box. *)
THEOREM DecidedInOrderAlways == InputterSpec => []DecidedInOrder
<1>1. InputterIInv => DecidedInOrder
  BY DEF InputterIInv
<1> QED  BY <1>1, InputterInvariance, PTL
=============================================================================
