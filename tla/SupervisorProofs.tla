-------------------------- MODULE SupervisorProofs --------------------------
(***************************************************************************)
(* Proofs about Supervisor for any number of workers of either kind: the   *)
(* inductive invariant, the order of starting, and who can be stranded.    *)
(***************************************************************************)
EXTENDS Supervisor, TLAPS

(* Nothing is started in the initial state.                                *)
LEMMA InitFits == Init => IInv
<1>. SUFFICES ASSUME Init
              PROVE  IInv
  OBVIOUS
<1>1. current = 1 /\ 1 \in 1 .. N + 1 /\ \A k \in Worker : k \in Nat /\ k >= 1
  BY SupervisorAssumption DEF Init, Worker
<1>2. TypeOK
  BY <1>1 DEF Init, TypeOK
<1>3. LoopFits
  <2>1. \A k \in Worker : k > 1 \/ k = 1
    BY <1>1
  <2>. QED
    BY <1>1, <2>1 DEF Init, LoopFits
<1>4. PollersFit
  BY DEF Init, PollersFit
<1>. QED
  BY <1>2, <1>3, <1>4 DEF IInv

(* Every step of the supervisor's goroutine keeps the invariant.           *)
LEMMA SuperviseKeeps ==
  ASSUME IInv, Supervise
  PROVE  IInv'
<1>. USE SupervisorAssumption DEF IInv, TypeOK, LoopFits, PollersFit, Worker
<1>1. CASE StartWorker
  BY <1>1 DEF StartWorker
<1>2. CASE LoopDone
  BY <1>2 DEF LoopDone
<1>3. CASE ReceiveReady
  BY <1>3 DEF ReceiveReady
<1>4. CASE StartTimeout
  BY <1>4 DEF StartTimeout
<1>5. CASE StartCancelled
  BY <1>5 DEF StartCancelled
<1>6. CASE ContextDone
  BY <1>6 DEF ContextDone
<1>7. CASE AllExited
  BY <1>7 DEF AllExited
<1>8. CASE WaitTimeout
  BY <1>8 DEF WaitTimeout
<1>. QED
  BY <1>1, <1>2, <1>3, <1>4, <1>5, <1>6, <1>7, <1>8 DEF Supervise

(* Every step of a worker or its poller keeps the invariant.               *)
LEMMA WorkerStepKeeps ==
  ASSUME IInv, NEW k \in Worker, WorkerStep(k)
  PROVE  IInv'
<1>. USE SupervisorAssumption DEF IInv, TypeOK, LoopFits, PollersFit, Worker
<1>1. CASE SetUp(k)
  BY <1>1 DEF SetUp
<1>2. CASE Exit(k)
  BY <1>2 DEF Exit
<1>3. CASE CommandReady(k)
  BY <1>3 DEF CommandReady
<1>4. CASE PortAnswers(k)
  BY <1>4 DEF PortAnswers
<1>5. CASE PollerCancelled(k)
  BY <1>5 DEF PollerCancelled
<1>. QED
  BY <1>1, <1>2, <1>3, <1>4, <1>5 DEF WorkerStep

LEMMA NextKeeps == IInv /\ [Next]_vars => IInv'
<1>. SUFFICES ASSUME IInv, [Next]_vars
              PROVE  IInv'
  OBVIOUS
<1>1. CASE Supervise
  BY <1>1, SuperviseKeeps
<1>2. CASE \E k \in Worker : WorkerStep(k)
  BY <1>2, WorkerStepKeeps
<1>3. CASE Signal
  BY <1>3 DEF Signal, IInv, TypeOK, LoopFits, PollersFit, Worker
<1>4. CASE UNCHANGED vars
  BY <1>4 DEF vars, IInv, TypeOK, LoopFits, PollersFit, Worker
<1>. QED
  BY <1>1, <1>2, <1>3, <1>4 DEF Next

(* The loop, the workers and their pollers agree in every reachable state. *)
THEOREM Invariance == Spec => []IInv
BY InitFits, NextKeeps, PTL DEF Spec

(* The invariant implies the order of starting.                            *)
LEMMA FitsImpliesOrder == IInv => EarlierAreUp
<1>. SUFFICES ASSUME IInv, NEW j \in Worker, NEW k \in Worker,
                     j < k, worker[k] # "none"
              PROVE  worker[j] = "running" \/ (worker[j] = "exited" /\ cancelled)
  BY DEF EarlierAreUp
<1>1. ~(k > current)
  BY DEF IInv, LoopFits
<1>2. j < current
  BY <1>1, SupervisorAssumption DEF IInv, TypeOK, Worker
<1>. QED
  BY <1>2 DEF IInv, LoopFits

(* Workers are started in order, each after those before it are up         *)
(* (SupervisorWorker.Start), for any number of workers.                    *)
THEOREM StartedInOrder == Spec => []EarlierAreUp
BY Invariance, FitsImpliesOrder, PTL

(* The invariant implies that only the last worker can be stranded.        *)
LEMMA FitsImpliesStranded == IInv => StrandedOnlyAtTheEnd
<1>. SUFFICES ASSUME IInv, NEW k \in Worker, Stranded(k)
              PROVE  cancelled /\ \A j \in Worker : j > k => worker[j] = "none"
  BY DEF StrandedOnlyAtTheEnd
<1>. USE SupervisorAssumption DEF IInv, TypeOK, Worker
<1>1. k = current /\ pc # "starting"
  BY DEF Stranded, LoopFits
<1>2. cancelled
  <2>1. CASE k \in Server
    BY <2>1, <1>1 DEF Stranded, PollersFit
  <2>2. CASE k \notin Server
    BY <2>2, <1>1 DEF Stranded, LoopFits
  <2>. QED
    BY <2>1, <2>2
<1>3. ASSUME NEW j \in Worker, j > k
      PROVE  worker[j] = "none"
  BY <1>1, <1>3 DEF LoopFits
<1>. QED
  BY <1>2, <1>3

(* A worker blocks for ever on ready only while all are ending, and only   *)
(* the one started last, for any number of workers.                        *)
THEOREM StrandedLast == Spec => []StrandedOnlyAtTheEnd
BY Invariance, FitsImpliesStranded, PTL
=============================================================================
