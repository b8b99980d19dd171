----------------------------- MODULE Supervisor -----------------------------
(***************************************************************************)
(* The supervisor (supervisor.go) and the goroutines of its workers: how   *)
(* they are started one after the other, how one that exits or a signal    *)
(* ends all, and who waits for whom on which channel.                      *)
(*                                                                         *)
(* The HTTP worker and the inputter send on the channel ready themselves.  *)
(* A server worker (anvil) has a second goroutine, the poller, that waits  *)
(* for its command on a channel of its own, polls the port and then sends  *)
(* ready.  Both channels are unbuffered, and a send on them is not in a    *)
(* select: it blocks until someone receives.  The channel of main on which *)
(* the supervisor is ready has a buffer and never blocks it.               *)
(*                                                                         *)
(* Timers may fire at any time.  When the supervisor returns so does main. *)
(***************************************************************************)
EXTENDS Naturals

CONSTANTS
  N,        \* number of workers
  Server    \* those that are server workers

ASSUME SupervisorAssumption ==
  /\ N \in Nat
  /\ Server \subseteq 1 .. N

VARIABLES
  cancelled,  \* the context of the workers is done
  pc,         \* where SupervisorWorker.Start is
  current,    \* the worker its loop is at; N + 1 after the last
  worker,     \* where the Start of each worker is
  poller      \* where the second goroutine of each server worker is

vars == <<cancelled, pc, current, worker, poller>>

Worker == 1 .. N

-----------------------------------------------------------------------------
(* The supervisor                                                          *)

StartWorker ==
  /\ pc = "starting" /\ current \in Worker
  /\ worker' = [worker EXCEPT ![current] = "setup"]
  /\ pc' = "awaiting"
  /\ UNCHANGED <<cancelled, current, poller>>

(* All have been started: the loop ends.                                   *)
LoopDone ==
  /\ pc = "starting" /\ current \notin Worker
  /\ pc' = "started"
  /\ UNCHANGED <<cancelled, current, worker, poller>>

(* The sender goes on: a server worker's poller ends, any other works.     *)
ReceiveReady ==
  /\ pc = "awaiting"
  /\ \/ /\ current \in Server /\ poller[current] = "ready"
        /\ poller' = [poller EXCEPT ![current] = "gone"]
        /\ UNCHANGED worker
     \/ /\ current \notin Server /\ worker[current] = "sending"
        /\ worker' = [worker EXCEPT ![current] = "running"]
        /\ UNCHANGED poller
  /\ pc' = "starting"
  /\ current' = current + 1
  /\ UNCHANGED cancelled

(* Faulty variant: the context is not cancelled.                           *)
StartTimeoutNoCancel ==
  /\ pc = "awaiting"
  /\ pc' = "started"
  /\ UNCHANGED <<cancelled, current, worker, poller>>

(* Faulty variant: the loop is not left.                                   *)
StartTimeoutGoesOn ==
  /\ pc = "awaiting"
  /\ cancelled' = TRUE
  /\ pc' = "starting"
  /\ current' = current + 1
  /\ UNCHANGED <<worker, poller>>

StartTimeout ==
  /\ pc = "awaiting"
  /\ cancelled' = TRUE
  /\ pc' = "started"
  /\ UNCHANGED <<current, worker, poller>>

(* The select picks any case that is ready, so a worker that is ready may  *)
(* still be received from after the context was cancelled.                 *)
StartCancelled ==
  /\ pc = "awaiting" /\ cancelled
  /\ pc' = "started"
  /\ UNCHANGED <<cancelled, current, worker, poller>>

(* Ready is sent to main, whether or not all workers are, and then the     *)
(* context awaited.                                                        *)
ContextDone ==
  /\ pc = "started" /\ cancelled
  /\ pc' = "waiting"
  /\ UNCHANGED <<cancelled, current, worker, poller>>

AllExited ==
  /\ pc = "waiting"
  /\ \A k \in Worker : worker[k] \in {"none", "exited"}
  /\ pc' = "returned"
  /\ UNCHANGED <<cancelled, current, worker, poller>>

WaitTimeout ==
  /\ pc = "waiting"
  /\ pc' = "returned"
  /\ UNCHANGED <<cancelled, current, worker, poller>>

-----------------------------------------------------------------------------
(* The workers                                                             *)

(* Listening, dialing, or the files of anvil; then the first send.         *)
SetUp(k) ==
  /\ worker[k] = "setup"
  /\ worker' = [worker EXCEPT ![k] = "sending"]
  /\ poller' = [poller EXCEPT ![k] = IF k \in Server THEN "select" ELSE @]
  /\ UNCHANGED <<cancelled, pc, current>>

(* Faulty variant: the deferred cancel is missing.                         *)
ExitNoCancel(k) ==
  /\ worker[k] \in {"setup", "running"}
  /\ worker' = [worker EXCEPT ![k] = "exited"]
  /\ UNCHANGED <<cancelled, pc, current, poller>>

(* Start returns, because of an error or of the context, and the deferred  *)
(* cancel and Done run.                                                    *)
Exit(k) ==
  /\ worker[k] \in {"setup", "running"}
  /\ worker' = [worker EXCEPT ![k] = "exited"]
  /\ cancelled' = TRUE
  /\ UNCHANGED <<pc, current, poller>>

(* Faulty variant: the poller does not wait for the command.               *)
CommandReadyEarly(k) ==
  /\ poller[k] = "select" /\ worker[k] = "sending"
  /\ poller' = [poller EXCEPT ![k] = "polling"]
  /\ UNCHANGED <<cancelled, pc, current, worker>>

(* The poller receives from the command, which is then run.                *)
CommandReady(k) ==
  /\ poller[k] = "select" /\ worker[k] = "sending"
  /\ poller' = [poller EXCEPT ![k] = "polling"]
  /\ worker' = [worker EXCEPT ![k] = "running"]
  /\ UNCHANGED <<cancelled, pc, current>>

(* The port answers, as it does while the command runs.                    *)
PortAnswers(k) ==
  /\ poller[k] = "polling" /\ worker[k] = "running"
  /\ poller' = [poller EXCEPT ![k] = "ready"]
  /\ UNCHANGED <<cancelled, pc, current, worker>>

PollerCancelled(k) ==
  /\ poller[k] \in {"select", "polling"} /\ cancelled
  /\ poller' = [poller EXCEPT ![k] = "gone"]
  /\ UNCHANGED <<cancelled, pc, current, worker>>

(* SIGINT or SIGTERM (main.go).                                            *)
Signal ==
  /\ ~cancelled
  /\ cancelled' = TRUE
  /\ UNCHANGED <<pc, current, worker, poller>>

-----------------------------------------------------------------------------
Init ==
  /\ cancelled = FALSE
  /\ pc = "starting"
  /\ current = 1
  /\ worker = [k \in Worker |-> "none"]
  /\ poller = [k \in Worker |-> "none"]

Supervise ==
  \/ StartWorker \/ LoopDone
  \/ ReceiveReady \/ StartTimeout \/ StartCancelled
  \/ ContextDone \/ AllExited \/ WaitTimeout

WorkerStep(k) ==
  SetUp(k) \/ Exit(k) \/ CommandReady(k) \/ PortAnswers(k) \/ PollerCancelled(k)

(* Nothing runs once main has returned.                                    *)
Next ==
  \/ Supervise
  \/ pc # "returned" /\ ((\E k \in Worker : WorkerStep(k)) \/ Signal)

(* The supervisor is a goroutine, and its timers fire.                     *)
Spec == Init /\ [][Next]_vars /\ WF_vars(Supervise)

-----------------------------------------------------------------------------
(* Properties                                                              *)

(* The type of every variable.                                             *)
TypeOK ==
  /\ cancelled \in BOOLEAN
  /\ pc \in {"starting", "awaiting", "started", "waiting", "returned"}
  /\ current \in 1 .. N + 1
  /\ worker \in [Worker -> {"none", "setup", "sending", "running", "exited"}]
  /\ poller \in [Worker -> {"none", "select", "polling", "ready", "gone"}]

(* "Start the workers in order, waiting for each one to be ready before    *)
(* starting the next one" (supervisor.go:19): once a worker is started,    *)
(* those before it are past every send that can block and are running, or  *)
(* have exited and all workers are told to.                                *)
EarlierAreUp ==
  \A j, k \in Worker :
    (j < k /\ worker[k] # "none") =>
      worker[j] = "running" \/ (worker[j] = "exited" /\ cancelled)

(* A worker is stranded when nobody will receive what it sends.            *)
Stranded(k) ==
  /\ worker[k] = "sending"
  /\ IF k \in Server THEN poller[k] = "gone" ELSE ~(pc = "awaiting" /\ current = k)

(* A send of ready blocks a worker for ever only when everything is ending *)
(* anyway, and only the worker started last: the wait of the supervisor    *)
(* for its workers is then what its timeout is for.                        *)
StrandedOnlyAtTheEnd ==
  \A k \in Worker : Stranded(k) =>
    cancelled /\ \A j \in Worker : j > k => worker[j] = "none"

(* "When a worker exits, send a cancel signal to all of them and wait for  *)
(* them to finish" (supervisor.go:20): whatever is being started then, and *)
(* whoever is stranded, the supervisor returns.                            *)
ExitEndsSupervisor ==
  (\E k \in Worker : worker[k] = "exited") ~> (pc = "returned")

(* Where the loop is, which workers are started, and what a poller has     *)
(* learned of its command; with EarlierAreUp, inductive.                   *)
LoopFits ==
  /\ \A k \in Worker :
       worker[k] = "none" <=> k > current \/ (k = current /\ pc = "starting")
  /\ \A k \in Worker : k < current =>
       worker[k] = "running" \/ (worker[k] = "exited" /\ cancelled)
  /\ (current \in Worker /\ pc \notin {"starting", "awaiting"}) => cancelled
  /\ pc = "awaiting" => current \in Worker

PollersFit ==
  \A k \in Worker :
    /\ poller[k] = "gone" => cancelled \/ k < current
    /\ poller[k] \in {"polling", "ready"} =>
         worker[k] = "running" \/ (worker[k] = "exited" /\ cancelled)

(* The inductive invariant of the proofs (SupervisorProofs).               *)
IInv == TypeOK /\ LoopFits /\ PollersFit
=============================================================================
