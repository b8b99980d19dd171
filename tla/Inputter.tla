------------------------------ MODULE Inputter ------------------------------
(***************************************************************************)
(* The worker that reads inputs from the input box of the devnet chain and *)
(* puts them in the model (sequencer/inputter/inputter.go).                *)
(*                                                                         *)
(* It first reads the past inputs in one query, then subscribes to new     *)
(* ones; what is added between the two is in neither.  A log that the      *)
(* bindings cannot decode ends the query without a word, and what the      *)
(* query found after it is dropped; in the subscription it is an error of  *)
(* the worker.  An error of the worker ends the process (the supervisor    *)
(* cancels every worker).  When the process is started again the devnet    *)
(* begins anew from its fixed state, with input index 0, while the         *)
(* database is the file of before.                                         *)
(***************************************************************************)
EXTENDS AppModel

CONSTANTS
  MaxLives,     \* bound: lives of the process
  LogsBuffer,   \* logs that fit into the channel of a filter
  MaxBroken     \* bound: logs of a chain that do not decode

ASSUME InputterAssumption ==
  /\ MaxLives \in Nat \ {0}
  /\ LogsBuffer \in Nat \ {0}
  /\ MaxBroken \in Nat
  /\ \A i \in InputIndex : 0 .. i \subseteq InputIndex  \* the box numbers from 0

VARIABLES
  chain,    \* inputs added to the input box in this life, numbered 0 .. chain-1
  broken,   \* those among them whose log does not decode
  past,     \* the query of this life found the inputs 0 .. past-1
  missed,   \* those inputs that neither query nor subscription delivers
  worker,   \* where Start is, and the logs on their way to it
  life,     \* the life of the process, from 1
  origin    \* the life whose input is stored at each index; 0 for none

inputterVars == <<vars, chain, broken, past, missed, worker, life, origin>>

(* found: what the query found and its goroutine has yet to send;          *)
(* logs: the channel between go-ethereum and the bindings; done: whether   *)
(* the iterator knows that the query has sent all; held: the log that the  *)
(* subscription's goroutine offers to the worker; event: the one the       *)
(* worker adds to the model.                                               *)
WorkerState == [pc    : {"dialed", "reading", "read", "watching", "failed"},
                found : Seq(InputIndex), logs : Seq(InputIndex), done : BOOLEAN,
                held  : Seq(InputIndex), event : Seq(InputIndex)]

WorkerAt(pc) ==
  [pc |-> pc, found |-> <<>>, logs |-> <<>>, done |-> FALSE, held |-> <<>>, event |-> <<>>]

-----------------------------------------------------------------------------
(* The chain                                                               *)

(* A transaction adds an input.  Only a subscription sees it as it comes.  *)
(* Whether its log decodes (UnpackLog) is not for the worker to say.       *)
AddInputToBox ==
  /\ chain \in InputIndex
  /\ worker.pc # "failed"
  /\ chain' = chain + 1
  /\ \/ UNCHANGED broken
     \/ Cardinality(broken) < MaxBroken /\ broken' = broken \cup {chain}
  /\ worker' = IF worker.pc = "watching"
               THEN [worker EXCEPT !.logs = Append(@, chain)] ELSE worker
  /\ missed' = IF worker.pc \in {"reading", "read"} THEN missed \cup {chain} ELSE missed
  /\ UNCHANGED <<vars, past, life, origin>>

-----------------------------------------------------------------------------
(* The worker reads the past inputs                                        *)

(* A step of the worker, or of a goroutine that works for it.              *)
Moves(next) ==
  /\ worker' = next
  /\ UNCHANGED <<vars, chain, broken, past, missed, life, origin>>

(* Faulty variant: the logs are taken to number the inputs from 1.         *)
ReadPastInputsFromOne ==
  /\ worker.pc = "dialed"
  /\ worker' = [WorkerAt("reading") EXCEPT !.found = [k \in 1 .. chain |-> k]]
  /\ past' = chain
  /\ UNCHANGED <<vars, chain, broken, missed, life, origin>>

(* FilterInputAdded: all logs from the first block to the latest.          *)
ReadPastInputs ==
  /\ worker.pc = "dialed"
  /\ worker' = [WorkerAt("reading") EXCEPT !.found = [k \in 1 .. chain |-> k - 1]]
  /\ past' = chain
  /\ UNCHANGED <<vars, chain, broken, missed, life, origin>>

(* The goroutine of the query sends the next of the logs it found.         *)
SendFound ==
  /\ worker.found # <<>>
  /\ Len(worker.logs) < LogsBuffer
  /\ Moves([worker EXCEPT !.found = Tail(@), !.logs = Append(@, Head(worker.found))])

(* The iterator's Next takes a log from the channel and decodes it ...     *)
NextLog ==
  /\ worker.pc = "reading"
  /\ worker.event = <<>> /\ worker.logs # <<>>
  /\ Head(worker.logs) \notin broken
  /\ Moves([worker EXCEPT !.event = <<Head(worker.logs)>>, !.logs = Tail(@)])

(* ... or fails to, and returns false as if there were no more:            *)
(* readPastInputs does not ask Error() and goes on, the iterator is closed *)
(* and the rest of what the query found is dropped ...                     *)
NextFails ==
  /\ worker.pc = "reading"
  /\ worker.event = <<>> /\ worker.logs # <<>>
  /\ Head(worker.logs) \in broken
  /\ Moves(WorkerAt("read"))

(* ... or, in any order with it, learns that the query has sent all: from  *)
(* then on it takes what is left in the channel without waiting.           *)
NextDone ==
  /\ worker.pc = "reading"
  /\ worker.event = <<>> /\ worker.found = <<>> /\ ~worker.done
  /\ Moves([worker EXCEPT !.done = TRUE])

(* Faulty variant: the iterator ends as soon as the query has sent all.    *)
PastInputsReadEarly ==
  /\ worker.pc = "reading" /\ worker.done
  /\ worker.event = <<>>
  /\ Moves(WorkerAt("read"))

(* Next returns false: the query has sent all and nothing is left.         *)
PastInputsRead ==
  /\ worker.pc = "reading" /\ worker.done
  /\ worker.event = <<>> /\ worker.logs = <<>>
  /\ Moves(WorkerAt("read"))

-----------------------------------------------------------------------------
(* The worker watches new inputs                                           *)

(* WatchInputAdded subscribes to the logs of blocks to come.               *)
WatchNewInputs ==
  /\ worker.pc = "read"
  /\ Moves(WorkerAt("watching"))

(* The goroutine of the subscription takes a log from the channel.         *)
TakeLog ==
  /\ worker.pc = "watching"
  /\ worker.held = <<>> /\ worker.logs # <<>>
  /\ Head(worker.logs) \notin broken
  /\ Moves([worker EXCEPT !.held = <<Head(worker.logs)>>, !.logs = Tail(@)])

(* A log that does not decode ends the subscription, and with it, when it  *)
(* waits for the next log, the worker.                                     *)
SubscriptionFails ==
  /\ worker.pc = "watching"
  /\ worker.held = <<>> /\ worker.event = <<>> /\ worker.logs # <<>>
  /\ Head(worker.logs) \in broken
  /\ Moves(WorkerAt("failed"))

(* It hands the log over when the worker waits for one.                    *)
HandOver ==
  /\ worker.held # <<>> /\ worker.event = <<>>
  /\ Moves([worker EXCEPT !.event = worker.held, !.held = <<>>])

-----------------------------------------------------------------------------
(* Faulty variant: the goroutine offers a log while the worker has one,    *)
(* and that one is added after it.                                         *)
AddInputLatestFirst ==
  /\ worker.event # <<>>
  /\ LET latest == IF worker.held # <<>> THEN worker.held ELSE worker.event
         i      == Head(latest)
     IN  /\ AddAdvanceInput(i) \/ (inputs[i] # "absent" /\ UNCHANGED vars)
         /\ origin' = [origin EXCEPT ![i] = IF @ = 0 THEN life ELSE @]
         /\ worker' = [worker EXCEPT !.held = <<>>,
                         !.event = IF worker.held # <<>> THEN @ ELSE <<>>]
  /\ UNCHANGED <<chain, broken, past, missed, life>>

(* The input in the log is given to the model, which keeps the first input  *)
(* it was given for an index.                                              *)
AddInput ==
  /\ worker.event # <<>>
  /\ LET i == Head(worker.event)
     IN  /\ AddAdvanceInput(i) \/ (inputs[i] # "absent" /\ UNCHANGED vars)
         /\ origin' = [origin EXCEPT ![i] = IF @ = 0 THEN life ELSE @]
         /\ worker' = [worker EXCEPT !.event = <<>>]
  /\ UNCHANGED <<chain, broken, past, missed, life>>

-----------------------------------------------------------------------------
(* The process ends, by an error of this worker or of another or by a      *)
(* signal, and is started again.  What was on its way to the worker is     *)
(* gone.                                                                   *)
Fail ==
  /\ worker.pc # "failed"
  /\ Moves(WorkerAt("failed"))

StartAgain ==
  /\ worker.pc = "failed"
  /\ life < MaxLives
  /\ Restart
  /\ chain' = 0
  /\ broken' = {}
  /\ past' = 0
  /\ missed' = {}
  /\ worker' = WorkerAt("dialed")
  /\ life' = life + 1
  /\ UNCHANGED origin

-----------------------------------------------------------------------------
InputterInit ==
  /\ Init
  /\ chain = 0
  /\ broken = {}
  /\ past = 0
  /\ missed = {}
  /\ worker = WorkerAt("dialed")
  /\ life = 1
  /\ origin = [i \in InputIndex |-> 0]

Work ==
  \/ ReadPastInputs \/ SendFound \/ NextLog \/ NextFails \/ NextDone \/ PastInputsRead
  \/ WatchNewInputs \/ TakeLog \/ SubscriptionFails \/ HandOver
  \/ AddInput

(* The back-end meanwhile, as any client of the model.                     *)
Process ==
  /\ worker.pc # "failed"
  /\ \/ \E accepted \in BOOLEAN : FinishAndGetNext(accepted)
     \/ RegisterException
  /\ UNCHANGED <<chain, broken, past, missed, worker, life, origin>>

InputterNext == AddInputToBox \/ Work \/ Fail \/ StartAgain \/ Process

(* The worker and its goroutines wait for nothing but each other and the   *)
(* chain, and each step of theirs is one closer to an empty channel.       *)
InputterSpec ==
  InputterInit /\ [][InputterNext]_inputterVars
    /\ WF_inputterVars(Work) /\ WF_inputterVars(StartAgain)

-----------------------------------------------------------------------------
(* Properties                                                              *)

(* The type of every variable of the worker and the chain.                 *)
InputterTypeOK ==
  /\ TypeOK
  /\ chain \in Nat
  /\ broken \subseteq InputIndex
  /\ past \in Nat
  /\ missed \subseteq InputIndex
  /\ worker \in WorkerState
  /\ life \in 1 .. MaxLives
  /\ origin \in [InputIndex -> 0 .. MaxLives]

(* The inputs that one life of the process stored are decided in the order *)
(* the box numbers them, in that life or a later one, though the worker    *)
(* stores them while others are processed and may have missed some.        *)
DecidedInOrder ==
  \A i, j \in InputIndex :
    (i < j /\ origin[i] # 0 /\ origin[i] = origin[j] /\ inputs[j] \in Verdict)
      => inputs[i] \in Verdict

Increasing(s) == \A k, l \in DOMAIN s : k < l => s[k] < s[l]

Before(s, t) == \A k \in DOMAIN s, l \in DOMAIN t : s[k] < t[l]

(* In the order of the box, all of this life's chain and above what this   *)
(* life has stored.                                                        *)
Ordered(s) ==
  /\ Increasing(s)
  /\ \A k \in DOMAIN s : s[k] < chain
  /\ \A k \in DOMAIN s, i \in InputIndex : origin[i] = life => i < s[k]

(* The logs on their way to the model are in order, in each list and from  *)
(* one list to those it is fed by.                                         *)
LogsInOrder ==
  /\ Ordered(worker.event) /\ Ordered(worker.held)
  /\ Ordered(worker.logs) /\ Ordered(worker.found)
  /\ Before(worker.event, worker.held) /\ Before(worker.event, worker.logs)
  /\ Before(worker.event, worker.found)
  /\ Before(worker.held, worker.logs) /\ Before(worker.held, worker.found)
  /\ Before(worker.logs, worker.found)

Holds(s, i) == \E k \in DOMAIN s : s[k] = i

(* The log of input i is on its way to the model.                          *)
Carries(w, i) == Holds(w.found, i) \/ Holds(w.logs, i) \/ Holds(w.held, i) \/ Holds(w.event, i)

(* The query found the log of input i, and the log at which it was given   *)
(* up is not after it.                                                     *)
Dropped(i) == i < past /\ \E j \in broken : j <= i

(* The input is in the box, was not added between the query and the        *)
(* subscription, and is not behind a log at which the query was given up.  *)
Due(i) == i < chain /\ i \notin missed /\ ~Dropped(i)

(* Once the query of a life was answered, each log of its chain is stored  *)
(* or on its way, but for the two losses the code has: the end of the      *)
(* iterator, which its goroutines race to, drops no other, nor does the    *)
(* hand-over of the subscription.                                          *)
NoLogIsLost ==
  worker.pc \notin {"dialed", "failed"} =>
    \A i \in InputIndex : Due(i) => inputs[i] # "absent" \/ Carries(worker, i)

(* The query is over before the subscription begins and has sent all when  *)
(* the iterator ends, the goroutines hand over one log at a time, nothing  *)
(* of this life is stored before the query, and until the iterator ends    *)
(* all that is on its way was found by the query.                          *)
WorkerFits ==
  /\ Len(worker.event) <= 1 /\ Len(worker.held) <= 1
  /\ worker.done => worker.found = <<>>
  /\ worker.pc = "read" => worker.event = <<>> /\ worker.logs = <<>> /\ worker.found = <<>>
  /\ worker.pc # "watching" => worker.held = <<>>
  /\ worker.pc = "watching" => worker.found = <<>>
  /\ worker.pc = "dialed" =>
       worker.event = <<>> /\ \A i \in InputIndex : origin[i] # life
  /\ worker.pc = "reading" => \A i \in InputIndex : Carries(worker, i) => i < past

(* What is stored has the life that stored it, and what is stored in this  *)
(* life is of this life's chain.                                           *)
OriginsFit ==
  /\ 0 .. (chain - 1) \subseteq InputIndex
  /\ \A i \in InputIndex :
       /\ origin[i] # 0 <=> inputs[i] # "absent"
       /\ origin[i] <= life
       /\ origin[i] = life => i < chain

(* The input in progress is the first of its life that is not decided.     *)
FirstOfItsLife ==
  state.mode = "advance" =>
    \A i \in InputIndex :
      (i < state.input /\ origin[i] = origin[state.input]) => inputs[i] \in Verdict

(* The inductive invariant of the proofs (InputterProofs): logs come in    *)
(* the order of the box, so that nothing is stored below what is stored or *)
(* in progress of the same life, and none is dropped on its way.           *)
InputterIInv ==
  /\ IInv
  /\ InputterTypeOK
  /\ LogsInOrder
  /\ WorkerFits
  /\ OriginsFit
  /\ FirstOfItsLife
  /\ DecidedInOrder
  /\ NoLogIsLost

(* "There is a race condition where we might lose inputs sent between the *)
(* readPastInputs call and the watchNewInputs call" (inputter.go:54-57).   *)
(* Beyond that, and what is dropped behind a log that does not decode,     *)
(* every input of the box is stored unless the process ends.               *)
DueInputIsStored ==
  \A i \in InputIndex :
    (worker.pc \notin {"dialed", "failed"} /\ Due(i))
      ~> (inputs[i] # "absent" \/ worker.pc = "failed")

(* "This worker reads inputs from Ethereum and puts them in the model"     *)
(* (inputter.go:29).  Beyond the race of Start's comment, not so once the  *)
(* process was restarted: an input of the new chain is taken for the one   *)
(* the database holds at its index, and dropped.                           *)
DeliveredInputIsStored ==
  \A i \in InputIndex :
    (i < chain /\ i \notin missed) ~> (origin[i] = life \/ worker.pc = "failed")
=============================================================================
