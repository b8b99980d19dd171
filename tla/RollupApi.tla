----------------------------- MODULE RollupApi ------------------------------
(***************************************************************************)
(* The HTTP rollup API: the handlers of /finish, /voucher, /notice,        *)
(* /report and /exception on top of AppModel, and the DApp back-end that   *)
(* calls them.                                                             *)
(*                                                                         *)
(* A finish handler calls FinishAndGetNext on every round of its polling   *)
(* loop, not only on the first, and between rounds any other handler and   *)
(* the inputter may run.  The other handlers are one call of AppModel.     *)
(*                                                                         *)
(* The back-end follows api/rollup.yaml: it calls finish, works on the     *)
(* request it is given, calls finish again, and repeats a finish that was  *)
(* answered 202.  It may be relaunched at any point, and a connection may  *)
(* break under a finish; the handler then goes on until it looks at its    *)
(* context.                                                                *)
(***************************************************************************)
EXTENDS AppModel

CONSTANTS
  Handler,        \* finish handlers that can be under way at once
  FinishRetries,  \* rounds of a finish handler (50 in the code)
  Breaks,         \* what can break, of "relaunch" and "disconnect"
  MaxBreaks       \* bound: breaks in a behaviour

ASSUME ApiAssumption ==
  /\ FinishRetries \in Nat \ {0}
  /\ Breaks \subseteq {"relaunch", "disconnect"}
  /\ MaxBreaks \in Nat

VARIABLES
  handlers,  \* the finish handlers
  dapp,      \* the back-end
  breaks     \* breaks so far

apiVars == <<vars, handlers, dapp, breaks>>

(* What the back-end holds: the request it was last given.                 *)
Nothing == [mode |-> "idle", input |-> 0]
Request == [mode : {"idle", "advance", "inspect"}, input : Nat]
InProgress == [mode |-> state.mode, input |-> state.input]

(* client: whether someone still waits for the response.                   *)
(* finishing: what the back-end held when it sent the finish.              *)
Free == [pc |-> "free", accepted |-> FALSE, polls |-> 0, client |-> "gone",
         finishing |-> Nothing]

HandlerState == [pc : {"free", "poll"}, accepted : BOOLEAN, polls : 0 .. FinishRetries,
                 client : {"dapp", "gone"}, finishing : Request]

Dapp == [pc : {"fresh", "waiting", "working", "retry"}, accepted : BOOLEAN, holds : Request]

Relaunched == [pc |-> "fresh", accepted |-> FALSE, holds |-> Nothing]

Waiting(h) == handlers[h].pc = "poll" /\ handlers[h].client = "dapp"

-----------------------------------------------------------------------------
(* The back-end                                                            *)

(* A first finish, one after a request was worked on, or one repeated.     *)
SendFinish(h, accepted) ==
  /\ handlers[h] = Free
  /\ \/ dapp.pc \in {"fresh", "working"}
     \/ dapp.pc = "retry" /\ accepted = dapp.accepted
  /\ handlers' = [handlers EXCEPT ![h] =
                    [pc |-> "poll", accepted |-> accepted, polls |-> 0,
                     client |-> "dapp", finishing |-> dapp.holds]]
  /\ dapp' = [dapp EXCEPT !.pc = "waiting", !.accepted = accepted]
  /\ UNCHANGED <<vars, breaks>>

(* /voucher, /notice and /report; 403, and no change, in the wrong state.  *)
Output(p) ==
  /\ dapp.pc = "working"
  /\ AddOutput(p)
  /\ UNCHANGED <<handlers, dapp, breaks>>

(* /exception, after which the back-end starts over with a finish.         *)
Exception ==
  /\ dapp.pc = "working"
  /\ RegisterException
  /\ dapp' = Relaunched
  /\ UNCHANGED <<handlers, breaks>>

-----------------------------------------------------------------------------
(* The finish handler                                                      *)

(* Faulty variant: the loop goes on after the response.                    *)
PollFoundKeepsPolling(h) ==
  /\ state'.mode # "idle"
  /\ handlers' = [handlers EXCEPT ![h].polls = @ + 1]
  /\ dapp' = IF handlers[h].client = "gone" THEN dapp
             ELSE [dapp EXCEPT !.pc = "working", !.holds = InProgress']

(* A round that finds a request answers 200 with it, whether or not the    *)
(* response reaches anyone.                                                *)
PollFound(h) ==
  /\ state'.mode # "idle"
  /\ handlers' = [handlers EXCEPT ![h] = Free]
  /\ dapp' = IF handlers[h].client = "gone" THEN dapp
             ELSE [dapp EXCEPT !.pc = "working", !.holds = InProgress']

PollIdle(h) ==
  /\ state'.mode = "idle"
  /\ handlers' = [handlers EXCEPT ![h].polls = @ + 1]
  /\ UNCHANGED dapp

(* Faulty variant: one round too many.                                     *)
PollOnceMore(h) ==
  /\ handlers[h].pc = "poll"
  /\ handlers[h].polls <= FinishRetries
  /\ FinishAndGetNext(handlers[h].accepted)
  /\ PollFound(h) \/ PollIdle(h)
  /\ UNCHANGED breaks

(* Faulty variant: the status of the request is not passed on.             *)
PollAlwaysAccepts(h) ==
  /\ handlers[h].pc = "poll"
  /\ handlers[h].polls < FinishRetries
  /\ FinishAndGetNext(TRUE)
  /\ PollFound(h) \/ PollIdle(h)
  /\ UNCHANGED breaks

Poll(h) ==
  /\ handlers[h].pc = "poll"
  /\ handlers[h].polls < FinishRetries
  /\ FinishAndGetNext(handlers[h].accepted)
  /\ PollFound(h) \/ PollIdle(h)
  /\ UNCHANGED breaks

(* Faulty variant: no response once the rounds are used up.                *)
GiveUpSilent(h) ==
  /\ handlers[h].pc = "poll"
  /\ handlers[h].polls = FinishRetries
  /\ handlers' = [handlers EXCEPT ![h] = Free]
  /\ UNCHANGED <<vars, dapp, breaks>>

(* The rounds are used up: 202.                                            *)
GiveUp(h) ==
  /\ handlers[h].pc = "poll"
  /\ handlers[h].polls = FinishRetries
  /\ handlers' = [handlers EXCEPT ![h] = Free]
  /\ dapp' = IF handlers[h].client = "gone" THEN dapp ELSE [dapp EXCEPT !.pc = "retry"]
  /\ UNCHANGED <<vars, breaks>>

(* The context is looked at between rounds, against a timer: when both are *)
(* ready either may win.                                                   *)
NoticeGone(h) ==
  /\ handlers[h].pc = "poll" /\ handlers[h].polls > 0
  /\ handlers[h].client = "gone"
  /\ handlers' = [handlers EXCEPT ![h] = Free]
  /\ UNCHANGED <<vars, dapp, breaks>>

-----------------------------------------------------------------------------
(* What breaks                                                             *)

Break(kind) ==
  /\ kind \in Breaks
  /\ breaks < MaxBreaks
  /\ breaks' = breaks + 1
  /\ handlers' = [h \in Handler |-> IF Waiting(h) THEN [handlers[h] EXCEPT !.client = "gone"]
                                    ELSE handlers[h]]
  /\ UNCHANGED vars

(* The back-end dies and its developer launches it again.                  *)
Relaunch ==
  /\ Break("relaunch")
  /\ dapp' = Relaunched

(* The connection of a finish breaks, or the back-end's client times out:  *)
(* it sends the same finish again.                                         *)
Disconnect ==
  /\ dapp.pc = "waiting"
  /\ Break("disconnect")
  /\ dapp' = [dapp EXCEPT !.pc = "retry"]

-----------------------------------------------------------------------------
ApiInit ==
  /\ Init
  /\ handlers = [h \in Handler |-> Free]
  /\ dapp = Relaunched
  /\ breaks = 0

InputsArrive ==
  /\ AddInspectInput \/ \E i \in InputIndex : AddAdvanceInput(i)
  /\ UNCHANGED <<handlers, dapp, breaks>>

SomeFinish == \E h \in Handler, accepted \in BOOLEAN : SendFinish(h, accepted)

ApiNext ==
  \/ InputsArrive
  \/ SomeFinish
  \/ \E p \in Payload : Output(p)
  \/ Exception
  \/ \E h \in Handler : Poll(h) \/ GiveUp(h) \/ NoticeGone(h)
  \/ Relaunch
  \/ Disconnect

(* Handlers are goroutines and their timers fire; the back-end goes back   *)
(* to finish in the end, as the API asks of it.                            *)
Fairness ==
  /\ \A h \in Handler : WF_apiVars(Poll(h)) /\ WF_apiVars(GiveUp(h))
  /\ WF_apiVars(SomeFinish)

ApiSpec == ApiInit /\ [][ApiNext]_apiVars /\ Fairness

-----------------------------------------------------------------------------
(* Properties                                                              *)

(* The type of every variable of the API.                                  *)
ApiTypeOK ==
  /\ TypeOK
  /\ handlers \in [Handler -> HandlerState]
  /\ dapp \in Dapp
  /\ breaks \in 0 .. MaxBreaks

(* As long as nothing broke, the back-end and the model agree on the       *)
(* request in progress, so an output is recorded for the request it was    *)
(* made for.                                                               *)
WorkingMatchesState ==
  (breaks = 0 /\ dapp.pc = "working") => dapp.holds = InProgress

(* As long as nothing broke there is one finish at a time, the back-end    *)
(* waits for it, and after its first round there is nothing in progress.   *)
OneFinish ==
  breaks = 0 =>
    /\ \A g, h \in Handler : (handlers[g].pc = "poll" /\ handlers[h].pc = "poll") => g = h
    /\ \A h \in Handler : handlers[h].pc = "poll" =>
         /\ dapp.pc = "waiting"
         /\ handlers[h].client = "dapp" /\ handlers[h].finishing = dapp.holds
         /\ handlers[h].polls > 0 => state.mode = "idle"

(* What is in progress is what the back-end holds, and still works on or   *)
(* has just finished.                                                      *)
HoldsInProgress ==
  breaks = 0 =>
    /\ state.mode # "idle" => dapp.pc \in {"working", "waiting"} /\ dapp.holds = InProgress
    /\ dapp.pc = "working" => state.mode # "idle"

(* The inductive invariant of the proofs (RollupApiProofs): the back-end,  *)
(* the one handler it waits for and the model speak of the same request.   *)
ApiIInv ==
  /\ IInv
  /\ ApiTypeOK
  /\ OneFinish
  /\ HoldsInProgress

Decides(i) == inputs[i] = "unprocessed" /\ inputs'[i] \in {"accepted", "rejected"}

Moves(h) == handlers[h] # handlers'[h]

(* As long as nothing broke, an input is accepted or rejected only by the  *)
(* finish its back-end sent after working on it, with the status of that   *)
(* finish, though the handler finishes "the current input" anew in every   *)
(* round.                                                                  *)
HolderDecides ==
  [][\A i \in InputIndex : (breaks = 0 /\ Decides(i)) =>
       \E h \in Handler :
         /\ Moves(h)
         /\ handlers[h].finishing = [mode |-> "advance", input |-> i]
         /\ inputs'[i] = IF handlers[h].accepted THEN "accepted" ELSE "rejected"]_apiVars

(* The status of a back-end's first finish, and of one after an inspect,   *)
(* decides nothing (api/rollup.yaml:88).  Not so for a back-end that is    *)
(* relaunched: its first finish decides the input its predecessor had.     *)
FirstFinishStatusIgnored ==
  [][\A h \in Handler : Moves(h) /\ handlers[h].finishing.mode # "advance"
       => ~ \E i \in InputIndex : Decides(i)]_apiVars

(* Every input that is stored is decided in the end, also when back-ends   *)
(* and connections break on the way: none is passed over by the order in   *)
(* which requests are taken or lost in a response nobody reads.            *)
EveryInputDecided ==
  \A i \in InputIndex : (inputs[i] = "unprocessed") ~> (inputs[i] \in Verdict)
=============================================================================
