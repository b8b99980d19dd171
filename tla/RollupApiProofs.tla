--------------------------- MODULE RollupApiProofs --------------------------
(***************************************************************************)
(* Theorems of RollupApi, for any number of handlers, of rounds of a       *)
(* finish and of breaks.  ApiIInv (in RollupApi) is inductive; one lemma   *)
(* for each action says so, and the theorems at the end follow from it.    *)
(***************************************************************************)
EXTENDS RollupApi, AppModelProofs

-----------------------------------------------------------------------------
(* The request in progress is one that can be given to a back-end.         *)
LEMMA InProgressIsRequest ==
  /\ TypeOK => InProgress \in Request
  /\ TypeOK' => InProgress' \in Request
BY DEF TypeOK, InProgress, Request

LEMMA FreeType == Free \in HandlerState /\ Free.pc = "free"
BY ApiAssumption DEF Free, HandlerState, Nothing, Request

LEMMA RelaunchedType == Relaunched \in Dapp /\ Relaunched.pc = "fresh"
BY DEF Relaunched, Dapp, Nothing, Request

(* A step in which the model moves as AppModel lets it, and which fits     *)
(* what the API says.                                                      *)
LEMMA ApiStep ==
  ASSUME ApiIInv, [Next]_vars,
         handlers' \in [Handler -> HandlerState], dapp' \in Dapp,
         breaks' \in 0 .. MaxBreaks, OneFinish', HoldsInProgress'
  PROVE  ApiIInv'
<1>1. IInv'
  BY NextKeeps DEF ApiIInv
<1>2. TypeOK'
  BY <1>1 DEF IInv
<1> QED  BY <1>1, <1>2 DEF ApiIInv, ApiTypeOK

-----------------------------------------------------------------------------
(* The back-end.                                                           *)

LEMMA SendFinishKeeps ==
  ASSUME ApiIInv, NEW h \in Handler, NEW accepted \in BOOLEAN, SendFinish(h, accepted)
  PROVE  ApiIInv'
<1> DEFINE new == [pc |-> "poll", accepted |-> accepted, polls |-> 0,
                   client |-> "dapp", finishing |-> dapp.holds]
<1>1. /\ OneFinish /\ HoldsInProgress
      /\ handlers \in [Handler -> HandlerState] /\ dapp \in Dapp
      /\ breaks \in 0 .. MaxBreaks
  BY DEF ApiIInv, ApiTypeOK
<1>2. /\ dapp.pc \in {"fresh", "working", "retry"}
      /\ handlers' = [handlers EXCEPT ![h] = new]
      /\ dapp' = [dapp EXCEPT !.pc = "waiting", !.accepted = accepted]
      /\ UNCHANGED vars /\ UNCHANGED state /\ breaks' = breaks
  BY DEF SendFinish, vars
<1>3. new \in HandlerState
  BY <1>1, ApiAssumption DEF HandlerState, Dapp
<1>4. /\ handlers' \in [Handler -> HandlerState]
      /\ handlers'[h] = new
      /\ \A g \in Handler \ {h} : handlers'[g] = handlers[g]
  BY <1>1, <1>2, <1>3
<1>5. dapp' \in Dapp /\ dapp'.pc = "waiting" /\ dapp'.holds = dapp.holds
  BY <1>1, <1>2 DEF Dapp
<1>6. breaks = 0 => \A g \in Handler : handlers[g].pc # "poll"
  BY <1>1, <1>2 DEF OneFinish
<1>7. OneFinish'
  BY <1>2, <1>4, <1>5, <1>6 DEF OneFinish
<1>8. HoldsInProgress'
  BY <1>1, <1>2, <1>5 DEF HoldsInProgress, InProgress
<1> QED  BY <1>1, <1>2, <1>4, <1>5, <1>7, <1>8, ApiStep

LEMMA OutputKeeps ==
  ASSUME ApiIInv, NEW p \in Payload, Output(p)
  PROVE  ApiIInv'
<1>1. /\ OneFinish /\ HoldsInProgress /\ TypeOK
      /\ handlers \in [Handler -> HandlerState] /\ dapp \in Dapp
      /\ breaks \in 0 .. MaxBreaks
      /\ UNCHANGED <<handlers, dapp, breaks>>
  BY DEF ApiIInv, ApiTypeOK, Output
<1>2. state'.mode = state.mode /\ state'.input = state.input
  BY <1>1 DEF Output, AddOutput, AddVoucher, AddNotice, AddReport, TypeOK
<1>3. OneFinish' /\ HoldsInProgress'
  BY <1>1, <1>2 DEF OneFinish, HoldsInProgress, InProgress
<1>4. [Next]_vars
  BY DEF Output, Next
<1> QED  BY <1>1, <1>3, <1>4, ApiStep

LEMMA ExceptionKeeps ==
  ASSUME ApiIInv, Exception
  PROVE  ApiIInv'
<1>1. /\ OneFinish
      /\ handlers \in [Handler -> HandlerState] /\ breaks \in 0 .. MaxBreaks
      /\ dapp.pc = "working" /\ dapp' = Relaunched
      /\ UNCHANGED <<handlers, breaks>>
  BY DEF ApiIInv, ApiTypeOK, Exception
<1>2. state'.mode = "idle"
  BY DEF Exception, RegisterException, RollupsStateIdle, Working
<1>3. OneFinish'
  BY <1>1 DEF OneFinish
<1>4. HoldsInProgress'
  BY <1>1, <1>2, RelaunchedType DEF HoldsInProgress
<1>5. [Next]_vars
  BY DEF Exception, Next
<1> QED  BY <1>1, <1>3, <1>4, <1>5, RelaunchedType, ApiStep

-----------------------------------------------------------------------------
(* The finish handler.                                                     *)

LEMMA PollKeeps ==
  ASSUME ApiIInv, NEW h \in Handler, Poll(h)
  PROVE  ApiIInv'
<1>1. /\ OneFinish /\ HoldsInProgress
      /\ handlers \in [Handler -> HandlerState] /\ dapp \in Dapp
      /\ breaks \in 0 .. MaxBreaks /\ breaks' = breaks
      /\ handlers[h].pc = "poll" /\ handlers[h].polls < FinishRetries
      /\ handlers[h].accepted \in BOOLEAN
  BY DEF ApiIInv, ApiTypeOK, Poll, HandlerState
<1>2. [Next]_vars
  BY <1>1 DEF Poll, Next
<1>3. TypeOK'
  BY <1>2, NextKeeps DEF ApiIInv, IInv
<1>4. breaks = 0 =>
        /\ dapp.pc = "waiting" /\ handlers[h].client = "dapp"
        /\ handlers[h].finishing = dapp.holds
        /\ \A g \in Handler \ {h} : handlers[g].pc # "poll"
  BY <1>1 DEF OneFinish
<1>5. CASE PollFound(h)
  <2>1. /\ handlers' = [handlers EXCEPT ![h] = Free]
        /\ dapp' = IF handlers[h].client = "gone" THEN dapp
                   ELSE [dapp EXCEPT !.pc = "working", !.holds = InProgress']
        /\ state'.mode # "idle"
    BY <1>5 DEF PollFound
  <2>2. /\ handlers' \in [Handler -> HandlerState] /\ handlers'[h].pc = "free"
        /\ \A g \in Handler \ {h} : handlers'[g] = handlers[g]
    BY <1>1, <2>1, FreeType
  <2>3. dapp' \in Dapp
    <3>1. InProgress' \in Request
      BY <1>3, InProgressIsRequest
    <3> QED  BY <1>1, <2>1, <3>1 DEF Dapp
  <2>4. breaks = 0 => dapp'.pc = "working" /\ dapp'.holds = InProgress'
    BY <1>1, <1>4, <2>1 DEF Dapp
  <2>5. OneFinish'
    BY <1>1, <1>4, <2>2 DEF OneFinish
  <2>6. HoldsInProgress'
    BY <1>1, <2>1, <2>4 DEF HoldsInProgress
  <2> QED  BY <1>1, <1>2, <2>2, <2>3, <2>5, <2>6, ApiStep
<1>6. CASE PollIdle(h)
  <2>1. /\ handlers' = [handlers EXCEPT ![h].polls = @ + 1]
        /\ dapp' = dapp /\ state'.mode = "idle"
    BY <1>6 DEF PollIdle
  <2>2. /\ handlers' \in [Handler -> HandlerState]
        /\ handlers'[h].pc = handlers[h].pc /\ handlers'[h].client = handlers[h].client
        /\ handlers'[h].finishing = handlers[h].finishing
        /\ \A g \in Handler \ {h} : handlers'[g] = handlers[g]
    BY <1>1, <2>1, ApiAssumption DEF HandlerState
  <2>3. OneFinish'
    BY <1>1, <1>4, <2>1, <2>2 DEF OneFinish
  <2>4. HoldsInProgress'
    BY <1>1, <1>4, <2>1 DEF HoldsInProgress
  <2> QED  BY <1>1, <1>2, <2>1, <2>2, <2>3, <2>4, ApiStep
<1> QED  BY <1>5, <1>6 DEF Poll

(* The handler ends without a request: what it finished is done.           *)
LEMMA HandlerEndsKeeps ==
  ASSUME ApiIInv, NEW h \in Handler, GiveUp(h) \/ NoticeGone(h)
  PROVE  ApiIInv'
<1>1. /\ OneFinish /\ HoldsInProgress
      /\ handlers \in [Handler -> HandlerState] /\ dapp \in Dapp
      /\ breaks \in 0 .. MaxBreaks /\ breaks' = breaks
      /\ handlers[h].pc = "poll" /\ handlers[h].polls > 0
      /\ handlers' = [handlers EXCEPT ![h] = Free]
      /\ dapp' \in {dapp, [dapp EXCEPT !.pc = "retry"]}
      /\ UNCHANGED vars /\ state' = state
  BY ApiAssumption DEF ApiIInv, ApiTypeOK, GiveUp, NoticeGone, vars
<1>2. breaks = 0 => /\ state.mode = "idle" /\ dapp.pc = "waiting"
                    /\ \A g \in Handler \ {h} : handlers[g].pc # "poll"
  BY <1>1 DEF OneFinish
<1>3. /\ handlers' \in [Handler -> HandlerState] /\ handlers'[h].pc = "free"
      /\ \A g \in Handler \ {h} : handlers'[g] = handlers[g]
  BY <1>1, FreeType
<1>4. dapp' \in Dapp /\ dapp'.pc \in {dapp.pc, "retry"}
  BY <1>1 DEF Dapp
<1>5. OneFinish'
  BY <1>1, <1>2, <1>3 DEF OneFinish
<1>6. HoldsInProgress'
  BY <1>1, <1>2, <1>4 DEF HoldsInProgress
<1> QED  BY <1>1, <1>3, <1>4, <1>5, <1>6, ApiStep

-----------------------------------------------------------------------------
(* What breaks, and what comes in.                                         *)

LEMMA BreakKeeps ==
  ASSUME ApiIInv, Relaunch \/ Disconnect
  PROVE  ApiIInv'
<1>1. /\ handlers \in [Handler -> HandlerState] /\ dapp \in Dapp
      /\ breaks \in 0 .. MaxBreaks /\ breaks < MaxBreaks /\ breaks' = breaks + 1
      /\ handlers' = [h \in Handler |->
                        IF Waiting(h) THEN [handlers[h] EXCEPT !.client = "gone"]
                        ELSE handlers[h]]
      /\ dapp' \in {Relaunched, [dapp EXCEPT !.pc = "retry"]}
      /\ UNCHANGED vars
  BY DEF ApiIInv, ApiTypeOK, Relaunch, Disconnect, Break
<1>2. \A h \in Handler : [handlers[h] EXCEPT !.client = "gone"] \in HandlerState
  BY <1>1 DEF HandlerState
<1>3. handlers' \in [Handler -> HandlerState]
  BY <1>1, <1>2
<1>4. dapp' \in Dapp
  BY <1>1, RelaunchedType DEF Dapp
<1>5. breaks' \in 0 .. MaxBreaks /\ breaks' # 0
  BY <1>1, ApiAssumption
<1>6. OneFinish' /\ HoldsInProgress'
  BY <1>5 DEF OneFinish, HoldsInProgress
<1> QED  BY <1>1, <1>3, <1>4, <1>5, <1>6, ApiStep

LEMMA InputsArriveKeeps ==
  ASSUME ApiIInv, InputsArrive
  PROVE  ApiIInv'
<1>1. /\ OneFinish /\ HoldsInProgress
      /\ handlers \in [Handler -> HandlerState] /\ dapp \in Dapp
      /\ breaks \in 0 .. MaxBreaks
      /\ UNCHANGED <<handlers, dapp, breaks>> /\ state' = state
  BY DEF ApiIInv, ApiTypeOK, InputsArrive, AddInspectInput, AddAdvanceInput
<1>2. [Next]_vars
  BY DEF InputsArrive, Next
<1>3. OneFinish' /\ HoldsInProgress'
  BY <1>1 DEF OneFinish, HoldsInProgress, InProgress
<1> QED  BY <1>1, <1>2, <1>3, ApiStep

-----------------------------------------------------------------------------
(* The theorems.                                                           *)

LEMMA ApiInitFits == ApiInit => ApiIInv
<1> SUFFICES ASSUME ApiInit PROVE ApiIInv
  OBVIOUS
<1>1. IInv /\ TypeOK
  BY InitFits DEF ApiInit, IInv
<1>2. /\ handlers = [h \in Handler |-> Free] /\ dapp = Relaunched /\ breaks = 0
      /\ state.mode = "idle"
  BY DEF ApiInit, Init, RollupsStateIdle, Working
<1>3. ApiTypeOK
  BY <1>1, <1>2, FreeType, RelaunchedType, ApiAssumption DEF ApiTypeOK
<1>4. OneFinish /\ HoldsInProgress
  BY <1>2, FreeType, RelaunchedType DEF OneFinish, HoldsInProgress
<1> QED  BY <1>1, <1>3, <1>4 DEF ApiIInv

LEMMA ApiNextKeeps == ApiIInv /\ [ApiNext]_apiVars => ApiIInv'
<1> SUFFICES ASSUME ApiIInv, [ApiNext]_apiVars PROVE ApiIInv'
  OBVIOUS
<1>1. CASE InputsArrive
  BY <1>1, InputsArriveKeeps
<1>2. CASE SomeFinish
  BY <1>2, SendFinishKeeps DEF SomeFinish
<1>3. CASE \E p \in Payload : Output(p)
  BY <1>3, OutputKeeps
<1>4. CASE Exception
  BY <1>4, ExceptionKeeps
<1>5. CASE \E h \in Handler : Poll(h) \/ GiveUp(h) \/ NoticeGone(h)
  BY <1>5, PollKeeps, HandlerEndsKeeps
<1>6. CASE Relaunch \/ Disconnect
  BY <1>6, BreakKeeps
<1>7. CASE UNCHANGED apiVars
  <2>1. /\ UNCHANGED vars /\ state' = state
        /\ handlers' = handlers /\ dapp' = dapp /\ breaks' = breaks
    BY <1>7 DEF apiVars, vars
  <2>2. OneFinish' /\ HoldsInProgress'
    BY <2>1 DEF ApiIInv, OneFinish, HoldsInProgress, InProgress
  <2> QED  BY <2>1, <2>2, ApiStep DEF ApiIInv, ApiTypeOK
<1> QED  BY <1>1, <1>2, <1>3, <1>4, <1>5, <1>6, <1>7 DEF ApiNext

(* An input is accepted or rejected by a round of a finish handler only,   *)
(* which finishes the input in progress.                                   *)
LEMMA OnlyPollDecides ==
  ASSUME ApiIInv, [ApiNext]_apiVars, NEW i \in InputIndex, Decides(i)
  PROVE  \E h \in Handler :
           /\ Poll(h)
           /\ state.mode = "advance" /\ state.input = i
           /\ inputs'[i] = IF handlers[h].accepted THEN "accepted" ELSE "rejected"
<1>1. inputs \in [InputIndex -> {"absent"} \cup Status]
  BY DEF ApiIInv, IInv, TypeOK
<1>2. inputs[i] = "unprocessed" /\ inputs'[i] \in {"accepted", "rejected"}
  BY DEF Decides
<1>3. inputs' # inputs
  BY <1>2
<1>4. PICK h \in Handler : Poll(h)
  <2>1. ~InputsArrive
    BY <1>1, <1>2 DEF InputsArrive, AddInspectInput, AddAdvanceInput
  <2>2. ~Exception
    BY <1>1, <1>2 DEF Exception, RegisterException, AdvanceException, InspectFinish, tables
  <2> QED  BY <1>3, <2>1, <2>2
           DEF ApiNext, apiVars, vars, SomeFinish, SendFinish, Output, AddOutput, AddVoucher,
               AddNotice, AddReport, tables, GiveUp, NoticeGone, Relaunch, Disconnect, Break
<1>5. PICK status \in {"accepted", "rejected"} :
        /\ status = IF handlers[h].accepted THEN "accepted" ELSE "rejected"
        /\ AdvanceFinish(status)
  BY <1>3, <1>4 DEF Poll, FinishAndGetNext, IdleFinish, InspectFinish, tables
<1>6. state.mode = "advance" /\ inputs' = [inputs EXCEPT ![state.input] = status]
  BY <1>5 DEF AdvanceFinish
<1>7. state.input = i /\ inputs'[i] = status
  BY <1>1, <1>2, <1>6
<1> QED  BY <1>4, <1>5, <1>6, <1>7

(* The inductive invariant holds in every behaviour.                       *)
THEOREM ApiInvariance == ApiSpec => []ApiIInv
BY ApiInitFits, ApiNextKeeps, PTL DEF ApiSpec

(* Every variable of the API keeps its type.                               *)
THEOREM ApiTypeCorrect == ApiSpec => []ApiTypeOK
<1>1. ApiIInv => ApiTypeOK
  BY DEF ApiIInv
<1> QED  BY <1>1, ApiInvariance, PTL

(* As long as nothing broke, an output is recorded for the request it was  *)
(* made for, however many rounds and repetitions a finish takes.           *)
THEOREM OutputsMatchRequests == ApiSpec => []WorkingMatchesState
<1>1. ApiIInv => WorkingMatchesState
  BY DEF ApiIInv, HoldsInProgress, WorkingMatchesState
<1> QED  BY <1>1, ApiInvariance, PTL

(* As long as nothing broke, an input is decided by the finish its         *)
(* back-end sent after working on it, with the status of that finish.      *)
THEOREM OnlyHolderDecides == ApiSpec => HolderDecides
<1>1. ASSUME ApiIInv, [ApiNext]_apiVars, NEW i \in InputIndex, breaks = 0, Decides(i)
      PROVE  \E h \in Handler :
               /\ Moves(h)
               /\ handlers[h].finishing = [mode |-> "advance", input |-> i]
               /\ inputs'[i] = IF handlers[h].accepted THEN "accepted" ELSE "rejected"
  <2>1. PICK h \in Handler :
          /\ Poll(h)
          /\ state.mode = "advance" /\ state.input = i
          /\ inputs'[i] = IF handlers[h].accepted THEN "accepted" ELSE "rejected"
    BY <1>1, OnlyPollDecides
  <2>2. handlers[h].pc = "poll" /\ handlers \in [Handler -> HandlerState]
    BY <1>1, <2>1 DEF Poll, ApiIInv, ApiTypeOK
  <2>3. Moves(h)
    <3>1. CASE PollFound(h)
      BY <2>2, <3>1, FreeType DEF PollFound, Moves
    <3>2. CASE PollIdle(h)
      <4>1. /\ handlers[h].polls \in Nat /\ handlers'[h].polls = handlers[h].polls + 1
        BY <2>2, <3>2, ApiAssumption DEF PollIdle, HandlerState
      <4> QED  BY <4>1 DEF Moves
    <3> QED  BY <2>1, <3>1, <3>2 DEF Poll
  <2>4. handlers[h].finishing = dapp.holds
    BY <1>1, <2>2 DEF ApiIInv, OneFinish
  <2>5. dapp.holds = [mode |-> "advance", input |-> i]
    BY <1>1, <2>1 DEF ApiIInv, HoldsInProgress, InProgress
  <2> QED  BY <2>1, <2>3, <2>4, <2>5
<1>2. ApiIInv /\ [ApiNext]_apiVars =>
        [\A i \in InputIndex : (breaks = 0 /\ Decides(i)) =>
           \E h \in Handler :
             /\ Moves(h)
             /\ handlers[h].finishing = [mode |-> "advance", input |-> i]
             /\ inputs'[i] = IF handlers[h].accepted THEN "accepted" ELSE "rejected"]_apiVars
  BY <1>1
<1> QED  BY <1>2, ApiInvariance, PTL DEF ApiSpec, HolderDecides
=============================================================================
