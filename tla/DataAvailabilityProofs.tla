----------------------- MODULE DataAvailabilityProofs -----------------------
(***************************************************************************)
(* What /gio can answer, for every request, every input that might be the  *)
(* current one and everything the services may say.                        *)
(***************************************************************************)
EXTENDS DataAvailability, TLAPS

(* fetchContext (espresso.go:98) lets pass only blocks of a later epoch    *)
(* than the current input's, and Fetch (espresso.go:137) refuses exactly   *)
(* these: no request gets as far as to ask the Espresso service.           *)
THEOREM ChecksContradict ==
  ASSUME NEW id \in Id, id.valid, NEW input \in Perhaps(CurrentInput), NEW services
  PROVE  EspressoFetch(id, input, services)
           \in {Panic, HttpCustomError(500, FALSE), HttpCustomError(403, FALSE)}
<1> DEFINE context == FetchContext(input, id.maxBlockNumber)
<1>1. \/ context.kind \in {"panic", "error"}
      \/ context.kind = "context" /\ context.epoch > context.currentEpoch
  BY DEF FetchContext, NoContext
<1> HIDE DEF context
<1>2. CASE context.kind = "panic" BY <1>2 DEF EspressoFetch, context
<1>3. CASE context.kind = "error" BY <1>3 DEF EspressoFetch, context
<1>4. CASE context.kind = "context" /\ context.epoch > context.currentEpoch
  BY <1>4 DEF EspressoFetch, context
<1> QED BY <1>1, <1>2, <1>3, <1>4

(* A block that is there is never returned: its transactions are asked for *)
(* with a namespace that does not parse (espresso_api.go:106).             *)
THEOREM NoRoundReturnsABlock ==
  ASSUME NEW id \in Id, NEW service \in Service
  PROVE  Round(id, service).kind # "data"
BY DEF Round, HeaderRound, GetTransactionByHeight, HttpCustomError, Panic, Waits

(* The answer to a request for an Espresso block is the status of a panic, *)
(* whatever the status was that Fetch chose (400 for a malformed id, 403   *)
(* for a block of another epoch): none of its errors has a body            *)
(* (http_custom_error.go:13).                                              *)
THEOREM EspressoAnswers500 ==
  ASSUME NEW request \in GioRequest, request.json, request.binds, request.domain = Espresso,
         NEW input \in Perhaps(CurrentInput), NEW services, NEW answer
  PROVE  Gio(request, input, services, answer) = 500
<1> DEFINE fetched == EspressoFetch(request.id, input, services)
<1>1. request.id \in Id BY DEF GioRequest
<1>2. fetched \in {Panic, HttpCustomError(400, FALSE), HttpCustomError(500, FALSE),
                   HttpCustomError(403, FALSE)}
  <2>1. CASE request.id.valid
    <3>1. fetched \in {Panic, HttpCustomError(500, FALSE), HttpCustomError(403, FALSE)}
      BY <1>1, <2>1, ChecksContradict
    <3> QED BY <3>1
  <2>2. CASE ~request.id.valid BY <2>2 DEF EspressoFetch
  <2> QED BY <2>1, <2>2
<1> HIDE DEF fetched
<1>3. Answered(fetched) = 500 BY <1>2 DEF Answered, Panic, HttpCustomError
<1>4. Fetcher(request, input, services, answer) = fetched
  BY DEF Fetcher, fetched, Espresso, Syscoin
<1> QED BY <1>3, <1>4 DEF Gio
=============================================================================
