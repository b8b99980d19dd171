-------------------------- MODULE DataAvailability --------------------------
(***************************************************************************)
(* What /gio answers (rollup.go, fetcher.go) and how the data is fetched   *)
(* from Espresso or Syscoin (dataavailability/).  Nothing here changes the *)
(* state of the server: the module is a set of functions, from a request   *)
(* and from what the services answer to what the caller gets.              *)
(*                                                                         *)
(* What may be missing (a nil pointer, an answer that is an error) is a    *)
(* sequence of at most one element.                                        *)
(***************************************************************************)
EXTENDS Integers, Sequences

CONSTANT EpochDuration   \* blocks in an epoch, 86400 unless configured

ASSUME EpochAssumption == EpochDuration \in Nat \ {0}

Missing == <<>>
Perhaps(S) == {Missing} \cup {<<x>> : x \in S}

-----------------------------------------------------------------------------
(* What a fetch returns.  A panic is recovered by a middleware.            *)

Data  == [kind |-> "data",  status |-> 200, body |-> TRUE]
Panic == [kind |-> "panic", status |-> 500, body |-> FALSE]
Waits == [kind |-> "waits", status |-> 0,   body |-> FALSE]
HttpCustomError(status, body) == [kind |-> "error", status |-> status, body |-> body]

Result == [kind : {"data", "panic", "waits", "error"}, status : Nat, body : BOOLEAN]

-----------------------------------------------------------------------------
(* Espresso                                                                *)

(* An id: whether it has the length of 64 bytes in hex and begins with 0x, *)
(* and the numbers made of it, of the characters rather than the digits.   *)
Id == [valid : BOOLEAN, maxBlockNumber : Nat, height : Nat]

(* The last input that was processed, of which the block matters.  The     *)
(* statement selects a column "timestamp" that the table does not have     *)
(* (it is block_timestamp), so the query fails and returns a nil pointer.  *)
CurrentInput == [blockNumber : Nat]
FindByStatusNeDesc == Missing

ComputeEpoch(blockNumber) == blockNumber \div EpochDuration

NoContext == [kind |-> "error", epoch |-> 0, currentEpoch |-> 0]

(* The input is used before the error of the query is looked at.           *)
FetchContext(input, maxBlockNumber) ==
  IF input = Missing THEN [NoContext EXCEPT !.kind = "panic"]
  ELSE LET epoch        == ComputeEpoch(maxBlockNumber)
           currentEpoch == ComputeEpoch(input[1].blockNumber)
       IN  IF epoch > currentEpoch
           THEN [kind |-> "context", epoch |-> epoch, currentEpoch |-> currentEpoch]
           ELSE NoContext

(* What the service says in one round of the loop: the height of the last  *)
(* block, and the header of a block, which may lack its L1 block.          *)
Service == [latest : Perhaps(Nat), header : Perhaps(Perhaps(Nat))]

(* The namespace, hex with a prefix, is parsed as a decimal number: this   *)
(* fails before the service is asked.                                      *)
GetTransactionByHeight(height) == Missing

(* How the header of a block, and the L1 block in it, end a round.         *)
HeaderRound(id, header, beyond, within) ==
  CASE header = Missing -> HttpCustomError(500, FALSE)
    [] header # Missing /\ header[1] = Missing -> Panic
    [] header # Missing /\ header[1] # Missing ->
         IF header[1][1] > id.maxBlockNumber THEN HttpCustomError(beyond, FALSE) ELSE within

Round(id, service) ==
  IF service.latest = Missing THEN HttpCustomError(500, FALSE)
  ELSE IF id.height > service.latest[1] THEN HeaderRound(id, service.header, 500, Waits)
  ELSE IF GetTransactionByHeight(id.height) = Missing THEN HttpCustomError(500, FALSE)
  ELSE HeaderRound(id, service.header, 404, Data)

(* Round after round, until one ends otherwise than by waiting.            *)
PollService(id, services) ==
  LET ends == {k \in DOMAIN services : Round(id, services[k]) # Waits}
  IN  IF ends = {} THEN Waits
      ELSE Round(id, services[CHOOSE k \in ends : \A l \in ends : k <= l])

EspressoFetch(id, input, services) ==
  LET context == FetchContext(input, id.maxBlockNumber)
  IN  IF ~id.valid THEN HttpCustomError(400, FALSE)
      ELSE IF context.kind = "panic" THEN Panic
      ELSE IF context.kind = "error" THEN HttpCustomError(500, FALSE)
      ELSE IF context.epoch > context.currentEpoch THEN HttpCustomError(403, FALSE)
      ELSE PollService(id, services)

-----------------------------------------------------------------------------
(* Syscoin: whatever the service answers, its body is the data.            *)
SyscoinFetch(answer) == IF answer = Missing THEN HttpCustomError(500, FALSE) ELSE Data

-----------------------------------------------------------------------------
(* /gio                                                                    *)

Espresso == 2222
Syscoin  == 5700

GioRequest == [json : BOOLEAN, binds : BOOLEAN, domain : Nat, id : Id]

Fetcher(request, input, services, answer) ==
  CASE request.domain = Espresso -> EspressoFetch(request.id, input, services)
    [] request.domain = Syscoin  -> SyscoinFetch(answer)
    [] request.domain \notin {Espresso, Syscoin} -> HttpCustomError(400, TRUE)

(* The error is logged before it is answered, and its text is the body it  *)
(* points to: without one, the handler panics whatever the status was.     *)
Answered(fetched) ==
  IF fetched.kind = "error" /\ ~fetched.body THEN Panic.status ELSE fetched.status

Gio(request, input, services, answer) ==
  IF ~request.json THEN 415
  ELSE IF ~request.binds THEN 400
  ELSE Answered(Fetcher(request, input, services, answer))
=============================================================================
