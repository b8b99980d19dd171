--------------------------- MODULE InputLifecycle ---------------------------
(***************************************************************************)
(* What the rollups server promises about an advance input, with nothing   *)
(* said of how: an input arrives once, is decided once, and what the       *)
(* application emitted for it becomes visible together with the decision.  *)
(* Vouchers and notices are visible for accepted inputs only, reports      *)
(* whatever the decision (api/rollup.yaml, POST /finish).                  *)
(*                                                                         *)
(* AppModel implements this specification.                                 *)
(***************************************************************************)
CONSTANTS
  InputIndex,   \* the indices of the inputs the input box can emit
  Output,       \* the voucher and notice rows that can be published
  Log           \* the report sequences that can be logged for one input

VARIABLES
  verdict,      \* [InputIndex -> "absent", "unprocessed" or a verdict]
  published,    \* [InputIndex -> set of vouchers and notices of the input]
  logged        \* [InputIndex -> reports of the input]

lifecycleVars == <<verdict, published, logged>>

Init ==
  /\ verdict   = [i \in InputIndex |-> "absent"]
  /\ published = [i \in InputIndex |-> {}]
  /\ logged    = [i \in InputIndex |-> <<>>]

(* The input box emitted input i and the server stored it. *)
Arrive(i) ==
  /\ verdict[i] = "absent"
  /\ verdict' = [verdict EXCEPT ![i] = "unprocessed"]
  /\ UNCHANGED <<published, logged>>

(* Input i gets its verdict, its outputs and its reports in one step; what *)
(* belongs to the other inputs does not move.                              *)
Decide(i, v) ==
  /\ verdict[i] = "unprocessed"
  /\ verdict' = [verdict EXCEPT ![i] = v]
  /\ published' \in [InputIndex -> SUBSET Output]
  /\ logged' \in [InputIndex -> Log]
  /\ v # "accepted" => published'[i] = {}
  /\ \A j \in InputIndex \ {i} : /\ published'[j] = published[j]
                                 /\ logged'[j] = logged[j]

Next ==
  \E i \in InputIndex :
    \/ Arrive(i)
    \/ \E v \in {"accepted", "rejected", "exception"} : Decide(i, v)

Spec == Init /\ [][Next]_lifecycleVars
=============================================================================
