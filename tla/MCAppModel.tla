----------------------------- MODULE MCAppModel -----------------------------
(* AppModel on a small instance: two inputs, and outputs that may be up to  *)
(* two per request in any mix of vouchers, notices and reports.             *)
EXTENDS AppModel

MCInputIndex == {0, 1}
=============================================================================
