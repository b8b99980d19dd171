---------------------------- MODULE MCSupervisor ----------------------------
(* Supervisor with the workers of main.go, anvil, the inputter and the HTTP *)
(* server in this order, and a second server worker after them, so that one *)
(* is also started after others.                                            *)
EXTENDS Supervisor

MCServer == {1, 4}
=============================================================================
