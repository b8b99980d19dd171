----------------------------- MODULE MCInputter -----------------------------
(* Inputter with three inputs, so that one can be read, one missed and one   *)
(* watched, and two lives of the process.                                   *)
EXTENDS Inputter

MCInputIndex == 0 .. 2
=============================================================================
