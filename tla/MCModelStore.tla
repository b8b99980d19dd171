---------------------------- MODULE MCModelStore ----------------------------
(* ModelStore with two inputs.  A request done again after a fault can     *)
(* emit other outputs than before, or another number of them.              *)
EXTENDS ModelStore

MCInputIndex == {0, 1}
=============================================================================
