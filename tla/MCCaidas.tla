------------------------------ MODULE MCCaidas ------------------------------
(***************************************************************************)
(* The recovery of falls for TLC: the model with its inductive invariant    *)
(* and with the abstract specification it implements, in one run.           *)
(***************************************************************************)
EXTENDS CaidasInv, CaidasDesenlace
=============================================================================
