------------------------------ MODULE MCCatFs ------------------------------
(***************************************************************************)
(* Instances of CatFs for TLC.                                             *)
(***************************************************************************)
EXTENDS CatFs, TLC

TwoReqs == 1..2
OneHandle == 1..1
OneFlock == {11}
=============================================================================
