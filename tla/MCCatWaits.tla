----------------------------- MODULE MCCatWaits ----------------------------
(***************************************************************************)
(* Instances of CatWaits for TLC.                                          *)
(***************************************************************************)
EXTENDS CatWaits, TLC

TwoFds == 1..2
TwoCalls == 1..2
TwoHandles == 1..2
OneProcess == 1..1

MCUses ==
  { {"poll", "cancel"},
    {"os_wait"}, {"os_wait", "cancel"}, {"os_wait", "stop"},
    {"process", "signal", "cancel"},
    {"wait_group", "signal", "cancel"} }

ChildUses == { {"os_wait"} }

Symmetric == Permutations(Coroutine) \cup Permutations(Pid)
=============================================================================
