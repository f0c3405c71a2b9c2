----------------------------- MODULE MCVmControl ----------------------------
(* Instances of VmControl for TLC.                                         *)
EXTENDS VmControl, TLC

(* Everything but suspending: what aborts runstate_set is checked apart.   *)
GuestNoSuspend == AllGuestOps \ {"suspend"}
(* The Java threads are interchangeable.                                   *)
UiSymmetry == Permutations(UiThreads)
=============================================================================
