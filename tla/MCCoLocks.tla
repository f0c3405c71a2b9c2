------------------------------ MODULE MCCoLocks -----------------------------
(* An instance of CoLocks for TLC: a holder, a woken waiter, a newcomer.   *)
EXTENDS CoLocks

CONSTANTS c1, c2, c3

ThreeCos == {c1, c2, c3}
=============================================================================
