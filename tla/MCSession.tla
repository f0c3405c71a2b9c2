----------------------------- MODULE MCSession ------------------------------
(* Session for TLC: two drives and two names for snapshots.                *)
EXTENDS Session, TLC

CONSTANTS t1, t2, l1, l2, l3, a, b

TwoThreads == {t1, t2}
ThreeListeners == {l1, l2, l3}
TwoNames == {a, b}

SessionSymmetry ==
  Permutations(Threads) \cup Permutations(Listeners) \cup Permutations(Names)
=============================================================================
