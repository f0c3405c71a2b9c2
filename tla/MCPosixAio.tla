------------------------------ MODULE MCPosixAio -----------------------------
(* Small instances of PosixAio.                                            *)
EXTENDS PosixAio, TLC

CONSTANTS r1, r2, r3, t1, t2, t3

TwoRequests == {r1, r2}
ThreeRequests == {r1, r2, r3}
TwoThreads == {t1, t2}
ThreeThreads == {t1, t2, t3}

Symmetry3 == Permutations(ThreeRequests) \cup Permutations(ThreeThreads)
=============================================================================
