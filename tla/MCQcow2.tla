------------------------------ MODULE MCQcow2 -------------------------------
(* Qcow2 for TLC: seven host clusters, and the images to start from.       *)
EXTENDS Qcow2, TLC

CONSTANTS w1, w2

TwoCos == {w1, w2}
SevenClusters == 1..7
AllSetups == (BOOLEAN \X {"plain", "shared", "empty"}) \cup {<<TRUE, "compressed">>}
Shared == {<<FALSE, "shared">>}
Failures == {<<TRUE, "data">>, <<TRUE, "table">>, <<TRUE, "flush">>, <<FALSE, "data">>}
TableFailures == {<<FALSE, "table">>}
AllOps == {"write", "discard", "flush", "read"}
CoSymmetry == Permutations({w1, w2})
=============================================================================
