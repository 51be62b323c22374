--------------------------- MODULE MCLearningPush ---------------------------
(* Two instances, one peer and an Apple device shared with another account. *)
EXTENDS LearningPush

CONSTANTS i1, i2, p1

MCInstances == {i1, i2}
MCPeers     == {p1}
=============================================================================
