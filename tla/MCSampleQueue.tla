--------------------------- MODULE MCSampleQueue ---------------------------
(* An instance of SampleQueue for TLC: a queue of one and a window of two, *)
(* so that the third request rolls the first into the history.             *)
EXTENDS SampleQueue, TLC

CONSTANTS i1, i2, i3, i4, p1, p2, v1, v2, c1, c2

McIds == {i1, i2, i3, i4}
McPayloads == {p1, p2}
McViews == {v1, v2}
McClients == {c1, c2}

McSymmetry == Permutations(McPayloads) \cup Permutations(McViews)
                \cup Permutations(McClients) \cup Permutations(McIds)
=============================================================================
