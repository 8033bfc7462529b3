----------------------------- MODULE MCSinkSDDS -----------------------------
EXTENDS SinkSDDS, TLC

StreamSymmetry == Permutations(Streams)

SlotsSuffice ==
    \A c \in Callers : call[c].at = "spawn" => \E k \in Slots : Free(call[c].port, k)
=============================================================================
