---------------------------- MODULE MCEmbedIndex ----------------------------
EXTENDS EmbedIndex, TLC

CONSTANTS e1, r1, r2, a1, a2

\* One detection event, two attempts to embed it.
TwoRuns == {r1, r2}
OneEvent == [r \in TwoRuns |-> e1]
TwoBatches == [r \in TwoRuns |-> <<{a1}, {a2}>>]

NoFaults == {}
RetriedFaults == {"transient", "lost", "crash"}
=============================================================================
