----------------------------- MODULE MCIndexing -----------------------------
EXTENDS Indexing, TLC

CONSTANTS r1, r2, a1, a2, a3, a4

\* One run of two batches, the first in two chunks.
OneRun == {r1}
TwoBatches == [r \in OneRun |-> <<{a1, a3}, {a2}>>]

\* Two runs of a video that was detected twice: the frame is the same, the crops
\* are not, and that of the second detection has vectors nobody can store.
TwoRuns == {r1, r2}
TwoDetections == (r1 :> <<{a1, a3}, {a2}>>) @@ (r2 :> <<{a1, a4}>>)

AllFaults == FaultKinds
RetriedFaults == {"transient", "lost", "crash"}
=============================================================================
