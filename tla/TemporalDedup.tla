---------------------------- MODULE TemporalDedup ----------------------------
(***************************************************************************)
(* SearchService._temporal_deduplicate: one pass over the ranked results   *)
(* of a search that drops a result when a better one of the same video     *)
(* starts within the window.  Ranked order is not time order, so a result  *)
(* must be compared with everything kept of its video.  The loop is a      *)
(* state machine, one step per result.                                     *)
(***************************************************************************)
EXTENDS Integers, Sequences

CONSTANTS
    Hits,         \* hydrated results; a video may have two that start together
    Videos,
    VideoOf,      \* VideoOf[h], StartOf[h]: video_id and timestamp_start
    StartOf,
    DedupWindow,  \* SEARCH_TEMPORAL_DEDUP_WINDOW_MS
    RankedLists   \* the lists _temporal_deduplicate is called with

ASSUME DedupAssumption ==
    /\ VideoOf \in [Hits -> Videos]
    /\ StartOf \in [Hits -> Nat]
    /\ DedupWindow \in Nat
    /\ RankedLists \subseteq Seq(Hits)

VARIABLES
    ranked,  \* the results, best first
    passed,  \* how many of them the loop has passed
    kept,    \* the results kept, best first
    keptAt   \* keptAt[v]: kept_timestamps, the start times kept of video v

dedupVars == <<ranked, passed, kept, keptAt>>

DedupInit ==
    /\ ranked = << >>
    /\ passed = 0
    /\ kept = << >>
    /\ keptAt = [v \in Videos |-> << >>]

DedupCall ==
    /\ passed = Len(ranked)
    /\ ranked' \in RankedLists
    /\ passed' = 0
    /\ kept' = << >>
    /\ keptAt' = [v \in Videos |-> << >>]

\* Fault: the window of any video.
Near(s, t) == s - t < DedupWindow /\ t - s < DedupWindow
SuppressedAnywhere(h) ==
    \E v \in Videos : \E i \in DOMAIN keptAt[v] : Near(StartOf[h], keptAt[v][i])

\* Fault: only the last kept result of the video is looked at, as if ranked
\* order were time order.
SuppressedByLast(h) ==
    LET times == keptAt[VideoOf[h]]
    IN  times # << >> /\ Near(StartOf[h], times[Len(times)])

Suppressed(h) ==
    LET times == keptAt[VideoOf[h]]
    IN  \E i \in DOMAIN times : Near(StartOf[h], times[i])

SuppressHit ==
    /\ passed < Len(ranked)
    /\ Suppressed(ranked[passed + 1])
    /\ passed' = passed + 1
    /\ UNCHANGED <<ranked, kept, keptAt>>

KeepHit ==
    LET h == ranked[passed + 1]
    IN  /\ passed < Len(ranked)
        /\ ~ Suppressed(h)
        /\ passed' = passed + 1
        /\ kept' = Append(kept, h)
        /\ keptAt' = [keptAt EXCEPT ![VideoOf[h]] = Append(@, StartOf[h])]
        /\ UNCHANGED ranked

DedupNext == DedupCall \/ SuppressHit \/ KeepHit

DedupSpec == DedupInit /\ [][DedupNext]_dedupVars

-----------------------------------------------------------------------------
(* Properties                                                              *)

Close(g, h) == VideoOf[g] = VideoOf[h] /\ Near(StartOf[g], StartOf[h])

\* No two results of an answer show the same moment of a video, in whatever
\* order of time the ranking brings them.
KeptApart ==
    \A i, j \in DOMAIN kept : i # j => ~ Close(kept[i], kept[j])

\* What is dropped is represented: a better result of the same video, within
\* the window, is in the answer.
SuppressedNearBetter ==
    \A j \in 1..passed :
        \/ \E k \in DOMAIN kept : kept[k] = ranked[j]
        \/ \E i \in 1..(j - 1) : /\ \E k \in DOMAIN kept : kept[k] = ranked[i]
                                 /\ Close(ranked[i], ranked[j])
=============================================================================
