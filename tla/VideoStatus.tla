---------------------------- MODULE VideoStatus -----------------------------
(***************************************************************************)
(* The status column of video_records (shared/shared/models/video.py): the *)
(* one piece of state that every stage of the pipeline reads and writes.   *)
(***************************************************************************)

\* A video without a row: not committed by ingestion yet, or rolled back.
Absent == "ABSENT"

VideoStatuses ==
    {"PENDING", "PROCESSING", "PREPROCESSED", "DETECTED", "EMBEDDED",
     "INDEXED", "FAILED", "QUARANTINED", "DUPLICATE"}

\* _mark_status of the services: load the row, assign, commit.  It does
\* nothing when the row is missing, and compares with nothing when it is there.
Marked(old, new) == IF old = Absent THEN Absent ELSE new
=============================================================================
