----------------------------- MODULE Ingestion ------------------------------
(***************************************************************************)
(* The ingestion service (services/ingestion): every upload is validated,  *)
(* looked up by its hash, stored in the raw bucket, inserted as a PENDING  *)
(* row and announced with video.ingested, in the one database transaction  *)
(* that get_db commits when the request is over.                           *)
(*                                                                         *)
(* A request stands for the video it would create: ingestion draws a fresh *)
(* video_id for each one.  HTTP uploads, RTSP captures and watched files   *)
(* all run the same pipeline.                                              *)
(***************************************************************************)
EXTENDS VideoStatus

CONSTANTS
    Requests,   \* uploads
    ContentOf,  \* ContentOf[r]: what the bytes of the upload hash to
    Corrupt,    \* contents that fail validation
    Faults      \* which failures happen

FaultKinds == {"storage", "database", "broker", "crash"}

NoVideo == "no video"
Unhashed == ""

ASSUME IngestionAssumption ==
    /\ Corrupt \subseteq {ContentOf[r] : r \in Requests}
    /\ NoVideo \notin Requests
    /\ Faults \subseteq FaultKinds

VARIABLES
    status,     \* status[v]: video_records.status, as committed
    pending,    \* rows inserted by a transaction that is still open
    objects,    \* videos with an object in the raw bucket
    published,  \* videos whose video.ingested event reached the exchange
    pc,         \* pc[r]: where the request is in _run_pipeline
    answer,     \* answer[r]: what the pipeline returned or raised
    original    \* original[r]: the video named by a duplicate response

rowVars == <<status, pending>>
answerVars == <<answer, original>>
vars == <<rowVars, objects, published, pc, answerVars>>

Stages == {"received", "record", "report", "upload", "insert", "cleanup",
           "publish", "commit", "done"}

Answers == {"none", "accepted", "duplicate", "rejected", "unavailable", "error"}

\* sha256_hash of the row: rejected uploads all carry the empty string.
Key(r) == IF ContentOf[r] \in Corrupt THEN Unhashed ELSE ContentOf[r]

Recorded(v) == status[v] # Absent

\* The UNIQUE constraint on sha256_hash: an insert waits for an open
\* transaction with the same key, and fails when a committed row has it.
Locked(r) == \E q \in pending \ {r} : Key(q) = Key(r)
Taken(r) == \E v \in Requests : Recorded(v) /\ Key(v) = Key(r)

IngestionInit ==
    /\ status = [v \in Requests |-> Absent]
    /\ pending = {}
    /\ objects = {}
    /\ published = {}
    /\ pc = [r \in Requests |-> "received"]
    /\ answer = [r \in Requests |-> "none"]
    /\ original = [r \in Requests |-> NoVideo]

Goto(r, s) == pc' = [pc EXCEPT ![r] = s]

\* The request is over, and its transaction with it.
Answer(r, a) ==
    /\ Goto(r, "done")
    /\ answer' = [answer EXCEPT ![r] = a]
    /\ pending' = pending \ {r}

-----------------------------------------------------------------------------
(* Validation and quarantine                                               *)

\* The bytes go to the quarantine bucket, which nothing in the model reads;
\* a failure is logged.
Quarantine(r) ==
    /\ pc[r] = "received"
    /\ ContentOf[r] \in Corrupt
    /\ Goto(r, "record")
    /\ UNCHANGED <<rowVars, objects, published, answerVars>>

\* Flush of the QUARANTINED row; a failure is logged.
RecordRejection(r) ==
    /\ pc[r] = "record"
    /\ ~ Locked(r)
    /\ \/ pending' = pending \cup {r}
       \/ "database" \in Faults /\ UNCHANGED pending
    /\ Goto(r, "report")
    /\ UNCHANGED <<status, objects, published, answerVars>>

\* Fault: the 422 leaves the transaction of the row open.
RejectHangs(r) ==
    /\ pc[r] = "report"
    /\ Goto(r, "done")
    /\ answer' = [answer EXCEPT ![r] = "rejected"]
    /\ UNCHANGED <<rowVars, objects, published, original>>

\* The webhook is called, and the 422 that follows rolls the row back.
Reject(r) ==
    /\ pc[r] = "report"
    /\ Answer(r, "rejected")
    /\ UNCHANGED <<status, objects, published, original>>

-----------------------------------------------------------------------------
(* _find_by_hash sees what is committed                                    *)

\* Fault: rows of open transactions are seen (READ UNCOMMITTED).
DirtyRead(r) ==
    /\ pc[r] = "received"
    /\ ContentOf[r] \notin Corrupt
    /\ \E v \in Requests :
          /\ Recorded(v) \/ v \in pending
          /\ Key(v) = Key(r)
          /\ original' = [original EXCEPT ![r] = v]
    /\ Answer(r, "duplicate")
    /\ UNCHANGED <<status, objects, published>>

FindDuplicate(r) ==
    /\ pc[r] = "received"
    /\ ContentOf[r] \notin Corrupt
    /\ \E v \in Requests :
          /\ Recorded(v)
          /\ Key(v) = Key(r)
          /\ original' = [original EXCEPT ![r] = v]
    /\ Answer(r, "duplicate")
    /\ UNCHANGED <<status, objects, published>>

FindNothing(r) ==
    /\ pc[r] = "received"
    /\ ContentOf[r] \notin Corrupt
    /\ ~ Taken(r)
    /\ Goto(r, "upload")
    /\ UNCHANGED <<rowVars, objects, published, answerVars>>

LookupFails(r) ==
    /\ "database" \in Faults
    /\ pc[r] = "received"
    /\ ContentOf[r] \notin Corrupt
    /\ Answer(r, "error")
    /\ UNCHANGED <<status, objects, published, original>>

-----------------------------------------------------------------------------
(* Upload, insert, publish, commit                                         *)

Upload(r) ==
    /\ pc[r] = "upload"
    /\ objects' = objects \cup {r}
    /\ Goto(r, "insert")
    /\ UNCHANGED <<rowVars, published, answerVars>>

\* 503 after three attempts, the last of which may have stored the object.
UploadFails(r) ==
    /\ "storage" \in Faults
    /\ pc[r] = "upload"
    /\ objects' \in {objects, objects \cup {r}}
    /\ Answer(r, "unavailable")
    /\ UNCHANGED <<status, published, original>>

\* Fault: no UNIQUE constraint behind the lookup.
InsertUnchecked(r) ==
    /\ pc[r] = "insert"
    /\ pending' = pending \cup {r}
    /\ Goto(r, "publish")
    /\ UNCHANGED <<status, objects, published, answerVars>>

Insert(r) ==
    /\ pc[r] = "insert"
    /\ ~ Locked(r)
    /\ ~ Taken(r)
    /\ pending' = pending \cup {r}
    /\ Goto(r, "publish")
    /\ UNCHANGED <<status, objects, published, answerVars>>

\* The upload lost the race against another one of the same content, or the
\* database fails.
InsertFails(r) ==
    /\ pc[r] = "insert"
    /\ ~ Locked(r)
    /\ Taken(r) \/ "database" \in Faults
    /\ Goto(r, "cleanup")
    /\ UNCHANGED <<rowVars, objects, published, answerVars>>

\* Fault: objects named by their content are deleted for all uploads of it.
DeleteByContent(r) ==
    /\ pc[r] = "cleanup"
    /\ objects' = {v \in objects : Key(v) # Key(r)}
    /\ Answer(r, "error")
    /\ UNCHANGED <<status, published, original>>

\* Best effort: S3 errors are swallowed.
DeleteObject(r) ==
    /\ pc[r] = "cleanup"
    /\ \/ objects' = objects \ {r}
       \/ "storage" \in Faults /\ UNCHANGED objects
    /\ Answer(r, "error")
    /\ UNCHANGED <<status, published, original>>

PublishEvent(r) ==
    /\ pc[r] = "publish"
    /\ published' = published \cup {r}
    /\ Goto(r, "commit")
    /\ UNCHANGED <<rowVars, objects, answerVars>>

\* Logged and swallowed.  The event may be out, when only its confirm is lost.
PublishFails(r) ==
    /\ "broker" \in Faults
    /\ pc[r] = "publish"
    /\ published' \in {published, published \cup {r}}
    /\ Goto(r, "commit")
    /\ UNCHANGED <<rowVars, objects, answerVars>>

\* get_db, after the handler returned.
Commit(r) ==
    /\ pc[r] = "commit"
    /\ status' = [status EXCEPT ![r] = "PENDING"]
    /\ Answer(r, "accepted")
    /\ UNCHANGED <<objects, published, original>>

\* Fault: the connection goes back to the pool with its transaction open.
CommitHangs(r) ==
    /\ "database" \in Faults
    /\ pc[r] = "commit"
    /\ Goto(r, "done")
    /\ answer' = [answer EXCEPT ![r] = "error"]
    /\ UNCHANGED <<rowVars, objects, published, original>>

CommitFails(r) ==
    /\ "database" \in Faults
    /\ pc[r] = "commit"
    /\ Answer(r, "error")
    /\ UNCHANGED <<status, objects, published, original>>

\* The process dies: the requests it was serving, their transactions and the
\* watcher's queue are gone.
CrashIngestion ==
    /\ "crash" \in Faults
    /\ \E r \in Requests : pc[r] \notin {"received", "done"}
    /\ pc' = [r \in Requests |->
                 IF pc[r] = "received" THEN "received" ELSE "done"]
    /\ pending' = {}
    /\ UNCHANGED <<status, objects, published, answerVars>>

-----------------------------------------------------------------------------
Request(r) ==
    \/ Quarantine(r) \/ RecordRejection(r) \/ Reject(r)
    \/ FindDuplicate(r) \/ FindNothing(r) \/ LookupFails(r)
    \/ Upload(r) \/ UploadFails(r)
    \/ Insert(r) \/ InsertFails(r) \/ DeleteObject(r)
    \/ PublishEvent(r) \/ PublishFails(r) \/ Commit(r) \/ CommitFails(r)

IngestionNext == CrashIngestion \/ \E r \in Requests : Request(r)

IngestionSpec == IngestionInit /\ [][IngestionNext]_vars

-----------------------------------------------------------------------------
(* Properties                                                              *)

IngestionTypeOK ==
    /\ status \in [Requests -> VideoStatuses \cup {Absent}]
    /\ pending \subseteq {r \in Requests : pc[r] \in {"report", "publish", "commit"}}
    /\ objects \subseteq Requests
    /\ published \subseteq Requests
    /\ pc \in [Requests -> Stages]
    /\ answer \in [Requests -> Answers]
    /\ original \in [Requests -> Requests \cup {NoVideo}]

\* What preprocessing will fetch is there: neither a row nor an event refers
\* to an object that was never stored, or was deleted by the cleanup of a
\* failed insert - its own or that of a concurrent upload.
ReferencedObjectsExist ==
    \A v \in Requests : Recorded(v) \/ v \in published => v \in objects

\* Concurrent uploads of the same content, none of which finds the other,
\* leave one record (video.py: the hash is the deduplication key).
OneRecordPerContent ==
    \A v, w \in Requests :
        Recorded(v) /\ Recorded(w) /\ Key(v) = Key(w) => v = w

\* A duplicate response names a video that is there to stay, with the same
\* content: not one whose transaction was rolled back afterwards.
DuplicatesAreRecorded ==
    \A r \in Requests :
        answer[r] = "duplicate" =>
            Recorded(original[r]) /\ Key(original[r]) = Key(r)

\* No upload waits forever behind the transaction of another.
EventuallyAnswered ==
    \A r \in Requests : pc[r] # "received" ~> pc[r] = "done"
=============================================================================
