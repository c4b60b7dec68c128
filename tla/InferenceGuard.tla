--------------------------- MODULE InferenceGuard ----------------------------
(***************************************************************************)
(* The way the three model wrappers run inference: CLIPQueryEncoder of     *)
(* search, CLIPEmbedder of embedding, GroundingDINODetector of detection.  *)
(* A semaphore of one; inside it, wait_for with a timeout around a job of  *)
(* the executor, whose threads cannot be stopped: when the timeout strikes *)
(* the semaphore is free again and the thread goes on.                     *)
(***************************************************************************)
EXTENDS Naturals, Sequences, FiniteSets

CONSTANTS
    Callers,      \* coroutines that call encode_text, embed_image or detect
    PoolThreads   \* threads of the default executor

ASSUME GuardAssumption == PoolThreads \in Nat \ {0}

VARIABLES
    at,         \* at[c]: where coroutine c is
    waiters,    \* coroutines that wait for the semaphore, first come first
    job,        \* job[c]: the job of c in the executor
    abandoned   \* threads whose caller timed out and that still compute

guardVars == <<at, waiters, job, abandoned>>

GuardInit ==
    /\ at = [c \in Callers |-> "outside"]
    /\ waiters = << >>
    /\ job = [c \in Callers |-> "none"]
    /\ abandoned = 0

Holders == {c \in Callers : at[c] = "inside"}
Computing == {c \in Callers : job[c] = "computing"}
Threads == Cardinality(Computing) + abandoned

\* c goes in and hands its job to the executor, without a suspension.
Enter(c) ==
    /\ at' = [at EXCEPT ![c] = "inside"]
    /\ job' = [job EXCEPT ![c] = "queued"]

\* The first of those who wait goes in when c comes out.
Leave(c) ==
    IF waiters = << >>
    THEN /\ at' = [at EXCEPT ![c] = "outside"]
         /\ job' = [job EXCEPT ![c] = "none"]
         /\ UNCHANGED waiters
    ELSE /\ at' = [at EXCEPT ![c] = "outside", ![Head(waiters)] = "inside"]
         /\ job' = [job EXCEPT ![c] = "none", ![Head(waiters)] = "queued"]
         /\ waiters' = Tail(waiters)

\* Fault: no semaphore around the executor.
CallUnguarded(c) ==
    /\ at[c] = "outside"
    /\ Enter(c)
    /\ UNCHANGED <<waiters, abandoned>>

CallModel(c) ==
    /\ at[c] = "outside"
    /\ \/ /\ Holders = {}
          /\ Enter(c)
          /\ UNCHANGED waiters
       \/ /\ Holders # {}
          /\ at' = [at EXCEPT ![c] = "waiting"]
          /\ waiters' = Append(waiters, c)
          /\ UNCHANGED job
    /\ UNCHANGED abandoned

\* A thread takes the job, if one is free: threads that were abandoned are not.
StartJob(c) ==
    /\ job[c] = "queued"
    /\ Threads < PoolThreads
    /\ job' = [job EXCEPT ![c] = "computing"]
    /\ UNCHANGED <<at, waiters, abandoned>>

EndJob(c) ==
    /\ job[c] = "computing"
    /\ job' = [job EXCEPT ![c] = "done"]
    /\ UNCHANGED <<at, waiters, abandoned>>

EndAbandoned ==
    /\ abandoned > 0
    /\ abandoned' = abandoned - 1
    /\ UNCHANGED <<at, waiters, job>>

\* A result, or the exception of the thread: both leave the semaphore.
GetResult(c) ==
    /\ at[c] = "inside"
    /\ job[c] = "done"
    /\ Leave(c)
    /\ UNCHANGED abandoned

\* Fault: acquire and release by hand, and no release when wait_for raises.
TimeOutHolding(c) ==
    /\ at[c] = "inside"
    /\ job[c] \in {"queued", "computing"}
    /\ at' = [at EXCEPT ![c] = "outside"]
    /\ job' = [job EXCEPT ![c] = "none"]
    /\ abandoned' = abandoned + (IF job[c] = "computing" THEN 1 ELSE 0)
    /\ UNCHANGED waiters

\* wait_for cancels the future.  A job that waits in the executor's queue is
\* withdrawn; one that computes goes on and nobody reads its result.
TimeOut(c) ==
    /\ at[c] = "inside"
    /\ job[c] \in {"queued", "computing"}
    /\ Leave(c)
    /\ abandoned' = abandoned + (IF job[c] = "computing" THEN 1 ELSE 0)

GuardNext ==
    \/ \E c \in Callers :
          CallModel(c) \/ StartJob(c) \/ EndJob(c) \/ GetResult(c) \/ TimeOut(c)
    \/ EndAbandoned

GuardSpec == GuardInit /\ [][GuardNext]_guardVars

\* A coroutine inside goes on when its job is done or its time is over.  No
\* thread need ever end.
GuardFairness ==
    \A c \in Callers : WF_guardVars(GetResult(c) \/ TimeOut(c))

FairGuardSpec == GuardSpec /\ GuardFairness

-----------------------------------------------------------------------------
(* Properties                                                              *)

\* What is left of "all encode calls are serialised through a semaphore"
\* (clip_encoder.py): threads that a timeout left behind may compute beside a
\* call, but never two calls that somebody still waits for.
OneCallComputes ==
    \A c, d \in Computing : c = d

\* Every call comes back, with a vector or an error, even when each thread of
\* the pool hangs for ever.
EveryCallAnswered ==
    \A c \in Callers : at[c] # "outside" ~> at[c] = "outside"
=============================================================================
