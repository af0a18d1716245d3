------------------------------- MODULE Worker -------------------------------
(***************************************************************************)
(* The worker: RQ's worker process with its forked work horse, and         *)
(* process_job inside it (apps/worker/runner.py).                          *)
(*                                                                         *)
(* One action per call process_job makes on the row, the blobs or the      *)
(* queue, so that the api, the other workers, a kill and a fault can come  *)
(* between any two of them.  pc names the next call:                       *)
(*   taken      RQ gave the job to the worker; run_job has not started     *)
(*   load       an upload's audio, or a link's kept download, to read      *)
(*   fetch      a link's audio to download                                 *)
(*   keep       the download to store                                      *)
(*   attach     its key to record on the row                               *)
(*   work       the pipeline to run, its stem to store                     *)
(*   store      the result to write                                        *)
(*   refuse     the input's own failure to write                           *)
(*   caught     a failed attempt to write                                  *)
(*   returning, raising    RQ to be told                                   *)
(***************************************************************************)
EXTENDS JobStore, JobQueue

CONSTANTS
  Workers,  \* worker processes, each with at most one horse
  Stalls    \* may RQ give up on a worker that is alive?  See Abandon

ASSUME WorkerAssumption == Stalls \in BOOLEAN

VARIABLE wk  \* wk[w]: what worker w's horse is doing

InTry   == {"load", "fetch", "keep", "attach", "work", "store"}
Handler == {"refuse", "caught"}
Leaving == {"returning", "raising"}

(* left is the retries_left run_job read when it started; audio is the     *)
(* content the attempt works on.                                           *)
Horse == [pc    : {"idle", "taken"} \cup InTry \cup Handler \cup Leaving,
          job   : Jobs \cup {None},
          left  : 0..MAX_RETRIES,
          audio : Audio \cup {None}]

NoHorse == [pc |-> "idle", job |-> None, left |-> 0, audio |-> None]

WorkerTypeOK ==
  /\ wk \in [Workers -> Horse]
  /\ \A w \in Workers : wk[w].pc # "idle" => wk[w].job \in Jobs
  /\ \A w \in Workers :
        wk[w].pc \in {"keep", "attach", "work", "store"} => wk[w].audio \in Audio

WorkerInit == wk = [w \in Workers |-> NoHorse]

At(w, pc)   == wk[w].pc = pc
Goto(w, pc) == wk' = [wk EXCEPT ![w].pc = pc]
Release(w)  == wk' = [wk EXCEPT ![w] = NoHorse]

(* An attempt past mark_running: the row is in its hands.                  *)
Attempting(w, j) ==
  wk[w].job = j /\ wk[w].pc \in InTry \cup Handler \cup Leaving
Holds(w, j) == wk[w].job = j /\ wk[w].pc # "idle"

-----------------------------------------------------------------------------
(* The delivery.                                                           *)

Take(w, j) ==
  /\ At(w, "idle")
  /\ Deliver(j)
  /\ wk' = [wk EXCEPT ![w] = [pc |-> "taken", job |-> j,
                              left |-> left[j], audio |-> None]]
  /\ UNCHANGED <<storeVars, blobs, faults>>

(* Mutant: a retry whose download was kept downloads again, and works on   *)
(* what it got.                                                            *)
StartDownloadingAgain(w) ==
  LET j == wk[w].job IN
  /\ At(w, "taken")
  /\ mark_running(j)
  /\ \E audio \in Downloads :
        wk' = [wk EXCEPT ![w].pc = IF ~Active(j) THEN "returning"
                                   ELSE IF rows[j].upload_key = None THEN "fetch"
                                   ELSE "work",
                         ![w].audio = audio]
  /\ UNCHANGED <<blobs, queueVars, faults>>

(* `get`, which only filters the finished, and mark_running, which refuses *)
(* them as well, so the two are one step.  A finished row: return at once. *)
Start(w) ==
  LET j == wk[w].job IN
  /\ At(w, "taken")
  /\ mark_running(j)
  /\ wk' = [wk EXCEPT ![w].pc = IF ~Active(j) THEN "returning"
                                ELSE IF rows[j].upload_key = None THEN "fetch"
                                ELSE "load",
                      ![w].audio = rows[j].upload_key]
  /\ UNCHANGED <<blobs, queueVars, faults>>

-----------------------------------------------------------------------------
(* The attempt, inside process_job's try.                                  *)

(* _stored_audio: a key whose blob is missing raises.                      *)
Load(w) ==
  /\ At(w, "load")
  /\ Goto(w, IF <<"upload", wk[w].audio>> \in blobs THEN "work" ELSE "caught")
  /\ UNCHANGED <<storeVars, blobs, queueVars, faults>>

(* Mutant: the key is recorded before the blob is stored.                  *)
DownloadUnkept(w) ==
  /\ At(w, "fetch")
  /\ \E audio \in Downloads :
        wk' = [wk EXCEPT ![w].pc = "attach", ![w].audio = audio]
  /\ UNCHANGED <<storeVars, blobs, queueVars, faults>>

(* _fetch: links are on, and the child downloads one of the video's        *)
(* encodings: another attempt may get other bytes.                         *)
Download(w) ==
  /\ At(w, "fetch")
  /\ \E audio \in Downloads :
        wk' = [wk EXCEPT ![w].pc = "keep", ![w].audio = audio]
  /\ UNCHANGED <<storeVars, blobs, queueVars, faults>>

Keep(w) ==
  /\ At(w, "keep")
  /\ put_file("upload", wk[w].audio)
  /\ Goto(w, "attach")
  /\ UNCHANGED <<storeVars, queueVars, faults>>

(* S3 of the catalog: attach_upload answers False, and the attempt returns *)
(* without a result.                                                       *)
Attach(w) ==
  LET j == wk[w].job IN
  /\ At(w, "attach")
  /\ attach_upload(j, wk[w].audio)
  /\ Goto(w, IF Running(j) THEN "work" ELSE "returning")
  /\ UNCHANGED <<blobs, queueVars, faults>>

(* _ProgressWriter: never 100, and a refused write is only logged.         *)
Progress(w) ==
  LET j == wk[w].job IN
  /\ \/ At(w, "fetch") /\ set_progress(j, "download", 0)
     \/ At(w, "work") /\ set_progress(j, "pipeline", Midway)
  /\ UNCHANGED <<wk, blobs, queueVars, faults>>

(* run_pipeline behind CachedSeparator: the stem is stored under the hash  *)
(* of the bytes at hand.                                                   *)
Separate(w) ==
  /\ At(w, "work")
  /\ put_file("stem", wk[w].audio)
  /\ Goto(w, "store")
  /\ UNCHANGED <<storeVars, queueVars, faults>>

(* A refused `succeed` is logged, and the result dropped.                  *)
Succeed(w) ==
  /\ At(w, "store")
  /\ succeed(wk[w].job, wk[w].audio)
  /\ Goto(w, "returning")
  /\ UNCHANGED <<blobs, queueVars, faults>>

(* A PipelineError that another attempt would meet again: links are off,   *)
(* the video or the audio is not one we take.                              *)
InputRefused(w) ==
  /\ wk[w].pc \in {"load", "fetch", "work"}
  /\ Goto(w, "refuse")
  /\ UNCHANGED <<storeVars, blobs, queueVars, faults>>

(* A retryable PipelineError, any other exception, or the job timeout.     *)
AttemptFails(w) ==
  /\ wk[w].pc \in InTry
  /\ Goto(w, "caught")
  /\ UNCHANGED <<storeVars, blobs, queueVars, faults>>

-----------------------------------------------------------------------------
(* The handlers.                                                           *)

Refuse(w) ==
  /\ At(w, "refuse")
  /\ fail(wk[w].job, "running")
  /\ Goto(w, "returning")
  /\ UNCHANGED <<blobs, queueVars, faults>>

(* _failed_attempt: requeue the row for RQ's retry, or fail it for good.   *)
FailedAttempt(w) ==
  LET j == wk[w].job IN
  /\ At(w, "caught")
  /\ IF wk[w].left > 0 THEN requeue(j) ELSE fail(j, "running")
  /\ Goto(w, "raising")
  /\ UNCHANGED <<blobs, queueVars, faults>>

Return(w) ==
  /\ At(w, "returning")
  /\ Finished(wk[w].job)
  /\ Release(w)
  /\ UNCHANGED <<storeVars, blobs, faults>>

Raise(w) ==
  /\ At(w, "raising")
  /\ Retry(wk[w].job, wk[w].left)
  /\ Release(w)
  /\ UNCHANGED <<storeVars, blobs, faults>>

-----------------------------------------------------------------------------
(* Faults.                                                                 *)

(* A call of the store raises: it was never carried out, or it was and the *)
(* answer was lost.  Inside the try that is one more failed attempt;       *)
(* before it, or in a handler, run_job itself raises.                      *)
CallRaises(w) ==
  LET j == wk[w].job IN
  /\ Fault
  /\ \/ /\ At(w, "taken")
        /\ mark_running(j) \/ UNCHANGED storeVars
        /\ Goto(w, "raising")
     \/ /\ At(w, "attach")
        /\ attach_upload(j, wk[w].audio)
        /\ Goto(w, "caught")
     \/ /\ At(w, "store")
        /\ succeed(j, wk[w].audio)
        /\ Goto(w, "caught")
     \/ /\ At(w, "refuse")
        /\ fail(j, "running") \/ UNCHANGED storeVars
        /\ Goto(w, "raising")
     \/ /\ At(w, "caught")
        /\ UNCHANGED storeVars
        /\ Goto(w, "raising")
  /\ UNCHANGED <<blobs, queueVars>>

(* The horse dies, of memory say: the worker's main process sees it and    *)
(* asks RQ for the retry.  No except ran: the row stays as it was.         *)
KillHorse(w) ==
  /\ Fault
  /\ wk[w].pc # "idle"
  /\ Retry(wk[w].job, wk[w].left)
  /\ Release(w)
  /\ UNCHANGED <<storeVars, blobs>>

(* The worker dies, horse and all: RQ still has the job as started.        *)
KillWorker(w) ==
  /\ Fault
  /\ wk[w].pc # "idle"
  /\ Release(w)
  /\ UNCHANGED <<storeVars, blobs, queueVars>>

(* RQ's registry cleanup gives up on a started job whose worker's          *)
(* heartbeat stopped.  With Stalls the worker may only have been frozen or *)
(* cut off from Redis, or be an orphaned horse, and still hold the job: a  *)
(* duplicate delivery.                                                     *)
Abandon(j) ==
  /\ rq[j] = "started"
  /\ \/ (\A w \in Workers : ~Holds(w, j)) /\ UNCHANGED faults
     \/ Stalls /\ Fault
  /\ Retry(j, left[j])
  /\ UNCHANGED <<storeVars, blobs, wk>>

FlushRedis ==
  /\ Fault
  /\ Flush
  /\ UNCHANGED <<storeVars, blobs, wk>>

WorkerStep(w) ==
  \/ \E j \in Jobs : Take(w, j)
  \/ Start(w) \/ Load(w) \/ Download(w) \/ Keep(w) \/ Attach(w)
  \/ Progress(w) \/ Separate(w) \/ Succeed(w)
  \/ InputRefused(w) \/ AttemptFails(w) \/ Refuse(w) \/ FailedAttempt(w)
  \/ Return(w) \/ Raise(w)
  \/ CallRaises(w) \/ KillHorse(w) \/ KillWorker(w)
=============================================================================
