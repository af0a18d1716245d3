----------------------------- MODULE JobSystem ------------------------------
(***************************************************************************)
(* The job system: the api's requests and the workers, racing over one     *)
(* table, one queue and one blob store, and the clock that makes a row old *)
(* enough to be suspected (reconcile.py's grace periods).                  *)
(***************************************************************************)
EXTENDS Api, Worker

vars == <<rows, aged, asRead, blobs, faults, rq, line, left, wk, req>>

TypeOK ==
  /\ FaultsTypeOK
  /\ StoreTypeOK
  /\ QueueTypeOK
  /\ WorkerTypeOK
  /\ ApiTypeOK

Init ==
  /\ FaultsInit
  /\ StoreInit
  /\ QueueInit
  /\ WorkerInit
  /\ ApiInit

-----------------------------------------------------------------------------
(* The clock.                                                              *)

(* The gap between insert and enqueue is within QUEUED_GRACE: what holds   *)
(* the request there is a Redis call with a five second timeout.           *)
BeingQueued(j) ==
  \E q \in Requests : req[q].job = j /\ req[q].pc \in {"enqueue", "unqueue"}

(* An attempt ends by the job timeout, counted from before mark_running,   *)
(* so a row it holds is not left unwritten for the timeout and the grace,  *)
(* unless the attempt's process was frozen.                                *)
BeingRun(j) == \E w \in Workers : Attempting(w, j)

Age(j) ==
  /\ j \notin aged
  /\ \/ rows[j].status = "queued" /\ ~BeingQueued(j)
     \/ rows[j].status = "running" /\ (Stalls \/ ~BeingRun(j))
  /\ aged' = aged \cup {j}
  /\ UNCHANGED <<rows, asRead, blobs, faults, queueVars, wk, req>>

Next ==
  \/ \E q \in Requests : ApiStep(q) /\ UNCHANGED wk
  \/ \E w \in Workers : WorkerStep(w) /\ UNCHANGED req
  \/ \E j \in Jobs : Abandon(j) /\ UNCHANGED req
  \/ FlushRedis /\ UNCHANGED req
  \/ \E j \in Jobs : Age(j)

Spec == Init /\ [][Next]_vars

-----------------------------------------------------------------------------
(* Fairness.  A process that is not killed goes on: a worker's horse, an   *)
(* api thread, RQ's dispatch and its registry cleanup, and time.  Someone  *)
(* polls each job: the song page does, every 1.5 s until the job is        *)
(* finished (SongPage.tsx), and a busy thread pool still gets to it.       *)

HorseGoesOn(w) ==
  /\ \/ Start(w) \/ Load(w) \/ Download(w) \/ Keep(w) \/ Attach(w)
     \/ Separate(w) \/ Succeed(w) \/ Refuse(w) \/ FailedAttempt(w)
     \/ Return(w) \/ Raise(w)
  /\ UNCHANGED req

RequestGoesOn(q) ==
  /\ \/ \E j \in Jobs : AskQueue(q, j)
     \/ FailLost(q) \/ AnswerRead(q) \/ FindLive(q) \/ CheckLimit(q)
     \/ ListActive(q) \/ Recount(q) \/ Prepare(q) \/ Create(q)
     \/ Enqueue(q) \/ Unqueue(q)
  /\ UNCHANGED wk

Polled(j) == \E q \in Requests : GetJob(q, j) /\ UNCHANGED wk

Fairness ==
  /\ \A w \in Workers : WF_vars(HorseGoesOn(w))
  /\ \A q \in Requests : WF_vars(RequestGoesOn(q))
  /\ \A j \in Jobs :
       /\ WF_vars(\E w \in Workers : Take(w, j) /\ UNCHANGED req)
       /\ WF_vars(Abandon(j) /\ UNCHANGED req)
       /\ WF_vars(Age(j))
       /\ SF_vars(Polled(j))

FairSpec == Spec /\ Fairness

-----------------------------------------------------------------------------
(* Safety.                                                                 *)

(* One live row per song, whatever races: the dedupe rule of spec 005 and  *)
(* the partial unique index.                                               *)
OneLivePerSong ==
  \A i, j \in Jobs : Live(i) /\ Live(j) /\ rows[i].song = rows[j].song => i = j

(* No address has more active jobs than its limit, however many requests   *)
(* race past check_limit, and whatever retries bring back.                 *)
ActiveLimit == \A ip \in Addresses : count_active(ip) <= MaxActive

(* A row names no file that is not stored: the mix and the stem can be     *)
(* served, and a retry finds the audio it counts on.                       *)
FilesStored ==
  \A j \in Jobs :
    /\ rows[j].upload_key # None => <<"upload", rows[j].upload_key>> \in blobs
    /\ rows[j].stem_key # None => <<"stem", rows[j].stem_key>> \in blobs

(* A song that succeeded has its mix and its stem, and the stem was taken  *)
(* from that very mix: "a stem from one download must not meet the mix     *)
(* from another" (runner.py).                                              *)
StemMatchesMix ==
  \A j \in Jobs : rows[j].status = "succeeded" =>
                    rows[j].upload_key # None /\ rows[j].stem_key = rows[j].upload_key

(* What a poll shows: a stage only while running, nothing done while       *)
(* queued, and all done exactly when it succeeded.                         *)
ProgressShown ==
  \A j \in Jobs :
    /\ rows[j].stage # "none" => Running(j)
    /\ rows[j].status = "queued" => rows[j].percent = 0
    /\ rows[j].percent = 100 <=> rows[j].status = "succeeded"

(* While RQ delivers a job once at a time, an attempt in its try has the   *)
(* row to itself and running: nobody fails it, so no result is dropped.    *)
AttemptOwnsRow ==
  ~Stalls => \A w \in Workers : wk[w].pc \in InTry =>
                /\ Running(wk[w].job)
                /\ \A v \in Workers : Holds(v, wk[w].job) => v = w

(* And a job is attempted no more than its retries allow.                  *)
AttemptsBounded ==
  ~Stalls => \A j \in Jobs : rows[j].attempts <= MAX_RETRIES + 1

-----------------------------------------------------------------------------
(* Action properties.                                                      *)

(* A finished row is never written again, by anyone: a poll that saw the   *)
(* end has seen the end.                                                   *)
FinishedIsFinal ==
  [][\A j \in Jobs : rows[j].status \in FinishedStatuses
                       => rows'[j] = rows[j]]_vars

(* A request fails a running row as lost only when its worker is gone:     *)
(* "the worker was killed outright, horse and all" (reconcile.py).  It     *)
(* does not hold: see the README.                                          *)
FailedAsLost(j) ==
  /\ rows[j].status # "failed" /\ rows'[j].status = "failed"
  /\ \E q \in Requests : req[q].lost = j /\ req'[q].lost = None

LostMeansKilled ==
  [][\A j \in Jobs : FailedAsLost(j) /\ Running(j)
                       => \A w \in Workers : ~Holds(w, j)]_vars

-----------------------------------------------------------------------------
(* Liveness.                                                               *)

(* A job somebody polls comes to an end, whatever was killed or lost on    *)
(* the way: "a job the system really lost is failed by the api's           *)
(* reconciliation, which these reads trigger" (SongPage.tsx).              *)
PolledJobEnds ==
  \A j \in Jobs : Exists(j) ~> rows[j].status \in FinishedStatuses

-----------------------------------------------------------------------------
(* The job system implements the record its readers are promised.          *)

Record == INSTANCE JobRecord WITH
            status   <- [j \in Jobs |-> rows[j].status],
            attempts <- [j \in Jobs |-> rows[j].attempts],
            song     <- [j \in Jobs |-> rows[j].song],
            ip       <- [j \in Jobs |-> rows[j].client_ip]

RecordSpec == Record!Spec
=============================================================================
