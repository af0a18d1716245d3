-------------------------- MODULE JobSystemProofs ---------------------------
(***************************************************************************)
(* Theorems of the job system, for every set of jobs, workers, requests,   *)
(* songs and addresses, and every number of faults: the table, the gate    *)
(* and the queue first, then a job followed from its submission through    *)
(* queue and workers.                                                      *)
(***************************************************************************)
EXTENDS JobSystem, FiniteSetTheorems, TLAPS

-----------------------------------------------------------------------------
(* The store's calls keep the table well-formed.                           *)

(* Whatever row a call writes under its condition is a row of the table.   *)
LEMMA UpdateType ==
  ASSUME StoreTypeOK, NEW j \in Jobs, NEW allowed, NEW row \in Row,
         Update(j, allowed, row)
  PROVE  /\ rows' \in [Jobs -> Row]
         /\ aged' \in SUBSET Jobs
         /\ asRead' \in [Requests -> SUBSET Jobs]
  BY DEF Update, Stamp, storeVars, StoreTypeOK

(* What each call writes is a row, field by field.                         *)

Started(row, attempts) ==
  [row EXCEPT !.status = "running",
              !.attempts = attempts,
              !.stage = "none",
              !.percent = 0]

LEMMA StartedType ==
  ASSUME NEW row \in Row, NEW attempts \in Nat
  PROVE  Started(row, attempts) \in Row
  <1> DEFINE r1 == [row EXCEPT !.status = "running"]
             r2 == [r1 EXCEPT !.attempts = attempts]
             r3 == [r2 EXCEPT !.stage = "none"]
             r4 == [r3 EXCEPT !.percent = 0]
  <1>1. r1 \in Row
    BY DEF Row, Statuses, ActiveStatuses, FinishedStatuses
  <1> HIDE DEF r1
  <1>2. r2 \in Row
    BY <1>1 DEF Row
  <1> HIDE DEF r2
  <1>3. r3 \in Row
    BY <1>2 DEF Row
  <1> HIDE DEF r3
  <1>4. r4 \in Row
    BY <1>3 DEF Row
  <1> HIDE DEF r4
  <1>5. QED
    BY <1>4 DEF Started, r1, r2, r3, r4

Progressed(row, stage, percent) ==
  [row EXCEPT !.stage = stage,
              !.percent = percent]

LEMMA ProgressedType ==
  ASSUME NEW row \in Row,
         NEW stage \in {"none", "download", "pipeline"},
         NEW percent \in {0, Midway, 100}
  PROVE  Progressed(row, stage, percent) \in Row
  <1> DEFINE r1 == [row EXCEPT !.stage = stage]
             r2 == [r1 EXCEPT !.percent = percent]
  <1>1. r1 \in Row
    BY DEF Row
  <1> HIDE DEF r1
  <1>2. r2 \in Row
    BY <1>1 DEF Row
  <1> HIDE DEF r2
  <1>3. QED
    BY <1>2 DEF Progressed, r1, r2

Attached(row, key) ==
  [row EXCEPT !.upload_key = key]

LEMMA AttachedType ==
  ASSUME NEW row \in Row, NEW key \in Audio \cup {None}
  PROVE  Attached(row, key) \in Row
  <1> DEFINE r1 == [row EXCEPT !.upload_key = key]
  <1>1. r1 \in Row
    BY DEF Row
  <1> HIDE DEF r1
  <1>2. QED
    BY <1>1 DEF Attached, r1

Done(row, key) ==
  [row EXCEPT !.status = "succeeded",
              !.stage = "none",
              !.percent = 100,
              !.stem_key = key]

LEMMA DoneType ==
  ASSUME NEW row \in Row, NEW key \in Audio \cup {None}
  PROVE  Done(row, key) \in Row
  <1> DEFINE r1 == [row EXCEPT !.status = "succeeded"]
             r2 == [r1 EXCEPT !.stage = "none"]
             r3 == [r2 EXCEPT !.percent = 100]
             r4 == [r3 EXCEPT !.stem_key = key]
  <1>1. r1 \in Row
    BY DEF Row, Statuses, ActiveStatuses, FinishedStatuses
  <1> HIDE DEF r1
  <1>2. r2 \in Row
    BY <1>1 DEF Row
  <1> HIDE DEF r2
  <1>3. r3 \in Row
    BY <1>2 DEF Row
  <1> HIDE DEF r3
  <1>4. r4 \in Row
    BY <1>3 DEF Row
  <1> HIDE DEF r4
  <1>5. QED
    BY <1>4 DEF Done, r1, r2, r3, r4

GivenUp(row) ==
  [row EXCEPT !.status = "failed",
              !.stage = "none"]

LEMMA GivenUpType ==
  ASSUME NEW row \in Row
  PROVE  GivenUp(row) \in Row
  <1> DEFINE r1 == [row EXCEPT !.status = "failed"]
             r2 == [r1 EXCEPT !.stage = "none"]
  <1>1. r1 \in Row
    BY DEF Row, Statuses, ActiveStatuses, FinishedStatuses
  <1> HIDE DEF r1
  <1>2. r2 \in Row
    BY <1>1 DEF Row
  <1> HIDE DEF r2
  <1>3. QED
    BY <1>2 DEF GivenUp, r1, r2

PutBack(row) ==
  [row EXCEPT !.status = "queued",
              !.stage = "none",
              !.percent = 0]

LEMMA PutBackType ==
  ASSUME NEW row \in Row
  PROVE  PutBack(row) \in Row
  <1> DEFINE r1 == [row EXCEPT !.status = "queued"]
             r2 == [r1 EXCEPT !.stage = "none"]
             r3 == [r2 EXCEPT !.percent = 0]
  <1>1. r1 \in Row
    BY DEF Row, Statuses, ActiveStatuses, FinishedStatuses
  <1> HIDE DEF r1
  <1>2. r2 \in Row
    BY <1>1 DEF Row
  <1> HIDE DEF r2
  <1>3. r3 \in Row
    BY <1>2 DEF Row
  <1> HIDE DEF r3
  <1>4. QED
    BY <1>3 DEF PutBack, r1, r2, r3

LEMMA CallsType ==
  ASSUME StoreTypeOK, NEW j \in Jobs, NEW key \in Audio \cup {None},
         NEW stage \in {"none", "download", "pipeline"},
         NEW percent \in {0, Midway, 100}, NEW expect,
         \/ mark_running(j)
         \/ set_progress(j, stage, percent)
         \/ attach_upload(j, key)
         \/ succeed(j, key)
         \/ fail(j, expect)
         \/ requeue(j)
         \/ UNCHANGED storeVars
  PROVE  /\ rows' \in [Jobs -> Row]
         /\ aged' \in SUBSET Jobs
         /\ asRead' \in [Requests -> SUBSET Jobs]
  <1>1. rows[j] \in Row /\ rows[j].attempts + 1 \in Nat
    BY DEF StoreTypeOK, Row
  <1>2. CASE mark_running(j)
    <2>1. Update(j, ActiveStatuses, Started(rows[j], rows[j].attempts + 1))
      BY <1>2 DEF mark_running, Started
    <2>2. QED
      BY <1>1, <2>1, StartedType, UpdateType
  <1>3. CASE set_progress(j, stage, percent)
    <2>1. Update(j, {"running"}, Progressed(rows[j], stage, percent))
      BY <1>3 DEF set_progress, Progressed
    <2>2. QED
      BY <1>1, <2>1, ProgressedType, UpdateType
  <1>4. CASE attach_upload(j, key)
    <2>1. Update(j, {"running"}, Attached(rows[j], key))
      BY <1>4 DEF attach_upload, Attached
    <2>2. QED
      BY <1>1, <2>1, AttachedType, UpdateType
  <1>5. CASE succeed(j, key)
    <2>1. Update(j, {"running"}, Done(rows[j], key))
      BY <1>5 DEF succeed, Done
    <2>2. QED
      BY <1>1, <2>1, DoneType, UpdateType
  <1>6. CASE fail(j, expect)
    <2>1. Update(j, {expect}, GivenUp(rows[j]))
      BY <1>6 DEF fail, GivenUp
    <2>2. QED
      BY <1>1, <2>1, GivenUpType, UpdateType
  <1>7. CASE requeue(j)
    <2>1. Update(j, {"running"}, PutBack(rows[j]))
      BY <1>7 DEF requeue, PutBack
    <2>2. QED
      BY <1>1, <2>1, PutBackType, UpdateType
  <1>8. CASE UNCHANGED storeVars
    BY <1>8 DEF storeVars, StoreTypeOK
  <1>9. QED
    BY <1>2, <1>3, <1>4, <1>5, <1>6, <1>7, <1>8

-----------------------------------------------------------------------------
(* Type correctness, one component at a time.                              *)

LEMMA QueueStep ==
  ASSUME TypeOK, [Next]_vars
  PROVE  QueueTypeOK' /\ FaultsTypeOK'
  <1> USE DEF QueueTypeOK, FaultsTypeOK, RQStatuses, Fault
  <1>a. QueueTypeOK /\ FaultsTypeOK /\ MAX_RETRIES \in Nat /\ WorkerTypeOK
    BY QueueAssumption DEF TypeOK
  <1>b. (UNCHANGED queueVars) => QueueTypeOK'
    BY <1>a DEF queueVars
  <1>c. (UNCHANGED faults \/ Fault) => FaultsTypeOK'
    BY <1>a, FaultsAssumption
  <1>d. ASSUME NEW j \in Jobs, NEW n \in 0..MAX_RETRIES, Retry(j, n)
        PROVE  QueueTypeOK'
    BY <1>a, <1>d DEF Retry, queueVars
  <1>e. ASSUME NEW j \in Jobs, enqueue(j) \/ Deliver(j) \/ Finished(j)
        PROVE  QueueTypeOK'
    BY <1>a, <1>e DEF enqueue, Deliver, Finished
  <1>1. CASE \E q \in Requests : ApiStep(q)
    <2> SUFFICES ASSUME NEW q \in Requests, ApiStep(q)
                 PROVE  QueueTypeOK' /\ FaultsTypeOK'
      BY <1>1
    <2>1. CASE UNCHANGED queueVars /\ (UNCHANGED faults \/ Fault)
      BY <2>1, <1>b, <1>c
    <2>2. CASE Enqueue(q) \/ EnqueueRaises(q)
      <3>1. req[q].job \in Jobs
        BY <2>2 DEF TypeOK, ApiTypeOK, Enqueue, EnqueueRaises, Step
      <3>2. enqueue(req[q].job) \/ UNCHANGED queueVars
        BY <2>2 DEF Enqueue, EnqueueRaises
      <3>3. UNCHANGED faults \/ Fault
        BY <2>2 DEF Enqueue, EnqueueRaises
      <3>4. QED
        BY <3>1, <3>2, <3>3, <1>b, <1>c, <1>e
    <2>3. QED
      BY <2>1, <2>2 DEF ApiStep, GetJob, AskQueue, QueueDown, FailLost,
           AnswerRead, Post, FindLive, CheckLimit, ListActive, Recount, Prepare,
           LookupRefused, Create, Unqueue, Abort
  <1>2. CASE \E w \in Workers : WorkerStep(w)
    <2> SUFFICES ASSUME NEW w \in Workers, WorkerStep(w)
                 PROVE  QueueTypeOK' /\ FaultsTypeOK'
      BY <1>2
    <2>1. CASE UNCHANGED queueVars /\ (UNCHANGED faults \/ Fault)
      BY <2>1, <1>b, <1>c
    <2>2. CASE \E j \in Jobs : Take(w, j)
      BY <2>2, <1>c, <1>e DEF Take
    <2>3. CASE Return(w) \/ Raise(w) \/ KillHorse(w)
      <3>1. wk[w].job \in Jobs /\ wk[w].left \in 0..MAX_RETRIES
        BY <2>3, <1>a DEF WorkerTypeOK, Horse, Return, Raise, KillHorse, At
      <3>2. UNCHANGED faults \/ Fault
        BY <2>3 DEF Return, Raise, KillHorse
      <3>3. Finished(wk[w].job) \/ Retry(wk[w].job, wk[w].left)
        BY <2>3 DEF Return, Raise, KillHorse
      <3>4. QED
        BY <3>1, <3>2, <3>3, <1>c, <1>d, <1>e
    <2>4. QED
      BY <2>1, <2>2, <2>3 DEF WorkerStep, Start, Load, Download, Keep, Attach,
           Progress, Separate, Succeed, InputRefused, AttemptFails, Refuse,
           FailedAttempt, CallRaises, KillWorker
  <1>3. CASE \E j \in Jobs : Abandon(j)
    <2>1. PICK j \in Jobs : Abandon(j)
      BY <1>3
    <2>2. left[j] \in 0..MAX_RETRIES
      BY <1>a
    <2>3. QED
      BY <2>1, <2>2, <1>c, <1>d DEF Abandon
  <1>4. CASE FlushRedis
    BY <1>4, <1>a, <1>c DEF FlushRedis, Flush
  <1>5. CASE (\E j \in Jobs : Age(j)) \/ UNCHANGED vars
    BY <1>5, <1>b, <1>c DEF Age, vars, queueVars
  <1>6. QED
    BY <1>1, <1>2, <1>3, <1>4, <1>5 DEF Next

LEMMA WorkerTypeStep ==
  ASSUME TypeOK, [Next]_vars
  PROVE  WorkerTypeOK'
  <1>a. /\ wk \in [Workers -> Horse]
        /\ \A w \in Workers : wk[w].pc # "idle" => wk[w].job \in Jobs
        /\ \A w \in Workers : wk[w].pc \in {"keep", "attach", "work", "store"}
                                => wk[w].audio \in Audio
    BY DEF TypeOK, WorkerTypeOK
  <1>b. CASE UNCHANGED wk
    BY <1>a, <1>b DEF WorkerTypeOK
  <1>c. ASSUME NEW w \in Workers, NEW horse \in Horse,
               horse.pc # "idle" => horse.job \in Jobs,
               horse.pc \in {"keep", "attach", "work", "store"}
                 => horse.audio \in Audio,
               wk' = [wk EXCEPT ![w] = horse]
        PROVE  WorkerTypeOK'
    BY <1>a, <1>c DEF WorkerTypeOK
  <1>1. ASSUME NEW w \in Workers, WorkerStep(w)
        PROVE  WorkerTypeOK'
    <2>h. wk[w] \in Horse
      BY <1>a
    <2> USE DEF InTry, Handler, Leaving
    <2>1. CASE \E j \in Jobs : Take(w, j)
      <3>1. PICK j \in Jobs : Take(w, j)
        BY <2>1
      <3>2. left[j] \in 0..MAX_RETRIES
        BY DEF TypeOK, QueueTypeOK
      <3>3. QED
        BY <3>1, <3>2, <1>c DEF Take, Horse
    <2>2. CASE Release(w)
      <3>1. NoHorse \in Horse
        BY QueueAssumption DEF NoHorse, Horse
      <3>2. QED
        BY <2>2, <3>1, <1>c DEF Release, NoHorse
    <2>3. CASE Start(w)
      <3>1. wk[w].job \in Jobs
        BY <2>3, <1>a DEF Start, At
      <3>2. rows[wk[w].job].upload_key \in Audio \cup {None}
        BY <3>1 DEF TypeOK, StoreTypeOK, Row
      <3>3. QED
        BY <2>3, <2>h, <3>1, <3>2, <1>a DEF Start, WorkerTypeOK, Horse
    <2>4. CASE Load(w)
      <3>1. <<"upload", wk[w].audio>> \in blobs => wk[w].audio \in Audio
        BY DEF TypeOK, StoreTypeOK
      <3>2. CASE <<"upload", wk[w].audio>> \in blobs
        BY <2>4, <3>1, <3>2, <2>h, <1>a DEF Load, Goto, At, WorkerTypeOK, Horse
      <3>3. CASE <<"upload", wk[w].audio>> \notin blobs
        BY <2>4, <3>3, <2>h, <1>a DEF Load, Goto, At, WorkerTypeOK, Horse
      <3>4. QED
        BY <3>2, <3>3
    <2>5. CASE Download(w)
      <3>1. PICK audio \in Downloads :
                   wk' = [wk EXCEPT ![w].pc = "keep", ![w].audio = audio]
        BY <2>5 DEF Download
      <3>2. audio \in Audio /\ wk[w].job \in Jobs
        BY <2>5, <1>a DEF Audio, Download, At
      <3>3. QED
        BY <3>1, <3>2, <2>h, <1>a DEF WorkerTypeOK, Horse
    <2>6. CASE Keep(w) \/ Attach(w) \/ Separate(w) \/ Succeed(w)
      BY <2>6, <2>h, <1>a DEF Keep, Attach, Separate, Succeed, Goto, At,
           WorkerTypeOK, Horse
    <2>7. CASE Progress(w)
      BY <2>7, <1>b DEF Progress
    <2>8. CASE InputRefused(w) \/ AttemptFails(w) \/ Refuse(w)
                 \/ FailedAttempt(w) \/ CallRaises(w)
      BY <2>8, <2>h, <1>a DEF InputRefused, AttemptFails, Refuse, FailedAttempt,
           CallRaises, Goto, At, WorkerTypeOK, Horse
    <2>9. QED
      BY <1>1, <2>1, <2>2, <2>3, <2>4, <2>5, <2>6, <2>7, <2>8
         DEF WorkerStep, Return, Raise, KillHorse, KillWorker
  <1>2. QED
    BY <1>1, <1>b DEF Next, Abandon, FlushRedis, Age, vars

-----------------------------------------------------------------------------
(* Every step of the system is, to the table, a fresh row under the        *)
(* conditions of `create`, one call of the store, or nothing.              *)

Created ==
  \E j \in Jobs, song \in Songs, ip \in Addresses, key \in Audio \cup {None} :
    /\ ~Exists(j)
    /\ find_live(song) = {}
    /\ count_active(ip) < MaxActive
    /\ Insert(j, song, ip, key)

Called ==
  \E j \in Jobs, key \in Audio \cup {None},
     stage \in {"none", "download", "pipeline"}, percent \in {0, Midway},
     expect \in ActiveStatuses \cup {"none"} :
    \/ mark_running(j)
    \/ set_progress(j, stage, percent)
    \/ attach_upload(j, key)
    \/ key \in Audio /\ succeed(j, key)
    \/ fail(j, expect)
    \/ requeue(j)

Untouched ==
  /\ UNCHANGED rows
  /\ aged' \in SUBSET Jobs
  /\ asRead' \in [Requests -> SUBSET Jobs]

LEMMA StoreStep ==
  ASSUME TypeOK, [Next]_vars
  PROVE  Created \/ Called \/ Untouched
  <1>a. /\ aged \in SUBSET Jobs
        /\ asRead \in [Requests -> SUBSET Jobs]
    BY DEF TypeOK, StoreTypeOK
  <1>b. (UNCHANGED storeVars) => Untouched
    BY <1>a DEF storeVars, Untouched
  <1>1. ASSUME NEW q \in Requests, ApiStep(q)
        PROVE  Created \/ Called \/ Untouched
    <2>h. req[q] \in Request
      BY DEF TypeOK, ApiTypeOK
    <2>1. CASE UNCHANGED storeVars
      BY <2>1, <1>b
    <2>2. CASE \E j \in Jobs : GetJob(q, j)
      <3>1. PICK js, pc : ReadRows(q, js, pc)
        BY <2>2 DEF GetJob
      <3>2. QED
        BY <3>1, <1>a DEF ReadRows, Suspects, Untouched
    <2>3. CASE FindLive(q) \/ ListActive(q)
      <3>1. PICK js, pc : ReadRows(q, js, pc)
        BY <2>3 DEF FindLive, ListActive
      <3>2. QED
        BY <3>1, <1>a DEF ReadRows, Suspects, Untouched
    <2>4. CASE (\E j \in Jobs : AskQueue(q, j) \/ QueueDown(q, j)) \/ Abort(q)
      BY <2>4, <1>a DEF AskQueue, QueueDown, LeaveAlone, Abort, Untouched
    <2>5. CASE FailLost(q)
      <3>1. req[q].lost \in Jobs
        BY <2>5, <2>h DEF FailLost, Request
      <3>2. req[q].suspect[req[q].lost] \in ActiveStatuses \cup {"none"}
        BY <3>1, <2>h DEF Request
      <3>3. \/ fail(req[q].lost, req[q].suspect[req[q].lost])
            \/ UNCHANGED storeVars
        BY <2>5 DEF FailLost, fail_as_read
      <3>4. QED
        BY <3>1, <3>2, <3>3, <1>b DEF Called
    <2>6. CASE Create(q)
      <3>1. CASE UNCHANGED storeVars
        BY <3>1, <1>b
      <3>2. CASE /\ find_live(req[q].song) = {}
                 /\ count_active(req[q].ip) < MaxActive
                 /\ \E j \in Jobs :
                      /\ ~Exists(j)
                      /\ Insert(j, req[q].song, req[q].ip,
                                IF req[q].song \in Uploads THEN req[q].song
                                                           ELSE None)
        <4>1. req[q].song \in Songs /\ req[q].ip \in Addresses
          BY <2>6 DEF Create, TypeOK, ApiTypeOK, Posting
        <4>2. (IF req[q].song \in Uploads THEN req[q].song ELSE None)
                \in Audio \cup {None}
          BY DEF Audio
        <4>3. QED
          BY <3>2, <4>1, <4>2 DEF Created
      <3>3. QED
        BY <2>6, <3>1, <3>2 DEF Create
    <2>7. CASE Unqueue(q)
      <3>1. req[q].job \in Jobs
        BY <2>7 DEF Unqueue, TypeOK, ApiTypeOK
      <3>2. fail(req[q].job, "queued")
        BY <2>7 DEF Unqueue
      <3>3. QED
        BY <3>1, <3>2 DEF Called, ActiveStatuses
    <2>8. QED
      BY <1>1, <2>1, <2>2, <2>3, <2>4, <2>5, <2>6, <2>7 DEF ApiStep, AnswerRead,
         Post, CheckLimit, Recount, Prepare, LookupRefused, Enqueue, EnqueueRaises
  <1>2. ASSUME NEW w \in Workers, WorkerStep(w)
        PROVE  Created \/ Called \/ Untouched
    <2>1. CASE UNCHANGED storeVars
      BY <2>1, <1>b
    <2>2. CASE \/ Start(w) \/ Attach(w) \/ Progress(w) \/ Succeed(w)
               \/ Refuse(w) \/ FailedAttempt(w) \/ CallRaises(w)
      <3>1. wk[w].pc # "idle"
        BY <2>2 DEF Start, Attach, Progress, Succeed, Refuse, FailedAttempt,
           CallRaises, At, Handler
      <3>2. wk[w].job \in Jobs /\ wk[w].audio \in Audio \cup {None}
        BY <3>1 DEF TypeOK, WorkerTypeOK, Horse
      <3>3. wk[w].pc = "store" => wk[w].audio \in Audio
        BY DEF TypeOK, WorkerTypeOK
      <3>4. \/ mark_running(wk[w].job)
            \/ attach_upload(wk[w].job, wk[w].audio)
            \/ set_progress(wk[w].job, "download", 0)
            \/ set_progress(wk[w].job, "pipeline", Midway)
            \/ wk[w].audio \in Audio /\ succeed(wk[w].job, wk[w].audio)
            \/ fail(wk[w].job, "running")
            \/ requeue(wk[w].job)
            \/ UNCHANGED storeVars
        BY <2>2, <3>3 DEF Start, Attach, Progress, Succeed, Refuse,
           FailedAttempt, CallRaises, At
      <3>5. Called \/ UNCHANGED storeVars
        BY <3>2, <3>4 DEF Called, ActiveStatuses
      <3>6. QED
        BY <3>5, <1>b
    <2>3. QED
      BY <1>2, <2>1, <2>2 DEF WorkerStep, Take, Load, Download, Keep, Separate,
         InputRefused, AttemptFails, Return, Raise, KillHorse, KillWorker
  <1>3. CASE \E j \in Jobs : Age(j)
    BY <1>3, <1>a DEF Age, Untouched
  <1>4. QED
    BY <1>1, <1>2, <1>3, <1>b DEF Next, Abandon, FlushRedis, vars, storeVars

LEMMA CreatedType ==
  ASSUME StoreTypeOK, Created
  PROVE  /\ rows' \in [Jobs -> Row]
         /\ aged' \in SUBSET Jobs
         /\ asRead' \in [Requests -> SUBSET Jobs]
  <1>1. PICK j \in Jobs, song \in Songs, ip \in Addresses,
             key \in Audio \cup {None} : Insert(j, song, ip, key)
    BY DEF Created
  <1>2. [NoRow EXCEPT !.song = song, !.client_ip = ip, !.status = "queued",
                      !.upload_key = key] \in Row
    BY DEF NoRow, Row, Statuses, ActiveStatuses
  <1>3. QED
    BY <1>1, <1>2 DEF Insert, Stamp, StoreTypeOK

LEMMA BlobsStep ==
  ASSUME TypeOK, [Next]_vars
  PROVE  blobs' \in SUBSET ({"upload", "stem"} \X Audio)
  <1>a. blobs \in SUBSET ({"upload", "stem"} \X Audio)
    BY DEF TypeOK, StoreTypeOK
  <1>b. ASSUME NEW kind \in {"upload", "stem"}, NEW audio \in Audio,
               put_file(kind, audio)
        PROVE  blobs' \in SUBSET ({"upload", "stem"} \X Audio)
    BY <1>a, <1>b DEF put_file
  <1>1. ASSUME NEW q \in Requests, ApiStep(q)
        PROVE  blobs' \in SUBSET ({"upload", "stem"} \X Audio)
    <2>1. CASE Prepare(q)
      <3>1. CASE req[q].song \in Uploads
        <4>1. req[q].song \in Audio
          BY <3>1 DEF Audio
        <4>2. QED
          BY <2>1, <3>1, <4>1, <1>b DEF Prepare
      <3>2. CASE req[q].song \notin Uploads
        BY <2>1, <3>2, <1>a DEF Prepare
      <3>3. QED
        BY <3>1, <3>2
    <2>2. CASE UNCHANGED blobs
      BY <2>2, <1>a
    <2>3. QED
      BY <1>1, <2>1, <2>2 DEF ApiStep, GetJob, AskQueue, QueueDown, FailLost,
         AnswerRead, Post, FindLive, CheckLimit, ListActive, Recount,
         LookupRefused, Create, Enqueue, EnqueueRaises, Unqueue, Abort
  <1>2. ASSUME NEW w \in Workers, WorkerStep(w)
        PROVE  blobs' \in SUBSET ({"upload", "stem"} \X Audio)
    <2>1. CASE Keep(w) \/ Separate(w)
      <3>1. wk[w].audio \in Audio
        BY <2>1 DEF Keep, Separate, At, TypeOK, WorkerTypeOK
      <3>2. QED
        BY <2>1, <3>1, <1>b DEF Keep, Separate
    <2>2. CASE UNCHANGED blobs
      BY <2>2, <1>a
    <2>3. QED
      BY <1>2, <2>1, <2>2 DEF WorkerStep, Take, Start, Load, Download, Attach,
         Progress, Succeed, InputRefused, AttemptFails, Refuse, FailedAttempt,
         Return, Raise, CallRaises, KillHorse, KillWorker
  <1>3. QED
    BY <1>a, <1>1, <1>2 DEF Next, Abandon, FlushRedis, Age, vars

LEMMA StoreTypeStep ==
  ASSUME TypeOK, [Next]_vars
  PROVE  StoreTypeOK'
  <1>1. StoreTypeOK
    BY DEF TypeOK
  <1>2. /\ rows' \in [Jobs -> Row]
        /\ aged' \in SUBSET Jobs
        /\ asRead' \in [Requests -> SUBSET Jobs]
    <2>1. CASE Created
      BY <1>1, <2>1, CreatedType
    <2>2. CASE Called
      <3>1. PICK j \in Jobs, key \in Audio \cup {None},
                 stage \in {"none", "download", "pipeline"},
                 percent \in {0, Midway},
                 expect \in ActiveStatuses \cup {"none"} :
                 \/ mark_running(j)
                 \/ set_progress(j, stage, percent)
                 \/ attach_upload(j, key)
                 \/ succeed(j, key)
                 \/ fail(j, expect)
                 \/ requeue(j)
        BY <2>2 DEF Called
      <3>2. percent \in {0, Midway, 100}
        OBVIOUS
      <3>3. QED
        BY <1>1, <3>1, <3>2, CallsType
    <2>3. CASE Untouched
      BY <1>1, <2>3 DEF Untouched, StoreTypeOK
    <2>4. QED
      BY <2>1, <2>2, <2>3, StoreStep
  <1>3. QED
    BY <1>2, BlobsStep DEF StoreTypeOK

LEMMA ApiTypeStep ==
  ASSUME TypeOK, [Next]_vars
  PROVE  ApiTypeOK'
  <1>a. /\ req \in [Requests -> Request]
        /\ \A q \in Requests :
             /\ req[q].pc \in Posting
                  => req[q].song \in Songs /\ req[q].ip \in Addresses
             /\ req[q].pc \in {"enqueue", "unqueue"} => req[q].job \in Jobs
    BY DEF TypeOK, ApiTypeOK
  <1>b. CASE UNCHANGED req
    BY <1>a, <1>b DEF ApiTypeOK
  <1>c. ASSUME NEW q \in Requests, NEW r \in Request,
               r.pc \in Posting => r.song \in Songs /\ r.ip \in Addresses,
               r.pc \in {"enqueue", "unqueue"} => r.job \in Jobs,
               req' = [req EXCEPT ![q] = r]
        PROVE  ApiTypeOK'
    BY <1>a, <1>c DEF ApiTypeOK
  <1>1. ASSUME NEW q \in Requests, ApiStep(q)
        PROVE  ApiTypeOK'
    <2>h. req[q] \in Request
      BY <1>a
    <2>r. rows \in [Jobs -> Row]
      BY DEF TypeOK, StoreTypeOK
    <2>1. CASE Answer(q)
      <3>1. NoRequest \in Request
        BY DEF NoRequest, Request
      <3>2. QED
        BY <2>1, <3>1, <1>c DEF Answer, NoRequest, Posting
    <2>2. ASSUME NEW js, NEW pc, ReadRows(q, js, pc),
                 \/ pc = "get"
                 \/ pc \in Posting \ {"enqueue", "unqueue"} /\ req[q].pc \in Posting
          PROVE  ApiTypeOK'
      <3> DEFINE s == [j \in Jobs |-> IF j \in Suspects(js)
                                      THEN rows[j].status ELSE "none"]
      <3>1. s \in [Jobs -> ActiveStatuses \cup {"none"}]
        BY <2>r DEF Suspects, Active
      <3>2. req' = [req EXCEPT ![q].pc = pc, ![q].suspect = s]
        BY <2>2 DEF ReadRows
      <3> HIDE DEF s
      <3>3. [req[q] EXCEPT !.pc = pc, !.suspect = s] \in Request
        BY <2>2, <3>1, <2>h DEF Request, Posting, Reconciling
      <3>4. req' = [req EXCEPT ![q] = [req[q] EXCEPT !.pc = pc, !.suspect = s]]
        BY <3>2, <2>h, <1>a DEF Request
      <3>5. pc \notin {"enqueue", "unqueue"}
        BY <2>2
      <3>6. pc \in Posting => req[q].song \in Songs /\ req[q].ip \in Addresses
        BY <2>2, <1>a DEF ApiTypeOK, Posting
      <3>7. QED
        BY <3>3, <3>4, <3>5, <3>6, <2>h, <1>a DEF ApiTypeOK, Request
    <2>3. CASE \E j \in Jobs : GetJob(q, j)
      BY <2>3, <2>2 DEF GetJob
    <2>4. CASE FindLive(q) \/ ListActive(q)
      BY <2>4, <2>2 DEF FindLive, ListActive, Posting
    <2>5. CASE \E j \in Jobs : AskQueue(q, j) \/ QueueDown(q, j)
      <3>1. PICK j \in Jobs : \/ req' = [req EXCEPT ![q].lost = j]
                              \/ req' = [req EXCEPT ![q].suspect[j] = "none"]
        BY <2>5 DEF AskQueue, QueueDown, LeaveAlone
      <3>2. QED
        BY <3>1, <2>h, <1>a DEF ApiTypeOK, Request
    <2>6. CASE FailLost(q)
      <3> DEFINE j == req[q].lost
                 pc == IF req[q].pc = "live" /\ rows'[j].status = "failed"
                       THEN "check" ELSE req[q].pc
                 s  == [req[q].suspect EXCEPT ![j] = "none"]
      <3>1. req' = [req EXCEPT ![q] = [req[q] EXCEPT !.lost = None,
                                         !.suspect = s, !.pc = pc]]
        BY <2>6, <2>h, <1>a DEF FailLost, Request
      <3>2. s \in [Jobs -> ActiveStatuses \cup {"none"}]
        BY <2>h DEF Request
      <3>3. pc = req[q].pc \/ (pc = "check" /\ req[q].pc = "live")
        OBVIOUS
      <3> HIDE DEF j, pc, s
      <3>4. [req[q] EXCEPT !.lost = None, !.suspect = s, !.pc = pc] \in Request
        BY <3>2, <3>3, <2>h DEF Request, Posting
      <3>5. pc \in {"enqueue", "unqueue"} => pc = req[q].pc
        BY <3>3
      <3>6. pc \in Posting => req[q].pc \in Posting
        BY <3>3 DEF Posting
      <3>7. QED
        BY <3>1, <3>4, <3>5, <3>6, <2>h, <1>a, <1>c DEF ApiTypeOK, Request
    <2>7. CASE \E song \in Songs, ip \in Addresses : Post(q, song, ip)
      <3>1. PICK song \in Songs, ip \in Addresses : Post(q, song, ip)
        BY <2>7
      <3>2. QED
        BY <3>1, <2>h, <1>a DEF Post, ApiTypeOK, Request, Posting
    <2>8. CASE \/ CheckLimit(q) \/ Prepare(q) \/ EnqueueRaises(q)
               \/ Step(q, "repair", "prepare")
      BY <2>8, <2>h, <1>a DEF CheckLimit, Prepare, EnqueueRaises, Step,
         ApiTypeOK, Request, Posting
    <2>9. CASE /\ req[q].pc = "create"
               /\ \E j \in Jobs : req' = [req EXCEPT ![q].pc = "enqueue",
                                                     ![q].job = j]
      <3>1. PICK j \in Jobs : req' = [req EXCEPT ![q].pc = "enqueue",
                                                 ![q].job = j]
        BY <2>9
      <3>2. QED
        BY <2>9, <3>1, <2>h, <1>a DEF ApiTypeOK, Request, Posting
    <2>10. QED
      BY <1>1, <2>1, <2>3, <2>4, <2>5, <2>6, <2>7, <2>8, <2>9
         DEF ApiStep, AnswerRead, Recount, LookupRefused, Create, Enqueue,
         Unqueue, Abort
  <1>2. QED
    BY <1>1, <1>b DEF Next, WorkerStep, Abandon, FlushRedis, Age, vars

LEMMA TypeInit == Init => TypeOK
  <1> SUFFICES ASSUME Init PROVE TypeOK
    OBVIOUS
  <1>1. FaultsTypeOK
    BY FaultsAssumption DEF Init, FaultsInit, FaultsTypeOK
  <1>2. StoreTypeOK
    <2>1. NoRow \in Row
      BY DEF NoRow, Row
    <2>2. QED
      BY <2>1 DEF Init, StoreInit, StoreTypeOK
  <1>3. QueueTypeOK
    BY QueueAssumption DEF Init, QueueInit, QueueTypeOK, RQStatuses
  <1>4. WorkerTypeOK
    BY QueueAssumption DEF Init, WorkerInit, WorkerTypeOK, NoHorse, Horse
  <1>5. ApiTypeOK
    BY DEF Init, ApiInit, ApiTypeOK, NoRequest, Request, Posting
  <1>6. QED
    BY <1>1, <1>2, <1>3, <1>4, <1>5 DEF TypeOK

(* Every reachable state of the job system is well-typed: in particular    *)
(* an attempt always knows its job, and a request its song and address.    *)
THEOREM TypeCorrect == Spec => []TypeOK
  <1>1. TypeOK /\ [Next]_vars => TypeOK'
    BY QueueStep, StoreTypeStep, WorkerTypeStep, ApiTypeStep DEF TypeOK
  <1>2. QED
    BY TypeInit, <1>1, PTL DEF Spec

-----------------------------------------------------------------------------
(* The record.  A call of the store that changes a row moves an active one *)
(* along, and keeps its song and its address.                              *)

Moved(j, row) ==
  /\ Active(j)
  /\ rows' = [rows EXCEPT ![j] = row]
  /\ row.song = rows[j].song
  /\ row.client_ip = rows[j].client_ip
  /\ \/ row.status = "running" /\ row.attempts = rows[j].attempts + 1
     \/ /\ row.attempts = rows[j].attempts
        /\ \/ row.status = "failed"
           \/ Running(j) /\ row.status \in {"queued", "running", "succeeded"}

LEMMA CalledMoves ==
  ASSUME TypeOK, Called
  PROVE  (\E j \in Jobs, row \in Row : Moved(j, row)) \/ UNCHANGED rows
  <1>1. PICK j \in Jobs, key \in Audio \cup {None},
             stage \in {"none", "download", "pipeline"}, percent \in {0, Midway},
             expect \in ActiveStatuses \cup {"none"} :
                 \/ mark_running(j)
                 \/ set_progress(j, stage, percent)
                 \/ attach_upload(j, key)
                 \/ succeed(j, key)
                 \/ fail(j, expect)
                 \/ requeue(j)
    BY DEF Called
  <1>2. rows[j] \in Row /\ StoreTypeOK /\ rows \in [Jobs -> Row]
    BY DEF TypeOK, StoreTypeOK
  <1>3. CASE rows' = rows
    BY <1>3
  <1>4. CASE rows' # rows
    <2> DEFINE row == rows'[j]
    <2>1. rows' \in [Jobs -> Row]
      <3>1. percent \in {0, Midway, 100}
        OBVIOUS
      <3>2. QED
        BY <1>1, <1>2, <3>1, CallsType
    <2>2. rows' = [rows EXCEPT ![j] = row]
      BY <1>1, <1>2, <1>4 DEF mark_running, set_progress, attach_upload, succeed,
         fail, requeue, Update, storeVars
    <2>3. Active(j)
      BY <1>1, <1>2, <1>4 DEF mark_running, set_progress, attach_upload, succeed,
         fail, requeue, Update, storeVars, Active, ActiveStatuses, Row, Statuses,
         FinishedStatuses
    <2> DEFINE Kept == /\ row.song = rows[j].song
                       /\ row.client_ip = rows[j].client_ip
               Along ==
                 \/ row.status = "running" /\ row.attempts = rows[j].attempts + 1
                 \/ /\ row.attempts = rows[j].attempts
                    /\ \/ row.status = "failed"
                       \/ /\ Running(j)
                          /\ row.status \in {"queued", "running", "succeeded"}
    <2>4. CASE mark_running(j)
      <3>1. /\ row = [rows[j] EXCEPT !.status = "running",
                                     !.attempts = rows[j].attempts + 1,
                                     !.stage = "none", !.percent = 0]
        BY <1>2, <1>4, <2>4 DEF mark_running, Update, storeVars
      <3>2. Kept /\ Along
        BY <1>2, <3>1 DEF Row
      <3>3. QED
        BY <2>1, <2>2, <2>3, <3>2 DEF Moved
    <2>5. CASE set_progress(j, stage, percent)
      <3>1. /\ row = [rows[j] EXCEPT !.stage = stage, !.percent = percent]
            /\ Running(j)
        BY <1>2, <1>4, <2>5 DEF set_progress, Update, storeVars, Running
      <3>2. Kept /\ Along
        BY <1>2, <3>1 DEF Row, Running
      <3>3. QED
        BY <2>1, <2>2, <2>3, <3>2 DEF Moved
    <2>6. CASE attach_upload(j, key)
      <3>1. /\ row = [rows[j] EXCEPT !.upload_key = key]
            /\ Running(j)
        BY <1>2, <1>4, <2>6 DEF attach_upload, Update, storeVars, Running
      <3>2. Kept /\ Along
        BY <1>2, <3>1 DEF Row, Running
      <3>3. QED
        BY <2>1, <2>2, <2>3, <3>2 DEF Moved
    <2>7. CASE succeed(j, key)
      <3>1. /\ row = [rows[j] EXCEPT !.status = "succeeded", !.stage = "none",
                                     !.percent = 100, !.stem_key = key]
            /\ Running(j)
        BY <1>2, <1>4, <2>7 DEF succeed, Update, storeVars, Running
      <3>2. Kept /\ Along
        BY <1>2, <3>1 DEF Row, Running
      <3>3. QED
        BY <2>1, <2>2, <2>3, <3>2 DEF Moved
    <2>8. CASE fail(j, expect)
      <3>1. /\ row = [rows[j] EXCEPT !.status = "failed", !.stage = "none"]
        BY <1>2, <1>4, <2>8 DEF fail, Update, storeVars
      <3>2. Kept /\ Along
        BY <1>2, <3>1 DEF Row
      <3>3. QED
        BY <2>1, <2>2, <2>3, <3>2 DEF Moved
    <2>9. CASE requeue(j)
      <3>1. /\ row = [rows[j] EXCEPT !.status = "queued", !.stage = "none",
                                     !.percent = 0]
            /\ Running(j)
        BY <1>2, <1>4, <2>9 DEF requeue, Update, storeVars, Running
      <3>2. Kept /\ Along
        BY <1>2, <3>1 DEF Row, Running
      <3>3. QED
        BY <2>1, <2>2, <2>3, <3>2 DEF Moved
    <2>10. QED
      BY <1>1, <2>4, <2>5, <2>6, <2>7, <2>8, <2>9
  <1>5. QED
    BY <1>3, <1>4

(* So to the table a step is a fresh row, a row moved along, or nothing.   *)
LEMMA RowStep ==
  ASSUME TypeOK, [Next]_vars
  PROVE  \/ Created
         \/ \E j \in Jobs, row \in Row : Moved(j, row)
         \/ UNCHANGED rows
  BY StoreStep, CalledMoves DEF Untouched

(* A row moved along is live or active only if it was before.              *)
LEMMA MovedKeeps ==
  ASSUME TypeOK, NEW j \in Jobs, NEW row \in Row, Moved(j, row), NEW i \in Jobs
  PROVE  /\ Live(i)' => Live(i)
         /\ Active(i)' => Active(i)
         /\ rows'[i].song = rows[i].song
         /\ rows'[i].client_ip = rows[i].client_ip
  <1>1. rows \in [Jobs -> Row]
    BY DEF TypeOK, StoreTypeOK
  <1>2. CASE i = j
    BY <1>1, <1>2 DEF Moved, Live, Exists, Active, ActiveStatuses
  <1>3. CASE i # j
    BY <1>1, <1>3 DEF Moved, Live, Exists, Active
  <1>4. QED
    BY <1>2, <1>3

(* A fresh row is queued, for a song with no other live row.               *)
LEMMA InsertKeeps ==
  ASSUME TypeOK, NEW j \in Jobs, NEW song \in Songs, NEW ip \in Addresses,
         NEW key \in Audio \cup {None}, Insert(j, song, ip, key), NEW i \in Jobs
  PROVE  /\ i # j => rows'[i] = rows[i]
         /\ rows'[j].song = song
         /\ rows'[j].client_ip = ip
         /\ rows'[j].status = "queued"
         /\ rows'[j].attempts = 0
  <1>1. rows \in [Jobs -> Row]
    BY DEF TypeOK, StoreTypeOK
  <1>2. QED
    BY <1>1 DEF Insert, NoRow

(* One live row per song, for every number of jobs, requests and workers   *)
(* and with duplicate deliveries.                                          *)
THEOREM Dedupe == Spec => []OneLivePerSong
  <1>1. Init => OneLivePerSong
    BY DEF Init, StoreInit, NoRow, OneLivePerSong, Live, Exists
  <1>2. TypeOK /\ OneLivePerSong /\ [Next]_vars => OneLivePerSong'
    <2> SUFFICES ASSUME TypeOK, OneLivePerSong, [Next]_vars,
                        NEW a \in Jobs, NEW b \in Jobs, Live(a)', Live(b)',
                        rows'[a].song = rows'[b].song
                 PROVE  a = b
      BY DEF OneLivePerSong
    <2>1. CASE Created
      <3>1. PICK j \in Jobs, song \in Songs, ip \in Addresses,
                 key \in Audio \cup {None} :
                   /\ find_live(song) = {}
                   /\ Insert(j, song, ip, key)
        BY <2>1 DEF Created
      <3>2. \A i \in Jobs : i # j => ~(Live(i)' /\ rows'[i].song = song)
        BY <3>1, InsertKeeps DEF find_live, Live, Exists
      <3>3. rows'[j].song = song
        BY <3>1, InsertKeeps
      <3>4. CASE a = j \/ b = j
        BY <3>2, <3>3, <3>4
      <3>5. CASE a # j /\ b # j
        <4>1. rows'[a] = rows[a] /\ rows'[b] = rows[b]
          BY <3>1, <3>5, InsertKeeps
        <4>2. QED
          BY <4>1 DEF OneLivePerSong, Live, Exists
      <3>6. QED
        BY <3>4, <3>5
    <2>2. CASE \E j \in Jobs, row \in Row : Moved(j, row)
      <3>1. /\ Live(a) /\ Live(b)
            /\ rows'[a].song = rows[a].song /\ rows'[b].song = rows[b].song
        BY <2>2, MovedKeeps
      <3>2. QED
        BY <3>1 DEF OneLivePerSong
    <2>3. CASE UNCHANGED rows
      BY <2>3 DEF OneLivePerSong, Live, Exists
    <2>4. QED
      BY <2>1, <2>2, <2>3, RowStep
  <1>3. QED
    BY <1>1, <1>2, TypeCorrect, PTL DEF Spec

(* No step of any process writes a finished row.                           *)
THEOREM Finality == Spec => FinishedIsFinal
  <1>1. TypeOK /\ [Next]_vars =>
          [\A j \in Jobs : rows[j].status \in FinishedStatuses
                             => rows'[j] = rows[j]]_vars
    <2> SUFFICES ASSUME TypeOK, [Next]_vars, NEW i \in Jobs,
                        rows[i].status \in FinishedStatuses
                 PROVE  rows'[i] = rows[i]
      OBVIOUS
    <2>1. CASE Created
      <3>1. PICK j \in Jobs, song \in Songs, ip \in Addresses,
                 key \in Audio \cup {None} :
                   ~Exists(j) /\ Insert(j, song, ip, key)
        BY <2>1 DEF Created
      <3>2. i # j
        BY <3>1 DEF Exists, FinishedStatuses
      <3>3. QED
        BY <3>1, <3>2, InsertKeeps
    <2>2. CASE \E j \in Jobs, row \in Row : Moved(j, row)
      <3>1. PICK j \in Jobs, row \in Row : Moved(j, row)
        BY <2>2
      <3>2. i # j
        BY <3>1 DEF Moved, Active, ActiveStatuses, FinishedStatuses
      <3>3. QED
        BY <3>1, <3>2 DEF Moved, TypeOK, StoreTypeOK
    <2>3. QED
      BY <2>1, <2>2, RowStep
  <1>2. QED
    BY <1>1, TypeCorrect, PTL DEF Spec, FinishedIsFinal

-----------------------------------------------------------------------------
(* The limit.                                                              *)

LEMMA ActiveFinite ==
  ASSUME NEW ip
  PROVE  IsFiniteSet(active_jobs(ip)) /\ count_active(ip) \in Nat
  <1>1. IsFiniteSet(active_jobs(ip))
    BY FaultsAssumption, FS_Subset DEF active_jobs
  <1>2. QED
    BY <1>1, FS_CardinalityType DEF count_active

(* No address ever has more than MaxActive active jobs.                    *)
THEOREM Limit == Spec => []ActiveLimit
  <1>1. Init => ActiveLimit
    <2> SUFFICES ASSUME Init, NEW ip \in Addresses
                 PROVE  count_active(ip) <= MaxActive
      BY DEF ActiveLimit
    <2>1. active_jobs(ip) = {}
      BY DEF Init, StoreInit, NoRow, active_jobs, Active, ActiveStatuses
    <2>2. count_active(ip) = 0
      BY <2>1, FS_EmptySet DEF count_active
    <2>3. QED
      BY <2>2, StoreAssumption
  <1>2. TypeOK /\ ActiveLimit /\ [Next]_vars => ActiveLimit'
    <2> SUFFICES ASSUME TypeOK, ActiveLimit, [Next]_vars, NEW ip \in Addresses
                 PROVE  (count_active(ip) <= MaxActive)'
      BY DEF ActiveLimit
    <2>a. /\ IsFiniteSet(active_jobs(ip))
          /\ count_active(ip) \in Nat
          /\ count_active(ip) <= MaxActive
          /\ MaxActive \in Nat
      BY ActiveFinite, StoreAssumption DEF ActiveLimit
    <2>b. active_jobs(ip)' \subseteq active_jobs(ip)
            => (count_active(ip) <= MaxActive)'
      <3>1. SUFFICES ASSUME active_jobs(ip)' \subseteq active_jobs(ip)
                     PROVE  (count_active(ip) <= MaxActive)'
        OBVIOUS
      <3>2. /\ IsFiniteSet(active_jobs(ip)')
            /\ Cardinality(active_jobs(ip)') <= Cardinality(active_jobs(ip))
        BY <3>1, <2>a, FS_Subset
      <3>3. Cardinality(active_jobs(ip)') \in Nat
        BY <3>2, FS_CardinalityType
      <3>4. QED
        BY <3>2, <3>3, <2>a DEF count_active
    <2>1. CASE Created
      <3>1. PICK j \in Jobs, song \in Songs, a \in Addresses,
                 key \in Audio \cup {None} :
                   /\ count_active(a) < MaxActive
                   /\ Insert(j, song, a, key)
        BY <2>1 DEF Created
      <3>2. active_jobs(ip)' \subseteq active_jobs(ip)
              \cup (IF a = ip THEN {j} ELSE {})
        BY <3>1, InsertKeeps DEF active_jobs, Active
      <3>3. CASE a # ip
        BY <3>2, <3>3, <2>b
      <3>4. CASE a = ip
        <4>1. /\ IsFiniteSet(active_jobs(ip) \cup {j})
              /\ Cardinality(active_jobs(ip) \cup {j}) <= count_active(ip) + 1
          BY <2>a, FS_AddElement DEF count_active
        <4>2. /\ IsFiniteSet(active_jobs(ip)')
              /\ Cardinality(active_jobs(ip)')
                   <= Cardinality(active_jobs(ip) \cup {j})
          BY <3>2, <3>4, <4>1, FS_Subset
        <4>3. /\ Cardinality(active_jobs(ip)') \in Nat
              /\ Cardinality(active_jobs(ip) \cup {j}) \in Nat
          BY <4>1, <4>2, FS_CardinalityType
        <4>4. count_active(ip) + 1 <= MaxActive
          BY <3>1, <3>4, <2>a
        <4>5. QED
          BY <4>1, <4>2, <4>3, <4>4, <2>a DEF count_active
      <3>5. QED
        BY <3>3, <3>4
    <2>2. CASE \E j \in Jobs, row \in Row : Moved(j, row)
      <3>1. \A i \in Jobs : /\ Active(i)' => Active(i)
                            /\ rows'[i].client_ip = rows[i].client_ip
        BY <2>2, MovedKeeps
      <3>2. QED
        BY <3>1, <2>b DEF active_jobs
    <2>3. CASE UNCHANGED rows
      BY <2>3, <2>b DEF active_jobs, Active
    <2>4. QED
      BY <2>1, <2>2, <2>3, RowStep
  <1>3. QED
    BY <1>1, <1>2, TypeCorrect, PTL DEF Spec

-----------------------------------------------------------------------------
(* The refinement.                                                         *)

(* The job system implements the record of JobRecord: every step of the    *)
(* api, a worker, RQ or the clock is one step of the record, or none.      *)
THEOREM Implementation == Spec => RecordSpec
  <1>1. Init => Record!Init
    BY DEF Init, StoreInit, NoRow, Record!Init
  <1>2. TypeOK /\ [Next]_vars => [Record!Next]_Record!vars
    <2> SUFFICES ASSUME TypeOK, [Next]_vars
                 PROVE  [Record!Next]_Record!vars
      OBVIOUS
    <2>a. rows \in [Jobs -> Row]
      BY DEF TypeOK, StoreTypeOK
    <2>1. CASE Created
      <3>1. PICK j \in Jobs, song \in Songs, ip \in Addresses,
                 key \in Audio \cup {None} :
                   /\ ~Exists(j)
                   /\ find_live(song) = {}
                   /\ count_active(ip) < MaxActive
                   /\ Insert(j, song, ip, key)
        BY <2>1 DEF Created
      <3>2. rows[j].status = "absent"
        BY <3>1 DEF Exists
      <3>3. \A i \in Jobs :
               ~(/\ rows[i].status \in {"queued", "running", "succeeded"}
                 /\ rows[i].song = song)
        BY <3>1 DEF find_live, Live, Exists
      <3>4. active_jobs(ip) = {i \in Jobs :
                                 /\ rows[i].status \in {"queued", "running"}
                                 /\ rows[i].client_ip = ip}
        BY DEF active_jobs, Active, ActiveStatuses
      <3>5. \A i \in Jobs : /\ i # j => rows'[i] = rows[i]
                            /\ rows'[j].song = song
                            /\ rows'[j].client_ip = ip
                            /\ rows'[j].status = "queued"
                            /\ rows'[j].attempts = 0
        BY <3>1, InsertKeeps
      <3>6. Record!Submit(j, song, ip)
        <4>1. \A i \in Jobs : ~(Record!IsLive(i) /\ rows[i].song = song)
          BY <3>3 DEF Record!IsLive
        <4>2. Cardinality({i \in Jobs : /\ Record!IsActive(i)
                                        /\ rows[i].client_ip = ip}) < MaxActive
          BY <3>1, <3>4 DEF Record!IsActive, count_active
        <4>3. [i \in Jobs |-> rows'[i].status]
                = [[i \in Jobs |-> rows[i].status] EXCEPT ![j] = "queued"]
          BY <3>5
        <4>4. [i \in Jobs |-> rows'[i].song]
                = [[i \in Jobs |-> rows[i].song] EXCEPT ![j] = song]
          BY <3>5
        <4>5. [i \in Jobs |-> rows'[i].client_ip]
                = [[i \in Jobs |-> rows[i].client_ip] EXCEPT ![j] = ip]
          BY <3>5
        <4>6. [i \in Jobs |-> rows'[i].attempts]
                = [[i \in Jobs |-> rows[i].attempts] EXCEPT ![j] = 0]
          BY <3>5
        <4>7. \A i \in Jobs :
                 ~(/\ Record!IsLive(i)
                   /\ [k \in Jobs |-> rows[k].song][i] = song)
          BY <4>1
        <4>8. {i \in Jobs : /\ Record!IsActive(i)
                            /\ [k \in Jobs |-> rows[k].client_ip][i] = ip}
                = {i \in Jobs : Record!IsActive(i) /\ rows[i].client_ip = ip}
          OBVIOUS
        <4>9. [i \in Jobs |-> rows[i].status][j] = "absent"
          BY <3>2
        <4>10. \A S : Record!Cardinality(S) = Cardinality(S)
          BY DEF Record!Cardinality, Cardinality
        <4>11. QED
          BY <4>10, <4>2, <4>3, <4>4, <4>5, <4>6, <4>7, <4>8, <4>9
             DEF Record!Submit
      <3>7. QED
        BY <3>6 DEF Record!Next
    <2>2. CASE \E j \in Jobs, row \in Row : Moved(j, row)
      <3>1. PICK j \in Jobs, row \in Row : Moved(j, row)
        BY <2>2
      <3>2. /\ rows' = [rows EXCEPT ![j] = row]
            /\ rows[j].status \in {"queued", "running"}
            /\ row.song = rows[j].song
            /\ row.client_ip = rows[j].client_ip
        BY <3>1 DEF Moved, Active, ActiveStatuses
      <3>3. \A i \in Jobs : /\ i # j => rows'[i] = rows[i]
                            /\ rows'[j] = row
                            /\ rows'[i].song = rows[i].song
                            /\ rows'[i].client_ip = rows[i].client_ip
        BY <3>2, <2>a
      <3>4. /\ [i \in Jobs |-> rows'[i].status]
                 = [[i \in Jobs |-> rows[i].status] EXCEPT ![j] = row.status]
            /\ [i \in Jobs |-> rows'[i].attempts]
                 = [[i \in Jobs |-> rows[i].attempts] EXCEPT ![j] = row.attempts]
        BY <3>3
      <3>5. /\ UNCHANGED [i \in Jobs |-> rows[i].song]
            /\ UNCHANGED [i \in Jobs |-> rows[i].client_ip]
        BY <3>3
      <3>6. /\ [i \in Jobs |-> rows[i].status][j] = rows[j].status
            /\ [i \in Jobs |-> rows[i].attempts][j] = rows[j].attempts
        OBVIOUS
      <3>7. ASSUME NEW from, NEW to, rows[j].status \in from, row.status = to
            PROVE  Record!Move(j, from, to)
        BY <3>4, <3>5, <3>6, <3>7 DEF Record!Move
      <3>8. CASE row.status = "running" /\ row.attempts = rows[j].attempts + 1
        <4>1. Record!Move(j, {"queued", "running"}, "running")
          BY <3>2, <3>7, <3>8
        <4>2. Record!StartAttempt(j)
          BY <3>4, <3>6, <3>8, <4>1 DEF Record!StartAttempt
        <4>3. QED
          BY <4>2 DEF Record!Next
      <3>9. ASSUME row.attempts = rows[j].attempts
            PROVE  UNCHANGED [i \in Jobs |-> rows[i].attempts]
        BY <3>3, <3>9
      <3>10. CASE row.attempts = rows[j].attempts /\ row.status = "failed"
        <4>1. Record!Move(j, {"queued", "running"}, "failed")
          BY <3>2, <3>7, <3>10
        <4>2. Record!GiveUp(j)
          BY <3>9, <3>10, <4>1 DEF Record!GiveUp
        <4>3. QED
          BY <4>2 DEF Record!Next
      <3>11. CASE /\ row.attempts = rows[j].attempts
                  /\ Running(j)
                  /\ row.status = "queued"
        <4>1. Record!Move(j, {"running"}, "queued")
          BY <3>7, <3>11 DEF Running
        <4>2. Record!PutBack(j)
          BY <3>9, <3>11, <4>1 DEF Record!PutBack
        <4>3. QED
          BY <4>2 DEF Record!Next
      <3>12. CASE /\ row.attempts = rows[j].attempts
                  /\ Running(j)
                  /\ row.status = "succeeded"
        <4>1. Record!Move(j, {"running"}, "succeeded")
          BY <3>7, <3>12 DEF Running
        <4>2. Record!Finish(j)
          BY <3>9, <3>12, <4>1 DEF Record!Finish
        <4>3. QED
          BY <4>2 DEF Record!Next
      <3>13. CASE /\ row.attempts = rows[j].attempts
                  /\ Running(j)
                  /\ row.status = "running"
        <4>1. UNCHANGED [i \in Jobs |-> rows[i].status]
          BY <3>3, <3>13 DEF Running
        <4>2. QED
          BY <3>5, <3>9, <3>13, <4>1 DEF Record!vars
      <3>14. QED
        BY <3>1, <3>8, <3>10, <3>11, <3>12, <3>13 DEF Moved
    <2>3. CASE UNCHANGED rows
      BY <2>3 DEF Record!vars
    <2>4. QED
      BY <2>1, <2>2, <2>3, RowStep
  <1>3. QED
    BY <1>1, <1>2, TypeCorrect, PTL DEF Spec, RecordSpec, Record!Spec

-----------------------------------------------------------------------------
(* What the calls of the store write, field by field.                      *)

(* A conditional update writes the row it is given, or nothing, and no     *)
(* other row.                                                              *)
LEMMA UpdateWrites ==
  ASSUME StoreTypeOK, NEW j \in Jobs, NEW i \in Jobs, NEW allowed, NEW row,
         Update(j, allowed, row)
  PROVE  /\ i # j => rows'[i] = rows[i]
         /\ rows[j].status \in allowed => rows'[j] = row
         /\ rows[j].status \notin allowed => rows' = rows
  BY DEF Update, storeVars, StoreTypeOK

LEMMA StartedFields ==
  ASSUME NEW row \in Row, NEW attempts \in Nat
  PROVE  /\ Started(row, attempts).status = "running"
         /\ Started(row, attempts).stage = "none"
         /\ Started(row, attempts).percent = 0
         /\ Started(row, attempts).attempts = attempts
         /\ Started(row, attempts).upload_key = row.upload_key
         /\ Started(row, attempts).stem_key = row.stem_key
  BY DEF Started, Row

LEMMA ProgressedFields ==
  ASSUME NEW row \in Row, NEW stage, NEW percent
  PROVE  /\ Progressed(row, stage, percent).status = row.status
         /\ Progressed(row, stage, percent).stage = stage
         /\ Progressed(row, stage, percent).percent = percent
         /\ Progressed(row, stage, percent).attempts = row.attempts
         /\ Progressed(row, stage, percent).upload_key = row.upload_key
         /\ Progressed(row, stage, percent).stem_key = row.stem_key
  BY DEF Progressed, Row

LEMMA AttachedFields ==
  ASSUME NEW row \in Row, NEW key
  PROVE  /\ Attached(row, key).status = row.status
         /\ Attached(row, key).stage = row.stage
         /\ Attached(row, key).percent = row.percent
         /\ Attached(row, key).attempts = row.attempts
         /\ Attached(row, key).upload_key = key
         /\ Attached(row, key).stem_key = row.stem_key
  BY DEF Attached, Row

LEMMA DoneFields ==
  ASSUME NEW row \in Row, NEW key
  PROVE  /\ Done(row, key).status = "succeeded"
         /\ Done(row, key).stage = "none"
         /\ Done(row, key).percent = 100
         /\ Done(row, key).attempts = row.attempts
         /\ Done(row, key).upload_key = row.upload_key
         /\ Done(row, key).stem_key = key
  BY DEF Done, Row

LEMMA GivenUpFields ==
  ASSUME NEW row \in Row
  PROVE  /\ GivenUp(row).status = "failed"
         /\ GivenUp(row).stage = "none"
         /\ GivenUp(row).percent = row.percent
         /\ GivenUp(row).attempts = row.attempts
         /\ GivenUp(row).upload_key = row.upload_key
         /\ GivenUp(row).stem_key = row.stem_key
  BY DEF GivenUp, Row

LEMMA PutBackFields ==
  ASSUME NEW row \in Row
  PROVE  /\ PutBack(row).status = "queued"
         /\ PutBack(row).stage = "none"
         /\ PutBack(row).percent = 0
         /\ PutBack(row).attempts = row.attempts
         /\ PutBack(row).upload_key = row.upload_key
         /\ PutBack(row).stem_key = row.stem_key
  BY DEF PutBack, Row

-----------------------------------------------------------------------------
(* What a poll shows.                                                      *)

(* ProgressShown of one row.                                               *)
Shown(row) ==
  /\ row.stage # "none" => row.status = "running"
  /\ row.status = "queued" => row.percent = 0
  /\ row.percent = 100 <=> row.status = "succeeded"

(* No call of the store writes a row that shows anything else.             *)
LEMMA CallsShow ==
  ASSUME TypeOK, Called, NEW i \in Jobs, Shown(rows[i])
  PROVE  Shown(rows'[i])
  <1>1. PICK j \in Jobs, key \in Audio \cup {None},
             stage \in {"none", "download", "pipeline"}, percent \in {0, Midway},
             expect \in ActiveStatuses \cup {"none"} :
                 \/ mark_running(j)
                 \/ set_progress(j, stage, percent)
                 \/ attach_upload(j, key)
                 \/ succeed(j, key)
                 \/ fail(j, expect)
                 \/ requeue(j)
    BY DEF Called
  <1>2. /\ StoreTypeOK
        /\ rows[j] \in Row
        /\ rows[j].attempts + 1 \in Nat
    BY DEF TypeOK, StoreTypeOK, Row
  <1>3. ASSUME NEW allowed, NEW row, Update(j, allowed, row),
               rows[j].status \in allowed /\ Shown(rows[j]) => Shown(row)
        PROVE  Shown(rows'[i])
    <2>1. /\ i # j => rows'[i] = rows[i]
          /\ rows[j].status \in allowed => rows'[j] = row
          /\ rows[j].status \notin allowed => rows' = rows
      BY <1>2, <1>3, UpdateWrites
    <2>2. QED
      BY <1>3, <2>1
  <1>4. CASE mark_running(j)
    <2>1. Shown(Started(rows[j], rows[j].attempts + 1))
      BY <1>2, StartedFields DEF Shown
    <2>2. QED
      BY <1>3, <1>4, <2>1 DEF mark_running, Started
  <1>5. CASE set_progress(j, stage, percent)
    <2>1. rows[j].status \in {"running"}
            => Shown(Progressed(rows[j], stage, percent))
      BY <1>2, ProgressedFields DEF Shown, Midway
    <2>2. QED
      BY <1>3, <1>5, <2>1 DEF set_progress, Progressed
  <1>6. CASE attach_upload(j, key)
    <2>1. Shown(rows[j]) => Shown(Attached(rows[j], key))
      BY <1>2, AttachedFields DEF Shown
    <2>2. QED
      BY <1>3, <1>6, <2>1 DEF attach_upload, Attached
  <1>7. CASE succeed(j, key)
    <2>1. Shown(Done(rows[j], key))
      BY <1>2, DoneFields DEF Shown
    <2>2. QED
      BY <1>3, <1>7, <2>1 DEF succeed, Done
  <1>8. CASE fail(j, expect)
    <2>1. rows[j].status \in {expect} /\ Shown(rows[j])
            => Shown(GivenUp(rows[j]))
      BY <1>2, GivenUpFields DEF Shown, ActiveStatuses, Row, Statuses,
         FinishedStatuses
    <2>2. QED
      BY <1>3, <1>8, <2>1 DEF fail, GivenUp
  <1>9. CASE requeue(j)
    <2>1. Shown(PutBack(rows[j]))
      BY <1>2, PutBackFields DEF Shown
    <2>2. QED
      BY <1>3, <1>9, <2>1 DEF requeue, PutBack
  <1>10. QED
    BY <1>1, <1>4, <1>5, <1>6, <1>7, <1>8, <1>9

(* A stage is shown only while a row is running, no progress while it is   *)
(* queued and 100% exactly when it succeeded, with duplicate deliveries    *)
(* and late progress writes too.                                           *)
THEOREM Shows == Spec => []ProgressShown
  <1>1. ProgressShown <=> \A i \in Jobs : Shown(rows[i])
    BY DEF ProgressShown, Shown, Running
  <1>2. Init => ProgressShown
    BY DEF Init, StoreInit, NoRow, ProgressShown, Running
  <1>3. TypeOK /\ ProgressShown /\ [Next]_vars => ProgressShown'
    <2> SUFFICES ASSUME TypeOK, ProgressShown, [Next]_vars, NEW i \in Jobs
                 PROVE  Shown(rows'[i])
      BY DEF ProgressShown, Shown, Running
    <2>1. Shown(rows[i])
      BY <1>1
    <2>2. CASE Created
      <3>1. PICK j \in Jobs, song \in Songs, ip \in Addresses,
                 key \in Audio \cup {None} : Insert(j, song, ip, key)
        BY <2>2 DEF Created
      <3>2. rows \in [Jobs -> Row]
        BY DEF TypeOK, StoreTypeOK
      <3>3. CASE i = j
        BY <3>1, <3>2, <3>3 DEF Insert, NoRow, Shown
      <3>4. CASE i # j
        BY <3>1, <3>4, <2>1, InsertKeeps
      <3>5. QED
        BY <3>3, <3>4
    <2>3. CASE Called
      BY <2>1, <2>3, CallsShow
    <2>4. CASE Untouched
      BY <2>1, <2>4 DEF Untouched
    <2>5. QED
      BY <2>2, <2>3, <2>4, StoreStep
  <1>4. QED
    BY <1>2, <1>3, TypeCorrect, PTL DEF Spec
-----------------------------------------------------------------------------
(* One process moves at a time.                                            *)

LEMMA OtherHorses ==
  ASSUME TypeOK, NEW w \in Workers, WorkerStep(w)
  PROVE  \A v \in Workers : v # w => wk'[v] = wk[v]
  <1>1. wk \in [Workers -> Horse]
    BY DEF TypeOK, WorkerTypeOK
  <1>2. QED
    BY <1>1 DEF WorkerStep, Take, Start, Load, Download, Keep, Attach,
       Progress, Separate, Succeed, InputRefused, AttemptFails, Refuse,
       FailedAttempt, Return, Raise, CallRaises, KillHorse, KillWorker,
       Goto, Release

LEMMA OneHorse ==
  ASSUME TypeOK, [Next]_vars, NEW w \in Workers
  PROVE  WorkerStep(w) \/ wk'[w] = wk[w]
  BY OtherHorses DEF Next, Abandon, FlushRedis, Age, vars

LEMMA OtherRequests ==
  ASSUME TypeOK, NEW q \in Requests, ApiStep(q)
  PROVE  \A p \in Requests : p # q => req'[p] = req[p]
  <1>1. req \in [Requests -> Request]
    BY DEF TypeOK, ApiTypeOK
  <1>2. QED
    BY <1>1 DEF ApiStep, GetJob, AskQueue, QueueDown, FailLost, AnswerRead,
       Post, FindLive, CheckLimit, ListActive, Recount, Prepare, LookupRefused,
       Create, Enqueue, EnqueueRaises, Unqueue, Abort, ReadRows, LeaveAlone,
       Step, Answer

LEMMA OneRequest ==
  ASSUME TypeOK, [Next]_vars, NEW q \in Requests
  PROVE  ApiStep(q) \/ req'[q] = req[q]
  BY OtherRequests DEF Next, Abandon, FlushRedis, Age, vars

LEMMA ReadRowsMoves ==
  ASSUME TypeOK, NEW q \in Requests, NEW js, NEW pc, ReadRows(q, js, pc)
  PROVE  /\ req'[q].pc = pc
         /\ req'[q].song = req[q].song
         /\ req'[q].job = req[q].job
         /\ req'[q].lost = req[q].lost
  <1>1. req \in [Requests -> Request] /\ req[q] \in Request
    BY DEF TypeOK, ApiTypeOK
  <1>2. QED
    BY <1>1 DEF ReadRows, Request

-----------------------------------------------------------------------------
(* The files.  A key is on its way to the row, or in it, only when its     *)
(* file is stored; and a stored file stays.                                *)

FileOf(w) ==
  /\ At(w, "attach") => <<"upload", wk[w].audio>> \in blobs
  /\ At(w, "store") => <<"stem", wk[w].audio>> \in blobs

UploadOf(q) ==
  req[q].pc = "create" /\ req[q].song \in Uploads
    => <<"upload", req[q].song>> \in blobs

StoredFirst ==
  /\ FilesStored
  /\ \A w \in Workers : FileOf(w)
  /\ \A q \in Requests : UploadOf(q)

LEMMA BlobsStay ==
  ASSUME [Next]_vars
  PROVE  blobs \subseteq blobs'
  <1>1. ASSUME NEW q \in Requests, ApiStep(q)
        PROVE  blobs \subseteq blobs'
    BY <1>1 DEF ApiStep, GetJob, AskQueue, QueueDown, FailLost, AnswerRead,
       Post, FindLive, CheckLimit, ListActive, Recount, Prepare, LookupRefused,
       Create, Enqueue, EnqueueRaises, Unqueue, Abort, put_file
  <1>2. ASSUME NEW w \in Workers, WorkerStep(w)
        PROVE  blobs \subseteq blobs'
    BY <1>2 DEF WorkerStep, Take, Start, Load, Download, Keep, Attach, Progress,
       Separate, Succeed, InputRefused, AttemptFails, Refuse, FailedAttempt,
       Return, Raise, CallRaises, KillHorse, KillWorker, put_file
  <1>3. QED
    BY <1>1, <1>2 DEF Next, Abandon, FlushRedis, Age, vars

LEMMA FileOfStep ==
  ASSUME TypeOK, [Next]_vars, NEW w \in Workers, FileOf(w)
  PROVE  FileOf(w)'
  <1>a. wk \in [Workers -> Horse] /\ wk[w] \in Horse
    BY DEF TypeOK, WorkerTypeOK
  <1>b. blobs \subseteq blobs'
    BY BlobsStay
  <1>1. CASE wk'[w] = wk[w]
    BY <1>1, <1>b DEF FileOf, At
  <1>2. CASE WorkerStep(w)
    <2>1. CASE Keep(w)
      BY <2>1, <1>a DEF Keep, Goto, At, FileOf, put_file, Horse
    <2>2. CASE Separate(w)
      BY <2>2, <1>a DEF Separate, Goto, At, FileOf, put_file, Horse
    <2>3. CASE wk'[w].pc \notin {"attach", "store"}
      BY <2>3 DEF FileOf, At
    <2>4. QED
      BY <1>1, <1>2, <1>a, <2>1, <2>2, <2>3 DEF WorkerStep, Take, Start, Load,
         Download, Attach, Progress, Succeed, InputRefused, AttemptFails,
         Refuse, FailedAttempt, Return, Raise, CallRaises, KillHorse,
         KillWorker, Goto, Release, NoHorse, Horse
  <1>3. QED
    BY <1>1, <1>2, OneHorse

LEMMA UploadOfStep ==
  ASSUME TypeOK, [Next]_vars, NEW q \in Requests, UploadOf(q)
  PROVE  UploadOf(q)'
  <1>a. req \in [Requests -> Request] /\ req[q] \in Request
    BY DEF TypeOK, ApiTypeOK
  <1>b. blobs \subseteq blobs'
    BY BlobsStay
  <1>1. CASE req'[q] = req[q]
    BY <1>1, <1>b DEF UploadOf
  <1>2. CASE ApiStep(q)
    <2>1. CASE Prepare(q)
      BY <2>1, <1>a DEF Prepare, Step, UploadOf, put_file, Request
    <2>2. CASE req'[q].pc # "create"
      BY <2>2 DEF UploadOf
    <2>3. CASE Answer(q)
      BY <2>3, <1>a DEF Answer, NoRequest, UploadOf
    <2>4. CASE \/ \E j \in Jobs : GetJob(q, j) \/ AskQueue(q, j) \/ QueueDown(q, j)
               \/ FailLost(q) \/ FindLive(q) \/ ListActive(q)
      <3>1. CASE \E j \in Jobs : AskQueue(q, j) \/ QueueDown(q, j)
        BY <3>1, <1>a, <2>2 DEF AskQueue, QueueDown, LeaveAlone, Reconciles,
           Reconciling, Request
      <3>2. CASE FailLost(q)
        <4>1. req'[q].pc = "create" => req[q].pc = "create"
          BY <3>2, <1>a DEF FailLost, Request
        <4>2. req'[q].song = req[q].song
          BY <3>2, <1>a DEF FailLost, Request
        <4>3. QED
          BY <4>1, <4>2, <1>b DEF UploadOf
      <3>3. CASE (\E j \in Jobs : GetJob(q, j)) \/ FindLive(q) \/ ListActive(q)
        <4>1. ASSUME NEW js, NEW pc, pc # "create", ReadRows(q, js, pc)
              PROVE  UploadOf(q)'
          BY <4>1, <2>2, ReadRowsMoves
        <4>2. CASE \E j \in Jobs : GetJob(q, j)
          BY <4>1, <4>2 DEF GetJob
        <4>3. CASE FindLive(q)
          BY <4>1, <4>3 DEF FindLive
        <4>4. CASE ListActive(q)
          BY <4>1, <4>4 DEF ListActive
        <4>5. QED
          BY <3>3, <4>2, <4>3, <4>4
      <3>4. QED
        BY <2>4, <3>1, <3>2, <3>3
    <2>5. CASE \/ \E song \in Songs, ip \in Addresses : Post(q, song, ip)
               \/ CheckLimit(q) \/ EnqueueRaises(q) \/ Step(q, "repair", "prepare")
      <3>1. CASE \E song \in Songs, ip \in Addresses : Post(q, song, ip)
        <4>1. PICK song \in Songs, ip \in Addresses : Post(q, song, ip)
          BY <3>1
        <4>2. QED
          BY <4>1, <1>a, <2>2 DEF Post, Request
      <3>2. CASE CheckLimit(q)
        BY <3>2, <1>a, <2>2 DEF CheckLimit, Step, Request
      <3>3. CASE EnqueueRaises(q) \/ Step(q, "repair", "prepare")
        BY <3>3, <1>a, <2>2 DEF EnqueueRaises, Step, Request
      <3>4. QED
        BY <2>5, <3>1, <3>2, <3>3
    <2>6. CASE Create(q)
      BY <2>3, <2>6, <1>a, <2>2 DEF Create, Request
    <2>7. QED
      BY <1>2, <2>1, <2>3, <2>4, <2>5, <2>6 DEF ApiStep, AnswerRead,
         Recount, LookupRefused, Enqueue, Unqueue, Abort
  <1>3. QED
    BY <1>1, <1>2, OneRequest

(* The keys of the rows.  Only an insert, `attach_upload` and `succeed`    *)
(* write one.                                                              *)
KeysKept ==
  \A i \in Jobs : /\ rows'[i].upload_key = rows[i].upload_key
                  /\ rows'[i].stem_key = rows[i].stem_key

LEMMA CallKeepsKeys ==
  ASSUME TypeOK, NEW j \in Jobs, NEW stage, NEW percent, NEW expect,
         \/ mark_running(j)
         \/ set_progress(j, stage, percent)
         \/ fail(j, expect)
         \/ requeue(j)
         \/ UNCHANGED rows
  PROVE  KeysKept
  <1>1. /\ StoreTypeOK
        /\ rows[j] \in Row
        /\ rows[j].attempts + 1 \in Nat
    BY DEF TypeOK, StoreTypeOK, Row
  <1>2. ASSUME NEW allowed, NEW row, Update(j, allowed, row),
               row.upload_key = rows[j].upload_key,
               row.stem_key = rows[j].stem_key
        PROVE  KeysKept
    <2> SUFFICES ASSUME NEW i \in Jobs
                 PROVE  /\ rows'[i].upload_key = rows[i].upload_key
                        /\ rows'[i].stem_key = rows[i].stem_key
      BY DEF KeysKept
    <2>1. /\ i # j => rows'[i] = rows[i]
          /\ rows[j].status \in allowed => rows'[j] = row
          /\ rows[j].status \notin allowed => rows' = rows
      BY <1>1, <1>2, UpdateWrites
    <2>2. QED
      BY <1>2, <2>1
  <1>3. CASE mark_running(j)
    BY <1>1, <1>2, <1>3, StartedFields DEF mark_running, Started
  <1>4. CASE set_progress(j, stage, percent)
    <2>1. Update(j, {"running"}, Progressed(rows[j], stage, percent))
      BY <1>4 DEF set_progress, Progressed
    <2>2. QED
      BY <1>1, <1>2, <2>1, ProgressedFields
  <1>5. CASE fail(j, expect)
    BY <1>1, <1>2, <1>5, GivenUpFields DEF fail, GivenUp
  <1>6. CASE requeue(j)
    BY <1>1, <1>2, <1>6, PutBackFields DEF requeue, PutBack
  <1>7. QED
    BY <1>3, <1>4, <1>5, <1>6 DEF KeysKept

LEMMA AttachWrites ==
  ASSUME TypeOK, NEW j \in Jobs, NEW key, attach_upload(j, key), NEW i \in Jobs
  PROVE  /\ rows'[i].stem_key = rows[i].stem_key
         /\ rows'[i].status = rows[i].status
         /\ i # j => rows'[i] = rows[i]
         /\ Running(j) => rows'[j].upload_key = key
         /\ ~Running(j) => rows' = rows
  <1>1. StoreTypeOK /\ rows[j] \in Row
    BY DEF TypeOK, StoreTypeOK
  <1>2. Update(j, {"running"}, Attached(rows[j], key))
    BY DEF attach_upload, Attached
  <1>3. QED
    BY <1>1, <1>2, UpdateWrites, AttachedFields DEF Running

LEMMA SucceedWrites ==
  ASSUME TypeOK, NEW j \in Jobs, NEW key, succeed(j, key), NEW i \in Jobs
  PROVE  /\ rows'[i].upload_key = rows[i].upload_key
         /\ i # j => rows'[i] = rows[i]
         /\ Running(j) => rows'[j].stem_key = key
         /\ ~Running(j) => rows' = rows
  <1>1. StoreTypeOK /\ rows[j] \in Row
    BY DEF TypeOK, StoreTypeOK
  <1>2. Update(j, {"running"}, Done(rows[j], key))
    BY DEF succeed, Done
  <1>3. QED
    BY <1>1, <1>2, UpdateWrites, DoneFields DEF Running

(* A step leaves the keys alone, or is one of those three.                 *)
LEMMA KeysStep ==
  ASSUME TypeOK, [Next]_vars
  PROVE  \/ KeysKept
         \/ \E q \in Requests, j \in Jobs : \E ip :
              /\ req[q].pc = "create"
              /\ ~Exists(j)
              /\ Insert(j, req[q].song, ip,
                        IF req[q].song \in Uploads THEN req[q].song ELSE None)
         \/ \E w \in Workers :
              At(w, "attach") /\ attach_upload(wk[w].job, wk[w].audio)
         \/ \E w \in Workers :
              At(w, "store") /\ succeed(wk[w].job, wk[w].audio)
  <1>1. ASSUME NEW q \in Requests, ApiStep(q), ~Create(q)
        PROVE  KeysKept
    <2>1. CASE UNCHANGED rows
      BY <2>1 DEF KeysKept
    <2>2. CASE FailLost(q)
      <3>1. req[q].lost \in Jobs
        BY <2>2 DEF FailLost, TypeOK, ApiTypeOK, Request
      <3>2. QED
        BY <2>2, <3>1, CallKeepsKeys DEF FailLost, fail_as_read, storeVars
    <2>3. CASE Unqueue(q)
      <3>1. req[q].job \in Jobs
        BY <2>3 DEF Unqueue, TypeOK, ApiTypeOK
      <3>2. QED
        BY <2>3, <3>1, CallKeepsKeys DEF Unqueue
    <2>4. QED
      BY <1>1, <2>1, <2>2, <2>3 DEF ApiStep, GetJob, AskQueue, QueueDown,
         AnswerRead, Post, FindLive, CheckLimit, ListActive, Recount, Prepare,
         LookupRefused, Enqueue, EnqueueRaises, Abort, ReadRows, storeVars
  <1>2. ASSUME NEW q \in Requests, Create(q)
        PROVE  \/ KeysKept
               \/ \E j \in Jobs : \E ip :
                    /\ req[q].pc = "create"
                    /\ ~Exists(j)
                    /\ Insert(j, req[q].song, ip,
                              IF req[q].song \in Uploads THEN req[q].song
                                                         ELSE None)
    BY <1>2 DEF Create, storeVars, KeysKept
  <1>3. ASSUME NEW w \in Workers, WorkerStep(w)
        PROVE  \/ KeysKept
               \/ At(w, "attach") /\ attach_upload(wk[w].job, wk[w].audio)
               \/ At(w, "store") /\ succeed(wk[w].job, wk[w].audio)
    <2>1. CASE UNCHANGED rows
      BY <2>1 DEF KeysKept
    <2>2. CASE \/ Start(w) \/ Attach(w) \/ Progress(w) \/ Succeed(w)
               \/ Refuse(w) \/ FailedAttempt(w) \/ CallRaises(w)
      <3>1. wk[w].job \in Jobs
        BY <2>2 DEF Start, Attach, Progress, Succeed, Refuse, FailedAttempt,
           CallRaises, At, TypeOK, WorkerTypeOK
      <3>2. \/ mark_running(wk[w].job)
            \/ At(w, "attach") /\ attach_upload(wk[w].job, wk[w].audio)
            \/ set_progress(wk[w].job, "download", 0)
            \/ set_progress(wk[w].job, "pipeline", Midway)
            \/ At(w, "store") /\ succeed(wk[w].job, wk[w].audio)
            \/ fail(wk[w].job, "running")
            \/ requeue(wk[w].job)
            \/ UNCHANGED rows
        BY <2>2 DEF Start, Attach, Progress, Succeed, Refuse, FailedAttempt,
           CallRaises, storeVars
      <3>3. QED
        BY <3>1, <3>2, CallKeepsKeys
    <2>3. QED
      BY <1>3, <2>1, <2>2 DEF WorkerStep, Take, Load, Download, Keep, Separate,
         InputRefused, AttemptFails, Return, Raise, KillHorse, KillWorker,
         storeVars
  <1>4. CASE UNCHANGED rows
    BY <1>4 DEF KeysKept
  <1>5. QED
    BY <1>1, <1>2, <1>3, <1>4 DEF Next, Abandon, FlushRedis, Age, vars, storeVars

(* Every key a row has names a stored file, whatever attempt, retry or     *)
(* request wrote it, and with duplicate deliveries.                        *)
THEOREM FilesBeforeKeys == Spec => []FilesStored
  <1>1. Init => StoredFirst
    BY DEF Init, StoreInit, WorkerInit, ApiInit, NoRow, NoHorse, NoRequest,
       StoredFirst, FilesStored, FileOf, UploadOf, At
  <1>2. TypeOK /\ StoredFirst /\ [Next]_vars => StoredFirst'
    <2> SUFFICES ASSUME TypeOK, StoredFirst, [Next]_vars
                 PROVE  FilesStored'
      BY FileOfStep, UploadOfStep DEF StoredFirst
    <2>a. /\ blobs \subseteq blobs'
          /\ rows \in [Jobs -> Row]
      BY BlobsStay DEF TypeOK, StoreTypeOK
    <2> SUFFICES ASSUME NEW i \in Jobs
                 PROVE  /\ rows'[i].upload_key # None
                             => <<"upload", rows'[i].upload_key>> \in blobs
                        /\ rows'[i].stem_key # None
                             => <<"stem", rows'[i].stem_key>> \in blobs
      BY <2>a DEF FilesStored
    <2>1. /\ rows[i].upload_key # None
               => <<"upload", rows[i].upload_key>> \in blobs
          /\ rows[i].stem_key # None => <<"stem", rows[i].stem_key>> \in blobs
      BY DEF StoredFirst, FilesStored
    <2>2. CASE KeysKept
      BY <2>1, <2>2 DEF KeysKept
    <2>3. ASSUME NEW q \in Requests, NEW j \in Jobs, NEW ip,
                 req[q].pc = "create",
                 Insert(j, req[q].song, ip,
                        IF req[q].song \in Uploads THEN req[q].song ELSE None)
          PROVE  /\ rows'[i].upload_key # None
                      => <<"upload", rows'[i].upload_key>> \in blobs
                 /\ rows'[i].stem_key # None
                      => <<"stem", rows'[i].stem_key>> \in blobs
      <3>1. UploadOf(q)
        BY DEF StoredFirst
      <3>2. CASE i = j
        BY <2>3, <2>a, <3>1, <3>2 DEF Insert, NoRow, UploadOf
      <3>3. CASE i # j
        BY <2>1, <2>3, <2>a, <3>3 DEF Insert
      <3>4. QED
        BY <3>2, <3>3
    <2>4. ASSUME NEW w \in Workers,
                 At(w, "attach"), attach_upload(wk[w].job, wk[w].audio)
          PROVE  /\ rows'[i].upload_key # None
                      => <<"upload", rows'[i].upload_key>> \in blobs
                 /\ rows'[i].stem_key # None
                      => <<"stem", rows'[i].stem_key>> \in blobs
      <3>1. FileOf(w) /\ wk[w].job \in Jobs
        BY <2>4 DEF StoredFirst, TypeOK, WorkerTypeOK, At
      <3>2. QED
        BY <2>1, <2>4, <3>1, AttachWrites DEF FileOf
    <2>5. ASSUME NEW w \in Workers,
                 At(w, "store"), succeed(wk[w].job, wk[w].audio)
          PROVE  /\ rows'[i].upload_key # None
                      => <<"upload", rows'[i].upload_key>> \in blobs
                 /\ rows'[i].stem_key # None
                      => <<"stem", rows'[i].stem_key>> \in blobs
      <3>1. FileOf(w) /\ wk[w].job \in Jobs
        BY <2>5 DEF StoredFirst, TypeOK, WorkerTypeOK, At
      <3>2. QED
        BY <2>1, <2>5, <3>1, SucceedWrites DEF FileOf
    <2>6. QED
      BY <2>2, <2>3, <2>4, <2>5, KeysStep
  <1>3. StoredFirst => FilesStored
    BY DEF StoredFirst
  <1>4. QED
    BY <1>1, <1>2, <1>3, TypeCorrect, PTL DEF Spec
-----------------------------------------------------------------------------
(* Custody.  While RQ delivers a job once at a time, a job is before its   *)
(* enqueue, in line, or with one worker.                                   *)

Submitting(q, j) == req[q].job = j /\ req[q].pc \in {"enqueue", "unqueue"}

(* RQ has not heard of the job.                                            *)
Unsent(j) ==
  /\ rq[j] = "none"
  /\ j \notin line
  /\ \A w \in Workers : ~Holds(w, j)

OneHolder ==
  \A v, w \in Workers, j \in Jobs : Holds(v, j) /\ Holds(w, j) => v = w

LineUnheld ==
  \A j \in line : rq[j] = "queued" /\ \A w \in Workers : ~Holds(w, j)

HeldKnown ==
  \A w \in Workers, j \in Jobs : Holds(w, j) => rq[j] \in {"none", "started"}

SentOnce ==
  /\ \A q \in Requests : req[q].pc = "enqueue" => Unsent(req[q].job)
  /\ \A p, q \in Requests, j \in Jobs :
       Submitting(p, j) /\ Submitting(q, j) => p = q

CreatedFirst ==
  \A j \in Jobs : ~Exists(j) =>
    Unsent(j) /\ \A q \in Requests : ~Submitting(q, j)

Custody ==
  OneHolder /\ LineUnheld /\ HeldKnown /\ SentOnce /\ CreatedFirst

(* A row stays.                                                            *)
LEMMA ExistsStays ==
  ASSUME TypeOK, [Next]_vars, NEW j \in Jobs, Exists(j)
  PROVE  Exists(j)'
  <1>1. CASE Created
    <2>1. PICK i \in Jobs, song \in Songs, ip \in Addresses,
               key \in Audio \cup {None} : ~Exists(i) /\ Insert(i, song, ip, key)
      BY <1>1 DEF Created
    <2>2. QED
      BY <2>1, InsertKeeps DEF Exists
  <1>2. CASE \E i \in Jobs, row \in Row : Moved(i, row)
    <2>1. PICK i \in Jobs, row \in Row : Moved(i, row)
      BY <1>2
    <2>2. rows \in [Jobs -> Row]
      BY DEF TypeOK, StoreTypeOK
    <2>3. QED
      BY <2>1, <2>2 DEF Moved, Exists
  <1>3. QED
    BY <1>1, <1>2, RowStep DEF Exists

(* What a request's step does to what it submits.                          *)
LEMMA RequestMoves ==
  ASSUME TypeOK, NEW q \in Requests, ApiStep(q)
  PROVE  \/ /\ Create(q)
            /\ \E j \in Jobs : /\ ~Exists(j)
                               /\ req'[q].pc = "enqueue"
                               /\ req'[q].job = j
         \/ /\ EnqueueRaises(q)
            /\ req[q].pc = "enqueue"
            /\ req'[q].pc = "unqueue"
            /\ req'[q].job = req[q].job
         \/ req'[q].pc = req[q].pc /\ req'[q].job = req[q].job
         \/ req'[q].pc \notin {"enqueue", "unqueue"}
  <1>a. req \in [Requests -> Request] /\ req[q] \in Request
    BY DEF TypeOK, ApiTypeOK
  <1>b. ASSUME Answer(q)
        PROVE  req'[q].pc \notin {"enqueue", "unqueue"}
    BY <1>a, <1>b DEF Answer, NoRequest
  <1>1. CASE \E j \in Jobs : GetJob(q, j)
    BY <1>1, ReadRowsMoves DEF GetJob
  <1>2. CASE FindLive(q)
    <2>1. ReadRows(q, find_live(req[q].song),
                   IF find_live(req[q].song) = {} THEN "check" ELSE "live")
      BY <1>2 DEF FindLive
    <2>2. req'[q].pc = IF find_live(req[q].song) = {} THEN "check" ELSE "live"
      BY <2>1, ReadRowsMoves
    <2>3. QED
      BY <2>2
  <1>3. CASE ListActive(q)
    BY <1>3, ReadRowsMoves DEF ListActive
  <1>4. CASE \E j \in Jobs : AskQueue(q, j) \/ QueueDown(q, j)
    BY <1>4, <1>a DEF AskQueue, QueueDown, LeaveAlone, Reconciles, Reconciling,
       Request
  <1>5. CASE FailLost(q)
    BY <1>5, <1>a DEF FailLost, Request
  <1>6. CASE \E song \in Songs, ip \in Addresses : Post(q, song, ip)
    <2>1. PICK song \in Songs, ip \in Addresses : Post(q, song, ip)
      BY <1>6
    <2>2. QED
      BY <2>1, <1>a DEF Post, Request
  <1>7. CASE CheckLimit(q) \/ Prepare(q)
    BY <1>7, <1>a DEF CheckLimit, Prepare, Step, Request
  <1>8. CASE Recount(q)
    BY <1>8, <1>a, <1>b DEF Recount, Step, Request
  <1>9. CASE Create(q)
    <2>1. CASE Answer(q)
      BY <2>1, <1>b
    <2>2. CASE \E j \in Jobs : /\ ~Exists(j)
                               /\ req' = [req EXCEPT ![q].pc = "enqueue",
                                                     ![q].job = j]
      BY <2>2, <1>9, <1>a DEF Request
    <2>3. QED
      BY <1>9, <2>1, <2>2 DEF Create
  <1>10. CASE EnqueueRaises(q)
    BY <1>10, <1>a DEF EnqueueRaises, Step, Request
  <1>11. QED
    BY <1>b, <1>1, <1>2, <1>3, <1>4, <1>5, <1>6, <1>7, <1>8, <1>9, <1>10
       DEF ApiStep, AnswerRead, LookupRefused, Enqueue, Unqueue, Abort

(* What a worker's step does to what its horse holds.                      *)
LEMMA HorseMoves ==
  ASSUME TypeOK, NEW w \in Workers, WorkerStep(w)
  PROVE  \/ \E j \in Jobs : /\ Take(w, j)
                            /\ wk'[w] = [pc |-> "taken", job |-> j,
                                         left |-> left[j], audio |-> None]
         \/ /\ Return(w) \/ Raise(w) \/ KillHorse(w) \/ KillWorker(w)
            /\ wk[w].pc # "idle"
            /\ wk'[w].pc = "idle"
         \/ /\ wk'[w].job = wk[w].job
            /\ wk'[w].left = wk[w].left
            /\ wk[w].pc # "idle"
            /\ wk'[w].pc # "idle"
            /\ wk'[w].pc = "taken" => wk[w].pc = "taken"
            /\ UNCHANGED queueVars
  <1>a. wk \in [Workers -> Horse] /\ wk[w] \in Horse
    BY DEF TypeOK, WorkerTypeOK
  <1>1. CASE \E j \in Jobs : Take(w, j)
    BY <1>1, <1>a DEF Take
  <1>2. CASE Return(w) \/ Raise(w) \/ KillHorse(w) \/ KillWorker(w)
    BY <1>2, <1>a DEF Return, Raise, KillHorse, KillWorker, Release, NoHorse, At
  <1>3. CASE Start(w)
    BY <1>3, <1>a DEF Start, At, Horse
  <1>4. CASE Download(w)
    BY <1>4, <1>a DEF Download, At, Horse
  <1>5. CASE \/ Load(w) \/ Keep(w) \/ Attach(w) \/ Separate(w) \/ Succeed(w)
             \/ InputRefused(w) \/ AttemptFails(w) \/ Refuse(w)
             \/ FailedAttempt(w) \/ CallRaises(w)
    BY <1>5, <1>a DEF Load, Keep, Attach, Separate, Succeed, InputRefused,
       AttemptFails, Refuse, FailedAttempt, CallRaises, At, Goto, Horse, InTry
  <1>6. CASE Progress(w)
    BY <1>6, <1>a DEF Progress, At
  <1>7. QED
    BY <1>1, <1>2, <1>3, <1>4, <1>5, <1>6 DEF WorkerStep

(* A step that neither delivers nor submits keeps custody.                 *)
LEMMA CustodyCalm ==
  ASSUME TypeOK, Custody, [Next]_vars,
         UNCHANGED queueVars,
         \A w \in Workers, j \in Jobs : Holds(w, j)' => Holds(w, j),
         \A q \in Requests : req'[q].pc \in {"enqueue", "unqueue"}
           => /\ req'[q].job = req[q].job
              /\ \/ req'[q].pc = req[q].pc
                 \/ req[q].pc = "enqueue" /\ req'[q].pc = "unqueue"
  PROVE  Custody'
  <1>1. OneHolder' /\ LineUnheld' /\ HeldKnown'
    BY DEF Custody, OneHolder, LineUnheld, HeldKnown, queueVars, TypeOK,
       QueueTypeOK
  <1>2. \A q \in Requests, j \in Jobs : Submitting(q, j)' => Submitting(q, j)
    BY DEF Submitting
  <1>3. \A j \in Jobs : Unsent(j) => Unsent(j)'
    BY DEF Unsent, queueVars
  <1>4. SentOnce'
    <2>1. ASSUME NEW q \in Requests, req'[q].pc = "enqueue"
          PROVE  Unsent(req[q].job)'
      <3>1. req'[q].job = req[q].job /\ req[q].pc = "enqueue"
        BY <2>1
      <3>2. Unsent(req[q].job) /\ req[q].job \in Jobs
        BY <3>1 DEF Custody, SentOnce, TypeOK, ApiTypeOK
      <3>3. Unsent(req[q].job)' <=> \A j \in {req[q].job} : Unsent(j)'
        BY <3>1 DEF Unsent, Holds
      <3>4. QED
        BY <3>2, <3>3, <1>3
    <2>2. QED
      BY <2>1, <1>2 DEF Custody, SentOnce
  <1>5. CreatedFirst'
    BY <1>2, <1>3, ExistsStays DEF Custody, CreatedFirst
  <1>6. QED
    BY <1>1, <1>4, <1>5 DEF Custody

(* A job RQ has heard of goes back to RQ from its holder, or from nobody.  *)
LEMMA CustodyReturned ==
  ASSUME TypeOK, Custody, [Next]_vars, NEW j \in Jobs, NEW n,
         ~Unsent(j), j \notin line,
         Retry(j, n) \/ Finished(j),
         UNCHANGED req,
         \A w \in Workers : ~Holds(w, j)',
         \A w \in Workers, i \in Jobs : Holds(w, i)' => Holds(w, i)
  PROVE  Custody'
  <1>1. /\ rq \in [Jobs -> RQStatuses]
        /\ line \in SUBSET Jobs
    BY DEF TypeOK, QueueTypeOK
  <1>2. \A i \in Jobs : i # j => rq'[i] = rq[i] /\ (i \in line' <=> i \in line)
    BY <1>1 DEF Retry, Finished, queueVars
  <1>3. j \in line' => rq'[j] = "queued"
    BY <1>1 DEF Retry, Finished, queueVars
  <1>4. OneHolder'
    BY DEF Custody, OneHolder
  <1>5. LineUnheld'
    <2>1. line' \subseteq Jobs
      BY <1>1 DEF Retry, Finished, queueVars
    <2>2. QED
      BY <1>2, <1>3, <2>1 DEF Custody, LineUnheld
  <1>6. HeldKnown'
    BY <1>2 DEF Custody, HeldKnown
  <1>7. \A i \in Jobs : Unsent(i) => Unsent(i)'
    BY <1>2 DEF Unsent
  <1>8. SentOnce'
    <2>1. ASSUME NEW q \in Requests, req[q].pc = "enqueue"
          PROVE  Unsent(req[q].job)'
      <3>1. Unsent(req[q].job) /\ req[q].job \in Jobs
        BY <2>1 DEF Custody, SentOnce, TypeOK, ApiTypeOK
      <3>2. Unsent(req[q].job)' <=> \A i \in {req[q].job} : Unsent(i)'
        BY DEF Unsent, Holds
      <3>3. QED
        BY <3>1, <3>2, <1>7
    <2>2. QED
      BY <2>1 DEF Custody, SentOnce, Submitting
  <1>9. CreatedFirst'
    BY <1>7, ExistsStays DEF Custody, CreatedFirst, Submitting
  <1>10. QED
    BY <1>4, <1>5, <1>6, <1>8, <1>9 DEF Custody

(* The request that created a job sends it to RQ, once.                    *)
LEMMA CustodySent ==
  ASSUME TypeOK, Custody, [Next]_vars, NEW q \in Requests,
         req[q].pc = "enqueue", enqueue(req[q].job),
         \/ req'[q].pc = "unqueue" /\ req'[q].job = req[q].job
         \/ req'[q].pc \notin {"enqueue", "unqueue"},
         \A p \in Requests : p # q => req'[p] = req[p],
         UNCHANGED wk
  PROVE  Custody'
  <1> DEFINE j == req[q].job
  <1>1. /\ rq \in [Jobs -> RQStatuses]
        /\ line \in SUBSET Jobs
        /\ j \in Jobs
    BY DEF TypeOK, QueueTypeOK, ApiTypeOK
  <1>2. /\ Unsent(j)
        /\ \A p \in Requests : Submitting(p, j) => p = q
        /\ Exists(j)
    BY <1>1 DEF Custody, SentOnce, CreatedFirst, Submitting
  <1>3. /\ rq'[j] = "queued" /\ line' = line \cup {j}
        /\ \A i \in Jobs : i # j => rq'[i] = rq[i]
    BY <1>1 DEF enqueue
  <1>4. \A w \in Workers, i \in Jobs : Holds(w, i)' <=> Holds(w, i)
    BY DEF Holds
  <1>5. \A i \in Jobs : i # j /\ Unsent(i) => Unsent(i)'
    BY <1>3, <1>4 DEF Unsent
  <1>6. \A p \in Requests, i \in Jobs : Submitting(p, i)' => Submitting(p, i)
    BY DEF Submitting
  <1> HIDE DEF j
  <1>7. OneHolder' /\ LineUnheld' /\ HeldKnown'
    BY <1>1, <1>2, <1>3, <1>4 DEF Custody, OneHolder, LineUnheld, HeldKnown,
       Unsent
  <1>8. SentOnce'
    <2>1. ASSUME NEW p \in Requests, req'[p].pc = "enqueue"
          PROVE  Unsent(req[p].job)' /\ req'[p].job = req[p].job
      <3>1. p # q /\ req'[p] = req[p]
        BY <2>1
      <3>2. req[p].job \in Jobs /\ Unsent(req[p].job)
        BY <2>1, <3>1 DEF Custody, SentOnce, TypeOK, ApiTypeOK
      <3>3. req[p].job # j
        BY <1>1, <1>2, <2>1, <3>1 DEF Submitting
      <3>4. Unsent(req[p].job)' <=> \A i \in {req[p].job} : Unsent(i)'
        BY <3>1 DEF Unsent, Holds
      <3>5. QED
        BY <3>1, <3>2, <3>3, <3>4, <1>5
    <2>2. ASSUME NEW p \in Requests, req'[p].pc = "enqueue"
          PROVE  Unsent(req[p].job)'
      BY <2>1, <2>2
    <2>3. QED
      BY <2>1, <1>6 DEF Custody, SentOnce, Unsent, Holds
  <1>9. CreatedFirst'
    BY <1>2, <1>5, <1>6, ExistsStays DEF Custody, CreatedFirst
  <1>10. QED
    BY <1>7, <1>8, <1>9 DEF Custody

LEMMA CustodyStep ==
  ASSUME TypeOK, Custody, [Next]_vars, ~Stalls
  PROVE  Custody'
  <1>a. /\ wk \in [Workers -> Horse]
        /\ req \in [Requests -> Request]
        /\ rq \in [Jobs -> RQStatuses]
        /\ line \in SUBSET Jobs
    BY DEF TypeOK, WorkerTypeOK, ApiTypeOK, QueueTypeOK
  <1>1. CASE UNCHANGED <<queueVars, wk, req>>
    BY <1>1, CustodyCalm DEF Holds
  <1>2. ASSUME NEW q \in Requests, ApiStep(q), UNCHANGED wk
        PROVE  Custody'
    <2>a. \A p \in Requests : p # q => req'[p] = req[p]
      BY <1>2, OtherRequests
    <2>h. \A w \in Workers, j \in Jobs : Holds(w, j)' <=> Holds(w, j)
      BY <1>2 DEF Holds
    <2>1. CASE Enqueue(q)
      <3>1. req'[q].pc = "idle"
        BY <2>1, <1>a DEF Enqueue, Answer, NoRequest
      <3>2. QED
        BY <2>1, <2>a, <3>1, <1>2, CustodySent DEF Enqueue
    <2>2. CASE EnqueueRaises(q)
      <3>1. /\ req[q].pc = "enqueue"
            /\ req'[q].pc = "unqueue"
            /\ req'[q].job = req[q].job
            /\ enqueue(req[q].job) \/ UNCHANGED queueVars
        BY <2>2, <1>a DEF EnqueueRaises, Step, Request
      <3>2. CASE enqueue(req[q].job)
        BY <2>a, <3>1, <3>2, <1>2, CustodySent
      <3>3. CASE UNCHANGED queueVars
        BY <2>a, <2>h, <3>1, <3>3, CustodyCalm
      <3>4. QED
        BY <3>1, <3>2, <3>3
    <2>3. CASE Create(q) /\ req'[q].pc = "enqueue"
      <3>1. PICK j \in Jobs : /\ ~Exists(j)
                             /\ Insert(j, req[q].song, req[q].ip,
                                       IF req[q].song \in Uploads
                                       THEN req[q].song ELSE None)
                             /\ req' = [req EXCEPT ![q].pc = "enqueue",
                                                   ![q].job = j]
        BY <2>3, <1>a DEF Create, Answer, NoRequest
      <3>2. req'[q].job = j /\ UNCHANGED queueVars
        <4>1. UNCHANGED queueVars
          BY <2>3 DEF Create
        <4>2. req'[q].job = j
          BY <3>1, <1>a DEF Request
        <4>3. QED
          BY <4>1, <4>2
      <3>3. Unsent(j) /\ \A p \in Requests : ~Submitting(p, j)
        BY <3>1 DEF Custody, CreatedFirst
      <3>4. \A i \in Jobs : Unsent(i) => Unsent(i)'
        BY <2>h, <3>2 DEF Unsent, queueVars
      <3>5. OneHolder' /\ LineUnheld' /\ HeldKnown'
        BY <2>h, <3>2, <1>a DEF Custody, OneHolder, LineUnheld, HeldKnown,
           queueVars
      <3>6. SentOnce'
        <4>1. ASSUME NEW p \in Requests, req'[p].pc = "enqueue",
                     NEW i \in Jobs, i = req'[p].job
              PROVE  Unsent(i)'
          BY <2>a, <3>2, <3>3, <3>4, <4>1 DEF Custody, SentOnce
        <4>2. \A p \in Requests : req'[p].pc = "enqueue" => req'[p].job \in Jobs
          BY <2>a, <3>2 DEF TypeOK, ApiTypeOK
        <4>3. \A p \in Requests : req'[p].pc = "enqueue" => Unsent(req[p].job)'
          BY <4>1, <4>2 DEF Unsent, Holds
        <4>4. ASSUME NEW p \in Requests, NEW r \in Requests, NEW i \in Jobs,
                     Submitting(p, i)', Submitting(r, i)'
              PROVE  p = r
          <5>1. CASE i = j
            BY <2>a, <3>2, <3>3, <4>4, <5>1 DEF Submitting
          <5>2. CASE i # j
            BY <2>a, <3>2, <4>4, <5>2 DEF Submitting, Custody, SentOnce
          <5>3. QED
            BY <5>1, <5>2
        <4>5. QED
          BY <4>3, <4>4 DEF SentOnce
      <3>7. CreatedFirst'
        <4>1. Exists(j)'
          BY <3>1 DEF Insert, NoRow, Exists, TypeOK, StoreTypeOK
        <4>2. \A i \in Jobs : ~Exists(i)' => ~Exists(i) /\ i # j
          BY <4>1, ExistsStays
        <4>3. QED
          BY <4>2, <2>a, <3>2, <3>4 DEF Custody, CreatedFirst, Submitting
      <3>8. QED
        BY <3>5, <3>6, <3>7 DEF Custody
    <2>4. CASE /\ UNCHANGED queueVars
               /\ \/ req'[q].pc = req[q].pc /\ req'[q].job = req[q].job
                  \/ req'[q].pc \notin {"enqueue", "unqueue"}
      BY <2>4, <2>a, <2>h, CustodyCalm
    <2>5. QED
      <3>1. Enqueue(q) \/ EnqueueRaises(q) \/ UNCHANGED queueVars
        BY <1>2 DEF ApiStep, GetJob, AskQueue, QueueDown, FailLost, AnswerRead,
           Post, FindLive, CheckLimit, ListActive, Recount, Prepare,
           LookupRefused, Create, Unqueue, Abort
      <3>2. QED
        BY <2>1, <2>2, <2>3, <2>4, <3>1, <1>2, RequestMoves
  <1>3. ASSUME NEW w \in Workers, WorkerStep(w), UNCHANGED req
        PROVE  Custody'
    <2>a. \A v \in Workers : v # w => wk'[v] = wk[v]
      BY <1>3, OtherHorses
    <2>1. CASE \E j \in Jobs : /\ Take(w, j)
                               /\ wk'[w] = [pc |-> "taken", job |-> j,
                                            left |-> left[j], audio |-> None]
      <3>1. PICK j \in Jobs : /\ Take(w, j)
                             /\ wk'[w] = [pc |-> "taken", job |-> j,
                                          left |-> left[j], audio |-> None]
        BY <2>1
      <3>2. /\ j \in line /\ line' = line \ {j}
            /\ rq' = [rq EXCEPT ![j] = "started"]
            /\ wk[w].pc = "idle"
        BY <3>1 DEF Take, Deliver, At
      <3>3. \A v \in Workers : ~Holds(v, j)
        BY <3>2 DEF Custody, LineUnheld
      <3>4. \A v \in Workers, i \in Jobs :
              Holds(v, i)' <=> Holds(v, i) \/ (v = w /\ i = j)
        BY <2>a, <3>1, <3>2 DEF Holds
      <3>5. OneHolder' /\ LineUnheld' /\ HeldKnown'
        BY <3>2, <3>3, <3>4, <1>a DEF Custody, OneHolder, LineUnheld, HeldKnown
      <3>6. \A i \in Jobs : Unsent(i) => Unsent(i)'
        BY <3>2, <3>4, <1>a DEF Unsent
      <3>7. SentOnce'
        <4>1. ASSUME NEW q \in Requests, req[q].pc = "enqueue"
              PROVE  Unsent(req[q].job)'
          <5>1. Unsent(req[q].job) /\ req[q].job \in Jobs
            BY <4>1 DEF Custody, SentOnce, TypeOK, ApiTypeOK
          <5>2. Unsent(req[q].job)' <=> \A i \in {req[q].job} : Unsent(i)'
            BY <1>3 DEF Unsent, Holds
          <5>3. QED
            BY <5>1, <5>2, <3>6
        <4>2. QED
          BY <4>1, <1>3 DEF Custody, SentOnce, Submitting
      <3>8. CreatedFirst'
        BY <3>6, <1>3, ExistsStays DEF Custody, CreatedFirst, Submitting
      <3>9. QED
        BY <3>5, <3>7, <3>8 DEF Custody
    <2>2. CASE /\ Return(w) \/ Raise(w) \/ KillHorse(w) \/ KillWorker(w)
               /\ wk[w].pc # "idle"
               /\ wk'[w].pc = "idle"
      <3>1. /\ wk[w].job \in Jobs
            /\ Holds(w, wk[w].job)
        BY <2>2 DEF TypeOK, WorkerTypeOK, Holds
      <3>2. ~Unsent(wk[w].job) /\ wk[w].job \notin line
        BY <3>1 DEF Custody, LineUnheld, Unsent
      <3>3. \A v \in Workers : ~Holds(v, wk[w].job) \/ v = w
        BY <3>1 DEF Custody, OneHolder
      <3>4. \A v \in Workers, i \in Jobs : Holds(v, i)' <=> Holds(v, i) /\ v # w
        BY <2>a, <2>2 DEF Holds
      <3>5. CASE KillWorker(w)
        BY <3>4, <3>5, <1>3, CustodyCalm DEF KillWorker
      <3>6. CASE Return(w) \/ Raise(w) \/ KillHorse(w)
        <4>1. \/ Finished(wk[w].job)
              \/ Retry(wk[w].job, wk[w].left)
          BY <3>6 DEF Return, Raise, KillHorse
        <4>2. ASSUME NEW j \in Jobs, j = wk[w].job
              PROVE  Custody'
          <5>1. \A v \in Workers : ~Holds(v, j)'
            BY <3>3, <3>4, <4>2
          <5>2. ~Unsent(j) /\ j \notin line
            BY <3>2, <4>2
          <5>3. Finished(j) \/ Retry(j, wk[w].left)
            BY <4>1, <4>2
          <5>4. QED
            BY <5>1, <5>2, <5>3, <3>4, <1>3, CustodyReturned
        <4>3. QED
          BY <4>2, <3>1
      <3>7. QED
        BY <2>2, <3>5, <3>6
    <2>3. CASE /\ wk'[w].job = wk[w].job
               /\ wk[w].pc # "idle"
               /\ UNCHANGED queueVars
      <3>1. \A v \in Workers, j \in Jobs : Holds(v, j)' => Holds(v, j)
        BY <2>a, <2>3 DEF Holds
      <3>2. QED
        BY <2>3, <3>1, <1>3, CustodyCalm
    <2>4. QED
      BY <1>3, <2>1, <2>2, <2>3, HorseMoves
  <1>4. ASSUME NEW j \in Jobs, Abandon(j), UNCHANGED req
        PROVE  Custody'
    <2>1. /\ rq[j] = "started"
          /\ \A w \in Workers : ~Holds(w, j)
          /\ Retry(j, left[j])
          /\ UNCHANGED wk
      BY <1>4 DEF Abandon
    <2>2. ~Unsent(j) /\ j \notin line
      BY <2>1 DEF Unsent, Custody, LineUnheld
    <2>3. \A w \in Workers, i \in Jobs : Holds(w, i)' <=> Holds(w, i)
      BY <2>1 DEF Holds
    <2>4. QED
      BY <2>1, <2>2, <2>3, <1>4, CustodyReturned
  <1>5. CASE FlushRedis /\ UNCHANGED req
    <2>1. /\ rq' = [j \in Jobs |-> "none"]
          /\ line' = {}
          /\ UNCHANGED <<rows, wk>>
      BY <1>5 DEF FlushRedis, Flush, storeVars
    <2>2. \A w \in Workers, i \in Jobs : Holds(w, i)' <=> Holds(w, i)
      BY <2>1 DEF Holds
    <2>3. OneHolder' /\ LineUnheld' /\ HeldKnown'
      BY <2>1, <2>2 DEF Custody, OneHolder, LineUnheld, HeldKnown
    <2>4. SentOnce'
      <3>1. ASSUME NEW q \in Requests, req[q].pc = "enqueue"
            PROVE  Unsent(req[q].job)'
        BY <2>1, <3>1, <1>5 DEF Custody, SentOnce, Unsent, Holds, TypeOK, ApiTypeOK
      <3>2. QED
        BY <3>1, <1>5 DEF Custody, SentOnce, Submitting
    <2>5. CreatedFirst'
      BY <2>1, <2>2, <1>5 DEF Custody, CreatedFirst, Unsent, Exists, Submitting
    <2>6. QED
      BY <2>3, <2>4, <2>5 DEF Custody
  <1>6. QED
    BY <1>1, <1>2, <1>3, <1>4, <1>5 DEF Next, Age, vars, queueVars

(* A job is before its enqueue, in line or with one worker.                *)
THEOREM KeptInCustody == ASSUME ~Stalls PROVE Spec => []Custody
  <1>1. Init => Custody
    BY DEF Init, StoreInit, QueueInit, WorkerInit, ApiInit, NoRow, NoHorse,
       NoRequest, Custody, OneHolder, LineUnheld, HeldKnown, SentOnce,
       CreatedFirst, Unsent, Submitting, Holds, Exists
  <1>2. TypeOK /\ Custody /\ [Next]_vars => Custody'
    BY CustodyStep
  <1>3. QED
    BY <1>1, <1>2, TypeCorrect, PTL DEF Spec

-----------------------------------------------------------------------------
(* Ownership.  The row of an attempt in its try is running, too young for  *)
(* reconciliation and not as any request read it, so nobody can fail it.   *)

Untouchable(j) ==
  /\ Running(j)
  /\ j \notin aged
  /\ \A q \in Requests : j \notin asRead[q]

Ownership == \A w \in Workers : wk[w].pc \in InTry => Untouchable(wk[w].job)

(* The step leaves row j alone, and makes it no older and no better known. *)
Undisturbed(j) ==
  /\ rows'[j] = rows[j]
  /\ j \in aged' => j \in aged
  /\ \A q \in Requests : j \in asRead'[q] => j \in asRead[q]

LEMMA UndisturbedStays ==
  ASSUME NEW j \in Jobs, Untouchable(j), Undisturbed(j)
  PROVE  Untouchable(j)'
  BY DEF Untouchable, Undisturbed, Running

LEMMA UpdateElsewhere ==
  ASSUME TypeOK, NEW j \in Jobs, NEW k \in Jobs, NEW allowed, NEW row,
         Update(k, allowed, row), k # j \/ rows[k].status \notin allowed
  PROVE  Undisturbed(j)
  BY DEF TypeOK, StoreTypeOK, Update, Stamp, storeVars, Undisturbed

LEMMA UpdateOwned ==
  ASSUME TypeOK, NEW j \in Jobs, NEW allowed, NEW row, Update(j, allowed, row),
         rows[j].status \in allowed, row.status = "running"
  PROVE  Untouchable(j)'
  BY DEF TypeOK, StoreTypeOK, Update, Stamp, Untouchable, Running

LEMMA CallElsewhere ==
  ASSUME TypeOK, NEW j \in Jobs, NEW k \in Jobs, k # j,
         NEW stage, NEW percent, NEW key, NEW expect,
         \/ mark_running(k)
         \/ set_progress(k, stage, percent)
         \/ attach_upload(k, key)
         \/ succeed(k, key)
         \/ fail(k, expect)
         \/ requeue(k)
         \/ UNCHANGED storeVars
  PROVE  Undisturbed(j)
  <1>1. CASE mark_running(k)
    BY <1>1, UpdateElsewhere DEF mark_running
  <1>2. CASE set_progress(k, stage, percent)
    BY <1>2, UpdateElsewhere DEF set_progress
  <1>3. CASE attach_upload(k, key)
    BY <1>3, UpdateElsewhere DEF attach_upload
  <1>4. CASE succeed(k, key)
    BY <1>4, UpdateElsewhere DEF succeed
  <1>5. CASE fail(k, expect)
    BY <1>5, UpdateElsewhere DEF fail
  <1>6. CASE requeue(k)
    BY <1>6, UpdateElsewhere DEF requeue
  <1>7. CASE UNCHANGED storeVars
    BY <1>7 DEF storeVars, Undisturbed
  <1>8. QED
    BY <1>1, <1>2, <1>3, <1>4, <1>5, <1>6, <1>7

(* A worker writes the row of the job it holds, and no other.              *)
LEMMA WorkerElsewhere ==
  ASSUME TypeOK, NEW w \in Workers, WorkerStep(w), NEW j \in Jobs, ~Holds(w, j)
  PROVE  Undisturbed(j)
  <1>1. CASE UNCHANGED storeVars
    BY <1>1 DEF storeVars, Undisturbed
  <1>2. CASE \/ Start(w) \/ Attach(w) \/ Progress(w) \/ Succeed(w)
             \/ Refuse(w) \/ FailedAttempt(w) \/ CallRaises(w)
    <2>1. wk[w].pc # "idle"
      BY <1>2 DEF Start, Attach, Progress, Succeed, Refuse, FailedAttempt,
         CallRaises, At
    <2>2. wk[w].job \in Jobs /\ wk[w].job # j
      BY <2>1 DEF TypeOK, WorkerTypeOK, Holds
    <2>3. \/ mark_running(wk[w].job)
          \/ attach_upload(wk[w].job, wk[w].audio)
          \/ set_progress(wk[w].job, "download", 0)
          \/ set_progress(wk[w].job, "pipeline", Midway)
          \/ succeed(wk[w].job, wk[w].audio)
          \/ fail(wk[w].job, "running")
          \/ requeue(wk[w].job)
          \/ UNCHANGED storeVars
      BY <1>2 DEF Start, Attach, Progress, Succeed, Refuse, FailedAttempt,
         CallRaises
    <2>4. QED
      BY <2>2, <2>3, CallElsewhere
  <1>3. QED
    BY <1>1, <1>2 DEF WorkerStep, Take, Load, Download, Keep, Separate,
       InputRefused, AttemptFails, Return, Raise, KillHorse, KillWorker

(* Nor does a request touch a row that is untouchable.                     *)
LEMMA ApiElsewhere ==
  ASSUME TypeOK, NEW q \in Requests, ApiStep(q), NEW j \in Jobs, Untouchable(j)
  PROVE  Undisturbed(j)
  <1>a. /\ rows \in [Jobs -> Row]
        /\ asRead \in [Requests -> SUBSET Jobs]
        /\ req[q] \in Request
    BY DEF TypeOK, StoreTypeOK, ApiTypeOK
  <1>1. CASE UNCHANGED storeVars
    BY <1>1 DEF storeVars, Undisturbed
  <1>2. ASSUME NEW js, NEW pc, ReadRows(q, js, pc)
        PROVE  Undisturbed(j)
    BY <1>2, <1>a DEF ReadRows, Suspects, Untouchable, Undisturbed
  <1>3. CASE (\E i \in Jobs : GetJob(q, i)) \/ FindLive(q) \/ ListActive(q)
    BY <1>2, <1>3 DEF GetJob, FindLive, ListActive
  <1>4. CASE (\E i \in Jobs : AskQueue(q, i) \/ QueueDown(q, i)) \/ Abort(q)
    BY <1>4, <1>a DEF AskQueue, QueueDown, LeaveAlone, Abort, Undisturbed
  <1>5. CASE FailLost(q)
    <2>1. req[q].lost \in Jobs
      BY <1>5, <1>a DEF FailLost, Request
    <2>2. CASE req[q].lost \notin asRead[q]
      BY <1>1, <1>5, <2>2 DEF FailLost, fail_as_read
    <2>3. CASE req[q].lost \in asRead[q]
      <3>1. req[q].lost # j
        BY <2>3 DEF Untouchable
      <3>2. fail(req[q].lost, req[q].suspect[req[q].lost])
        BY <1>5, <2>3 DEF FailLost, fail_as_read
      <3>3. QED
        BY <2>1, <3>1, <3>2, CallElsewhere
    <2>4. QED
      BY <2>2, <2>3
  <1>6. CASE Create(q)
    <2>1. ASSUME NEW i \in Jobs, ~Exists(i), NEW song, NEW ip, NEW key,
                 Insert(i, song, ip, key)
          PROVE  Undisturbed(j)
      <3>1. i # j
        BY <2>1 DEF Exists, Untouchable, Running
      <3>2. QED
        BY <2>1, <3>1, <1>a DEF Insert, Stamp, Undisturbed
    <2>2. QED
      BY <1>1, <1>6, <2>1 DEF Create
  <1>7. CASE Unqueue(q)
    <2>1. req[q].job \in Jobs /\ fail(req[q].job, "queued")
      BY <1>7 DEF Unqueue, TypeOK, ApiTypeOK
    <2>2. req[q].job # j \/ rows[req[q].job].status \notin {"queued"}
      BY DEF Untouchable, Running
    <2>3. QED
      BY <2>1, <2>2, UpdateElsewhere DEF fail
  <1>8. QED
    BY <1>1, <1>3, <1>4, <1>5, <1>6, <1>7 DEF ApiStep, AnswerRead, Post,
       CheckLimit, Recount, Prepare, LookupRefused, Enqueue, EnqueueRaises

(* What the holder itself does keeps the row its own until it leaves.      *)
LEMMA OwnerKeeps ==
  ASSUME TypeOK, Ownership, NEW w \in Workers, WorkerStep(w),
         wk'[w].pc \in InTry, NEW j \in Jobs, j = wk'[w].job
  PROVE  Untouchable(j)'
  <1>a. /\ wk \in [Workers -> Horse] /\ wk[w] \in Horse
        /\ rows \in [Jobs -> Row] /\ rows[j] \in Row
    BY DEF TypeOK, WorkerTypeOK, StoreTypeOK
  <1>1. wk[w].job = j
    <2>1. wk'[w].pc # "taken" /\ wk'[w].pc # "idle"
      BY DEF InTry
    <2>2. CASE \E i \in Jobs :
                 wk'[w] = [pc |-> "taken", job |-> i, left |-> left[i],
                           audio |-> None]
      BY <2>1, <2>2
    <2>3. QED
      BY <2>1, <2>2, HorseMoves
  <1>2. rows[j].attempts + 1 \in Nat
    BY <1>a DEF Row
  <1>3. CASE wk[w].pc \in InTry /\ UNCHANGED storeVars
    BY <1>1, <1>3, UndisturbedStays DEF Ownership, Undisturbed, storeVars
  <1>4. ASSUME NEW row, Update(j, {"running"}, row), wk[w].pc \in InTry,
               row.status = "running"
        PROVE  Untouchable(j)'
    <2>1. rows[j].status \in {"running"}
      BY <1>1, <1>4 DEF Ownership, Untouchable, Running
    <2>2. QED
      BY <1>4, <2>1, UpdateOwned
  <1>5. CASE Start(w)
    <2>1. Active(j)
      BY SMTT(40), <1>1, <1>5, <1>a DEF Start, At, Horse, InTry
    <2>2. Update(j, ActiveStatuses, Started(rows[j], rows[j].attempts + 1))
      BY <1>1, <1>5 DEF Start, mark_running, Started
    <2>3. Started(rows[j], rows[j].attempts + 1).status = "running"
      BY <1>2, <1>a, StartedFields
    <2>4. QED
      BY SMTT(40), <2>1, <2>2, <2>3, UpdateOwned DEF Active
  <1>6. CASE Attach(w)
    <2>1. Update(j, {"running"}, Attached(rows[j], wk[w].audio))
      BY <1>1, <1>6 DEF Attach, attach_upload, Attached
    <2>2. wk[w].pc \in InTry
      BY <1>6 DEF Attach, At, InTry
    <2>3. rows[j].status = "running"
      BY <1>1, <2>2 DEF Ownership, Untouchable, Running
    <2>4. Attached(rows[j], wk[w].audio).status = "running"
      BY <1>2, <1>a, <2>3, AttachedFields
    <2>5. QED
      BY <1>4, <2>1, <2>2, <2>4
  <1>7. CASE Progress(w)
    <2>1. PICK stage \in {"download", "pipeline"}, percent \in {0, Midway} :
                 set_progress(j, stage, percent)
      BY <1>1, <1>7 DEF Progress
    <2>2. Update(j, {"running"}, Progressed(rows[j], stage, percent))
      BY <2>1 DEF set_progress, Progressed
    <2>3. wk[w].pc \in InTry
      BY <1>7 DEF Progress, At, InTry
    <2>4. rows[j].status = "running"
      BY <1>1, <2>3 DEF Ownership, Untouchable, Running
    <2>5. Progressed(rows[j], stage, percent).status = "running"
      BY <1>2, <1>a, <2>4, ProgressedFields
    <2>6. QED
      BY <1>4, <2>2, <2>3, <2>5
  <1>8. CASE Load(w) \/ Download(w) \/ Keep(w) \/ Separate(w)
    <2>1. wk[w].pc \in InTry /\ UNCHANGED storeVars
      BY <1>8 DEF Load, Download, Keep, Separate, At, InTry
    <2>2. QED
      BY <1>3, <2>1
  <1>9. CASE \/ Succeed(w) \/ InputRefused(w) \/ AttemptFails(w) \/ Refuse(w)
             \/ FailedAttempt(w) \/ CallRaises(w)
    <2>1. wk'[w].pc \in {"returning", "refuse", "caught", "raising"}
      BY <1>9, <1>a DEF Succeed, InputRefused, AttemptFails, Refuse,
         FailedAttempt, CallRaises, Goto, Horse
    <2>2. QED
      BY <2>1 DEF InTry
  <1>10. CASE \/ \E i \in Jobs : Take(w, i)
              \/ Return(w) \/ Raise(w) \/ KillHorse(w) \/ KillWorker(w)
    <2>1. wk'[w].pc \in {"taken", "idle"}
      BY <1>10, <1>a DEF Take, Return, Raise, KillHorse, KillWorker, Release,
         NoHorse
    <2>2. QED
      BY <2>1 DEF InTry
  <1>11. QED
    BY <1>5, <1>6, <1>7, <1>8, <1>9, <1>10 DEF WorkerStep

(* And nothing but the holder touches it.                                  *)
LEMMA OthersKeepOff ==
  ASSUME TypeOK, Custody, [Next]_vars, ~Stalls,
         NEW w \in Workers, ~WorkerStep(w), wk[w].pc \in InTry,
         NEW j \in Jobs, Holds(w, j), Untouchable(j)
  PROVE  Undisturbed(j)
  <1>1. ASSUME NEW q \in Requests, ApiStep(q)
        PROVE  Undisturbed(j)
    BY <1>1, ApiElsewhere
  <1>2. ASSUME NEW v \in Workers, WorkerStep(v)
        PROVE  Undisturbed(j)
    <2>1. v # w
      BY <1>2
    <2>2. ~Holds(v, j)
      BY <2>1 DEF Custody, OneHolder
    <2>3. QED
      BY <1>2, <2>2, WorkerElsewhere
  <1>3. ASSUME NEW i \in Jobs, Age(i)
        PROVE  Undisturbed(j)
    <2>1. BeingRun(j)
      BY DEF BeingRun, Attempting, Holds
    <2>2. i # j
      BY <1>3, <2>1 DEF Age, Untouchable, Running
    <2>3. QED
      BY <1>3, <2>2 DEF Age, Undisturbed
  <1>4. CASE UNCHANGED storeVars
    BY <1>4 DEF storeVars, Undisturbed
  <1>5. QED
    BY <1>1, <1>2, <1>3, <1>4 DEF Next, Abandon, FlushRedis, vars, storeVars

LEMMA OwnershipStep ==
  ASSUME TypeOK, Custody, Ownership, [Next]_vars, ~Stalls
  PROVE  Ownership'
  <1> SUFFICES ASSUME NEW w \in Workers, wk'[w].pc \in InTry,
                      NEW j \in Jobs, j = wk'[w].job
               PROVE  Untouchable(j)'
    <2>1. WorkerTypeOK'
      BY WorkerTypeStep
    <2>2. \A w \in Workers : wk'[w].pc \in InTry => wk'[w].job \in Jobs
      BY <2>1 DEF WorkerTypeOK, InTry
    <2>3. QED
      BY <2>2 DEF Ownership, Untouchable, Running
  <1>1. CASE WorkerStep(w)
    BY <1>1, OwnerKeeps
  <1>2. CASE ~WorkerStep(w)
    <2>1. wk'[w] = wk[w]
      BY <1>2, OneHorse
    <2>2. /\ wk[w].pc \in InTry
          /\ Holds(w, j)
          /\ Untouchable(j)
      BY <2>1 DEF TypeOK, WorkerTypeOK, Holds, InTry, Ownership
    <2>3. Undisturbed(j)
      BY <1>2, <2>2, OthersKeepOff
    <2>4. QED
      BY <2>2, <2>3, UndisturbedStays
  <1>3. QED
    BY <1>1, <1>2

(* Every attempt in its try owns its row.                                  *)
THEOREM KeptOwned == ASSUME ~Stalls PROVE Spec => []Ownership
  <1>1. Init => Ownership
    BY DEF Init, WorkerInit, NoHorse, Ownership, InTry
  <1>2. TypeOK /\ Custody /\ Ownership /\ [Next]_vars => Ownership'
    BY OwnershipStep
  <1>3. QED
    BY <1>1, <1>2, TypeCorrect, KeptInCustody, PTL DEF Spec

(* While RQ delivers a job once at a time, an attempt in its try has the   *)
(* row to itself and running: no retry, poll or second request takes it    *)
(* away.                                                                   *)
THEOREM OwnsRow == Spec => []AttemptOwnsRow
  <1>1. CASE Stalls
    <2>1. AttemptOwnsRow
      BY <1>1 DEF AttemptOwnsRow
    <2>2. QED
      BY <2>1, PTL
  <1>2. CASE ~Stalls
    <2>1. TypeOK /\ Custody /\ Ownership => AttemptOwnsRow
      <3>1. SUFFICES ASSUME TypeOK, Custody, Ownership,
                            NEW w \in Workers, wk[w].pc \in InTry
                     PROVE  /\ Running(wk[w].job)
                            /\ \A v \in Workers : Holds(v, wk[w].job) => v = w
        BY DEF AttemptOwnsRow
      <3>2. Holds(w, wk[w].job) /\ wk[w].job \in Jobs
        BY <3>1 DEF Holds, InTry, TypeOK, WorkerTypeOK
      <3>3. QED
        BY <3>1, <3>2 DEF Custody, OneHolder, Ownership, Untouchable
    <2>2. Spec => []Custody
      BY <1>2, KeptInCustody
    <2>3. Spec => []Ownership
      BY <1>2, KeptOwned
    <2>4. QED
      BY <2>1, <2>2, <2>3, TypeCorrect, PTL
  <1>3. QED
    BY <1>1, <1>2, WorkerAssumption

-----------------------------------------------------------------------------
(* The retries.  What a job was attempted and what RQ may still retry add  *)
(* up, wherever the job is.                                                *)

Spent(w) == IF At(w, "taken") THEN 0 ELSE 1

BudgetOf(j) ==
  /\ rows[j].attempts <= MAX_RETRIES + 1
  /\ \A q \in Requests :
       req[q].pc = "enqueue" /\ req[q].job = j => rows[j].attempts = 0
  /\ j \in line => rows[j].attempts + left[j] <= MAX_RETRIES
  /\ rq[j] = "started" => rows[j].attempts + left[j] <= MAX_RETRIES + 1
  /\ \A w \in Workers : Holds(w, j) =>
       /\ rows[j].attempts + wk[w].left <= MAX_RETRIES + Spent(w)
       /\ rq[j] = "started" => left[j] = wk[w].left

Budget == \A j \in Jobs : BudgetOf(j)

LEMMA CallKeepsAttempts ==
  ASSUME TypeOK, NEW j \in Jobs, NEW stage, NEW percent, NEW key, NEW expect,
         \/ set_progress(j, stage, percent)
         \/ attach_upload(j, key)
         \/ succeed(j, key)
         \/ fail(j, expect)
         \/ requeue(j)
         \/ UNCHANGED rows
  PROVE  \A i \in Jobs : rows'[i].attempts = rows[i].attempts
  <1>1. StoreTypeOK /\ rows[j] \in Row
    BY DEF TypeOK, StoreTypeOK
  <1>2. ASSUME NEW allowed, NEW row, Update(j, allowed, row),
               row.attempts = rows[j].attempts
        PROVE  \A i \in Jobs : rows'[i].attempts = rows[i].attempts
    <2> SUFFICES ASSUME NEW i \in Jobs
                 PROVE  rows'[i].attempts = rows[i].attempts
      OBVIOUS
    <2>1. /\ i # j => rows'[i] = rows[i]
          /\ rows[j].status \in allowed => rows'[j] = row
          /\ rows[j].status \notin allowed => rows' = rows
      BY <1>1, <1>2, UpdateWrites
    <2>2. QED
      BY <1>2, <2>1
  <1>3. CASE set_progress(j, stage, percent)
    <2>1. Update(j, {"running"}, Progressed(rows[j], stage, percent))
      BY <1>3 DEF set_progress, Progressed
    <2>2. QED
      BY <1>1, <1>2, <2>1, ProgressedFields
  <1>4. CASE attach_upload(j, key)
    <2>1. Update(j, {"running"}, Attached(rows[j], key))
      BY <1>4 DEF attach_upload, Attached
    <2>2. QED
      BY <1>1, <1>2, <2>1, AttachedFields
  <1>5. CASE succeed(j, key)
    <2>1. Update(j, {"running"}, Done(rows[j], key))
      BY <1>5 DEF succeed, Done
    <2>2. QED
      BY <1>1, <1>2, <2>1, DoneFields
  <1>6. CASE fail(j, expect)
    <2>1. Update(j, {expect}, GivenUp(rows[j]))
      BY <1>6 DEF fail, GivenUp
    <2>2. QED
      BY <1>1, <1>2, <2>1, GivenUpFields
  <1>7. CASE requeue(j)
    <2>1. Update(j, {"running"}, PutBack(rows[j]))
      BY <1>7 DEF requeue, PutBack
    <2>2. QED
      BY <1>1, <1>2, <2>1, PutBackFields
  <1>8. QED
    BY <1>3, <1>4, <1>5, <1>6, <1>7

(* Only the delivery that starts an attempt counts it.                     *)
LEMMA AttemptsStep ==
  ASSUME TypeOK, [Next]_vars, NEW j \in Jobs
  PROVE  \/ rows'[j].attempts = rows[j].attempts
         \/ /\ ~Exists(j) /\ rows'[j].attempts = 0
            /\ UNCHANGED <<queueVars, wk>>
         \/ \E w \in Workers : /\ WorkerStep(w) /\ UNCHANGED <<queueVars, req>>
                               /\ Holds(w, j) /\ At(w, "taken")
                               /\ ~At(w, "taken")'
                               /\ rows'[j].attempts = rows[j].attempts + 1
  <1>a. /\ rows \in [Jobs -> Row] /\ StoreTypeOK
        /\ wk \in [Workers -> Horse]
    BY DEF TypeOK, StoreTypeOK, WorkerTypeOK
  <1>1. ASSUME NEW q \in Requests, ApiStep(q), UNCHANGED wk
        PROVE  \/ rows'[j].attempts = rows[j].attempts
               \/ /\ ~Exists(j) /\ rows'[j].attempts = 0
                  /\ UNCHANGED <<queueVars, wk>>
    <2>1. CASE UNCHANGED rows
      BY <2>1
    <2>2. CASE FailLost(q)
      <3>1. req[q].lost \in Jobs
        BY <2>2 DEF FailLost, TypeOK, ApiTypeOK, Request
      <3>2. QED
        BY <2>2, <3>1, CallKeepsAttempts DEF FailLost, fail_as_read, storeVars
    <2>3. CASE Unqueue(q)
      <3>1. req[q].job \in Jobs
        BY <2>3 DEF Unqueue, TypeOK, ApiTypeOK
      <3>2. QED
        BY <2>3, <3>1, CallKeepsAttempts DEF Unqueue
    <2>4. CASE Create(q)
      <3>1. UNCHANGED queueVars
        BY <2>4 DEF Create
      <3>2. ASSUME NEW i \in Jobs, ~Exists(i), NEW song, NEW ip, NEW key,
                   Insert(i, song, ip, key)
            PROVE  \/ rows'[j].attempts = rows[j].attempts
                   \/ ~Exists(j) /\ rows'[j].attempts = 0
        <4>1. CASE i = j
          BY <3>2, <4>1, <1>a DEF Insert, NoRow
        <4>2. CASE i # j
          BY <3>2, <4>2, <1>a DEF Insert
        <4>3. QED
          BY <4>1, <4>2
      <3>3. QED
        BY <2>4, <3>1, <3>2, <1>1 DEF Create, storeVars
    <2>5. QED
      BY <1>1, <2>1, <2>2, <2>3, <2>4 DEF ApiStep, GetJob, AskQueue, QueueDown,
         AnswerRead, Post, FindLive, CheckLimit, ListActive, Recount, Prepare,
         LookupRefused, Enqueue, EnqueueRaises, Abort, ReadRows, storeVars
  <1>2. ASSUME NEW w \in Workers, WorkerStep(w), UNCHANGED req
        PROVE  \/ rows'[j].attempts = rows[j].attempts
               \/ /\ UNCHANGED queueVars
                  /\ Holds(w, j) /\ At(w, "taken")
                  /\ ~At(w, "taken")'
                  /\ rows'[j].attempts = rows[j].attempts + 1
    <2>1. CASE UNCHANGED rows
      BY <2>1
    <2>2. CASE \/ Start(w) \/ Attach(w) \/ Progress(w) \/ Succeed(w)
               \/ Refuse(w) \/ FailedAttempt(w) \/ CallRaises(w)
      <3>1. wk[w].job \in Jobs /\ UNCHANGED queueVars
        BY <2>2 DEF Start, Attach, Progress, Succeed, Refuse, FailedAttempt,
           CallRaises, At, TypeOK, WorkerTypeOK
      <3>2. \/ mark_running(wk[w].job) /\ At(w, "taken")
            \/ attach_upload(wk[w].job, wk[w].audio)
            \/ set_progress(wk[w].job, "download", 0)
            \/ set_progress(wk[w].job, "pipeline", Midway)
            \/ succeed(wk[w].job, wk[w].audio)
            \/ fail(wk[w].job, "running")
            \/ requeue(wk[w].job)
            \/ UNCHANGED rows
        BY <2>2 DEF Start, Attach, Progress, Succeed, Refuse, FailedAttempt,
           CallRaises, storeVars
      <3>3. CASE mark_running(wk[w].job) /\ At(w, "taken")
        <4>1. Update(wk[w].job, ActiveStatuses,
                     Started(rows[wk[w].job], rows[wk[w].job].attempts + 1))
          BY <3>3 DEF mark_running, Started
        <4>2. /\ rows[wk[w].job] \in Row
              /\ rows[wk[w].job].attempts + 1 \in Nat
          BY <3>1, <1>a DEF Row
        <4>3. /\ j # wk[w].job => rows'[j] = rows[j]
              /\ j = wk[w].job => rows'[j].attempts \in
                                    {rows[j].attempts, rows[j].attempts + 1}
          BY <4>1, <4>2, <3>1, <1>a, UpdateWrites, StartedFields
        <4>4. ~At(w, "taken")'
          BY <2>2, <3>3, <1>a DEF Start, Attach, Progress, Succeed, Refuse,
             FailedAttempt, CallRaises, Goto, At, Horse
        <4>5. QED
          BY <3>1, <3>3, <4>3, <4>4 DEF Holds, At
      <3>4. QED
        BY <3>1, <3>2, <3>3, CallKeepsAttempts
    <2>3. QED
      BY <1>2, <2>1, <2>2 DEF WorkerStep, Take, Load, Download, Keep, Separate,
         InputRefused, AttemptFails, Return, Raise, KillHorse, KillWorker,
         storeVars
  <1>3. CASE UNCHANGED rows
    BY <1>3
  <1>4. QED
    BY <1>1, <1>2, <1>3 DEF Next, Abandon, FlushRedis, Age, vars, storeVars

(* RQ and the holders know no more of the job than before, and nobody      *)
(* attempts it.                                                            *)
LEMMA BudgetCarried ==
  ASSUME TypeOK, NEW j \in Jobs, BudgetOf(j),
         rows'[j].attempts = rows[j].attempts,
         j \in line' => j \in line /\ left'[j] = left[j],
         rq'[j] = "started" => rq[j] = "started" /\ left'[j] = left[j],
         \A q \in Requests : req'[q].pc = "enqueue" /\ req'[q].job = j
           => req[q].pc = "enqueue" /\ req[q].job = j,
         \A w \in Workers : Holds(w, j)'
           => /\ Holds(w, j)
              /\ wk'[w].left = wk[w].left
              /\ At(w, "taken")' => At(w, "taken")
  PROVE  BudgetOf(j)'
  <1>1. /\ rows[j].attempts \in Nat
        /\ left[j] \in Nat
        /\ \A w \in Workers : wk[w].left \in Nat
    BY QueueAssumption DEF TypeOK, StoreTypeOK, Row, QueueTypeOK, WorkerTypeOK,
       Horse
  <1>2. /\ rows'[j].attempts <= MAX_RETRIES + 1
        /\ \A q \in Requests :
             req'[q].pc = "enqueue" /\ req'[q].job = j => rows'[j].attempts = 0
        /\ j \in line' => rows'[j].attempts + left'[j] <= MAX_RETRIES
        /\ rq'[j] = "started" => rows'[j].attempts + left'[j] <= MAX_RETRIES + 1
    BY <1>1 DEF BudgetOf
  <1>3. ASSUME NEW w \in Workers, Holds(w, j)'
        PROVE  /\ rows'[j].attempts + wk'[w].left <= MAX_RETRIES + Spent(w)'
               /\ rq'[j] = "started" => left'[j] = wk'[w].left
    <2>1. /\ rows[j].attempts + wk[w].left <= MAX_RETRIES + Spent(w)
          /\ rq[j] = "started" => left[j] = wk[w].left
      BY <1>3 DEF BudgetOf
    <2>2. Spent(w) <= Spent(w)' /\ Spent(w) \in {0, 1} /\ Spent(w)' \in {0, 1}
      BY <1>3 DEF Spent
    <2>3. QED
      BY <1>1, <1>3, <2>1, <2>2, QueueAssumption
  <1>4. QED
    BY <1>2, <1>3 DEF BudgetOf

(* RQ takes the job back with what is left of its retries.                 *)
LEMMA BudgetReturned ==
  ASSUME TypeOK, NEW j \in Jobs, BudgetOf(j), NEW n \in 0..MAX_RETRIES,
         rows[j].attempts + n <= MAX_RETRIES + 1,
         rows'[j].attempts = rows[j].attempts,
         j \notin line,
         Retry(j, n),
         UNCHANGED req,
         \A w \in Workers : ~Holds(w, j)'
  PROVE  BudgetOf(j)'
  <1>1. /\ rows[j].attempts \in Nat
        /\ rq \in [Jobs -> RQStatuses]
        /\ left \in [Jobs -> 0..MAX_RETRIES]
    BY DEF TypeOK, StoreTypeOK, Row, QueueTypeOK
  <1>2. CASE n > 0 /\ rq' = [rq EXCEPT ![j] = "queued"]
             /\ left' = [left EXCEPT ![j] = n - 1]
    <2>1. rq'[j] = "queued" /\ left'[j] = n - 1
      BY <1>1, <1>2
    <2>2. rows[j].attempts + (n - 1) <= MAX_RETRIES
      BY <1>1, QueueAssumption
    <2>3. QED
      BY <2>1, <2>2 DEF BudgetOf
  <1>3. CASE n = 0 /\ rq' = [rq EXCEPT ![j] = "failed"] /\ UNCHANGED <<line, left>>
    <2>1. rq'[j] = "failed" /\ j \notin line'
      BY <1>1, <1>3
    <2>2. QED
      BY <2>1 DEF BudgetOf
  <1>4. CASE rq[j] = "none" /\ UNCHANGED queueVars
    <2>1. rq'[j] = "none" /\ j \notin line'
      BY <1>4 DEF queueVars
    <2>2. QED
      BY <2>1 DEF BudgetOf
  <1>5. QED
    BY <1>2, <1>3, <1>4 DEF Retry

(* A step of the queue on one job leaves RQ's account of the others.       *)
LEMMA OtherAccounts ==
  ASSUME TypeOK, NEW j \in Jobs, NEW i \in Jobs, i # j, NEW n,
         Retry(i, n) \/ Finished(i) \/ Deliver(i) \/ enqueue(i)
  PROVE  /\ rq'[j] = rq[j]
         /\ left'[j] = left[j]
         /\ j \in line' <=> j \in line
  BY DEF TypeOK, QueueTypeOK, Retry, Finished, Deliver, enqueue, queueVars

(* The attempt starts: what was left of the budget pays for it.            *)
LEMMA BudgetSpent ==
  ASSUME TypeOK, Custody, NEW j \in Jobs, BudgetOf(j),
         NEW w \in Workers, WorkerStep(w), UNCHANGED <<queueVars, req>>,
         Holds(w, j), At(w, "taken"), ~At(w, "taken")',
         rows'[j].attempts = rows[j].attempts + 1
  PROVE  BudgetOf(j)'
  <1>1. /\ rows[j].attempts \in Nat
        /\ left[j] \in Nat
        /\ wk[w].left \in Nat
    BY QueueAssumption DEF TypeOK, StoreTypeOK, Row, QueueTypeOK, WorkerTypeOK,
       Horse
  <1>2. /\ rows[j].attempts + wk[w].left <= MAX_RETRIES
        /\ rq[j] = "started" => left[j] = wk[w].left
    BY QueueAssumption DEF BudgetOf, Spent
  <1>3. j \notin line
    BY DEF Custody, LineUnheld
  <1>4. \A q \in Requests : ~(req[q].pc = "enqueue" /\ req[q].job = j)
    BY DEF Custody, SentOnce, Unsent
  <1>5. ASSUME NEW v \in Workers, Holds(v, j)'
        PROVE  v = w /\ wk'[w].left = wk[w].left
    <2>1. CASE v # w
      <3>1. wk'[v] = wk[v]
        BY <2>1, OtherHorses
      <3>2. Holds(v, j)
        BY <1>5, <3>1 DEF Holds
      <3>3. QED
        BY <2>1, <3>2 DEF Custody, OneHolder
    <2>2. CASE v = w
      <3>1. wk'[w].pc # "idle" /\ wk'[w].pc # "taken"
        BY <1>5, <2>2 DEF Holds, At
      <3>2. ASSUME NEW i \in Jobs,
                   wk'[w] = [pc |-> "taken", job |-> i, left |-> left[i],
                             audio |-> None]
            PROVE  FALSE
        BY <3>1, <3>2
      <3>3. QED
        BY <2>2, <3>1, <3>2, HorseMoves
    <2>3. QED
      BY <2>1, <2>2
  <1>6. Spent(w)' = 1
    BY DEF Spent
  <1>7. /\ rows'[j].attempts <= MAX_RETRIES + 1
        /\ rows'[j].attempts + wk[w].left <= MAX_RETRIES + 1
    BY <1>1, <1>2, QueueAssumption
  <1>8. rq'[j] = "started" => rows'[j].attempts + left'[j] <= MAX_RETRIES + 1
    BY <1>1, <1>2, <1>7 DEF BudgetOf, queueVars
  <1>9. \A v \in Workers : Holds(v, j)' =>
          /\ rows'[j].attempts + wk'[v].left <= MAX_RETRIES + Spent(v)'
          /\ rq'[j] = "started" => left'[j] = wk'[v].left
    BY <1>2, <1>5, <1>6, <1>7 DEF queueVars
  <1>10. QED
    BY <1>3, <1>4, <1>7, <1>8, <1>9 DEF BudgetOf, queueVars

(* What the holder of a job does with it.                                  *)
LEMMA BudgetHolder ==
  ASSUME TypeOK, Custody, Budget, [Next]_vars, NEW w \in Workers, WorkerStep(w),
         UNCHANGED req, NEW j \in Jobs, rows'[j].attempts = rows[j].attempts
  PROVE  BudgetOf(j)'
  <1>a. /\ wk \in [Workers -> Horse] /\ wk[w] \in Horse
        /\ rq \in [Jobs -> RQStatuses]
        /\ left \in [Jobs -> 0..MAX_RETRIES]
        /\ BudgetOf(j)
    BY DEF TypeOK, WorkerTypeOK, QueueTypeOK, Budget
  <1>b. /\ rows[j].attempts \in Nat
        /\ left[j] \in 0..MAX_RETRIES
        /\ wk[w].left \in 0..MAX_RETRIES
    BY <1>a DEF TypeOK, StoreTypeOK, Row, Horse
  <1>c. \A v \in Workers : v # w /\ Holds(v, j)'
          => /\ Holds(v, j)
             /\ wk'[v].left = wk[v].left
             /\ At(v, "taken")' => At(v, "taken")
    BY OtherHorses DEF Holds, At
  <1>1. ASSUME NEW i \in Jobs, Take(w, i),
               wk'[w] = [pc |-> "taken", job |-> i, left |-> left[i],
                         audio |-> None]
        PROVE  BudgetOf(j)'
    <2>1. CASE i # j
      <3>1. ~Holds(w, j)'
        BY <1>1, <2>1 DEF Holds
      <3>2. /\ rq'[j] = rq[j]
            /\ left'[j] = left[j]
            /\ j \in line' <=> j \in line
        BY <1>1, <2>1, OtherAccounts DEF Take
      <3>3. QED
        BY <1>a, <1>c, <3>1, <3>2, BudgetCarried
    <2>2. CASE i = j
      <3>1. /\ j \in line /\ j \notin line'
            /\ left' = left
            /\ \A v \in Workers : ~Holds(v, j)
        BY <1>1, <2>2 DEF Take, Deliver, Custody, LineUnheld
      <3>2. rows[j].attempts + left[j] <= MAX_RETRIES
        BY <1>a, <3>1 DEF BudgetOf
      <3>3. \A v \in Workers : Holds(v, j)' => v = w
        BY <1>c, <3>1
      <3>4. wk'[w].left = left[j] /\ Spent(w)' = 0
        BY <1>1, <2>2 DEF Spent, At
      <3>5. \A v \in Workers : Holds(v, j)' =>
              /\ rows'[j].attempts + wk'[v].left <= MAX_RETRIES + Spent(v)'
              /\ rq'[j] = "started" => left'[j] = wk'[v].left
        BY <1>b, <3>1, <3>2, <3>3, <3>4, QueueAssumption
      <3>6. rows'[j].attempts + left'[j] <= MAX_RETRIES + 1
        BY <1>b, <3>1, <3>2, QueueAssumption
      <3>7. QED
        BY <1>a, <3>1, <3>5, <3>6 DEF BudgetOf
    <2>3. QED
      BY <2>1, <2>2
  <1>2. CASE /\ Return(w) \/ Raise(w) \/ KillHorse(w) \/ KillWorker(w)
             /\ wk[w].pc # "idle"
             /\ wk'[w].pc = "idle"
    <2>1. ~Holds(w, j)' /\ wk[w].job \in Jobs
      BY <1>2, <1>a DEF Holds, TypeOK, WorkerTypeOK
    <2>2. ASSUME /\ j \in line' => j \in line /\ left'[j] = left[j]
                 /\ rq'[j] = "started" => rq[j] = "started" /\ left'[j] = left[j]
          PROVE  BudgetOf(j)'
      BY <1>a, <1>c, <2>1, <2>2, BudgetCarried
    <2>3. CASE KillWorker(w)
      BY <2>2, <2>3 DEF KillWorker, queueVars
    <2>4. CASE Return(w)
      BY <2>2, <2>4, <1>a DEF Return, Finished
    <2>5. CASE (Raise(w) \/ KillHorse(w)) /\ wk[w].job # j
      <3>1. Retry(wk[w].job, wk[w].left)
        BY <2>5 DEF Raise, KillHorse
      <3>2. /\ rq'[j] = rq[j]
            /\ left'[j] = left[j]
            /\ j \in line' <=> j \in line
        BY <2>1, <2>5, <3>1, OtherAccounts
      <3>3. QED
        BY <2>2, <3>2
    <2>6. CASE (Raise(w) \/ KillHorse(w)) /\ wk[w].job = j
      <3>1. Retry(j, wk[w].left)
        BY <2>6 DEF Raise, KillHorse
      <3>2. Holds(w, j)
        BY <1>2, <2>6 DEF Holds
      <3>3. j \notin line /\ \A v \in Workers : ~Holds(v, j)'
        BY <1>c, <2>1, <3>2 DEF Custody, LineUnheld, OneHolder
      <3>4. rows[j].attempts + wk[w].left <= MAX_RETRIES + 1
        BY <1>a, <1>b, <3>2, QueueAssumption DEF BudgetOf, Spent
      <3>5. QED
        BY <1>a, <1>b, <3>1, <3>3, <3>4, BudgetReturned
    <2>7. QED
      BY <1>2, <2>3, <2>4, <2>5, <2>6
  <1>3. CASE /\ wk'[w].job = wk[w].job
             /\ wk'[w].left = wk[w].left
             /\ wk[w].pc # "idle"
             /\ wk'[w].pc # "idle"
             /\ wk'[w].pc = "taken" => wk[w].pc = "taken"
             /\ UNCHANGED queueVars
    <2>1. \A v \in Workers : Holds(v, j)'
            => /\ Holds(v, j)
               /\ wk'[v].left = wk[v].left
               /\ At(v, "taken")' => At(v, "taken")
      BY SMTT(40), <1>c, <1>3 DEF Holds, At
    <2>2. QED
      BY <1>a, <1>3, <2>1, BudgetCarried DEF queueVars
  <1>4. QED
    BY <1>1, <1>2, <1>3, HorseMoves

(* What a request does: it creates the job, and sends it to RQ.            *)
LEMMA BudgetRequest ==
  ASSUME TypeOK, Custody, Budget, NEW q \in Requests, ApiStep(q), UNCHANGED wk,
         NEW j \in Jobs, rows'[j].attempts = rows[j].attempts
  PROVE  BudgetOf(j)'
  <1>a. /\ rq \in [Jobs -> RQStatuses]
        /\ left \in [Jobs -> 0..MAX_RETRIES]
        /\ req \in [Requests -> Request]
        /\ BudgetOf(j)
        /\ rows[j].attempts \in Nat
    BY DEF TypeOK, QueueTypeOK, ApiTypeOK, Budget, StoreTypeOK, Row
  <1>b. \A p \in Requests : p # q => req'[p] = req[p]
    BY OtherRequests
  <1>c. \A v \in Workers : /\ Holds(v, j)' <=> Holds(v, j)
                           /\ wk'[v].left = wk[v].left
                           /\ At(v, "taken")' <=> At(v, "taken")
                           /\ Spent(v)' = Spent(v)
    BY DEF Holds, At, Spent
  <1>1. CASE UNCHANGED queueVars
    <2>1. ASSUME NEW p \in Requests, req'[p].pc = "enqueue", req'[p].job = j
          PROVE  \/ req[p].pc = "enqueue" /\ req[p].job = j
                 \/ rows[j].attempts = 0
      <3>1. CASE p # q
        BY <1>b, <2>1, <3>1
      <3>2. CASE p = q
        <4>1. ASSUME Create(q)
              PROVE  rows[j].attempts = 0
          <5>1. rows'[j].attempts = 0
            <6>1. PICK i \in Jobs :
                    /\ Insert(i, req[q].song, req[q].ip,
                              IF req[q].song \in Uploads
                              THEN req[q].song ELSE None)
                    /\ req' = [req EXCEPT ![q].pc = "enqueue", ![q].job = i]
              BY <2>1, <3>2, <4>1, <1>a DEF Create, Answer, NoRequest
            <6>2. i = j
              BY <2>1, <3>2, <6>1, <1>a DEF Request
            <6>3. QED
              BY <6>1, <6>2 DEF Insert, NoRow, TypeOK, StoreTypeOK
          <5>2. QED
            BY <5>1
        <4>2. QED
          BY <2>1, <3>2, <4>1, RequestMoves
      <3>3. QED
        BY <3>1, <3>2
    <2>2. \A p \in Requests : req'[p].pc = "enqueue" /\ req'[p].job = j
            => rows'[j].attempts = 0
      BY <1>a, <2>1 DEF BudgetOf
    <2>3. QED
      BY <1>a, <1>c, <1>1, <2>2 DEF BudgetOf, queueVars
  <1>2. CASE /\ req[q].pc = "enqueue" /\ enqueue(req[q].job)
             /\ req'[q].pc # "enqueue"
    <2>1. req[q].job \in Jobs
      BY <1>2 DEF TypeOK, ApiTypeOK
    <2>2. \A p \in Requests : req'[p].pc = "enqueue" /\ req'[p].job = j
            => req[p].pc = "enqueue" /\ req[p].job = j
      BY <1>b, <1>2
    <2>3. CASE req[q].job # j
      BY <1>a, <1>c, <2>1, <2>2, <2>3, <1>2, OtherAccounts, BudgetCarried
    <2>4. CASE req[q].job = j
      <3>1. rows'[j].attempts = 0
        BY <1>a, <1>2, <2>4 DEF BudgetOf
      <3>2. \A v \in Workers : ~Holds(v, j)'
        BY <1>2, <1>c, <2>4 DEF Custody, SentOnce, Unsent
      <3>3. rq'[j] = "queued" /\ left'[j] = MAX_RETRIES
        BY <1>2, <2>4, <1>a DEF enqueue
      <3>4. QED
        BY <3>1, <3>2, <3>3, QueueAssumption DEF BudgetOf
    <2>5. QED
      BY <2>3, <2>4
  <1>3. CASE Enqueue(q) \/ EnqueueRaises(q)
    <2>1. req'[q].pc # "enqueue"
      BY <1>3, <1>a DEF Enqueue, EnqueueRaises, Answer, NoRequest, Step, Request
    <2>2. /\ req[q].pc = "enqueue"
          /\ enqueue(req[q].job) \/ UNCHANGED queueVars
      BY <1>3 DEF Enqueue, EnqueueRaises, Step
    <2>3. QED
      BY <1>1, <1>2, <2>1, <2>2
  <1>4. QED
    BY <1>1, <1>3 DEF ApiStep, GetJob, AskQueue, QueueDown, FailLost,
       AnswerRead, Post, FindLive, CheckLimit, ListActive, Recount, Prepare,
       LookupRefused, Create, Unqueue, Abort, ReadRows

LEMMA BudgetStep ==
  ASSUME TypeOK, Custody, Budget, [Next]_vars, ~Stalls
  PROVE  Budget'
  <1> SUFFICES ASSUME NEW j \in Jobs
               PROVE  BudgetOf(j)'
    BY DEF Budget
  <1>a. /\ BudgetOf(j)
        /\ rows[j].attempts \in Nat
        /\ left \in [Jobs -> 0..MAX_RETRIES]
    BY DEF Budget, TypeOK, StoreTypeOK, Row, QueueTypeOK
  <1>1. CASE rows'[j].attempts = rows[j].attempts
    <2>1. ASSUME NEW q \in Requests, ApiStep(q), UNCHANGED wk
          PROVE  BudgetOf(j)'
      BY <1>1, <2>1, BudgetRequest
    <2>2. ASSUME NEW w \in Workers, WorkerStep(w), UNCHANGED req
          PROVE  BudgetOf(j)'
      BY <1>1, <2>2, BudgetHolder
    <2>3. CASE /\ UNCHANGED <<wk, req>>
               /\ FlushRedis \/ (\E i \in Jobs : Abandon(i)) \/ UNCHANGED queueVars
      <3>1. \A w \in Workers : Holds(w, j)'
              => /\ Holds(w, j)
                 /\ wk'[w].left = wk[w].left
                 /\ At(w, "taken")' => At(w, "taken")
        BY <2>3 DEF Holds, At
      <3>2. CASE UNCHANGED queueVars
        BY <1>a, <1>1, <2>3, <3>1, <3>2, BudgetCarried DEF queueVars
      <3>3. CASE FlushRedis
        BY <1>a, <1>1, <2>3, <3>1, <3>3, BudgetCarried DEF FlushRedis, Flush
      <3>4. ASSUME NEW i \in Jobs, Abandon(i), i # j
            PROVE  BudgetOf(j)'
        <4>1. /\ rq'[j] = rq[j]
              /\ left'[j] = left[j]
              /\ j \in line' <=> j \in line
          BY <3>4, OtherAccounts DEF Abandon
        <4>2. QED
          BY <1>a, <1>1, <2>3, <3>1, <4>1, BudgetCarried
      <3>5. CASE Abandon(j)
        <4>1. /\ rq[j] = "started"
              /\ \A w \in Workers : ~Holds(w, j)
              /\ Retry(j, left[j])
          BY <3>5 DEF Abandon
        <4>2. j \notin line
          BY <4>1 DEF Custody, LineUnheld
        <4>3. rows[j].attempts + left[j] <= MAX_RETRIES + 1
          BY <1>a, <4>1 DEF BudgetOf
        <4>4. \A w \in Workers : ~Holds(w, j)'
          BY <4>1, <3>1
        <4>5. QED
          BY <1>a, <1>1, <2>3, <4>1, <4>2, <4>3, <4>4, BudgetReturned
      <3>6. QED
        BY <2>3, <3>2, <3>3, <3>4, <3>5
    <2>4. QED
      BY <2>1, <2>2, <2>3 DEF Next, Abandon, FlushRedis, Age, vars, queueVars
  <1>2. CASE /\ ~Exists(j) /\ rows'[j].attempts = 0
             /\ UNCHANGED <<queueVars, wk>>
    <2>1. Unsent(j)
      BY <1>2 DEF Custody, CreatedFirst
    <2>2. QED
      BY <1>2, <2>1, QueueAssumption DEF Unsent, BudgetOf, Holds, queueVars
  <1>3. ASSUME NEW w \in Workers, WorkerStep(w), UNCHANGED <<queueVars, req>>,
               Holds(w, j), At(w, "taken"), ~At(w, "taken")',
               rows'[j].attempts = rows[j].attempts + 1
        PROVE  BudgetOf(j)'
    BY <1>a, <1>3, BudgetSpent
  <1>4. QED
    BY <1>1, <1>2, <1>3, AttemptsStep

(* While RQ delivers a job once at a time, no job is attempted more than   *)
(* its retries allow, whatever was killed, requeued or lost on the way.    *)
THEOREM RetriesBound == Spec => []AttemptsBounded
  <1>1. CASE Stalls
    <2>1. AttemptsBounded
      BY <1>1 DEF AttemptsBounded
    <2>2. QED
      BY <2>1, PTL
  <1>2. CASE ~Stalls
    <2>1. Init => Budget
      BY QueueAssumption DEF Init, StoreInit, NoRow, QueueInit, WorkerInit,
         NoHorse, ApiInit, NoRequest, Budget, BudgetOf, Holds
    <2>2. TypeOK /\ Custody /\ Budget /\ [Next]_vars => Budget'
      BY <1>2, BudgetStep
    <2>3. Budget => AttemptsBounded
      BY DEF Budget, BudgetOf, AttemptsBounded
    <2>4. Spec => []Custody
      BY <1>2, KeptInCustody
    <2>5. QED
      BY <2>1, <2>2, <2>3, <2>4, TypeCorrect, PTL DEF Spec
  <1>3. QED
    BY <1>1, <1>2, WorkerAssumption

-----------------------------------------------------------------------------
(* One download.  The audio an attempt works on is the audio its row       *)
(* names, from the moment the row names one.                               *)

AudioAgrees(w) ==
  LET key == rows[wk[w].job].upload_key IN
  /\ At(w, "load") => key # None /\ wk[w].audio = key
  /\ wk[w].pc \in {"fetch", "keep", "attach"} => key = None
  /\ wk[w].pc \in {"work", "store"} => wk[w].audio = key

OneAudio == StemMatchesMix /\ \A w \in Workers : AudioAgrees(w)

(* The holder's own steps, with the key it reads, writes and works on.     *)
LEMMA HolderAgrees ==
  ASSUME TypeOK, NEW w \in Workers, WorkerStep(w), AudioAgrees(w),
         wk[w].pc # "idle", NEW j \in Jobs, j = wk[w].job, wk'[w].job = j
  PROVE  AudioAgrees(w)'
  <1>a. /\ wk \in [Workers -> Horse] /\ wk[w] \in Horse
        /\ rows \in [Jobs -> Row] /\ rows[j] \in Row
    BY DEF TypeOK, WorkerTypeOK, StoreTypeOK
  <1>b. AudioAgrees(w)' <=>
          /\ wk'[w].pc = "load" => /\ rows'[j].upload_key # None
                                   /\ wk'[w].audio = rows'[j].upload_key
          /\ wk'[w].pc \in {"fetch", "keep", "attach"}
               => rows'[j].upload_key = None
          /\ wk'[w].pc \in {"work", "store"}
               => wk'[w].audio = rows'[j].upload_key
    BY DEF AudioAgrees, At
  <1>1. CASE Start(w)
    <2>1. rows'[j].upload_key = rows[j].upload_key
      BY <1>1, CallKeepsKeys DEF Start, KeysKept
    <2>2. /\ wk'[w].audio = rows[j].upload_key
          /\ wk'[w].pc \in {"returning", "fetch", "load"}
          /\ wk'[w].pc = "fetch" => rows[j].upload_key = None
          /\ wk'[w].pc = "load" => rows[j].upload_key # None
      BY <1>1, <1>a DEF Start, Horse
    <2>3. QED
      BY <1>b, <2>1, <2>2
  <1>2. CASE Attach(w)
    <2>1. /\ wk'[w].pc = IF Running(j) THEN "work" ELSE "returning"
          /\ wk'[w].audio = wk[w].audio
      BY <1>2, <1>a DEF Attach, Goto, Horse
    <2>2. Running(j) => rows'[j].upload_key = wk[w].audio
      BY <1>2, AttachWrites DEF Attach
    <2>3. QED
      BY <1>b, <2>1, <2>2
  <1>3. CASE Progress(w)
    <2>1. rows'[j].upload_key = rows[j].upload_key
      BY <1>3, CallKeepsKeys DEF Progress, KeysKept
    <2>2. UNCHANGED wk
      BY <1>3 DEF Progress
    <2>3. QED
      BY <1>b, <2>1, <2>2 DEF AudioAgrees, At
  <1>4. CASE Load(w) \/ Download(w) \/ Keep(w) \/ Separate(w)
    <2>1. UNCHANGED rows
      BY <1>4 DEF Load, Download, Keep, Separate, storeVars
    <2>2. \/ /\ wk[w].pc = "load" /\ wk'[w].pc \in {"work", "caught"}
             /\ wk'[w].audio = wk[w].audio
          \/ wk[w].pc \in {"fetch", "keep"} /\ wk'[w].pc \in {"keep", "attach"}
          \/ /\ wk[w].pc = "work" /\ wk'[w].pc = "store"
             /\ wk'[w].audio = wk[w].audio
      BY <1>4, <1>a DEF Load, Download, Keep, Separate, Goto, At, Horse
    <2>3. QED
      BY <1>b, <2>1, <2>2 DEF AudioAgrees, At
  <1>5. CASE \/ Succeed(w) \/ InputRefused(w) \/ AttemptFails(w) \/ Refuse(w)
             \/ FailedAttempt(w) \/ CallRaises(w)
    <2>1. wk'[w].pc \in {"returning", "refuse", "caught", "raising"}
      BY <1>5, <1>a DEF Succeed, InputRefused, AttemptFails, Refuse,
         FailedAttempt, CallRaises, Goto, Horse
    <2>2. QED
      BY <1>b, <2>1
  <1>6. CASE \/ \E i \in Jobs : Take(w, i)
             \/ Return(w) \/ Raise(w) \/ KillHorse(w) \/ KillWorker(w)
    <2>1. wk'[w].pc \in {"taken", "idle"}
      BY <1>6, <1>a DEF Take, Return, Raise, KillHorse, KillWorker, Release,
         NoHorse
    <2>2. QED
      BY <1>b, <2>1
  <1>7. QED
    BY <1>1, <1>2, <1>3, <1>4, <1>5, <1>6 DEF WorkerStep

(* No other call makes a row succeed.                                      *)
LEMMA CallSucceedsNot ==
  ASSUME TypeOK, NEW j \in Jobs, NEW stage, NEW percent, NEW key, NEW expect,
         \/ mark_running(j)
         \/ set_progress(j, stage, percent)
         \/ attach_upload(j, key)
         \/ fail(j, expect)
         \/ requeue(j)
         \/ UNCHANGED rows,
         NEW i \in Jobs, rows'[i].status = "succeeded"
  PROVE  rows'[i] = rows[i]
  <1>1. /\ StoreTypeOK
        /\ rows[j] \in Row
        /\ rows[j].attempts + 1 \in Nat
    BY DEF TypeOK, StoreTypeOK, Row
  <1>2. ASSUME NEW allowed, NEW row, Update(j, allowed, row),
               rows[j].status \in allowed => row.status # "succeeded"
        PROVE  rows'[i] = rows[i]
    BY <1>1, <1>2, UpdateWrites
  <1>3. CASE mark_running(j)
    BY <1>1, <1>2, <1>3, StartedFields DEF mark_running, Started
  <1>4. CASE set_progress(j, stage, percent)
    <2>1. Update(j, {"running"}, Progressed(rows[j], stage, percent))
      BY <1>4 DEF set_progress, Progressed
    <2>2. QED
      BY <1>1, <1>2, <2>1, ProgressedFields
  <1>5. CASE attach_upload(j, key)
    <2>1. Update(j, {"running"}, Attached(rows[j], key))
      BY <1>5 DEF attach_upload, Attached
    <2>2. QED
      BY <1>1, <1>2, <2>1, AttachedFields
  <1>6. CASE fail(j, expect)
    BY <1>1, <1>2, <1>6, GivenUpFields DEF fail, GivenUp
  <1>7. CASE requeue(j)
    BY <1>1, <1>2, <1>7, PutBackFields DEF requeue, PutBack
  <1>8. QED
    BY <1>3, <1>4, <1>5, <1>6, <1>7

(* A row succeeds only by the attempt that stored its stem.                *)
LEMMA SucceededStep ==
  ASSUME TypeOK, [Next]_vars, NEW i \in Jobs, rows'[i].status = "succeeded"
  PROVE  \/ rows'[i] = rows[i]
         \/ \E w \in Workers : /\ At(w, "store")
                               /\ wk[w].job = i
                               /\ rows'[i].upload_key = rows[i].upload_key
                               /\ rows'[i].stem_key = wk[w].audio
  <1>1. ASSUME NEW q \in Requests, ApiStep(q)
        PROVE  rows'[i] = rows[i]
    <2>1. CASE UNCHANGED rows
      BY <2>1
    <2>2. CASE FailLost(q)
      <3>1. req[q].lost \in Jobs
        BY <2>2 DEF FailLost, TypeOK, ApiTypeOK, Request
      <3>2. QED
        BY <2>2, <3>1, CallSucceedsNot DEF FailLost, fail_as_read, storeVars
    <2>3. CASE Unqueue(q)
      <3>1. req[q].job \in Jobs
        BY <2>3 DEF Unqueue, TypeOK, ApiTypeOK
      <3>2. QED
        BY <2>3, <3>1, CallSucceedsNot DEF Unqueue
    <2>4. CASE Create(q)
      <3>1. ASSUME NEW j \in Jobs, NEW song, NEW ip, NEW key,
                   Insert(j, song, ip, key)
            PROVE  rows'[i] = rows[i]
        <4>1. rows \in [Jobs -> Row]
          BY DEF TypeOK, StoreTypeOK
        <4>2. i = j => rows'[i].status = "queued"
          BY <3>1, <4>1 DEF Insert, NoRow
        <4>3. QED
          BY <3>1, <4>1, <4>2 DEF Insert
      <3>2. QED
        BY <2>4, <3>1 DEF Create, storeVars
    <2>5. QED
      BY <1>1, <2>1, <2>2, <2>3, <2>4 DEF ApiStep, GetJob, AskQueue, QueueDown,
         AnswerRead, Post, FindLive, CheckLimit, ListActive, Recount, Prepare,
         LookupRefused, Enqueue, EnqueueRaises, Abort, ReadRows, storeVars
  <1>2. ASSUME NEW w \in Workers, WorkerStep(w)
        PROVE  \/ rows'[i] = rows[i]
               \/ /\ At(w, "store")
                  /\ wk[w].job = i
                  /\ rows'[i].upload_key = rows[i].upload_key
                  /\ rows'[i].stem_key = wk[w].audio
    <2>1. CASE UNCHANGED rows
      BY <2>1
    <2>2. CASE \/ Start(w) \/ Attach(w) \/ Progress(w) \/ Succeed(w)
               \/ Refuse(w) \/ FailedAttempt(w) \/ CallRaises(w)
      <3>1. wk[w].job \in Jobs
        BY <2>2 DEF Start, Attach, Progress, Succeed, Refuse, FailedAttempt,
           CallRaises, At, TypeOK, WorkerTypeOK
      <3>2. \/ mark_running(wk[w].job)
            \/ attach_upload(wk[w].job, wk[w].audio)
            \/ set_progress(wk[w].job, "download", 0)
            \/ set_progress(wk[w].job, "pipeline", Midway)
            \/ At(w, "store") /\ succeed(wk[w].job, wk[w].audio)
            \/ fail(wk[w].job, "running")
            \/ requeue(wk[w].job)
            \/ UNCHANGED rows
        BY <2>2 DEF Start, Attach, Progress, Succeed, Refuse, FailedAttempt,
           CallRaises, storeVars
      <3>3. CASE At(w, "store") /\ succeed(wk[w].job, wk[w].audio)
        BY <3>1, <3>3, SucceedWrites
      <3>4. QED
        BY <3>1, <3>2, <3>3, CallSucceedsNot
    <2>3. QED
      BY <1>2, <2>1, <2>2 DEF WorkerStep, Take, Load, Download, Keep, Separate,
         InputRefused, AttemptFails, Return, Raise, KillHorse, KillWorker,
         storeVars
  <1>3. CASE UNCHANGED rows
    BY <1>3
  <1>4. QED
    BY <1>1, <1>2, <1>3 DEF Next, Abandon, FlushRedis, Age, vars, storeVars

LEMMA OneAudioStep ==
  ASSUME TypeOK, Custody, Ownership, OneAudio, [Next]_vars, ~Stalls
  PROVE  OneAudio'
  <1>1. StemMatchesMix'
    <2> SUFFICES ASSUME NEW j \in Jobs, rows'[j].status = "succeeded"
                 PROVE  /\ rows'[j].upload_key # None
                        /\ rows'[j].stem_key = rows'[j].upload_key
      BY DEF StemMatchesMix
    <2>1. CASE rows'[j] = rows[j]
      BY <2>1 DEF OneAudio, StemMatchesMix
    <2>2. ASSUME NEW w \in Workers, At(w, "store"), wk[w].job = j,
                 rows'[j].upload_key = rows[j].upload_key,
                 rows'[j].stem_key = wk[w].audio
          PROVE  /\ rows'[j].upload_key # None
                 /\ rows'[j].stem_key = rows'[j].upload_key
      <3>1. wk[w].audio = rows[j].upload_key
        BY <2>2 DEF OneAudio, AudioAgrees, At
      <3>2. wk[w].audio # None
        BY <2>2, StoreAssumption DEF At, TypeOK, WorkerTypeOK
      <3>3. QED
        BY <2>2, <3>1, <3>2
    <2>3. QED
      BY <2>1, <2>2, SucceededStep
  <1>2. ASSUME NEW w \in Workers
        PROVE  AudioAgrees(w)'
    <2>1. CASE wk'[w].pc \notin InTry
      BY <2>1 DEF AudioAgrees, At, InTry
    <2>2. CASE WorkerStep(w) /\ wk'[w].pc \in InTry
      <3>1. wk[w].pc # "idle" /\ wk'[w].job = wk[w].job
        <4>1. wk'[w].pc # "taken" /\ wk'[w].pc # "idle"
          BY <2>2 DEF InTry
        <4>2. CASE \E i \in Jobs :
                     wk'[w] = [pc |-> "taken", job |-> i, left |-> left[i],
                               audio |-> None]
          BY <4>1, <4>2
        <4>3. QED
          BY <2>2, <4>1, <4>2, HorseMoves
      <3>2. wk[w].job \in Jobs
        BY <3>1 DEF TypeOK, WorkerTypeOK
      <3>3. QED
        BY <2>2, <3>1, <3>2, HolderAgrees DEF OneAudio
    <2>3. CASE ~WorkerStep(w) /\ wk'[w].pc \in InTry
      <3>1. wk'[w] = wk[w]
        BY <2>3, OneHorse
      <3>2. /\ wk[w].job \in Jobs
            /\ Holds(w, wk[w].job)
            /\ Untouchable(wk[w].job)
        BY <2>3, <3>1 DEF TypeOK, WorkerTypeOK, Holds, InTry, Ownership
      <3>3. Undisturbed(wk[w].job)
        BY <2>3, <3>1, <3>2, OthersKeepOff
      <3>4. rows'[wk[w].job] = rows[wk[w].job]
        BY <3>3 DEF Undisturbed
      <3>5. QED
        BY <3>1, <3>4 DEF OneAudio, AudioAgrees, At
    <2>4. QED
      BY <2>1, <2>2, <2>3
  <1>3. QED
    BY <1>1, <1>2 DEF OneAudio

(* While RQ delivers a job once at a time, the stem of a finished song was *)
(* taken from the very mix the song plays, whatever attempt kept the mix   *)
(* and whichever retry took the stem.                                      *)
THEOREM OneDownload == ASSUME ~Stalls PROVE Spec => []StemMatchesMix
  <1>1. Init => OneAudio
    BY DEF Init, StoreInit, NoRow, WorkerInit, NoHorse, OneAudio,
       StemMatchesMix, AudioAgrees, At
  <1>2. TypeOK /\ Custody /\ Ownership /\ OneAudio /\ [Next]_vars => OneAudio'
    BY OneAudioStep
  <1>3. OneAudio => StemMatchesMix
    BY DEF OneAudio
  <1>4. QED
    BY <1>1, <1>2, <1>3, TypeCorrect, KeptInCustody, KeptOwned, PTL DEF Spec
=============================================================================
