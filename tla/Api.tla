-------------------------------- MODULE Api ---------------------------------
(***************************************************************************)
(* The api's request handlers that write: POST /jobs and POST              *)
(* /jobs/from-url (create_job, create_job_from_url), and the repair on     *)
(* read that GET /jobs/{id}, a POST's lookup and a refusal share           *)
(* (reconcile.py).                                                         *)
(*                                                                         *)
(* Plain-def routes run in a threadpool, so requests interleave at every   *)
(* call of the store, the blobs or the queue: one action per call.  pc     *)
(* names the next call:                                                    *)
(*   find       the live row for the song                                  *)
(*   check      the address's count against its limit                      *)
(*   list       the address's active rows, to repair before refusing       *)
(*   prepare    an upload's bytes to store, a link's video to look up      *)
(*   create     the row                                                    *)
(*   enqueue    its RQ job                                                 *)
(*   unqueue    the row to fail, since it could not be queued              *)
(*   get, live, repair   rows to reconcile, for GET, for `find` and for    *)
(*              `list`                                                     *)
(***************************************************************************)
EXTENDS JobStore, JobQueue

VARIABLE req  \* req[q]: the request that thread q serves

Reconciling == {"get", "live", "repair"}
Posting     == {"find", "check", "list", "prepare", "create", "enqueue",
                "unqueue", "live", "repair"}

(* suspect[j] is the status a row to reconcile was read with, "none" when  *)
(* there is nothing to ask about it; lost is the row the queue has lost.   *)
Request == [pc      : {"idle"} \cup Posting \cup Reconciling,
            song    : Songs \cup {None},
            ip      : Addresses \cup {None},
            job     : Jobs \cup {None},
            suspect : [Jobs -> ActiveStatuses \cup {"none"}],
            lost    : Jobs \cup {None}]

NoRequest == [pc |-> "idle", song |-> None, ip |-> None, job |-> None,
              suspect |-> [j \in Jobs |-> "none"], lost |-> None]

ApiTypeOK ==
  /\ req \in [Requests -> Request]
  /\ \A q \in Requests :
        /\ req[q].pc \in Posting
             => req[q].song \in Songs /\ req[q].ip \in Addresses
        /\ req[q].pc \in {"enqueue", "unqueue"} => req[q].job \in Jobs

ApiInit == req = [q \in Requests |-> NoRequest]

Step(q, from, to) == req[q].pc = from /\ req' = [req EXCEPT ![q].pc = to]

(* The response is sent; what the thread knew is gone.                     *)
Answer(q) == req' = [req EXCEPT ![q] = NoRequest]

-----------------------------------------------------------------------------
(* Reconciliation.                                                         *)

(* Rows read together, by one statement: those of an age `_is_lost` asks   *)
(* the queue about.                                                        *)
Suspects(js) == {j \in js \cap aged : Active(j)}

(* The request goes on at pc with the suspects among the rows it read.     *)
ReadRows(q, js, pc) ==
  /\ req' = [req EXCEPT
       ![q].pc = pc,
       ![q].suspect = [j \in Jobs |-> IF j \in Suspects(js)
                                      THEN rows[j].status ELSE "none"]]
  /\ asRead' = [asRead EXCEPT ![q] = Suspects(js)]
  /\ UNCHANGED <<rows, aged>>

Reconciles(q, j) ==
  /\ req[q].pc \in Reconciling
  /\ req[q].lost = None
  /\ req[q].suspect[j] # "none"

Reconciled(q) ==
  /\ req[q].lost = None
  /\ \A j \in Jobs : req[q].suspect[j] = "none"

(* Mutant: a queued row is never lost.                                     *)
LostRunning(j, status) == status = "running" /\ ~waiting(j)

LostByQueue(j, status) ==
  \/ status = "queued"  /\ ~exists(j)
  \/ status = "running" /\ ~waiting(j)

(* Row j is done with, untouched.                                          *)
LeaveAlone(q, j) ==
  /\ req' = [req EXCEPT ![q].suspect[j] = "none"]
  /\ asRead' = [asRead EXCEPT ![q] = @ \ {j}]

(* _is_lost's question.  A row the queue still has is left alone; one the  *)
(* queue has lost is failed next.                                          *)
AskQueue(q, j) ==
  /\ Reconciles(q, j)
  /\ IF LostByQueue(j, req[q].suspect[j])
     THEN req' = [req EXCEPT ![q].lost = j] /\ UNCHANGED asRead
     ELSE LeaveAlone(q, j)
  /\ UNCHANGED <<rows, aged, blobs, queueVars, faults>>

(* _queue_says: Redis cannot be asked, so the row is left for later.       *)
QueueDown(q, j) ==
  /\ Fault
  /\ Reconciles(q, j)
  /\ LeaveAlone(q, j)
  /\ UNCHANGED <<rows, aged, blobs, queueVars>>

(* Mutant: a lost row's job is queued again instead.                       *)
EnqueueLost(q) ==
  /\ req[q].lost # None
  /\ enqueue(req[q].lost)
  /\ Answer(q)
  /\ UNCHANGED <<storeVars, blobs, faults>>

(* The row is failed if it is as read, and read again.  The two calls are  *)
(* one step: a failed row is final, and a row written meanwhile is not as  *)
(* read whenever it is read again.  The lookup of a POST takes a row that  *)
(* is failed by now as no live row, and goes on.                           *)
FailLost(q) ==
  LET j == req[q].lost IN
  /\ j # None
  /\ fail_as_read(j, req[q].suspect[j], q)
  /\ req' = [req EXCEPT ![q].lost = None,
                        ![q].suspect[j] = "none",
                        ![q].pc = IF @ = "live" /\ rows'[j].status = "failed"
                                  THEN "check" ELSE @]
  /\ UNCHANGED <<blobs, queueVars, faults>>

-----------------------------------------------------------------------------
(* GET /jobs/{id}.  Only the read of a row that may be lost does anything. *)

GetJob(q, j) ==
  /\ req[q].pc = "idle"
  /\ j \in Suspects(Jobs)
  /\ ReadRows(q, {j}, "get")
  /\ UNCHANGED <<blobs, queueVars, faults>>

(* GET's answer, or the POST's 200 with a row that is still live.          *)
AnswerRead(q) ==
  /\ req[q].pc \in {"get", "live"}
  /\ Reconciled(q)
  /\ Answer(q)
  /\ UNCHANGED <<storeVars, blobs, queueVars, faults>>

-----------------------------------------------------------------------------
(* POST /jobs and POST /jobs/from-url.                                     *)

(* The file is received and probed, or the link parsed.                    *)
Post(q, song, ip) ==
  /\ req[q].pc = "idle"
  /\ req' = [req EXCEPT ![q].pc = "find", ![q].song = song, ![q].ip = ip]
  /\ UNCHANGED <<storeVars, blobs, queueVars, faults>>

(* live_job: none, or the one to reconcile and answer with.                *)
FindLive(q) ==
  /\ req[q].pc = "find"
  /\ ReadRows(q, find_live(req[q].song),
              IF find_live(req[q].song) = {} THEN "check" ELSE "live")
  /\ UNCHANGED <<blobs, queueVars, faults>>

CheckLimit(q) ==
  /\ Step(q, "check",
          IF count_active(req[q].ip) < MaxActive THEN "prepare" ELSE "list")
  /\ UNCHANGED <<storeVars, blobs, queueVars, faults>>

(* _active_after_repair: the rows that fill the limit are reconciled...    *)
ListActive(q) ==
  /\ req[q].pc = "list"
  /\ ReadRows(q, active_jobs(req[q].ip), "repair")
  /\ UNCHANGED <<blobs, queueVars, faults>>

(* ... and counted again: still at the limit is the 429.                   *)
Recount(q) ==
  /\ req[q].pc = "repair"
  /\ Reconciled(q)
  /\ IF count_active(req[q].ip) < MaxActive
     THEN Step(q, "repair", "prepare")
     ELSE Answer(q)
  /\ UNCHANGED <<storeVars, blobs, queueVars, faults>>

(* An upload's blob is stored; a link's video is looked up.                *)
Prepare(q) ==
  /\ Step(q, "prepare", "create")
  /\ IF req[q].song \in Uploads THEN put_file("upload", req[q].song)
                                ELSE UNCHANGED blobs
  /\ UNCHANGED <<storeVars, queueVars, faults>>

(* The lookup is refused: busy, or a video we do not take.                 *)
LookupRefused(q) ==
  /\ req[q].pc = "prepare"
  /\ req[q].song \in Videos
  /\ Answer(q)
  /\ UNCHANGED <<storeVars, blobs, queueVars, faults>>

(* Mutants: no count in the transaction, and no look for the live row.     *)
CreateUncounted(q) ==
  LET song == req[q].song IN
  /\ req[q].pc = "create"
  /\ find_live(song) = {}
  /\ \E j \in Jobs :
       /\ ~Exists(j)
       /\ Insert(j, song, req[q].ip, IF song \in Uploads THEN song ELSE None)
       /\ req' = [req EXCEPT ![q].pc = "enqueue", ![q].job = j]
  /\ UNCHANGED <<blobs, queueVars, faults>>

CreateTwice(q) ==
  LET song == req[q].song IN
  /\ req[q].pc = "create"
  /\ count_active(req[q].ip) < MaxActive
  /\ \E j \in Jobs :
       /\ ~Exists(j)
       /\ Insert(j, song, req[q].ip, IF song \in Uploads THEN song ELSE None)
       /\ req' = [req EXCEPT ![q].pc = "enqueue", ![q].job = j]
  /\ UNCHANGED <<blobs, queueVars, faults>>

(* `create`, under the address's advisory lock and the unique index on     *)
(* live rows: the live row of the song, whatever the count (200); else     *)
(* TooManyActiveJobs (429); else a fresh row.  With every id of Jobs drawn *)
(* the model refuses the request: a bound.                                 *)
Create(q) ==
  LET song == req[q].song
      ip   == req[q].ip IN
  /\ req[q].pc = "create"
  /\ \/ /\ \/ find_live(song) # {}
           \/ count_active(ip) >= MaxActive
           \/ \A j \in Jobs : Exists(j)
        /\ Answer(q)
        /\ UNCHANGED storeVars
     \/ /\ find_live(song) = {}
        /\ count_active(ip) < MaxActive
        /\ \E j \in Jobs :
             /\ ~Exists(j)
             /\ Insert(j, song, ip, IF song \in Uploads THEN song ELSE None)
             /\ req' = [req EXCEPT ![q].pc = "enqueue", ![q].job = j]
  /\ UNCHANGED <<blobs, queueVars, faults>>

Enqueue(q) ==
  /\ req[q].pc = "enqueue"
  /\ enqueue(req[q].job)
  /\ Answer(q)
  /\ UNCHANGED <<storeVars, blobs, faults>>

(* The call raises, with or without Redis having taken the job.            *)
EnqueueRaises(q) ==
  /\ Fault
  /\ Step(q, "enqueue", "unqueue")
  /\ enqueue(req[q].job) \/ UNCHANGED queueVars
  /\ UNCHANGED <<storeVars, blobs>>

(* The row is failed, if no worker has started it, and the answer is 503.  *)
Unqueue(q) ==
  /\ req[q].pc = "unqueue"
  /\ fail(req[q].job, "queued")
  /\ Answer(q)
  /\ UNCHANGED <<blobs, queueVars, faults>>

(* The thread is gone between two calls: the api was killed, or a call     *)
(* raised.                                                                 *)
Abort(q) ==
  /\ Fault
  /\ req[q].pc # "idle"
  /\ Answer(q)
  /\ asRead' = [asRead EXCEPT ![q] = {}]
  /\ UNCHANGED <<rows, aged, blobs, queueVars>>

ApiStep(q) ==
  \/ \E j \in Jobs : GetJob(q, j) \/ AskQueue(q, j) \/ QueueDown(q, j)
  \/ FailLost(q) \/ AnswerRead(q)
  \/ \E song \in Songs, ip \in Addresses : Post(q, song, ip)
  \/ FindLive(q) \/ CheckLimit(q) \/ ListActive(q) \/ Recount(q)
  \/ Prepare(q) \/ LookupRefused(q) \/ Create(q)
  \/ Enqueue(q) \/ EnqueueRaises(q) \/ Unqueue(q)
  \/ Abort(q)
=============================================================================
