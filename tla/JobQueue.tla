------------------------------ MODULE JobQueue ------------------------------
(***************************************************************************)
(* RQ on Redis, as packages/jobs/queue.py and the worker use it.  Redis    *)
(* carries job ids only.  RQ itself is outside the repository: what it     *)
(* does is modelled from how the code configures it (Retry(max=2)) and     *)
(* from what queue.py and reconcile.py say they rely on.                   *)
(*                                                                         *)
(* RQ's QUEUED and SCHEDULED are both "queued" here: the code asks only    *)
(* whether the job can still run and whether a worker has it, and a        *)
(* retry's interval is the time until some worker takes the job.           *)
(***************************************************************************)
EXTENDS JobSystemFaults

CONSTANT
  MAX_RETRIES  \* retries after the first attempt: 2 in queue.py

ASSUME QueueAssumption == MAX_RETRIES \in Nat

VARIABLES
  rq,      \* the status RQ holds for an id; "none": RQ does not know it
  line,    \* the ids in the queue's list or its scheduled registry
  left     \* retries_left of the id's RQ job

queueVars == <<rq, line, left>>

RQStatuses == {"none", "queued", "started", "finished", "failed"}

QueueTypeOK ==
  /\ rq \in [Jobs -> RQStatuses]
  /\ line \in SUBSET Jobs
  /\ left \in [Jobs -> 0..MAX_RETRIES]

QueueInit ==
  /\ rq = [j \in Jobs |-> "none"]
  /\ line = {}
  /\ left = [j \in Jobs |-> 0]

-----------------------------------------------------------------------------
(* RQJobQueue: what the api asks.                                          *)

enqueue(j) ==
  /\ rq' = [rq EXCEPT ![j] = "queued"]
  /\ line' = line \cup {j}
  /\ left' = [left EXCEPT ![j] = MAX_RETRIES]

exists(j)  == rq[j] \in {"queued", "started"}
waiting(j) == rq[j] = "queued"

-----------------------------------------------------------------------------
(* What RQ does with a delivery.                                           *)

(* A worker pops the id; RQ marks it started before run_job is imported.   *)
Deliver(j) ==
  /\ j \in line
  /\ line' = line \ {j}
  /\ rq' = [rq EXCEPT ![j] = "started"]
  /\ UNCHANGED left

(* run_job returned.  RQ writes the status even of an id Redis has         *)
(* forgotten meanwhile, or leaves it forgotten.                            *)
Finished(j) ==
  /\ \/ rq' = [rq EXCEPT ![j] = "finished"]
     \/ rq[j] = "none" /\ UNCHANGED rq
  /\ UNCHANGED <<line, left>>

(* run_job raised, or its horse died, with n retries left: RQ schedules    *)
(* the job again, or files it in the FailedJobRegistry.                    *)
Retry(j, n) ==
  \/ /\ n > 0
     /\ rq' = [rq EXCEPT ![j] = "queued"]
     /\ line' = line \cup {j}
     /\ left' = [left EXCEPT ![j] = n - 1]
  \/ /\ n = 0
     /\ rq' = [rq EXCEPT ![j] = "failed"]
     /\ UNCHANGED <<line, left>>
  \/ rq[j] = "none" /\ UNCHANGED queueVars

(* Redis loses its data.                                                   *)
Flush ==
  /\ rq' = [j \in Jobs |-> "none"]
  /\ line' = {}
  /\ left' = [j \in Jobs |-> 0]
=============================================================================
