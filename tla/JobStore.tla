------------------------------ MODULE JobStore ------------------------------
(***************************************************************************)
(* The jobs table (packages/jobs: models.py, store.py, postgres.py) and    *)
(* the blob store beside it (blobs.py).                                    *)
(*                                                                         *)
(* Every operator below is one call of the store, and one step: a store    *)
(* call is a single UPDATE or a transaction under an advisory lock.  Every *)
(* write after `create` is conditional on the row's status; `fail` may be  *)
(* conditional on the row being exactly as a request read it as well.      *)
(*                                                                         *)
(* Abstractions.  A song is what `content_hash` stands for: the bytes of   *)
(* an upload, or the video of a link.  `updated_at` is modelled by the two *)
(* questions the code asks of it: is the row older than the grace of its   *)
(* status (`aged`), and was it written since this request read it          *)
(* (`asRead`).  The document is written with the stem's key, in one        *)
(* UPDATE, and is not a field of its own; percent is 0, Midway or 100.     *)
(***************************************************************************)
EXTENDS JobSystemFaults, FiniteSets

CONSTANTS
  Uploads,     \* the contents users upload: each is its own song
  Videos,      \* the videos users link to
  Downloads,   \* the contents one download of a video may have
  Addresses,   \* client_ip
  Requests,    \* the api's threads, each serving one request at a time
  MaxActive    \* Settings.max_active_jobs_per_ip

Songs == Uploads \cup Videos
Audio == Uploads \cup Downloads

ASSUME StoreAssumption ==
  /\ None \notin Songs \cup Audio \cup Addresses
  /\ Uploads \cap Videos = {}
  /\ MaxActive \in Nat \ {0}

VARIABLES
  rows,     \* the table: a row for every id, "absent" until it is created
  aged,     \* the ids whose updated_at is older than the grace of its status
  asRead,   \* asRead[q]: the ids whose row is still as request q read it
  blobs     \* the stored files: <<"upload", audio>> and <<"stem", audio>>

storeVars == <<rows, aged, asRead>>

ActiveStatuses   == {"queued", "running"}
FinishedStatuses == {"succeeded", "failed"}
Statuses         == ActiveStatuses \cup FinishedStatuses
Midway           == 50

Row == [song       : Songs \cup {None},
        client_ip  : Addresses \cup {None},
        status     : Statuses \cup {"absent"},
        stage      : {"none", "download", "pipeline"},
        percent    : {0, Midway, 100},
        attempts   : Nat,
        upload_key : Audio \cup {None},
        stem_key   : Audio \cup {None}]

NoRow == [song |-> None, client_ip |-> None, status |-> "absent",
          stage |-> "none", percent |-> 0, attempts |-> 0,
          upload_key |-> None, stem_key |-> None]

StoreTypeOK ==
  /\ rows \in [Jobs -> Row]
  /\ aged \in SUBSET Jobs
  /\ asRead \in [Requests -> SUBSET Jobs]
  /\ blobs \in SUBSET ({"upload", "stem"} \X Audio)

StoreInit ==
  /\ rows = [j \in Jobs |-> NoRow]
  /\ aged = {}
  /\ asRead = [q \in Requests |-> {}]
  /\ blobs = {}

-----------------------------------------------------------------------------
(* Reads.                                                                  *)

Exists(j)  == rows[j].status # "absent"
Active(j)  == rows[j].status \in ActiveStatuses
Live(j)    == Exists(j) /\ rows[j].status # "failed"
Running(j) == rows[j].status = "running"

find_live(song)  == {j \in Jobs : Live(j) /\ rows[j].song = song}
active_jobs(ip)  == {j \in Jobs : Active(j) /\ rows[j].client_ip = ip}
count_active(ip) == Cardinality(active_jobs(ip))

-----------------------------------------------------------------------------
(* Writes.  Each stamps updated_at: the row is young again, and no longer  *)
(* as any request read it.                                                 *)

Stamp(j) ==
  /\ aged' = aged \ {j}
  /\ asRead' = [q \in Requests |-> asRead[q] \ {j}]

Update(j, allowed, row) ==
  IF rows[j].status \in allowed
  THEN rows' = [rows EXCEPT ![j] = row] /\ Stamp(j)
  ELSE UNCHANGED storeVars

(* The insert of `create`, once the live row and the limit were looked at. *)
Insert(j, song, ip, key) ==
  /\ rows' = [rows EXCEPT ![j] = [NoRow EXCEPT !.song = song,
                                               !.client_ip = ip,
                                               !.status = "queued",
                                               !.upload_key = key]]
  /\ Stamp(j)

(* Mutant: a failed row is taken up again.                                 *)
mark_running_failed(j) ==
  Update(j, ActiveStatuses \cup {"failed"},
         [rows[j] EXCEPT !.status = "running",
                         !.attempts = rows[j].attempts + 1,
                         !.stage = "none",
                         !.percent = 0])

mark_running(j) ==
  Update(j, ActiveStatuses,
         [rows[j] EXCEPT !.status = "running",
                         !.attempts = rows[j].attempts + 1,
                         !.stage = "none",
                         !.percent = 0])

(* Mutant: progress is written whatever the status.                        *)
set_progress_always(j, stage, percent) ==
  Update(j, Statuses, [rows[j] EXCEPT !.stage = stage, !.percent = percent])

set_progress(j, stage, percent) ==
  Update(j, {"running"},
         [rows[j] EXCEPT !.stage = stage, !.percent = percent])

attach_upload(j, key) ==
  Update(j, {"running"}, [rows[j] EXCEPT !.upload_key = key])

(* Mutant: the result is written whatever the status.                      *)
succeed_always(j, key) ==
  Update(j, Statuses,
         [rows[j] EXCEPT !.status = "succeeded",
                         !.stage = "none",
                         !.percent = 100,
                         !.stem_key = key])

succeed(j, key) ==
  Update(j, {"running"},
         [rows[j] EXCEPT !.status = "succeeded",
                         !.stage = "none",
                         !.percent = 100,
                         !.stem_key = key])

(* Mutant: the row is failed whatever status the caller expected.          *)
fail_always(j, expect) ==
  Update(j, Statuses, [rows[j] EXCEPT !.status = "failed", !.stage = "none"])

fail(j, expect) ==
  Update(j, {expect}, [rows[j] EXCEPT !.status = "failed", !.stage = "none"])

(* Mutant: expect_updated_at is ignored.                                   *)
fail_though_written(j, expect, q) == fail(j, expect)

(* `fail` with expect_updated_at: the row is as request q read it.         *)
fail_as_read(j, expect, q) ==
  IF j \in asRead[q] THEN fail(j, expect) ELSE UNCHANGED storeVars

requeue(j) ==
  Update(j, {"running"},
         [rows[j] EXCEPT !.status = "queued", !.stage = "none", !.percent = 0])

(* S3BlobStore.put_file, behind `exists`: storing twice is storing once.   *)
put_file(kind, audio) == blobs' = blobs \cup {<<kind, audio>>}
=============================================================================
