# GuitarVis, specified

GuitarVis turns a song (an uploaded file, or a link to a video) into guitar
tablature. A browser submits it, an api keeps a row for it in Postgres and
queues its id in Redis, a worker separates the guitar, transcribes it and maps
it to the fretboard, and the browser polls the row and then plays the result.

This directory holds TLA+ modules of the parts of that program whose
correctness depends on order, failure or concurrency, the TLC runs that check
them, and TLAPS proofs of what matters most.

## Inventory

| Component | State | Operations | What is hard |
| --- | --- | --- | --- |
| Jobs table, blob store (`packages/jobs`: `store.py`, `postgres.py`, `blobs.py`) | a row per job, stored files | `create`, `mark_running`, `set_progress`, `attach_upload`, `succeed`, `fail`, `requeue`, `put_file` | writers race over a row; every write after `create` is conditional on its status |
| Queue (`queue.py`, RQ, Redis) | RQ's status, list and retries of an id | `enqueue`, `exists`, `waiting`; RQ's delivery, retry, cleanup | at-least-once delivery, lost data, a worker that died holding a job |
| Api (`routes.py`, `routes_links.py`, `reconcile.py`) | a thread per request | POST a file or a link, GET a job, reconciliation | check-then-act across three stores; repair on read |
| Intake (`uploads.py`, `errors.py`, `links.py`, the link route's front door) | the bytes taken of a body | length check, counting read, parsing, error handlers | whose fault a bare 400 is; a body that grows past its limit |
| Worker (`runner.py`, `timeouts.py`) | one forked horse per worker | `process_job` and its handlers | kills, timeouts, raising calls, retries, duplicate deliveries |
| Pipeline, progress (`pipeline.py`, the writers of `runner.py`) | stage, percent, warnings | a reporter per stage | a percent that must not fall, stages that degrade |
| Stage cache (`caching.py`) | cached stem, separation, notes, structure | restore or compute, then store | crashes between writes, entries that do not decode |
| Fetcher (`fetcher.py`, `child.py`) | a child process group per fetch | look up, download, deadline, kill | deadline against answer, orphans |
| Verdict on a link (`child.py`, `catalog.py`, `ingest.py`) | the evidence of one call: warnings, formats | choose, check, download, classify | one failure with the marks of several; a video that changes between two calls |
| Stages (`separation.py`, `transcription.py`, `structure.py`) | Demucs as a child; a list of notes, or of segments | two passes, progress read from a pipe; ghosts dropped; chords merged | output cut anywhere, interrupts; notes that take each other along |
| Lookups (`routes_links.py`, `services.py`) | four permits | acquire, look up, release | a permit that is never returned |
| Fretboard mapper (`stages/fretboard.py`) | none | Viterbi over fingerings | the recurrence against the true minimum |
| Playback engine (`engine.ts`) | engine, media element | play, pause, seek, switch source, loop | events of the source before, promises that settle late |
| Clock, cursors, views (`clock.ts`, `cursor.ts`, `confidence.ts`, `layout.ts`, `sounding.ts`) | anchor of the clock, window of each cursor | read, observe, draw at a frame | late readings, silent stalls, seeks backwards |
| Pages (`web/src/pages`) | the polled job, the upload under way | poll with backoff, load the song, send, abort | answers after the page has moved on |
| Contracts, evaluation, ingest of files, loudness, deploy | none that lasts | | left out, see below |

The components meet in the job system: api threads and workers share the
table, the blobs and the queue, and no lock spans two of them. The properties
that make it correct: one live row per song; no address above its limit; a
finished row is final; a row names only files that exist, and a stem that was
taken from its own mix; what a poll shows agrees with the status; a running
attempt is not failed behind its back; attempts are bounded; and a job that is
polled ends. Inside an attempt: what a document is made of belongs to one stem,
a cache entry is never half there, no stage's failure is hidden and none is
invented, and the percent rises. Around a fetch: the call ends, as the child
said, and leaves no process and no permit behind. In the player: what it shows
is what the element does, and position and play state survive every change of
source; what is drawn at a frame depends on the time and not on the way there;
the clock runs near the element and never back by itself. On the pages: a page
shows its own job, goes on asking until that has ended, and is not pulled away
by an old answer. In the mapper: the path is the cheapest, and ties go where it
says. At the door: whoever is at fault is told so, what is accepted can be used,
and a link is refused for good only for what its own video is.

## Modules

| Module | Models | State and actions |
| --- | --- | --- |
| `JobSystemFaults` | faults outside the code | `faults`, a budget that kills, flushes and raising calls draw on |
| `JobStore` | `models.py`, `store.py`, `postgres.py`, `blobs.py` | `rows`, `aged`, `asRead`, `blobs`; one operator per store call, named as in the code |
| `JobQueue` | `queue.py`, and RQ as the code uses it | `rq`, `line`, `left`; `enqueue`, `exists`, `waiting`; `Deliver`, `Finished`, `Retry`, `Flush` are RQ's |
| `Worker` | `runner.py`'s `run_job`, `process_job`, `_fetch`, `_failed_attempt` | `wk[w].pc` names the next call of worker `w`'s horse; one action per call that touches the row, the blobs or the queue |
| `Api` | both POST routes, GET of a job, `reconcile.py` | `req[q].pc` names the next call of request `q` |
| `JobSystem` | the composition, and the clock | `Next`, fairness, all properties, the refinement mapping |
| `JobRecord` | the abstract specification | `Submit`, `StartAttempt`, `PutBack`, `Finish`, `GiveUp` |
| `Creation` | `PostgresJobStore.create` and `_check_limit`, statement by statement | the table as committed; `at[c]`, the statement of caller `c`; `held`, the advisory locks |
| `JobSystemProofs`, `AttemptProofs`, `ChildFetcherProofs`, `PagesProofs`, `PlaybackProofs`, `StagesProofs`, `PartsProofs` | theorems | |
| `LoopsProofs` | lemmas: what the loops of `Loops` compute, for lists of any length | |
| `Attempt`, with `StageCache` and `Progress` | what one attempt does: `pipeline.py`, `caching.py`, the writers of `runner.py` | `cache`, `at[a]` (where attempt `a` is and what it has made), the percents seen and written; one action per cache read, cache write and stage |
| `ChildFetcher` | `fetcher.py`, `child.py`, the permits of `routes_links.py` | caller, reader thread, child with its group, pipe, deadline; `pc[c]` names the caller's next call |
| `LinkFetch`, with `FetchCatalog` and `Rules` | `child.py`'s work on one link, `classify`, `check_info`, the checks of `ingest.py` and `audio.py`; the table of `catalog.py` | `place`, the step of the call; `own` and `met`, what is the matter with the video and what its clients ran into, which the code cannot see; `verdict` |
| `Intake`, with `Links` | `uploads.py`, `errors.py`, `_LinkRoute`, `_probe`; `links.py` | `request` as it is sent, `taken` bytes, `point`, `answer` |
| `Pages`, with `Client` | `SongPage.tsx`, `UploadPage.tsx`, `App.tsx`; `api/client.ts` | `rows` as the api answers, the mounted `page`, `calls` under way; one action per task of the page |
| `Views`, with `Confidence` and `NoteCursor` | `layout.ts`, `sounding.ts`, `follow.ts`; `confidence.ts`, `song.ts`; `cursor.ts` | one cursor per view; a step moves the playhead and draws |
| `MediaClock` | `clock.ts` and its element | `clock`, fields as in the class; `media` |
| `Separation`, `Transcription`, `Structure`, with `Loops` | the three stages; loops over a list, one that appends for some of its places and one that adds up, and a sort | Demucs, its pipe and its reader; the notes kept; the segments |
| `MediaElement` | an `HTMLMediaElement`, external | operators on the element's part of `player`, with its queue of events |
| `PlaybackEngine` | `engine.ts`, driven by the controls | `player`, fields named as in the class; one action per call, event and frame |
| `Fretboard` | `stages/fretboard.py` | one action per stage of `assign`, one step per voicing |
| `MCJobSystem`, `MCAttempt`, `MCChildFetcher`, `MCPlaybackEngine`, `MCPages` | inputs, model values and symmetry for TLC | |
| `MCParts` | inputs of the parts that share no state | `part` says which of them a behaviour is of; the others rest |

`JobSystemFaults`, `JobStore`, `JobQueue`, `Worker` and `Api` are composed by
`JobSystem`. There an attempt's pipeline is one step that succeeds or fails, and
a look-up one that returns or raises; `Attempt` and `ChildFetcher` are the
insides of those steps, `Creation` is the inside of `create`, `Intake` what
comes before a submission reaches `Api`, and `LinkFetch` what the child of a
fetch does. `Creation` and `JobSystem` implement the same `JobRecord`. The rest
stand alone as they do in the program.

Definitions named `..._always`, `DownloadUnkept`, `CreateTwice` and the like,
commented "Mutant", are plausible bugs: put in place of the definition that
follows, each makes the run that checks its property fail.

### How the model abstracts

* A song is what `content_hash` stands for: the bytes of an upload, or the
  video of a link. A stored file is its kind and its content; the `document`
  is written with the stem's key in one UPDATE and is not a field of its own.
* `updated_at` is kept as the two answers the code takes from it: older than
  its status's grace (`aged`), and unchanged since a request read it
  (`asRead`, for `expect_updated_at`). The code computes the age of a row at
  its turn in a list, the model when the list is read: a row that gets old
  between the two and is not written meanwhile could as well have been read
  later, and one that is written meanwhile is not failed in either.
* `percent` is 0, `Midway` or 100.
* RQ's `QUEUED` and `SCHEDULED` are one: the code asks only whether a job can
  still run and whether a worker has it.
* `get` and `mark_running` at the start of an attempt are one step, and so are
  `fail` and the re-read in `reconcile`: the first only filters finished rows,
  which `mark_running` refuses as well; the second reads a row that is either
  final, or was not failed whenever it is read.
* The insert of `create` and its look at the live row and the count are one
  step in `JobSystem`: a transaction under the address's advisory lock and the
  unique index. `Creation` takes it apart and shows that it may be one.
* In `JobSystem` a request that validation refuses never starts: that is
  `Intake`'s.

* *Attempt.* A stem, a transcription and a structure are the run that made
  them (`Takes`), and a cache entry is what it was computed from; some takes
  come from the fallback separator, some have no notes. Fractions are
  hundredths, -1 and 101 standing for what a stage may wrongly report (NaN is
  treated by the code as the first is). Loudness only logs, and is left out.
* *Fetch.* A line is the kind of line it is. The child's group is the child and
  one more process (Deno, ffmpeg). That yt-dlp waits for what it starts is
  assumed of it. A horse's work after the fetch is `ExitHorse`. Not modelled: a
  process id reused between the reaping of a child and the kill of its group.
* *Playback.* Time is counted in whole steps. The element queues its events and
  the page hears them late; a new `src` discards those that wait and pauses
  without an event. The rate, the buffering flag, the duration, `dispose` and
  the clock's interpolation are left out.
* *Fretboard.* Times and costs are integers, so totals need no rounding; a
  voicing's fingerings are enumerated as a set instead of recursively. What the
  code sorts is a set put in a strict total order (`InOrder`); pitches of one
  onset that tie keep the order they came in.
* *Creation.* Each statement sees what is committed when it starts (READ
  COMMITTED). An insert waits for an uncommitted row of its hash. A caller makes
  one call; ids are fresh; the row's other columns, a row put back in the queue,
  and two addresses that hash alike, which only wait for each other, are left
  out. The code tries three inserts, the run two, the theorem any number.
* *LinkFetch.* A failure is its exception types, its HTTP statuses and the
  patterns its words match; a format is whether it is a picture, what it says of
  its sound, and whether our filter may take it. Sizes are chunks. The claimed
  size of a format is right when given, a client that skips formats for want of
  a token skips the picture with the sound, and yt-dlp's remux may add a chunk.
  A time-out or garbage of ffprobe counts as an unreadable file. The video may
  change between a look-up and a download, and between retries. Progress, the
  versions named on lines, log levels and the tail kept for the log are left out.
* *Intake.* A sender who hangs up is answered by nobody and is left out. A
  garbled Content-Length counts as none, as in the code; a declared length is
  true, which the server enforces. A link is given by its parts, with what a
  browser opens on it (`opens`) as the truth the parser is held to.
* *Pages.* A component that leaves takes its timers and reads with it; the answer
  to a read that was cancelled is dropped, `Ignored`. Development-mode double
  effects, texts and the drag state are left out.
* *Views.* Time is counted in steps, positions on the strip are times, and a fifth
  of its width is left of the playhead, as in `layout`. The widths are those of a
  strip of 113 pixels or more, whose fifth is as long as `MIN_LIT`: on a narrower
  one a short note may still be lit when it has left the strip. Only the clause of
  `ViewsRight` that compares the two needs it. `hiddenPassages` reads the moments
  off a list that `byOnset` has sorted, as `buildSong` does. A note of
  no duration that ends a weak run still shows, and a chord that ends where a
  passage begins is drawn by the guitar but not large on the strip: both are in
  the code, and the definitions the views are held to say so.
* *Clock.* A tick is the unit of time, half speed plays one unit in it. A rate
  that has changed and not been heard of is excepted from `ClockNear`.
* *Separation.* A draw of the bar is a number and what follows it; a read ends
  anywhere. Within a pass the bar does not fall. The alarm between `Popen` and
  the `try`, or inside the `finally`, is left out (it is the window of
  `fetch_interrupted`); a horse that is killed outright leaves Demucs running,
  as nothing watches there.
* *Transcription.* Times are integers, so a window is as wide on both sides; the
  property is for the default, ghosts dropped only when `alone_only`.
* *Structure.* Labels and beats are whatever the models found; that the times of
  librosa's beats rise is assumed of it (`StructureAssumption`). Confidences and the
  tempo are left out.

### Bounds

`Jobs` is the number of ids `create` may draw; a request that finds them all
drawn is refused. `MaxFaults` bounds, together, kills of a horse or a worker,
flushes of Redis, calls that raise, aborted requests and (with `Stalls`) RQ
giving up on a live worker. Requests, workers, songs, addresses and downloads
are sets. `MaxFaults` of `ChildFetcher` bounds its kills, crashes, alarms and
failed starts, `MaxLines` each pipe or queue: one line suffices to fill it.
`MaxActs` and `MaxBreaks` bound the user and the lost connections of the player,
`Length` the song; a file that breaks off (`Cut`) does so without bound. The
songs given to the mapper are listed in `MCParts`, with the default costs,
and a beam of 8 for 50 so that chords of three notes overfill it. `Pages` has two
jobs, of which the visitor's own is submitted by a file or a link and the other
is there before; two attempts of the one, two visits of pages, and per request
one way each for its answer to be lost, garbled or refused. `Intake`: files up
to three over the limit, chunks of one or two. `LinkFetch`: two clients, a cap of
two chunks, any number of retries. `Creation`: three callers, two songs, two
addresses with a limit of one: the least in which one caller collides with a row
that ends while another takes its place, so that a call gives up. `MCParts` draws
ids in order and fixes the first caller's arguments, since ids, songs and
addresses are interchangeable. `MaxTicks`, `MaxEvents` bound the clock's song
and its queue, `MaxRedraws` a pass of Demucs. A failing attempt (`AttemptFails`) and a refused input cost no fault.
In `Attempt`, attempts side by side all have their audio and report as an
upload's job does, since the cache does not tell them apart; an attempt alone
also is a link's, first or later.

### What the environment is assumed to do

* *Gap between insert and enqueue.* A live request is not between the two
  longer than `QUEUED_GRACE`: the call to Redis has a five second timeout.
* *Job timeout.* The alarm RQ sets before `run_job` ends an attempt, so a row
  an attempt holds does not get as old as the timeout and the grace. Not
  assumed with `Stalls`.
* *Deliveries.* Without `Stalls`, RQ's cleanup gives up on a started job only
  when no process holds it. With it, a worker that was frozen, or cut off from
  Redis, or an orphaned horse, goes on beside the next delivery: the duplicate
  that `store.py` speaks of.
* *Fairness* (`FairSpec`). A process that is not killed takes its next step:
  each action of a horse and of a request, RQ's dispatch to a free worker and
  its cleanup, and time, are weakly fair. A poll of a job that may be lost is
  strongly fair: the song page polls every 1.5 s until the job is finished
  (`SongPage.tsx`), and a pool of busy threads gets to it between others.
  Nothing is assumed of submissions, and nothing of attempts succeeding.
* *Fairness of the others.* `ChildFetcher`: the caller and the reader thread go
  on, the child reaches `watch_parent` (its first call), its watch wakes when
  the pipe closes, and time passes; nothing is assumed of what the child does
  for the call or of what it starts. `PlaybackEngine`: events are handled
  (`EventsHandled` is their weak fairness, written out) and the element makes
  progress; frames are not assumed, since a tab in the background has none.
  `Pages` (`FairSpec`): a timer that is set fires, a request that waits is
  handled or lost, an answer is heard. A poll is strongly fair to be handled and
  heard, as polls are sent again: not every one of them may fail. Nothing is
  assumed of the user, of jobs or of submissions. The rest are checked for
  safety only.
* *Where a run may stop.* A killed caller of `ChildFetcher` does nothing more,
  and a player whose user has left is silent: those runs do not look for
  deadlocks. All others do.

## Runs

| Run | Instance | Shows |
| --- | --- | --- |
| `jobs_retries` | 1 job, 3 faults, 2 retries, 2 workers, a link with 2 downloads and an upload | `FilesStored`, `StemMatchesMix`, `AttemptOwnsRow`, `AttemptsBounded` through every sequence of kills, retries and reconciliation |
| `jobs_races` | 2 jobs, 2 uploads, 2 addresses with a limit of 1, 2 requests, no fault | `OneLivePerSong`, `ActiveLimit` |
| `jobs_duplicates` | `Stalls`, 2 workers, 1 request | `ProgressShown` under duplicate delivery, and `RecordSpec`: the system implements `JobRecord`, in which a finished row is final |
| `jobs_polled` | 1 job, 2 faults, no symmetry, `FairSpec` | `PolledJobEnds` |
| `lost_retry` | violation | `LostMeansKilled` fails |
| `mixed_downloads` | violation, `Stalls` | `StemMatchesMix` fails |
| `attempt` | one attempt after another with every hundredth in any order, or 2 on equal files side by side with reads that fail; 2 takes, one of them a fallback without notes | `TakesKept`, `CompleteEntry`, `HonestDocument`, `PercentRises` |
| `fetch_calls` | a look-up and a download, 1 fault, `FairSpec` | `PermitsKept`, `EndedWithoutChild`, `AnswerTold`, `CallEnds`, `NoOrphan` |
| `fetch_interrupted` | violation | `NothingOutlives` fails |
| `playback` | 4 acts of the user, 1 lost connection, a mix that breaks off, `FairSpec` | `PlayingAgrees`, `ViewsShowTime`, `LoopHolds`, `PlaybackKept`, `ReloadsEnd` |
| `pages` | 2 visits, 2 jobs, answers lost, garbled or refused, `FairSpec` | `ShowsItsJob`, `PollGoesOn`, `NeverOlder`, `NoPullBack`, `PageSettles` |
| `parts` | one part at a time, the bounds above | mapper: `MapperRight`; stages: `SeparationRight`, `GhostsLeaveBases`, `ChordsHold`; views and clock: `ViewsRight`, `ClockNear`, `NeverBack`; link: `BlamedRight`, `AcceptedSound`; door: `AnsweredRight`, `BodyBounded`; table: `CreateAtomic` |

The largest are `jobs_races` with 2.5 million states, `playback` with 1.1
million and `parts` with 843,000 (52,000 of the mapper, 542,000 of the clock,
106,000 of the creation); each takes at most a few minutes with two workers. The type invariants of `JobSystem` and
`ChildFetcher` are proved and no run repeats them.

Two jobs suffice for what relates two rows (the song's live row, the address's
count): both properties are about pairs or about one row over the limit. Three
faults let a horse die, a worker die and Redis lose the job in one life; two
downloads are the least that can be mixed up, and so are two takes. With one
fault a fetch loses its caller, its child or its start, or is interrupted; two
together can leave a helper that no one watches and that ends when it is done,
so `NoOrphan` is stated for one. Four acts of a user switch the source, seek,
loop and play again in one life. Four notes let a hand move, rest on an open
string and be moved once more, which is the least in which a search that forgets
the hand goes wrong.

`TakesKept` (`OneTake` and `Resumes`) is for one attempt at a time: two that share
a cache may each write a stem, and a document may be made of one's stem and the
other's notes. `CompleteEntry` and `HonestDocument` hold even then.

`BlamedRight` and `AcceptedSound` hold `classify` and the checks to what the code
cannot see: whatever the clients meet, a song is refused for good only for its
own fault, and a download is kept only with none. `AnsweredRight` likewise holds
the error handlers to what was sent and to whether something of ours had failed.
`ClockNear` bounds the strip's distance from the sound by `MAX_DRIFT`, the age
of a reading and, in a silent stall, `MAX_LEAD`; `MAX_LEAD` is set to what the
clock's own bound needs, 2 `MaxAge` + `MAX_DRIFT`.

### Findings

* `lost_retry`. A horse is killed, RQ schedules the retry, and the row goes on
  saying running. If it is by then older than the timeout and the grace (the
  retry waited behind long jobs), there is a window between RQ handing the
  retry to a worker ("started") and that worker's `mark_running` in which a
  poll takes the row for lost and fails it. The retry then drops the job.
  `reconcile.py` says such a row means "the worker was killed outright".
* `mixed_downloads`. A second delivery of a link job, begun before the first
  attached its download, downloads again and attaches its own; the first then
  succeeds with its own stem. The row has the mix of one and the stem of the
  other, which `runner.py` says must not meet. It takes a duplicate delivery,
  so `StemMatchesMix` is checked without `Stalls` in `jobs_retries`.

* `fetch_interrupted`. The job timeout's exception may be raised at any point
  of the horse. Between `Popen` and the `try`, or inside the `finally`, it leaves
  `_run` with the child running; the comment at the `finally` says nothing
  outlives it, "a job timeout's BaseException included". The child's watch on
  its parent ends it when the horse exits, which is `NoOrphan`.

Two limits of the player are built into its properties. Between `pause()` and
the `pause` event, a change of source or the reload after an error resumes
playing (`setSource` reads `state.playing`, which the event has not yet changed):
`PlaybackKept` excepts that moment (`UpToDate`). And a loop around the place where a
file breaks off is reloaded each time round, as the repository's spec of the
player has it (`docs/specs/006-tab-view-sync/spec.md`): `ReloadsEnd` excepts it.

Two behaviours of the job system that are as documented, but worth knowing: a queued row whose
RQ job is "started" by a worker that died before `mark_running` is not
repaired by reads, only by RQ's own cleanup, which `PolledJobEnds` assumes; and
a 503 may be answered for a job that Redis took and a worker is running.

## Proofs

Every theorem is for all values of the constants that satisfy the assumptions
named in the modules. They say what the code relies on: that there are finitely
many jobs, requests, workers and threads, that `None` is no value of a field it
stands beside, that uploads and videos are different songs, that limits are
positive, that a submission answers with a job, that a video's id is none of the
words a refusal is told by. Every inductive invariant below
was checked by TLC on the instance of a run before it was proved. The bounds of
the runs (faults, lines, visits, acts) are constants like others, so a theorem
holds for any of them, however large.

### The job system

`JobSystemProofs` (`Jobs` finite, `None` not a value, uploads and videos apart,
the limit positive):

* `TypeCorrect`: `Spec => []TypeOK`. `StoreStep` first shows that every step
  writes the table in one of three ways (a row created under `create`'s
  conditions, one store call on one row, or nothing), so that what follows
  need not look at fifty actions again.
* `Dedupe` and `Limit`: `Spec => []OneLivePerSong`, `[]ActiveLimit`. `RowStep`
  gives the shape of a step on the rows: only an active row is written, its song
  and address are kept, and it is never revived. Each is inductive with
  `TypeOK`; `Limit` needs `Jobs` finite to count.
* `Finality`: `Spec => FinishedIsFinal`, from the same shape: no step of anyone
  writes a row that succeeded or failed.
* `Implementation`: `Spec => RecordSpec`, the refinement, under the mapping
  given at the end of `JobSystem`: `RowStep`'s cases are the record's actions.

The second half of the module follows a job from its submission through queue and
workers:

* `Shows`: `[]ProgressShown`, which is inductive with `TypeOK`: each call of the
  store writes status and progress together, and a report writes a running row.
* `FilesBeforeKeys`: `[]FilesStored`. `StoredFirst` adds the keys that are on
  their way, in the hands of a worker about to attach or succeed (`FileOf`) and
  of a request about to create (`UploadOf`): their file is stored already.
* `KeptInCustody`: without `Stalls`, `[]Custody`. A job is unknown to RQ until its
  one request enqueues it (`SentOnce`, `CreatedFirst`), and from then on in line
  and with nobody (`LineUnheld`) or with one worker (`OneHolder`, `HeldKnown`). It
  makes a delivery single, and the next three rest on it.
* `OwnsRow`: `[]AttemptOwnsRow`. `Ownership` says why nobody can fail the row of
  an attempt in its try: it is running, younger than its grace, and not as any
  request has read it, so a conditional update of a request that took it for
  lost writes nothing.
* `RetriesBound`: `[]AttemptsBounded`. `Budget` adds up what a job was attempted
  and what RQ may still retry, wherever the job is: in line, started, or taken
  by a worker that has yet to say so.
* `OneDownload`: `[]StemMatchesMix`. `OneAudio` adds that the audio an attempt
  works on is the one its row names, once it names one.

The last four hold only where RQ takes no live worker for dead; with `Stalls`,
`mixed_downloads` shows `OneDownload` fail. `OwnsRow` and `RetriesBound` name a
property that says so itself and are stated without a hypothesis.

`PartsProofs` holds the theorem about `create`: `Atomic`, `CreationSpec => CreateAtomic`, for any callers, songs,
addresses, limit and number of tries. The invariant `CreationInv` says that the
caller in a transaction holds its address's lock (`Locked`), that whoever has
counted still finds room (`Room`: only the holder of the lock can add to the
address, and everyone else only takes away), and that of the uncommitted rows
and the live ones no two are of one song (`Alone`: the index). None of the three
would do alone; together they make `Commit` a `Submit` of the record, and every
other statement a stutter.

### The attempt

`AttemptProofs`, for any attempts side by side, any takes and any fractions:

* `EntryComplete`: `[]CompleteEntry`. `StemFirst` adds the attempts that are about
  to write `result.json`: the stem is in the cache, and no step takes one away.
* `DocumentHonest`: `[]HonestDocument`. `AllHonest` is what an attempt has said so
  far, stage by stage: a warning is there exactly when its stage failed, and
  events that are no notes have theirs. The checks at the end only read it.
* `TakesAreKept`: `[]TakesKept`, for one attempt at a time with reads that do not
  fail, which the property says itself. `Agreement`: the entries belong to the
  stored stem, a later one is there only after an earlier one, and the attempt
  at hand works on that stem from the moment it is cached with its warnings; an
  attempt that was killed between the two leaves a stem that the next replaces.
* `PercentsRise`: `PercentRises`. `AllReported` gives, stage by stage, the percent
  the reporter said last and what the row shows of it, scaled after a download.
  A stage's fraction stays in its band (`WithinBand`) whatever it reports, so
  that the bands, which do not overlap, make the percent rise.

### The stages

`PartsProofs`, of the transcription: `GhostsLeave`,
`TranscriptionSpec => []GhostsLeaveBases`, for any predictions: a note dropped as a
ghost is judged against the notes before any is dropped, and a base of it is
never itself dropped.

`StagesProofs`, of separation and structure, whose loops run over a text and a list
of segments of any length. They are written with `Picked` (`Loops`), a function
defined by recursion over the numbers up to the length, in place of the library's
SelectSeq and FoldLeft, which the provers cannot expand; what they compute is in
`LoopsProofs`. Induction is over a set
of numbers instead of over an operator: `Everywhere` says that a set with 0 in it,
and with n + 1 whenever n is, holds every number; it follows from
`NatLessThanWellFounded`. `LoopExists` uses it to show that the recursion defines a
function at all, and `PickedJoin`, `PickedFrom` and the like are what follows.

* `Stream`: `TqdmPercent` loses and repeats nothing. Where the text is cut, a match
  lies before the cut, behind what is carried, or across; in the last case all of
  it is carried, since a match of three digits is shorter than `_CARRY`
  (`PrefixMatch`, `SuffixMatch`, `CarryCut`).
* `SeparationSafe`: `SeparationSpec => []SeparationRight`. `ProgressFollows` compares
  what was found with what was drawn only when all is read. In between,
  `Accounted` says that what was found, and what is carried and unread and still
  says a number, make up what was drawn; a read keeps it by `Stream`, a redraw by
  `RedrawSays`, which needs that the text before it does not end in a digit
  (`EndsPlain`, in `Carried`). That the fractions never fall through both passes
  takes `DrawnOn` (within a pass the bar rises) and `ToldFound` (what the first
  pass has told is at most 300 hundredths of four, where the second begins).
* `StructureSafe`: `StructureSpec => []ChordsHold`. `StructureInv` ties the labels to
  the segments that could be scored (`Scoring`) and the chords to the labels
  (`Merged`). That merged chords sound what was labelled is `ChordsSound`, from the
  run every segment lies in (`RunIs`, `RunOf`). A last beat past the end
  begins no chord, since by `Scored` no frame falls behind it. `SecondsCover` is
  for songs without beats.

### The mapper

In `StagesProofs`: `MapperSafe`, `Spec => []MapperRight`, for every sequence of notes,
every tuning and every price list that `MapperCosts.__post_init__` lets pass
(`FretboardAssumption`). `MapperRight` speaks of a search that is over and of a tab
that is done, and says nothing of what lies before; `MapperInv` does, stage by stage:

* The voicings are `Voiced`: how their notes lie in time, and that the places in
  all of them, with the notes dropped, are as many as the notes that can be
  placed. `GroupVoiced` shows it of the grouping, note by note (`GroupJoins`,
  `GroupBegins`), since a window anchored to the first note is about all the notes
  between. `DropVoiced` shows that the loss of a note keeps it. The loop that drops
  notes never empties a voicing, because a lone note in range can always be
  played (`AlonePlayable`): this needs what `__post_init__` refuses, a beam of
  nothing and a negative span.
* The options are `Fitted`: those of the voicing as it now is, in tie order.
  `FingeringsAre` says that the beam leaves some, each an own place on the
  strings, and that their order is the one ties are told by (`TieOrder`: no two
  shapes of a voicing tie).
* The history is `Chained`: each state reached has the least total of all that lead
  to it from the voicing before, and of equal ones the first state.

`Cheapest` concludes. `LowerBound` goes along an arbitrary choice of one fingering per
voicing: the search has the state the choice is in, at no greater a total. It
needs that a state holds all that the next step's cost depends on: the fingering for
the ring, the hand for the move, and the hand after an open voicing as well.
`BacktrackIs` goes back from the best last state, whose total is then the cost of the
path. Where another choice costs as much, the last voicing in which the two differ
decides (`SameAfter`): from there on they agree, so the other's state was one of
those `Best` chose among. The tab follows (`PlacedIs`), counted by the pairs of a
voicing and a place in it.

### The links and the door

In `PartsProofs`. The code says many of its decisions as a list of rules of
which the first that holds is taken (`classify`, `check_info`, the error handlers,
`parse`). `FirstIs` says what such a list gives, `FirstOfThreeChains` what a list
joined of three does, and a lemma for each list turns it into the ifs it is.

* `Blames`, `Accepts`: `LinkFetchSpec => []BlamedRight`, `[]AcceptedSound`, for any
  clients, cap and longest song. `ClassifyRefuses` reads off the catalog what of an
  error can count as a fault of the video at all; `OthersBlameless` and
  `SpokenBlamed` say that YouTube's, the network's and the disk's failures never
  do, and that a video's own words do for what they say. What remains is what the
  formats show (`ChoiceBlamed`): a video has no sound only if the clients' warnings
  let one believe that all was offered, so `LinkInv` keeps the warnings tied to
  what the clients met (`WarnedOf`), and what the metadata and the formats let
  pass (`Passed`), the size (`Sized`, `Arriving`) and the cap (`Capped`) excluded so
  far, since a late failure is explained by what no earlier step found.
* `Bounds`: `IntakeSpec => []BodyBounded`. Not inductive alone: that nothing was
  taken before the switch was asked, and no more than the limit while the body is
  still read, is `Counted`.
* `Answers`: `IntakeSpec => []AnsweredRight`. `Clear` says what a request has been
  found to be at each point of its way in; `RefusedRight` and `AcceptedRight` say
  which answers are right for it, and `OursRaised` what each exception becomes on
  its way through the link route and the handlers. For links, `IdSpelled` shows
  that `youtube_id` reads exactly what a link spells, and `ParsedRight` follows.
  What a link opens is data of the model; `RawLinksAssumption` says of it what a
  browser does: where the text is a link at all and its scheme one of the web's
  (or none), it opens the video it spells, in any of YouTube's ways.

### The fetcher

`ChildFetcherProofs`, for any threads (finitely many), horses and permits:

* `TypeCorrect` and `Permission`: `Spec => []TypeOK`, `[]PermitsKept`. Neither is
  inductive without the other: a permit is returned into a count that has room
  for it only because a busy thread holds one (`RoomToRelease`), and that holds
  only while the api lives, so `PermitInv` adds that its threads die together.
  `PermitShape` says what a step can do to permits and threads at all.
* `Cleanup`: `Spec => []EndedWithoutChild`, from `ClearInv`: wherever the call is
  when no child may be left, be it before the start, after the kill or over, none
  is; only `Spawn` undoes `Gone`, since a helper is started by a running child.
* `Telling`: `Spec => []AnswerTold`. `Heard` follows the answer: what the child
  said is in the pipe or among the lines until it is taken, nothing else is
  taken for it, and the reader's "end" stands after all that was written. So a
  call that finds "end" before an answer may say the child crashed.

### The pages

`PagesProofs`, for any jobs and visits and any answers that are lost or garbled.
`PagesInv` is about all that is under way at once: a call whose answer is still
waited for is of the open page, and what it will say of a job was so of it and is
no earlier than what is shown (`CallsSound`); the open page has one poll or one
timer as long as its job has not ended (`Polling`); one submission at a time
(`Posting`); and what is shown is of the job in the address (`JobShown`,
`SongShown`, `DelayShown`).

* `ShowsOwnJob`, `OnePoll`: `[]ShowsItsJob`, `[]PollGoesOn`.
* `ShowsNoOlder`, `NotPulledBack`: `NeverOlder` and `NoPullBack`, action properties
  from the same invariant. `RowsRise` says that a row's view only moves on; that
  an older answer cannot overtake needs `Polling`, since it is the single poll
  that keeps answers in order.

### Playback

`PlaybackProofs`, for any song, tracks, failures borne, drift and lead:

* `ShownNear`, `BackOnlyToStand`: `[]ClockNear` and `NeverBack` of the clock, from
  `ClockInv`: the reading is no later than the element's time and that no later
  than the song; the extrapolation is not behind its reading unless a
  "ratechange" is queued; and what was drawn is too far ahead only when a seek
  has allowed it to go back.
* `PlaysAsHeard`, `ViewsFollow`, `LoopKept`: `[]PlayingAgrees`, `[]ViewsShowTime`,
  `[]LoopHolds`, from `EngineInv`. None of them is inductive by itself, since the
  engine and its element differ as long as an event is queued: the invariant
  says for each which event settles it (`Agrees`, `TimeTold`, `PreviousTold`), and
  that an error is the last word of a load (`ErrorLast`), so that nothing is
  believed of a source that was given up.
* `KeepsPlayback`: `PlaybackKept`. `KeepInv` adds that the element is still while a
  source loads and that a loop is never of one point; each call, event and
  frame is then shown to leave what the engine remembers, to go back to the
  start of the loop, or to be the user's own act.

### The views

In `PlaybackProofs`: `ViewsSafe`, `ViewsSpec => []ViewsRight`, for every document its
schema lets through (`Documents`), every set of times and widths
(`ViewsAssumption`) and any MIN_RUN and MAX_GAP. `ViewsRight` compares what the views
drew with definitions that read the whole song; the code reads a window, with
cursors that remember where the last one was, and passages that were computed once.
`ViewsInv` says that the song open is one that `buildSong` made, that each cursor is
`Usable`, and that what is drawn is right for it (`RightFor`).

* *Cursors.* `firstIndex` is a binary search: `FirstIndexIs` says it finds where the
  indices that pass begin, by induction over the length of the span searched.
  `Usable` allows a cursor that is new or was left anywhere; `MovedIs` shows that
  a window that goes forward and does not shrink may be followed from it
  (`GoesOn`), and `ReadIs` that what it then finds is `Overlapping`. A long note
  before many short ones is why the start looks at the longest duration
  (`LongestIs`).
* *Passages.* `GroupIs` says which notes form a run with a given one: those from which
  only soft, near onsets lie between. `HearingTo` follows the sweep moment by moment
  (`HeardMomentIs`): what is closed so far is told (`Told`), in order and apart
  (`Spaced`), and the run in hand is the group of the last note (`OpenAt`); `Closes`
  shows that closing a run, cut at the next onset, covers the onsets of that
  group and of no other. So an onset lies in a passage if and only if its note
  is `Dim` (`HiddenTold`), and `Unclear`, which asks of every pair of onsets whether all
  between them follow on weakly, is the same (`UnclearIs`).
* *Frames.* `LayoutRight`, `SoundingRight` and `AtIs` conclude for the strip, the guitar
  and the lane. Both views ask of a note only the passages since the earliest onset
  they read (`SinceIs`, `HiddenIn`), and the guitar lights of each string the latest
  note that nothing has ended (`LitUntilIs`). `LitDrawn` and `BandOver` compare the
  two: a lit note is on the strip, and a band lies over the playhead wherever the
  guitar says that it cannot tell.

### Model-checked only

* *Liveness.* `PolledJobEnds`, `CallEnds`, `NoOrphan`, `ReloadsEnd` and `PageSettles`
  are about fairness and ENABLED, which are out of the prover's reach.
* *Violations.* What the findings show is a counterexample, for TLC to find.

## Not modelled

The models behind the stages, ffmpeg, yt-dlp, Postgres and S3 themselves are
libraries. The conversion of an upload by ffmpeg and the loudness of a song are
calls and arithmetic over samples without a state that outlives them. The
layout, the colours and the 3D scene of the views are drawn from what `Views`
computes. The document's schema, the reading of documents and audio by range,
health, and the header an address is read from are functions of one request. The
in-memory twins of the store and the queue serve the tests. Migrations and
deployment are configuration; the evaluation harness is a command of its own
that scores one recording after another.

## Plan

Done: the job system with its refinement, the creation of a row with its own, the
attempt, the fetcher with its permits and the verdict on a link, the door, the
stages, the mapper, the playback engine, the clock, the views and the pages;
forty theorems, which state every safety property that a passing run checks. In
order of what they are worth, next:

1. *Composition.* The polls of `Pages` in place of the ones `JobSystem` assumes.
2. *Twins.* `InMemoryJobStore` and `InMemoryQueue` against `JobStore` and
   `JobQueue`, so that what the tests see is what Postgres does.
