----------------------------- MODULE PagesProofs -----------------------------
(***************************************************************************)
(* Theorems of the pages, for every set of jobs, every way they may end,   *)
(* every answer that may be lost or refused, and whatever the bounds: a    *)
(* page shows its own job, polls it once at a time until it has ended,     *)
(* does not go back in time, and is not pulled elsewhere by an answer.     *)
(***************************************************************************)
EXTENDS Pages, TLAPS, FiniteSetTheorems

(* Types.                                                                  *)

Places == {"upload", "missing"} \cup Jobs

RowTypes ==
  [status : {"absent", "queued", "running", "succeeded", "failed"},
   attempts : Nat,
   failure : FailureReasons \cup {None} \cup UNION {Ends[j] : j \in Jobs},
   document : Documents \cup {None}]

PageTypes ==
  [at : Places, visit : Nat,
   poll : [job : JobViews \cup {None}, missing : BOOLEAN, reconnecting : BOOLEAN],
   delay : Nat, timer : BOOLEAN, loaded : {"loading", "ready", "newer", "failed"},
   state : [kind : {"idle", "sending", "checking", "refused"}, fraction : {0, 1},
            reason : Reasons \cup {None}, detail : BOOLEAN],
   linksOn : BOOLEAN, linksRefused : BOOLEAN,
   hint : {None, "Paste a link first.", "That doesn't look like a link."}]

(* An answer may be anything, so a call is told by its fields.             *)
IsCall(c) ==
  /\ c = [kind |-> c.kind, visit |-> c.visit, job |-> c.job, live |-> c.live,
          answer |-> c.answer]
  /\ c.kind \in Kinds
  /\ c.live \in BOOLEAN

RowSound(j) ==
  /\ rows[j].attempts <= MaxAttempts[j]
  /\ rows[j].status = "succeeded" => rows[j].document \in Documents

Typed ==
  /\ rows \in [Jobs -> RowTypes]
  /\ \A j \in Jobs : RowSound(j)
  /\ page \in PageTypes
  /\ \A c \in calls : IsCall(c)

-----------------------------------------------------------------------------
(* What is under way.                                                      *)

(* `job` is what job j was once, or is.                                    *)
Past(job, j) ==
  /\ job \in JobViews
  /\ job.id = j
  /\ Rank(job) <= Rank(View(j))
  /\ job.status = "succeeded" => rows[j].status = "succeeded"

(* An answer that resolves its call, whichever call it is.                 *)
Good(answer) == answer # None /\ answer.status \in 200..299 /\ HasContent(answer)

(* What such an answer tells the open page.                                *)
TellsJob(content) ==
  /\ Past(content, page.at)
  /\ page.poll.job # None => Rank(page.poll.job) <= Rank(content)

Tells(kind, content) ==
  /\ kind = "getJob" => TellsJob(content)
  /\ kind = "getDocument" => content = rows[page.at].document
  /\ kind \in Posts => content \in JobViews

CallSound(c) ==
  c.live =>
    /\ c.visit = page.visit
    /\ c.kind \in {"getJob", "getDocument"} => page.at \in Jobs /\ c.job = page.at
    /\ c.kind = "getDocument" => rows[page.at].status = "succeeded"
    /\ c.kind \in Posts => page.at = "upload" /\ sending(page)
    /\ Good(c.answer) => Tells(c.kind, c.answer.body.content)

CallsSound == \A c \in calls : CallSound(c)

(* One poll or one timer, as long as the job has not ended.                *)
Polls  == {c \in calls : c.live /\ c.kind = "getJob"}
Waits  == page.at \in Jobs /\ ~Ended(page.poll)
Polling ==
  IF Waits
  THEN \/ page.timer /\ Polls = {}
       \/ ~page.timer /\ \E c \in calls : Polls = {c}
  ELSE ~page.timer /\ Polls = {}

(* One submission at a time.                                               *)
Posting ==
  \A c, d \in calls :
    c.live /\ d.live /\ c.kind \in Posts /\ d.kind \in Posts => c = d

(* What the open page shows.                                               *)
JobShown ==
  page.poll.job # None =>
    /\ page.at \in Jobs
    /\ Past(page.poll.job, page.at)
    /\ page.poll.job.failure \in FailureReasons \cup {None}

SongShown ==
  page.loaded \in {"ready", "newer"} =>
    /\ page.at \in Jobs
    /\ rows[page.at].status = "succeeded"
    /\ rows[page.at].document = (IF page.loaded = "ready" THEN "readable" ELSE "newer")

DelayShown ==
  /\ page.delay >= POLL_MS
  /\ ~page.poll.missing => (page.poll.reconnecting <=> page.delay > POLL_MS)

PagesInv ==
  /\ Typed /\ CallsSound /\ Polling /\ Posting
  /\ JobShown /\ SongShown /\ DelayShown

-----------------------------------------------------------------------------
(* The rows move on.                                                       *)
RowsRise ==
  /\ rows' \in [Jobs -> RowTypes]
  /\ \A j \in Jobs : /\ RowSound(j)'
                     /\ Rank(View(j)) <= Rank(View(j))'
                     /\ rows[j].status = "succeeded" => rows'[j] = rows[j]

RankOf(row, j) ==
  CASE row.status = "absent"  -> 0
    [] row.status = "queued"  -> 2 * row.attempts + 1
    [] row.status = "running" -> 2 * row.attempts
    [] OTHER                  -> 2 * MaxAttempts[j] + 2

LEMMA ViewFields ==
  ASSUME NEW j \in Jobs
  PROVE  /\ View(j).id = j /\ View(j).status = rows[j].status
         /\ View(j).failure = rows[j].failure
         /\ Rank(View(j)) = RankOf(rows[j], j)
  BY DEF View, Rank, RankOf

LEMMA RowMoves ==
  ASSUME Typed, NEW j \in Jobs, NEW row \in RowTypes,
         rows' = [rows EXCEPT ![j] = row],
         row.attempts <= MaxAttempts[j],
         row.status = "succeeded" => row.document \in Documents,
         rows[j].status # "succeeded",
         RankOf(rows[j], j) <= RankOf(row, j)
  PROVE  RowsRise
  <1>1. rows \in [Jobs -> RowTypes]
    BY DEF Typed
  <1>2. rows' \in [Jobs -> RowTypes] /\ rows'[j] = row
    BY <1>1
  <1>3. \A i \in Jobs : i # j => rows'[i] = rows[i]
    BY <1>1
  <1>4. ASSUME NEW i \in Jobs
        PROVE  /\ RowSound(i)'
               /\ Rank(View(i)) <= Rank(View(i))'
               /\ rows[i].status = "succeeded" => rows'[i] = rows[i]
    <2>1. Rank(View(i)) = RankOf(rows[i], i) /\ Rank(View(i))' = RankOf(rows'[i], i)
      BY ViewFields DEF View, Rank, RankOf
    <2>2. CASE i = j
      BY <1>2, <2>1, <2>2 DEF RowSound
    <2>3. CASE i # j
      <3>1. rows'[i] = rows[i] /\ RowSound(i)
        BY <1>3, <2>3 DEF Typed
      <3>2. rows[i].attempts \in Nat /\ MaxAttempts[i] \in Nat
        BY <1>1, PagesAssumption DEF RowTypes
      <3>3. RankOf(rows[i], i) \in Nat
        BY <3>2 DEF RankOf
      <3>4. QED
        BY <2>1, <3>1, <3>3 DEF RowSound
    <2>4. QED
      BY <2>2, <2>3
  <1>5. QED
    BY <1>2, <1>4 DEF RowsRise

LEMMA RowsStay ==
  ASSUME Typed, rows' = rows
  PROVE  RowsRise
  <1>1. rows \in [Jobs -> RowTypes] /\ \A j \in Jobs : RowSound(j)
    BY DEF Typed
  <1>2. ASSUME NEW j \in Jobs
        PROVE  RowSound(j)' /\ Rank(View(j)) <= Rank(View(j))'
    <2>1. Rank(View(j)) = RankOf(rows[j], j) /\ Rank(View(j))' = RankOf(rows[j], j)
      BY DEF View, Rank, RankOf
    <2>2. rows[j].attempts \in Nat /\ MaxAttempts[j] \in Nat
      BY <1>1, PagesAssumption DEF RowTypes
    <2>3. RankOf(rows[j], j) \in Nat
      BY <2>2 DEF RankOf
    <2>4. RowSound(j)'
      BY <1>1 DEF RowSound
    <2>5. QED
      BY <2>1, <2>3, <2>4
  <1>3. QED
    BY <1>1, <1>2 DEF RowsRise

LEMMA JobMovesRise ==
  ASSUME Typed, JobMovesOn
  PROVE  RowsRise
  <1>1. PICK j \in Jobs : JobStarts(j) \/ JobPutBack(j) \/ JobEnds(j)
    BY DEF JobMovesOn
  <1>2. /\ rows \in [Jobs -> RowTypes] /\ rows[j] \in RowTypes
        /\ rows[j].attempts \in Nat /\ MaxAttempts[j] \in Nat
        /\ rows[j].attempts <= MaxAttempts[j]
    BY PagesAssumption DEF Typed, RowTypes, RowSound
  <1>3. CASE JobStarts(j)
    <2> DEFINE row == [status |-> "running", attempts |-> rows[j].attempts + 1,
                       failure |-> rows[j].failure, document |-> rows[j].document]
    <2>1. row \in RowTypes /\ row.status = "running" /\ row.attempts = rows[j].attempts + 1
      BY <1>2 DEF RowTypes
    <2>2. rows' = [rows EXCEPT ![j] = row] /\ rows[j].status = "queued"
      <3>1. rows' = [rows EXCEPT ![j].status = "running", ![j].attempts = @ + 1]
        BY <1>3 DEF JobStarts
      <3>2. rows' = [rows EXCEPT ![j] = row]
        BY <1>2, <3>1 DEF RowTypes
      <3>3. QED
        BY <1>3, <3>2 DEF JobStarts
    <2>3. row.attempts <= MaxAttempts[j]
      BY <1>2, <1>3, <2>1 DEF JobStarts
    <2>4. RankOf(rows[j], j) <= RankOf(row, j)
      BY <1>2, <2>1, <2>2 DEF RankOf
    <2>5. QED
      BY <2>1, <2>2, <2>3, <2>4, RowMoves
  <1>4. CASE JobPutBack(j)
    <2> DEFINE row == [rows[j] EXCEPT !.status = "queued"]
    <2>1. row \in RowTypes /\ row.status = "queued" /\ row.attempts = rows[j].attempts
      BY <1>2 DEF RowTypes
    <2>2. rows' = [rows EXCEPT ![j] = row] /\ rows[j].status = "running"
      BY <1>2, <1>4 DEF JobPutBack
    <2>3. RankOf(rows[j], j) <= RankOf(row, j)
      BY <1>2, <2>1, <2>2 DEF RankOf
    <2>4. QED
      BY <1>2, <2>1, <2>2, <2>3, RowMoves
  <1>5. CASE JobEnds(j)
    <2>1. rows[j].status = "running"
      BY <1>5 DEF JobEnds
    <2>2. ASSUME NEW d \in Ends[j] \cap Documents,
                 rows' = [rows EXCEPT ![j].status = "succeeded", ![j].document = d]
          PROVE  RowsRise
      <3> DEFINE row == [rows[j] EXCEPT !.status = "succeeded", !.document = d]
      <3>1. /\ row \in RowTypes /\ row.status = "succeeded" /\ row.document = d
            /\ row.attempts = rows[j].attempts
        BY <1>2 DEF RowTypes
      <3>2. rows' = [rows EXCEPT ![j] = row]
        BY <1>2, <2>2
      <3>3. RankOf(rows[j], j) <= RankOf(row, j)
        BY <1>2, <2>1, <3>1 DEF RankOf
      <3>4. QED
        BY <1>2, <2>1, <3>1, <3>2, <3>3, RowMoves
    <2>3. ASSUME NEW reason \in Ends[j] \ Documents,
                 rows' = [rows EXCEPT ![j].status = "failed", ![j].failure = reason]
          PROVE  RowsRise
      <3> DEFINE row == [rows[j] EXCEPT !.status = "failed", !.failure = reason]
      <3>1. /\ row \in RowTypes /\ row.status = "failed"
            /\ row.attempts = rows[j].attempts
        BY <1>2 DEF RowTypes
      <3>2. rows' = [rows EXCEPT ![j] = row]
        BY <1>2, <2>3
      <3>3. RankOf(rows[j], j) <= RankOf(row, j)
        BY <1>2, <2>1, <3>1 DEF RankOf
      <3>4. QED
        BY <1>2, <2>1, <3>1, <3>2, <3>3, RowMoves
    <2>4. QED
      BY <1>5, <2>2, <2>3 DEF JobEnds
  <1>6. QED
    BY <1>1, <1>3, <1>4, <1>5

(* What was so of a job is so of its past.                                 *)
LEMMA PastKept ==
  ASSUME Typed, RowsRise, NEW j \in Jobs, NEW job, Past(job, j)
  PROVE  Past(job, j)'
  <1>1. Rank(View(j)) \in Nat /\ Rank(View(j))' \in Nat
    <2>1. /\ rows[j].attempts \in Nat /\ rows'[j].attempts \in Nat
          /\ MaxAttempts[j] \in Nat
      BY PagesAssumption DEF Typed, RowsRise, RowTypes
    <2>2. RankOf(rows[j], j) \in Nat /\ RankOf(rows'[j], j) \in Nat
      BY <2>1 DEF RankOf
    <2>3. QED
      BY <2>2 DEF View, Rank, RankOf
  <1>2. Rank(job) \in Nat
    BY PagesAssumption DEF Past, JobViews, Rank
  <1>3. Rank(job) <= Rank(View(j))'
    BY <1>1, <1>2 DEF Past, RowsRise
  <1>4. QED
    BY <1>3 DEF Past, RowsRise

-----------------------------------------------------------------------------
(* Calls.                                                                  *)
LEMMA NewCall ==
  ASSUME NEW kind \in Kinds, NEW visit, NEW job
  PROVE  /\ IsCall(Call(kind, visit, job))
         /\ Call(kind, visit, job).kind = kind /\ Call(kind, visit, job).live
         /\ Call(kind, visit, job).visit = visit /\ Call(kind, visit, job).job = job
         /\ Call(kind, visit, job).answer = None
  BY DEF Call, IsCall

LEMMA AnsweredCall ==
  ASSUME NEW c, IsCall(c), NEW answer, NEW d, d = [c EXCEPT !.answer = answer]
  PROVE  /\ IsCall(d) /\ d.answer = answer
         /\ d.kind = c.kind /\ d.visit = c.visit /\ d.job = c.job /\ d.live = c.live
  BY DEF IsCall

LEMMA LeftCall ==
  ASSUME NEW c, IsCall(c), NEW d, d = [c EXCEPT !.live = FALSE]
  PROVE  IsCall(d) /\ d.kind = c.kind /\ ~d.live
  BY DEF IsCall

(* A call that waits through a step of others.                             *)
LEMMA CallKept ==
  ASSUME Typed, RowsRise, NEW c, CallSound(c),
         page'.at = page.at, page'.visit = page.visit,
         c.live /\ c.kind = "getJob" => page'.poll.job = page.poll.job,
         c.live /\ c.kind \in Posts => sending(page')
  PROVE  CallSound(c)'
  <1> SUFFICES ASSUME c.live
               PROVE  CallSound(c)'
    BY DEF CallSound
  <1>1. ASSUME c.kind \in {"getJob", "getDocument"}
        PROVE  page.at \in Jobs /\ c.job = page.at
    BY <1>1 DEF CallSound
  <1>2. ASSUME c.kind = "getDocument"
        PROVE  /\ rows'[page.at] = rows[page.at]
               /\ rows'[page.at].status = "succeeded"
    <2>1. page.at \in Jobs /\ rows[page.at].status = "succeeded"
      BY <1>2 DEF CallSound
    <2>2. QED
      BY <2>1 DEF RowsRise
  <1>3. ASSUME Good(c.answer)
        PROVE  Tells(c.kind, c.answer.body.content)'
    <2>1. Tells(c.kind, c.answer.body.content)
      BY <1>3 DEF CallSound
    <2>2. ASSUME c.kind = "getJob"
          PROVE  TellsJob(c.answer.body.content)'
      <3>1. page.at \in Jobs /\ TellsJob(c.answer.body.content)
        BY <1>1, <2>1, <2>2 DEF Tells
      <3>2. PICK j \in Jobs : j = page.at
        BY <3>1
      <3>3. Past(c.answer.body.content, j)'
        BY <3>1, <3>2, PastKept DEF TellsJob
      <3>4. page'.poll.job # None => Rank(page'.poll.job) <= Rank(c.answer.body.content)
        BY <2>2, <3>1 DEF TellsJob
      <3>5. QED
        BY <3>2, <3>3, <3>4 DEF TellsJob, Rank
    <2>3. c.kind = "getDocument" =>
            c.answer.body.content = rows'[page'.at].document
      BY <1>2, <2>1 DEF Tells
    <2>4. c.kind \in Posts => c.answer.body.content \in JobViews
      BY <2>1 DEF Tells
    <2>5. QED
      BY <2>2, <2>3, <2>4 DEF Tells
  <1>4. Good(c.answer)' <=> Good(c.answer)
    BY DEF Good, HasContent
  <1>5. QED
    BY <1>1, <1>2, <1>3, <1>4 DEF CallSound

LEMMA ShownKept ==
  ASSUME Typed, JobShown, SongShown, DelayShown, RowsRise,
         page'.at = page.at, page'.poll = page.poll, page'.loaded = page.loaded,
         page'.delay = page.delay
  PROVE  JobShown' /\ SongShown' /\ DelayShown'
  <1>1. JobShown'
    <2> SUFFICES ASSUME page.poll.job # None
                 PROVE  JobShown'
      BY DEF JobShown
    <2>1. page.at \in Jobs /\ Past(page.poll.job, page.at)
      BY DEF JobShown
    <2>2. PICK j, job : j \in Jobs /\ j = page.at /\ job = page.poll.job
      BY <2>1
    <2>3. Past(job, j)'
      BY <2>1, <2>2, PastKept
    <2>4. Past(page.poll.job, page.at)'
      BY <2>2, <2>3
    <2>5. QED
      BY <2>1, <2>4 DEF JobShown
  <1>2. SongShown'
    BY DEF SongShown, RowsRise
  <1>3. DelayShown'
    BY DEF DelayShown
  <1>4. QED
    BY <1>1, <1>2, <1>3

LEMMA JobMovesKeep ==
  ASSUME PagesInv, JobMovesOn
  PROVE  PagesInv'
  <1>1. Typed /\ RowsRise /\ page' = page /\ calls' = calls
    BY JobMovesRise DEF PagesInv, JobMovesOn
  <1>2. Typed'
    BY <1>1 DEF Typed, RowsRise
  <1>3. ASSUME NEW c \in calls
        PROVE  CallSound(c)'
    <2>1. CallSound(c)
      BY DEF PagesInv, CallsSound
    <2>2. c.live /\ c.kind \in Posts => sending(page')
      BY <1>1, <2>1 DEF CallSound
    <2>3. QED
      BY <1>1, <2>1, <2>2, CallKept
  <1>4. CallsSound'
    BY <1>1, <1>3 DEF CallsSound
  <1>5. Polling'
    BY <1>1 DEF PagesInv, Polling, Polls, Waits, Ended, Terminal
  <1>6. Posting'
    BY <1>1 DEF PagesInv, Posting
  <1>7. JobShown' /\ SongShown' /\ DelayShown'
    BY <1>1, ShownKept DEF PagesInv
  <1>8. QED
    BY <1>2, <1>4, <1>5, <1>6, <1>7 DEF PagesInv

(* An answer of the api, or in its place.                                  *)
LEMMA AnsweredKeeps ==
  ASSUME PagesInv, RowsRise, page' = page, NEW c \in calls, NEW answer,
         Answered(c, answer),
         c.live /\ Good(answer) => Tells(c.kind, answer.body.content)'
  PROVE  PagesInv'
  <1>1. PICK d : d = [c EXCEPT !.answer = answer]
    OBVIOUS
  <1>2. calls' = (calls \ {c}) \cup {d}
    BY <1>1 DEF Answered
  <1>3. /\ IsCall(c) /\ CallSound(c) /\ Typed
        /\ \A e \in calls : IsCall(e) /\ CallSound(e)
    BY DEF PagesInv, Typed, CallsSound
  <1>4. /\ IsCall(d) /\ d.answer = answer
        /\ d.kind = c.kind /\ d.visit = c.visit /\ d.job = c.job /\ d.live = c.live
    BY <1>1, <1>3, AnsweredCall
  <1>5. Typed'
    BY <1>2, <1>3, <1>4 DEF Typed, RowsRise
  <1>6. ASSUME NEW e \in calls
        PROVE  CallSound(e)'
    <2>1. CallSound(e)
      BY <1>3
    <2>2. e.live /\ e.kind \in Posts => sending(page')
      BY <2>1 DEF CallSound
    <2>3. QED
      BY <1>3, <2>1, <2>2, CallKept
  <1>7. CallSound(d)'
    <2> SUFFICES ASSUME d.live
                 PROVE  CallSound(d)'
      BY DEF CallSound
    <2>1. CallSound(c)'
      BY <1>6
    <2>2. Good(d.answer)' <=> Good(answer)
      BY <1>4 DEF Good, HasContent
    <2>3. Good(answer) => Tells(d.kind, d.answer.body.content)'
      BY <1>4
    <2>4. QED
      BY <1>4, <2>1, <2>2, <2>3 DEF CallSound
  <1>8. CallsSound'
    BY <1>2, <1>6, <1>7 DEF CallsSound
  <1>9. Polling'
    <2>1. Polls' = IF c \in Polls THEN (Polls \ {c}) \cup {d} ELSE Polls
      BY <1>2, <1>4 DEF Polls
    <2>2. Waits' <=> Waits
      BY DEF Waits, Ended, Terminal
    <2>3. d \in calls' /\ \A e \in calls : e # c => e \in calls'
      BY <1>2
    <2>4. CASE Polls = {}
      BY <2>1, <2>2, <2>4 DEF PagesInv, Polling
    <2>5. ASSUME NEW e \in calls, Polls = {e}
          PROVE  \E f \in calls' : Polls' = {f}
      BY <2>1, <2>3, <2>5
    <2>6. QED
      BY <2>1, <2>2, <2>4, <2>5 DEF PagesInv, Polling
  <1>10. Posting'
    BY <1>2, <1>4 DEF PagesInv, Posting
  <1>11. JobShown' /\ SongShown' /\ DelayShown'
    BY ShownKept DEF PagesInv
  <1>12. QED
    BY <1>5, <1>8, <1>9, <1>10, <1>11 DEF PagesInv

LEMMA Unread ==
  ASSUME NEW status
  PROVE  /\ ~Good(Unparsed(status))
         /\ \A reason : ~Good(Refusal(status, reason))
         /\ \A content : Good(Reply(status, content))
                           => Reply(status, content).body.content = content
  BY DEF Good, HasContent, Unparsed, Refusal, Reply

LEMMA LostKeeps ==
  ASSUME PagesInv, NEW c \in calls, Lost(c)
  PROVE  PagesInv'
  <1>1. /\ c.kind \in Kinds /\ Answered(c, Losses[c.kind])
        /\ page' = page /\ rows' = rows
    BY DEF PagesInv, Typed, IsCall, Lost
  <1>2. ~Good(Losses[c.kind])
    BY <1>1, CallsAssumption, Unread
  <1>3. RowsRise
    BY <1>1, RowsStay DEF PagesInv
  <1>4. QED
    BY <1>1, <1>2, <1>3, AnsweredKeeps

LEMMA ViewTyped ==
  ASSUME Typed, NEW j \in Jobs
  PROVE  View(j) \in JobViews /\ [View(j) EXCEPT !.status = "queued"] \in JobViews
  <1>1. rows[j] \in RowTypes
    BY DEF Typed
  <1>2. QED
    BY <1>1 DEF RowTypes, View, JobViews

LEMMA HandledKeeps ==
  ASSUME PagesInv, NEW c \in calls, Handled(c)
  PROVE  PagesInv'
  <1>1. /\ Typed /\ CallSound(c) /\ JobShown
        /\ c.kind \in Kinds /\ page' = page
    BY DEF PagesInv, CallsSound, Typed, IsCall, Handled
  <1>2. CASE c.kind = "getJob"
    <2>1. rows' = rows /\ c.live /\ page.at \in Jobs /\ c.job = page.at
      BY <1>1, <1>2 DEF Handled, CallSound, Posts
    <2>2. RowsRise
      BY <1>1, <2>1, RowsStay
    <2>3. CASE rows[c.job] = Absent
      <3>1. Answered(c, Refusal(404, "not_found"))
        BY <1>2, <2>3 DEF Handled, Posts
      <3>2. QED
        BY <1>1, <2>2, <3>1, Unread, AnsweredKeeps
    <2>4. CASE rows[c.job] # Absent
      <3>1. Answered(c, Reply(200, View(c.job)))
        BY <1>2, <2>4 DEF Handled, Posts
      <3>2. PICK j, view : j \in Jobs /\ j = page.at /\ view = View(j)
        BY <2>1
      <3>3. /\ view \in JobViews /\ view.id = j /\ view.status = rows[j].status
            /\ Rank(view) = Rank(View(j))
        BY <1>1, <3>2, ViewTyped, ViewFields
      <3>4. Rank(view) \in Nat
        BY <3>3, PagesAssumption DEF JobViews, Rank
      <3>5. Past(view, j)
        BY <3>3, <3>4 DEF Past
      <3>6. Past(view, j)'
        BY <1>1, <2>2, <3>2, <3>5, PastKept
      <3>7. page.poll.job # None => Rank(page.poll.job) <= Rank(view)
        BY <1>1, <3>2, <3>3 DEF JobShown, Past
      <3>8. Tells("getJob", view)'
        BY <1>1, <3>2, <3>6, <3>7 DEF Tells, TellsJob, Posts, Rank
      <3>9. Good(Reply(200, view)) => Tells(c.kind, Reply(200, view).body.content)'
        BY <1>2, <3>8, Unread
      <3>10. Answered(c, Reply(200, view))
        BY <2>1, <3>1, <3>2
      <3>11. QED
        BY <1>1, <2>2, <3>9, <3>10, AnsweredKeeps
    <2>5. QED
      BY <2>3, <2>4
  <1>3. CASE c.kind = "getDocument"
    <2>1. rows' = rows /\ c.live /\ page.at \in Jobs /\ c.job = page.at
      BY <1>1, <1>3 DEF Handled, CallSound, Posts
    <2>2. RowsRise
      BY <1>1, <2>1, RowsStay
    <2>3. Answered(c, Reply(200, rows[c.job].document))
      BY <1>3 DEF Handled, Posts
    <2>4. PICK document : document = rows[page.at].document
      OBVIOUS
    <2>5. Tells("getDocument", document)'
      BY <1>1, <2>1, <2>4 DEF Tells, Posts
    <2>6. Good(Reply(200, document)) => Tells(c.kind, Reply(200, document).body.content)'
      BY <1>3, <2>5, Unread
    <2>7. QED
      BY <1>1, <2>1, <2>2, <2>3, <2>4, <2>6, AnsweredKeeps
  <1>4. CASE c.kind = "getFeatures"
    <2>1. rows' = rows
      BY <1>4 DEF Handled, Posts
    <2>2. RowsRise
      BY <1>1, <2>1, RowsStay
    <2>3. PICK on : Answered(c, Reply(200, on))
      BY <1>4 DEF Handled, Posts
    <2>4. Tells(c.kind, Reply(200, on).body.content)'
      BY <1>4 DEF Tells, Posts
    <2>5. QED
      BY <1>1, <2>2, <2>3, <2>4, AnsweredKeeps
  <1>5. CASE c.kind \in Posts
    <2>1. \/ rows' = rows /\ \E reason \in Refusals : Answered(c, Refusal(422, reason))
          \/ LET j == Submitted[c.kind] IN
               IF rows[j] = Absent
               THEN /\ rows' = [rows EXCEPT ![j] = Queued]
                    /\ Answered(c, Reply(202, [View(j) EXCEPT !.status = "queued"]))
               ELSE /\ Answered(c, Reply(200, View(j)))
                    /\ UNCHANGED rows
      BY <1>5 DEF Handled, Posts
    <2>2. PICK j \in Jobs : j = Submitted[c.kind]
      BY <1>5, CallsAssumption
    <2>3. ASSUME NEW content \in JobViews, NEW status
          PROVE  Good(Reply(status, content)) =>
                   Tells(c.kind, Reply(status, content).body.content)'
      <3>1. Tells(c.kind, content)'
        BY <1>5 DEF Tells, Posts
      <3>2. QED
        BY <3>1, Unread
    <2>4. ASSUME rows' = rows, NEW reason \in Refusals, Answered(c, Refusal(422, reason))
          PROVE  PagesInv'
      <3>1. RowsRise
        BY <1>1, <2>4, RowsStay
      <3>2. QED
        BY <1>1, <2>4, <3>1, Unread, AnsweredKeeps
    <2>5. ASSUME rows' = rows, Answered(c, Reply(200, View(j)))
          PROVE  PagesInv'
      <3>1. RowsRise
        BY <1>1, <2>5, RowsStay
      <3>2. View(j) \in JobViews
        BY <1>1, ViewTyped
      <3>3. QED
        BY <1>1, <2>3, <2>5, <3>1, <3>2, AnsweredKeeps
    <2>6. ASSUME rows[j] = Absent, rows' = [rows EXCEPT ![j] = Queued],
                 Answered(c, Reply(202, [View(j) EXCEPT !.status = "queued"]))
          PROVE  PagesInv'
      <3>1. Queued \in RowTypes /\ Queued.status = "queued" /\ Queued.attempts = 0
        BY DEF Queued, Absent, RowTypes
      <3>2. RankOf(rows[j], j) <= RankOf(Queued, j)
        BY <2>6, <3>1 DEF RankOf, Absent
      <3>3. rows[j].status # "succeeded" /\ Queued.attempts <= MaxAttempts[j]
        BY <2>6, <3>1, PagesAssumption DEF Absent
      <3>4. RowsRise
        BY <1>1, <2>6, <3>1, <3>2, <3>3, RowMoves
      <3>5. [View(j) EXCEPT !.status = "queued"] \in JobViews
        BY <1>1, ViewTyped
      <3>6. QED
        BY <1>1, <2>3, <2>6, <3>4, <3>5, AnsweredKeeps
    <2>7. QED
      BY <2>1, <2>2, <2>4, <2>5, <2>6
  <1>6. QED
    BY <1>1, <1>2, <1>3, <1>4, <1>5 DEF Kinds

-----------------------------------------------------------------------------
(* The page's own steps.                                                   *)

(* The calls after such a step, of the page that stays.                    *)
LEMMA CallsAfter ==
  ASSUME PagesInv, rows' = rows, page'.at = page.at, page'.visit = page.visit,
         NEW rest \in SUBSET calls, NEW made,
         \A c \in rest : c.live /\ c.kind = "getJob" => page'.poll.job = page.poll.job,
         \A c \in rest : c.live /\ c.kind \in Posts => sending(page'),
         \A c \in made : IsCall(c) /\ CallSound(c)',
         calls' = rest \cup made
  PROVE  (\A c \in calls' : IsCall(c)) /\ CallsSound'
  <1>1. Typed /\ \A c \in calls : IsCall(c) /\ CallSound(c)
    BY DEF PagesInv, Typed, CallsSound
  <1>2. RowsRise
    BY <1>1, RowsStay
  <1>3. ASSUME NEW c \in rest
        PROVE  IsCall(c) /\ CallSound(c)'
    BY <1>1, <1>2, CallKept
  <1>4. QED
    BY <1>3 DEF CallsSound

LEMMA TypedAfter ==
  ASSUME PagesInv, rows' = rows, page' \in PageTypes, \A c \in calls' : IsCall(c)
  PROVE  Typed'
  BY DEF PagesInv, Typed, RowSound

(* One live call is heard: what it may bring.                              *)
LEMMA ContentSound ==
  ASSUME NEW answer, NEW good \in SUBSET (200..299), NEW got,
         answer # None, got = ContentOf(answer, good)
  PROVE  /\ got.ok \in BOOLEAN
         /\ got.ok => Good(answer) /\ got.value = answer.body.content
         /\ ~got.ok => got.reason \in Reasons
  BY DEF ContentOf, noAnswer, errorFrom, ApiError, Resolved, Good, Reasons, FailureReasons

LEMMA KnownJob ==
  ASSUME NEW job \in JobViews
  PROVE  /\ knownReasons(job) \in JobViews
         /\ knownReasons(job).id = job.id
         /\ knownReasons(job).status = job.status
         /\ Rank(knownReasons(job)) = Rank(job)
         /\ knownReasons(job).failure \in FailureReasons \cup {None}
  BY DEF knownReasons, JobViews, Rank, FailureReasons

LEMMA JobSound ==
  ASSUME NEW answer, NEW good \in SUBSET (200..299), NEW got,
         answer # None, got = JobOf(ContentOf(answer, good))
  PROVE  /\ got.ok \in BOOLEAN
         /\ got.ok => Good(answer) /\ got.value = knownReasons(answer.body.content)
         /\ ~got.ok => got.reason \in Reasons
  <1>1. PICK heard : heard = ContentOf(answer, good)
    OBVIOUS
  <1>2. /\ heard.ok \in BOOLEAN
        /\ heard.ok => Good(answer) /\ heard.value = answer.body.content
        /\ ~heard.ok => heard.reason \in Reasons
    BY <1>1, ContentSound
  <1>3. got = IF heard.ok THEN Resolved(knownReasons(heard.value)) ELSE heard
    BY <1>1 DEF JobOf
  <1>4. CASE heard.ok
    <2>1. got = [ok |-> TRUE, value |-> knownReasons(heard.value)]
      BY <1>3, <1>4 DEF Resolved
    <2>2. got.ok = TRUE /\ got.value = knownReasons(heard.value)
      BY <2>1
    <2>3. QED
      BY <1>2, <1>4, <2>2
  <1>5. CASE ~heard.ok
    BY <1>2, <1>3, <1>5
  <1>6. QED
    BY <1>4, <1>5

(* The answer of the poll, and what becomes of the page.                   *)
LEMMA PolledSound ==
  ASSUME PagesInv, NEW c \in calls, c.live, c.kind = "getJob", c.answer # None,
         NEW got, got = getJob(c.answer), NEW p, p = Polled(page, got)
  PROVE  /\ page.at \in Jobs /\ ~page.timer /\ Polls = {c}
         /\ ~Ended(page.poll)
         /\ p \in PageTypes /\ p.at = page.at /\ p.visit = page.visit
         /\ p.state = page.state /\ p.loaded = page.loaded
         /\ p.delay >= POLL_MS
         /\ ~p.poll.missing => (p.poll.reconnecting <=> p.delay > POLL_MS)
         /\ p.timer <=> ~Ended(p.poll)
         /\ p.poll.job # None =>
              /\ Past(p.poll.job, page.at)
              /\ p.poll.job.failure \in FailureReasons \cup {None}
              /\ page.poll.job # None => Rank(page.poll.job) <= Rank(p.poll.job)
         /\ got.ok /\ got.value.status = "succeeded" =>
              rows[page.at].status = "succeeded" /\ ~p.timer
  <1>1. /\ page.at \in Jobs /\ CallSound(c) /\ page \in PageTypes
        /\ JobShown /\ DelayShown
    BY DEF PagesInv, CallsSound, CallSound, Typed
  <1>2. ~page.timer /\ Polls = {c} /\ Waits
    <2>1. c \in Polls
      BY DEF Polls
    <2>2. QED
      BY <2>1 DEF PagesInv, Polling
  <1>3. /\ got.ok \in BOOLEAN
        /\ got.ok => Good(c.answer) /\ got.value = knownReasons(c.answer.body.content)
        /\ ~got.ok => got.reason \in Reasons
    BY JobSound DEF getJob, getJson
  <1>4. CASE got.ok
    <2>1. PICK content : content = c.answer.body.content
      OBVIOUS
    <2>2. TellsJob(content)
      BY <1>1, <1>3, <1>4, <2>1 DEF CallSound, Tells
    <2>3. PICK job : job = knownReasons(content)
      OBVIOUS
    <2>4. /\ job \in JobViews /\ job.id = page.at /\ job.status = content.status
          /\ Rank(job) = Rank(content) /\ job.failure \in FailureReasons \cup {None}
      BY <2>2, <2>3, KnownJob DEF TellsJob, Past
    <2>5. /\ Past(job, page.at)
          /\ page.poll.job # None => Rank(page.poll.job) <= Rank(job)
      BY <2>2, <2>4 DEF TellsJob, Past
    <2>6. p = [page EXCEPT !.poll = [Unknown EXCEPT !.job = job],
                           !.delay = POLL_MS, !.timer = ~Terminal(job)]
      BY <1>3, <1>4, <2>1, <2>3 DEF Polled
    <2>7. /\ p \in PageTypes /\ p.at = page.at /\ p.visit = page.visit
          /\ p.state = page.state /\ p.loaded = page.loaded
          /\ p.poll.job = job /\ p.poll.missing = FALSE /\ p.poll.reconnecting = FALSE
          /\ p.delay = POLL_MS /\ p.timer = ~Terminal(job)
      <3>1. PICK poll, timer, delay :
              /\ poll = [Unknown EXCEPT !.job = job] /\ timer = ~Terminal(job)
              /\ delay = POLL_MS
        OBVIOUS
      <3>6. timer \in BOOLEAN /\ delay \in Nat
        BY <3>1 DEF Terminal, POLL_MS
      <3>2. /\ poll \in [job : JobViews \cup {None}, missing : BOOLEAN, reconnecting : BOOLEAN]
            /\ poll.job = job /\ poll.missing = FALSE /\ poll.reconnecting = FALSE
        BY <2>4, <3>1 DEF Unknown
      <3>3. p = [page EXCEPT !.poll = poll, !.delay = delay, !.timer = timer]
        BY <2>6, <3>1
      <3>4. /\ p \in PageTypes /\ p.at = page.at /\ p.visit = page.visit
            /\ p.state = page.state /\ p.loaded = page.loaded
            /\ p.poll = poll /\ p.delay = delay /\ p.timer = timer
        BY <1>1, <3>2, <3>3, <3>6, ZenonT(40) DEF PageTypes
      <3>5. QED
        BY <3>1, <3>2, <3>4
    <2>8. job # None
      BY <2>4, CallsAssumption
    <2>9. p.timer <=> ~Ended(p.poll)
      BY <2>7, <2>8 DEF Ended
    <2>10. got.value.status = "succeeded" =>
             rows[page.at].status = "succeeded" /\ ~p.timer
      BY <1>3, <1>4, <2>1, <2>3, <2>5, <2>7 DEF Past, Terminal
    <2>11. QED
      BY <1>1, <1>2, <2>4, <2>5, <2>7, <2>9, <2>10 DEF Waits, POLL_MS
  <1>5. CASE ~got.ok /\ got.reason = "not_found"
    <2>1. p = [page EXCEPT !.poll = [Unknown EXCEPT !.missing = TRUE]]
      BY <1>5 DEF Polled
    <2>2. /\ p \in PageTypes /\ p.at = page.at /\ p.visit = page.visit
          /\ p.state = page.state /\ p.loaded = page.loaded
          /\ p.poll.job = None /\ p.poll.missing = TRUE
          /\ p.delay = page.delay /\ p.timer = page.timer
      BY <1>1, <2>1, ZenonT(40) DEF PageTypes, Unknown
    <2>3. QED
      BY <1>1, <1>2, <1>5, <2>2 DEF Waits, Ended, DelayShown
  <1>6. CASE ~got.ok /\ got.reason # "not_found"
    <2>1. p = [page EXCEPT !.poll.reconnecting = TRUE, !.delay = backoff(@),
                           !.timer = TRUE]
      BY <1>6 DEF Polled
    <2>2. backoff(page.delay) \in Nat /\ backoff(page.delay) > POLL_MS
      <3>1. page.delay \in Nat
        BY <1>1 DEF PageTypes
      <3>2. page.delay >= 1500
        BY <1>1 DEF DelayShown, POLL_MS
      <3>3. QED
        BY <3>1, <3>2 DEF backoff, POLL_MS, MAX_POLL_MS
    <2>3. /\ p \in PageTypes /\ p.at = page.at /\ p.visit = page.visit
          /\ p.state = page.state /\ p.loaded = page.loaded
          /\ p.poll.job = page.poll.job /\ p.poll.missing = page.poll.missing
          /\ p.poll.reconnecting = TRUE
          /\ p.delay = backoff(page.delay) /\ p.timer = TRUE
      <3>1. PICK poll, delay :
              /\ poll = [page.poll EXCEPT !.reconnecting = TRUE]
              /\ delay = backoff(page.delay)
        OBVIOUS
      <3>2. p = [page EXCEPT !.poll = poll, !.delay = delay, !.timer = TRUE]
        BY <1>1, <2>1, <3>1 DEF PageTypes
      <3>3. /\ poll \in [job : JobViews \cup {None}, missing : BOOLEAN, reconnecting : BOOLEAN]
            /\ poll.job = page.poll.job /\ poll.missing = page.poll.missing
            /\ poll.reconnecting = TRUE
        BY <1>1, <3>1 DEF PageTypes
      <3>4. QED
        BY <1>1, <2>2, <3>1, <3>2, <3>3, ZenonT(40) DEF PageTypes
    <2>4. ~Ended(p.poll)
      BY <1>2, <2>3 DEF Waits, Ended, Terminal
    <2>5. page.poll.job # None => Rank(page.poll.job) <= Rank(page.poll.job)
      <3>1. page.poll.job # None => Rank(page.poll.job) \in Nat
        BY <1>1, PagesAssumption DEF JobShown, Past, JobViews, Rank
      <3>2. QED
        BY <3>1
    <2>6. QED
      BY <1>1, <1>2, <1>6, <2>2, <2>3, <2>4, <2>5 DEF Waits, JobShown, POLL_MS
  <1>7. QED
    BY <1>3, <1>4, <1>5, <1>6

LEMMA HeardJobKeeps ==
  ASSUME PagesInv, NEW c \in calls, Heard(c), c.kind = "getJob"
  PROVE  PagesInv'
  <1>1. /\ c.live /\ c.answer # None /\ HeardJob(c) /\ rows' = rows
        /\ Typed /\ DelayShown /\ SongShown /\ CallSound(c) /\ Posting
        /\ page \in PageTypes
    BY DEF Heard, PagesInv, Typed, CallsSound
  <1>2. PICK got, p : got = getJob(c.answer) /\ p = Polled(page, got)
    OBVIOUS
  <1>3. /\ page.at \in Jobs /\ ~page.timer /\ Polls = {c}
        /\ ~Ended(page.poll)
        /\ p \in PageTypes /\ p.at = page.at /\ p.visit = page.visit
        /\ p.state = page.state /\ p.loaded = page.loaded
        /\ p.delay >= POLL_MS
        /\ ~p.poll.missing => (p.poll.reconnecting <=> p.delay > POLL_MS)
        /\ p.timer <=> ~Ended(p.poll)
        /\ p.poll.job # None =>
             /\ Past(p.poll.job, page.at)
             /\ p.poll.job.failure \in FailureReasons \cup {None}
             /\ page.poll.job # None => Rank(page.poll.job) <= Rank(p.poll.job)
        /\ got.ok /\ got.value.status = "succeeded" =>
             rows[page.at].status = "succeeded" /\ ~p.timer
    BY <1>1, <1>2, PolledSound
  <1>4. \A e \in calls \ {c} : e.live => e.kind # "getJob"
    BY <1>3 DEF Polls
  <1>5. ASSUME NEW e \in calls, e.live, e.kind \in Posts
        PROVE  sending(p)
    <2>1. CallSound(e)
      BY DEF PagesInv, CallsSound
    <2>2. QED
      BY <1>3, <1>5, <2>1 DEF CallSound, sending
  <1>6. ASSUME NEW q, q = p \/ q = [p EXCEPT !.loaded = "loading"],
               page' = q, NEW made, calls' = (calls \ {c}) \cup made,
               \A e \in made : /\ IsCall(e) /\ CallSound(e)'
                               /\ e.kind = "getDocument"
        PROVE  PagesInv'
    <2>1. /\ q \in PageTypes /\ q.at = page.at /\ q.visit = page.visit
          /\ q.state = page.state /\ q.loaded \in {p.loaded, "loading"}
          /\ q.poll = p.poll /\ q.delay = p.delay /\ q.timer = p.timer
      BY <1>3, <1>6 DEF PageTypes
    <2>2. \A e \in calls \ {c} : e.live /\ e.kind \in Posts => sending(page')
      BY <1>3, <1>5, <1>6, <2>1 DEF sending
    <2>3. (\A e \in calls' : IsCall(e)) /\ CallsSound'
      BY <1>1, <1>4, <1>6, <2>1, <2>2, CallsAfter
    <2>4. Typed'
      BY <1>1, <1>6, <2>1, <2>3, TypedAfter
    <2>5. Polling'
      <3>1. Polls' = {}
        BY <1>4, <1>6 DEF Polls
      <3>2. Waits' <=> page'.timer
        BY <1>3, <1>6, <2>1 DEF Waits, Ended, Terminal
      <3>3. QED
        BY <3>1, <3>2 DEF Polling
    <2>6. Posting'
      BY <1>1, <1>6 DEF Posting, Posts
    <2>7. JobShown'
      <3> SUFFICES ASSUME page'.poll.job # None
                   PROVE  JobShown'
        BY DEF JobShown
      <3>1. Past(page'.poll.job, page'.at)
        BY <1>3, <1>6, <2>1
      <3>3. QED
        BY <1>1, <1>3, <1>6, <2>1, <3>1 DEF JobShown, Past, Rank, View
    <2>8. SongShown'
      BY <1>1, <1>3, <1>6, <2>1 DEF SongShown
    <2>9. DelayShown'
      BY <1>3, <1>6, <2>1 DEF DelayShown
    <2>10. QED
      BY <2>3, <2>4, <2>5, <2>6, <2>7, <2>8, <2>9 DEF PagesInv
  <1>7. CASE got.ok /\ got.value.status = "succeeded"
    <2>1. /\ page' = [p EXCEPT !.loaded = "loading"]
          /\ calls' = (calls \ {c}) \cup {Call("getDocument", page.visit, page.at)}
      BY <1>1, <1>2, <1>3, <1>7 DEF HeardJob, LoadSong
    <2>2. PICK q, e : /\ q = [p EXCEPT !.loaded = "loading"]
                      /\ e = Call("getDocument", page.visit, page.at)
      OBVIOUS
    <2>3. q.at = page.at /\ q.visit = page.visit
      BY <1>3, <2>2 DEF PageTypes
    <2>4. /\ IsCall(e) /\ e.kind = "getDocument" /\ e.visit = page.visit
          /\ e.job = page.at /\ e.answer = None
      <3>1. "getDocument" \in Kinds
        BY DEF Kinds
      <3>2. QED
        BY <2>2, <3>1, NewCall
    <2>5. CallSound(e)'
      BY <1>1, <1>3, <1>7, <2>1, <2>2, <2>3, <2>4 DEF CallSound, Good, Posts
    <2>6. PICK made : made = {e}
      OBVIOUS
    <2>7. \A f \in made : IsCall(f) /\ CallSound(f)' /\ f.kind = "getDocument"
      BY <2>4, <2>5, <2>6
    <2>8. page' = q /\ calls' = (calls \ {c}) \cup made
      BY <2>1, <2>2, <2>6
    <2>9. QED
      BY <1>6, <2>2, <2>7, <2>8
  <1>8. CASE ~(got.ok /\ got.value.status = "succeeded")
    <2>1. PICK made : made = {}
      OBVIOUS
    <2>2. page' = p /\ calls' = (calls \ {c}) \cup made
      BY <1>1, <1>2, <1>8, <2>1 DEF HeardJob
    <2>3. \A f \in made : IsCall(f) /\ CallSound(f)' /\ f.kind = "getDocument"
      BY <2>1
    <2>4. QED
      BY <1>6, <2>2, <2>3
  <1>9. QED
    BY <1>7, <1>8

(* The steps that leave the poll and what it shows alone.                  *)
LEMMA PollingStays ==
  ASSUME PagesInv, page'.at = page.at, page'.poll = page.poll,
         page'.timer = page.timer, Polls' = Polls
  PROVE  Polling'
  <1>1. Waits' <=> Waits
    BY DEF Waits, Ended, Terminal
  <1>2. Polls' \subseteq calls'
    BY DEF Polls
  <1>3. ASSUME NEW c \in calls, Polls = {c}
        PROVE  c \in calls'
    BY <1>2, <1>3
  <1>4. QED
    BY <1>1, <1>3 DEF PagesInv, Polling

LEMMA PageStep ==
  ASSUME PagesInv, rows' = rows, page' \in PageTypes,
         page'.at = page.at, page'.visit = page.visit,
         page'.poll = page.poll, page'.delay = page.delay,
         NEW rest \in SUBSET calls, NEW made, calls' = rest \cup made,
         \A c \in rest : c.live /\ c.kind \in Posts => sending(page'),
         \A c \in made : IsCall(c) /\ CallSound(c)',
         Polling', Posting', SongShown'
  PROVE  PagesInv'
  <1>1. (\A c \in calls' : IsCall(c)) /\ CallsSound'
    BY CallsAfter
  <1>2. Typed'
    BY <1>1, TypedAfter
  <1>3. JobShown'
    <2> SUFFICES ASSUME page.poll.job # None
                 PROVE  JobShown'
      BY DEF JobShown
    <2>1. page.at \in Jobs /\ Past(page.poll.job, page.at)
      BY DEF PagesInv, JobShown
    <2>2. QED
      BY <2>1 DEF PagesInv, JobShown, Past, Rank, View
  <1>4. DelayShown'
    BY DEF PagesInv, DelayShown
  <1>5. QED
    BY <1>1, <1>2, <1>3, <1>4 DEF PagesInv

(* A call that has just been made is sound where the page may make it.     *)
LEMMA MadeSound ==
  ASSUME NEW kind \in Kinds, NEW c,
         c.kind = kind, c.live, c.visit = page'.visit, ~Good(c.answer),
         kind \in {"getJob", "getDocument"} => page'.at \in Jobs /\ c.job = page'.at,
         kind = "getDocument" => rows'[page'.at].status = "succeeded",
         kind \in Posts => page'.at = "upload" /\ sending(page')
  PROVE  CallSound(c)'
  <1>1. ~Good(c.answer)'
    BY DEF Good, HasContent
  <1>2. QED
    BY <1>1 DEF CallSound

LEMMA HeardDocumentKeeps ==
  ASSUME PagesInv, NEW c \in calls, Heard(c), c.kind = "getDocument"
  PROVE  PagesInv'
  <1>1. /\ c.live /\ c.answer # None /\ HeardDocument(c) /\ rows' = rows
        /\ CallSound(c) /\ Posting /\ page \in PageTypes
    BY DEF Heard, PagesInv, Typed, CallsSound
  <1>2. PICK got, loaded, rest, made :
          /\ got = getDocument(c.answer) /\ loaded = Song(got)
          /\ rest = calls \ {c} /\ made = {}
    OBVIOUS
  <1>3. page.at \in Jobs /\ rows[page.at].document \in Documents
    BY <1>1 DEF CallSound, PagesInv, Typed, RowSound
  <1>4. /\ loaded \in {"loading", "ready", "newer", "failed"}
        /\ loaded \in {"ready", "newer"} =>
             rows[page.at].document = (IF loaded = "ready" THEN "readable" ELSE "newer")
    <2>1. got.ok => Good(c.answer) /\ got.value = c.answer.body.content
      BY <1>1, <1>2, ContentSound DEF getDocument, getJson
    <2>2. got.ok => got.value = rows[page.at].document
      BY <1>1, <2>1 DEF CallSound, Tells
    <2>3. QED
      BY <1>2, <1>3, <2>2 DEF Song, canRead, Documents
  <1>5. page' = [page EXCEPT !.loaded = loaded] /\ calls' = rest \cup made
    BY <1>1, <1>2 DEF HeardDocument
  <1>6. /\ page' \in PageTypes /\ page'.at = page.at /\ page'.visit = page.visit
        /\ page'.poll = page.poll /\ page'.delay = page.delay
        /\ page'.timer = page.timer /\ page'.state = page.state
        /\ page'.loaded = loaded
    BY <1>1, <1>4, <1>5 DEF PageTypes
  <1>7. \A e \in rest : e.live /\ e.kind \in Posts => sending(page')
    BY <1>2, <1>6 DEF PagesInv, CallsSound, CallSound, sending
  <1>8. Polling'
    <2>1. Polls' = Polls
      BY <1>2, <1>5 DEF Polls
    <2>2. QED
      BY <1>6, <2>1, PollingStays
  <1>9. Posting'
    BY <1>1, <1>2, <1>5 DEF Posting
  <1>10. SongShown'
    BY <1>1, <1>3, <1>4, <1>6 DEF SongShown, CallSound
  <1>11. QED
    BY <1>1, <1>2, <1>5, <1>6, <1>7, <1>8, <1>9, <1>10, PageStep

LEMMA HeardFeaturesKeeps ==
  ASSUME PagesInv, NEW c \in calls, Heard(c), c.kind = "getFeatures"
  PROVE  PagesInv'
  <1>1. /\ c.live /\ HeardFeatures(c) /\ rows' = rows
        /\ Posting /\ SongShown /\ page \in PageTypes
    BY DEF Heard, PagesInv, Typed
  <1>2. PICK on \in BOOLEAN : page' = [page EXCEPT !.linksOn = on]
    BY <1>1 DEF HeardFeatures
  <1>3. PICK rest, made : rest = calls \ {c} /\ made = {}
    OBVIOUS
  <1>4. calls' = rest \cup made
    BY <1>1, <1>3 DEF HeardFeatures
  <1>5. /\ page' \in PageTypes /\ page'.at = page.at /\ page'.visit = page.visit
        /\ page'.poll = page.poll /\ page'.delay = page.delay
        /\ page'.timer = page.timer /\ page'.state = page.state
        /\ page'.loaded = page.loaded
    BY <1>1, <1>2 DEF PageTypes
  <1>6. \A e \in rest : e.live /\ e.kind \in Posts => sending(page')
    BY <1>3, <1>5 DEF PagesInv, CallsSound, CallSound, sending
  <1>7. Polling'
    <2>1. Polls' = Polls
      BY <1>3, <1>4 DEF Polls
    <2>2. QED
      BY <1>5, <2>1, PollingStays
  <1>8. Posting'
    BY <1>1, <1>3, <1>4 DEF Posting
  <1>9. SongShown'
    BY <1>1, <1>5 DEF SongShown
  <1>10. QED
    BY <1>1, <1>3, <1>4, <1>5, <1>6, <1>7, <1>8, <1>9, PageStep

(* Another page opens: what the last one asked is answered to no one.      *)
LEMMA FreshFields ==
  ASSUME NEW route \in Places, NEW visit \in Nat, NEW p, p = Fresh(route, visit)
  PROVE  /\ p \in PageTypes /\ p.at = route /\ p.visit = visit
         /\ p.poll.job = None /\ ~p.poll.missing /\ ~p.poll.reconnecting
         /\ p.delay = POLL_MS /\ ~p.timer /\ p.loaded = "loading"
  BY DEF Fresh, PageTypes, Unknown, Idle, POLL_MS, Places

LEMMA MountFields ==
  ASSUME NEW route \in Places, NEW visit
  PROVE  \/ /\ route \in Jobs
            /\ MountCalls(route, visit) = {Call("getJob", visit, route)}
         \/ /\ route \notin Jobs
            /\ MountCalls(route, visit) \subseteq {Call("getFeatures", visit, None)}
  BY PagesAssumption DEF MountCalls, Places

LEMMA GoToKeeps ==
  ASSUME PagesInv, rows' = rows, NEW route \in Places, NEW rest \in SUBSET calls,
         GoTo(route, rest)
  PROVE  PagesInv'
  <1>1. PICK p, visit, made :
          /\ visit = page.visit + 1 /\ p = Fresh(route, visit)
          /\ made = MountCalls(route, visit)
    OBVIOUS
  <1>2. visit \in Nat
    <2>1. page.visit \in Nat
      BY DEF PagesInv, Typed, PageTypes
    <2>2. visit = page.visit + 1
      BY <1>1
    <2>3. QED
      BY <2>1, <2>2
  <1>3. page' = p /\ calls' = Left(rest) \cup made
    BY <1>1 DEF GoTo, Mounted
  <1>4. /\ p \in PageTypes /\ p.at = route /\ p.visit = visit
        /\ p.poll.job = None /\ ~p.poll.missing /\ ~p.poll.reconnecting
        /\ p.delay = POLL_MS /\ ~p.timer /\ p.loaded = "loading"
    BY <1>1, <1>2, FreshFields
  <1>5. ASSUME NEW e \in Left(rest)
        PROVE  IsCall(e) /\ ~e.live
    <2>1. PICK c \in rest : e = [c EXCEPT !.live = FALSE]
      BY <1>5 DEF Left
    <2>2. IsCall(c)
      BY <2>1 DEF PagesInv, Typed
    <2>3. QED
      BY <2>1, <2>2, LeftCall
  <1>6. ASSUME NEW e \in made
        PROVE  /\ IsCall(e) /\ e.live /\ CallSound(e)' /\ e.kind \notin Posts
               /\ e.kind = "getJob" <=> route \in Jobs
    <2>1. PICK kind, job : /\ e = Call(kind, visit, job)
                           /\ \/ kind = "getJob" /\ route \in Jobs /\ job = route
                              \/ kind = "getFeatures" /\ route \notin Jobs
      BY <1>1, MountFields
    <2>2. kind \in Kinds
      BY <2>1 DEF Kinds
    <2>3. /\ IsCall(e) /\ e.kind = kind /\ e.live /\ e.visit = visit /\ e.job = job
          /\ e.answer = None
      BY <2>1, <2>2, NewCall
    <2>4. ~Good(e.answer)
      BY <2>3 DEF Good
    <2>5. CallSound(e)'
      BY <1>3, <1>4, <2>1, <2>2, <2>3, <2>4, MadeSound DEF Posts
    <2>6. QED
      BY <2>1, <2>3, <2>5 DEF Posts
  <1>7. CallsSound' /\ \A e \in calls' : IsCall(e)
    <2>1. \A e \in Left(rest) : CallSound(e)'
      BY <1>5 DEF CallSound
    <2>2. QED
      BY <1>3, <1>5, <1>6, <2>1 DEF CallsSound
  <1>8. Typed'
    BY <1>3, <1>4, <1>7, TypedAfter
  <1>9. Polling'
    <2>1. Waits' <=> route \in Jobs
      BY <1>3, <1>4 DEF Waits, Ended
    <2>2. ~page'.timer
      BY <1>3, <1>4
    <2>3. Polls' = IF route \in Jobs THEN made ELSE {}
      BY <1>3, <1>5, <1>6 DEF Polls
    <2>4. route \in Jobs => \E e \in calls' : made = {e}
      BY <1>1, <1>3, MountFields
    <2>5. QED
      BY <2>1, <2>2, <2>3, <2>4 DEF Polling
  <1>10. Posting'
    BY <1>3, <1>5, <1>6 DEF Posting
  <1>11. JobShown' /\ SongShown' /\ DelayShown'
    <2>1. page'.delay = POLL_MS /\ POLL_MS \in Nat
      BY <1>3, <1>4 DEF POLL_MS
    <2>2. QED
      BY <1>3, <1>4, <2>1 DEF JobShown, SongShown, DelayShown
  <1>12. QED
    BY <1>7, <1>8, <1>9, <1>10, <1>11 DEF PagesInv

(* A submission has settled: the page stays, or goes to the job's.         *)
LEMMA PostSettles ==
  ASSUME PagesInv, NEW c \in calls, Heard(c), c.kind \in Posts,
         NEW got, NEW detail \in BOOLEAN, HeardPost(c, got, detail),
         got.ok \in BOOLEAN,
         got.ok => Good(c.answer) /\ got.value = knownReasons(c.answer.body.content),
         ~got.ok => got.reason \in Reasons
  PROVE  /\ PagesInv'
         /\ page'.at # page.at => /\ page'.at = c.answer.body.content.id
                                 /\ Left(calls \ {c}) \subseteq calls'
  <1>1. /\ c.live /\ rows' = rows /\ CallSound(c)
        /\ Posting /\ SongShown /\ page \in PageTypes
    BY DEF Heard, PagesInv, Typed, CallsSound
  <1>3. PICK rest : rest = calls \ {c}
    OBVIOUS
  <1>4. CASE got.ok
    <2>1. PICK content : content = c.answer.body.content
      OBVIOUS
    <2>2. content \in JobViews
      BY <1>1, <1>4, <2>1 DEF CallSound, Tells
    <2>3. PICK route : route = got.value.id
      OBVIOUS
    <2>4. route \in Places
      BY <1>4, <2>1, <2>2, <2>3, KnownJob DEF JobViews, Places
    <2>5. GoTo(route, rest)
      BY <1>3, <1>4, <2>3 DEF HeardPost
    <2>6. page'.at = route /\ Left(rest) \subseteq calls'
      BY <2>5 DEF GoTo, Mounted, Fresh
    <2>7. route = content.id
      BY <1>4, <2>1, <2>2, <2>3, KnownJob
    <2>8. PagesInv'
      BY <1>1, <1>3, <2>4, <2>5, GoToKeeps
    <2>9. QED
      BY <1>3, <2>1, <2>6, <2>7, <2>8
  <1>5. CASE ~got.ok
    <2>1. PICK off \in BOOLEAN :
            off = (page.linksRefused \/ (/\ c.kind = "createJobFromUrl"
                                         /\ ~got.ok
                                         /\ got.reason = "links_disabled"))
      OBVIOUS
    <2>2. PICK state, hint :
            /\ state = Refused(got.reason, detail)
            /\ hint = IF off THEN None ELSE page.hint
      OBVIOUS
    <2>3. page' = [page EXCEPT !.state = state, !.linksRefused = off, !.hint = hint]
      BY <1>1, <1>5, <2>1, <2>2 DEF HeardPost, PageTypes
    <2>4. state \in [kind : {"idle", "sending", "checking", "refused"}, fraction : {0, 1},
                     reason : Reasons \cup {None}, detail : BOOLEAN]
      BY <1>5, <2>2 DEF Refused, Idle
    <2>5. /\ page' \in PageTypes /\ page'.at = page.at /\ page'.visit = page.visit
          /\ page'.poll = page.poll /\ page'.delay = page.delay
          /\ page'.timer = page.timer /\ page'.loaded = page.loaded
      BY <1>1, <2>2, <2>3, <2>4 DEF PageTypes
    <2>6. PICK made : made = {}
      OBVIOUS
    <2>7. calls' = rest \cup made
      BY <1>3, <1>5, <2>6 DEF HeardPost
    <2>8. \A e \in rest : ~(e.live /\ e.kind \in Posts)
      BY <1>1, <1>3 DEF Posting
    <2>9. Polling'
      <3>1. Polls' = Polls
        BY <1>3, <2>6, <2>7 DEF Polls, Posts
      <3>2. QED
        BY <2>5, <3>1, PollingStays
    <2>10. Posting'
      BY <2>6, <2>7, <2>8 DEF Posting
    <2>11. SongShown'
      BY <1>1, <2>5 DEF SongShown
    <2>12. PagesInv'
      BY <1>1, <1>3, <2>5, <2>6, <2>7, <2>8, <2>9, <2>10, <2>11, PageStep
    <2>13. QED
      BY <2>5, <2>12
  <1>6. QED
    BY <1>4, <1>5

LEMMA HeardPostKeeps ==
  ASSUME PagesInv, NEW c \in calls, Heard(c), c.kind \in Posts
  PROVE  /\ PagesInv'
         /\ page'.at # page.at => /\ page'.at = c.answer.body.content.id
                                 /\ Left(calls \ {c}) \subseteq calls'
  <1>1. c.answer # None
    BY DEF Heard
  <1>2. PICK got : got = JobOf(ContentOf(c.answer, {200, 202}))
    OBVIOUS
  <1>3. /\ got.ok \in BOOLEAN
        /\ got.ok => Good(c.answer) /\ got.value = knownReasons(c.answer.body.content)
        /\ ~got.ok => got.reason \in Reasons
    <2>1. {200, 202} \in SUBSET (200..299)
      OBVIOUS
    <2>2. QED
      BY <1>1, <1>2, <2>1, JobSound
  <1>4. CASE c.kind = "createJobFromUrl"
    <2>1. HeardLink(c)
      BY <1>4 DEF Heard, Posts
    <2>2. PICK detail : detail = (~got.ok /\ got.status # None)
      OBVIOUS
    <2>3. detail \in BOOLEAN
      BY <2>2
    <2>4. HeardPost(c, got, detail)
      BY <1>2, <2>1, <2>2 DEF HeardLink, createJobFromUrl
    <2>5. QED
      BY <1>3, <2>3, <2>4, PostSettles
  <1>5. CASE c.kind = "createJob"
    <2>1. HeardFile(c)
      BY <1>5 DEF Heard, Posts
    <2>2. CASE c.answer = TooLarge
      <3>1. HeardPost(c, TooLarge, FALSE)
        BY <2>1, <2>2 DEF HeardFile
      <3>2. TooLarge.ok = FALSE /\ TooLarge.reason \in Reasons
        BY DEF TooLarge, ApiError, Reasons
      <3>3. QED
        BY <3>1, <3>2, PostSettles
    <2>3. CASE c.answer # TooLarge
      <3>1. HeardPost(c, got, FALSE)
        BY <1>2, <2>1, <2>3 DEF HeardFile, createJob
      <3>2. QED
        BY <1>3, <3>1, PostSettles
    <2>4. QED
      BY <2>2, <2>3
  <1>6. QED
    BY <1>4, <1>5 DEF Posts

LEMMA TimerFiresKeeps ==
  ASSUME PagesInv, TimerFires
  PROVE  PagesInv'
  <1>1. /\ rows' = rows /\ page \in PageTypes /\ Posting /\ SongShown
        /\ page.timer
    BY DEF TimerFires, PagesInv, Typed
  <1>2. Waits /\ Polls = {}
    BY <1>1 DEF PagesInv, Polling
  <1>3. PICK call, made : call = Call("getJob", page.visit, page.at) /\ made = {call}
    OBVIOUS
  <1>4. page' = [page EXCEPT !.timer = FALSE] /\ calls' = calls \cup made
    BY <1>3 DEF TimerFires
  <1>5. /\ page' \in PageTypes /\ page'.at = page.at /\ page'.visit = page.visit
        /\ page'.poll = page.poll /\ page'.delay = page.delay
        /\ page'.state = page.state /\ page'.loaded = page.loaded /\ ~page'.timer
    BY <1>1, <1>4 DEF PageTypes
  <1>6. "getJob" \in Kinds
    BY DEF Kinds
  <1>7. /\ IsCall(call) /\ call.kind = "getJob" /\ call.live /\ call.visit = page.visit
        /\ call.job = page.at /\ call.answer = None
    BY <1>3, <1>6, NewCall
  <1>8. ~Good(call.answer)
    BY <1>7 DEF Good
  <1>9. CallSound(call)'
    BY <1>2, <1>5, <1>6, <1>7, <1>8, MadeSound DEF Waits, Posts
  <1>10. \A e \in calls : e.live /\ e.kind \in Posts => sending(page')
    BY <1>5 DEF PagesInv, CallsSound, CallSound, sending
  <1>11. Polling'
    <2>1. Polls' = {call} /\ call \in calls'
      BY <1>2, <1>3, <1>4, <1>7 DEF Polls
    <2>2. Waits'
      BY <1>2, <1>5 DEF Waits, Ended, Terminal
    <2>3. QED
      BY <1>5, <2>1, <2>2 DEF Polling
  <1>12. Posting'
    BY <1>1, <1>3, <1>4, <1>7 DEF Posting, Posts
  <1>13. SongShown'
    BY <1>1, <1>5 DEF SongShown
  <1>14. \A e \in made : IsCall(e) /\ CallSound(e)'
    BY <1>3, <1>7, <1>9
  <1>15. QED
    BY <1>1, <1>4, <1>5, <1>10, <1>11, <1>12, <1>13, <1>14, PageStep

LEMMA TriesAgainKeeps ==
  ASSUME PagesInv, TriesAgain
  PROVE  PagesInv'
  <1>1. /\ rows' = rows /\ page \in PageTypes /\ Posting /\ LoadSong(page, calls)
        /\ page.at \in Jobs /\ rows[page.at].status = "succeeded"
    BY DEF TriesAgain, PagesInv, Typed, JobShown, Past
  <1>2. PICK call, made : call = Call("getDocument", page.visit, page.at) /\ made = {call}
    OBVIOUS
  <1>3. page' = [page EXCEPT !.loaded = "loading"] /\ calls' = calls \cup made
    BY <1>1, <1>2 DEF LoadSong
  <1>4. /\ page' \in PageTypes /\ page'.at = page.at /\ page'.visit = page.visit
        /\ page'.poll = page.poll /\ page'.delay = page.delay
        /\ page'.timer = page.timer /\ page'.state = page.state
        /\ page'.loaded = "loading"
    BY <1>1, <1>3 DEF PageTypes
  <1>5. "getDocument" \in Kinds
    BY DEF Kinds
  <1>6. /\ IsCall(call) /\ call.kind = "getDocument" /\ call.live
        /\ call.visit = page.visit /\ call.job = page.at /\ call.answer = None
    BY <1>2, <1>5, NewCall
  <1>7. ~Good(call.answer)
    BY <1>6 DEF Good
  <1>8. CallSound(call)'
    BY <1>1, <1>4, <1>5, <1>6, <1>7, MadeSound DEF Posts
  <1>9. \A e \in calls : e.live /\ e.kind \in Posts => sending(page')
    BY <1>4 DEF PagesInv, CallsSound, CallSound, sending
  <1>10. Polling'
    <2>1. Polls' = Polls
      BY <1>2, <1>3, <1>6 DEF Polls
    <2>2. QED
      BY <1>4, <2>1, PollingStays
  <1>11. Posting'
    BY <1>1, <1>2, <1>3, <1>6 DEF Posting, Posts
  <1>12. SongShown'
    BY <1>4 DEF SongShown
  <1>13. \A e \in made : IsCall(e) /\ CallSound(e)'
    BY <1>2, <1>6, <1>8
  <1>14. QED
    BY <1>1, <1>3, <1>4, <1>9, <1>10, <1>11, <1>12, <1>13, PageStep

(* The form, with a request made from it, or none.                         *)
LEMMA FormKeeps ==
  ASSUME PagesInv, rows' = rows, page' \in PageTypes,
         page'.at = page.at, page'.visit = page.visit,
         page'.poll = page.poll, page'.delay = page.delay,
         page'.timer = page.timer, page'.loaded = page.loaded,
         NEW made, calls' = calls \cup made,
         \A c \in made : /\ IsCall(c) /\ c.kind \in Posts /\ c.visit = page.visit
                         /\ ~Good(c.answer) /\ page.at = "upload" /\ sending(page'),
         \A c, d \in made : c = d,
         made = {} \/ ~sending(page),
         sending(page) => sending(page')
  PROVE  PagesInv'
  <1>1. \A c \in calls : c.live /\ c.kind \in Posts => sending(page)
    BY DEF PagesInv, CallsSound, CallSound
  <1>2. ASSUME NEW c \in made
        PROVE  CallSound(c)'
    <2> SUFFICES ASSUME c.live
                 PROVE  CallSound(c)'
      BY DEF CallSound
    <2>1. c.kind \in Kinds /\ c.kind \notin {"getJob", "getDocument"}
      BY DEF Kinds, Posts
    <2>2. QED
      BY <2>1, MadeSound
  <1>3. Polling'
    <2>1. Polls' = Polls
      BY DEF Polls, Posts
    <2>2. QED
      BY <2>1, PollingStays
  <1>4. Posting'
    BY <1>1 DEF PagesInv, Posting
  <1>5. SongShown'
    BY DEF PagesInv, SongShown
  <1>6. QED
    BY <1>1, <1>2, <1>3, <1>4, <1>5, PageStep

LEMMA SendsKeeps ==
  ASSUME PagesInv, Sends
  PROVE  PagesInv'
  <1>1. rows' = rows /\ page \in PageTypes /\ page.at = "upload" /\ ~sending(page)
    BY DEF Sends, PagesInv, Typed
  <1>2. PICK call : call = Call("createJob", page.visit, None)
    OBVIOUS
  <1>3. PICK made :
          /\ calls' = calls \cup made
          /\ made = {call} \/ made = {[call EXCEPT !.answer = TooLarge]}
    <2>1. PICK large \in BOOLEAN :
            calls' = calls \cup {IF large THEN [call EXCEPT !.answer = TooLarge] ELSE call}
      BY <1>2 DEF Sends
    <2>2. PICK made : made = {IF large THEN [call EXCEPT !.answer = TooLarge] ELSE call}
      OBVIOUS
    <2>3. calls' = calls \cup made
      BY <2>1, <2>2
    <2>4. made = {call} \/ made = {[call EXCEPT !.answer = TooLarge]}
      BY <2>2
    <2>5. QED
      BY <2>3, <2>4
  <1>4. page' = [page EXCEPT !.state = [Idle EXCEPT !.kind = "sending"]]
    BY DEF Sends
  <1>5. PICK state : state = [Idle EXCEPT !.kind = "sending"]
    OBVIOUS
  <1>6. /\ state \in [kind : {"idle", "sending", "checking", "refused"}, fraction : {0, 1},
                      reason : Reasons \cup {None}, detail : BOOLEAN]
        /\ state.kind = "sending"
    BY <1>5 DEF Idle
  <1>7. /\ page' \in PageTypes /\ page'.at = page.at /\ page'.visit = page.visit
        /\ page'.poll = page.poll /\ page'.delay = page.delay
        /\ page'.timer = page.timer /\ page'.loaded = page.loaded
        /\ page'.state = state
    BY <1>1, <1>4, <1>5, <1>6 DEF PageTypes
  <1>8. "createJob" \in Kinds /\ "createJob" \in Posts
    BY DEF Kinds, Posts
  <1>9. /\ IsCall(call) /\ call.kind = "createJob" /\ call.visit = page.visit
        /\ call.answer = None
    BY <1>2, <1>8, NewCall
  <1>10. ASSUME NEW c \in made
         PROVE  /\ IsCall(c) /\ c.kind \in Posts /\ c.visit = page.visit
                /\ ~Good(c.answer)
    <2>1. CASE c = call
      BY <1>8, <1>9, <2>1 DEF Good
    <2>2. CASE c = [call EXCEPT !.answer = TooLarge]
      <3>1. /\ IsCall(c) /\ c.answer = TooLarge
            /\ c.kind = call.kind /\ c.visit = call.visit
        BY <1>9, <2>2, AnsweredCall
      <3>2. ~Good(TooLarge)
        BY DEF Good, TooLarge, ApiError
      <3>3. QED
        BY <1>8, <1>9, <3>1, <3>2
    <2>3. QED
      BY <1>3, <2>1, <2>2
  <1>11. sending(page')
    BY <1>6, <1>7 DEF sending
  <1>12. \A c, d \in made : c = d
    BY <1>3
  <1>13. QED
    BY <1>1, <1>3, <1>7, <1>10, <1>11, <1>12, FormKeeps

LEMMA ProgressesKeeps ==
  ASSUME PagesInv, Progresses
  PROVE  PagesInv'
  <1>1. rows' = rows /\ page \in PageTypes /\ calls' = calls
    BY DEF Progresses, PagesInv, Typed
  <1>2. page' = [page EXCEPT !.state.kind = "sending", !.state.fraction = 1]
    BY DEF Progresses
  <1>3. PICK state : state = [page.state EXCEPT !.kind = "sending", !.fraction = 1]
    OBVIOUS
  <1>4. page' = [page EXCEPT !.state = state]
    BY <1>1, <1>2, <1>3 DEF PageTypes
  <1>5. /\ state \in [kind : {"idle", "sending", "checking", "refused"}, fraction : {0, 1},
                      reason : Reasons \cup {None}, detail : BOOLEAN]
        /\ state.kind = "sending"
    BY <1>1, <1>3 DEF PageTypes
  <1>6. /\ page' \in PageTypes /\ page'.at = page.at /\ page'.visit = page.visit
        /\ page'.poll = page.poll /\ page'.delay = page.delay
        /\ page'.timer = page.timer /\ page'.loaded = page.loaded
        /\ page'.state = state
    BY <1>1, <1>4, <1>5 DEF PageTypes
  <1>7. PICK made : made = {}
    OBVIOUS
  <1>8. calls' = calls \cup made /\ sending(page')
    BY <1>1, <1>5, <1>6, <1>7 DEF sending
  <1>9. QED
    BY <1>1, <1>6, <1>7, <1>8, FormKeeps

LEMMA TypesKeeps ==
  ASSUME PagesInv, Types
  PROVE  PagesInv'
  <1>1. /\ rows' = rows /\ page \in PageTypes /\ calls' = calls
        /\ page' = [page EXCEPT !.hint = None]
    BY DEF Types, PagesInv, Typed
  <1>2. /\ page' \in PageTypes /\ page'.at = page.at /\ page'.visit = page.visit
        /\ page'.poll = page.poll /\ page'.delay = page.delay
        /\ page'.timer = page.timer /\ page'.loaded = page.loaded
        /\ page'.state = page.state
    BY <1>1 DEF PageTypes
  <1>3. PICK made : made = {}
    OBVIOUS
  <1>4. calls' = calls \cup made /\ (sending(page) => sending(page'))
    BY <1>1, <1>2, <1>3 DEF sending
  <1>5. QED
    BY <1>1, <1>2, <1>3, <1>4, FormKeeps

LEMMA SubmitsKeeps ==
  ASSUME PagesInv, Submits
  PROVE  PagesInv'
  <1>1. rows' = rows /\ page \in PageTypes /\ page.at = "upload" /\ ~sending(page)
    BY SMTT(40) DEF Submits, LinkFormOpen, PagesInv, Typed
  <1>2. PICK text \in Texts :
          LET hint == linkHint(text)
              hinted == [page EXCEPT !.hint = hint]
          IN  IF hint = None
              THEN /\ page' = [hinted EXCEPT !.state = [Idle EXCEPT !.kind = "checking"]]
                   /\ calls' = calls \cup {Call("createJobFromUrl", page.visit, None)}
              ELSE /\ page' = [hinted EXCEPT !.state = Idle]
                   /\ UNCHANGED calls
    BY DEF Submits
  <1>3. PICK hint : hint = linkHint(text)
    OBVIOUS
  <1>4. hint \in {None, "Paste a link first.", "That doesn't look like a link."}
    BY <1>3 DEF linkHint
  <1>5. ASSUME NEW state, NEW made,
               page' = [[page EXCEPT !.hint = hint] EXCEPT !.state = state],
               calls' = calls \cup made,
               state \in [kind : {"idle", "sending", "checking", "refused"},
                         fraction : {0, 1}, reason : Reasons \cup {None},
                         detail : BOOLEAN],
               \A c \in made : /\ c = Call("createJobFromUrl", page.visit, None)
                               /\ state.kind = "checking"
        PROVE  PagesInv'
    <2>1. /\ page' \in PageTypes /\ page'.at = page.at /\ page'.visit = page.visit
          /\ page'.poll = page.poll /\ page'.delay = page.delay
          /\ page'.timer = page.timer /\ page'.loaded = page.loaded
          /\ page'.state = state
      BY <1>1, <1>4, <1>5 DEF PageTypes
    <2>2. "createJobFromUrl" \in Kinds /\ "createJobFromUrl" \in Posts
      BY DEF Kinds, Posts
    <2>3. ASSUME NEW c \in made
          PROVE  /\ IsCall(c) /\ c.kind \in Posts /\ c.visit = page.visit
                 /\ ~Good(c.answer) /\ sending(page')
      <3>1. /\ IsCall(c) /\ c.kind = "createJobFromUrl" /\ c.visit = page.visit
            /\ c.answer = None
        BY <1>5, <2>2, NewCall
      <3>2. QED
        BY <1>5, <2>1, <2>2, <3>1 DEF Good, sending
    <2>4. \A c, d \in made : c = d
      BY <1>5
    <2>5. QED
      BY <1>1, <1>5, <2>1, <2>3, <2>4, FormKeeps
  <1>6. CASE hint = None
    <2>1. PICK state, made :
            /\ state = [Idle EXCEPT !.kind = "checking"]
            /\ made = {Call("createJobFromUrl", page.visit, None)}
      OBVIOUS
    <2>2. /\ state \in [kind : {"idle", "sending", "checking", "refused"},
                        fraction : {0, 1}, reason : Reasons \cup {None},
                        detail : BOOLEAN]
          /\ state.kind = "checking"
      BY <2>1 DEF Idle
    <2>3. /\ page' = [[page EXCEPT !.hint = hint] EXCEPT !.state = state]
          /\ calls' = calls \cup made
      BY <1>2, <1>3, <1>6, <2>1
    <2>4. \A c \in made : /\ c = Call("createJobFromUrl", page.visit, None)
                         /\ state.kind = "checking"
      BY <2>1, <2>2
    <2>5. QED
      BY <1>5, <2>2, <2>3, <2>4
  <1>7. CASE hint # None
    <2>1. PICK state, made : state = Idle /\ made = {}
      OBVIOUS
    <2>2. state \in [kind : {"idle", "sending", "checking", "refused"},
                     fraction : {0, 1}, reason : Reasons \cup {None},
                     detail : BOOLEAN]
      BY <2>1 DEF Idle
    <2>3. /\ page' = [[page EXCEPT !.hint = hint] EXCEPT !.state = state]
          /\ calls' = calls \cup made
      BY <1>2, <1>3, <1>7, <2>1
    <2>4. \A c \in made : /\ c = Call("createJobFromUrl", page.visit, None)
                         /\ state.kind = "checking"
      BY <2>1
    <2>5. QED
      BY <1>5, <2>2, <2>3, <2>4
  <1>8. QED
    BY <1>6, <1>7

LEMMA IgnoredKeeps ==
  ASSUME PagesInv, Ignored
  PROVE  PagesInv'
  <1>1. /\ rows' = rows /\ page' = page /\ page \in PageTypes
        /\ calls' = {c \in calls : c.live}
        /\ Posting /\ SongShown /\ CallsSound
    BY DEF Ignored, PagesInv, Typed
  <1>2. PICK rest, made : rest = calls' /\ made = {}
    OBVIOUS
  <1>3. rest \in SUBSET calls /\ calls' = rest \cup made
    BY <1>1, <1>2
  <1>4. Polling'
    <2>1. Polls' = Polls
      BY <1>1 DEF Polls
    <2>2. QED
      BY <1>1, <2>1, PollingStays
  <1>5. Posting' /\ SongShown'
    BY <1>1 DEF Posting, SongShown
  <1>6. \A c \in rest : c.live /\ c.kind \in Posts => sending(page')
    BY <1>1, <1>3 DEF CallsSound, CallSound
  <1>7. QED
    BY <1>1, <1>2, <1>3, <1>4, <1>5, <1>6, PageStep

LEMMA NavigatesKeeps ==
  ASSUME PagesInv, Navigates
  PROVE  PagesInv'
  <1>1. rows' = rows
    BY DEF Navigates
  <1>2. PICK route \in Places : GoTo(route, calls)
    BY DEF Navigates, Places
  <1>3. QED
    BY <1>1, <1>2, GoToKeeps

-----------------------------------------------------------------------------
LEMMA InitInv == Init => PagesInv
  <1> SUFFICES ASSUME Init
               PROVE  PagesInv
    OBVIOUS
  <1>1. PICK route \in Places : page = Fresh(route, 1) /\ calls = MountCalls(route, 1)
    BY DEF Init, Places
  <1>2. /\ page \in PageTypes /\ page.at = route /\ page.visit = 1
        /\ page.poll.job = None /\ ~page.poll.missing /\ ~page.poll.reconnecting
        /\ page.delay = POLL_MS /\ ~page.timer /\ page.loaded = "loading"
    BY <1>1, FreshFields
  <1>3. /\ rows \in [Jobs -> RowTypes]
        /\ \A j \in Jobs : rows[j].attempts = 0 /\ rows[j].status # "succeeded"
    <2>1. Absent \in RowTypes /\ Absent.attempts = 0 /\ Absent.status # "succeeded"
      BY DEF Absent, RowTypes
    <2>2. Queued \in RowTypes /\ Queued.attempts = 0 /\ Queued.status # "succeeded"
      BY DEF Queued, Absent, RowTypes
    <2>3. QED
      BY <2>1, <2>2 DEF Init
  <1>4. ASSUME NEW e \in calls
        PROVE  /\ IsCall(e) /\ e.live /\ CallSound(e) /\ e.kind \notin Posts
               /\ e.kind = "getJob" <=> route \in Jobs
    <2>1. PICK kind, job : /\ e = Call(kind, 1, job)
                           /\ \/ kind = "getJob" /\ route \in Jobs /\ job = route
                              \/ kind = "getFeatures" /\ route \notin Jobs
      BY <1>1, MountFields
    <2>2. kind \in Kinds
      BY <2>1 DEF Kinds
    <2>3. /\ IsCall(e) /\ e.kind = kind /\ e.live /\ e.visit = 1 /\ e.job = job
          /\ e.answer = None
      BY <2>1, <2>2, NewCall
    <2>4. CallSound(e)
      BY <1>2, <2>1, <2>3 DEF CallSound, Good, Posts
    <2>5. QED
      BY <2>1, <2>3, <2>4 DEF Posts
  <1>5. Typed
    BY <1>2, <1>3, <1>4, PagesAssumption DEF Typed, RowSound
  <1>6. Polling
    <2>1. Waits <=> route \in Jobs
      BY <1>2 DEF Waits, Ended
    <2>2. Polls = IF route \in Jobs THEN calls ELSE {}
      BY <1>4 DEF Polls
    <2>3. route \in Jobs => \E e \in calls : calls = {e}
      BY <1>1, MountFields
    <2>4. QED
      BY <1>2, <2>1, <2>2, <2>3 DEF Polling
  <1>7. Posting /\ CallsSound
    BY <1>4 DEF Posting, CallsSound
  <1>8. JobShown /\ SongShown
    BY <1>2 DEF JobShown, SongShown
  <1>9. DelayShown
    BY <1>2 DEF DelayShown, POLL_MS
  <1>10. QED
    BY <1>5, <1>6, <1>7, <1>8, <1>9 DEF PagesInv

LEMMA HeardKeeps ==
  ASSUME PagesInv, NEW c \in calls, Heard(c)
  PROVE  PagesInv'
  <1>1. c.kind \in Kinds
    BY DEF PagesInv, Typed, IsCall
  <1>2. QED
    BY <1>1, HeardJobKeeps, HeardDocumentKeeps, HeardFeaturesKeeps, HeardPostKeeps
       DEF Kinds

LEMMA NextKeeps == PagesInv /\ [Next]_vars => PagesInv'
  <1> SUFFICES ASSUME PagesInv, [Next]_vars
               PROVE  PagesInv'
    OBVIOUS
  <1>1. CASE JobMovesOn
    BY <1>1, JobMovesKeep
  <1>2. ASSUME NEW c \in calls, Handled(c)
        PROVE  PagesInv'
    BY <1>2, HandledKeeps
  <1>3. ASSUME NEW c \in calls, Lost(c)
        PROVE  PagesInv'
    BY <1>3, LostKeeps
  <1>4. ASSUME NEW c \in calls, Heard(c)
        PROVE  PagesInv'
    BY <1>4, HeardKeeps
  <1>5. CASE Ignored
    BY <1>5, IgnoredKeeps
  <1>6. CASE TimerFires
    BY <1>6, TimerFiresKeeps
  <1>7. CASE Navigates
    BY <1>7, NavigatesKeeps
  <1>8. CASE Sends
    BY <1>8, SendsKeeps
  <1>9. CASE Progresses
    BY <1>9, ProgressesKeeps
  <1>10. CASE Types
    BY <1>10, TypesKeeps
  <1>11. CASE Submits
    BY <1>11, SubmitsKeeps
  <1>12. CASE TriesAgain
    BY <1>12, TriesAgainKeeps
  <1>13. CASE UNCHANGED vars
    <2>1. rows' = rows /\ page' = page /\ calls' = calls
      BY <1>13 DEF vars
    <2>2. QED
      BY <2>1, ZenonT(40) DEF PagesInv, Typed, RowSound, CallsSound, CallSound, Good, HasContent,
                  Tells, TellsJob, Past, Rank, View, Polling, Polls, Waits, Ended,
                  Terminal, Posting, JobShown, SongShown, DelayShown, sending, IsCall
  <1>14. QED
    BY <1>1, <1>2, <1>3, <1>4, <1>5, <1>6, <1>7, <1>8, <1>9, <1>10, <1>11, <1>12,
       <1>13 DEF Next

LEMMA AlwaysSound == Spec => []PagesInv
  BY InitInv, NextKeeps, PTL DEF Spec

-----------------------------------------------------------------------------
(* A song page shows the job of its address and nothing the api had not    *)
(* said of it; the tab it plays is the one that is stored, and a failure   *)
(* has a text (SongPage, useJob, useSong, messages.ts).                    *)
THEOREM ShowsOwnJob == Spec => []ShowsItsJob
  <1>1. PagesInv => ShowsItsJob
    <2> SUFFICES ASSUME PagesInv
                 PROVE  ShowsItsJob
      OBVIOUS
    <2>1. page.state.reason \in Reasons \cup {None}
      BY DEF PagesInv, Typed, PageTypes
    <2>2. QED
      BY <2>1 DEF PagesInv, JobShown, Past, SongShown, ShowsItsJob
  <1>2. QED
    BY <1>1, AlwaysSound, PTL

(* One poll or one timer, never two and never none, until the job of the   *)
(* page has ended; what a left page asked is cancelled (useJob).           *)
THEOREM OnePoll == Spec => []PollGoesOn
  <1>1. PagesInv => PollGoesOn
    <2> SUFFICES ASSUME PagesInv
                 PROVE  PollGoesOn
      OBVIOUS
    <2>1. Cardinality(Polls) + (IF page.timer THEN 1 ELSE 0) = IF Waits THEN 1 ELSE 0
      <3>1. Polling
        BY DEF PagesInv
      <3>2. ASSUME Polls = {}
            PROVE  Cardinality(Polls) = 0
        BY <3>2, FS_EmptySet
      <3>3. ASSUME NEW c, Polls = {c}
            PROVE  Cardinality(Polls) = 1
        BY <3>3, FS_Singleton
      <3>4. CASE Waits
        <4>1. \/ page.timer /\ Cardinality(Polls) = 0
              \/ ~page.timer /\ Cardinality(Polls) = 1
          BY <3>1, <3>2, <3>3, <3>4 DEF Polling
        <4>2. QED
          BY <3>4, <4>1
      <3>5. CASE ~Waits
        <4>1. ~page.timer /\ Cardinality(Polls) = 0
          BY <3>1, <3>2, <3>5 DEF Polling
        <4>2. QED
          BY <3>5, <4>1
      <3>6. QED
        BY <3>4, <3>5
    <2>2. \A c \in calls : c.live => c.visit = page.visit
      BY DEF PagesInv, CallsSound, CallSound
    <2>3. QED
      BY <2>1, <2>2 DEF PagesInv, DelayShown, PollGoesOn, Polls, Waits
  <1>2. QED
    BY <1>1, AlwaysSound, PTL

-----------------------------------------------------------------------------
(* What a step may not do.                                                 *)
NoOlder ==
  page'.visit = page.visit /\ page.poll.job # None /\ page'.poll.job # None =>
    Rank(page'.poll.job) >= Rank(page.poll.job)

LEMMA SameJobNoOlder ==
  ASSUME PagesInv, page'.poll.job = page.poll.job
  PROVE  NoOlder
  <1>1. page.poll.job # None => Rank(page.poll.job) \in Nat
    BY PagesAssumption DEF PagesInv, JobShown, Past, JobViews, Rank
  <1>2. QED
    BY <1>1 DEF NoOlder

LEMMA GoToLeaves ==
  ASSUME PagesInv, NEW route, NEW rest, GoTo(route, rest)
  PROVE  NoOlder
  <1>1. page.visit \in Nat
    BY DEF PagesInv, Typed, PageTypes
  <1>2. page'.visit = page.visit + 1
    BY DEF GoTo, Mounted, Fresh
  <1>3. QED
    BY <1>1, <1>2 DEF NoOlder

LEMMA HeardNoOlder ==
  ASSUME PagesInv, NEW c \in calls, Heard(c)
  PROVE  NoOlder
  <1>1. c.live /\ c.answer # None /\ c.kind \in Kinds /\ page \in PageTypes
    BY DEF Heard, PagesInv, Typed, IsCall
  <1>2. CASE c.kind = "getJob"
    <2>1. PICK got, p : got = getJob(c.answer) /\ p = Polled(page, got)
      OBVIOUS
    <2>2. /\ p \in PageTypes
          /\ p.poll.job # None /\ page.poll.job # None =>
               Rank(page.poll.job) <= Rank(p.poll.job)
          /\ p.poll.job # None => p.poll.job \in JobViews
      BY <1>1, <1>2, <2>1, PolledSound DEF Past
    <2>3. page' = p \/ page' = [p EXCEPT !.loaded = "loading"]
      BY <1>2, <2>1 DEF Heard, HeardJob, LoadSong
    <2>4. page'.poll = p.poll
      BY <2>2, <2>3 DEF PageTypes
    <2>5. /\ page.poll.job # None => Rank(page.poll.job) \in Nat
          /\ p.poll.job # None => Rank(p.poll.job) \in Nat
      BY <2>2, PagesAssumption DEF PagesInv, JobShown, Past, JobViews, Rank
    <2>6. QED
      BY <2>2, <2>4, <2>5 DEF NoOlder
  <1>3. CASE c.kind = "getDocument"
    <2>1. page'.poll = page.poll
      BY <1>1, <1>3 DEF Heard, HeardDocument, PageTypes
    <2>2. QED
      BY <2>1, SameJobNoOlder
  <1>4. CASE c.kind = "getFeatures"
    <2>1. page'.poll = page.poll
      BY <1>1, <1>4 DEF Heard, HeardFeatures, PageTypes
    <2>2. QED
      BY <2>1, SameJobNoOlder
  <1>5. CASE c.kind \in Posts
    <2>1. ASSUME NEW got, NEW detail, HeardPost(c, got, detail)
          PROVE  NoOlder
      <3>1. CASE got.ok
        <4>1. GoTo(got.value.id, calls \ {c})
          BY <2>1, <3>1 DEF HeardPost
        <4>2. QED
          BY <4>1, GoToLeaves
      <3>2. CASE ~got.ok
        <4>1. page'.poll = page.poll
          BY <1>1, <2>1, <3>2 DEF HeardPost, PageTypes
        <4>2. QED
          BY <4>1, SameJobNoOlder
      <3>3. QED
        BY <3>1, <3>2
    <2>2. HeardFile(c) \/ HeardLink(c)
      BY <1>5 DEF Heard, Posts
    <2>3. CASE HeardLink(c)
      <3>1. PICK got, detail : HeardPost(c, got, detail)
        BY <2>3 DEF HeardLink
      <3>2. QED
        BY <2>1, <3>1
    <2>4. CASE HeardFile(c)
      <3>1. PICK got, detail : HeardPost(c, got, detail)
        BY <2>4 DEF HeardFile
      <3>2. QED
        BY <2>1, <3>1
    <2>5. QED
      BY <2>2, <2>3, <2>4
  <1>6. QED
    BY <1>1, <1>2, <1>3, <1>4, <1>5 DEF Kinds

LEMMA StepNoOlder == PagesInv /\ [Next]_vars => NoOlder
  <1> SUFFICES ASSUME PagesInv, [Next]_vars
               PROVE  NoOlder
    OBVIOUS
  <1>1. page \in PageTypes
    BY DEF PagesInv, Typed
  <1>2. ASSUME page'.poll = page.poll
        PROVE  NoOlder
    BY <1>2, SameJobNoOlder
  <1>3. CASE UNCHANGED page
    BY <1>2, <1>3
  <1>4. ASSUME NEW c \in calls, Heard(c)
        PROVE  NoOlder
    BY <1>4, HeardNoOlder
  <1>5. CASE TimerFires
    BY <1>1, <1>2, <1>5 DEF TimerFires, PageTypes
  <1>6. CASE Navigates
    BY <1>6, GoToLeaves DEF Navigates
  <1>7. CASE Sends
    BY <1>1, <1>2, <1>7 DEF Sends, PageTypes
  <1>8. CASE Progresses
    BY <1>1, <1>2, <1>8 DEF Progresses, PageTypes
  <1>9. CASE Types
    BY <1>1, <1>2, <1>9 DEF Types, PageTypes
  <1>10. CASE Submits
    <2>1. PICK hint, state :
            page' = [[page EXCEPT !.hint = hint] EXCEPT !.state = state]
      BY <1>10 DEF Submits
    <2>2. page'.poll = page.poll
      BY <1>1, <2>1 DEF PageTypes
    <2>3. QED
      BY <1>2, <2>2
  <1>11. CASE TriesAgain
    BY <1>1, <1>2, <1>11 DEF TriesAgain, LoadSong, PageTypes
  <1>12. QED
    BY <1>3, <1>4, <1>5, <1>6, <1>7, <1>8, <1>9, <1>10, <1>11
       DEF Next, JobMovesOn, Handled, Lost, Ignored, vars

(* Answers in any order: what a page shows of its job never goes back.     *)
THEOREM ShowsNoOlder == Spec => NeverOlder
  <1>1. PagesInv /\ [Next]_vars => NoOlder
    BY StepNoOlder
  <1>2. QED
    BY <1>1, AlwaysSound, PTL DEF Spec, NeverOlder, NoOlder, vars

NotPulled ==
  \A c \in calls :
    /\ c.kind \in Posts
    /\ c \notin calls' /\ [c EXCEPT !.live = FALSE] \notin calls'
    /\ page'.at # page.at
    => /\ page.at = "upload" /\ sending(page) /\ c.visit = page.visit
       /\ page'.at = c.answer.body.content.id

LEMMA HeardNotPulled ==
  ASSUME PagesInv, NEW c \in calls, Heard(c)
  PROVE  NotPulled
  <1>1. c.live /\ c.kind \in Kinds /\ page \in PageTypes /\ CallSound(c)
    BY DEF Heard, PagesInv, Typed, IsCall, CallsSound
  <1>2. ASSUME page'.at = page.at
        PROVE  NotPulled
    BY <1>2 DEF NotPulled
  <1>3. CASE c.kind = "getJob"
    <2>1. PICK got, p : got = getJob(c.answer) /\ p = Polled(page, got)
      OBVIOUS
    <2>2. p \in PageTypes /\ p.at = page.at
      BY <1>1, <1>3, <2>1, PolledSound DEF Heard
    <2>3. page' = p \/ page' = [p EXCEPT !.loaded = "loading"]
      BY <1>3, <2>1 DEF Heard, HeardJob, LoadSong
    <2>4. page'.at = page.at
      BY <2>2, <2>3 DEF PageTypes
    <2>5. QED
      BY <1>2, <2>4
  <1>4. CASE c.kind = "getDocument"
    BY <1>1, <1>2, <1>4 DEF Heard, HeardDocument, PageTypes
  <1>5. CASE c.kind = "getFeatures"
    BY <1>1, <1>2, <1>5 DEF Heard, HeardFeatures, PageTypes
  <1>6. CASE c.kind \in Posts
    <2>1. page'.at # page.at => /\ page'.at = c.answer.body.content.id
                              /\ Left(calls \ {c}) \subseteq calls'
      BY <1>6, HeardPostKeeps
    <2>2. ASSUME NEW d \in calls, d # c
          PROVE  [d EXCEPT !.live = FALSE] \in Left(calls \ {c})
      BY <2>2 DEF Left
    <2>3. page.at = "upload" /\ sending(page) /\ c.visit = page.visit
      BY <1>1, <1>6 DEF CallSound
    <2>4. QED
      BY <2>1, <2>2, <2>3 DEF NotPulled
  <1>7. QED
    BY <1>1, <1>3, <1>4, <1>5, <1>6 DEF Kinds

LEMMA StepNotPulled == PagesInv /\ [Next]_vars => NotPulled
  <1> SUFFICES ASSUME PagesInv, [Next]_vars
               PROVE  NotPulled
    OBVIOUS
  <1>1. page \in PageTypes
    BY DEF PagesInv, Typed
  <1>2. ASSUME page'.at = page.at
        PROVE  NotPulled
    BY <1>2 DEF NotPulled
  <1>3. CASE UNCHANGED page
    BY <1>2, <1>3
  <1>4. ASSUME NEW c \in calls, Heard(c)
        PROVE  NotPulled
    BY <1>4, HeardNotPulled
  <1>5. CASE TimerFires
    BY <1>1, <1>2, <1>5 DEF TimerFires, PageTypes
  <1>6. CASE Navigates
    <2>1. Left(calls) \subseteq calls'
      BY <1>6 DEF Navigates, GoTo
    <2>2. \A c \in calls : [c EXCEPT !.live = FALSE] \in Left(calls)
      BY DEF Left
    <2>3. QED
      BY <2>1, <2>2 DEF NotPulled
  <1>7. CASE Sends
    BY <1>1, <1>2, <1>7 DEF Sends, PageTypes
  <1>8. CASE Progresses
    BY <1>1, <1>2, <1>8 DEF Progresses, PageTypes
  <1>9. CASE Types
    BY <1>1, <1>2, <1>9 DEF Types, PageTypes
  <1>10. CASE Submits
    <2>1. PICK hint, state :
            page' = [[page EXCEPT !.hint = hint] EXCEPT !.state = state]
      BY <1>10 DEF Submits
    <2>2. page'.at = page.at
      BY <1>1, <2>1 DEF PageTypes
    <2>3. QED
      BY <1>2, <2>2
  <1>11. CASE TriesAgain
    BY <1>1, <1>2, <1>11 DEF TriesAgain, LoadSong, PageTypes
  <1>12. QED
    BY <1>3, <1>4, <1>5, <1>6, <1>7, <1>8, <1>9, <1>10, <1>11
       DEF Next, JobMovesOn, Handled, Lost, Ignored, vars

(* Only the form that sent a submission, still open and waiting, is taken  *)
(* to the job of its answer (UploadPage).                                  *)
THEOREM NotPulledBack == Spec => NoPullBack
  <1>1. PagesInv /\ [Next]_vars => NotPulled
    BY StepNotPulled
  <1>2. QED
    BY <1>1, AlwaysSound, PTL DEF Spec, NoPullBack, NotPulled, vars
=============================================================================
