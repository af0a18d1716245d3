------------------------------- MODULE Pages --------------------------------
(***************************************************************************)
(* The pages (web/src/pages, App.tsx, routing.ts) against an api that      *)
(* answers late or not at all.  A step is a task of the page: something    *)
(* the user does, a timer, an answer that arrives; or the api's side:      *)
(* a request handled, a job that moves on.                                 *)
(***************************************************************************)
EXTENDS Client, FiniteSets

CONSTANTS
  Jobs,
  Begun,        \* the jobs submitted before, by anyone
  Submitted,    \* per request that submits: the job of what is sent
  Texts,        \* what a user may put in the link field
  Ends,         \* per job: the documents and the failures it may end with
  Losses,       \* per request: its answer when it does not get through
  Refusals,     \* the reasons a POST may be refused with
  MaxAttempts,  \* bound: attempts of each job
  MaxVisits     \* bound: pages mounted one after the other

ASSUME PagesAssumption ==
  /\ Jobs \cap {None, "upload", "missing"} = {}
  /\ Begun \subseteq Jobs
  /\ MaxAttempts \in [Jobs -> Nat \ {0}]
  /\ MaxVisits \in Nat \ {0}

VARIABLES
  rows,    \* the api's side: the job table, as its responses show it
  page,    \* the mounted page and its hooks' state
  calls    \* requests under way

vars == <<rows, page, calls>>

Terminal(job) == job.status \in {"succeeded", "failed"}

-----------------------------------------------------------------------------
(* The api, from its handlers' answers.  A document is one this build      *)
(* reads, one of a newer schema, or one that buildSong cannot read.        *)

Documents == {"readable", "newer", "broken"}

Absent == [status |-> "absent", attempts |-> 0, failure |-> None, document |-> None]
Queued == [Absent EXCEPT !.status = "queued"]

(* The JobView of a row.                                                   *)
View(j) == [id |-> j, status |-> rows[j].status, attempts |-> rows[j].attempts,
            failure |-> rows[j].failure]

(* What the api may say of a job.                                          *)
JobViews ==
  [id : Jobs, status : {"absent", "queued", "running", "succeeded", "failed"},
   attempts : Nat, failure : FailureReasons \cup {None} \cup UNION {Ends[j] : j \in Jobs}]

JobStarts(j) ==
  /\ rows[j].status = "queued"
  /\ rows[j].attempts < MaxAttempts[j]
  /\ rows' = [rows EXCEPT ![j].status = "running", ![j].attempts = @ + 1]

JobPutBack(j) ==
  /\ rows[j].status = "running"
  /\ rows[j].attempts < MaxAttempts[j]
  /\ rows' = [rows EXCEPT ![j].status = "queued"]

JobEnds(j) ==
  /\ rows[j].status = "running"
  /\ \/ \E d \in Ends[j] \cap Documents :
          rows' = [rows EXCEPT ![j].status = "succeeded", ![j].document = d]
     \/ \E reason \in Ends[j] \ Documents :
          rows' = [rows EXCEPT ![j].status = "failed", ![j].failure = reason]

JobMovesOn ==
  /\ \E j \in Jobs : JobStarts(j) \/ JobPutBack(j) \/ JobEnds(j)
  /\ UNCHANGED <<page, calls>>

-----------------------------------------------------------------------------
(* A request, by the function of client.ts that makes it, for the mounted  *)
(* page `visit`.  It is live until what asked cancels it.                  *)
Call(kind, visit, job) ==
  [kind |-> kind, visit |-> visit, job |-> job, live |-> TRUE, answer |-> None]

Posts == {"createJob", "createJobFromUrl"}
Kinds == Posts \cup {"getJob", "getDocument", "getFeatures"}

(* What a user sends becomes a job.  An answer that was lost, or that      *)
(* something in between gave, has a body that does not parse, or none.     *)
ASSUME CallsAssumption ==
  /\ None \notin JobViews
  /\ Submitted \in [Posts -> Jobs]
  /\ \A kind \in Kinds : /\ Losses[kind] = Unparsed(Losses[kind].status)
                         /\ Losses[kind].status \in Nat

Answered(c, answer) == calls' = (calls \ {c}) \cup {[c EXCEPT !.answer = answer]}

(* A read whose answer no one waits for need not be handled.               *)
Handled(c) ==
  /\ c \in calls
  /\ c.answer = None
  /\ c.live \/ c.kind \in Posts
  /\ CASE c.kind = "getJob" ->
            /\ Answered(c, IF rows[c.job] = Absent
                           THEN Refusal(404, "not_found")
                           ELSE Reply(200, View(c.job)))
            /\ UNCHANGED rows
       [] c.kind = "getDocument" ->
            /\ Answered(c, Reply(200, rows[c.job].document))
            /\ UNCHANGED rows
       [] c.kind = "getFeatures" ->
            /\ \E on \in {"true", "false"} : Answered(c, Reply(200, on))
            /\ UNCHANGED rows
       [] c.kind \in Posts ->
            \/ /\ \E reason \in Refusals : Answered(c, Refusal(422, reason))
               /\ UNCHANGED rows
            \/ LET j == Submitted[c.kind] IN
                 IF rows[j] = Absent
                 THEN /\ rows' = [rows EXCEPT ![j] = Queued]
                      /\ Answered(c, Reply(202, [View(j) EXCEPT !.status = "queued"]))
                 ELSE /\ Answered(c, Reply(200, View(j)))
                      /\ UNCHANGED rows
  /\ UNCHANGED page

(* A request, or the answer to one that was handled, does not get through. *)
Lost(c) ==
  /\ c \in calls
  /\ c.live
  /\ c.answer \notin {Losses[c.kind], TooLarge}
  /\ Answered(c, Losses[c.kind])
  /\ UNCHANGED <<rows, page>>

-----------------------------------------------------------------------------
(* progress.ts                                                             *)
POLL_MS == 1500
MAX_POLL_MS == 10000

backoff(delay) == IF 2 * delay < MAX_POLL_MS THEN 2 * delay ELSE MAX_POLL_MS

(* link.ts, of what it tells apart of a text: is it empty or blank, longer *)
(* than MAX_LINK_CHARS or with a space in it, a URL once https:// is put   *)
(* before a text without a scheme, of the web, with a dot in its host?     *)
linkHint(text) ==
  IF text.blank THEN "Paste a link first."
  ELSE IF text.long \/ text.spaced \/ ~text.url \/ ~text.web \/ ~text.dotted
       THEN "That doesn't look like a link."
       ELSE None

-----------------------------------------------------------------------------
(* The pages' state, when they are mounted.                                *)

Unknown == [job |-> None, missing |-> FALSE, reconnecting |-> FALSE]
Idle == [kind |-> "idle", fraction |-> 0, reason |-> None, detail |-> FALSE]
Refused(reason, detail) ==
  [Idle EXCEPT !.kind = "refused", !.reason = reason, !.detail = detail]

(* poll, loaded, linksOn, linksRefused and hint are the hooks' state of   *)
(* these names, `state` is UploadPage's; delay and timer are variables     *)
(* of useJob's effect, timer a pending timeout or not.                     *)
Fresh(route, visit) ==
  [at |-> route, visit |-> visit,
   poll |-> Unknown, delay |-> POLL_MS, timer |-> FALSE, loaded |-> "loading",
   state |-> Idle, linksOn |-> FALSE, linksRefused |-> FALSE, hint |-> None]

(* The mounted page's first requests.                                      *)
MountCalls(route, visit) ==
  CASE route = "upload"  -> {Call("getFeatures", visit, None)}
    [] route = "missing" -> {}
    [] route \in Jobs    -> {Call("getJob", visit, route)}

(* Mutant: SongPage is not keyed by its job, and its state stays.          *)
MountedUnkeyed(route) ==
  IF route \in Jobs /\ page.at \in Jobs
  THEN [page EXCEPT !.at = route, !.visit = @ + 1, !.timer = FALSE]
  ELSE Fresh(route, page.visit + 1)

(* Another route mounts another page, another job another SongPage.        *)
Mounted(route) == Fresh(route, page.visit + 1)

(* Mutant: leaving the upload page does not abort its request.             *)
LeftUnaborted(made) ==
  {IF c.kind \in Posts THEN c ELSE [c EXCEPT !.live = FALSE] : c \in made}

(* What a page leaves behind: its cleanups cancel its requests and clear   *)
(* its timer.                                                              *)
Left(made) == {[c EXCEPT !.live = FALSE] : c \in made}

GoTo(route, rest) ==
  /\ page' = Mounted(route)
  /\ calls' = Left(rest) \cup MountCalls(route, page.visit + 1)

(* The user follows a link, or goes back or forward.  The same path again  *)
(* changes nothing.                                                        *)
Navigates ==
  /\ page.visit < MaxVisits
  /\ \E route \in {"upload", "missing"} \cup Jobs :
       /\ route # page.at
       /\ GoTo(route, calls)
  /\ UNCHANGED rows

-----------------------------------------------------------------------------
(* SongPage.                                                               *)

(* useSong's effect: the document is asked for, once there is one.         *)
LoadSong(p, rest) ==
  /\ page' = [p EXCEPT !.loaded = "loading"]
  /\ calls' = rest \cup {Call("getDocument", p.visit, p.at)}

(* Mutant: a poll that fails is the last one.                              *)
PolledGivingUp(p, got) ==
  IF got.ok
  THEN [p EXCEPT !.poll = [Unknown EXCEPT !.job = got.value],
                 !.delay = POLL_MS, !.timer = ~Terminal(got.value)]
  ELSE [p EXCEPT !.poll.reconnecting = TRUE, !.delay = backoff(@)]

(* Mutant: a job that no attempt holds is taken for one that has ended.    *)
PolledOnce(p, got) ==
  IF got.ok
  THEN [p EXCEPT !.poll = [Unknown EXCEPT !.job = got.value],
                 !.delay = POLL_MS, !.timer = got.value.status = "running"]
  ELSE [p EXCEPT !.poll.reconnecting = TRUE, !.delay = backoff(@), !.timer = TRUE]

(* useJob's check, once getJob has settled.                                *)
Polled(p, got) ==
  IF got.ok
  THEN [p EXCEPT !.poll = [Unknown EXCEPT !.job = got.value],
                 !.delay = POLL_MS, !.timer = ~Terminal(got.value)]
  ELSE IF got.reason = "not_found"
  THEN [p EXCEPT !.poll = [Unknown EXCEPT !.missing = TRUE]]
  ELSE [p EXCEPT !.poll.reconnecting = TRUE, !.delay = backoff(@), !.timer = TRUE]

HeardJob(c) ==
  LET got == getJob(c.answer)
      p == Polled(page, got)
  IN  IF got.ok /\ got.value.status = "succeeded"
      THEN LoadSong(p, calls \ {c})
      ELSE page' = p /\ calls' = calls \ {c}

(* A document of a newer schema is not read, and one that buildSong cannot *)
(* read is handled as one that would not load.                             *)
canRead(doc) == doc # "newer"
Song(got) ==
  IF ~got.ok THEN "failed"
  ELSE IF ~canRead(got.value) THEN "newer"
  ELSE IF got.value = "broken" THEN "failed" ELSE "ready"

HeardDocument(c) ==
  /\ page' = [page EXCEPT !.loaded = Song(getDocument(c.answer))]
  /\ calls' = calls \ {c}

(* Mutant: the poll is made at an interval, answered or not.               *)
TimerFiresEvery ==
  /\ page.timer
  /\ calls' = calls \cup {Call("getJob", page.visit, page.at)}
  /\ UNCHANGED <<rows, page>>

TimerFires ==
  /\ page.timer
  /\ page' = [page EXCEPT !.timer = FALSE]
  /\ calls' = calls \cup {Call("getJob", page.visit, page.at)}
  /\ UNCHANGED rows

(* "Try again" is offered under a tab that would not load.                 *)
TriesAgain ==
  /\ page.poll.job # None
  /\ page.poll.job.status = "succeeded"
  /\ page.loaded = "failed"
  /\ LoadSong(page, calls)
  /\ UNCHANGED rows

-----------------------------------------------------------------------------
(* UploadPage.                                                             *)

sending(p) == p.state.kind \in {"sending", "checking"}

(* A file dropped or chosen.                                               *)
Sends ==
  /\ page.at = "upload"
  /\ ~sending(page)
  /\ \E large \in BOOLEAN :
       LET call == Call("createJob", page.visit, None) IN
       calls' = calls \cup
         {IF large THEN [call EXCEPT !.answer = TooLarge] ELSE call}
  /\ page' = [page EXCEPT !.state = [Idle EXCEPT !.kind = "sending"]]
  /\ UNCHANGED rows

(* onProgress: a part of the file is sent (0) or all of it (1).            *)
Progresses ==
  /\ \E c \in calls :
       /\ c.kind = "createJob"
       /\ c.live
       /\ c.answer # TooLarge
       /\ page.state.fraction = 0
       /\ page' = [page EXCEPT !.state.kind = "sending", !.state.fraction = 1]
  /\ UNCHANGED <<rows, calls>>

(* The field is there once the api says links are on, until it refuses one *)
(* because they no longer are, and takes nothing while a request is out.   *)
LinkFormOpen == page.at = "upload" /\ page.linksOn /\ ~page.linksRefused /\ ~sending(page)

Types ==
  /\ LinkFormOpen
  /\ page' = [page EXCEPT !.hint = None]
  /\ UNCHANGED <<rows, calls>>

Submits ==
  /\ LinkFormOpen
  /\ \E text \in Texts :
       LET hint == linkHint(text)
           hinted == [page EXCEPT !.hint = hint]
       IN  IF hint = None
           THEN /\ page' = [hinted EXCEPT !.state = [Idle EXCEPT !.kind = "checking"]]
                /\ calls' = calls \cup {Call("createJobFromUrl", page.visit, None)}
           ELSE /\ page' = [hinted EXCEPT !.state = Idle]   \* clearFailure
                /\ UNCHANGED calls
  /\ UNCHANGED rows

(* A POST has settled.  The browser goes to the job's page; one that has   *)
(* gone elsewhere meanwhile is not pulled back.                            *)
HeardPost(c, got, detail) ==
  LET off == page.linksRefused \/ (/\ c.kind = "createJobFromUrl"
                                  /\ ~got.ok
                                  /\ got.reason = "links_disabled")
  IN  IF got.ok
      THEN GoTo(got.value.id, calls \ {c})
      ELSE /\ page' = [page EXCEPT !.state = Refused(got.reason, detail),
                                  !.linksRefused = off,
                                  !.hint = IF off THEN None ELSE @]
           /\ calls' = calls \ {c}

HeardFile(c) ==
  HeardPost(c, IF c.answer = TooLarge THEN TooLarge ELSE createJob(c.answer), FALSE)

HeardLink(c) ==
  LET got == createJobFromUrl(c.answer) IN
  HeardPost(c, got, ~got.ok /\ got.status # None)

(* useLinksOn: no answer leaves the field hidden.                          *)
HeardFeatures(c) ==
  LET got == getFeatures(c.answer) IN
  /\ page' = [page EXCEPT !.linksOn = @ \/ (got.ok /\ got.value)]
  /\ calls' = calls \ {c}

-----------------------------------------------------------------------------
(* An answer reaches who asked.                                            *)
Heard(c) ==
  /\ c \in calls
  /\ c.live
  /\ c.answer # None
  /\ CASE c.kind = "getJob"           -> HeardJob(c)
       [] c.kind = "getDocument"      -> HeardDocument(c)
       [] c.kind = "getFeatures"      -> HeardFeatures(c)
       [] c.kind = "createJob"        -> HeardFile(c)
       [] c.kind = "createJobFromUrl" -> HeardLink(c)
  /\ UNCHANGED rows

(* Answers to what was cancelled change nothing, if they come at all.      *)
Ignored ==
  /\ \E c \in calls : ~c.live
  /\ calls' = {c \in calls : c.live}
  /\ UNCHANGED <<rows, page>>

(* The browser is opened on any path.                                      *)
Init ==
  /\ rows = [j \in Jobs |-> IF j \in Begun THEN Queued ELSE Absent]
  /\ \E route \in {"upload", "missing"} \cup Jobs :
       /\ page = Fresh(route, 1)
       /\ calls = MountCalls(route, 1)

Next ==
  \/ JobMovesOn
  \/ \E c \in calls : Handled(c) \/ Lost(c) \/ Heard(c)
  \/ Ignored
  \/ TimerFires
  \/ Navigates
  \/ Sends \/ Progresses
  \/ Types \/ Submits
  \/ TriesAgain

Spec == Init /\ [][Next]_vars

(* A timer runs out, a request that is not lost is handled, and its answer *)
(* is heard; asked again and again, not every one is lost.  Nothing is     *)
(* assumed of the user or of the jobs.                                     *)
FairSpec ==
  /\ Spec
  /\ WF_vars(TimerFires)
  /\ WF_vars(\E c \in calls : c.live /\ Heard(c))
  /\ WF_vars(\E c \in calls : c.live /\ (Handled(c) \/ Lost(c)))
  /\ SF_vars(\E c \in calls : c.live /\ c.kind = "getJob" /\ Handled(c))
  /\ SF_vars(\E c \in calls : /\ c.live /\ c.kind = "getJob"
                               /\ c.answer # Losses[c.kind]
                               /\ Heard(c))

-----------------------------------------------------------------------------
(* How far a job has come: each step of its attempts is after the last.    *)
Rank(job) ==
  CASE job.status = "absent"  -> 0
    [] job.status = "queued"  -> 2 * job.attempts + 1
    [] job.status = "running" -> 2 * job.attempts
    [] OTHER                  -> 2 * MaxAttempts[job.id] + 2

Ended(poll) == poll.missing \/ (poll.job # None /\ Terminal(poll.job))

(* What a song page shows is of the job in its address, and was so of it;  *)
(* a tab is played only if this build can read it, and a failure is one    *)
(* there is a text for.                                                    *)
ShowsItsJob ==
  LET job == page.poll.job IN
  /\ job # None => /\ job.id = page.at
                   /\ Rank(job) <= Rank(View(page.at))
                   /\ job.failure \in FailureReasons \cup {None}
  /\ page.loaded = "ready" => rows[page.at].document = "readable"
  /\ page.loaded = "newer" => rows[page.at].document = "newer"
  /\ page.state.reason \in Reasons \cup {None}

(* An open song page that has not shown the end of its job has one poll    *)
(* out or one timer set, never two and never none; one that has shows it   *)
(* for good; and a page that was left asks and expects nothing more.       *)
PollGoesOn ==
  LET polls == {c \in calls : c.live /\ c.kind = "getJob"} IN
  /\ Cardinality(polls) + (IF page.timer THEN 1 ELSE 0)
       = IF page.at \in Jobs /\ ~Ended(page.poll) THEN 1 ELSE 0
  /\ \A c \in calls : c.live => c.visit = page.visit
  /\ ~page.poll.missing => (page.poll.reconnecting <=> page.delay > POLL_MS)

(* Answers that come out of order do not take a page back: it never shows  *)
(* a job at an earlier point than it did.                                  *)
NeverOlder ==
  [][LET old == page.poll.job
         new == page'.poll.job
     IN  page'.visit = page.visit /\ old # None /\ new # None =>
           Rank(new) >= Rank(old)]_vars

(* A submission's answer takes the browser to its song only from the form  *)
(* that sent it, still open.                                               *)
NoPullBack ==
  [][\A c \in calls :
       /\ c.kind \in Posts
       /\ c \notin calls' /\ [c EXCEPT !.live = FALSE] \notin calls'
       /\ page'.at # page.at
       => /\ page.at = "upload" /\ sending(page) /\ c.visit = page.visit
          /\ page'.at = c.answer.body.content.id]_vars

(* Is the user waiting: for a request that was sent, or for a song page to *)
(* show a job that has ended?                                              *)
Waiting ==
  \/ sending(page)
  \/ /\ page.at \in Jobs /\ Terminal(rows[page.at])
     /\ \/ ~Ended(page.poll)
        \/ ~page.poll.missing /\ page.poll.job.status = "succeeded"
                              /\ page.loaded = "loading"

(* What has ended is shown in the end, on a page that stays on it, and a   *)
(* form that was sent is answered.                                         *)
PageSettles == Waiting ~> ~Waiting
=============================================================================
