------------------------------- MODULE Client -------------------------------
(***************************************************************************)
(* The api, from the browser (web/src/api): what each call of client.ts    *)
(* makes of what the wire brings.  A wire answer is its HTTP status, 0     *)
(* when none came, and what its body reads as: an error body with its      *)
(* reason, JSON content, or nothing that parses.                           *)
(***************************************************************************)
EXTENDS Naturals

CONSTANT None   \* null

-----------------------------------------------------------------------------
(* messages.ts: the keys of the tables of what the user reads.             *)
FailureReasons ==
  {"unsupported_format", "no_guitar_detected", "too_long", "fetch_failed",
   "link_unusable", "links_disabled", "internal"}

Reasons ==
  FailureReasons \cup
    {"too_large", "too_many_jobs", "not_found", "not_ready",
     "unsupported_link", "unreachable"}

(* A word the api of a newer release may send.                             *)
NewerReason == "a newer reason"

-----------------------------------------------------------------------------
(* Wire answers.                                                           *)
NoReply == [status |-> 0, body |-> None]
Refusal(status, reason) ==
  [status |-> status, body |-> [error |-> reason]]
Unparsed(status) == [status |-> status, body |-> None]
Reply(status, content) == [status |-> status, body |-> [content |-> content]]

HasError(answer) == answer.body # None /\ "error" \in DOMAIN answer.body
HasContent(answer) == answer.body # None /\ "content" \in DOMAIN answer.body

-----------------------------------------------------------------------------
(* What a call settles as: resolved with a value, or rejected with an      *)
(* ApiError.                                                               *)
Resolved(value) == [ok |-> TRUE, value |-> value]
ApiError(status, reason) ==
  [ok |-> FALSE, status |-> status, reason |-> reason]

noAnswer == ApiError(None, "unreachable")

(* An error body names the reason; without one the answer came from        *)
(* something in between, which may itself send a bare 413.                 *)
errorFrom(answer) ==
  ApiError(answer.status,
    IF HasError(answer)
    THEN IF answer.body.error \in Reasons THEN answer.body.error ELSE "internal"
    ELSE IF answer.status = 413 THEN "too_large" ELSE "unreachable")

(* Mutant: the reason of a failed job is taken as it comes.                *)
knownReasonsTrusting(job) == job

knownReasons(job) ==
  IF job.failure \in FailureReasons \cup {None} THEN job
  ELSE [job EXCEPT !.failure = "internal"]

(* The content of an answer whose status is among `good`.                   *)
ContentOf(answer, good) ==
  IF answer.status = 0 THEN noAnswer
  ELSE IF answer.status \notin good THEN errorFrom(answer)
  ELSE IF ~HasContent(answer) THEN ApiError(answer.status, "unreachable")
  ELSE Resolved(answer.body.content)

getJson(answer) == ContentOf(answer, 200..299)

JobOf(got) == IF got.ok THEN Resolved(knownReasons(got.value)) ELSE got

getJob(answer)      == JobOf(getJson(answer))
getDocument(answer) == getJson(answer)

(* GET /features: anything but a plain `true` reads as off.                *)
getFeatures(answer) ==
  LET got == getJson(answer) IN
  IF got.ok THEN Resolved(got.value = "true") ELSE got

(* A file over the limit is refused before it is sent.                     *)
TooLarge == ApiError(413, "too_large")

createJob(answer)        == JobOf(ContentOf(answer, {200, 202}))
createJobFromUrl(answer) == JobOf(ContentOf(answer, {200, 202}))
=============================================================================
