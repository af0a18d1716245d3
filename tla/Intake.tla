------------------------------- MODULE Intake --------------------------------
(***************************************************************************)
(* A request on its way to its handler, and the answer it gets if it does  *)
(* not reach the store: the size limits in front of POST /jobs and POST    *)
(* /jobs/from-url (uploads.py), the link route's own front door            *)
(* (_LinkRoute), the body's reading by FastAPI, the handlers' first checks *)
(* and the error handlers (errors.py).  Api goes on from "accepted".       *)
(*                                                                         *)
(* `request` is what the sender sends, which the code only sees arrive.    *)
(***************************************************************************)
EXTENDS Links, FiniteSets

CONSTANTS
  RawLinks,    \* the texts pasted, with what each opens in a browser
  MaxUpload,   \* settings.max_upload_bytes
  Allowance,   \* MULTIPART_ALLOWANCE, for what is around the file
  MaxLinkBody, \* LINK_BODY_MAX_BYTES
  Chunks,      \* the sizes of the chunks a body arrives in
  Unanswered   \* no answer yet

ASSUME IntakeAssumption ==
  /\ MaxUpload \in Nat \ {0} /\ Allowance \in Nat /\ MaxLinkBody \in Nat \ {0}
  /\ Chunks \subseteq Nat \ {0} /\ Chunks # {}

(* The ids a link spells, of videos that are there or not, in any of the   *)
(* ways YouTube spells one; and what a browser then opens.                 *)
Spelled(link) ==
  {id \in Videos \union NOT_IDS :
     \/ link.host = ShortHost /\ link.path = <<id>>
     \/ link.host \in Hosts \ {ShortHost} /\ link.path = <<"watch">> /\ link.v = <<id>>
     \/ /\ link.host \in Hosts \ {ShortHost} /\ id \notin NOT_IDS
        /\ \E page \in {"shorts", "live", "embed", "v"} : link.path = <<page, id>>}

Reachable(link) ==
  link.text \in {"plain", "padded"} /\ link.scheme \in {"", "//", "http", "https", "host:port"}

ASSUME RawLinksAssumption ==
  /\ RawLinks # {}
  /\ \A link \in RawLinks :
       /\ link.path \in Seq(STRING) /\ link.v \in Seq(STRING)
       /\ link.text \in {"plain", "padded", "blank", "long", "backslash", "control",
                         "unbalanced"}
       /\ link.dressed \in BOOLEAN
       /\ IF Reachable(link) /\ Spelled(link) # {} THEN link.opens \in Spelled(link)
                                                   ELSE link.opens = NoVideo

VARIABLES
  request,   \* what is sent, and the switch of the api it is sent to
  taken,     \* the bytes of its body taken so far
  point,     \* how far it is
  ours,      \* something of ours has failed
  answer     \* [status, reason, song], or Unanswered

intakeVars == <<request, taken, point, ours, answer>>

(* A body is the file and what is around it; a link's has no file.         *)
BodyLength(r) == r.file + r.around

limit(door) == IF door = "/jobs" THEN MaxUpload + Allowance ELSE MaxLinkBody

Form == {"whole", "lacking", "garbled"}

(* POST /jobs with a form, POST /jobs/from-url with JSON, and the rest.    *)
Uploads ==
  [door : {"/jobs"}, file : 0..(MaxUpload + 3), around : 1..(Allowance + 1), form : Form,
   audio : {"sound", "unreadable", "no length", "too long"}, link : {NoVideo},
   declares : BOOLEAN, links : {TRUE}]

Pastes ==
  LET Paste(arounds, forms, pasted, declared, switch) ==
        [door : {"/jobs/from-url"}, file : {0}, around : arounds, form : forms,
         audio : {"none"}, link : pasted, declares : declared, links : switch]
  IN  Paste(1..(MaxLinkBody + 3), Form, {CHOOSE link \in RawLinks : TRUE}, BOOLEAN, BOOLEAN)
      \union Paste({MaxLinkBody}, {"whole"}, RawLinks, {TRUE}, {TRUE})

Lost ==
  [door |-> "elsewhere", file |-> 0, around |-> 0, form |-> "whole", audio |-> "none",
   link |-> NoVideo, declares |-> FALSE, links |-> TRUE]

Requests == Uploads \union Pastes \union {Lost}

IntakeInit ==
  /\ request \in Requests
  /\ taken = 0 /\ point = "sent" /\ ours = FALSE /\ answer = Unanswered

-----------------------------------------------------------------------------
(* Exceptions, and what is answered to them.                               *)

Reply(status, reason) == [status |-> status, reason |-> reason, song |-> NoVideo]

Accepted(song) == [status |-> 202, reason |-> "accepted", song |-> song]

Exception(type, status, reason, cause, context) ==
  [type |-> type, status |-> status, reason |-> reason, cause |-> cause, context |-> context]

ApiError(status, reason)    == Exception("ApiError", status, reason, "none", "none")
HTTPException(status)       == Exception("HTTPException", status, "none", "none", "none")
InvalidMultipart            == Exception("HTTPException", 400, "none", "none", "multipart")
Unread(cause)               == Exception("HTTPException", 400, "none", cause, cause)
RequestValidationError      == Exception("RequestValidationError", 0, "none", "none", "none")
Unexpected                  == Exception("Exception", 0, "none", "none", "none")

(* Mutant: a 400 is what its cause makes it.                               *)
error_handlers_by_cause(e) ==
  FirstOf(
    << <<e.type = "ApiError", Reply(e.status, e.reason)>>,
       <<e.type = "RequestValidationError", Reply(422, "unsupported_format")>>,
       <<e.type = "Exception" \/ e.status = 400, Reply(500, "internal")>>,
       <<TRUE, Reply(e.status, "not_found")>> >>)

(* install_error_handlers: multipart that cannot be parsed is the sender's *)
(* mistake, and anything else that keeps a body from being read is ours.   *)
error_handlers(e) ==
  FirstOf(
    << <<e.type = "ApiError", Reply(e.status, e.reason)>>,
       <<e.type = "RequestValidationError", Reply(422, "unsupported_format")>>,
       <<e.type = "Exception", Reply(500, "internal")>>,
       <<e.status = 400 /\ e.context = "multipart", Reply(422, "unsupported_format")>>,
       <<e.status = 400 /\ e.cause # "none", Reply(500, "internal")>>,
       <<e.status \in {404, 405}, Reply(e.status, "not_found")>>,
       <<TRUE, Reply(e.status, "internal")>> >>)

_is_unreadable_body(e) ==
  e.type # "ApiError" /\ e.status = 400 /\ e.cause = "ValueError"

(* _LinkRoute: a body that holds no link is a link we cannot use.          *)
link_route(e) ==
  IF e.type = "RequestValidationError" \/ _is_unreadable_body(e)
  THEN ApiError(422, "unsupported_link") ELSE e

Answered(said) == point' = "answered" /\ answer' = said

Raised(e) ==
  Answered(error_handlers(IF request.door = "/jobs/from-url" THEN link_route(e) ELSE e))

Onward(next) == point' = next /\ UNCHANGED answer

-----------------------------------------------------------------------------
(* In front of the app.                                                    *)

links_off == ApiError(403, "links_disabled")

(* _upload_too_large, and _link_body_too_large: the switch answers first.  *)
refuse(r) ==
  IF r.door = "/jobs/from-url" /\ ~r.links THEN links_off ELSE ApiError(413, "too_large")

(* UploadSizeLimit, before a byte is read.                                 *)
CheckLength ==
  /\ point = "sent" /\ request.door # "elsewhere"
  /\ IF request.declares /\ BodyLength(request) > limit(request.door)
     THEN Answered(error_handlers(refuse(request)))
     ELSE Onward("routing")
  /\ UNCHANGED <<request, taken, ours>>

(* The switch comes before the body.                                       *)
Route ==
  /\ point = "routing"
  /\ IF request.door = "/jobs/from-url" /\ ~request.links
     THEN Raised(links_off) ELSE Onward("reading")
  /\ UNCHANGED <<request, taken, ours>>

(* No such path, or not with that method.                                  *)
Unrouted ==
  /\ point = "sent"
  /\ request.door = "elsewhere"
  /\ \E status \in {404, 405} : Raised(HTTPException(status))
  /\ UNCHANGED <<request, taken, ours>>

-----------------------------------------------------------------------------
(* The body, as FastAPI reads it.                                          *)

(* Mutant: what arrives is not counted.                                    *)
ReadUncounted(bytes) ==
  /\ point = "reading"
  /\ taken + bytes <= BodyLength(request)
  /\ taken' = taken + bytes
  /\ UNCHANGED <<request, point, ours, answer>>

(* `counted`.  What it raises comes out of the body's parsing untouched.   *)
Read(bytes) ==
  /\ point = "reading"
  /\ taken + bytes <= BodyLength(request)
  /\ taken' = taken + bytes
  /\ IF taken' > limit(request.door) THEN Raised(refuse(request))
                                     ELSE UNCHANGED <<point, answer>>
  /\ UNCHANGED <<request, ours>>

(* A form with no boundary, or broken further on.                          *)
BreaksOff ==
  /\ point = "reading"
  /\ request.door = "/jobs" /\ request.form = "garbled"
  /\ Raised(InvalidMultipart)
  /\ UNCHANGED <<request, taken, ours>>

(* The disk fills while Starlette spools the file.                         *)
SpoolFails ==
  /\ point = "reading"
  /\ request.door = "/jobs"
  /\ ours' = TRUE
  /\ Raised(Unread("OSError"))
  /\ UNCHANGED <<request, taken>>

(* All of it: fields to validate, or no JSON, or bytes that are no text.   *)
Parse ==
  /\ point = "reading"
  /\ taken = BodyLength(request)
  /\ IF request.door = "/jobs"
     THEN CASE request.form = "garbled"  -> Raised(InvalidMultipart)
            [] request.form = "lacking"  -> Raised(RequestValidationError)
            [] request.form = "whole"    -> Onward("receive")
     ELSE CASE request.form = "garbled"  -> Raised(Unread("ValueError"))
            [] request.form = "lacking"  -> Raised(RequestValidationError)
            [] request.form = "whole"    ->
                 IF request.link.text = "long" THEN Raised(RequestValidationError)
                                               ELSE Onward("parse")
  /\ UNCHANGED <<request, taken, ours>>

-----------------------------------------------------------------------------
(* The handlers' first checks.                                             *)

(* receive: the file's own bytes, hashed and counted.                      *)
Receive ==
  /\ point = "receive"
  /\ CASE request.file > MaxUpload    -> Raised(ApiError(413, "too_large"))
       [] request.file = 0            -> Raised(ApiError(422, "unsupported_format"))
       [] request.file \in 1..MaxUpload -> Onward("probe")
  /\ UNCHANGED <<request, taken, ours>>

ReceiveFails ==
  /\ point = "receive"
  /\ ours' = TRUE
  /\ Raised(Unexpected)
  /\ UNCHANGED <<request, taken>>

(* _probe: ffprobe's word, unless it is missing.                           *)
Probe ==
  /\ point = "probe"
  /\ CASE request.audio \in {"unreadable", "no length"}
                                    -> Raised(ApiError(422, "unsupported_format"))
       [] request.audio = "too long" -> Raised(ApiError(422, "too_long"))
       [] request.audio = "sound"    -> Answered(Accepted("the file"))
  /\ UNCHANGED <<request, taken, ours>>

ProbeMissing ==
  /\ point = "probe"
  /\ ours' = TRUE
  /\ Raised(ApiError(503, "internal"))
  /\ UNCHANGED <<request, taken>>

(* _parse.                                                                 *)
ParseLink ==
  /\ point = "parse"
  /\ IF parse(request.link) \in RefusalKind
     THEN Raised(ApiError(422, "unsupported_link"))
     ELSE Answered(Accepted(parse(request.link)))
  /\ UNCHANGED <<request, taken, ours>>

IntakeNext ==
  \/ CheckLength \/ Route \/ Unrouted
  \/ \E bytes \in Chunks : Read(bytes)
  \/ BreaksOff \/ SpoolFails \/ Parse
  \/ Receive \/ ReceiveFails \/ Probe \/ ProbeMissing \/ ParseLink

IntakeSpec == IntakeInit /\ [][IntakeNext]_intakeVars

-----------------------------------------------------------------------------
TooBig(r) == BodyLength(r) > limit(r.door) \/ r.file > MaxUpload

(* A link that any browser would open on one video, with nothing about its *)
(* host but the name.                                                      *)
Plain(link) ==
  /\ link.opens # NoVideo
  /\ link.text \in {"plain", "padded"} /\ ~link.dressed
  /\ link.scheme \in {"", "//", "http", "https"}

(* Whoever's the fault is, is told so: a failure of ours is never put on   *)
(* the sender, nor the sender's on us; a switched-off link route says that *)
(* and nothing else; each refusal is true of what was sent; and what is    *)
(* accepted is a whole file that plays, or the very video the link opens   *)
(* (errors.py's handlers, _LinkRoute, UploadSizeLimit, receive, parse).    *)
AnsweredRight ==
  point = "answered" =>
    LET r == request
        said(reason) == answer.reason = reason
    IN
    /\ said("internal") <=> ours
    /\ said("not_found") <=> r.door = "elsewhere"
    /\ said("links_disabled") <=> r.door = "/jobs/from-url" /\ ~r.links
    /\ said("too_large") => TooBig(r)
    /\ said("too_long") => r.audio = "too long"
    /\ said("unsupported_format") =>
         /\ r.door = "/jobs"
         /\ r.form # "whole" \/ r.file = 0 \/ r.audio \in {"unreadable", "no length"}
    /\ said("unsupported_link") =>
         r.door = "/jobs/from-url" /\ (r.form = "whole" => ~Plain(r.link))
    /\ said("accepted") =>
         /\ ~TooBig(r) /\ r.form = "whole"
         /\ IF r.door = "/jobs" THEN r.audio = "sound" /\ r.file > 0
                               ELSE answer.song = r.link.opens /\ r.link.opens # NoVideo

(* A body is abandoned within a chunk of its limit, and nothing of it is   *)
(* taken when its declared length or the switch already says no.           *)
BodyBounded ==
  request.door # "elsewhere" =>
    /\ \E last \in Chunks : taken <= limit(request.door) + last
    /\ request.declares /\ BodyLength(request) > limit(request.door) => taken = 0
    /\ ~request.links => taken = 0
=============================================================================
