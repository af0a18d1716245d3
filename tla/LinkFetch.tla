----------------------------- MODULE LinkFetch ------------------------------
(***************************************************************************)
(* What is made of one link: the child's work (packages/fetch/child.py),   *)
(* what its caller reads of the answer (fetcher.py), and the worker's      *)
(* check of a download (ingest.py, core's audio.py).  ChildFetcher is      *)
(* about the processes; this module is about the verdict.                  *)
(*                                                                         *)
(* `own` is what is the matter with the video itself, as the kind that     *)
(* names it; `met` is what each of the clients yt-dlp asks YouTube as ran  *)
(* into.  The code sees neither: it sees metadata, formats, exceptions and *)
(* warnings.                                                               *)
(***************************************************************************)
EXTENDS FetchCatalog, Rules, FiniteSets

CONSTANTS
  Clients,      \* the player clients yt-dlp tries, one after another
  MaxBytes,     \* the size cap, in chunks of the download
  MaxDuration,  \* MAX_DURATION_SEC
  Nothing       \* nothing the matter; not met yet; no verdict yet

ASSUME LinkFetchAssumption ==
  /\ IsFiniteSet(Clients)
  /\ MaxBytes \in Nat \ {0}
  /\ MaxDuration \in Nat \ {0}
  /\ Nothing \notin FetchKind \cup {"accepted", "no_ffprobe"}
  /\ Nothing \notin Nat   \* no length, where one may be known

VARIABLES
  phase,      \* "lookup" by the api, or "download" by the worker
  place,      \* the step the call is at
  own, met,   \* the video, and what the clients met
  log,        \* ChildLog: [warnings, video_only, hit_size_cap]
  medium,     \* where the selected format's URL leads
  size,       \* the file's bytes, once it is all there
  arrived,    \* the bytes on disk
  verdict     \* a FetchKind, "accepted", "no_ffprobe", or Nothing

linkVars == <<phase, place, own, met, log, medium, size, arrived, verdict>>

-----------------------------------------------------------------------------
(* The video and YouTube.                                                  *)

(* A video that is gone says so when it is asked for; metadata tell the    *)
(* rest; the size and the sound show on the file alone.                    *)
Spoken   == {"private", "unavailable", "geo_restricted", "age_restricted",
             "members_only", "upcoming"}
Recorded == {"private", "age_restricted", "members_only", "live", "upcoming",
             "post_live", "no_duration", "too_long"}
OnDisk   == {"too_long", "too_large", "unreadable"}
Faults   == Spoken \cup Recorded \cup OnDisk \cup {"no_audio"}

(* The patterns of _MESSAGES that a refusal's words match.                 *)
Words(fault) ==
  CASE fault = "private"        -> {"private video", "sign in"}
    [] fault = "age_restricted" -> {"confirm your age", "sign in"}
    [] fault = "members_only"   -> {"members-only"}
    [] fault = "upcoming"       -> {"premieres in"}
    [] fault = "geo_restricted" -> {"in your country", "video unavailable"}
    [] OTHER                    -> {"video unavailable"}

(* What yt-dlp warns of.  A client that skips formats for want of a token  *)
(* says so in debug lines, which are no warnings.                          *)
Meetings == {"answered", "throttled", "down", "unsolved", "no token"}

Warnings(meetings) ==
  (IF "throttled" \in meetings THEN {"too many requests"} ELSE {})
    \union (IF "down" \in meetings THEN {"http error 503"} ELSE {})
    \union (IF "unsolved" \in meetings THEN {"challenge", "may be missing"} ELSE {})

Responded == {c \in Clients : met[c] \in {"answered", "unsolved", "no token"}}

Format(playable, acodec, https) ==
  [playable |-> playable, acodec |-> acodec, https |-> https]

Picture    == Format(TRUE, "none", TRUE)
Storyboard == Format(FALSE, "none", TRUE)
Sound      == Format(FALSE, "some", TRUE)
Muxed      == Format(TRUE, "some", FALSE)   \* or HLS, or behind DRM
Vague      == Format(TRUE, "unknown", FALSE)

(* What a client may offer: all there is, or, if YouTube withholds any,    *)
(* some of it.  What is skipped for want of a token takes the picture too. *)
Offers(c, audio) ==
  CASE met[c] = "answered" -> {{Picture, Storyboard} \union audio}
    [] met[c] = "unsolved" -> SUBSET ({Picture, Storyboard} \union audio)
    [] met[c] = "no token" -> SUBSET {Storyboard}
    [] OTHER               -> {{}}

(* An exception and everything behind it: its types, its HTTP statuses,    *)
(* and the patterns its words match.                                       *)
Failure(types, statuses, says) ==
  [types |-> types, statuses |-> statuses, says |-> says]

(* The request for the page itself fails, or a download does.              *)
Outages ==
  {Failure({"HTTPError"}, {429}, {"too many requests"}),
   Failure({}, {}, {"not a bot", "sign in"}),
   Failure({"HTTPError"}, {503}, {}),
   Failure({"HTTPError"}, {403}, {}),
   Failure({"TransportError"}, {}, {}),
   Failure({"OSError"}, {}, {}),
   Failure({}, {}, {"unable to extract"}),
   Failure({}, {}, {})}

DownloadFailures ==
  {Failure({"HTTPError"}, {403}, {}),
   Failure({"ContentTooShortError"}, {}, {}),
   Failure({}, {}, {"[download] got error:"}),
   Failure({"UnavailableVideoError", "OSError"}, {}, {})}

-----------------------------------------------------------------------------
(* The classifier.                                                         *)

(* In order: a private video's words ask the viewer to sign in as well.    *)
MESSAGES ==
  << <<{"private video"}, "private">>,
     <<{"not a bot", "too many requests"}, "rate_limited">>,
     <<{"confirm your age"}, "age_restricted">>,
     <<{"members-only"}, "members_only">>,
     <<{"premieres in"}, "upcoming">>,
     <<{"in your country"}, "geo_restricted">>,
     <<{"video unavailable"}, "unavailable">>,
     <<{"sign in"}, "age_restricted">> >>

Network == {"TransportError", "ContentTooShortError"}

(* Mutant: a warning is no sign that formats were withheld.                *)
Withheld_unwarned(warnings) == FALSE

(* The warnings that formats are missing, or challenges unsolved.          *)
Withheld(warnings) == warnings \intersect {"challenge", "may be missing"} # {}

(* By the exceptions' types first, the video's own words next, and only    *)
(* then what yt-dlp warned of on the way.                                  *)
classify(error, warnings, video_only) ==
  LET says(pattern)  == pattern \in error.says
      status(code)   == code \in error.statuses
      warned(words)  == words \in warnings
  IN
  FirstOf(
    << <<"GeoRestrictedError" \in error.types, "geo_restricted">>,
       <<status(429), "rate_limited">> >> \o
    [i \in DOMAIN MESSAGES |->
       <<MESSAGES[i][1] \intersect error.says # {}, MESSAGES[i][2]>>] \o
    << <<error.types \intersect Network # {} \/ status(503), "network">>,
       <<says("[download] got error:"), "network">>,
       <<status(403) /\ warned("challenge"), "extractor_broken">>,
       <<"OSError" \in error.types, "local_io">>,
       <<warned("too many requests"), "rate_limited">>,
       <<says("format") /\ warned("http error 503"), "network">>,
       <<says("format") /\ video_only /\ ~Withheld(warnings), "no_audio">>,
       <<says("format"), "extractor_broken">>,
       <<says("no player response") /\ warned("http error 503"), "network">>,
       <<says("no player response") \/ says("unable to extract"), "extractor_broken">>,
       <<TRUE, "unknown">> >>)

(* Mutant: nothing at all counts as nothing with audio.                    *)
offers_only_video_or_nothing(formats) == \A f \in formats : f.acodec = "none"

(* Positive evidence that a video has no audio.                            *)
offers_only_video(formats) ==
  /\ \E f \in formats : f.playable
  /\ \A f \in formats : f.acodec = "none"

-----------------------------------------------------------------------------
(* Metadata, and what passes.                                              *)

Raw(type, live, availability, length) ==
  [type |-> type, live_status |-> live, availability |-> availability,
   duration |-> length]

(* A live stream has no length yet; a paid video's page gives its trailer. *)
Metadata(fault) ==
  CASE fault = "private"        -> {Raw("video", "not_live", "private", 1)}
    [] fault = "age_restricted" -> {Raw("video", "not_live", "needs_auth", 1)}
    [] fault = "members_only"   -> {Raw("url", "not_live", "public", 1),
                                    Raw("video", "not_live", "premium_only", 1),
                                    Raw("video", "not_live", "subscriber_only", 1)}
    [] fault = "live"           -> {Raw("video", "is_live", "public", Nothing)}
    [] fault = "upcoming"       -> {Raw("video", "is_upcoming", "public", Nothing)}
    [] fault = "post_live"      -> {Raw("video", "post_live", "public", 0)}
    [] fault = "no_duration"    -> {Raw("video", "not_live", "public", d) : d \in {Nothing, 0}}
    [] fault = "too_long"       -> {Raw("video", "not_live", "public", d) :
                                      d \in {MaxDuration + 1, MaxDuration}}
    [] OTHER                    -> {Raw("video", "not_live", "public", MaxDuration)}

check_duration(length) ==
  CASE length <= 0              -> "unsupported_format"
    [] length > MaxDuration     -> "too_long"
    [] length \in 1..MaxDuration -> "fine"

LengthFault(length) ==
  IF length = Nothing \/ check_duration(length) = "unsupported_format" THEN "no_duration"
                                                                     ELSE check_duration(length)

(* Mutant: the length is looked at first.                                  *)
check_info_by_length(info) ==
  FirstOf(
    << <<LengthFault(info.duration) # "fine", LengthFault(info.duration)>>,
       <<info.live_status = "is_live", "live">>,
       <<info.live_status = "is_upcoming", "upcoming">>,
       <<info.live_status = "post_live", "post_live">>,
       <<info.availability = "private", "private">>,
       <<info.availability \in {"premium_only", "subscriber_only"}, "members_only">>,
       <<info.availability = "needs_auth", "age_restricted">>,
       <<TRUE, "fine">> >>)

check_info(info) ==
  FirstOf(
    << <<info.live_status = "is_live", "live">>,
       <<info.live_status = "is_upcoming", "upcoming">>,
       <<info.live_status = "post_live", "post_live">>,
       <<info.availability = "private", "private">>,
       <<info.availability \in {"premium_only", "subscriber_only"}, "members_only">>,
       <<info.availability = "needs_auth", "age_restricted">>,
       <<LengthFault(info.duration) # "fine", LengthFault(info.duration)>>,
       <<TRUE, "fine">> >>)

checked(raw) ==
  IF raw.type # "video" THEN "members_only" ELSE check_info(raw)

-----------------------------------------------------------------------------
(* The call.                                                               *)

Places == {"start", "ask", "extract", "check", "choose", "media", "get", "weigh",
           "ingest", "told"}

NoLog == [warnings |-> {}, video_only |-> FALSE, hit_size_cap |-> FALSE]

Unasked == [c \in Clients |-> Nothing]

(* The api looks a link up, or a worker downloads one accepted earlier.    *)
LinkFetchInit ==
  /\ phase \in {"lookup", "download"} /\ place = "start"
  /\ own \in Faults \cup {Nothing}
  /\ met = Unasked /\ log = NoLog
  /\ medium = Nothing /\ size = 0 /\ arrived = 0
  /\ verdict = Nothing

(* The call ends; of an error, only its kind crosses the process boundary. *)
Tell(kind) ==
  /\ place' = "told"
  /\ verdict' = kind

Raise(error, video_only) ==
  Tell(classify(error, log.warnings, video_only))

(* On to the next step, unless something is the matter.                    *)
Go(next, kind) ==
  IF kind = "fine" THEN place' = next /\ UNCHANGED verdict ELSE Tell(kind)

(* _lookup: as many lookups as are allowed run already.                    *)
Busy ==
  /\ phase = "lookup"
  /\ place = "start"
  /\ Tell("busy")
  /\ UNCHANGED <<phase, own, met, log, medium, size, arrived>>

(* find_deno, beside this Python and then on PATH.                         *)
find_deno(candidates) == \E i \in DOMAIN candidates : candidates[i] = "new"

(* main: the runtime, then yt-dlp.                                         *)
Starts ==
  /\ place = "start"
  /\ \E beside, onPath \in {"absent", "broken", "old", "new"}, imports \in BOOLEAN :
        IF find_deno(<<beside, onPath>>) /\ imports
        THEN place' = "ask" /\ UNCHANGED verdict
        ELSE Tell("misconfigured")
  /\ UNCHANGED <<phase, own, met, log, medium, size, arrived>>

(* yt-dlp asks for the page, and then as each client.                      *)
Ask ==
  /\ place = "ask"
  /\ met' \in [Clients -> Meetings]
  /\ log' = [log EXCEPT !.warnings = Warnings({met'[c] : c \in Clients})]
  /\ place' = "extract"
  /\ UNCHANGED <<phase, own, medium, size, arrived, verdict>>

Outage ==
  /\ place = "ask"
  /\ \E error \in Outages : Raise(error, FALSE)
  /\ UNCHANGED <<phase, own, met, log, medium, size, arrived>>

(* extract_info: no client was answered, or one was told of the video's    *)
(* fault, or there are metadata.                                           *)
Extract ==
  /\ place = "extract"
  /\ \/ Responded = {} /\ Raise(Failure({}, {}, {"no player response"}), FALSE)
     \/ /\ Responded # {} /\ own \in Spoken
        /\ LET types == IF own = "geo_restricted" THEN {"GeoRestrictedError"} ELSE {}
           IN  Raise(Failure(types, {}, Words(own)), FALSE)
     \/ /\ Responded # {} /\ own \notin Spoken \ Recorded
        /\ place' = "check"
        /\ UNCHANGED verdict
  /\ UNCHANGED <<phase, own, met, log, medium, size, arrived>>

Check(raw) ==
  /\ Go("choose", checked(raw))
  /\ UNCHANGED <<phase, own, met, log, medium, size, arrived>>

(* _choose: our filter takes audio over plain HTTPS.  A lookup has its     *)
(* answer then.                                                            *)
Choose(formats) ==
  LET video_only == offers_only_video(formats) IN
  /\ log' = [log EXCEPT !.video_only = video_only]
  /\ IF Sound \notin formats
     THEN Raise(Failure({}, {}, {"format"}), video_only)
     ELSE IF phase = "lookup" THEN Tell("accepted")
                              ELSE place' = "media" /\ UNCHANGED verdict
  /\ UNCHANGED <<phase, own, met, medium, size, arrived>>

(* check_media: before connecting.  The metadata may give the size.        *)
MediaLeads == {"googlevideo", "other host", "not https", "two formats",
          "private address", "no address"}

CheckMedia(leads, bytes, claimed) ==
  /\ medium' = leads
  /\ size' = bytes
  /\ Go("get", FirstOf(<< <<leads # "googlevideo", "media_refused">>,
                         <<claimed /\ bytes > MaxBytes, "too_large">>,
                         <<TRUE, "fine">> >>))
  /\ UNCHANGED <<phase, own, met, log, arrived>>

Unresolved ==
  /\ place = "media"
  /\ Raise(Failure({"TransportError"}, {}, {}), log.video_only)
  /\ UNCHANGED <<phase, own, met, log, medium, size, arrived>>

(* yt-dlp's max_filesize: the response gives a length over the cap, and no *)
(* file is made.                                                           *)
GiveUpQuietly ==
  /\ place = "get"
  /\ size > MaxBytes /\ arrived = 0
  /\ log' = [log EXCEPT !.hit_size_cap = TRUE]
  /\ place' = "weigh"
  /\ UNCHANGED <<phase, own, met, medium, size, arrived, verdict>>

(* Mutant: the hook does not look at the size.                             *)
GetChunkUncapped ==
  /\ place = "get"
  /\ arrived < size
  /\ arrived' = arrived + 1
  /\ UNCHANGED <<phase, place, own, met, log, medium, size, verdict>>

(* ProgressHook, for a response with no length.                            *)
GetChunk ==
  /\ place = "get"
  /\ arrived < size
  /\ arrived' = arrived + 1
  /\ IF arrived' > MaxBytes THEN Tell("too_large") ELSE UNCHANGED <<place, verdict>>
  /\ UNCHANGED <<phase, own, met, log, medium, size>>

GetFails ==
  /\ place = "get"
  /\ \E error \in DownloadFailures : Raise(error, log.video_only)
  /\ UNCHANGED <<phase, own, met, log, medium, size, arrived>>

(* All of it is there, or all but what yt-dlp's remux will add.            *)
GetEnds ==
  /\ place = "get"
  /\ arrived \in {size, size - 1}
  /\ place' = "weigh"
  /\ UNCHANGED <<phase, own, met, log, medium, size, arrived, verdict>>

(* download: the file, if there is one.                                    *)
Weigh ==
  /\ place = "weigh"
  /\ \E there \in {~log.hit_size_cap, FALSE} :
       Go("ingest", FirstOf(<< <<~there /\ log.hit_size_cap, "too_large">>,
                               <<~there \/ size = 0, "empty_download">>,
                               <<size > MaxBytes, "too_large">>,
                               <<TRUE, "fine">> >>))
  /\ UNCHANGED <<phase, own, met, log, medium, size, arrived>>

(* UrlSource: where the child says its file is, and ffprobe's word for it. *)
Probed ==
  CASE own = "unreadable" -> {Nothing, 0}
    [] own = "too_long"   -> {MaxDuration + 1}
    [] OTHER              -> 1..MaxDuration

Ingest(where, installed, length) ==
  /\ Tell(FirstOf(
       << <<where = "outside", "crashed">>,
          <<where = "gone", "empty_download">>,
          <<~installed, "no_ffprobe">>,
          <<length = Nothing, "unreadable">>,
          <<length # Nothing /\ check_duration(length) = "unsupported_format", "unreadable">>,
          <<length # Nothing /\ check_duration(length) = "too_long", "too_long">>,
          <<TRUE, "accepted">> >>))
  /\ UNCHANGED <<phase, own, met, log, medium, size, arrived>>

(* The child crashes, or its deadline passes.                              *)
InChild == place \in {"start", "ask", "extract", "check", "choose", "media", "get", "weigh"}

Dies ==
  /\ InChild
  /\ \/ Tell("crashed")
     \/ Tell(IF phase = "lookup" THEN "lookup_timeout" ELSE "download_timeout")
  /\ UNCHANGED <<phase, own, met, log, medium, size, arrived>>

(* The job is queued, and a worker downloads; or RQ tries a download again.*)
(* The video may have changed meanwhile.                                   *)
Retried ==
  /\ phase = "download" /\ verdict \in FetchKind
  /\ as_pipeline_error(verdict).retryable

Queued ==
  /\ place = "told"
  /\ (phase = "lookup" /\ verdict = "accepted") \/ Retried
  /\ phase' = "download" /\ place' = "start"
  /\ own' \in Faults \cup {Nothing}
  /\ met' = Unasked /\ log' = NoLog
  /\ medium' = Nothing /\ size' = 0 /\ arrived' = 0
  /\ verdict' = Nothing

LinkFetchNext ==
  \/ Busy \/ Starts \/ Ask \/ Outage \/ Extract
  \/ place = "check" /\ \E raw \in Metadata(own) : Check(raw)
  \/ /\ place = "choose"
     /\ \E audio \in IF own = "no_audio" THEN {{}} ELSE {{Sound}, {Muxed}, {Vague}} :
        \E offered \in [Clients -> SUBSET ({Picture, Storyboard} \union audio)] :
          /\ \A c \in Clients : offered[c] \in Offers(c, audio)
          /\ Choose(UNION {offered[c] : c \in Clients})
  \/ /\ place = "media"
     /\ \E leads \in MediaLeads, claimed \in BOOLEAN,
           bytes \in IF own = "too_large" THEN {MaxBytes + 1, MaxBytes + 2}
                                          ELSE 0..MaxBytes :
          CheckMedia(leads, bytes, claimed)
  \/ Unresolved \/ GiveUpQuietly \/ GetChunk \/ GetFails \/ GetEnds \/ Weigh
  \/ /\ place = "ingest"
     /\ \E where \in {"inside", "outside", "gone"}, installed \in BOOLEAN,
           length \in Probed : Ingest(where, installed, length)
  \/ Dies \/ Queued

LinkFetchSpec == LinkFetchInit /\ [][LinkFetchNext]_linkVars

-----------------------------------------------------------------------------
(* A link is refused, as unusable or as too long, only for what is the     *)
(* matter with that very video: not because YouTube throttles, withholds   *)
(* formats or is down, nor for what yt-dlp, the network or the disk did    *)
(* (classify, offers_only_video, check_info, _checked).                    *)
BlamedRight ==
  verdict \in FetchKind /\ Refuses(verdict) => verdict = own

(* What a lookup accepts, the metadata and the formats can be used; what a *)
(* download keeps has nothing the matter with it, came from YouTube's      *)
(* media hosts, and never put more than a chunk over the cap on the disk.  *)
AcceptedSound ==
  /\ arrived <= MaxBytes + 1
  /\ verdict = "accepted" =>
       /\ own \in {Nothing} \cup OnDisk
       /\ phase = "download" =>
            own = Nothing /\ medium = "googlevideo" /\ size \in 1..MaxBytes
=============================================================================
