-------------------------------- MODULE Links --------------------------------
(***************************************************************************)
(* Links (packages/fetch/links.py): the one video a pasted text names, or  *)
(* why it names none.  A text is given by its parts, not its characters:   *)
(*   text     what it is made of: "plain", or what no link is              *)
(*   scheme   what stands before the host: "" for nothing, "//", a scheme, *)
(*            or a host and a port that look like one                      *)
(*   host     "" for none                                                  *)
(*   dressed  user info or a port on the host, or a name not in ASCII      *)
(*   path, v  the path's segments, the query's values of `v`               *)
(***************************************************************************)
EXTENDS Rules

CONSTANTS
  Videos,    \* the videos' ids
  NoVideo    \* None

RefusalKind == {"not_a_link", "bad_scheme", "unsupported_site", "not_a_video"}

(* Eleven characters each, but no video's.                                 *)
NOT_IDS == {"videoseries", "live_stream"}

ASSUME LinksAssumption ==
  /\ NoVideo \notin Videos \union NOT_IDS
  /\ Videos \intersect (RefusalKind \union NOT_IDS) = {}

ShortHost == "youtu.be"
Hosts     == {"youtube.com", "music.youtube.com", ShortHost}

(* Mutant: what the path names after `embed` is a video.                   *)
youtube_id_of_any(raw) ==
  LET candidate ==
        IF raw.host = ShortHost
        THEN IF Len(raw.path) = 1 THEN raw.path[1] ELSE NoVideo
        ELSE IF raw.path = <<"watch">>
             THEN IF Len(raw.v) = 1 THEN raw.v[1] ELSE NoVideo
             ELSE IF Len(raw.path) = 2 THEN raw.path[2] ELSE NoVideo
  IN IF candidate \in Videos \union NOT_IDS THEN candidate ELSE NoVideo

(* The one video a YouTube URL names, or NoVideo when it names anything    *)
(* else: a playlist, a channel, two videos.                                *)
youtube_id(raw) ==
  LET candidate ==
        IF raw.host = ShortHost
        THEN IF Len(raw.path) = 1 THEN raw.path[1] ELSE NoVideo
        ELSE IF raw.path = <<"watch">>
             THEN IF Len(raw.v) = 1 THEN raw.v[1] ELSE NoVideo
             ELSE IF Len(raw.path) = 2 /\ raw.path[1] \in {"shorts", "live", "embed", "v"}
                     /\ raw.path[2] \notin NOT_IDS
                  THEN raw.path[2] ELSE NoVideo
  IN IF candidate \in Videos \union NOT_IDS THEN candidate ELSE NoVideo

(* https:// is put before a host, and before a host and port that look     *)
(* like a scheme: that one has a dot.                                      *)
with_scheme(scheme) == IF scheme \in {"", "//", "host:port"} THEN "https" ELSE scheme

(* A plain host name and nothing else, or why it is refused.               *)
host_fault(raw) ==
  FirstOf(
    << <<raw.host = "", "not_a_link">>,
       <<raw.dressed \/ raw.scheme = "host:port" \/ raw.host = "address", "unsupported_site">>,
       <<TRUE, "fine">> >>)

parse(raw) ==
  FirstOf(
    << <<raw.text \in {"blank", "long", "backslash", "control", "unbalanced"}, "not_a_link">>,
       <<with_scheme(raw.scheme) \notin {"http", "https"}, "bad_scheme">>,
       <<host_fault(raw) # "fine", host_fault(raw)>>,
       <<raw.host \notin Hosts, "unsupported_site">>,
       <<youtube_id(raw) = NoVideo, "not_a_video">>,
       <<TRUE, youtube_id(raw)>> >>)
=============================================================================
