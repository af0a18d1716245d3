---------------------------- MODULE FetchCatalog ----------------------------
(***************************************************************************)
(* The catalog of failures (packages/fetch/catalog.py): what becomes of a  *)
(* link that fails, by the kind of its failure.  The words for the user    *)
(* are left out.                                                           *)
(***************************************************************************)
EXTENDS Naturals

FetchKind ==
  {"private", "unavailable", "geo_restricted", "age_restricted", "members_only",
   "live", "upcoming", "post_live", "no_duration", "too_long", "no_audio",
   "rate_limited", "network", "lookup_timeout", "extractor_broken",
   "misconfigured", "unknown", "crashed", "download_timeout", "media_refused",
   "too_large", "empty_download", "local_io", "unreadable", "busy"}

(* `rq`: the worker's attempt is retried; `later`: it may work later, but  *)
(* nothing retries it; `no`: it fails the same way again.                  *)
Retries == {"no", "later", "rq"}

Entry(reason, status, retry) ==
  [reason |-> reason, status |-> status, retry |-> retry]

CATALOG ==
  [kind \in FetchKind |->
     CASE kind \in {"live", "upcoming", "post_live"} -> Entry("link_unusable", 422, "later")
       [] kind = "too_long"         -> Entry("too_long", 422, "no")
       [] kind = "rate_limited"     -> Entry("fetch_failed", 503, "later")
       [] kind = "network"          -> Entry("fetch_failed", 502, "rq")
       [] kind = "lookup_timeout"   -> Entry("fetch_failed", 504, "later")
       [] kind = "extractor_broken" -> Entry("fetch_failed", 502, "later")
       [] kind \in {"misconfigured", "busy"} -> Entry("fetch_failed", 503, "later")
       [] kind \in {"unknown", "empty_download"} -> Entry("fetch_failed", 502, "rq")
       [] kind \in {"crashed", "local_io"} -> Entry("internal", 500, "rq")
       [] kind = "download_timeout" -> Entry("fetch_failed", 504, "rq")
       [] kind = "media_refused"    -> Entry("fetch_failed", 502, "no")
       [] OTHER                     -> Entry("link_unusable", 422, "no")]

(* What the user reads as a fault of the video, and looks for another.     *)
Refuses(kind) == CATALOG[kind].reason \in {"link_unusable", "too_long"}

as_pipeline_error(kind) ==
  [reason |-> CATALOG[kind].reason, retryable |-> CATALOG[kind].retry = "rq"]
=============================================================================
