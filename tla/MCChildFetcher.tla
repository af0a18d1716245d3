--------------------------- MODULE MCChildFetcher ---------------------------
(* A lookup and a download for TLC.                                        *)
EXTENDS ChildFetcher, TLC
=============================================================================
