-------------------------- MODULE MCPlaybackEngine --------------------------
(* The engine for TLC: the mix breaks off, the guitar does not.            *)
EXTENDS PlaybackEngine, TLC

MCCut == [s \in Sources |-> IF s = "mix" THEN 3 ELSE Length + 1]
=============================================================================
