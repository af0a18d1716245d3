---------------------------- MODULE MediaElement ----------------------------
(***************************************************************************)
(* The <audio> element, as web/src/playback/engine.ts drives and hears it. *)
(* Its methods act at once; what it has to say waits in the page's queue   *)
(* of tasks until the script that runs has ended.  A new src throws away   *)
(* what waits, and pauses the element without a word.                      *)
(*                                                                         *)
(* An element is the fields below of a larger record; an operator takes    *)
(* one and returns it changed.                                             *)
(***************************************************************************)
EXTENDS Naturals, Sequences, SequencesExt

CONSTANTS
  Sources,   \* the tracks
  Length,    \* of the song, in steps of playback
  Cut        \* where the file of a track breaks off; past Length if it does not

ASSUME ElementAssumption ==
  /\ Length \in Nat \ {0}
  /\ Cut \in [Sources -> Nat]

Places == 0..Length

(* An "ended" task fires timeupdate, pause and ended in turn; a "pause"    *)
(* task timeupdate and pause.                                              *)
EventNames == {"loadedmetadata", "play", "pause", "timeupdate", "ended", "error"}

Ended(m) == m.ready = "metadata" /\ m.place = Length

(* A reading that waits already tells of a newer position, too.            *)
Queue(m, event) ==
  IF event = "timeupdate" /\ Contains(m.events, event)
  THEN m
  ELSE [m EXCEPT !.events = Append(@, event)]

ElementPlay(m) ==
  IF m.paused THEN Queue([m EXCEPT !.paused = FALSE], "play") ELSE m

ElementPause(m) ==
  IF m.paused THEN m ELSE Queue([m EXCEPT !.paused = TRUE], "pause")

ElementSeek(m, t) == Queue([m EXCEPT !.place = t], "timeupdate")

ElementLoad(m, fetched) ==
  [m EXCEPT !.src = fetched, !.ready = "nothing", !.paused = TRUE, !.place = 0,
            !.events = IF m.place = 0 THEN <<>> ELSE <<"timeupdate">>]

-----------------------------------------------------------------------------
(* What it does by itself, and where it can.                               *)

Loads(m) == m.ready = "nothing"

Loaded(m) == Queue([m EXCEPT !.ready = "metadata"], "loadedmetadata")

(* No such file, a link that has expired, or a connection lost.            *)
Breaks(m) == m.ready \in {"nothing", "metadata"}

Broken(m) == Queue([m EXCEPT !.ready = "failed"], "error")

(* The file ends where it should go on.                                    *)
BreaksOff(m) ==
  /\ m.ready = "metadata"
  /\ \/ m.place >= Cut[m.src]
     \/ ~m.paused /\ m.place < Length /\ m.place + 1 >= Cut[m.src]

Advances(m) ==
  /\ m.ready = "metadata"
  /\ ~m.paused
  /\ m.place < Length /\ m.place + 1 < Cut[m.src]

Advanced(m) == ElementSeek(m, m.place + 1)

ReachesEnd(m) == Ended(m) /\ ~m.paused /\ ~Contains(m.events, "ended")

(* The first part of the "ended" task: it stops, if it is still there.     *)
StopsAtEnd(m) == Ended(m) /\ ~m.paused
Stopped(m) == [m EXCEPT !.paused = TRUE]
=============================================================================
