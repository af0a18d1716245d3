----------------------------- MODULE Structure ------------------------------
(***************************************************************************)
(* Musical structure (worker/stages/structure.py): beats from the mix,     *)
(* chords from the stem, each of which may fail without the other.  Labels *)
(* and times are what the models find; chord confidences are left out.     *)
(***************************************************************************)
EXTENDS Loops, FiniteSetsExt

CONSTANTS
  Grids,      \* sequences of beat times that tracking may find, rising
  Durations,  \* of the stem
  FrameStep,      \* how far apart the frames of the chroma are
  Second,     \* a second, in the unit of the times
  Symbols,    \* chord names
  beats_per_bar,
  None

ASSUME StructureAssumption ==
  /\ Durations \subseteq Nat
  /\ \A times \in Grids :
       /\ times \in Seq(Nat)
       /\ \A k \in 2..Len(times) : times[k - 1] < times[k]
  /\ FrameStep \in Nat \ {0}
  /\ Second \in Nat \ {0}
  /\ beats_per_bar \in Nat \ {0}
  /\ None \notin Symbols

VARIABLES
  duration,
  grid,      \* beat_times
  labels,    \* of the segments scored so far
  analysis,  \* the result
  step       \* "beats", "chords", "done"

structureVars == <<duration, grid, labels, analysis, step>>

-----------------------------------------------------------------------------
beats_to_events(times) ==
  [k \in DOMAIN times |->
     [t |-> times[k], bar |-> ((k - 1) \div beats_per_bar) + 1,
      beat |-> ((k - 1) % beats_per_bar) + 1]]

(* Mutant: one beat is a grid.                                             *)
SegmentsOfOne(times) ==
  IF Len(times) >= 1 THEN times
  ELSE [k \in 1..((duration + Second - 1) \div Second) |-> Second * (k - 1)]

(* The segments' starts: the beats, or every second without a grid.        *)
Segments(times) ==
  IF Len(times) >= 2 THEN times
  ELSE [k \in 1..((duration + Second - 1) \div Second) |-> Second * (k - 1)]

SegmentEnd(segments, k) == IF k < Len(segments) THEN segments[k + 1] ELSE duration

(* Does a frame of the chroma lie in the segment?                          *)
Scored(segments, k) ==
  \E f \in 0..(duration \div FrameStep) :
    segments[k] <= f * FrameStep /\ f * FrameStep < SegmentEnd(segments, k)

(* The places where a run of equal labels begins.                          *)
RunStarts(symbols) ==
  {k \in DOMAIN symbols : k = 1 \/ symbols[k] # symbols[k - 1]}

RunStop(symbols, k) ==
  Min({j \in RunStarts(symbols) : j > k} \cup {Len(symbols) + 1})

(* Mutant: a chord is held to where its last segment begins.               *)
HeldShort(symbols, times, k) == times[RunStop(symbols, k) - 1] - times[k]

(* How long the chord of a run is held; not less than no time, for a last  *)
(* beat after the end.                                                     *)
HeldFor(symbols, times, k) ==
  LET run_end == RunStop(symbols, k)
      stop == IF run_end <= Len(times) THEN times[run_end] ELSE duration
  IN  Max({0, stop - times[k]})

merge_chords(symbols, times) ==
  Picked(Len(symbols), {k \in RunStarts(symbols) : symbols[k] # None},
         [k \in DOMAIN symbols |->
            [t |-> times[k], dur |-> HeldFor(symbols, times, k), symbol |-> symbols[k]]])

-----------------------------------------------------------------------------
StructureInit ==
  /\ duration \in Durations
  /\ grid = <<>>
  /\ labels = <<>>
  /\ analysis = [beats |-> <<>>, chords |-> <<>>, warnings |-> {}]
  /\ step = "beats"

(* analyze's first try: without beats there is a warning, and no grid.     *)
TracksBeats ==
  /\ step = "beats" /\ step' = "chords"
  /\ \/ \E times \in Grids :
          /\ grid' = times
          /\ analysis' = [analysis EXCEPT !.beats = beats_to_events(times)]
     \/ /\ grid' = <<>>
        /\ analysis' = [analysis EXCEPT !.warnings = {"beats"}]
  /\ UNCHANGED <<duration, labels>>

(* A segment is labelled, or not: when it is silent, when no chord fits,   *)
(* when no frame falls in it.                                              *)
Labels ==
  LET segments == Segments(grid)
      k == Len(labels) + 1
  IN  /\ step = "chords" /\ k <= Len(segments)
      /\ \E symbol \in (IF Scored(segments, k) THEN Symbols ELSE {}) \cup {None} :
           labels' = Append(labels, symbol)
      /\ UNCHANGED <<duration, grid, analysis, step>>

(* Its second try.                                                         *)
DetectsChords ==
  /\ step = "chords" /\ step' = "done"
  /\ \/ /\ Len(labels) = Len(Segments(grid))
        /\ analysis' = [analysis EXCEPT !.chords = merge_chords(labels, Segments(grid))]
     \/ analysis' = [analysis EXCEPT !.warnings = @ \cup {"chords"}]
  /\ UNCHANGED <<duration, grid, labels>>

StructureNext == TracksBeats \/ Labels \/ DetectsChords

StructureSpec == StructureInit /\ [][StructureNext]_structureVars

-----------------------------------------------------------------------------
(* Without a warning the chord track says, at every time, what the segment *)
(* there was labelled: one chord while the label holds, begun where it     *)
(* first did, and none where there is no label.  This with a grid or       *)
(* without, and when the last beat lies past the end.                      *)
ChordsHold ==
  step = "done" /\ "chords" \notin analysis.warnings =>
    LET segments == Segments(grid)
        chords == analysis.chords
        at(t) == {k \in DOMAIN segments : segments[k] <= t /\ t < SegmentEnd(segments, k)}
        held(t) == {n \in DOMAIN chords : chords[n].t <= t /\ t < chords[n].t + chords[n].dur}
    IN  /\ \A t \in 0..duration :
             {chords[n].symbol : n \in held(t)} = {labels[k] : k \in at(t)} \ {None}
        /\ \A n \in 2..Len(chords) :
             /\ chords[n - 1].t + chords[n - 1].dur <= chords[n].t
             /\ chords[n - 1].symbol = chords[n].symbol =>
                  \E k \in DOMAIN labels : /\ labels[k] = None
                                           /\ chords[n - 1].t < segments[k]
                                           /\ segments[k] < chords[n].t
        /\ Len(grid) < 2 => \A t \in 0..(duration - 1) : at(t) # {}
=============================================================================
