------------------------------- MODULE Views --------------------------------
(***************************************************************************)
(* What the views draw of a song at a frame: the tab strip (tab/layout.ts),*)
(* the guitar (guitar/sounding.ts, notes.ts), and the chord lane, overlay  *)
(* and sidebar that follow the playhead (playback/follow.ts).  Each keeps  *)
(* cursors of its own; the playhead moves on, stands, or is sought away.   *)
(***************************************************************************)
EXTENDS Confidence

CONSTANTS
  Docs,       \* the documents opened
  Times,      \* where the playhead may be
  Widths,     \* of the strip, in time
  MIN_LIT,
  StringsDrawn  \* of the tuning, from 0

(* What the document's schema lets through; and its notes end some time.   *)
Documents ==
  {doc \in [notes  : Seq([t : Nat, dur : Nat, string : Nat, fret : Nat, confidence : Nat]),
            chords : Seq([t : Nat, dur : Nat]),
            beats  : Seq([t : Nat, dur : Nat, beat : Nat])] :
     \A i \in DOMAIN doc.notes : doc.notes[i].t + doc.notes[i].dur < PositiveInfinity}

(* How much of the strip is left of the playhead: PLAYHEAD_AT.             *)
Behind(wide) == wide \div 5

(* A strip is wider than 113 pixels, so that what is left of the playhead  *)
(* is as long as the shortest light.                                       *)
ASSUME ViewsAssumption ==
  /\ Docs \subseteq Documents
  /\ Times \subseteq Int
  /\ MIN_LIT \in Nat
  /\ \A wide \in Widths : wide \in Nat /\ MIN_LIT <= Behind(wide)
  /\ StringsDrawn \subseteq Nat

VARIABLES
  opened,    \* what buildSong made of the document
  width,     \* of the strip
  cursors,   \* each view's own
  strip,     \* what the strip last drew
  guitar,    \* what the guitar last drew
  lane       \* useFollowed's value: a Position in the chords

viewsVars == <<opened, width, cursors, strip, guitar, lane>>

-----------------------------------------------------------------------------
(* The strip.                                                              *)

(* Mutant: the passages are read no further back than the screen.          *)
SinceEdge(notes, found, from) == from

(* The earliest onset in play: a long note may have begun in a passage     *)
(* that is over.                                                           *)
Since(notes, found, from) ==
  Min({from} \cup {Nth(notes, i).t : i \in found})

overlaps(from, to, p) == from < p.t + p.dur /\ to > p.t

(* layout, at a frame: the cursors it leaves are given.                    *)
layout(at, now, wide) ==
  LET from == now - Behind(wide)
      to == from + wide
      hidden == inWindow(opened.hidden, from, to)
      notes == Found(at.strip, opened.notes)
      near == inWindow(opened.hidden, Since(opened.notes, notes, from), to)
      shown == {i \in notes : /\ Nth(opened.notes, i).string \in StringsDrawn
                              /\ ~isHidden(opened.hidden, near, Nth(opened.notes, i).t)}
  IN  [now |-> now,
       notes |-> shown,
       sounding |-> {i \in shown : Nth(opened.notes, i).t <= now /\ now <= End(opened.notes, i)},
       past |-> {i \in shown : End(opened.notes, i) < now},
       bars |-> {i \in inWindow(opened.beats, from, to) : Nth(opened.beats, i).beat = 1},
       unclear |-> {i \in hidden : ~Nth(opened.chorded, i)},
       bands |-> hidden,
       chords |-> Found(at.stripChords, opened.chords),
       large |-> {i \in Found(at.stripChords, opened.chords) :
                    \E p \in hidden : overlaps(Nth(opened.chords, i).t, End(opened.chords, i),
                                               Nth(opened.hidden, p))}]

-----------------------------------------------------------------------------
(* The guitar.                                                             *)

(* litUntil: a note is lit to its end, for MIN_LIT at the least, and no    *)
(* longer than to the next onset on its string.                            *)
Held(note) == note.t + Max({note.dur, MIN_LIT})

(* Mutant: a later note does not end an earlier one.                       *)
litUntilHeld(notes, i) == Held(Nth(notes, i))

litUntil(notes, i) ==
  LET later == {k \in Indices(notes) : k > i /\ Nth(notes, k).string = Nth(notes, i).string}
  IN  IF later = {} THEN Held(Nth(notes, i))
      ELSE Min({Held(Nth(notes, i)), Nth(notes, Min(later)).t})

OnNeck(note) == note.string \in StringsDrawn /\ note.fret >= 0

(* sounding, at a frame.  At most one note is lit on a string, the latest. *)
sounding(at, now) ==
  LET found == Found(at.guitar, opened.notes)
      near == inWindow(opened.hidden, Since(opened.notes, found, now), now)
      open == {i \in found :
                 LET note == Nth(opened.notes, i) IN
                 /\ OnNeck(note)
                 /\ ~isHidden(opened.hidden, near, note.t)
                 /\ note.t <= now /\ now <= litUntil(opened.notes, i)}
      empty == opened.notes = <<>>
      unclear == isHidden(opened.hidden, near, now)
      chord == Latest(Found(at.guitarChords, opened.chords))
  IN  [notes |-> {i \in open : \A k \in open :
                    Nth(opened.notes, k).string = Nth(opened.notes, i).string => k <= i},
       message |-> CASE empty                              -> "no notes"
                     [] ~empty /\ unclear /\ chord = -1    -> "unclear"
                     [] ~empty /\ unclear /\ chord # -1    -> "chord"
                     [] OTHER                              -> "none",
       chord |-> IF unclear /\ ~empty THEN chord ELSE -1]

-----------------------------------------------------------------------------
(* Where each cursor is after a frame.  The guitar of a song without notes *)
(* reads nothing, and asks for the chords only in a hidden passage.        *)
CursorsAt(was, now, wide) ==
  LET from == now - Behind(wide)
      to == from + wide
      played == Moved(was.guitar, opened.notes, now - MIN_LIT, now)
      near == inWindow(opened.hidden,
                       Since(opened.notes, Found(played, opened.notes), now), now)
  IN  [strip        |-> Moved(was.strip, opened.notes, from, to),
       stripChords  |-> Moved(was.stripChords, opened.chords, from, to),
       guitar       |-> IF opened.notes = <<>> THEN was.guitar ELSE played,
       guitarChords |-> IF opened.notes # <<>> /\ isHidden(opened.hidden, near, now)
                        THEN Moved(was.guitarChords, opened.chords, now, now)
                        ELSE was.guitarChords,
       lane         |-> Moved(was.lane, opened.chords, now, now)]

NewCursors ==
  [view \in {"strip", "stripChords", "guitar", "guitarChords", "lane"} |-> NewCursor]

(* Mutant: the state is set only when another chord is the current one.    *)
FollowedCurrent(last, new) == IF last.current = new.current THEN last ELSE new

(* useFollowed, with samePosition: set when it differs.                    *)
Followed(last, new) == IF last = new THEN last ELSE new

ViewsInit ==
  /\ \E doc \in Docs : opened = buildSong(doc)
  /\ width \in Widths
  /\ \E now \in Times :
       /\ cursors = CursorsAt(NewCursors, now, width)
       /\ strip = layout(cursors, now, width)
       /\ guitar = sounding(cursors, now)
       /\ lane = At(NewCursor, opened.chords, now)

Draws(now, wide) ==
  LET at == CursorsAt(cursors, now, wide) IN
  /\ cursors' = at
  /\ strip' = layout(at, now, wide)
  /\ guitar' = sounding(at, now)
  /\ lane' = Followed(lane, At(cursors.lane, opened.chords, now))

Frame ==
  /\ \E now \in Times : Draws(now, width)
  /\ UNCHANGED <<opened, width>>

Resizes ==
  \E wide \in Widths \ {width} :
    /\ width' = wide
    /\ Draws(strip.now, wide)
    /\ UNCHANGED opened

ViewsNext == Frame \/ Resizes

ViewsSpec == ViewsInit /\ [][ViewsNext]_viewsVars

-----------------------------------------------------------------------------
(* The definitions that the views are held to.                             *)

Notes == Indices(opened.notes)
Onset(i) == Nth(opened.notes, i).t
Weak(t) == \A i \in Notes : Onset(i) = t => Nth(opened.notes, i).confidence < Hide

(* Do the onsets from a to b follow on each other, all weak?               *)
Together(a, b) ==
  \A i \in Notes :
    a <= Onset(i) /\ Onset(i) <= b =>
      /\ Weak(Onset(i))
      /\ Onset(i) < b => \E k \in Notes : /\ Onset(i) < Onset(k) /\ Onset(k) <= b
                                          /\ Onset(k) - Onset(i) <= MAX_GAP

(* Is a note one of a run of weak notes, that goes on when it begins?      *)
Unclear(i) ==
  LET run == {k \in Notes : Together(Min({Onset(i), Onset(k)}),
                                     Max({Onset(i), Onset(k)}))}
  IN  /\ Cardinality(run) >= MIN_RUN
      /\ \E k \in run : End(opened.notes, k) > Onset(i)

Overlapping(items, from, to) ==
  {i \in Indices(items) : Nth(items, i).t <= to /\ End(items, i) >= from}

(* However the playhead got where it is, the strip shows the notes of its  *)
(* window that are clear, the guitar the last one on each string, until it *)
(* ends or another begins, and the lane the chord that sounds.  The views  *)
(* agree: over an unclear passage, which the strip has a band over, the    *)
(* guitar writes the lane's chord, if there is one; and it lights no note  *)
(* that the strip hides.                                                   *)
ViewsRight ==
  LET now == strip.now
      from == now - Behind(width)
      to == from + width
      clear == {i \in Notes : ~Unclear(i)}
      lit(i) == /\ Onset(i) <= now /\ now <= Held(Nth(opened.notes, i))
                /\ OnNeck(Nth(opened.notes, i))
                /\ \A k \in Notes :
                     k > i /\ Nth(opened.notes, k).string = Nth(opened.notes, i).string =>
                       \/ Onset(k) > now
                       \/ Onset(k) = now /\ Unclear(k)
  IN  /\ strip.notes = {i \in Overlapping(opened.notes, from, to) \cap clear :
                          Nth(opened.notes, i).string \in StringsDrawn}
      /\ strip.chords = Overlapping(opened.chords, from, to)
      /\ strip.bands = Overlapping(opened.hidden, from, to)
      /\ guitar.notes = {i \in clear : lit(i)} /\ guitar.notes \subseteq strip.notes
      /\ lane.current = Latest(Overlapping(opened.chords, now, now))
      /\ lane.next = Cardinality({i \in Indices(opened.chords) : Nth(opened.chords, i).t <= now})
      /\ guitar.message \in {"chord", "unclear"} =>
           /\ guitar.chord = lane.current
           /\ \E p \in strip.bands : /\ Nth(opened.hidden, p).t <= now
                                     /\ now < End(opened.hidden, p)
=============================================================================
