--------------------------- MODULE Transcription ----------------------------
(***************************************************************************)
(* Transcription (worker/stages/transcription.py): what is kept of the     *)
(* notes the model predicts.  Faint ones go, then the model's harmonic     *)
(* ghosts.  Confidences are in hundredths.                                 *)
(***************************************************************************)
EXTENDS Integers, Sequences, TLC

CONSTANTS
  Predictions,     \* sequences of what predict returns
  MIN_CONFIDENCE,
  GHOST_LEAD,      \* GHOST_LEAD_SEC
  VoicingWindow,   \* VOICING_WINDOW_SEC
  Ratio,           \* settings.ghost_ratio, in hundredths
  AloneOnly        \* settings.ghost_alone_only

(* A note as the model predicts it.                                        *)
Prediction == [start : Int, end : Int, midi : Int, amplitude : Int]

ASSUME TranscriptionAssumption ==
  /\ Predictions \subseteq Seq(Prediction)
  /\ MIN_CONFIDENCE \in 0..100
  /\ GHOST_LEAD \in Nat
  /\ VoicingWindow \in Nat
  /\ Ratio \in 1..100
  /\ AloneOnly \in BOOLEAN

VARIABLES
  predicted,  \* the model's notes: [start, end, midi, amplitude]
  events,     \* the note events made of them, by their places in it
  ghosts,     \* places of those that are dropped
  transcript, \* the result
  heardTo     \* "nothing", "events" or "transcript"

transcriptionVars == <<predicted, events, ghosts, transcript, heardTo>>

GHOST_INTERVALS == {12, 19, 24}
MidiRange == 0..127

Clamped(amplitude) ==
  IF amplitude < 0 THEN 0 ELSE IF amplitude > 100 THEN 100 ELSE amplitude

Kept(note) == Clamped(note.amplitude) >= MIN_CONFIDENCE /\ note.midi \in MidiRange

NoteEvent(note) ==
  [onset |-> note.start, duration |-> note.end - note.start,
   midi |-> note.midi, confidence |-> Clamped(note.amplitude)]

-----------------------------------------------------------------------------
(* drop_ghosts                                                             *)

(* Is the note at b a base of the one at g: so far below it, sounding when *)
(* it starts, and so much the stronger?                                    *)
is_base(notes, b, g) ==
  /\ notes[g].midi - notes[b].midi \in GHOST_INTERVALS
  /\ notes[b].onset - GHOST_LEAD <= notes[g].onset
  /\ notes[g].onset <= notes[b].onset + notes[b].duration
  /\ 100 * notes[g].confidence < Ratio * notes[b].confidence

Bases(notes, g) == {b \in DOMAIN notes : is_base(notes, b, g)}

(* Mutant: the neighbours are only those that start no earlier.            *)
NeighboursAfter(notes, g) ==
  {o \in DOMAIN notes \ {g} : notes[o].onset - notes[g].onset \in 0..VoicingWindow}

Neighbours(notes, g) ==
  {o \in DOMAIN notes \ {g} :
     /\ notes[g].onset - VoicingWindow <= notes[o].onset
     /\ notes[o].onset <= notes[g].onset + VoicingWindow}

is_ghost(notes, g) ==
  /\ Bases(notes, g) # {}
  /\ AloneOnly => /\ Neighbours(notes, g) # {}
                  /\ Neighbours(notes, g) \subseteq Bases(notes, g)

-----------------------------------------------------------------------------
TranscriptionInit ==
  /\ predicted \in Predictions
  /\ events = <<>>
  /\ ghosts = {}
  /\ transcript = <<>>
  /\ heardTo = "nothing"

(* transcribe's loop.                                                      *)
TakesEvents ==
  /\ heardTo = "nothing" /\ heardTo' = "events"
  /\ events' = [i \in {i \in DOMAIN predicted : Kept(predicted[i])} |->
                  NoteEvent(predicted[i])]
  /\ ghosts' = {g \in DOMAIN events' : is_ghost(events', g)}
  /\ UNCHANGED <<predicted, transcript>>

(* The rest, by onset and then pitch.                                      *)
Before(m, n) == m.onset < n.onset \/ (m.onset = n.onset /\ m.midi < n.midi)

Transcribes ==
  /\ heardTo = "events" /\ heardTo' = "transcript"
  /\ LET stay == SelectSeq([i \in DOMAIN predicted |-> i],
                           LAMBDA i : i \in DOMAIN events \ ghosts)
     IN  transcript' = SortSeq([k \in DOMAIN stay |-> events[stay[k]]], Before)
  /\ UNCHANGED <<predicted, events, ghosts>>

TranscriptionNext == TakesEvents \/ Transcribes

TranscriptionSpec == TranscriptionInit /\ [][TranscriptionNext]_transcriptionVars

-----------------------------------------------------------------------------
(* Dropping ghosts makes no onset fall silent, and takes no base along:    *)
(* whatever starts together with a dropped note is a base of it, and       *)
(* stays.                                                                  *)
GhostsLeaveBases ==
  AloneOnly =>
    \A g \in ghosts :
      /\ Neighbours(events, g) # {}
      /\ \A b \in Neighbours(events, g) : b \notin ghosts /\ is_base(events, b, g)
=============================================================================
