----------------------------- MODULE Fretboard ------------------------------
(***************************************************************************)
(* The fretboard mapper (worker/stages/fretboard.py): notes are grouped    *)
(* into voicings, a voicing no hand can play loses its least certain       *)
(* notes, and a Viterbi search finds the cheapest fingerings.  Each        *)
(* stage is an action, each voicing a step of it.  Times and costs are     *)
(* integers here, so the rounding of totals has nothing to do.             *)
(***************************************************************************)
EXTENDS Loops, FiniteSetsExt, SequencesExt

CONSTANTS
  Songs,     \* sequences of notes: [onset, duration, midi, confidence]
  Tuning,    \* the pitch of each open string
  Window,    \* VOICING_WINDOW_SEC
  costs      \* MapperCosts, in units that make them integers

NoteEvents == [onset : Int, duration : Int, midi : Int, confidence : Int]

(* What __post_init__ refuses is not.                                      *)
ASSUME FretboardAssumption ==
  /\ Songs \subseteq Seq(NoteEvents)
  /\ Tuning \in Seq(Int)
  /\ Window \in Nat
  /\ costs \in [move_weight : Nat, span_weight : Nat, height_weight : Nat,
                open_reach : Nat, open_weight : Nat, ring_weight : Nat,
                ring_tolerance : Nat, gap_weight : Nat, max_fret : Nat,
                max_span : Nat, hand_window : Nat \ {0}, beam : Nat \ {0}]

VARIABLES
  song,      \* the notes given
  stage,     \* "group", then "search", then "done"
  voicings,  \* sequences of notes, once grouped
  options,   \* of each voicing that has been fitted, its fingerings
  dropped,   \* notes of chords no hand could play
  history,   \* of each voicing searched, its states; first the empty hand
  tab        \* the result

vars == <<song, stage, voicings, options, dropped, history, tab>>

Strings == DOMAIN Tuning
FINGERS_BEYOND_BARRE == 3
Nowhere == 0     \* where the hand is until a voicing is fretted

-----------------------------------------------------------------------------
(* The fingerings of one voicing.                                          *)

(* The strings that sound this note's pitch.                               *)
Candidates(note) ==
  {s \in Strings : note.midi - Tuning[s] \in 0..costs.max_fret}

(* Ways to put each note of a voicing on a string of its own.              *)
Shapes(voicing) ==
  {shape \in [DOMAIN voicing -> Strings] :
     /\ IsInjective(shape)
     /\ \A i \in DOMAIN voicing : shape[i] \in Candidates(voicing[i])}

Frets(voicing, shape) ==
  [i \in DOMAIN shape |-> voicing[i].midi - Tuning[shape[i]]]

(* The lowest and the highest fretted fret; none when every string is open.*)
Low(frets) ==
  LET fretted == Range(frets) \ {0}
  IN  IF fretted = {} THEN Nowhere ELSE Min(fretted)
High(frets) ==
  LET fretted == Range(frets) \ {0}
  IN  IF fretted = {} THEN Nowhere ELSE Max(fretted)

(* Can a hand hold it?  The index finger bars the lowest fret.             *)
Holdable(frets) ==
  /\ High(frets) - Low(frets) <= costs.max_span
  /\ Cardinality({i \in DOMAIN frets : frets[i] > Low(frets)})
       <= FINGERS_BEYOND_BARRE

Playable(voicing) ==
  {shape \in Shapes(voicing) : Holdable(Frets(voicing, shape))}

(* Strings left out between the outer two of a chord.                      *)
Gap(shape) ==
  IF Len(shape) < 3 THEN 0
  ELSE Max(Range(shape)) - Min(Range(shape)) + 1 - Len(shape)

(* A note that every playable fingering plays open is exempt from charges. *)
Exempt(voicing) ==
  {i \in DOMAIN voicing :
     \A shape \in Playable(voicing) : Frets(voicing, shape)[i] = 0}

Fingering(voicing, exempt, shape) ==
  LET frets == Frets(voicing, shape)
      open  == {i \in DOMAIN frets : frets[i] = 0}
  IN [strings |-> shape,
      frets   |-> frets,
      opens   |-> Cardinality(open \ exempt),
      cost    |-> costs.span_weight * (High(frets) - Low(frets))
                    + costs.height_weight * Low(frets)
                    + costs.gap_weight * Gap(shape)]

(* tie_key: lower frets first, then lower strings.                         *)
TieBefore(f, g) ==
  LET sum(h) == Summed(Len(h.frets), h.frets)
  IN \/ sum(f) < sum(g)
     \/ /\ sum(f) = sum(g)
        /\ \E i \in DOMAIN f.strings :
             /\ f.strings[i] < g.strings[i]
             /\ \A j \in 1..(i - 1) : f.strings[j] = g.strings[j]

(* order_key: cheapest first.                                              *)
OrderBefore(f, g) == f.cost < g.cost \/ (f.cost = g.cost /\ TieBefore(f, g))

(* Those the beam keeps: fewer than its width come before them.            *)
Beamed(voicing) ==
  LET exempt == Exempt(voicing)
      found == {Fingering(voicing, exempt, s) : s \in Playable(voicing)}
  IN {f \in found : Cardinality({g \in found : OrderBefore(g, f)}) < costs.beam}

(* Mutant: in the order the beam kept them in.                             *)
FingeringsByCost(voicing) ==
  InOrder([f \in Beamed(voicing) |-> {g \in Beamed(voicing) : OrderBefore(g, f)}])

(* _fingerings: those the beam keeps, in tie order.                        *)
Fingerings(voicing) ==
  InOrder([f \in Beamed(voicing) |-> {g \in Beamed(voicing) : TieBefore(g, f)}])

-----------------------------------------------------------------------------
(* What it costs to go from one voicing to the next.                       *)

(* Where the hand lands: it moves the shortest way that makes a shape fit. *)
Landing(hand, f) ==
  LET low == Low(f.frets)
      reach == High(f.frets) - (costs.hand_window - 1)
  IN IF low = Nowhere THEN hand
     ELSE IF hand = Nowhere THEN low
     ELSE Min({Max({hand, Min({reach, low})}), low})

(* _transition: the move, and the open strings below where the hand lands. *)
Move(hand, f) ==
  LET landing == Landing(hand, f)
  IN (IF hand = Nowhere THEN 0 ELSE costs.move_weight
                                  * Max({hand - landing, landing - hand}))
       + costs.open_weight * f.opens * Max({0, landing - costs.open_reach})

(* _ring: strings used whose last note is still sounding.                  *)
Ring(before, held, voicing, f) ==
  LET limit == voicing[1].onset + costs.ring_tolerance
      ringing == {i \in DOMAIN before :
                    /\ held.strings[i] \in Range(f.strings)
                    /\ before[i].onset + before[i].duration > limit}
  IN costs.ring_weight * Cardinality(ringing)

(* A state of the search: the fingering's place in options, and the hand.  *)
Start == <<0, Nowhere>>
StateBefore(s, t) == s[1] < t[1] \/ (s[1] = t[1] /\ s[2] < t[2])

(* What it adds to play fingering i of voicing k out of state s.           *)
Added(k, s, i) ==
  LET f == options[k][i]
  IN f.cost + Move(s[2], f)
       + (IF k = 1 THEN 0
          ELSE Ring(voicings[k - 1], options[k - 1][s[1]], voicings[k], f))

(* Mutant: an open voicing forgets the hand.                               *)
IntoForgetting(k, s, i) ==
  <<i, IF Low(options[k][i].frets) = Nowhere THEN Nowhere
       ELSE Landing(s[2], options[k][i])>>

(* Where it leads.                                                         *)
Into(k, s, i) == <<i, Landing(s[2], options[k][i])>>

(* Is one that reaches a state at this total kept, over another?           *)
Preferred(total, s, other, r) ==
  total < other \/ (total = other /\ (s = r \/ StateBefore(s, r)))

(* Of states with their totals, the one kept.                              *)
Best(total) ==
  CHOOSE s \in DOMAIN total : \A r \in DOMAIN total :
    Preferred(total[s], s, total[r], r)

(* The states of voicing k: total, and the best state before.              *)
Reached(k, earlier) ==
  LET current == DOMAIN options[k]
      total(s, i) == earlier[s].total + Added(k, s, i)
      ways(t) == {s \in DOMAIN earlier : Into(k, s, t[1]) = t}
      best(t) == Best([s \in ways(t) |-> total(s, t[1])])
  IN [t \in {Into(k, s, i) : s \in DOMAIN earlier, i \in current} |->
        [total |-> total(best(t), t[1]), before |-> best(t)]]

(* The states along the cheapest path.                                     *)
Backtrack(states) ==
  LET n == Len(states)
      last == states[n]
      final == Best([s \in DOMAIN last |-> last[s].total])
      back[j \in 0..(n - 1)] ==
        IF j = 0 THEN final ELSE states[n - j + 1][back[j - 1]].before
  IN [k \in 1..n |-> back[n - k]]

-----------------------------------------------------------------------------
(* assign                                                                  *)

(* Mutant: notes out of range stay in.                                     *)
PlaceableAll(notes) == DOMAIN notes

(* The notes that some string sounds.                                      *)
Placeable(notes) == {n \in DOMAIN notes : Candidates(notes[n]) # {}}

(* A stable sort by onset, then pitch, of the notes at the places.         *)
Sorted(notes, places) ==
  LET before(i, j) ==
        \/ notes[i].onset < notes[j].onset
        \/ /\ notes[i].onset = notes[j].onset
           /\ \/ notes[i].midi < notes[j].midi
              \/ notes[i].midi = notes[j].midi /\ i < j
      order == InOrder([j \in places |-> {i \in places : before(i, j)}])
  IN [k \in DOMAIN order |-> notes[order[k]]]

(* Mutant: anchored to its latest note.                                    *)
JoinsChain(note, voicing) == note.onset - Last(voicing).onset <= Window

(* Does a note join the voicing?  The window is anchored to its first note.*)
Joins(note, voicing) == note.onset - voicing[1].onset <= Window

(* _group, of sorted notes.                                                *)
Grouped(notes) ==
  LET groups[k \in 0..Len(notes)] ==
        IF k = 0 THEN <<>>
        ELSE IF k > 1 /\ Joins(notes[k], Last(groups[k - 1]))
        THEN Append(Front(groups[k - 1]), Append(Last(groups[k - 1]), notes[k]))
        ELSE Append(groups[k - 1], <<notes[k]>>)
  IN groups[Len(notes)]

(* The least certain note, the latest among equals.                        *)
Weakest(voicing) ==
  CHOOSE i \in DOMAIN voicing : \A j \in DOMAIN voicing :
    \/ voicing[i].confidence < voicing[j].confidence
    \/ voicing[i].confidence = voicing[j].confidence /\ j <= i

Init ==
  /\ song \in Songs
  /\ stage = "group"
  /\ voicings = <<>>
  /\ options = <<>>
  /\ dropped = 0
  /\ history = <<[s \in {Start} |-> [total |-> 0, before |-> Start]]>>
  /\ tab = <<>>

Group ==
  /\ stage = "group"
  /\ stage' = "search"
  /\ voicings' = Grouped(Sorted(song, Placeable(song)))
  /\ UNCHANGED <<song, options, dropped, history, tab>>

(* The next voicing's options, once a hand can play what is left of it.    *)
Fit ==
  LET k == Len(options) + 1 IN
  /\ stage = "search"
  /\ k <= Len(voicings)
  /\ IF Playable(voicings[k]) # {}
     THEN /\ options' = Append(options, Fingerings(voicings[k]))
          /\ UNCHANGED <<voicings, dropped>>
     ELSE /\ voicings' = [voicings EXCEPT ![k] = RemoveAt(@, Weakest(@))]
          /\ dropped' = dropped + 1
          /\ UNCHANGED options
  /\ UNCHANGED <<song, stage, history, tab>>

(* _viterbi's loop.                                                        *)
Search ==
  LET k == Len(history) IN
  /\ stage = "search"
  /\ Len(options) = Len(voicings)
  /\ k <= Len(voicings)
  /\ history' = Append(history, Reached(k, history[k]))
  /\ UNCHANGED <<song, stage, voicings, options, dropped, tab>>

Searched == stage # "group" /\ Len(history) = Len(voicings) + 1

(* The fingering of each voicing on the path.                              *)
Path ==
  [k \in DOMAIN voicings |-> options[k][Backtrack(history)[k + 1][1]]]

(* A note where the path puts it.                                          *)
TabNote(note, f, i) ==
  [onset |-> note.onset, midi |-> note.midi,
   string |-> f.strings[i], fret |-> f.frets[i]]

(* The result: the notes of all voicings, sorted by onset and then string. *)
Placed ==
  LET path == Path
      all == UNION {{k} \X DOMAIN voicings[k] : k \in DOMAIN voicings}
      placed == [n \in all |-> TabNote(voicings[n[1]][n[2]], path[n[1]], n[2])]
      before(m, n) ==
        \/ placed[m].onset < placed[n].onset
        \/ placed[m].onset = placed[n].onset /\ placed[m].string < placed[n].string
      order == InOrder([n \in all |-> {m \in all : before(m, n)}])
  IN [j \in DOMAIN order |-> placed[order[j]]]

Place ==
  /\ Searched
  /\ stage = "search"
  /\ stage' = "done"
  /\ tab' = Placed
  /\ UNCHANGED <<song, voicings, options, dropped, history>>

(* assign has returned.  Anything else that stops is a deadlock.           *)
Returned == stage = "done" /\ UNCHANGED vars

Next == Group \/ Fit \/ Search \/ Place \/ Returned

Spec == Init /\ [][Next]_vars

-----------------------------------------------------------------------------
(* Properties                                                              *)

(* A voicing is what lies within the window of its first note, and the     *)
(* next begins outside it, whatever order the notes came in: a fast run    *)
(* does not chain into one chord, and no chord is split.  Every note is    *)
(* placed once, at its own pitch, or counted in a warning; a voicing never *)
(* loses its last note.  Simultaneous notes are on strings of their own.   *)
NotesAccounted ==
  /\ \A k \in DOMAIN voicings : \A i, j \in DOMAIN voicings[k] :
       i < j => voicings[k][j].onset - voicings[k][i].onset \in 0..Window
  /\ \A k \in 2..Len(voicings) :
       LET ahead == voicings[k - 1]
           gap == voicings[k][1].onset - ahead[1].onset
       IN /\ voicings[k][1].onset > Last(ahead).onset
          /\ dropped = 0 => gap > Window
  /\ \A k \in DOMAIN voicings : voicings[k] # <<>>
  /\ stage = "done" =>
       /\ Len(tab) + dropped = Cardinality(Placeable(song))
       /\ \A i \in DOMAIN tab :
            /\ Tuning[tab[i].string] + tab[i].fret = tab[i].midi
            /\ Cardinality({j \in DOMAIN tab : tab[j] = tab[i]})
                 <= Cardinality({n \in DOMAIN song :
                      /\ song[n].onset = tab[i].onset
                      /\ song[n].midi = tab[i].midi})
            /\ \A j \in (i + 1)..Len(tab) :
                 \/ tab[i].onset < tab[j].onset
                 \/ /\ tab[i].onset = tab[j].onset
                    /\ tab[i].string < tab[j].string

(* The reference: a choice of one fingering per voicing, where it takes    *)
(* the hand, and what it costs, with nothing remembered on the way.        *)
Alternatives ==
  {c \in [DOMAIN voicings -> UNION {DOMAIN options[k] : k \in DOMAIN options}] :
     \A k \in DOMAIN c : c[k] \in DOMAIN options[k]}

StatesAlong(c) ==
  LET at[k \in 0..Len(c)] ==
        IF k = 0 THEN Start
        ELSE <<c[k], Landing(at[k - 1][2], options[k][c[k]])>>
  IN at

CostAlong(c) ==
  Summed(Len(c), [k \in DOMAIN c |-> Added(k, StatesAlong(c)[k - 1], c[k])])

Chosen == LET at == Backtrack(history)
          IN [k \in DOMAIN voicings |-> at[k + 1][1]]

(* The path is the cheapest there is: the recurrence over fingerings and   *)
(* hand positions loses nothing, open strings and ringing notes included.  *)
(* Of equally cheap paths it is the one _viterbi's comment promises: lower *)
(* frets, then lower strings, then a lower hand, latest voicing first.     *)
CheapestPath ==
  Searched =>
    LET chosen == StatesAlong(Chosen)
        cost == CostAlong(Chosen)
        lower(f, g) == f # g => TieBefore(f, g)
    IN \A c \in Alternatives \ {Chosen} :
         \/ cost < CostAlong(c)
         \/ LET other == StatesAlong(c)
                k == Max({n \in DOMAIN c : chosen[n] # other[n]})
            IN /\ cost = CostAlong(c)
               /\ lower(options[k][chosen[k][1]], options[k][other[k][1]])
               /\ chosen[k][1] = other[k][1] => chosen[k][2] < other[k][2]

(* The tab holds every note that can be played, where it sounds, and is    *)
(* the easiest to play of all the tabs that do (map_notes).                *)
MapperRight == NotesAccounted /\ CheapestPath
=============================================================================
