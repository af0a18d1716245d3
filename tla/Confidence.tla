----------------------------- MODULE Confidence -----------------------------
(***************************************************************************)
(* What is unclear in a song (web/src/confidence.ts), and what buildSong   *)
(* (web/src/song.ts) makes of a document.  Confidences are in hundredths.  *)
(***************************************************************************)
EXTENDS NoteCursor, Loops

CONSTANTS
  MIN_RUN,
  MAX_GAP   \* MAX_GAP_SEC

ASSUME ConfidenceAssumption ==
  /\ MIN_RUN \in Nat \ {0}
  /\ MAX_GAP \in Nat

-----------------------------------------------------------------------------
Hide == 50  \* HIDE

(* byOnset: a stable sort.                                                 *)
byOnset(items) ==
  LET before(i, j) == \/ items[i].t < items[j].t
                      \/ items[i].t = items[j].t /\ i < j
      order == InOrder([j \in DOMAIN items |->
                          {i \in DOMAIN items : before(i, j)}])
  IN  [k \in DOMAIN order |-> items[order[k]]]

-----------------------------------------------------------------------------
(* hiddenPassages, moment by moment: the run of weak notes so far, and the *)
(* passages that runs before it left.  A passage is a span, t to t + dur.  *)

NoRun == <<>>

(* Mutant: a run hides to the end of its notes, over what follows it.      *)
RunEndPast(run, next) == Max({run[i].t + run[i].dur : i \in DOMAIN run})

RunEnd(run, next) == Min({next, Max({run[i].t + run[i].dur : i \in DOMAIN run})})

(* close: the run ends before the onset `next`.                            *)
closed(state, next) ==
  LET run == state.run
      from == run[1].t
      to == RunEnd(run, next)
      passages == state.passages
      last == passages[Len(passages)]
  IN  IF Len(run) < MIN_RUN THEN [state EXCEPT !.run = NoRun]
      ELSE [run |-> NoRun,
            passages |->
              IF passages # <<>> /\ from <= last.t + last.dur
              THEN [passages EXCEPT ![Len(passages)].dur = Max({@, to - last.t})]
              ELSE Append(passages, [t |-> from, dur |-> to - from])]

(* byMoment: the notes of one onset, of sorted notes.  The last is the k-th.*)
FirstAt(notes, k) == Min({i \in 1..k : notes[i].t = notes[k].t})
byMoment(notes, k) == SubSeq(notes, FirstAt(notes, k), k)

HeardMoment(state, moment) ==
  LET t == moment[1].t
      gap == state.run # NoRun /\ t - state.run[Len(state.run)].t > MAX_GAP
  IN  IF \E i \in DOMAIN moment : moment[i].confidence >= Hide
      THEN closed(state, t)
      ELSE LET before == IF gap THEN closed(state, t) ELSE state
           IN  [before EXCEPT !.run = @ \o moment]

hiddenPassages(notes) ==
  LET heard[k \in 0..Len(notes)] ==   \* up to the k-th note, the last of its moment
        IF k = 0 THEN [run |-> NoRun, passages |-> <<>>]
        ELSE HeardMoment(heard[FirstAt(notes, k) - 1], byMoment(notes, k))
  IN  closed(heard[Len(notes)], PositiveInfinity).passages

(* Does a note that begins at t fall in one of these passages?             *)
isHidden(passages, found, t) ==
  \E i \in found : Nth(passages, i).t <= t /\ t < End(passages, i)

-----------------------------------------------------------------------------
(* buildSong: the document's tracks sorted, its passages found once.       *)
buildSong(doc) ==
  LET notes == byOnset(doc.notes)
      chords == byOnset(doc.chords)
      passages == hiddenPassages(notes)
      chorded(p) == \E i \in DOMAIN chords :
                      /\ chords[i].t < p.t + p.dur
                      /\ chords[i].t + chords[i].dur > p.t
  IN  [notes |-> notes, chords |-> chords, beats |-> byOnset(doc.beats),
       hidden |-> passages,
       chorded |-> [k \in DOMAIN passages |-> chorded(passages[k])]]
=============================================================================
