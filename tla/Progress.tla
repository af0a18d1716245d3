------------------------------ MODULE Progress ------------------------------
(***************************************************************************)
(* How far an attempt is, from the stages to its row: _Reporter            *)
(* (apps/worker/pipeline.py), then _LinkProgress for the job of a link,    *)
(* then _ProgressWriter (apps/worker/runner.py).                           *)
(*                                                                         *)
(* A fraction is in hundredths, so that int(fraction * 40) is exact.       *)
(***************************************************************************)
EXTENDS Integers

CONSTANTS
  Attempts,  \* the attempts that may run at a time
  Fractions  \* what a separator or a download may report; NaN is one
             \* of the values below zero, which meet the same guard

ASSUME ProgressAssumption == Fractions \subseteq Int

VARIABLES
  percent,  \* _Reporter._percent
  isLink,   \* does the attempt report through a _LinkProgress?
  last,     \* _LinkProgress._last
  shown,    \* what the row shows of stage and percent
  written   \* how often set_progress was called

progressVars == <<percent, isLink, last, shown, written>>

STAGE_START_PERCENT ==
  [separation |-> 0, transcription |-> 40, structure |-> 65, fretboard |-> 80]

SEPARATION_BAND  == STAGE_START_PERCENT["transcription"]
DOWNLOAD_PERCENT == 5

Stages == DOMAIN STAGE_START_PERCENT

Update(stage, p) == [stage |-> stage, percent |-> p]
Updates == [stage : Stages \cup {"download", "none"}, percent : 0..100]

(* The row after mark_running, and a _LinkProgress that has no _last.      *)
NoUpdate == Update("none", 0)

ProgressInit ==
  /\ percent = [a \in Attempts |-> -1]
  /\ isLink = [a \in Attempts |-> FALSE]
  /\ last = [a \in Attempts |-> NoUpdate]
  /\ shown = [a \in Attempts |-> NoUpdate]
  /\ written = [a \in Attempts |-> 0]

AtLeast(low, n) == IF n < low THEN low ELSE n
AtMost(high, n) == IF n > high THEN high ELSE n

(* A new attempt: mark_running has reset the row.                          *)
NewProgress(a, link) ==
  /\ percent' = [percent EXCEPT ![a] = -1]
  /\ isLink' = [isLink EXCEPT ![a] = link]
  /\ last' = [last EXCEPT ![a] = NoUpdate]
  /\ shown' = [shown EXCEPT ![a] = NoUpdate]
  /\ written' = [written EXCEPT ![a] = 0]

-----------------------------------------------------------------------------
(* The writers.                                                            *)

(* _ProgressWriter: all but 100, which succeed writes with the status.     *)
WriteRow(a, update) ==
  IF update.percent >= 100
  THEN UNCHANGED <<shown, written>>
  ELSE /\ shown' = [shown EXCEPT ![a] = update]
       /\ written' = [written EXCEPT ![a] = @ + 1]

(* _LinkProgress._emit: not the same stage with no whole percent gained.   *)
Emit(a, update) ==
  IF last[a].stage = update.stage /\ update.percent <= last[a].percent
  THEN UNCHANGED <<last, shown, written>>
  ELSE /\ last' = [last EXCEPT ![a] = update]
       /\ WriteRow(a, update)

(* Mutant: the pipeline's percent is scaled, and the download's share is   *)
(* not added.                                                              *)
PipelineUnshifted(a, update) ==
  Emit(a, Update(update.stage,
                 (update.percent * (100 - DOWNLOAD_PERCENT)) \div 100))

(* _LinkProgress.pipeline: 0-100 onto 5-100.                               *)
Pipeline(a, update) ==
  Emit(a, Update(update.stage,
                 DOWNLOAD_PERCENT +
                   (update.percent * (100 - DOWNLOAD_PERCENT)) \div 100))

(* _LinkProgress.download.                                                 *)
Download(a, fraction) ==
  /\ Emit(a, Update("download",
                    (AtMost(100, AtLeast(0, fraction)) * DOWNLOAD_PERCENT)
                       \div 100))
  /\ UNCHANGED <<percent, isLink>>

-----------------------------------------------------------------------------
(* _Reporter.                                                              *)

Report(a, stage, p) ==
  /\ percent' = [percent EXCEPT ![a] = p]
  /\ IF isLink[a] THEN Pipeline(a, Update(stage, p))
                  ELSE WriteRow(a, Update(stage, p)) /\ UNCHANGED last
  /\ UNCHANGED isLink

StartStage(a, stage) ==
  Report(a, stage, AtLeast(STAGE_START_PERCENT[stage], percent[a]))

(* Mutant: every fraction is reported.                                     *)
SeparationAlways(a, fraction) ==
  IF fraction < 0 THEN UNCHANGED progressVars
  ELSE Report(a, "separation",
              (AtMost(100, fraction) * SEPARATION_BAND) \div 100)

(* A fraction below zero, or that gains no whole percent, is dropped.      *)
Separation(a, fraction) ==
  LET p == (AtMost(100, fraction) * SEPARATION_BAND) \div 100 IN
  IF fraction < 0 \/ p <= percent[a]
  THEN UNCHANGED progressVars
  ELSE Report(a, "separation", p)

Finish(a) == Report(a, "fretboard", 100)
=============================================================================
