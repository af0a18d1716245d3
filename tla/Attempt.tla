------------------------------ MODULE Attempt -------------------------------
(***************************************************************************)
(* What happens inside an attempt of a job, the step Worker calls the      *)
(* pipeline: run_pipeline (apps/worker/pipeline.py) with the cached stages *)
(* of caching.py, reporting through the writers of runner.py.              *)
(*                                                                         *)
(* The attempts of this module work on the same bytes: retries of one job, *)
(* one after the other with a cache that can be read, or jobs whose files  *)
(* are equal (an upload, and a link that downloads to the same bytes) side *)
(* by side, with reads that fail.  An attempt may stop between any two     *)
(* steps: a kill, the job timeout, a raising call.                         *)
(***************************************************************************)
EXTENDS StageCache, Progress

VARIABLES
  at,   \* at[a]: what attempt a has done, and its next step
  crew  \* the attempts there are: one, of a job and its retries, or all

vars == <<cache, faults, progressVars, at, crew>>

(* pc     idle, fetch (a link's download), restore, restem, separate,      *)
(*        putstem, putmeta, transcription, transcribe, keepnotes,          *)
(*        structure, analyze, keepstructure, fretboard, check, done        *)
(* stem      the take at hand                                              *)
(* events    the take the notes were heard in, or "failed"                 *)
(* structure the take the chords were found in, "degraded" or "failed"     *)
(* tab       what the mapper made of the events                            *)
(* warnings  of the document                                               *)
(* raised    the stages that failed in this attempt                        *)
Separating == {"restore", "restem", "separate", "putstem", "putmeta"}
Listening  == {"transcription", "transcribe", "keepnotes"}
Analysing  == {"structure", "analyze", "keepstructure"}
Stemless   == {"idle", "fetch", "restore", "restem", "separate"}

Pcs == {"idle", "fetch", "fretboard", "check", "done"}
         \cup Separating \cup Listening \cup Analysing
Tabs     == {"none", "whole", "fewer", "wrong"}
Warnings == SUBSET {"fallback", "transcription", "no notes",
                    "half structure", "structure", "mapper", "unplaced"}
Failures == SUBSET {"transcriber", "analyzer", "half"}

Record == [pc        : Pcs,
           stem      : Takes \cup {None},
           events    : Takes \cup {None, "failed"},
           structure : Takes \cup {None, "degraded", "failed"},
           tab       : Tabs,
           warnings  : Warnings,
           raised    : Failures]

NoAttempt == [pc |-> "idle", stem |-> None, events |-> None,
              structure |-> None, tab |-> "none",
              warnings |-> {}, raised |-> {}]

AttemptInit == at = [a \in Attempts |-> NoAttempt]

At(a, pc) == at[a].pc = pc

Init ==
  /\ CacheInit /\ ProgressInit /\ AttemptInit
  /\ \/ crew \in {{a} : a \in Attempts} /\ ~faults
     \/ crew = Attempts /\ faults

(* One attempt at a time, and no failing reads.                            *)
Alone == ~faults

(* Bound: what a long call reports on its way, attempt by attempt.         *)
Reported == IF Alone THEN Fractions ELSE {}

-----------------------------------------------------------------------------
(* Into the pipeline.                                                      *)

(* A job with stored audio, an upload's or a link's kept download, goes to *)
(* the pipeline; a link's first attempt downloads.  Bound: side by side,   *)
(* all have their audio and report as an upload's job does, since the      *)
(* cache does not tell them apart.                                         *)
Begin(a) ==
  /\ At(a, "idle")
  /\ \/ /\ at' = [at EXCEPT ![a].pc = "restore"]
        /\ NewProgress(a, FALSE)
     \/ /\ Alone
        /\ at' = [at EXCEPT ![a].pc = "restore"]
        /\ NewProgress(a, TRUE)
     \/ /\ Alone
        /\ at' = [at EXCEPT ![a].pc = "fetch"]
        /\ NewProgress(a, TRUE)
  /\ UNCHANGED cache

(* _fetch reports 0 before the child starts, then what the child reports.  *)
DownloadSome(a) ==
  /\ At(a, "fetch")
  /\ \E fraction \in (IF last[a].stage = "none" THEN {0} ELSE Reported) :
        Download(a, fraction)
  /\ UNCHANGED <<cache, at>>

Downloaded(a) ==
  /\ At(a, "fetch")
  /\ last[a].stage = "download"
  /\ at' = [at EXCEPT ![a].pc = "restore"]
  /\ UNCHANGED <<cache, progressVars>>

-----------------------------------------------------------------------------
(* Stage 1, separation.                                                    *)

(* _restore reads result.json ...                                          *)
Restore(a) ==
  /\ At(a, "restore")
  /\ StartStage(a, "separation")
  /\ \E meta \in Loaded(cache.separation) :
        at' = [at EXCEPT
                 ![a].pc = IF meta = None THEN "separate" ELSE "restem",
                 ![a].warnings = IF meta = "fallback" THEN {"fallback"} ELSE {}]
  /\ UNCHANGED cache

(* ... and then the stem.  A stem that is not there is a miss, and its     *)
(* warnings go with it; any other error stops the attempt.                 *)
RestoreStem(a) ==
  /\ At(a, "restem")
  /\ at' = [at EXCEPT
              ![a].pc = IF cache.stem = None THEN "separate" ELSE "transcription",
              ![a].stem = cache.stem,
              ![a].warnings = IF cache.stem = None THEN {} ELSE @]
  /\ UNCHANGED <<cache, progressVars>>

SeparateSome(a) ==
  /\ At(a, "separate")
  /\ \E fraction \in Reported : Separation(a, fraction)
  /\ UNCHANGED <<cache, at>>

(* The separator leaves a stem; a silent one stops the attempt.            *)
Separated(a) ==
  /\ At(a, "separate")
  /\ \E take \in Takes :
        at' = [at EXCEPT ![a].pc = "putstem", ![a].stem = take]
  /\ UNCHANGED <<cache, progressVars>>

(* Mutant: result.json first.                                              *)
StoreMetaFirst(a) ==
  /\ At(a, "putstem")
  /\ PutSeparation(at[a].stem)
  /\ at' = [at EXCEPT ![a].pc = "putmeta"]
  /\ UNCHANGED progressVars

(* Mutant: a stem that is there already is left as it is.                  *)
StoreStemOnce(a) ==
  /\ At(a, "putstem")
  /\ IF cache.stem = None THEN PutStem(at[a].stem) ELSE UNCHANGED cache
  /\ at' = [at EXCEPT ![a].pc = "putmeta"]
  /\ UNCHANGED progressVars

StoreStem(a) ==
  /\ At(a, "putstem")
  /\ PutStem(at[a].stem)
  /\ at' = [at EXCEPT ![a].pc = "putmeta"]
  /\ UNCHANGED progressVars

(* result.json marks the entry complete.                                   *)
StoreSeparation(a) ==
  /\ At(a, "putmeta")
  /\ PutSeparation(at[a].stem)
  /\ at' = [at EXCEPT ![a].pc = "transcription",
                      ![a].warnings = IF at[a].stem \in Fallback
                                      THEN {"fallback"} ELSE {}]
  /\ UNCHANGED progressVars

-----------------------------------------------------------------------------
(* Stage 2, transcription.                                                 *)

(* A stage that answers, fresh or cached: no notes is an answer, and has   *)
(* its warning.                                                            *)
Heard(a, events, pc) ==
  at' = [at EXCEPT ![a].pc = pc,
                   ![a].events = events,
                   ![a].warnings = IF events \in Noteless
                                   THEN @ \cup {"no notes"} ELSE @]

(* Mutant: a read that fails fails the stage.                              *)
LoadTranscriptionOrFail(a) ==
  /\ At(a, "transcription")
  /\ StartStage(a, "transcription")
  /\ \E events \in Loaded(cache.transcription) :
        IF events # None THEN Heard(a, events, "structure")
        ELSE IF cache.transcription = None
        THEN at' = [at EXCEPT ![a].pc = "transcribe"]
        ELSE at' = [at EXCEPT ![a].pc = "structure",
                              ![a].events = "failed",
                              ![a].warnings = @ \cup {"transcription"}]
  /\ UNCHANGED cache

(* Mutant: a cached empty list is taken for a miss.                        *)
LoadTranscriptionIfAny(a) ==
  /\ At(a, "transcription")
  /\ StartStage(a, "transcription")
  /\ \E events \in Loaded(cache.transcription) :
        IF events \in {None} \cup Noteless
        THEN at' = [at EXCEPT ![a].pc = "transcribe"]
        ELSE Heard(a, events, "structure")
  /\ UNCHANGED cache

LoadTranscription(a) ==
  /\ At(a, "transcription")
  /\ StartStage(a, "transcription")
  /\ \E events \in Loaded(cache.transcription) :
        IF events = None THEN at' = [at EXCEPT ![a].pc = "transcribe"]
                         ELSE Heard(a, events, "structure")
  /\ UNCHANGED cache

Transcribe(a) ==
  /\ At(a, "transcribe")
  /\ Heard(a, at[a].stem, "keepnotes")
  /\ UNCHANGED <<cache, progressVars>>

(* Mutant: a failure is cached as an answer would be.                      *)
TranscriberRaisesKept(a) ==
  /\ At(a, "transcribe")
  /\ at' = [at EXCEPT ![a].pc = "keepnotes",
                      ![a].events = "failed",
                      ![a].warnings = @ \cup {"transcription"},
                      ![a].raised = @ \cup {"transcriber"}]
  /\ UNCHANGED <<cache, progressVars>>

(* It raises: nothing is stored, and the document goes without notes.      *)
TranscriberRaises(a) ==
  /\ At(a, "transcribe")
  /\ at' = [at EXCEPT ![a].pc = "structure",
                      ![a].events = "failed",
                      ![a].warnings = @ \cup {"transcription"},
                      ![a].raised = @ \cup {"transcriber"}]
  /\ UNCHANGED <<cache, progressVars>>

KeepTranscription(a) ==
  /\ At(a, "keepnotes")
  /\ StoreTranscription(at[a].events)
  /\ at' = [at EXCEPT ![a].pc = "structure"]
  /\ UNCHANGED progressVars

-----------------------------------------------------------------------------
(* Stage 3, structure.                                                     *)

LoadStructure(a) ==
  /\ At(a, "structure")
  /\ StartStage(a, "structure")
  /\ \E structure \in Loaded(cache.structure) :
        at' = [at EXCEPT ![a].pc = IF structure = None THEN "analyze"
                                                       ELSE "fretboard",
                         ![a].structure = structure,
                         ![a].warnings = IF structure = "degraded"
                                         THEN @ \cup {"half structure"} ELSE @]
  /\ UNCHANGED cache

(* Both halves succeed, or one fails and degrades with a warning.          *)
Analyze(a) ==
  /\ At(a, "analyze")
  /\ at' = [at EXCEPT ![a].pc = "keepstructure", ![a].structure = at[a].stem]
  /\ UNCHANGED <<cache, progressVars>>

(* Mutant: what a failed half left is cached as well.                      *)
AnalyzeHalfKept(a) ==
  /\ At(a, "analyze")
  /\ at' = [at EXCEPT ![a].pc = "keepstructure",
                      ![a].structure = "degraded",
                      ![a].warnings = @ \cup {"half structure"},
                      ![a].raised = @ \cup {"half"}]
  /\ UNCHANGED <<cache, progressVars>>

(* A result with warnings is not cached.                                   *)
AnalyzeHalf(a) ==
  /\ At(a, "analyze")
  /\ at' = [at EXCEPT ![a].pc = "fretboard",
                      ![a].structure = "degraded",
                      ![a].warnings = @ \cup {"half structure"},
                      ![a].raised = @ \cup {"half"}]
  /\ UNCHANGED <<cache, progressVars>>

AnalyzerRaises(a) ==
  /\ At(a, "analyze")
  /\ at' = [at EXCEPT ![a].pc = "fretboard",
                      ![a].structure = "failed",
                      ![a].warnings = @ \cup {"structure"},
                      ![a].raised = @ \cup {"analyzer"}]
  /\ UNCHANGED <<cache, progressVars>>

KeepStructure(a) ==
  /\ At(a, "keepstructure")
  /\ StoreStructure(at[a].structure)
  /\ at' = [at EXCEPT ![a].pc = "fretboard"]
  /\ UNCHANGED progressVars

-----------------------------------------------------------------------------
(* Stage 4, the fretboard, and the document.                               *)

HasNotes(a) == at[a].events \in Takes \ Noteless

(* Without notes the mapper places none; with them it places all, or some  *)
(* or none with a warning, or raises, or is wrong about one.               *)
Assign(a) ==
  /\ At(a, "fretboard")
  /\ StartStage(a, "fretboard")
  /\ \E tab \in (IF HasNotes(a) THEN {"whole", "fewer", "wrong"} ELSE {"none"}) :
        at' = [at EXCEPT ![a].pc = "check",
                         ![a].tab = tab,
                         ![a].warnings = IF tab = "fewer"
                                         THEN @ \cup {"unplaced"} ELSE @]
  /\ UNCHANGED cache

MapperRaises(a) ==
  /\ At(a, "fretboard")
  /\ StartStage(a, "fretboard")
  /\ at' = [at EXCEPT ![a].pc = "check",
                      ![a].warnings = @ \cup {"mapper"}]
  /\ UNCHANGED cache

(* Mutant: 100 is reported before the notes are checked.                   *)
FinishUnchecked(a) ==
  /\ At(a, "check")
  /\ Finish(a)
  /\ at' = [at EXCEPT ![a] = IF @.tab = "wrong" THEN NoAttempt
                             ELSE [@ EXCEPT !.pc = "done"]]
  /\ UNCHANGED cache

(* Mutant: a note that is not where it sounds is left out of the tab.      *)
CheckLeniently(a) ==
  /\ At(a, "check")
  /\ Finish(a)
  /\ at' = [at EXCEPT ![a].pc = "done",
                      ![a].tab = IF @ = "wrong" THEN "fewer" ELSE @]
  /\ UNCHANGED cache

(* The invariant check: a wrong fret stops the attempt, without 100.       *)
Check(a) ==
  /\ At(a, "check")
  /\ IF at[a].tab = "wrong"
     THEN at' = [at EXCEPT ![a] = NoAttempt] /\ UNCHANGED progressVars
     ELSE at' = [at EXCEPT ![a].pc = "done"] /\ Finish(a)
  /\ UNCHANGED cache

(* The attempt ends: with its document, or stopped on the way.             *)
Stop(a) ==
  /\ ~At(a, "idle")
  /\ at' = [at EXCEPT ![a] = NoAttempt]
  /\ UNCHANGED <<cache, progressVars>>

-----------------------------------------------------------------------------
Step(a) ==
  \/ Begin(a) \/ DownloadSome(a) \/ Downloaded(a)
  \/ Restore(a) \/ RestoreStem(a) \/ SeparateSome(a) \/ Separated(a)
  \/ StoreStem(a) \/ StoreSeparation(a)
  \/ LoadTranscription(a) \/ Transcribe(a) \/ TranscriberRaises(a)
  \/ KeepTranscription(a)
  \/ LoadStructure(a) \/ Analyze(a) \/ AnalyzeHalf(a) \/ AnalyzerRaises(a)
  \/ KeepStructure(a)
  \/ Assign(a) \/ MapperRaises(a) \/ Check(a) \/ Stop(a)

Next == /\ \E a \in crew : Step(a)
        /\ UNCHANGED <<faults, crew>>

Spec == Init /\ [][Next]_vars

-----------------------------------------------------------------------------
(* result.json, whose presence marks the separation's entry complete, is   *)
(* never there without a stem, wherever an attempt stopped and however     *)
(* many write the entry at a time.                                         *)
CompleteEntry == cache.separation # None => cache.stem # None

(* A document says that a stage failed, or degraded inside, exactly when   *)
(* it did in this attempt: neither storage trouble nor an earlier          *)
(* attempt's failure is told as one, and no failure is kept.  It never has *)
(* a wrong fret, and one with notes missing, or none, says why, whichever  *)
(* of its stages came from the cache.                                      *)
HonestDocument ==
  \A a \in Attempts :
    /\ "transcription"  \in at[a].warnings <=> "transcriber" \in at[a].raised
    /\ "structure"      \in at[a].warnings <=> "analyzer" \in at[a].raised
    /\ "half structure" \in at[a].warnings <=> "half" \in at[a].raised
    /\ cache.transcription # "failed" /\ cache.structure \notin {"failed", "degraded"}
    /\ At(a, "done") =>
         /\ at[a].tab # "wrong"
         /\ at[a].tab = "fewer" => "unplaced" \in at[a].warnings
         /\ at[a].tab = "none" =>
              at[a].warnings \cap {"transcription", "no notes", "mapper"} # {}

(* One attempt at a time, and no failing reads: all that is cached belongs *)
(* to the stem that is served, and so does all a document is made of; and  *)
(* it warns of the fallback exactly when that stem is one.                 *)
OneTake ==
  Alone =>
    /\ cache.separation # None => cache.separation = WarningsOf(cache.stem)
    /\ cache.transcription \in {None, cache.stem}
    /\ cache.structure \in {None, cache.stem}
    /\ \A a \in Attempts : At(a, "done") =>
         /\ at[a].stem = cache.stem
         /\ at[a].events \in {"failed", cache.stem}
         /\ at[a].structure \in {"failed", "degraded", cache.stem}
         /\ "fallback" \in at[a].warnings <=> at[a].stem \in Fallback

(* A retried job resumes after the last stage that finished: one attempt   *)
(* at a time and no failing reads, no stage runs whose result is cached.   *)
Resumes ==
  Alone =>
    \A a \in Attempts :
      /\ at[a].pc \in {"separate", "putstem", "putmeta"} => cache.separation = None
      /\ at[a].pc \in {"transcribe", "keepnotes"} => cache.transcription = None
      /\ at[a].pc \in {"analyze", "keepstructure"} => cache.structure = None

(* The cache spares a retry the work, and never mixes two separations      *)
(* (pipeline.py's _separate, _transcribe and _analyze over StageCache).    *)
TakesKept == OneTake /\ Resumes

(* What the row shows never falls while an attempt runs, and through the   *)
(* download, the reporter and a link's scaling it stays below 100, which   *)
(* is for succeed to write.  Each write of it shows something else: a      *)
(* stage, or a higher percent.  The reporter says 100 only when the        *)
(* document exists: no job reads 100 and then fails.                       *)
PercentRises ==
  [][\A a \in Attempts :
       /\ ~At(a, "idle") => /\ shown'[a].percent >= shown[a].percent
                            /\ shown'[a].percent < 100
       /\ written'[a] > written[a] => \/ shown'[a].stage # shown[a].stage
                                      \/ shown'[a].percent > shown[a].percent
       /\ percent[a] # 100 /\ percent'[a] = 100 => at'[a].pc = "done"]_vars
=============================================================================
