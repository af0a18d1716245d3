--------------------------- MODULE AttemptProofs ----------------------------
(***************************************************************************)
(* Theorems of an attempt of the pipeline, for every number of attempts    *)
(* side by side, every set of takes and every fraction a separator or a    *)
(* download may report: the cache's entry is complete, the document is     *)
(* honest, a retry resumes on the same take, and the percent rises.        *)
(***************************************************************************)
EXTENDS Attempt, TLAPS

(* The structure stage's entry is a take's: a degraded result is not kept. *)
Cache == [stem          : Takes \cup {None},
          separation    : Meta \cup {None},
          transcription : Takes \cup {None},
          structure     : Takes \cup {None}]

(* From its separation on, an attempt has a stem; from then on, what each  *)
(* stage answered.                                                         *)
Finishing == {"fretboard", "check", "done"}

StageTyped(a) ==
  /\ at[a].pc \in {"putstem", "putmeta"} \cup Listening \cup Analysing \cup Finishing
       => at[a].stem \in Takes
  /\ at[a].pc \in {"keepnotes"} \cup Analysing \cup Finishing
       => at[a].events \in Takes \cup {"failed"}
  /\ At(a, "keepnotes") => at[a].events \in Takes
  /\ At(a, "keepstructure") => at[a].structure \in Takes

Typed ==
  /\ cache \in Cache
  /\ faults \in BOOLEAN
  /\ crew \in SUBSET Attempts
  /\ at \in [Attempts -> Record]
  /\ \A a \in Attempts : StageTyped(a)

-----------------------------------------------------------------------------
(* One attempt moves at a time.                                            *)

LEMMA OthersWait ==
  ASSUME Typed, NEW a \in Attempts, Step(a)
  PROVE  \A b \in Attempts : b # a => at'[b] = at[b]
  <1>1. at \in [Attempts -> Record]
    BY DEF Typed
  <1>2. QED
    BY <1>1 DEF Step, Begin, DownloadSome, Downloaded, Restore, RestoreStem,
       SeparateSome, Separated, StoreStem, StoreSeparation, LoadTranscription,
       Transcribe, TranscriberRaises, KeepTranscription, LoadStructure,
       Analyze, AnalyzeHalf, AnalyzerRaises, KeepStructure, Assign,
       MapperRaises, Check, Stop, Heard

-----------------------------------------------------------------------------
LEMMA TypedStep ==
  ASSUME Typed, [Next]_vars
  PROVE  Typed'
  <1>a. /\ cache \in Cache /\ faults \in BOOLEAN
        /\ crew \in SUBSET Attempts /\ at \in [Attempts -> Record]
    BY DEF Typed
  <1>1. ASSUME NEW a \in crew, Step(a), UNCHANGED <<faults, crew>>
        PROVE  Typed'
    <2>a. a \in Attempts /\ at[a] \in Record /\ StageTyped(a)
      BY <1>1 DEF Typed
    <2>1. ASSUME cache' \in Cache, at' \in [Attempts -> Record], StageTyped(a)'
          PROVE  Typed'
      <3>1. \A b \in Attempts : b # a => at'[b] = at[b]
        BY <1>1, <2>a, OthersWait
      <3>2. \A b \in Attempts : b # a => StageTyped(b)'
        BY <3>1 DEF Typed, StageTyped, At
      <3>3. QED
        BY <1>1, <1>a, <2>1, <3>2 DEF Typed
    <2>2. CASE Begin(a) \/ DownloadSome(a) \/ Downloaded(a) \/ SeparateSome(a)
      <3>1. /\ UNCHANGED cache
            /\ \/ UNCHANGED at
               \/ at' = [at EXCEPT ![a].pc = "restore"]
               \/ at' = [at EXCEPT ![a].pc = "fetch"]
        BY <2>2 DEF Begin, DownloadSome, Downloaded, SeparateSome
      <3>2. at' \in [Attempts -> Record]
        BY <1>a, <2>a, <3>1 DEF Record, Pcs, Separating
      <3>3. StageTyped(a)'
        BY <1>a, <2>a, <3>1 DEF Record, StageTyped, At, Listening, Analysing,
           Finishing
      <3>4. QED
        BY <1>a, <2>1, <3>1, <3>2, <3>3
    <2>3. CASE Restore(a)
      <3>1. UNCHANGED cache
        BY <2>3 DEF Restore
      <3>2. PICK meta \in Meta \cup {None} :
              at' = [at EXCEPT
                       ![a].pc = IF meta = None THEN "separate" ELSE "restem",
                       ![a].warnings = IF meta = "fallback" THEN {"fallback"}
                                                            ELSE {}]
        BY <1>a, <2>3 DEF Restore, Loaded, Cache
      <3>3. at' \in [Attempts -> Record]
        BY <1>a, <2>a, <3>2 DEF Record, Pcs, Separating, Warnings
      <3>4. at'[a].pc \in {"separate", "restem"}
        BY <1>a, <2>a, <3>2 DEF Record
      <3>5. StageTyped(a)'
        BY <3>4 DEF StageTyped, At, Listening, Analysing, Finishing
      <3>6. QED
        BY <1>a, <2>1, <3>1, <3>3, <3>5
    <2>11. CASE RestoreStem(a)
      <3>1. UNCHANGED cache
        BY <2>11 DEF RestoreStem
      <3>2. at' \in [Attempts -> Record]
        BY <1>a, <2>a, <2>11, ZenonT(40) DEF RestoreStem, Record, Pcs, Separating,
           Listening, Cache, Warnings
      <3>3. /\ at'[a].stem = cache.stem /\ cache.stem \in Takes \cup {None}
            /\ at'[a].pc = IF cache.stem = None THEN "separate" ELSE "transcription"
        BY <1>a, <2>a, <2>11 DEF RestoreStem, Record, Cache
      <3>4. StageTyped(a)'
        BY <3>3 DEF StageTyped, At, Listening, Analysing, Finishing
      <3>5. QED
        BY <1>a, <2>1, <3>1, <3>2, <3>4
    <2>12. CASE Separated(a)
      <3>1. UNCHANGED cache
        BY <2>12 DEF Separated
      <3>a. PICK take \in Takes :
              at' = [at EXCEPT ![a].pc = "putstem", ![a].stem = take]
        BY <2>12 DEF Separated
      <3>2. at' \in [Attempts -> Record]
        BY <1>a, <2>a, <3>a DEF Record, Pcs, Separating
      <3>3. at'[a].stem \in Takes /\ at'[a].pc = "putstem"
        BY <1>a, <2>a, <3>a DEF Record
      <3>4. StageTyped(a)'
        BY <3>3 DEF StageTyped, At, Listening, Analysing, Finishing
      <3>5. QED
        BY <1>a, <2>1, <3>1, <3>2, <3>4
    <2>4. CASE StoreStem(a) \/ StoreSeparation(a)
      <3>1. at[a].stem \in Takes
        BY <2>a, <2>4 DEF StoreStem, StoreSeparation, StageTyped, At
      <3>2. cache' \in Cache
        BY <1>a, <2>4, <3>1 DEF StoreStem, StoreSeparation, PutStem,
           PutSeparation, WarningsOf, Cache, Meta
      <3>3. CASE StoreStem(a)
        BY <1>a, <2>a, <2>1, <3>1, <3>2, <3>3 DEF StoreStem, Record, Pcs,
           Separating, StageTyped, At, Listening, Analysing, Finishing
      <3>4. CASE StoreSeparation(a)
        <4>1. at' \in [Attempts -> Record]
          BY <1>a, <2>a, <3>4 DEF StoreSeparation, Record, Pcs, Listening,
             Warnings
        <4>2. at'[a].stem = at[a].stem /\ at'[a].pc = "transcription"
          BY <1>a, <2>a, <3>4 DEF StoreSeparation, Record
        <4>3. StageTyped(a)'
          BY <3>1, <4>2 DEF StageTyped, At, Listening, Analysing, Finishing
        <4>4. QED
          BY <2>1, <3>2, <4>1, <4>3
      <3>5. QED
        BY <2>4, <3>3, <3>4
    <2>5. CASE LoadTranscription(a) \/ Transcribe(a) \/ TranscriberRaises(a)
      <3>1. UNCHANGED cache
        BY <2>5 DEF LoadTranscription, Transcribe, TranscriberRaises
      <3>2. at' \in [Attempts -> Record] /\ StageTyped(a)'
        <4>1. CASE LoadTranscription(a)
          <5>1. PICK events \in Takes \cup {None} :
                  IF events = None THEN at' = [at EXCEPT ![a].pc = "transcribe"]
                                   ELSE Heard(a, events, "structure")
            BY <1>a, <4>1 DEF LoadTranscription, Loaded, Cache
          <5>2. at[a].pc = "transcription" /\ at[a].stem \in Takes
            BY <2>a, <4>1 DEF LoadTranscription, At, StageTyped, Listening
          <5>3. CASE events = None
            BY <1>a, <2>a, <5>1, <5>2, <5>3 DEF Record, Pcs, Listening,
               Analysing, Finishing, StageTyped, At
          <5>4. CASE events # None
            <6>1. events \in Takes /\ Heard(a, events, "structure")
              BY <5>1, <5>4
            <6>2. QED
              BY <1>a, <2>a, <5>2, <6>1 DEF Heard, Record, Pcs, Listening,
                 Analysing, Finishing, Warnings, StageTyped, At
          <5>5. QED
            BY <5>3, <5>4
        <4>2. CASE Transcribe(a)
          BY <1>a, <2>a, <4>2 DEF Transcribe, Heard, Record, Pcs, Listening,
             Analysing, Finishing, Warnings, StageTyped, At
        <4>3. CASE TranscriberRaises(a)
          BY <1>a, <2>a, <4>3 DEF TranscriberRaises, Record, Pcs, Listening,
             Analysing, Finishing, Warnings, Failures, StageTyped, At
        <4>4. QED
          BY <2>5, <4>1, <4>2, <4>3
      <3>3. QED
        BY <1>a, <2>1, <3>1, <3>2
    <2>6. CASE KeepTranscription(a) \/ KeepStructure(a)
      <3>1. cache' \in Cache
        BY <1>a, <2>a, <2>6 DEF KeepTranscription, KeepStructure, At, Cache,
           StoreTranscription, StoreStructure, StageTyped
      <3>2. at' \in [Attempts -> Record]
        BY <1>a, <2>a, <2>6 DEF KeepTranscription, KeepStructure, Record, Pcs,
           Analysing
      <3>3. StageTyped(a)'
        BY <1>a, <2>a, <2>6 DEF KeepTranscription, KeepStructure, Record,
           StageTyped, At, Listening, Analysing, Finishing
      <3>4. QED
        BY <2>1, <3>1, <3>2, <3>3
    <2>7. CASE \/ LoadStructure(a) \/ Analyze(a) \/ AnalyzeHalf(a)
               \/ AnalyzerRaises(a)
      <3>1. UNCHANGED cache
        BY <2>7 DEF LoadStructure, Analyze, AnalyzeHalf, AnalyzerRaises
      <3>2. at' \in [Attempts -> Record] /\ StageTyped(a)'
        <4>1. CASE LoadStructure(a)
          <5>1. PICK structure \in Takes \cup {None} :
                  at' = [at EXCEPT
                           ![a].pc = IF structure = None THEN "analyze"
                                                         ELSE "fretboard",
                           ![a].structure = structure,
                           ![a].warnings = IF structure = "degraded"
                                           THEN @ \cup {"half structure"} ELSE @]
            BY <1>a, <4>1, ZenonT(40) DEF LoadStructure, Loaded, Cache
          <5>2. at[a].pc = "structure"
            BY <4>1 DEF LoadStructure, At
          <5>3. QED
            BY <1>a, <2>a, <5>1, <5>2 DEF Record, Pcs, Listening,
               Analysing, Finishing, Warnings, StageTyped, At
        <4>2. CASE Analyze(a)
          BY <1>a, <2>a, <4>2 DEF Analyze, Record, Pcs, Listening,
             Analysing, Finishing, StageTyped, At
        <4>3. CASE AnalyzeHalf(a)
          BY <1>a, <2>a, <4>3 DEF AnalyzeHalf, Record, Pcs, Listening,
             Analysing, Finishing, Warnings, Failures, StageTyped, At
        <4>4. CASE AnalyzerRaises(a)
          BY <1>a, <2>a, <4>4 DEF AnalyzerRaises, Record, Pcs, Listening,
             Analysing, Finishing, Warnings, Failures, StageTyped, At
        <4>5. QED
          BY <2>7, <4>1, <4>2, <4>3, <4>4
      <3>3. QED
        BY <1>a, <2>1, <3>1, <3>2
    <2>8. CASE Assign(a)
      <3>1. UNCHANGED cache /\ at[a].pc = "fretboard"
        BY <2>8 DEF Assign, At
      <3>2. PICK tab \in {"none", "whole", "fewer", "wrong"} :
              at' = [at EXCEPT ![a].pc = "check",
                               ![a].tab = tab,
                               ![a].warnings = IF tab = "fewer"
                                               THEN @ \cup {"unplaced"} ELSE @]
        BY <2>8 DEF Assign
      <3>3. at' \in [Attempts -> Record] /\ StageTyped(a)'
        BY <1>a, <2>a, <3>1, <3>2 DEF Record, Pcs, Tabs, Warnings, StageTyped,
           At, Listening, Analysing, Finishing
      <3>4. QED
        BY <1>a, <2>1, <3>1, <3>3
    <2>13. CASE MapperRaises(a)
      <3>1. UNCHANGED cache /\ at[a].pc = "fretboard"
        BY <2>13 DEF MapperRaises, At
      <3>2. at' \in [Attempts -> Record] /\ StageTyped(a)'
        BY <1>a, <2>a, <2>13, <3>1 DEF MapperRaises, Record, Pcs, Warnings,
           StageTyped, At, Listening, Analysing, Finishing
      <3>3. QED
        BY <1>a, <2>1, <3>1, <3>2
    <2>9. CASE Check(a) \/ Stop(a)
      <3>1. /\ UNCHANGED cache
            /\ \/ at' = [at EXCEPT ![a] = NoAttempt]
               \/ At(a, "check") /\ at' = [at EXCEPT ![a].pc = "done"]
        BY <2>9 DEF Check, Stop
      <3>a. NoAttempt \in Record
        BY DEF Record, Pcs, NoAttempt, Tabs, Warnings, Failures
      <3>2. at' \in [Attempts -> Record]
        BY <1>a, <2>a, <3>1, <3>a DEF Record, Pcs
      <3>3. StageTyped(a)'
        BY <1>a, <2>a, <3>1 DEF NoAttempt, Record, StageTyped, At,
           Listening, Analysing, Finishing
      <3>4. QED
        BY <1>a, <2>1, <3>1, <3>2, <3>3
    <2>10. QED
      BY <1>1, <2>2, <2>3, <2>4, <2>5, <2>6, <2>7, <2>8, <2>9, <2>11, <2>12, <2>13
         DEF Step
  <1>2. CASE UNCHANGED vars
    BY <1>2 DEF vars, Typed, StageTyped, At
  <1>3. QED
    BY <1>1, <1>2 DEF Next

LEMMA TypedInit ==
  ASSUME Init
  PROVE  Typed
  BY DEF Init, CacheInit, AttemptInit, NoAttempt, Typed, StageTyped, At, Cache,
     Record, Pcs, Tabs, Warnings, Failures, Listening, Analysing, Finishing

THEOREM AttemptTyped == Spec => []Typed
  <1>1. Init => Typed
    BY TypedInit
  <1>2. Typed /\ [Next]_vars => Typed'
    BY TypedStep
  <1>3. QED
    BY <1>1, <1>2, PTL DEF Spec

-----------------------------------------------------------------------------
(* What each step makes of an attempt's record, field by field.            *)

(* All but the named fields, and pc, stay.                                 *)
Keeps(a, changed) ==
  /\ "stem" \notin changed => at'[a].stem = at[a].stem
  /\ "events" \notin changed => at'[a].events = at[a].events
  /\ "structure" \notin changed => at'[a].structure = at[a].structure
  /\ "tab" \notin changed => at'[a].tab = at[a].tab
  /\ "warnings" \notin changed => at'[a].warnings = at[a].warnings
  /\ "raised" \notin changed => at'[a].raised = at[a].raised

LEMMA BeginMakes ==
  ASSUME Typed, NEW a \in Attempts, Begin(a)
  PROVE  /\ at[a].pc = "idle" /\ at'[a].pc \in {"restore", "fetch"}
         /\ Keeps(a, {})
  <1>1. \E pc \in {"restore", "fetch"} : at' = [at EXCEPT ![a].pc = pc]
    BY DEF Begin
  <1>2. QED
    BY <1>1 DEF Typed, Record, Begin, At, Keeps

LEMMA DownloadedMakes ==
  ASSUME Typed, NEW a \in Attempts, Downloaded(a)
  PROVE  at[a].pc = "fetch" /\ at'[a].pc = "restore" /\ Keeps(a, {})
  BY DEF Typed, Record, Downloaded, At, Keeps

LEMMA RestoreMakes ==
  ASSUME Typed, NEW a \in Attempts, Restore(a)
  PROVE  /\ at[a].pc = "restore"
         /\ \E meta \in Loaded(cache.separation) :
              /\ at'[a].pc = IF meta = None THEN "separate" ELSE "restem"
              /\ at'[a].warnings = IF meta = "fallback" THEN {"fallback"} ELSE {}
         /\ Keeps(a, {"warnings"})
  BY DEF Typed, Record, Restore, At, Keeps

LEMMA RestoreStemMakes ==
  ASSUME Typed, NEW a \in Attempts, RestoreStem(a)
  PROVE  /\ at[a].pc = "restem"
         /\ at'[a].pc = IF cache.stem = None THEN "separate" ELSE "transcription"
         /\ at'[a].stem = cache.stem
         /\ at'[a].warnings = IF cache.stem = None THEN {} ELSE at[a].warnings
         /\ Keeps(a, {"stem", "warnings"})
  BY DEF Typed, Record, RestoreStem, At, Keeps

LEMMA SeparatedMakes ==
  ASSUME Typed, NEW a \in Attempts, Separated(a)
  PROVE  /\ at[a].pc = "separate" /\ at'[a].pc = "putstem"
         /\ at'[a].stem \in Takes
         /\ Keeps(a, {"stem"})
  BY DEF Typed, Record, Separated, At, Keeps

LEMMA StoreStemMakes ==
  ASSUME Typed, NEW a \in Attempts, StoreStem(a)
  PROVE  at[a].pc = "putstem" /\ at'[a].pc = "putmeta" /\ Keeps(a, {})
  BY DEF Typed, Record, StoreStem, At, Keeps

LEMMA StoreSeparationMakes ==
  ASSUME Typed, NEW a \in Attempts, StoreSeparation(a)
  PROVE  /\ at[a].pc = "putmeta" /\ at'[a].pc = "transcription"
         /\ at'[a].warnings = IF at[a].stem \in Fallback THEN {"fallback"} ELSE {}
         /\ Keeps(a, {"warnings"})
  BY DEF Typed, Record, StoreSeparation, At, Keeps

(* What a transcription that answers leaves.                               *)
Answered(a, events) ==
  /\ at'[a].events = events
  /\ at'[a].warnings = IF events \in Noteless THEN at[a].warnings \cup {"no notes"}
                                              ELSE at[a].warnings
  /\ Keeps(a, {"events", "warnings"})

LEMMA HeardMakes ==
  ASSUME Typed, NEW a \in Attempts, NEW events, NEW pc, Heard(a, events, pc)
  PROVE  at'[a].pc = pc /\ Answered(a, events)
  BY DEF Typed, Record, Heard, Keeps, Answered

LEMMA LoadTranscriptionMakes ==
  ASSUME Typed, NEW a \in Attempts, LoadTranscription(a)
  PROVE  /\ at[a].pc = "transcription"
         /\ \/ /\ None \in Loaded(cache.transcription)
               /\ at'[a].pc = "transcribe" /\ Keeps(a, {})
            \/ /\ cache.transcription \in Takes
               /\ at'[a].pc = "structure" /\ Answered(a, cache.transcription)
  <1>1. PICK events \in Loaded(cache.transcription) :
          IF events = None THEN at' = [at EXCEPT ![a].pc = "transcribe"]
                           ELSE Heard(a, events, "structure")
    BY DEF LoadTranscription
  <1>2. CASE events = None
    BY <1>1, <1>2 DEF LoadTranscription, At, Typed, Record, Keeps
  <1>3. CASE events # None
    <2>1. events = cache.transcription /\ cache.transcription \in Takes
      BY <1>1, <1>3 DEF Loaded, Typed, Cache
    <2>2. QED
      BY <1>1, <1>3, <2>1, HeardMakes DEF LoadTranscription, At
  <1>4. QED
    BY <1>2, <1>3

LEMMA TranscribeMakes ==
  ASSUME Typed, NEW a \in Attempts, Transcribe(a)
  PROVE  /\ at[a].pc = "transcribe" /\ at'[a].pc = "keepnotes"
         /\ Answered(a, at[a].stem)
  BY HeardMakes DEF Transcribe, At

LEMMA TranscriberRaisesMakes ==
  ASSUME Typed, NEW a \in Attempts, TranscriberRaises(a)
  PROVE  /\ at[a].pc = "transcribe" /\ at'[a].pc = "structure"
         /\ at'[a].events = "failed"
         /\ at'[a].warnings = at[a].warnings \cup {"transcription"}
         /\ at'[a].raised = at[a].raised \cup {"transcriber"}
         /\ Keeps(a, {"events", "warnings", "raised"})
  BY DEF Typed, Record, TranscriberRaises, At, Keeps

LEMMA KeepTranscriptionMakes ==
  ASSUME Typed, NEW a \in Attempts, KeepTranscription(a)
  PROVE  at[a].pc = "keepnotes" /\ at'[a].pc = "structure" /\ Keeps(a, {})
  BY DEF Typed, Record, KeepTranscription, At, Keeps

LEMMA LoadStructureMakes ==
  ASSUME Typed, NEW a \in Attempts, LoadStructure(a)
  PROVE  /\ at[a].pc = "structure"
         /\ \E structure \in Loaded(cache.structure) :
              /\ structure \in Takes \cup {None}
              /\ at'[a].pc = IF structure = None THEN "analyze" ELSE "fretboard"
              /\ at'[a].structure = structure
         /\ Keeps(a, {"structure"})
  <1>1. PICK structure \in Loaded(cache.structure) :
          at' = [at EXCEPT
                   ![a].pc = IF structure = None THEN "analyze" ELSE "fretboard",
                   ![a].structure = structure,
                   ![a].warnings = IF structure = "degraded"
                                   THEN @ \cup {"half structure"} ELSE @]
    BY DEF LoadStructure
  <1>2. structure \in Takes \cup {None} /\ structure # "degraded"
    BY <1>1, StageCacheAssumption DEF Typed, Cache, Loaded
  <1>3. at' = [at EXCEPT
                 ![a].pc = IF structure = None THEN "analyze" ELSE "fretboard",
                 ![a].structure = structure,
                 ![a].warnings = at[a].warnings]
    BY <1>1, <1>2
  <1>4. /\ at'[a].pc = IF structure = None THEN "analyze" ELSE "fretboard"
        /\ at'[a].structure = structure
        /\ Keeps(a, {"structure"})
    BY <1>3 DEF Typed, Record, Keeps
  <1>5. QED
    BY <1>1, <1>2, <1>4 DEF LoadStructure, At

LEMMA AnalyzeMakes ==
  ASSUME Typed, NEW a \in Attempts, Analyze(a)
  PROVE  /\ at[a].pc = "analyze" /\ at'[a].pc = "keepstructure"
         /\ at'[a].structure = at[a].stem
         /\ Keeps(a, {"structure"})
  BY DEF Typed, Record, Analyze, At, Keeps

LEMMA AnalyzeHalfMakes ==
  ASSUME Typed, NEW a \in Attempts, AnalyzeHalf(a)
  PROVE  /\ at[a].pc = "analyze" /\ at'[a].pc = "fretboard"
         /\ at'[a].structure = "degraded"
         /\ at'[a].warnings = at[a].warnings \cup {"half structure"}
         /\ at'[a].raised = at[a].raised \cup {"half"}
         /\ Keeps(a, {"structure", "warnings", "raised"})
  BY ZenonT(60) DEF Typed, Record, AnalyzeHalf, At, Keeps

LEMMA AnalyzerRaisesMakes ==
  ASSUME Typed, NEW a \in Attempts, AnalyzerRaises(a)
  PROVE  /\ at[a].pc = "analyze" /\ at'[a].pc = "fretboard"
         /\ at'[a].structure = "failed"
         /\ at'[a].warnings = at[a].warnings \cup {"structure"}
         /\ at'[a].raised = at[a].raised \cup {"analyzer"}
         /\ Keeps(a, {"structure", "warnings", "raised"})
  BY DEF Typed, Record, AnalyzerRaises, At, Keeps

LEMMA KeepStructureMakes ==
  ASSUME Typed, NEW a \in Attempts, KeepStructure(a)
  PROVE  at[a].pc = "keepstructure" /\ at'[a].pc = "fretboard" /\ Keeps(a, {})
  BY DEF Typed, Record, KeepStructure, At, Keeps

LEMMA AssignMakes ==
  ASSUME Typed, NEW a \in Attempts, Assign(a)
  PROVE  /\ at[a].pc = "fretboard" /\ at'[a].pc = "check"
         /\ at'[a].tab = "none" => ~HasNotes(a)
         /\ at'[a].warnings = IF at'[a].tab = "fewer"
                              THEN at[a].warnings \cup {"unplaced"}
                              ELSE at[a].warnings
         /\ Keeps(a, {"tab", "warnings"})
  <1>1. PICK tab \in (IF HasNotes(a) THEN {"whole", "fewer", "wrong"}
                                     ELSE {"none"}) :
          at' = [at EXCEPT ![a].pc = "check",
                           ![a].tab = tab,
                           ![a].warnings = IF tab = "fewer"
                                           THEN @ \cup {"unplaced"} ELSE @]
    BY DEF Assign
  <1>2. tab = "none" => ~HasNotes(a)
    BY <1>1
  <1>3. QED
    BY <1>1, <1>2 DEF Typed, Record, Assign, At, Keeps

LEMMA MapperRaisesMakes ==
  ASSUME Typed, NEW a \in Attempts, MapperRaises(a)
  PROVE  /\ at[a].pc = "fretboard" /\ at'[a].pc = "check"
         /\ at'[a].warnings = at[a].warnings \cup {"mapper"}
         /\ Keeps(a, {"warnings"})
  BY DEF Typed, Record, MapperRaises, At, Keeps

LEMMA CheckMakes ==
  ASSUME Typed, NEW a \in Attempts, Check(a)
  PROVE  /\ at[a].pc = "check"
         /\ \/ at[a].tab = "wrong" /\ at'[a] = NoAttempt /\ UNCHANGED progressVars
            \/ /\ at[a].tab # "wrong" /\ at'[a].pc = "done" /\ Keeps(a, {})
               /\ Finish(a)
  BY DEF Typed, Record, Check, At, Keeps

LEMMA StopMakes ==
  ASSUME Typed, NEW a \in Attempts, Stop(a)
  PROVE  at'[a] = NoAttempt
  BY DEF Typed, Record, Stop

(* And what it makes of the cache.                                         *)
LEMMA CacheMoves ==
  ASSUME Typed, NEW a \in Attempts, Step(a)
  PROVE  \/ UNCHANGED cache
         \/ /\ StoreStem(a)
            /\ cache' = [cache EXCEPT !.stem = at[a].stem]
         \/ /\ StoreSeparation(a)
            /\ cache' = [cache EXCEPT !.separation = WarningsOf(at[a].stem)]
         \/ /\ KeepTranscription(a)
            /\ cache' = [cache EXCEPT !.transcription = at[a].events]
         \/ /\ KeepStructure(a)
            /\ cache' = [cache EXCEPT !.structure = at[a].structure]
  BY DEF Step, Begin, DownloadSome, Downloaded, Restore, RestoreStem,
     SeparateSome, Separated, StoreStem, StoreSeparation, LoadTranscription,
     Transcribe, TranscriberRaises, KeepTranscription, LoadStructure,
     Analyze, AnalyzeHalf, AnalyzerRaises, KeepStructure, Assign,
     MapperRaises, Check, Stop, PutStem, PutSeparation, StoreTranscription,
     StoreStructure

-----------------------------------------------------------------------------
(* The entry.  Whoever is about to store result.json has stored a stem,    *)
(* and nobody takes a stem away.                                           *)
StemFirst ==
  /\ CompleteEntry
  /\ \A a \in Attempts : At(a, "putmeta") => cache.stem # None

LEMMA StemBeforeMeta ==
  ASSUME Typed, NEW a \in Attempts, Step(a), at'[a].pc = "putmeta"
  PROVE  StoreStem(a)
  <1>1. CASE DownloadSome(a) \/ SeparateSome(a)
    BY <1>1 DEF DownloadSome, SeparateSome, At
  <1>2. CASE Stop(a)
    BY <1>2, StopMakes DEF NoAttempt
  <1>3. CASE Check(a)
    BY <1>3, CheckMakes DEF NoAttempt
  <1>4. CASE \/ Begin(a) \/ Downloaded(a) \/ Restore(a) \/ RestoreStem(a)
             \/ Separated(a) \/ StoreSeparation(a)
    BY <1>4, BeginMakes, DownloadedMakes, RestoreMakes, RestoreStemMakes,
       SeparatedMakes, StoreSeparationMakes
  <1>5. CASE \/ LoadTranscription(a) \/ Transcribe(a) \/ TranscriberRaises(a)
             \/ KeepTranscription(a) \/ LoadStructure(a)
    BY <1>5, LoadTranscriptionMakes, TranscribeMakes, TranscriberRaisesMakes,
       KeepTranscriptionMakes, LoadStructureMakes
  <1>6. CASE \/ Analyze(a) \/ AnalyzeHalf(a) \/ AnalyzerRaises(a)
             \/ KeepStructure(a) \/ Assign(a) \/ MapperRaises(a)
    BY <1>6, AnalyzeMakes, AnalyzeHalfMakes, AnalyzerRaisesMakes,
       KeepStructureMakes, AssignMakes, MapperRaisesMakes
  <1>7. QED
    BY <1>1, <1>2, <1>3, <1>4, <1>5, <1>6 DEF Step

LEMMA StemFirstStep ==
  ASSUME Typed, StemFirst, [Next]_vars
  PROVE  StemFirst'
  <1>a. cache \in Cache
    BY DEF Typed
  <1>1. ASSUME NEW a \in Attempts, Step(a)
        PROVE  StemFirst'
    <2>1. CASE StoreStem(a) /\ cache' = [cache EXCEPT !.stem = at[a].stem]
      <3>1. at[a].stem # None
        BY <2>1, StageCacheAssumption DEF Typed, StageTyped, StoreStem, At
      <3>2. cache'.stem # None
        BY <1>a, <2>1, <3>1 DEF Cache
      <3>3. QED
        BY <3>2 DEF StemFirst, CompleteEntry
    <2>2. CASE /\ StoreSeparation(a)
               /\ cache' = [cache EXCEPT !.separation = WarningsOf(at[a].stem)]
      <3>1. cache.stem # None
        BY <2>2 DEF StoreSeparation, StemFirst
      <3>2. cache'.stem # None
        BY <1>a, <2>2, <3>1 DEF Cache
      <3>3. QED
        BY <3>2 DEF StemFirst, CompleteEntry
    <2>3. CASE /\ cache'.stem = cache.stem
               /\ cache'.separation = cache.separation
               /\ ~StoreStem(a)
      <3>1. at'[a].pc # "putmeta"
        BY <1>1, <2>3, StemBeforeMeta
      <3>2. \A b \in Attempts : b # a => at'[b] = at[b]
        BY <1>1, OthersWait
      <3>3. QED
        BY <2>3, <3>1, <3>2 DEF StemFirst, CompleteEntry, At
    <2>4. CASE UNCHANGED cache /\ StoreStem(a)
      <3>1. at[a].stem # None
        BY <2>4, StageCacheAssumption DEF Typed, StageTyped, StoreStem, At
      <3>2. cache'.stem = at[a].stem
        BY <1>a, <2>4 DEF StoreStem, PutStem, Cache
      <3>3. QED
        BY <3>1, <3>2 DEF StemFirst, CompleteEntry
    <2>5. CASE \/ /\ KeepTranscription(a)
                  /\ cache' = [cache EXCEPT !.transcription = at[a].events]
               \/ /\ KeepStructure(a)
                  /\ cache' = [cache EXCEPT !.structure = at[a].structure]
      <3>1. cache'.stem = cache.stem /\ cache'.separation = cache.separation
        BY <1>a, <2>5 DEF Cache
      <3>2. ~StoreStem(a)
        BY <2>5 DEF StoreStem, KeepTranscription, KeepStructure, At
      <3>3. QED
        BY <2>3, <3>1, <3>2
    <2>6. QED
      BY <1>1, <2>1, <2>2, <2>3, <2>4, <2>5, CacheMoves
  <1>2. CASE UNCHANGED vars
    BY <1>2 DEF vars, StemFirst, CompleteEntry, At
  <1>3. QED
    BY <1>1, <1>2 DEF Next, Typed

(* result.json is never there without a stem, wherever an attempt stopped  *)
(* and however many write the entry at a time.                             *)
THEOREM EntryComplete == Spec => []CompleteEntry
  <1>1. Init => StemFirst
    BY DEF Init, CacheInit, AttemptInit, NoAttempt, StemFirst, CompleteEntry, At
  <1>2. Typed /\ StemFirst /\ [Next]_vars => StemFirst'
    BY StemFirstStep
  <1>3. StemFirst => CompleteEntry
    BY DEF StemFirst
  <1>4. QED
    BY <1>1, <1>2, <1>3, AttemptTyped, PTL DEF Spec

-----------------------------------------------------------------------------
(* The document.  What an attempt has said so far, stage by stage: a       *)
(* warning of a failed stage is there exactly when the stage failed, and   *)
(* events that are no notes have their warning.                            *)
Unheard == {"idle", "fetch"} \cup Separating \cup {"transcription", "transcribe"}

Told(a) ==
  /\ "transcription"  \in at[a].warnings <=> "transcriber" \in at[a].raised
  /\ "structure"      \in at[a].warnings <=> "analyzer" \in at[a].raised
  /\ "half structure" \in at[a].warnings <=> "half" \in at[a].raised

NotesTold(a) ==
  /\ at[a].events = "failed" => "transcription" \in at[a].warnings
  /\ at[a].events \in Noteless => "no notes" \in at[a].warnings

TabTold(a) ==
  /\ at[a].tab = "fewer" => "unplaced" \in at[a].warnings
  /\ at[a].tab = "none"
       => at[a].warnings \cap {"transcription", "no notes", "mapper"} # {}

Honest(a) ==
  /\ at[a].pc \in Unheard => at[a].raised = {} /\ at[a].warnings \subseteq {"fallback"}
  /\ Told(a)
  /\ at[a].pc \notin Unheard => NotesTold(a)
  /\ at[a].pc \notin {"check", "done"} => at[a].tab = "none"
  /\ at[a].pc \in {"check", "done"} => TabTold(a)
  /\ At(a, "done") => at[a].tab # "wrong"

AllHonest == \A a \in Attempts : Honest(a)

(* A step that says nothing new.                                           *)
LEMMA HonestKeeps ==
  ASSUME NEW a, Honest(a),
         at'[a].events = at[a].events, at'[a].tab = at[a].tab,
         at'[a].warnings = at[a].warnings, at'[a].raised = at[a].raised,
         \/ at'[a].pc = at[a].pc
         \/ at[a].pc \in Unheard /\ at'[a].pc \in Unheard
         \/ /\ at[a].pc \notin Unheard \cup {"check", "done"}
            /\ at'[a].pc \notin Unheard \cup {"check", "done"}
         \/ at[a].pc = "check" /\ at'[a].pc = "done" /\ at[a].tab # "wrong"
  PROVE  Honest(a)'
  BY DEF Honest, Told, NotesTold, TabTold, At, Unheard, Separating

LEMMA HonestStep ==
  ASSUME Typed, NEW a \in Attempts, Step(a), Honest(a)
  PROVE  Honest(a)'
  <1>a. /\ Takes \cap {"failed", "degraded", None} = {}
        /\ Noteless \subseteq Takes
    BY StageCacheAssumption
  <1>1. CASE DownloadSome(a) \/ SeparateSome(a)
    BY <1>1, HonestKeeps DEF DownloadSome, SeparateSome
  <1>2. CASE \/ Begin(a) \/ Downloaded(a) \/ Separated(a) \/ StoreStem(a)
             \/ KeepTranscription(a) \/ LoadStructure(a) \/ Analyze(a)
             \/ KeepStructure(a)
    <2>1. /\ Keeps(a, {"structure", "stem"})
          /\ \/ at[a].pc \in Unheard /\ at'[a].pc \in Unheard
             \/ /\ at[a].pc \notin Unheard \cup {"check", "done"}
                /\ at'[a].pc \notin Unheard \cup {"check", "done"}
      BY <1>2, BeginMakes, DownloadedMakes, SeparatedMakes, StoreStemMakes,
         KeepTranscriptionMakes, LoadStructureMakes, AnalyzeMakes,
         KeepStructureMakes DEF Keeps, Unheard, Separating
    <2>2. QED
      BY <2>1, HonestKeeps DEF Keeps
  <1>3. CASE Restore(a) \/ RestoreStem(a) \/ StoreSeparation(a)
    <2>1. /\ at[a].pc \in Unheard /\ at'[a].pc \in Unheard
          /\ at'[a].raised = at[a].raised /\ at'[a].tab = at[a].tab
          /\ at'[a].warnings \in {{}, {"fallback"}, at[a].warnings}
      BY <1>3, RestoreMakes, RestoreStemMakes, StoreSeparationMakes
         DEF Keeps, Unheard, Separating
    <2>2. QED
      BY <2>1 DEF Honest, Told, NotesTold, TabTold, At, Unheard, Separating
  <1>4. ASSUME NEW events \in Takes, Answered(a, events),
               at[a].pc \in {"transcription", "transcribe"},
               at'[a].pc \in {"keepnotes", "structure"}
        PROVE  Honest(a)'
    <2>1. /\ at[a].pc \in Unheard /\ at'[a].pc \notin Unheard
          /\ at'[a].pc \notin {"check", "done"} /\ at[a].pc \notin {"check", "done"}
          /\ at'[a].tab = at[a].tab /\ at'[a].raised = at[a].raised
          /\ at'[a].events = events
      BY <1>4 DEF Answered, Keeps, Unheard, Separating
    <2>2. /\ Told(a) /\ at[a].tab = "none"
      BY <2>1 DEF Honest
    <2>3. /\ at[a].warnings \subseteq at'[a].warnings
          /\ at'[a].warnings \subseteq at[a].warnings \cup {"no notes"}
          /\ events \in Noteless => "no notes" \in at'[a].warnings
      BY <1>4 DEF Answered
    <2>4. Told(a)'
      BY <2>1, <2>2, <2>3 DEF Told
    <2>5. NotesTold(a)'
      BY <1>a, <1>4, <2>1, <2>3 DEF NotesTold
    <2>6. QED
      BY <2>1, <2>2, <2>4, <2>5 DEF Honest, At
  <1>5. CASE LoadTranscription(a)
    <2>1. CASE at'[a].pc = "transcribe" /\ Keeps(a, {})
      BY <1>5, <2>1, LoadTranscriptionMakes, HonestKeeps DEF Keeps, Unheard
    <2>2. QED
      BY <1>4, <1>5, <2>1, LoadTranscriptionMakes
  <1>6. CASE Transcribe(a)
    <2>1. at[a].stem \in Takes
      BY <1>6, TranscribeMakes DEF Typed, StageTyped, Listening
    <2>2. QED
      BY <1>4, <1>6, <2>1, TranscribeMakes
  <1>7. CASE TranscriberRaises(a)
    <2>1. /\ at[a].pc = "transcribe" /\ at'[a].pc = "structure"
          /\ at'[a].events = "failed" /\ at'[a].tab = at[a].tab
          /\ at'[a].warnings = at[a].warnings \cup {"transcription"}
          /\ at'[a].raised = at[a].raised \cup {"transcriber"}
      BY <1>7, TranscriberRaisesMakes DEF Keeps
    <2>2. Told(a) /\ at[a].tab = "none"
      BY <2>1 DEF Honest
    <2>3. Told(a)'
      BY <2>1, <2>2 DEF Told
    <2>4. NotesTold(a)'
      BY <1>a, <2>1 DEF NotesTold
    <2>5. QED
      BY <2>1, <2>2, <2>3, <2>4 DEF Honest, At, Unheard, Separating
  <1>8. CASE AnalyzeHalf(a) \/ AnalyzerRaises(a)
    <2>1. /\ at[a].pc = "analyze" /\ at'[a].pc = "fretboard"
          /\ at'[a].events = at[a].events /\ at'[a].tab = at[a].tab
          /\ \/ /\ at'[a].warnings = at[a].warnings \cup {"half structure"}
                /\ at'[a].raised = at[a].raised \cup {"half"}
             \/ /\ at'[a].warnings = at[a].warnings \cup {"structure"}
                /\ at'[a].raised = at[a].raised \cup {"analyzer"}
      BY <1>8, AnalyzeHalfMakes, AnalyzerRaisesMakes DEF Keeps
    <2>2. Told(a) /\ NotesTold(a) /\ at[a].tab = "none"
      BY <2>1 DEF Honest, Unheard, Separating
    <2>3. Told(a)'
      BY <2>1, <2>2 DEF Told
    <2>4. NotesTold(a)'
      BY <2>1, <2>2 DEF NotesTold
    <2>5. QED
      BY <2>1, <2>2, <2>3, <2>4 DEF Honest, At, Unheard, Separating
  <1>9. CASE Assign(a)
    <2>1. at[a].events \in Takes \cup {"failed"}
      BY <1>9, AssignMakes DEF Typed, StageTyped, Finishing
    <2>2. ~HasNotes(a) =>
            at[a].warnings \cap {"transcription", "no notes"} # {}
      BY <1>9, <2>1, AssignMakes DEF HasNotes, Honest, NotesTold, Unheard,
         Separating
    <2>3. /\ at[a].pc = "fretboard" /\ at'[a].pc = "check"
          /\ at'[a].events = at[a].events /\ at'[a].raised = at[a].raised
          /\ at'[a].tab = "none" => ~HasNotes(a)
          /\ at'[a].warnings = IF at'[a].tab = "fewer"
                               THEN at[a].warnings \cup {"unplaced"}
                               ELSE at[a].warnings
      BY <1>9, AssignMakes DEF Keeps
    <2>4. Told(a) /\ NotesTold(a)
      BY <2>3 DEF Honest, Unheard, Separating
    <2>w. \A w \in {"transcription", "structure", "half structure", "no notes"} :
            w \in at'[a].warnings <=> w \in at[a].warnings
      BY <2>3
    <2>5. Told(a)'
      BY <2>3, <2>4, <2>w DEF Told
    <2>6. NotesTold(a)'
      BY <2>3, <2>4, <2>w DEF NotesTold
    <2>7. TabTold(a)'
      BY <2>2, <2>3 DEF TabTold
    <2>8. QED
      BY <2>3, <2>5, <2>6, <2>7 DEF Honest, At, Unheard, Separating
  <1>10. CASE MapperRaises(a)
    <2>1. /\ at[a].pc = "fretboard" /\ at'[a].pc = "check"
          /\ at'[a].events = at[a].events /\ at'[a].raised = at[a].raised
          /\ at'[a].tab = at[a].tab
          /\ at'[a].warnings = at[a].warnings \cup {"mapper"}
      BY <1>10, MapperRaisesMakes DEF Keeps
    <2>2. Told(a) /\ NotesTold(a) /\ at[a].tab = "none"
      BY <2>1 DEF Honest, Unheard, Separating
    <2>3. Told(a)'
      BY <2>1, <2>2 DEF Told
    <2>4. NotesTold(a)'
      BY <2>1, <2>2 DEF NotesTold
    <2>5. TabTold(a)'
      BY <2>1, <2>2 DEF TabTold
    <2>6. QED
      BY <2>1, <2>3, <2>4, <2>5 DEF Honest, At, Unheard, Separating
  <1>11. CASE at'[a] = NoAttempt
    <2>1. /\ at'[a].pc = "idle" /\ at'[a].tab = "none"
          /\ at'[a].warnings = {} /\ at'[a].raised = {}
      BY <1>11 DEF NoAttempt
    <2>2. Told(a)'
      BY <2>1 DEF Told
    <2>3. QED
      BY <2>1, <2>2 DEF Honest, At, Unheard
  <1>12. CASE Check(a)
    BY <1>11, <1>12, CheckMakes, HonestKeeps DEF Keeps
  <1>13. QED
    BY <1>1, <1>2, <1>3, <1>5, <1>6, <1>7, <1>8, <1>9, <1>10, <1>11, <1>12,
       StopMakes DEF Step

(* A document tells of a failed stage exactly when it failed in this       *)
(* attempt, and of every note it leaves out, whichever of its stages came  *)
(* from the cache and whoever else was writing it.                         *)
THEOREM DocumentHonest == Spec => []HonestDocument
  <1>1. Init => AllHonest
    <2> SUFFICES ASSUME Init, NEW a \in Attempts
                 PROVE  Honest(a)
      BY DEF AllHonest
    <2>1. /\ at[a].pc = "idle" /\ at[a].tab = "none"
          /\ at[a].warnings = {} /\ at[a].raised = {}
      BY DEF Init, AttemptInit, NoAttempt
    <2>2. Told(a)
      BY <2>1 DEF Told
    <2>3. QED
      BY <2>1, <2>2 DEF Honest, At, Unheard
  <1>2. Typed /\ AllHonest /\ [Next]_vars => AllHonest'
    <2>1. ASSUME Typed, AllHonest, NEW b \in Attempts, Step(b), NEW a \in Attempts
          PROVE  Honest(a)'
      BY <2>1, HonestStep, OthersWait, HonestKeeps DEF AllHonest
    <2>2. ASSUME Typed, AllHonest, UNCHANGED vars, NEW a \in Attempts
          PROVE  Honest(a)'
      BY <2>2, HonestKeeps DEF vars, AllHonest
    <2>3. QED
      BY <2>1, <2>2 DEF Next, Typed, AllHonest
  <1>3. Typed /\ AllHonest => HonestDocument
    <2> SUFFICES ASSUME Typed, AllHonest, NEW a \in Attempts
                 PROVE  /\ Told(a)
                        /\ /\ cache.transcription # "failed"
                           /\ cache.structure \notin {"failed", "degraded"}
                        /\ At(a, "done") => at[a].tab # "wrong" /\ TabTold(a)
      BY DEF HonestDocument, Told, TabTold
    <2>1. Honest(a)
      BY DEF AllHonest
    <2>2. /\ cache.transcription # "failed"
          /\ cache.structure \notin {"failed", "degraded"}
      BY StageCacheAssumption DEF Typed, Cache
    <2>3. QED
      BY <2>1, <2>2 DEF Honest, At
  <1>4. QED
    BY <1>1, <1>2, <1>3, AttemptTyped, PTL DEF Spec

-----------------------------------------------------------------------------
(* The take.  One attempt at a time and no failing reads: the entries      *)
(* belong to the stored stem, a later one is there only after an earlier   *)
(* one, and the attempt at hand works on that stem.                        *)
EntriesAgree ==
  /\ cache.separation # None => cache.separation = WarningsOf(cache.stem)
  /\ cache.separation = None => cache.transcription = None /\ cache.structure = None
  /\ cache.transcription \in {None, cache.stem}
  /\ cache.structure \in {None, cache.stem}

(* Before the attempt has a stem that is cached with its warnings.         *)
SeparatesFor(a) ==
  /\ at[a].pc \in {"separate", "putstem", "putmeta"} => cache.separation = None
  /\ At(a, "putmeta") => cache.stem = at[a].stem
  /\ At(a, "restem") =>
       /\ cache.separation # None
       /\ "fallback" \in at[a].warnings <=> cache.separation = "fallback"

(* And after.                                                              *)
WorksOn(a) ==
  /\ cache.separation # None
  /\ at[a].stem = cache.stem
  /\ "fallback" \in at[a].warnings <=> at[a].stem \in Fallback
  /\ at[a].pc \in {"transcribe", "keepnotes"} => cache.transcription = None
  /\ At(a, "keepnotes") => at[a].events = at[a].stem
  /\ at[a].pc \in Analysing \cup Finishing => at[a].events \in {"failed", at[a].stem}
  /\ at[a].pc \in {"analyze", "keepstructure"} => cache.structure = None
  /\ At(a, "keepstructure") => at[a].structure = at[a].stem
  /\ at[a].pc \in Finishing => at[a].structure \in {"failed", "degraded", at[a].stem}

Settled == Listening \cup Analysing \cup Finishing

Agrees(a) == SeparatesFor(a) /\ (at[a].pc \in Settled => WorksOn(a))

Lone ==
  /\ \E a \in Attempts : crew = {a}
  /\ \A b \in Attempts \ crew : at[b].pc = "idle"

Agreement == Alone => Lone /\ EntriesAgree /\ \A a \in Attempts : Agrees(a)

LEMMA AnswerKeepsFallback ==
  ASSUME NEW a, NEW events, Answered(a, events)
  PROVE  "fallback" \in at'[a].warnings <=> "fallback" \in at[a].warnings
  <1>1. \/ at'[a].warnings = at[a].warnings
        \/ at'[a].warnings = at[a].warnings \cup {"no notes"}
    BY DEF Answered
  <1>2. QED
    BY <1>1

LEMMA AgreesStep ==
  ASSUME Typed, StemFirst, Alone, EntriesAgree, NEW a \in Attempts, Agrees(a),
         Step(a)
  PROVE  EntriesAgree' /\ Agrees(a)'
  <1>a. /\ cache \in Cache
        /\ \A entry : Loaded(entry) = {entry}
        /\ None \notin Takes
        /\ \A take : WarningsOf(take) # None
    BY StageCacheAssumption DEF Typed, Alone, Loaded, WarningsOf
  <1>1. CASE DownloadSome(a) \/ SeparateSome(a)
    BY <1>1 DEF DownloadSome, SeparateSome, EntriesAgree, Agrees, SeparatesFor,
       WorksOn, At
  <1>2. CASE \/ Begin(a) \/ Downloaded(a) \/ Stop(a)
             \/ Check(a) /\ at'[a] = NoAttempt
    <2>a. UNCHANGED cache
      BY <1>2 DEF Begin, Downloaded, Stop, Check
    <2>b. at'[a].pc \in {"restore", "fetch", "idle"}
      BY <1>2, BeginMakes, DownloadedMakes, StopMakes DEF NoAttempt
    <2>1. at'[a].pc \in {"restore", "fetch", "idle"} /\ UNCHANGED cache
      BY <2>a, <2>b
    <2>2. QED
      BY <2>1 DEF EntriesAgree, Agrees, SeparatesFor, At, Settled, Listening,
         Analysing, Finishing
  <1>3. CASE Restore(a)
    <2>1. UNCHANGED cache
      BY <1>3 DEF Restore
    <2>2. /\ at'[a].pc = IF cache.separation = None THEN "separate" ELSE "restem"
          /\ "fallback" \in at'[a].warnings <=> cache.separation = "fallback"
      BY <1>a, <1>3, RestoreMakes
    <2>3. at'[a].pc \notin Settled
      BY <2>2 DEF Settled, Listening, Analysing, Finishing
    <2>4. QED
      BY <2>1, <2>2, <2>3 DEF EntriesAgree, Agrees, SeparatesFor, At
  <1>4. CASE RestoreStem(a)
    <2>1. UNCHANGED cache
      BY <1>4 DEF RestoreStem
    <2>2. cache.separation # None /\ cache.stem # None
      BY <1>4, RestoreStemMakes DEF Agrees, SeparatesFor, At, StemFirst,
         CompleteEntry
    <2>3. /\ at[a].pc = "restem" /\ at'[a].pc = "transcription"
          /\ at'[a].stem = cache.stem /\ at'[a].warnings = at[a].warnings
      BY <1>4, <2>2, RestoreStemMakes
    <2>4. "fallback" \in at'[a].warnings <=> at'[a].stem \in Fallback
      BY <2>2, <2>3 DEF Agrees, SeparatesFor, At, EntriesAgree, WarningsOf
    <2>5. WorksOn(a)'
      BY <2>1, <2>2, <2>3, <2>4 DEF WorksOn, At, Analysing, Finishing
    <2>6. QED
      BY <2>1, <2>3, <2>5 DEF EntriesAgree, Agrees, SeparatesFor, At
  <1>5. CASE Separated(a)
    <2>1. UNCHANGED cache /\ at[a].pc = "separate" /\ at'[a].pc = "putstem"
      BY <1>5, SeparatedMakes DEF Separated
    <2>2. at'[a].pc \notin Settled
      BY <2>1 DEF Settled, Listening, Analysing, Finishing
    <2>3. QED
      BY <2>1, <2>2 DEF EntriesAgree, Agrees, SeparatesFor, At
  <1>6. CASE StoreStem(a)
    <2>1. /\ at[a].pc = "putstem" /\ at'[a].pc = "putmeta"
          /\ at'[a].stem = at[a].stem
      BY <1>6, StoreStemMakes DEF Keeps
    <2>2. cache' = [cache EXCEPT !.stem = at[a].stem]
      BY <1>6 DEF StoreStem, PutStem
    <2>3. /\ cache.separation = None /\ cache.transcription = None
          /\ cache.structure = None
      BY <2>1 DEF Agrees, SeparatesFor, EntriesAgree
    <2>4. /\ cache'.stem = at[a].stem /\ cache'.separation = None
          /\ cache'.transcription = None /\ cache'.structure = None
      BY <1>a, <2>2, <2>3 DEF Cache
    <2>5. at'[a].pc \notin Settled
      BY <2>1 DEF Settled, Listening, Analysing, Finishing
    <2>6. QED
      BY <2>1, <2>4, <2>5 DEF EntriesAgree, Agrees, SeparatesFor, At
  <1>7. CASE StoreSeparation(a)
    <2>1. /\ at[a].pc = "putmeta" /\ at'[a].pc = "transcription"
          /\ at'[a].stem = at[a].stem
          /\ at'[a].warnings = IF at[a].stem \in Fallback THEN {"fallback"}
                                                          ELSE {}
      BY <1>7, StoreSeparationMakes DEF Keeps
    <2>2. cache' = [cache EXCEPT !.separation = WarningsOf(at[a].stem)]
      BY <1>7 DEF StoreSeparation, PutSeparation
    <2>3. /\ cache.stem = at[a].stem /\ cache.transcription = None
          /\ cache.structure = None
      BY <2>1 DEF Agrees, SeparatesFor, At, EntriesAgree
    <2>4. /\ cache'.stem = at[a].stem
          /\ cache'.separation = WarningsOf(at[a].stem)
          /\ cache'.transcription = None /\ cache'.structure = None
      BY <1>a, <2>2, <2>3 DEF Cache
    <2>5. EntriesAgree'
      BY <1>a, <2>4 DEF EntriesAgree, WarningsOf
    <2>6. WorksOn(a)'
      BY <1>a, <2>1, <2>4 DEF WorksOn, At, Analysing, Finishing
    <2>7. QED
      BY <2>1, <2>5, <2>6 DEF Agrees, SeparatesFor, At
  (* From here on the attempt works on the stored stem, and goes on to.    *)
  <1>8. ASSUME at[a].pc \in Settled, at'[a].pc \in Settled, UNCHANGED cache,
               at'[a].stem = at[a].stem,
               "fallback" \in at'[a].warnings <=> "fallback" \in at[a].warnings,
               at'[a].pc \in {"transcribe", "keepnotes"}
                 => cache.transcription = None,
               at'[a].pc = "keepnotes" => at'[a].events = at[a].stem,
               at'[a].pc \in Analysing \cup Finishing
                 => at'[a].events \in {"failed", at[a].stem},
               at'[a].pc \in {"analyze", "keepstructure"} => cache.structure = None,
               at'[a].pc = "keepstructure" => at'[a].structure = at[a].stem,
               at'[a].pc \in Finishing
                 => at'[a].structure \in {"failed", "degraded", at[a].stem}
        PROVE  EntriesAgree' /\ Agrees(a)'
    <2>1. WorksOn(a)'
      BY <1>8 DEF Agrees, WorksOn, At
    <2>2. SeparatesFor(a)'
      BY <1>8 DEF SeparatesFor, At, Settled, Listening, Analysing, Finishing
    <2>3. QED
      BY <1>8, <2>1, <2>2 DEF EntriesAgree, Agrees
  <1>9. CASE LoadTranscription(a)
    <2>1. at[a].pc = "transcription" /\ at[a].pc \in Settled /\ UNCHANGED cache
      BY <1>9, LoadTranscriptionMakes DEF LoadTranscription, Settled, Listening
    <2>2. CASE /\ None \in Loaded(cache.transcription)
               /\ at'[a].pc = "transcribe" /\ Keeps(a, {})
      BY <1>a, <1>8, <2>1, <2>2 DEF Keeps, Settled, Listening, Analysing, Finishing
    <2>3. CASE /\ cache.transcription \in Takes
               /\ at'[a].pc = "structure" /\ Answered(a, cache.transcription)
      <3>1. at[a].stem = cache.stem /\ cache.transcription = cache.stem
        BY <1>a, <2>1, <2>3 DEF Agrees, WorksOn, EntriesAgree
      <3>2. /\ at'[a].stem = at[a].stem /\ at'[a].events = at[a].stem
            /\ "fallback" \in at'[a].warnings <=> "fallback" \in at[a].warnings
        BY <2>3, <3>1, AnswerKeepsFallback DEF Answered, Keeps
      <3>3. QED
        BY <1>8, <2>1, <2>3, <3>2 DEF Settled, Listening, Analysing, Finishing
    <2>4. QED
      BY <1>9, <2>2, <2>3, LoadTranscriptionMakes
  <1>10. CASE Transcribe(a)
    <2>1. /\ at[a].pc = "transcribe" /\ at'[a].pc = "keepnotes" /\ UNCHANGED cache
          /\ Answered(a, at[a].stem)
      BY <1>10, TranscribeMakes DEF Transcribe
    <2>2. at[a].pc \in Settled /\ cache.transcription = None
      BY <2>1 DEF Settled, Listening, Agrees, WorksOn
    <2>3. /\ at'[a].stem = at[a].stem /\ at'[a].events = at[a].stem
          /\ "fallback" \in at'[a].warnings <=> "fallback" \in at[a].warnings
      BY <2>1, AnswerKeepsFallback DEF Answered, Keeps
    <2>4. QED
      BY <1>8, <2>1, <2>2, <2>3 DEF Settled, Listening, Analysing, Finishing
  <1>11. CASE TranscriberRaises(a)
    <2>1. /\ at[a].pc = "transcribe" /\ at'[a].pc = "structure" /\ UNCHANGED cache
          /\ at'[a].events = "failed" /\ at'[a].stem = at[a].stem
          /\ at'[a].warnings = at[a].warnings \cup {"transcription"}
      BY <1>11, TranscriberRaisesMakes DEF TranscriberRaises, Keeps
    <2>2. "fallback" \in at'[a].warnings <=> "fallback" \in at[a].warnings
      BY <2>1
    <2>3. QED
      BY <1>8, <2>1, <2>2 DEF Settled, Listening, Analysing, Finishing
  <1>12. CASE KeepTranscription(a)
    <2>1. /\ at[a].pc = "keepnotes" /\ at'[a].pc = "structure" /\ Keeps(a, {})
      BY <1>12, KeepTranscriptionMakes
    <2>2. WorksOn(a) /\ at[a].events = at[a].stem
      BY <2>1 DEF Settled, Listening, Agrees, WorksOn, At
    <2>3. /\ cache'.stem = cache.stem /\ cache'.separation = cache.separation
          /\ cache'.structure = cache.structure
          /\ cache'.transcription \in {cache.transcription, at[a].stem}
      BY <1>a, <1>12, <2>2 DEF KeepTranscription, StoreTranscription, Cache
    <2>4. EntriesAgree'
      BY <2>2, <2>3 DEF EntriesAgree, WorksOn
    <2>5. WorksOn(a)'
      BY <2>1, <2>2, <2>3 DEF WorksOn, Keeps, At, Finishing
    <2>6. QED
      BY <2>1, <2>4, <2>5 DEF Agrees, SeparatesFor, At
  <1>13. CASE LoadStructure(a)
    <2>1. /\ at[a].pc = "structure" /\ UNCHANGED cache
          /\ at'[a].structure = cache.structure
          /\ at'[a].pc = IF cache.structure = None THEN "analyze" ELSE "fretboard"
          /\ Keeps(a, {"structure"})
      BY <1>a, <1>13, LoadStructureMakes DEF LoadStructure
    <2>2. WorksOn(a) /\ at[a].events \in {"failed", at[a].stem}
      BY <2>1 DEF Settled, Analysing, Agrees, WorksOn
    <2>3. cache.structure # None => cache.structure = at[a].stem
      BY <2>2 DEF EntriesAgree, WorksOn
    <2>4. QED
      BY <1>8, <2>1, <2>2, <2>3 DEF Keeps, Settled, Listening, Analysing, Finishing
  <1>14. CASE Analyze(a) \/ AnalyzeHalf(a) \/ AnalyzerRaises(a)
    <2>1. UNCHANGED cache
      BY <1>14 DEF Analyze, AnalyzeHalf, AnalyzerRaises
    <2>2. /\ at[a].pc = "analyze" /\ at'[a].pc \in {"keepstructure", "fretboard"}
          /\ at'[a].stem = at[a].stem /\ at'[a].events = at[a].events
          /\ at'[a].pc = "keepstructure" => at'[a].structure = at[a].stem
          /\ at'[a].structure \in {"failed", "degraded", at[a].stem}
          /\ \/ at'[a].warnings = at[a].warnings
             \/ at'[a].warnings = at[a].warnings \cup {"half structure"}
             \/ at'[a].warnings = at[a].warnings \cup {"structure"}
      BY <1>14, AnalyzeMakes, AnalyzeHalfMakes, AnalyzerRaisesMakes DEF Keeps
    <2>a. "fallback" \in at'[a].warnings <=> "fallback" \in at[a].warnings
      BY <2>2
    <2>3. at[a].events \in {"failed", at[a].stem} /\ cache.structure = None
      BY <2>2 DEF Settled, Analysing, Agrees, WorksOn
    <2>4. QED
      BY <1>8, <2>1, <2>2, <2>a, <2>3 DEF Settled, Listening, Analysing, Finishing
  <1>15. CASE KeepStructure(a)
    <2>1. /\ at[a].pc = "keepstructure" /\ at'[a].pc = "fretboard" /\ Keeps(a, {})
      BY <1>15, KeepStructureMakes
    <2>2. /\ WorksOn(a) /\ at[a].structure = at[a].stem
          /\ at[a].events \in {"failed", at[a].stem}
      BY <2>1 DEF Settled, Analysing, Agrees, WorksOn, At
    <2>3. /\ cache'.stem = cache.stem /\ cache'.separation = cache.separation
          /\ cache'.transcription = cache.transcription
          /\ cache'.structure \in {cache.structure, at[a].stem}
      BY <1>a, <1>15, <2>2 DEF KeepStructure, StoreStructure, Cache
    <2>4. EntriesAgree'
      BY <2>2, <2>3 DEF EntriesAgree, WorksOn
    <2>5. WorksOn(a)'
      BY <2>1, <2>2, <2>3 DEF WorksOn, Keeps, At, Finishing
    <2>6. QED
      BY <2>1, <2>4, <2>5 DEF Agrees, SeparatesFor, At
  <1>16. CASE \/ Assign(a) \/ MapperRaises(a)
              \/ Check(a) /\ Keeps(a, {})
    <2>1. UNCHANGED cache
      BY <1>16 DEF Assign, MapperRaises, Check
    <2>2. /\ at[a].pc \in {"fretboard", "check"}
          /\ at'[a].stem = at[a].stem /\ at'[a].events = at[a].events
          /\ at'[a].structure = at[a].structure
          /\ \/ at'[a].warnings = at[a].warnings
             \/ at'[a].warnings = at[a].warnings \cup {"unplaced"}
             \/ at'[a].warnings = at[a].warnings \cup {"mapper"}
      BY <1>16, AssignMakes, MapperRaisesMakes, CheckMakes DEF Keeps
    <2>a. "fallback" \in at'[a].warnings <=> "fallback" \in at[a].warnings
      BY <2>2
    <2>3. at'[a].pc \in {"check", "done"} \/ at'[a] = NoAttempt
      BY <1>16, AssignMakes, MapperRaisesMakes, CheckMakes
    <2>4. CASE at'[a].pc \in {"check", "done"}
      <3>1. /\ at[a].events \in {"failed", at[a].stem}
            /\ at[a].structure \in {"failed", "degraded", at[a].stem}
        BY <2>2 DEF Settled, Finishing, Agrees, WorksOn
      <3>2. QED
        BY <1>8, <2>1, <2>2, <2>a, <2>4, <3>1 DEF Settled, Listening, Analysing, Finishing
    <2>5. CASE at'[a] = NoAttempt
      BY <2>1, <2>5 DEF NoAttempt, EntriesAgree, Agrees, SeparatesFor, At,
         Settled, Listening, Analysing, Finishing
    <2>6. QED
      BY <2>3, <2>4, <2>5
  <1>17. QED
    BY <1>1, <1>2, <1>3, <1>4, <1>5, <1>6, <1>7, <1>9, <1>10, <1>11, <1>12,
       <1>13, <1>14, <1>15, <1>16, CheckMakes DEF Step

LEMMA AgreementStep ==
  ASSUME Typed, StemFirst, Agreement, [Next]_vars
  PROVE  Agreement'
  <1>1. ASSUME NEW a \in crew, Step(a), UNCHANGED <<faults, crew>>, Alone
        PROVE  Lone' /\ EntriesAgree' /\ \A b \in Attempts : Agrees(b)'
    <2>1. a \in Attempts /\ crew = {a}
      BY <1>1 DEF Typed, Agreement, Lone
    <2>2. \A b \in Attempts : b # a => at'[b] = at[b] /\ at[b].pc = "idle"
      BY <1>1, <2>1, OthersWait DEF Agreement, Lone
    <2>3. Lone'
      BY <1>1, <2>1, <2>2 DEF Lone
    <2>4. EntriesAgree' /\ Agrees(a)'
      BY <1>1, <2>1, AgreesStep DEF Agreement
    <2>5. ASSUME NEW b \in Attempts, b # a
          PROVE  Agrees(b)'
      <3>1. at'[b].pc = "idle"
        BY <2>2, <2>5
      <3>2. QED
        BY <3>1 DEF Agrees, SeparatesFor, At, Settled, Listening, Analysing,
           Finishing
    <2>6. QED
      BY <2>3, <2>4, <2>5
  <1>2. CASE UNCHANGED vars
    BY <1>2 DEF vars, Agreement, Alone, Lone, EntriesAgree, Agrees,
       SeparatesFor, WorksOn, At
  <1>3. QED
    BY <1>1, <1>2 DEF Next, Agreement, Alone

(* One attempt at a time and no failing reads, a retry resumes after the   *)
(* last stage that finished, and everything it uses was computed from the  *)
(* stem that is served.                                                    *)
THEOREM TakesAreKept == Spec => []TakesKept
  <1>1. Init => StemFirst
    BY DEF Init, CacheInit, AttemptInit, NoAttempt, StemFirst, CompleteEntry, At
  <1>2. Typed /\ StemFirst /\ [Next]_vars => StemFirst'
    BY StemFirstStep
  <1>3. Init => Agreement
    BY DEF Init, CacheInit, AttemptInit, NoAttempt, Agreement, Alone, Lone,
       EntriesAgree, Agrees, SeparatesFor, At, Settled, Listening, Analysing,
       Finishing
  <1>4. Typed /\ StemFirst /\ Agreement /\ [Next]_vars => Agreement'
    BY AgreementStep
  <1>5. Agreement => TakesKept
    BY DEF Agreement, EntriesAgree, Agrees, SeparatesFor, WorksOn, Settled,
       Listening, Analysing, Finishing, At, TakesKept, OneTake, Resumes
  <1>6. QED
    BY <1>1, <1>2, <1>3, <1>4, <1>5, AttemptTyped, PTL DEF Spec

-----------------------------------------------------------------------------
(* The percent.  Stage by stage: what the reporter said last, and what the *)
(* row shows of it.                                                        *)
ProgressTyped ==
  /\ percent \in [Attempts -> -1..100]
  /\ isLink \in [Attempts -> BOOLEAN]
  /\ last \in [Attempts -> Updates]
  /\ shown \in [Attempts -> Updates]
  /\ written \in [Attempts -> Nat]

(* A link's pipeline has what the download left of the scale.              *)
Scaled(a, p) ==
  IF isLink[a] THEN DOWNLOAD_PERCENT + (p * (100 - DOWNLOAD_PERCENT)) \div 100
               ELSE p

Shows(a, stage) == shown[a] = Update(stage, Scaled(a, percent[a]))

ReportedAt(a) ==
  /\ isLink[a] /\ at[a].pc \notin {"idle", "done"} => last[a] = shown[a]
  /\ At(a, "fetch") => isLink[a]
  /\ at[a].pc \in {"fetch", "restore"} =>
       /\ percent[a] = -1
       /\ shown[a].stage \in {"none", "download"}
       /\ shown[a].percent <= (IF isLink[a] THEN DOWNLOAD_PERCENT ELSE 0)
       /\ shown[a].stage = "none" => shown[a].percent = 0
  /\ at[a].pc \in (Separating \ {"restore"}) \cup {"transcription"} =>
       percent[a] \in 0..SEPARATION_BAND /\ Shows(a, "separation")
  /\ at[a].pc \in {"transcribe", "keepnotes", "structure"} =>
       percent[a] = 40 /\ Shows(a, "transcription")
  /\ at[a].pc \in {"analyze", "keepstructure", "fretboard"} =>
       percent[a] = 65 /\ Shows(a, "structure")
  /\ At(a, "check") => percent[a] = 80 /\ Shows(a, "fretboard")
  /\ At(a, "done") => percent[a] = 100 /\ shown[a].percent < 100

(* PercentRises of one attempt.                                            *)
Rises(a) ==
  /\ ~At(a, "idle") => /\ shown'[a].percent >= shown[a].percent
                       /\ shown'[a].percent < 100
  /\ written'[a] > written[a] => \/ shown'[a].stage # shown[a].stage
                                 \/ shown'[a].percent > shown[a].percent
  /\ percent[a] # 100 /\ percent'[a] = 100 => at'[a].pc = "done"

LEMMA StagesAre ==
  /\ Stages = {"separation", "transcription", "structure", "fretboard"}
  /\ STAGE_START_PERCENT["separation"] = 0
  /\ STAGE_START_PERCENT["transcription"] = 40
  /\ STAGE_START_PERCENT["structure"] = 65
  /\ STAGE_START_PERCENT["fretboard"] = 80
  /\ SEPARATION_BAND = 40
  BY DEF Stages, STAGE_START_PERCENT, SEPARATION_BAND

LEMMA UpdateIs ==
  ASSUME NEW stage, NEW p
  PROVE  Update(stage, p).stage = stage /\ Update(stage, p).percent = p
  BY DEF Update

LEMMA ProgressTypes ==
  ASSUME ProgressTyped, NEW a \in Attempts
  PROVE  /\ percent \in [Attempts -> -1..100] /\ percent[a] \in -1..100
         /\ isLink \in [Attempts -> BOOLEAN] /\ isLink[a] \in BOOLEAN
         /\ last \in [Attempts -> Updates] /\ last[a] \in Updates
         /\ shown \in [Attempts -> Updates] /\ shown[a] \in Updates
         /\ shown[a].percent \in 0..100
         /\ written \in [Attempts -> Nat] /\ written[a] \in Nat
  BY DEF ProgressTyped, Updates

LEMMA WithinBand ==
  ASSUME NEW q \in 0..40, NEW p \in 0..40, q < p
  PROVE  q \in 0..99 /\ p \in 0..99 /\ q <= p
  OBVIOUS

LEMMA ScaledRises ==
  ASSUME ProgressTyped, NEW a \in Attempts, NEW p \in 0..99, NEW q \in 0..99, q <= p
  PROVE  /\ Scaled(a, p) \in 0..99
         /\ Scaled(a, q) \in 0..99
         /\ Scaled(a, q) <= Scaled(a, p)
         /\ isLink[a] => Scaled(a, q) >= DOWNLOAD_PERCENT
  BY DEF Scaled, DOWNLOAD_PERCENT

(* The reporter goes up, on a row that shows something else or less.       *)
LEMMA ReportWrites ==
  ASSUME ProgressTyped, NEW a \in Attempts, NEW stage \in Stages,
         NEW p \in 0..99, Report(a, stage, p),
         isLink[a] => last[a] = shown[a],
         shown[a].percent <= Scaled(a, p),
         shown[a].stage # stage \/ shown[a].percent < p \/ isLink[a]
  PROVE  /\ percent'[a] = p
         /\ isLink' = isLink
         /\ shown'[a] = Update(stage, Scaled(a, p))
         /\ isLink[a] => last'[a] = shown'[a]
         /\ written'[a] > written[a] => \/ shown'[a].stage # shown[a].stage
                                        \/ shown'[a].percent > shown[a].percent
         /\ ProgressTyped'
  <1>a. /\ percent \in [Attempts -> -1..100]
        /\ isLink \in [Attempts -> BOOLEAN]
        /\ last \in [Attempts -> Updates] /\ last[a] \in Updates
        /\ shown \in [Attempts -> Updates] /\ shown[a] \in Updates
        /\ written \in [Attempts -> Nat] /\ written[a] \in Nat
    BY ProgressTypes, ZenonT(40)
  <1>b. Scaled(a, p) \in 0..99
    BY p <= p, p \in 0..99, ScaledRises
  <1>c. Update(stage, Scaled(a, p)) \in Updates
    BY <1>b DEF Updates, Update
  <1>d. /\ Update(stage, Scaled(a, p)).stage = stage
        /\ Update(stage, Scaled(a, p)).percent = Scaled(a, p)
    BY DEF Update
  <1>1. percent' = [percent EXCEPT ![a] = p] /\ isLink' = isLink
    BY DEF Report
  <1>2. ASSUME WriteRow(a, Update(stage, Scaled(a, p)))
        PROVE  /\ shown' = [shown EXCEPT ![a] = Update(stage, Scaled(a, p))]
               /\ written' = [written EXCEPT ![a] = @ + 1]
    BY <1>2, <1>b, <1>d DEF WriteRow
  <1>3. CASE ~isLink[a]
    <2>1. /\ shown' = [shown EXCEPT ![a] = Update(stage, Scaled(a, p))]
          /\ written' = [written EXCEPT ![a] = @ + 1]
          /\ last' = last
      BY <1>2, <1>3 DEF Report, Scaled
    <2>2. ProgressTyped'
      BY <1>a, <1>1, <1>c, <2>1 DEF ProgressTyped
    <2>3. Scaled(a, p) = p
      BY <1>3 DEF Scaled
    <2>4. shown'[a] = Update(stage, Scaled(a, p)) /\ percent'[a] = p
      BY <1>a, <1>1, <2>1
    <2>5. \/ shown'[a].stage # shown[a].stage
          \/ shown'[a].percent > shown[a].percent
      BY <1>a, <1>3, <1>d, <2>3, <2>4 DEF Updates
    <2>6. QED
      BY <1>1, <1>3, <2>2, <2>4, <2>5
  <1>4. CASE isLink[a]
    <2>1. Emit(a, Update(stage, Scaled(a, p)))
      BY <1>4 DEF Report, Pipeline, Scaled, Update
    <2>2. CASE last[a].stage = stage /\ Scaled(a, p) <= last[a].percent
      <3>1. UNCHANGED <<last, shown, written>>
        BY <1>d, <2>1, <2>2 DEF Emit
      <3>2. shown[a].stage = stage /\ shown[a].percent = Scaled(a, p)
        BY <1>4, <1>a, <1>b, <2>2 DEF Updates
      <3>3. shown[a] = Update(stage, Scaled(a, p))
        BY <1>a, <3>2 DEF Updates, Update
      <3>4. ProgressTyped'
        BY <1>a, <1>1, <3>1 DEF ProgressTyped
      <3>5. QED
        BY <1>4, <1>a, <1>1, <3>1, <3>3, <3>4
    <2>3. CASE ~(last[a].stage = stage /\ Scaled(a, p) <= last[a].percent)
      <3>1. /\ last' = [last EXCEPT ![a] = Update(stage, Scaled(a, p))]
            /\ shown' = [shown EXCEPT ![a] = Update(stage, Scaled(a, p))]
            /\ written' = [written EXCEPT ![a] = @ + 1]
        BY <1>2, <1>d, <2>1, <2>3 DEF Emit
      <3>2. ProgressTyped'
        BY <1>a, <1>1, <1>c, <3>1 DEF ProgressTyped
      <3>3. /\ shown'[a] = Update(stage, Scaled(a, p)) /\ percent'[a] = p
            /\ last'[a] = shown'[a]
        BY <1>a, <1>1, <3>1
      <3>4. \/ shown'[a].stage # shown[a].stage
            \/ shown'[a].percent > shown[a].percent
        BY <1>4, <1>a, <1>b, <1>d, <2>3, <3>3 DEF Updates
      <3>5. QED
        BY <1>1, <3>2, <3>3, <3>4
    <2>4. QED
      BY <2>2, <2>3
  <1>5. QED
    BY <1>3, <1>4

(* At 100 a job has its status to wait for: the row stays.                 *)
LEMMA FinishWrites ==
  ASSUME ProgressTyped, NEW a \in Attempts, Finish(a), shown[a].percent < 100,
         isLink[a] => last[a] = shown[a]
  PROVE  /\ percent'[a] = 100
         /\ UNCHANGED <<isLink, shown, written>>
         /\ ProgressTyped'
  <1>a. /\ percent \in [Attempts -> -1..100]
        /\ isLink \in [Attempts -> BOOLEAN]
        /\ last \in [Attempts -> Updates] /\ last[a] \in Updates
        /\ shown \in [Attempts -> Updates] /\ shown[a] \in Updates
        /\ written \in [Attempts -> Nat]
    BY DEF ProgressTyped
  <1>1. percent' = [percent EXCEPT ![a] = 100] /\ isLink' = isLink
    BY DEF Finish, Report
  <1>b. Update("fretboard", 100) \in Updates
    BY StagesAre DEF Updates, Update
  <1>c. Update("fretboard", 100).percent = 100
    BY DEF Update
  <1>2. /\ UNCHANGED <<shown, written>>
        /\ \/ last' = last
           \/ last' = [last EXCEPT ![a] = Update("fretboard", 100)]
    <2>1. CASE ~isLink[a]
      BY <1>c, <2>1 DEF Finish, Report, WriteRow
    <2>2. CASE isLink[a]
      <3>1. Emit(a, Update("fretboard", 100))
        BY <2>2 DEF Finish, Report, Pipeline, Update, DOWNLOAD_PERCENT
      <3>2. QED
        BY <1>c, <3>1 DEF Emit, WriteRow
    <2>3. QED
      BY <2>1, <2>2
  <1>3. last' \in [Attempts -> Updates]
    <2>1. CASE last' = last
      BY <1>a, <2>1
    <2>2. CASE last' = [last EXCEPT ![a] = Update("fretboard", 100)]
      BY <1>a, <1>b, <2>2
    <2>3. QED
      BY <1>2, <2>1, <2>2
  <1>4. percent'[a] = 100 /\ percent' \in [Attempts -> -1..100]
    BY <1>a, <1>1
  <1>5. ProgressTyped'
    BY <1>a, <1>1, <1>2, <1>3, <1>4 DEF ProgressTyped
  <1>6. QED
    BY <1>1, <1>2, <1>4, <1>5

(* The download has the first five of the scale.                           *)
LEMMA DownloadWrites ==
  ASSUME ProgressTyped, NEW a \in Attempts, NEW fraction \in Int,
         Download(a, fraction), isLink[a], last[a] = shown[a],
         shown[a].stage \in {"none", "download"},
         shown[a].percent <= DOWNLOAD_PERCENT,
         shown[a].stage = "none" => shown[a].percent = 0
  PROVE  /\ UNCHANGED <<percent, isLink>>
         /\ last'[a] = shown'[a]
         /\ shown'[a].stage \in {"none", "download"}
         /\ shown'[a].percent <= DOWNLOAD_PERCENT
         /\ shown'[a].percent >= shown[a].percent
         /\ shown'[a].stage = "none" => shown'[a].percent = 0
         /\ written'[a] > written[a] => \/ shown'[a].stage # shown[a].stage
                                        \/ shown'[a].percent > shown[a].percent
         /\ ProgressTyped'
  <1> DEFINE q == (AtMost(100, AtLeast(0, fraction)) * DOWNLOAD_PERCENT) \div 100
             u == Update("download", q)
  <1>a. /\ percent \in [Attempts -> -1..100]
        /\ isLink \in [Attempts -> BOOLEAN]
        /\ last \in [Attempts -> Updates] /\ last[a] \in Updates
        /\ shown \in [Attempts -> Updates] /\ shown[a] \in Updates
        /\ written \in [Attempts -> Nat] /\ written[a] \in Nat
    BY DEF ProgressTyped
  <1>1. q \in 0..5
    <2>1. AtMost(100, AtLeast(0, fraction)) \in 0..100
      BY DEF AtMost, AtLeast
    <2>2. QED
      BY <2>1 DEF DOWNLOAD_PERCENT
  <1>2. u.stage = "download" /\ u.percent = q /\ u \in Updates
    BY <1>1 DEF Updates, Update
  <1>3. Emit(a, u) /\ UNCHANGED <<percent, isLink>>
    BY DEF Download
  <1> HIDE DEF q, u
  <1>4. CASE last[a].stage = "download" /\ q <= last[a].percent
    <2>1. UNCHANGED <<last, shown, written>>
      BY <1>2, <1>3, <1>4 DEF Emit
    <2>2. ProgressTyped'
      BY <1>a, <1>3, <2>1 DEF ProgressTyped
    <2>3. shown[a].percent \in Int
      BY <1>a DEF Updates
    <2>4. QED
      BY <1>a, <1>3, <2>1, <2>2, <2>3
  <1>5. CASE ~(last[a].stage = "download" /\ q <= last[a].percent)
    <2>1. /\ last' = [last EXCEPT ![a] = u]
          /\ shown' = [shown EXCEPT ![a] = u]
          /\ written' = [written EXCEPT ![a] = @ + 1]
      BY <1>1, <1>2, <1>3, <1>5 DEF Emit, WriteRow
    <2>2. ProgressTyped'
      BY <1>a, <1>2, <1>3, <2>1 DEF ProgressTyped
    <2>3. shown'[a] = u /\ last'[a] = u
      BY <1>a, <2>1
    <2>4. shown[a].percent \in Int
      BY <1>a DEF Updates
    <2>5. /\ q >= shown[a].percent
          /\ shown[a].stage # "download" \/ q > shown[a].percent
      BY <1>1, <1>5, <2>4
    <2>6. QED
      BY <1>1, <1>2, <1>3, <2>2, <2>3, <2>5 DEF DOWNLOAD_PERCENT
  <1>6. QED
    BY <1>4, <1>5

(* One attempt reports at a time.                                          *)
LEMMA OthersShow ==
  ASSUME ProgressTyped, NEW a \in Attempts, Step(a)
  PROVE  \A b \in Attempts : b # a =>
           /\ percent'[b] = percent[b] /\ isLink'[b] = isLink[b]
           /\ last'[b] = last[b] /\ shown'[b] = shown[b]
           /\ written'[b] = written[b]
  <1> DEFINE Others ==
        \A b \in Attempts : b # a =>
           /\ percent'[b] = percent[b] /\ isLink'[b] = isLink[b]
           /\ last'[b] = last[b] /\ shown'[b] = shown[b]
           /\ written'[b] = written[b]
  <1>a. ASSUME UNCHANGED progressVars
        PROVE  Others
    BY <1>a DEF progressVars
  <1>b. ASSUME NEW u, Emit(a, u)
        PROVE  \A b \in Attempts : b # a =>
                 /\ last'[b] = last[b] /\ shown'[b] = shown[b]
                 /\ written'[b] = written[b]
    BY <1>b DEF ProgressTyped, Emit, WriteRow
  <1>c. ASSUME NEW stage, NEW p, Report(a, stage, p)
        PROVE  Others
    <2>1. \/ Emit(a, Update(stage, DOWNLOAD_PERCENT +
                          (p * (100 - DOWNLOAD_PERCENT)) \div 100))
          \/ WriteRow(a, Update(stage, p)) /\ UNCHANGED last
      BY <1>c DEF Report, Pipeline, Update
    <2>2. percent' = [percent EXCEPT ![a] = p] /\ isLink' = isLink
      BY <1>c DEF Report
    <2>3. CASE WriteRow(a, Update(stage, p)) /\ UNCHANGED last
      BY <2>2, <2>3 DEF ProgressTyped, WriteRow
    <2>4. QED
      BY <1>b, <2>1, <2>2, <2>3 DEF ProgressTyped
  <1>d. ASSUME NEW link, NewProgress(a, link)
        PROVE  Others
    BY <1>d DEF ProgressTyped, NewProgress
  <1>1. CASE Begin(a)
    BY <1>1, <1>d DEF Begin
  <1>2. CASE DownloadSome(a)
    BY <1>2, <1>b DEF DownloadSome, Download
  <1>3. CASE SeparateSome(a)
    <2>1. PICK fraction \in Reported : Separation(a, fraction)
      BY <1>3 DEF SeparateSome
    <2>2. QED
      BY <2>1, <1>a, <1>c DEF Separation
  <1>4. CASE \/ Restore(a) \/ LoadTranscription(a) \/ LoadStructure(a)
             \/ Assign(a) \/ MapperRaises(a)
    <2>1. \E stage \in Stages : StartStage(a, stage)
      BY <1>4, StagesAre DEF Restore, LoadTranscription, LoadStructure, Assign,
         MapperRaises
    <2>2. QED
      BY <1>c, <2>1 DEF StartStage
  <1>5. CASE Check(a)
    BY <1>5, <1>a, <1>c DEF Check, Finish
  <1>6. QED
    BY <1>1, <1>2, <1>3, <1>4, <1>5, <1>a DEF Step, Downloaded, RestoreStem,
       Separated, StoreStem, StoreSeparation, Transcribe, TranscriberRaises,
       KeepTranscription, Analyze, AnalyzeHalf, AnalyzerRaises, KeepStructure,
       Stop

-----------------------------------------------------------------------------
(* What ReportedAt needs of a stage that starts.                           *)
LEMMA StageStarts ==
  ASSUME ProgressTyped, NEW a \in Attempts, NEW stage \in Stages,
         NEW p \in 0..99, StartStage(a, stage),
         AtLeast(STAGE_START_PERCENT[stage], percent[a]) = p,
         at[a].pc \notin {"idle", "done"}, ReportedAt(a),
         shown[a].stage # stage, shown[a].percent <= Scaled(a, p)
  PROVE  /\ percent'[a] = p
         /\ isLink' = isLink
         /\ Shows(a, stage)'
         /\ isLink[a] => last'[a] = shown'[a]
         /\ Rises(a)
         /\ ProgressTyped'
  <1>1. Report(a, stage, p)
    BY DEF StartStage
  <1>2. isLink[a] => last[a] = shown[a]
    BY Zenon DEF ReportedAt
  <1>3. /\ percent'[a] = p
        /\ isLink' = isLink
        /\ shown'[a] = Update(stage, Scaled(a, p))
        /\ isLink[a] => last'[a] = shown'[a]
        /\ written'[a] > written[a] => \/ shown'[a].stage # shown[a].stage
                                       \/ shown'[a].percent > shown[a].percent
        /\ ProgressTyped'
    BY <1>1, <1>2, ReportWrites, ZenonT(40)
  <1>4. Scaled(a, p) \in 0..99
    BY p <= p, p \in 0..99, ScaledRises
  <1>5. shown'[a].percent = Scaled(a, p)
    BY <1>3 DEF Update
  <1>6. Rises(a)
    BY <1>3, <1>4, <1>5 DEF Rises
  <1>7. Shows(a, stage)'
    BY <1>3 DEF Shows, Scaled
  <1>8. QED
    BY <1>3, <1>6, <1>7

LEMMA ShownBelow ==
  ASSUME ProgressTyped, NEW a \in Attempts, ReportedAt(a),
         at[a].pc \in Pcs, at[a].pc # "idle"
  PROVE  shown[a].percent \in 0..99
  <1>a. /\ shown[a] \in Updates /\ shown[a].percent \in 0..100
        /\ isLink[a] \in BOOLEAN
    BY ProgressTypes, Zenon
  <1>1. ASSUME NEW stage, Shows(a, stage), percent[a] \in 0..80
        PROVE  shown[a].percent \in 0..99
    <2>1. percent[a] \in 0..99 /\ percent[a] <= percent[a]
      BY <1>1
    <2>2. Scaled(a, percent[a]) \in 0..99
      BY <2>1, ScaledRises, ZenonT(40)
    <2>3. shown[a] = Update(stage, Scaled(a, percent[a]))
      BY <1>1 DEF Shows
    <2>4. shown[a].percent = Scaled(a, percent[a])
      BY <2>3, UpdateIs
    <2>5. QED
      BY <2>2, <2>4
  <1>2. CASE at[a].pc \in {"fetch", "restore", "done"}
    BY <1>a, <1>2 DEF ReportedAt, At, DOWNLOAD_PERCENT
  <1>3. CASE at[a].pc \in (Separating \ {"restore"}) \cup {"transcription"}
    <2>1. percent[a] \in 0..40 /\ Shows(a, "separation")
      BY <1>3, StagesAre DEF ReportedAt
    <2>2. QED
      BY <1>1, <2>1
  <1>4. CASE at[a].pc \in {"transcribe", "keepnotes", "structure"}
    <2>1. percent[a] = 40 /\ Shows(a, "transcription")
      BY <1>4 DEF ReportedAt
    <2>2. QED
      BY <1>1, <2>1
  <1>5. CASE at[a].pc \in {"analyze", "keepstructure", "fretboard"}
    <2>1. percent[a] = 65 /\ Shows(a, "structure")
      BY <1>5 DEF ReportedAt
    <2>2. QED
      BY <1>1, <2>1
  <1>6. CASE at[a].pc = "check"
    <2>1. percent[a] = 80 /\ Shows(a, "fretboard")
      BY <1>6 DEF ReportedAt, At
    <2>2. QED
      BY <1>1, <2>1
  <1>7. QED
    BY <1>2, <1>3, <1>4, <1>5, <1>6 DEF Pcs, Separating, Listening, Analysing

(* A step that reports nothing, within the steps of a stage.               *)
LEMMA StillReported ==
  ASSUME ProgressTyped, NEW a \in Attempts, ReportedAt(a), at[a].pc \in Pcs,
         UNCHANGED progressVars,
         \/ at'[a].pc = "idle"
         \/ at'[a].pc = at[a].pc
         \/ at[a].pc = "fetch" /\ at'[a].pc = "restore"
         \/ /\ at[a].pc \in (Separating \ {"restore"})
            /\ at'[a].pc \in (Separating \ {"restore"}) \cup {"transcription"}
         \/ /\ at[a].pc \in {"transcribe", "keepnotes"}
            /\ at'[a].pc \in {"keepnotes", "structure"}
         \/ /\ at[a].pc \in {"analyze", "keepstructure"}
            /\ at'[a].pc \in {"keepstructure", "fretboard"}
  PROVE  ProgressTyped' /\ ReportedAt(a)' /\ Rises(a)
  <1>a. /\ percent \in [Attempts -> -1..100]
        /\ isLink \in [Attempts -> BOOLEAN]
        /\ shown[a] \in Updates /\ shown[a].percent \in 0..100
        /\ written[a] \in Nat
    BY DEF ProgressTyped, Updates
  <1>b. /\ percent'[a] = percent[a] /\ isLink'[a] = isLink[a]
        /\ last'[a] = last[a] /\ shown'[a] = shown[a]
        /\ written'[a] = written[a]
    BY DEF progressVars
  <1>c. ASSUME NEW stage
        PROVE  Shows(a, stage)' <=> Shows(a, stage)
    BY <1>b DEF Shows, Scaled
  <1>1. ProgressTyped'
    BY DEF ProgressTyped, progressVars
  <1>2. ReportedAt(a)'
    <2>1. CASE at'[a].pc = "idle"
      BY <2>1 DEF ReportedAt, At, Separating
    <2>2. CASE at'[a].pc = at[a].pc
      BY <1>b, <1>c, <2>2 DEF ReportedAt, At
    <2>3. CASE at[a].pc = "fetch" /\ at'[a].pc = "restore"
      BY <1>b, <2>3 DEF ReportedAt, At, Separating
    <2>4. CASE /\ at[a].pc \in (Separating \ {"restore"})
               /\ at'[a].pc \in (Separating \ {"restore"}) \cup {"transcription"}
      BY <1>b, <1>c, <2>4 DEF ReportedAt, At, Separating
    <2>5. CASE /\ at[a].pc \in {"transcribe", "keepnotes"}
               /\ at'[a].pc \in {"keepnotes", "structure"}
      BY <1>b, <1>c, <2>5 DEF ReportedAt, At, Separating
    <2>6. CASE /\ at[a].pc \in {"analyze", "keepstructure"}
               /\ at'[a].pc \in {"keepstructure", "fretboard"}
      BY <1>b, <1>c, <2>6 DEF ReportedAt, At, Separating
    <2>7. QED
      BY <2>1, <2>2, <2>3, <2>4, <2>5, <2>6
  <1>3. at[a].pc # "idle" => shown[a].percent \in 0..99
    BY ShownBelow
  <1>4. Rises(a)
    BY <1>a, <1>b, <1>3 DEF Rises, At
  <1>5. QED
    BY <1>1, <1>2, <1>4

(* A stage that starts: the stages before it have ended below it.          *)
LEMMA StagesRise ==
  ASSUME Typed, ProgressTyped, NEW a \in Attempts, ReportedAt(a),
         \/ Restore(a) \/ LoadTranscription(a) \/ LoadStructure(a)
         \/ Assign(a) \/ MapperRaises(a)
  PROVE  ProgressTyped' /\ ReportedAt(a)' /\ Rises(a)
  <1>a. /\ percent[a] \in -1..100 /\ isLink[a] \in BOOLEAN
        /\ shown[a] \in Updates /\ shown[a].percent \in 0..100
    BY DEF ProgressTyped, Updates
  <1>1. ASSUME Restore(a)
        PROVE  ProgressTyped' /\ ReportedAt(a)' /\ Rises(a)
    <2>1. at[a].pc = "restore" /\ at'[a].pc \in {"separate", "restem"}
      BY <1>1, RestoreMakes
    <2>2. /\ percent[a] = -1 /\ shown[a].stage \in {"none", "download"}
          /\ shown[a].percent <= (IF isLink[a] THEN DOWNLOAD_PERCENT ELSE 0)
      BY <2>1 DEF ReportedAt
    <2>3. AtLeast(STAGE_START_PERCENT["separation"], percent[a]) = 0
      BY <2>2, StagesAre DEF AtLeast
    <2>4. shown[a].percent <= Scaled(a, 0)
      BY <1>a, <2>2 DEF Scaled, DOWNLOAD_PERCENT
    <2>5. StartStage(a, "separation")
      BY <1>1, ZenonT(40) DEF Restore
    <2>s. /\ "separation" \in Stages /\ 0 \in 0..99
          /\ at[a].pc \notin {"idle", "done"}
          /\ shown[a].stage # "separation"
      BY <2>1, <2>2, <2>4, StagesAre
    <2>6. /\ percent'[a] = 0 /\ isLink' = isLink
          /\ Shows(a, "separation")'
          /\ isLink[a] => last'[a] = shown'[a]
          /\ Rises(a) /\ ProgressTyped'
      BY <2>3, <2>4, <2>5, <2>s, StageStarts, ZenonT(40)
    <2>7. ReportedAt(a)'
      BY <2>1, <2>6, StagesAre DEF ReportedAt, At, Separating
    <2>8. QED
      BY <2>6, <2>7
  <1>2. ASSUME LoadTranscription(a)
        PROVE  ProgressTyped' /\ ReportedAt(a)' /\ Rises(a)
    <2>1. at[a].pc = "transcription" /\ at'[a].pc \in {"transcribe", "structure"}
      BY <1>2, LoadTranscriptionMakes
    <2>2. percent[a] \in 0..40 /\ shown[a] = Update("separation", Scaled(a, percent[a]))
      BY <2>1, StagesAre DEF ReportedAt, Shows
    <2>3. AtLeast(STAGE_START_PERCENT["transcription"], percent[a]) = 40
      BY <2>2, StagesAre DEF AtLeast
    <2>4. shown[a].percent <= Scaled(a, 40) /\ shown[a].stage # "transcription"
      <3>1. Scaled(a, percent[a]) <= Scaled(a, 40)
        BY <2>2, 40 \in 0..99, percent[a] \in 0..99, percent[a] <= 40, ScaledRises,
           ZenonT(40)
      <3>2. shown[a].stage = "separation" /\ shown[a].percent = Scaled(a, percent[a])
        BY <2>2, UpdateIs
      <3>3. QED
        BY <3>1, <3>2
    <2>5. StartStage(a, "transcription")
      BY <1>2 DEF LoadTranscription
    <2>s. /\ "transcription" \in Stages /\ 40 \in 0..99
          /\ at[a].pc \notin {"idle", "done"}
          /\ shown[a].stage # "transcription"
      BY <2>1, <2>2, <2>4, StagesAre
    <2>6. /\ percent'[a] = 40 /\ isLink' = isLink
          /\ Shows(a, "transcription")'
          /\ isLink[a] => last'[a] = shown'[a]
          /\ Rises(a) /\ ProgressTyped'
      BY <2>3, <2>4, <2>5, <2>s, StageStarts, ZenonT(40)
    <2>7. ReportedAt(a)'
      BY <2>1, <2>6, StagesAre DEF ReportedAt, At, Separating
    <2>8. QED
      BY <2>6, <2>7
  <1>3. ASSUME LoadStructure(a)
        PROVE  ProgressTyped' /\ ReportedAt(a)' /\ Rises(a)
    <2>1. at[a].pc = "structure" /\ at'[a].pc \in {"analyze", "fretboard"}
      BY <1>3, LoadStructureMakes
    <2>2. percent[a] = 40 /\ shown[a] = Update("transcription", Scaled(a, 40))
      BY <2>1 DEF ReportedAt, Shows
    <2>3. AtLeast(STAGE_START_PERCENT["structure"], percent[a]) = 65
      BY <2>2, StagesAre DEF AtLeast
    <2>4. shown[a].percent <= Scaled(a, 65) /\ shown[a].stage # "structure"
      <3>1. Scaled(a, 40) <= Scaled(a, 65)
        BY <1>a DEF Scaled, DOWNLOAD_PERCENT
      <3>2. shown[a].stage = "transcription" /\ shown[a].percent = Scaled(a, 40)
        BY <2>2, UpdateIs
      <3>3. QED
        BY <3>1, <3>2
    <2>5. StartStage(a, "structure")
      BY <1>3 DEF LoadStructure
    <2>s. /\ "structure" \in Stages /\ 65 \in 0..99
          /\ at[a].pc \notin {"idle", "done"}
          /\ shown[a].stage # "structure"
      BY <2>1, <2>2, <2>4, StagesAre
    <2>6. /\ percent'[a] = 65 /\ isLink' = isLink
          /\ Shows(a, "structure")'
          /\ isLink[a] => last'[a] = shown'[a]
          /\ Rises(a) /\ ProgressTyped'
      BY <2>3, <2>4, <2>5, <2>s, StageStarts, SMTT(40)
    <2>7. ReportedAt(a)'
      BY <2>1, <2>6, StagesAre DEF ReportedAt, At, Separating
    <2>8. QED
      BY <2>6, <2>7
  <1>4. ASSUME Assign(a) \/ MapperRaises(a)
        PROVE  ProgressTyped' /\ ReportedAt(a)' /\ Rises(a)
    <2>1. at[a].pc = "fretboard" /\ at'[a].pc = "check"
      BY <1>4, AssignMakes, MapperRaisesMakes
    <2>2. percent[a] = 65 /\ shown[a] = Update("structure", Scaled(a, 65))
      BY <2>1 DEF ReportedAt, Shows
    <2>3. AtLeast(STAGE_START_PERCENT["fretboard"], percent[a]) = 80
      BY <2>2, StagesAre DEF AtLeast
    <2>4. shown[a].percent <= Scaled(a, 80) /\ shown[a].stage # "fretboard"
      <3>1. Scaled(a, 65) <= Scaled(a, 80)
        BY <1>a DEF Scaled, DOWNLOAD_PERCENT
      <3>2. shown[a].stage = "structure" /\ shown[a].percent = Scaled(a, 65)
        BY <2>2, UpdateIs
      <3>3. QED
        BY <3>1, <3>2
    <2>5. StartStage(a, "fretboard")
      BY <1>4 DEF Assign, MapperRaises
    <2>s. /\ "fretboard" \in Stages /\ 80 \in 0..99
          /\ at[a].pc \notin {"idle", "done"}
          /\ shown[a].stage # "fretboard"
      BY <2>1, <2>2, <2>4, StagesAre
    <2>6. /\ percent'[a] = 80 /\ isLink' = isLink
          /\ Shows(a, "fretboard")'
          /\ isLink[a] => last'[a] = shown'[a]
          /\ Rises(a) /\ ProgressTyped'
      BY <2>3, <2>4, <2>5, <2>s, StageStarts, SMTT(40)
    <2>7. ReportedAt(a)'
      BY <2>1, <2>6, StagesAre DEF ReportedAt, At, Separating
    <2>8. QED
      BY <2>6, <2>7
  <1>5. QED
    BY <1>1, <1>2, <1>3, <1>4

(* A fraction of the separation counts from its first whole percent on.    *)
LEMMA SeparationRises ==
  ASSUME Typed, ProgressTyped, NEW a \in Attempts, ReportedAt(a),
         SeparateSome(a)
  PROVE  ProgressTyped' /\ ReportedAt(a)' /\ Rises(a)
  <1>a. /\ percent[a] \in -1..100 /\ isLink[a] \in BOOLEAN
        /\ shown[a] \in Updates /\ shown[a].percent \in 0..100
        /\ at[a].pc \in Pcs
    BY DEF ProgressTyped, Updates, Typed, Record
  <1>1. at[a].pc = "separate" /\ at' = at
    BY DEF SeparateSome, At
  <1>2. PICK fraction \in Int : Separation(a, fraction)
    BY ProgressAssumption DEF SeparateSome, Reported
  <1> DEFINE p == (AtMost(100, fraction) * SEPARATION_BAND) \div 100
  <1>3. CASE UNCHANGED progressVars
    BY <1>a, <1>1, <1>3, StillReported
  <1>4. CASE ~UNCHANGED progressVars
    <2>1. fraction >= 0 /\ percent[a] < p /\ Report(a, "separation", p)
      BY <1>a, <1>2, <1>4, StagesAre DEF Separation, AtMost
    <2>2. p \in 0..40
      <3>1. AtMost(100, fraction) \in 0..100
        BY <2>1 DEF AtMost
      <3>2. QED
        BY <3>1, StagesAre
    <2> HIDE DEF p
    <2>3. /\ percent[a] \in 0..40
          /\ shown[a] = Update("separation", Scaled(a, percent[a]))
          /\ isLink[a] => last[a] = shown[a]
      BY <1>1, StagesAre DEF ReportedAt, Shows, Separating
    <2>4. shown[a].percent = Scaled(a, percent[a])
      BY <2>3 DEF Update
    <2>5. shown[a].percent <= Scaled(a, p)
      <3>1. p \in 0..99 /\ percent[a] \in 0..99 /\ percent[a] <= p
        BY <2>1, <2>2, <2>3, WithinBand, Zenon
      <3>2. Scaled(a, percent[a]) <= Scaled(a, p)
        BY <3>1, ScaledRises, ZenonT(40)
      <3>3. QED
        BY <2>4, <3>2
    <2>6. shown[a].percent < p \/ isLink[a]
      BY <2>1, <2>4 DEF Scaled
    <2>7. /\ percent'[a] = p
          /\ isLink' = isLink
          /\ shown'[a] = Update("separation", Scaled(a, p))
          /\ isLink[a] => last'[a] = shown'[a]
          /\ written'[a] > written[a] => \/ shown'[a].stage # shown[a].stage
                                         \/ shown'[a].percent > shown[a].percent
          /\ ProgressTyped'
      <3>1. "separation" \in Stages /\ p \in 0..99
        BY <2>2, StagesAre
      <3>2. \/ shown[a].stage # "separation"
            \/ shown[a].percent < p
            \/ isLink[a]
        BY <2>6
      <3>3. QED
        BY <2>1, <2>3, <2>5, <3>1, <3>2, ReportWrites, ZenonT(40)
    <2>8. Shows(a, "separation")'
      BY <2>7 DEF Shows, Scaled
    <2>9. ReportedAt(a)'
      BY <1>1, <2>2, <2>7, <2>8, StagesAre DEF ReportedAt, At, Separating
    <2>10. Scaled(a, p) \in 0..99 /\ shown'[a].percent = Scaled(a, p)
      <3>1. p \in 0..99 /\ p <= p
        BY <2>2
      <3>2. Scaled(a, p) \in 0..99
        BY <3>1, ScaledRises
      <3>3. QED
        BY <2>7, <3>2 DEF Update
    <2>11. Rises(a)
      BY <2>2, <2>5, <2>7, <2>10 DEF Rises
    <2>12. QED
      BY <2>7, <2>9, <2>11
  <1>5. QED
    BY <1>3, <1>4

LEMMA DownloadRises ==
  ASSUME Typed, ProgressTyped, NEW a \in Attempts, ReportedAt(a),
         DownloadSome(a)
  PROVE  ProgressTyped' /\ ReportedAt(a)' /\ Rises(a)
  <1>a. /\ shown[a] \in Updates /\ shown[a].percent \in 0..100
        /\ isLink[a] \in BOOLEAN
    BY DEF ProgressTyped, Updates
  <1>1. at[a].pc = "fetch" /\ at' = at
    BY DEF DownloadSome, At
  <1>2. /\ isLink[a] /\ last[a] = shown[a] /\ percent[a] = -1
        /\ shown[a].stage \in {"none", "download"}
        /\ shown[a].percent <= DOWNLOAD_PERCENT
        /\ shown[a].stage = "none" => shown[a].percent = 0
    BY <1>1 DEF ReportedAt, At
  <1>3. PICK fraction \in Int : Download(a, fraction)
    BY ProgressAssumption DEF DownloadSome, Reported
  <1>4. /\ UNCHANGED <<percent, isLink>>
        /\ last'[a] = shown'[a]
        /\ shown'[a].stage \in {"none", "download"}
        /\ shown'[a].percent <= DOWNLOAD_PERCENT
        /\ shown'[a].percent >= shown[a].percent
        /\ shown'[a].stage = "none" => shown'[a].percent = 0
        /\ written'[a] > written[a] => \/ shown'[a].stage # shown[a].stage
                                       \/ shown'[a].percent > shown[a].percent
        /\ ProgressTyped'
    BY <1>2, <1>3, DownloadWrites
  <1>5. ReportedAt(a)'
    BY <1>1, <1>2, <1>4 DEF ReportedAt, At, Separating
  <1>6. shown'[a].percent < 100
    <2>1. shown'[a] \in Updates
      BY <1>4 DEF ProgressTyped
    <2>2. QED
      BY <1>4, <2>1 DEF Updates, DOWNLOAD_PERCENT
  <1>7. QED
    BY <1>2, <1>4, <1>5, <1>6 DEF Rises

LEMMA BeginRises ==
  ASSUME Typed, ProgressTyped, NEW a \in Attempts, Begin(a)
  PROVE  ProgressTyped' /\ ReportedAt(a)' /\ Rises(a)
  <1>a. /\ percent \in [Attempts -> -1..100]
        /\ isLink \in [Attempts -> BOOLEAN]
        /\ last \in [Attempts -> Updates]
        /\ shown \in [Attempts -> Updates]
        /\ written \in [Attempts -> Nat] /\ written[a] \in Nat
    BY DEF ProgressTyped
  <1>1. at[a].pc = "idle" /\ at'[a].pc \in {"restore", "fetch"}
    BY BeginMakes
  <1>2. PICK link \in BOOLEAN :
          NewProgress(a, link) /\ (at'[a].pc = "fetch" => link)
    BY <1>1 DEF Begin, Typed, Record
  <1>3. NoUpdate \in Updates /\ NoUpdate.stage = "none" /\ NoUpdate.percent = 0
    BY DEF NoUpdate, Update, Updates
  <1>4. /\ percent'[a] = -1 /\ isLink'[a] = link /\ last'[a] = NoUpdate
        /\ shown'[a] = NoUpdate /\ written'[a] = 0
    BY <1>a, <1>2 DEF NewProgress
  <1>5. ProgressTyped'
    BY <1>a, <1>2, <1>3 DEF ProgressTyped, NewProgress
  <1>6. ReportedAt(a)'
    BY <1>1, <1>2, <1>3, <1>4 DEF ReportedAt, At, Separating, DOWNLOAD_PERCENT
  <1>7. Rises(a)
    BY <1>a, <1>1, <1>4 DEF Rises, At
  <1>8. QED
    BY <1>5, <1>6, <1>7

LEMMA CheckRises ==
  ASSUME Typed, ProgressTyped, NEW a \in Attempts, ReportedAt(a), Check(a)
  PROVE  ProgressTyped' /\ ReportedAt(a)' /\ Rises(a)
  <1>a. /\ shown[a] \in Updates /\ shown[a].percent \in 0..100
        /\ isLink[a] \in BOOLEAN /\ at[a].pc \in Pcs /\ written[a] \in Nat
    BY DEF ProgressTyped, Updates, Typed, Record
  <1>1. at[a].pc = "check"
    BY DEF Check, At
  <1>2. shown[a].percent \in 0..99 /\ (isLink[a] => last[a] = shown[a])
    BY <1>a, <1>1, ShownBelow DEF ReportedAt
  <1>3. CASE at[a].tab = "wrong"
    <2>1. UNCHANGED progressVars /\ at'[a].pc = "idle"
      BY <1>3 DEF Check, Typed, NoAttempt
    <2>2. QED
      BY <1>a, <2>1, StillReported
  <1>4. CASE at[a].tab # "wrong"
    <2>1. Finish(a) /\ at'[a].pc = "done"
      BY <1>4 DEF Check, Typed, Record
    <2>2. /\ percent'[a] = 100 /\ ProgressTyped'
          /\ UNCHANGED <<isLink, shown, written>>
      BY <1>2, <2>1, FinishWrites
    <2>3. ReportedAt(a)'
      BY <1>2, <2>1, <2>2 DEF ReportedAt, At, Separating
    <2>4. Rises(a)
      BY <1>2, <1>a, <2>1, <2>2 DEF Rises
    <2>5. QED
      BY <2>2, <2>3, <2>4
  <1>5. QED
    BY <1>3, <1>4

LEMMA StepRises ==
  ASSUME Typed, ProgressTyped, NEW a \in Attempts, ReportedAt(a), Step(a)
  PROVE  ProgressTyped' /\ ReportedAt(a)' /\ Rises(a)
  <1>a. at[a].pc \in Pcs
    BY DEF Typed, Record
  <1>1. CASE Downloaded(a)
    <2>1. UNCHANGED progressVars
      BY <1>1 DEF Downloaded
    <2>2. QED
      BY <1>a, <1>1, <2>1, DownloadedMakes, StillReported
  <1>2. CASE RestoreStem(a) \/ Separated(a) \/ StoreStem(a) \/ StoreSeparation(a)
    <2>1. UNCHANGED progressVars
      BY <1>2 DEF RestoreStem, Separated, StoreStem, StoreSeparation
    <2>2. /\ at[a].pc \in Separating \ {"restore"}
          /\ at'[a].pc \in (Separating \ {"restore"}) \cup {"transcription"}
      BY <1>2, RestoreStemMakes, SeparatedMakes, StoreStemMakes,
         StoreSeparationMakes DEF Separating
    <2>3. QED
      BY <1>a, <2>1, <2>2, StillReported
  <1>3. CASE Transcribe(a) \/ TranscriberRaises(a) \/ KeepTranscription(a)
    <2>1. UNCHANGED progressVars
      BY <1>3 DEF Transcribe, TranscriberRaises, KeepTranscription
    <2>2. /\ at[a].pc \in {"transcribe", "keepnotes"}
          /\ at'[a].pc \in {"keepnotes", "structure"}
      BY <1>3, TranscribeMakes, TranscriberRaisesMakes, KeepTranscriptionMakes
    <2>3. QED
      BY <1>a, <2>1, <2>2, StillReported
  <1>4. CASE \/ Analyze(a) \/ AnalyzeHalf(a) \/ AnalyzerRaises(a)
             \/ KeepStructure(a)
    <2>1. UNCHANGED progressVars
      BY <1>4 DEF Analyze, AnalyzeHalf, AnalyzerRaises, KeepStructure
    <2>2. /\ at[a].pc \in {"analyze", "keepstructure"}
          /\ at'[a].pc \in {"keepstructure", "fretboard"}
      BY <1>4, AnalyzeMakes, AnalyzeHalfMakes, AnalyzerRaisesMakes,
         KeepStructureMakes
    <2>3. QED
      BY <1>a, <2>1, <2>2, StillReported
  <1>5. CASE Stop(a)
    <2>1. UNCHANGED progressVars /\ at'[a].pc = "idle"
      BY <1>5 DEF Stop, Typed, NoAttempt
    <2>2. QED
      BY <1>a, <2>1, StillReported
  <1>6. QED
    BY <1>1, <1>2, <1>3, <1>4, <1>5, BeginRises, DownloadRises, SeparationRises,
       StagesRise, CheckRises DEF Step

AllReported == \A a \in Attempts : ReportedAt(a)

LEMMA AllRise ==
  ASSUME Typed, ProgressTyped, AllReported, [Next]_vars
  PROVE  /\ ProgressTyped' /\ AllReported'
         /\ vars' # vars => \A a \in Attempts : Rises(a)
  <1>1. ASSUME NEW a \in crew, Step(a)
        PROVE  ProgressTyped' /\ AllReported' /\ \A b \in Attempts : Rises(b)
    <2>1. a \in Attempts /\ ReportedAt(a)
      BY <1>1 DEF Typed, AllReported
    <2>2. ProgressTyped' /\ ReportedAt(a)' /\ Rises(a)
      BY <1>1, <2>1, StepRises
    <2>3. ASSUME NEW b \in Attempts, b # a
          PROVE  ReportedAt(b)' /\ Rises(b)
      <3>1. /\ percent'[b] = percent[b] /\ isLink'[b] = isLink[b]
            /\ last'[b] = last[b] /\ shown'[b] = shown[b]
            /\ written'[b] = written[b] /\ at'[b] = at[b]
        BY <1>1, <2>1, <2>3, OthersShow, OthersWait
      <3>2. ReportedAt(b) /\ at[b].pc \in Pcs
        BY DEF AllReported, Typed, Record
      <3>3. /\ shown[b].percent \in 0..100 /\ written[b] \in Nat
            /\ percent[b] \in -1..100
        BY DEF ProgressTyped, Updates
      <3>4. at[b].pc # "idle" => shown[b].percent \in 0..99
        BY <3>2, ShownBelow
      <3>5. ReportedAt(b)'
        BY <3>1, <3>2 DEF ReportedAt, Shows, Scaled, At
      <3>6. Rises(b)
        BY <3>1, <3>3, <3>4 DEF Rises, At
      <3>7. QED
        BY <3>5, <3>6
    <2>4. QED
      BY <2>2, <2>3 DEF AllReported
  <1>2. CASE UNCHANGED vars
    <2>1. /\ percent' = percent /\ isLink' = isLink /\ last' = last
          /\ shown' = shown /\ written' = written /\ at' = at
      BY <1>2 DEF vars, progressVars
    <2>2. ProgressTyped'
      BY <2>1 DEF ProgressTyped
    <2>3. AllReported'
      BY <2>1 DEF AllReported, ReportedAt, Shows, Scaled, At
    <2>4. QED
      BY <1>2, <2>2, <2>3
  <1>3. QED
    BY <1>1, <1>2 DEF Next

(* The percent a row shows rises and stays below 100, whatever fractions   *)
(* are reported; each write shows something new; and the reporter's 100    *)
(* means that there is a document.                                         *)
THEOREM PercentsRise == Spec => PercentRises
  <1>1. Init => ProgressTyped /\ AllReported
    <2> SUFFICES ASSUME Init PROVE ProgressTyped /\ AllReported
      OBVIOUS
    <2>1. ProgressTyped
      BY DEF Init, ProgressInit, ProgressTyped, NoUpdate, Update, Updates
    <2>2. AllReported
      BY DEF Init, AttemptInit, NoAttempt, AllReported, ReportedAt, At, Separating
    <2>3. QED
      BY <2>1, <2>2
  <1>2. Typed /\ ProgressTyped /\ AllReported /\ [Next]_vars
          => ProgressTyped' /\ AllReported'
    BY AllRise
  <1>3. Typed /\ ProgressTyped /\ AllReported /\ [Next]_vars =>
          [\A a \in Attempts :
             /\ ~At(a, "idle") => /\ shown'[a].percent >= shown[a].percent
                                  /\ shown'[a].percent < 100
             /\ written'[a] > written[a] =>
                  \/ shown'[a].stage # shown[a].stage
                  \/ shown'[a].percent > shown[a].percent
             /\ percent[a] # 100 /\ percent'[a] = 100 => at'[a].pc = "done"]_vars
    BY AllRise DEF Rises
  <1>4. QED
    BY <1>1, <1>2, <1>3, AttemptTyped, PTL DEF Spec, PercentRises
=============================================================================
