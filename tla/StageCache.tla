----------------------------- MODULE StageCache -----------------------------
(***************************************************************************)
(* The cached stage results of one song (apps/worker/caching.py): the      *)
(* entries under the prefix of one content hash.  Entries of other hashes  *)
(* have other keys and never meet these.                                   *)
(*                                                                         *)
(* What an entry was computed from is all the properties tell apart, and   *)
(* that is a take: the stem one run of the separator left.  Two runs on    *)
(* the same bytes may leave two stems.                                     *)
(***************************************************************************)
CONSTANTS
  Takes,      \* the stems separation may leave
  Fallback,   \* those taken from the 4-stem model, which come with a warning
  Noteless,   \* those in which the transcriber hears no note
  None        \* no entry

ASSUME StageCacheAssumption ==
  /\ Fallback \subseteq Takes
  /\ Noteless \subseteq Takes
  /\ None \notin Takes
  /\ Takes \cap {"plain", "fallback", "degraded", "failed"} = {}
  /\ None \notin {"plain", "fallback", "degraded", "failed"}

VARIABLES
  cache,
  faults   \* may a read of the cache fail?

(* result.json keeps the separation's warnings.                            *)
Meta == {"plain", "fallback"}

(* "degraded": a half of the structure stage failed and left a warning.    *)
Entries == [stem          : Takes \cup {None},
            separation    : Meta \cup {None},
            transcription : Takes \cup {None},
            structure     : Takes \cup {"degraded", None}]

CacheInit ==
  /\ cache = [stem |-> None, separation |-> None,
               transcription |-> None, structure |-> None]
  /\ faults \in BOOLEAN

WarningsOf(take) == IF take \in Fallback THEN "fallback" ELSE "plain"

(* _load: what the read of an entry may answer.  Whatever goes wrong is a  *)
(* miss.                                                                   *)
Loaded(entry) == {entry} \cup (IF faults THEN {None} ELSE {})

(* _store: the entry is written, or the failure is logged.                 *)
StoreTranscription(events) ==
  \/ cache' = [cache EXCEPT !.transcription = events]
  \/ UNCHANGED cache

StoreStructure(result) ==
  \/ cache' = [cache EXCEPT !.structure = result]
  \/ UNCHANGED cache

(* The separation's two writes: a failure of either fails the attempt,     *)
(* which can stop before or after each.                                    *)
PutStem(take)       == cache' = [cache EXCEPT !.stem = take]
PutSeparation(take) == cache' = [cache EXCEPT !.separation = WarningsOf(take)]
=============================================================================
