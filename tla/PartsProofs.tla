----------------------------- MODULE PartsProofs -----------------------------
(***************************************************************************)
(* Proofs about four parts that stand by themselves: dropping ghosts from  *)
(* a transcription (Transcription), a link's way from yt-dlp's words to    *)
(* what the listener is told (LinkFetch), a request's way to its handler   *)
(* (Intake), which share the chains of rules and the links, and the        *)
(* creation of a song's row (Creation).                                    *)
(***************************************************************************)
EXTENDS Transcription, LinkFetch, Intake, Creation, FiniteSetTheorems, TLAPS,
        WellFoundedInduction, SequenceTheorems

-----------------------------------------------------------------------------
(* Dropping ghosts leaves their bases, for every prediction, every ratio   *)
(* and every width of the windows.                                         *)

Events == [onset : Int, duration : Int, midi : Int, confidence : Int]

EventsTyped == \A i \in DOMAIN events : events[i] \in Events

(* The ghosts are exactly the notes the rule names, each judged against    *)
(* every event and never against those that are left.                      *)
GhostsAsRuled ==
  ghosts = {g \in (IF heardTo = "nothing" THEN {} ELSE DOMAIN events) :
              is_ghost(events, g)}

GhostInv ==
  /\ predicted \in Predictions
  /\ EventsTyped
  /\ GhostsAsRuled

(* The neighbours of a note are those it is a neighbour of.                *)
LEMMA NeighboursMutual ==
  ASSUME NEW notes, NEW g \in DOMAIN notes, NEW b \in Neighbours(notes, g),
         \A i \in DOMAIN notes : notes[i] \in Events
  PROVE  b \in DOMAIN notes /\ g \in Neighbours(notes, b)
<1>1. b \in DOMAIN notes /\ b # g
  BY DEF Neighbours
<1>2. /\ notes[g].onset \in Int /\ notes[b].onset \in Int /\ VoicingWindow \in Int
  BY <1>1, TranscriptionAssumption DEF Events
<1>3. /\ notes[b].onset - VoicingWindow <= notes[g].onset
      /\ notes[g].onset <= notes[b].onset + VoicingWindow
  BY <1>2 DEF Neighbours
<1> QED
  BY <1>1, <1>3 DEF Neighbours

(* No note is a base of its own base: a base lies below.                   *)
LEMMA BasesBelow ==
  ASSUME NEW notes, NEW g \in DOMAIN notes, NEW b \in DOMAIN notes,
         \A i \in DOMAIN notes : notes[i] \in Events,
         is_base(notes, b, g)
  PROVE  ~is_base(notes, g, b)
<1>1. notes[g].midi \in Int /\ notes[b].midi \in Int
  BY DEF Events
<1> QED
  BY <1>1 DEF is_base, GHOST_INTERVALS

(* A note that starts with a ghost is one of its bases, and no ghost.      *)
LEMMA GhostNeighbours ==
  ASSUME NEW notes, NEW g \in DOMAIN notes, NEW b \in Neighbours(notes, g),
         \A i \in DOMAIN notes : notes[i] \in Events,
         AloneOnly, is_ghost(notes, g)
  PROVE  is_base(notes, b, g) /\ ~is_ghost(notes, b)
<1>1. b \in DOMAIN notes /\ g \in Neighbours(notes, b)
  BY NeighboursMutual
<1>2. is_base(notes, b, g)
  BY DEF is_ghost, Bases
<1>3. ~is_base(notes, g, b)
  BY <1>1, <1>2, BasesBelow
<1>4. ~is_ghost(notes, b)
  BY <1>1, <1>3 DEF is_ghost, Bases
<1> QED
  BY <1>2, <1>4

(* An event made of a prediction has whole fields.                         *)
LEMMA NoteEventTyped ==
  ASSUME NEW note \in Prediction
  PROVE  NoteEvent(note) \in Events
<1>1. Clamped(note.amplitude) \in Int
  BY DEF Clamped, Prediction
<1> QED
  BY <1>1 DEF NoteEvent, Events, Prediction

LEMMA GhostInvStep ==
  GhostInv /\ [TranscriptionNext]_transcriptionVars => GhostInv'
<1> SUFFICES ASSUME GhostInv, [TranscriptionNext]_transcriptionVars
             PROVE  GhostInv'
  OBVIOUS
<1> USE DEF GhostInv
<1>1. CASE TakesEvents
  <2>1. predicted \in Seq(Prediction)
    BY TranscriptionAssumption
  <2>2. predicted' = predicted
    BY <1>1 DEF TakesEvents
  <2>3. EventsTyped'
    <3>1. ASSUME NEW i \in DOMAIN events'
          PROVE  events'[i] \in Events
      <4>1. i \in DOMAIN predicted /\ events'[i] = NoteEvent(predicted[i])
        BY <1>1, <3>1 DEF TakesEvents
      <4>2. predicted[i] \in Prediction
        BY <2>1, <4>1
      <4> QED
        BY <4>1, <4>2, NoteEventTyped
    <3> QED
      BY <3>1 DEF EventsTyped
  <2>4. GhostsAsRuled'
    BY <1>1 DEF TakesEvents, GhostsAsRuled
  <2> QED
    BY <2>2, <2>3, <2>4
<1>2. CASE Transcribes
  BY <1>2 DEF Transcribes, EventsTyped, GhostsAsRuled
<1>3. CASE UNCHANGED transcriptionVars
  BY <1>3 DEF transcriptionVars, EventsTyped, GhostsAsRuled, is_ghost, Bases,
     Neighbours, is_base
<1> QED
  BY <1>1, <1>2, <1>3 DEF TranscriptionNext

(* What starts together with a dropped note is a base of it that stays:    *)
(* drop_ghosts, when it spares notes that are not alone.                   *)
THEOREM GhostsLeave == TranscriptionSpec => []GhostsLeaveBases
<1>1. TranscriptionInit => GhostInv
  BY DEF TranscriptionInit, GhostInv, EventsTyped, GhostsAsRuled
<1>2. GhostInv => GhostsLeaveBases
  <2> SUFFICES ASSUME GhostInv, AloneOnly, NEW g \in ghosts
               PROVE  /\ Neighbours(events, g) # {}
                      /\ \A b \in Neighbours(events, g) :
                           b \notin ghosts /\ is_base(events, b, g)
    BY DEF GhostsLeaveBases
  <2>1. g \in DOMAIN events /\ is_ghost(events, g)
    BY DEF GhostInv, GhostsAsRuled
  <2>2. Neighbours(events, g) # {}
    BY <2>1 DEF is_ghost
  <2>3. ASSUME NEW b \in Neighbours(events, g)
        PROVE  b \notin ghosts /\ is_base(events, b, g)
    <3>1. is_base(events, b, g) /\ ~is_ghost(events, b)
      BY <2>1, GhostNeighbours DEF GhostInv, EventsTyped
    <3> QED
      BY <3>1 DEF GhostInv, GhostsAsRuled
  <2> QED
    BY <2>2, <2>3
<1> QED
  BY <1>1, <1>2, GhostInvStep, PTL DEF TranscriptionSpec

-----------------------------------------------------------------------------
(* Rules.  The first rule that holds gives what the chain gives, and there *)
(* is one when the last holds whatever is the case.                        *)

LEMMA FirstIs ==
  ASSUME NEW rules, NEW n \in Nat, DOMAIN rules = 1..n, NEW i \in 1..n,
         rules[i][1], \A k \in 1..(i - 1) : ~rules[k][1]
  PROVE  FirstOf(rules) = rules[i][2]
<1> DEFINE First(j) == rules[j][1] /\ \A k \in 1..(j - 1) : ~rules[k][1]
<1>1. PICK j \in 1..n : j = CHOOSE m \in DOMAIN rules : First(m)
  <2>1. i \in DOMAIN rules /\ First(i)
    OBVIOUS
  <2> QED
    BY <2>1
<1>2. First(j)
  BY <1>1
<1>3. j = i
  <2>1. ~(i < j)
    BY <1>2
  <2>2. ~(j < i)
    BY <1>2
  <2> QED
    BY <2>1, <2>2
<1> QED
  BY <1>1, <1>3 DEF FirstOf

LEMMA FirstExists ==
  ASSUME NEW rules, NEW n \in Nat \ {0}, DOMAIN rules = 1..n, rules[n][1]
  PROVE  \E i \in 1..n : /\ rules[i][1]
                         /\ \A k \in 1..(i - 1) : ~rules[k][1]
                         /\ FirstOf(rules) = rules[i][2]
<1> DEFINE T == {i \in 1..n : rules[i][1]}
<1>1. T \subseteq Nat /\ T # {}
  OBVIOUS
<1>2. PICK i \in T : \A k \in T : ~(<<k, i>> \in OpToRel(<, Nat))
  <2> HIDE DEF T
  <2> QED
    BY <1>1, NatLessThanWellFounded, WFMin, Zenon
<1>3. \A k \in T : ~(k < i)
  BY <1>1, <1>2 DEF OpToRel
<1>4. \A k \in 1..(i - 1) : ~rules[k][1]
  BY <1>3
<1> QED
  BY <1>4, FirstIs

(* A rule's condition and what it gives.                                   *)
LEMMA RuleIs ==
  ASSUME NEW c \in BOOLEAN, NEW k
  PROVE  <<c, k>>[2] = k /\ (<<c, k>>[1] <=> c)
  OBVIOUS

(* Chains that are written out, as the ifs they are.                       *)
LEMMA FirstOfThreeRules ==
  ASSUME NEW a, NEW b, NEW c, c[1]
  PROVE  FirstOf(<<a, b, c>>) = IF a[1] THEN a[2] ELSE IF b[1] THEN b[2] ELSE c[2]
<1> DEFINE s == <<a, b, c>>
<1>1. DOMAIN s = 1..3 /\ s[1] = a /\ s[2] = b /\ s[3] = c
  OBVIOUS
<1> HIDE DEF s
<1>2. \A i \in 1..3 : s[i][1] /\ (\A k \in 1..(i - 1) : ~s[k][1]) => FirstOf(s) = s[i][2]
  <2> SUFFICES ASSUME NEW i \in 1..3, s[i][1], \A k \in 1..(i - 1) : ~s[k][1]
               PROVE  FirstOf(s) = s[i][2]
    OBVIOUS
  <2>1. 3 \in Nat
    OBVIOUS
  <2> QED
    BY <1>1, <2>1, FirstIs
<1>3. a[1] => FirstOf(s) = a[2]
  BY <1>1, <1>2
<1>4. ~a[1] /\ b[1] => FirstOf(s) = b[2]
  BY <1>1, <1>2
<1>5. ~a[1] /\ ~b[1] => FirstOf(s) = c[2]
  BY <1>1, <1>2
<1> QED
  BY <1>3, <1>4, <1>5 DEF s

LEMMA FirstOfFourRules ==
  ASSUME NEW a, NEW b, NEW c, NEW d, d[1]
  PROVE  FirstOf(<<a, b, c, d>>) =
           IF a[1] THEN a[2] ELSE IF b[1] THEN b[2] ELSE IF c[1] THEN c[2] ELSE d[2]
<1> DEFINE s == <<a, b, c, d>>
<1>1. DOMAIN s = 1..4 /\ s[1] = a /\ s[2] = b /\ s[3] = c /\ s[4] = d
  OBVIOUS
<1> HIDE DEF s
<1>2. \A i \in 1..4 : s[i][1] /\ (\A k \in 1..(i - 1) : ~s[k][1]) => FirstOf(s) = s[i][2]
  <2> SUFFICES ASSUME NEW i \in 1..4, s[i][1], \A k \in 1..(i - 1) : ~s[k][1]
               PROVE  FirstOf(s) = s[i][2]
    OBVIOUS
  <2>1. 4 \in Nat
    OBVIOUS
  <2> QED
    BY <1>1, <2>1, FirstIs
<1>3. a[1] => FirstOf(s) = a[2]
  BY <1>1, <1>2
<1>4. ~a[1] /\ b[1] => FirstOf(s) = b[2]
  BY <1>1, <1>2
<1>5. ~a[1] /\ ~b[1] /\ c[1] => FirstOf(s) = c[2]
  BY <1>1, <1>2
<1>6. ~a[1] /\ ~b[1] /\ ~c[1] => FirstOf(s) = d[2]
  BY <1>1, <1>2
<1> QED
  BY <1>3, <1>4, <1>5, <1>6 DEF s

LEMMA FirstOfSixRules ==
  ASSUME NEW a, NEW b, NEW c, NEW d, NEW e, NEW f, f[1]
  PROVE  FirstOf(<<a, b, c, d, e, f>>) =
           IF a[1] THEN a[2] ELSE IF b[1] THEN b[2] ELSE IF c[1] THEN c[2]
           ELSE IF d[1] THEN d[2] ELSE IF e[1] THEN e[2] ELSE f[2]
<1> DEFINE s == <<a, b, c, d, e, f>>
<1>1. /\ DOMAIN s = 1..6 /\ s[1] = a /\ s[2] = b /\ s[3] = c /\ s[4] = d /\ s[5] = e
      /\ s[6] = f
  OBVIOUS
<1> HIDE DEF s
<1>2. \A i \in 1..6 : s[i][1] /\ (\A k \in 1..(i - 1) : ~s[k][1]) => FirstOf(s) = s[i][2]
  <2> SUFFICES ASSUME NEW i \in 1..6, s[i][1], \A k \in 1..(i - 1) : ~s[k][1]
               PROVE  FirstOf(s) = s[i][2]
    OBVIOUS
  <2>1. 6 \in Nat
    OBVIOUS
  <2> QED
    BY <1>1, <2>1, FirstIs
<1>3. a[1] => FirstOf(s) = a[2]
  BY <1>1, <1>2
<1>4. ~a[1] /\ b[1] => FirstOf(s) = b[2]
  BY <1>1, <1>2
<1>5. ~a[1] /\ ~b[1] /\ c[1] => FirstOf(s) = c[2]
  BY <1>1, <1>2
<1>6. ~a[1] /\ ~b[1] /\ ~c[1] /\ d[1] => FirstOf(s) = d[2]
  BY <1>1, <1>2
<1>7. ~a[1] /\ ~b[1] /\ ~c[1] /\ ~d[1] /\ e[1] => FirstOf(s) = e[2]
  BY <1>1, <1>2
<1>8. ~a[1] /\ ~b[1] /\ ~c[1] /\ ~d[1] /\ ~e[1] => FirstOf(s) = f[2]
  BY <1>1, <1>2
<1> QED
  BY <1>3, <1>4, <1>5, <1>6, <1>7, <1>8 DEF s

LEMMA FirstOfSevenRules ==
  ASSUME NEW a, NEW b, NEW c, NEW d, NEW e, NEW f, NEW g, g[1]
  PROVE  FirstOf(<<a, b, c, d, e, f, g>>) =
           IF a[1] THEN a[2] ELSE IF b[1] THEN b[2] ELSE IF c[1] THEN c[2]
           ELSE IF d[1] THEN d[2] ELSE IF e[1] THEN e[2] ELSE IF f[1] THEN f[2]
           ELSE g[2]
<1> DEFINE s == <<a, b, c, d, e, f, g>>
<1>1. /\ DOMAIN s = 1..7 /\ s[1] = a /\ s[2] = b /\ s[3] = c /\ s[4] = d /\ s[5] = e
      /\ s[6] = f /\ s[7] = g
  OBVIOUS
<1> HIDE DEF s
<1>2. \A i \in 1..7 : s[i][1] /\ (\A k \in 1..(i - 1) : ~s[k][1]) => FirstOf(s) = s[i][2]
  <2> SUFFICES ASSUME NEW i \in 1..7, s[i][1], \A k \in 1..(i - 1) : ~s[k][1]
               PROVE  FirstOf(s) = s[i][2]
    OBVIOUS
  <2>1. 7 \in Nat
    OBVIOUS
  <2> QED
    BY <1>1, <2>1, FirstIs
<1>3. a[1] => FirstOf(s) = a[2]
  BY <1>1, <1>2
<1>4. ~a[1] /\ b[1] => FirstOf(s) = b[2]
  BY <1>1, <1>2
<1>5. ~a[1] /\ ~b[1] /\ c[1] => FirstOf(s) = c[2]
  BY <1>1, <1>2
<1>6. ~a[1] /\ ~b[1] /\ ~c[1] /\ d[1] => FirstOf(s) = d[2]
  BY <1>1, <1>2
<1>7. ~a[1] /\ ~b[1] /\ ~c[1] /\ ~d[1] /\ e[1] => FirstOf(s) = e[2]
  BY <1>1, <1>2
<1>8. ~a[1] /\ ~b[1] /\ ~c[1] /\ ~d[1] /\ ~e[1] /\ f[1] => FirstOf(s) = f[2]
  BY <1>1, <1>2
<1>9. ~a[1] /\ ~b[1] /\ ~c[1] /\ ~d[1] /\ ~e[1] /\ ~f[1] => FirstOf(s) = g[2]
  BY <1>1, <1>2
<1> QED
  BY <1>3, <1>4, <1>5, <1>6, <1>7, <1>8, <1>9 DEF s

LEMMA FirstOfEightRules ==
  ASSUME NEW a, NEW b, NEW c, NEW d, NEW e, NEW f, NEW g, NEW h, h[1]
  PROVE  FirstOf(<<a, b, c, d, e, f, g, h>>) =
           IF a[1] THEN a[2] ELSE IF b[1] THEN b[2] ELSE IF c[1] THEN c[2]
           ELSE IF d[1] THEN d[2] ELSE IF e[1] THEN e[2] ELSE IF f[1] THEN f[2]
           ELSE IF g[1] THEN g[2] ELSE h[2]
<1> DEFINE s == <<a, b, c, d, e, f, g, h>>
<1>1. /\ DOMAIN s = 1..8 /\ s[1] = a /\ s[2] = b /\ s[3] = c /\ s[4] = d /\ s[5] = e
      /\ s[6] = f /\ s[7] = g /\ s[8] = h
  OBVIOUS
<1> HIDE DEF s
<1>2. \A i \in 1..8 : s[i][1] /\ (\A k \in 1..(i - 1) : ~s[k][1]) => FirstOf(s) = s[i][2]
  <2> SUFFICES ASSUME NEW i \in 1..8, s[i][1], \A k \in 1..(i - 1) : ~s[k][1]
               PROVE  FirstOf(s) = s[i][2]
    OBVIOUS
  <2>1. 8 \in Nat
    OBVIOUS
  <2> QED
    BY <1>1, <2>1, FirstIs
<1>3. a[1] => FirstOf(s) = a[2]
  BY <1>1, <1>2
<1>4. ~a[1] /\ b[1] => FirstOf(s) = b[2]
  BY <1>1, <1>2
<1>5. ~a[1] /\ ~b[1] /\ c[1] => FirstOf(s) = c[2]
  BY <1>1, <1>2
<1>6. ~a[1] /\ ~b[1] /\ ~c[1] /\ d[1] => FirstOf(s) = d[2]
  BY <1>1, <1>2
<1>7. ~a[1] /\ ~b[1] /\ ~c[1] /\ ~d[1] /\ e[1] => FirstOf(s) = e[2]
  BY <1>1, <1>2
<1>8. ~a[1] /\ ~b[1] /\ ~c[1] /\ ~d[1] /\ ~e[1] /\ f[1] => FirstOf(s) = f[2]
  BY <1>1, <1>2
<1>9. ~a[1] /\ ~b[1] /\ ~c[1] /\ ~d[1] /\ ~e[1] /\ ~f[1] /\ g[1] => FirstOf(s) = g[2]
  BY <1>1, <1>2
<1>10. ~a[1] /\ ~b[1] /\ ~c[1] /\ ~d[1] /\ ~e[1] /\ ~f[1] /\ ~g[1] => FirstOf(s) = h[2]
  BY <1>1, <1>2
<1> QED
  BY <1>3, <1>4, <1>5, <1>6, <1>7, <1>8, <1>9, <1>10 DEF s

(* Of three chains in a row, the first rule that holds is of the first, or *)
(* the first to hold of the second, or of the third.                       *)
LEMMA FirstOfThreeChains ==
  ASSUME NEW S, NEW s \in Seq(S), NEW t \in Seq(S), NEW u \in Seq(S),
         u # <<>>, u[Len(u)][1]
  PROVE  LET first == FirstOf(s \o t \o u) IN
         \/ \E i \in 1..Len(s) : s[i][1] /\ first = s[i][2]
         \/ \E i \in 1..Len(t) : /\ t[i][1] /\ first = t[i][2]
                                 /\ \A k \in 1..(i - 1) : ~t[k][1]
         \/ \E i \in 1..Len(u) : u[i][1] /\ first = u[i][2]
<1> DEFINE k == Len(s)
           m == Len(s) + Len(t)
           n == Len(s) + Len(t) + Len(u)
           c == s \o t \o u
<1>1. /\ s \o t \in Seq(S) /\ Len(s \o t) = Len(s) + Len(t)
      /\ \A i \in 1..(Len(s) + Len(t)) :
           (s \o t)[i] = IF i <= Len(s) THEN s[i] ELSE t[i - Len(s)]
  BY ConcatProperties
<1>2. /\ (s \o t) \o u \in Seq(S)
      /\ Len((s \o t) \o u) = Len(s) + Len(t) + Len(u)
      /\ \A i \in 1..(Len(s) + Len(t) + Len(u)) :
           ((s \o t) \o u)[i] = IF i <= Len(s) + Len(t) THEN (s \o t)[i]
                                ELSE u[i - (Len(s) + Len(t))]
  BY <1>1, ConcatProperties
<1>3. k \in Nat /\ m \in Nat /\ n \in Nat \ {0} /\ Len(u) \in Nat \ {0} /\ Len(t) \in Nat
      /\ m = k + Len(t) /\ n = m + Len(u)
  BY EmptySeq
<1>4. DOMAIN c = 1..n
  BY <1>2
<1>5. \A i \in 1..n : c[i] = IF i <= k THEN s[i]
                             ELSE IF i <= m THEN t[i - k] ELSE u[i - m]
  BY <1>1, <1>2
<1>6. c[n][1]
  <2>1. c[n] = u[Len(u)]
    BY <1>3, <1>5
  <2> QED
    BY <2>1
<1> HIDE DEF c, k, m, n
<1>7. PICK i \in 1..n : /\ c[i][1]
                        /\ \A j \in 1..(i - 1) : ~c[j][1]
                        /\ FirstOf(c) = c[i][2]
  BY <1>3, <1>4, <1>6, FirstExists
<1>8. CASE i <= k
  <2>1. i \in 1..Len(s) /\ c[i] = s[i]
    BY <1>3, <1>5, <1>8 DEF k
  <2> QED
    BY <1>7, <2>1 DEF c
<1>9. CASE k < i /\ i <= m
  <2>1. i - k \in 1..Len(t) /\ c[i] = t[i - k]
    BY <1>3, <1>5, <1>9
  <2>2. ASSUME NEW j \in 1..(i - k - 1) PROVE ~t[j][1]
    <3>1. /\ j + k \in 1..(i - 1) /\ j + k \in 1..n /\ j + k > k /\ j + k <= m
          /\ (j + k) - k = j
      BY <1>3, <1>9
    <3>2. c[j + k] = t[j]
      BY <1>3, <1>5, <3>1
    <3> QED
      BY <1>7, <3>1, <3>2
  <2> QED
    BY <1>7, <2>1, <2>2 DEF c
<1>10. CASE m < i
  <2>1. i - m \in 1..Len(u) /\ c[i] = u[i - m]
    BY <1>3, <1>5, <1>10
  <2> QED
    BY <1>7, <2>1 DEF c
<1> QED
  BY <1>3, <1>8, <1>9, <1>10

-----------------------------------------------------------------------------
(* The catalog: the kinds that the user reads as a fault of the video.     *)
Refusals ==
  {"private", "unavailable", "geo_restricted", "age_restricted", "members_only",
   "live", "upcoming", "post_live", "no_duration", "too_long", "no_audio",
   "too_large", "unreadable"}

LEMMA RefusedKinds ==
  ASSUME NEW kind \in FetchKind, Refuses(kind)
  PROVE  kind \in Refusals
<1>1. CATALOG[kind].reason \in {"link_unusable", "too_long"}
  BY DEF Refuses
<1>2. CASE kind \in {"rate_limited", "network", "lookup_timeout", "extractor_broken",
                     "misconfigured", "unknown", "crashed", "download_timeout",
                     "media_refused", "empty_download", "local_io", "busy"}
  BY <1>1, <1>2 DEF CATALOG, Entry
<1> QED
  BY <1>2 DEF FetchKind, Refusals

(* What the classifier's rules are, one by one.                            *)
Rules1(error) ==
  << <<"GeoRestrictedError" \in error.types, "geo_restricted">>,
     <<429 \in error.statuses, "rate_limited">> >>

Rules2(error) ==
  [i \in DOMAIN MESSAGES |->
     <<MESSAGES[i][1] \intersect error.says # {}, MESSAGES[i][2]>>]

Rules3(error, warnings, video_only) ==
  << <<error.types \intersect Network # {} \/ 503 \in error.statuses, "network">>,
     <<"[download] got error:" \in error.says, "network">>,
     <<403 \in error.statuses /\ "challenge" \in warnings, "extractor_broken">>,
     <<"OSError" \in error.types, "local_io">>,
     <<"too many requests" \in warnings, "rate_limited">>,
     <<"format" \in error.says /\ "http error 503" \in warnings, "network">>,
     <<"format" \in error.says /\ video_only /\ ~Withheld(warnings), "no_audio">>,
     <<"format" \in error.says, "extractor_broken">>,
     <<"no player response" \in error.says /\ "http error 503" \in warnings, "network">>,
     <<"no player response" \in error.says \/ "unable to extract" \in error.says,
       "extractor_broken">>,
     <<TRUE, "unknown">> >>

RuleChain(error, warnings, video_only) ==
  Rules1(error) \o Rules2(error) \o Rules3(error, warnings, video_only)

LEMMA ClassifyChain ==
  ASSUME NEW error, NEW warnings, NEW video_only
  PROVE  classify(error, warnings, video_only)
           = FirstOf(RuleChain(error, warnings, video_only))
  BY DEF classify, RuleChain, Rules1, Rules2, Rules3

(* A rule of the catalog.                                                  *)
Ruling == BOOLEAN \X FetchKind

LEMMA RuleTyped ==
  ASSUME NEW c \in BOOLEAN, NEW k \in FetchKind
  PROVE  <<c, k>> \in Ruling /\ <<c, k>>[2] = k /\ (<<c, k>>[1] <=> c)
  BY DEF Ruling

LEMMA TwoRules ==
  ASSUME NEW S, NEW a \in S, NEW b \in S
  PROVE  /\ <<a, b>> \in Seq(S) /\ Len(<<a, b>>) = 2
         /\ <<a, b>>[1] = a /\ <<a, b>>[2] = b
  OBVIOUS

LEMMA ElevenRules ==
  ASSUME NEW S, NEW a \in S, NEW b \in S, NEW c \in S, NEW d \in S, NEW e \in S,
         NEW f \in S, NEW g \in S, NEW h \in S, NEW i \in S, NEW j \in S, NEW k \in S
  PROVE  LET s == <<a, b, c, d, e, f, g, h, i, j, k>> IN
         /\ s \in Seq(S) /\ Len(s) = 11
         /\ s[1] = a /\ s[2] = b /\ s[3] = c /\ s[4] = d /\ s[5] = e /\ s[6] = f
         /\ s[7] = g /\ s[8] = h /\ s[9] = i /\ s[10] = j /\ s[11] = k
  OBVIOUS

LEMMA RulesTyped1 ==
  ASSUME NEW error
  PROVE  /\ Rules1(error) \in Seq(Ruling) /\ Len(Rules1(error)) = 2
         /\ Rules1(error)[1][2] = "geo_restricted"
         /\ Rules1(error)[1][1] => "GeoRestrictedError" \in error.types
         /\ Rules1(error)[2][2] = "rate_limited"
<1> DEFINE a == <<"GeoRestrictedError" \in error.types, "geo_restricted">>
           b == <<429 \in error.statuses, "rate_limited">>
<1>1. /\ a \in Ruling /\ a[2] = "geo_restricted"
      /\ a[1] => "GeoRestrictedError" \in error.types
      /\ b \in Ruling /\ b[2] = "rate_limited"
  <2>1. "geo_restricted" \in FetchKind /\ "rate_limited" \in FetchKind
    BY DEF FetchKind
  <2>2. ("GeoRestrictedError" \in error.types) \in BOOLEAN
    OBVIOUS
  <2>3. (429 \in error.statuses) \in BOOLEAN
    OBVIOUS
  <2> QED
    BY <2>1, <2>2, <2>3, RuleTyped, ZenonT(60)
<1>2. Rules1(error) = <<a, b>>
  BY DEF Rules1
<1> HIDE DEF a, b
<1>3. Rules1(error) \in Seq(Ruling) /\ Len(Rules1(error)) = 2
      /\ Rules1(error)[1] = a /\ Rules1(error)[2] = b
  BY <1>1, <1>2, TwoRules
<1> QED
  BY <1>1, <1>3

LEMMA MessagesAre ==
  /\ DOMAIN MESSAGES = 1..8
  /\ \A i \in 1..8 : MESSAGES[i][2] \in FetchKind
  BY DEF MESSAGES, FetchKind

(* A rule that a pattern of the words calls for.                           *)
MessageRule(rule, i, error) ==
  /\ rule \in Ruling
  /\ rule[2] = MESSAGES[i][2]
  /\ rule[1] <=> MESSAGES[i][1] \intersect error.says # {}

LEMMA RulesTyped2 ==
  ASSUME NEW error
  PROVE  /\ Rules2(error) \in Seq(Ruling) /\ Len(Rules2(error)) = 8
         /\ \A i \in 1..8 : MessageRule(Rules2(error)[i], i, error)
<1> DEFINE rule(i) == <<MESSAGES[i][1] \intersect error.says # {}, MESSAGES[i][2]>>
<1>1. \A i \in 1..8 : MessageRule(rule(i), i, error) /\ rule(i) \in Ruling
  <2> SUFFICES ASSUME NEW i \in 1..8
               PROVE  MessageRule(rule(i), i, error) /\ rule(i) \in Ruling
    OBVIOUS
  <2>1. MESSAGES[i][2] \in FetchKind
    BY MessagesAre
  <2>2. (MESSAGES[i][1] \intersect error.says # {}) \in BOOLEAN
    OBVIOUS
  <2> QED
    BY <2>1, <2>2, RuleTyped DEF MessageRule
<1>2. Rules2(error) = [i \in 1..8 |-> rule(i)]
  BY MessagesAre DEF Rules2
<1> HIDE DEF rule
<1>3. Rules2(error) \in Seq(Ruling) /\ Len(Rules2(error)) = 8
      /\ \A i \in 1..8 : Rules2(error)[i] = rule(i)
  BY <1>1, <1>2
<1> QED
  BY <1>1, <1>3

LEMMA RulesTyped3 ==
  ASSUME NEW error, NEW warnings, NEW video_only \in BOOLEAN
  PROVE  LET rules == Rules3(error, warnings, video_only) IN
         /\ rules \in Seq(Ruling) /\ Len(rules) = 11
         /\ \A i \in 1..11 : i # 7 => rules[i][2] \notin Refusals
         /\ rules[7][2] = "no_audio"
         /\ rules[7][1] => "format" \in error.says /\ video_only /\ ~Withheld(warnings)
         /\ rules[11][1]
<1> DEFINE a == <<error.types \intersect Network # {} \/ 503 \in error.statuses, "network">>
           b == <<"[download] got error:" \in error.says, "network">>
           c == <<403 \in error.statuses /\ "challenge" \in warnings, "extractor_broken">>
           d == <<"OSError" \in error.types, "local_io">>
           e == <<"too many requests" \in warnings, "rate_limited">>
           f == <<"format" \in error.says /\ "http error 503" \in warnings, "network">>
           g == <<"format" \in error.says /\ video_only /\ ~Withheld(warnings), "no_audio">>
           h == <<"format" \in error.says, "extractor_broken">>
           i == <<"no player response" \in error.says /\ "http error 503" \in warnings,
                  "network">>
           j == <<"no player response" \in error.says \/ "unable to extract" \in error.says,
                  "extractor_broken">>
           k == <<TRUE, "unknown">>
           rules == Rules3(error, warnings, video_only)
<1>1. {"network", "extractor_broken", "local_io", "rate_limited", "no_audio", "unknown"}
        \subseteq FetchKind
  BY DEF FetchKind
<1>2. /\ a \in Ruling /\ a[2] = "network"
      /\ b \in Ruling /\ b[2] = "network"
      /\ c \in Ruling /\ c[2] = "extractor_broken"
      /\ d \in Ruling /\ d[2] = "local_io"
      /\ e \in Ruling /\ e[2] = "rate_limited"
      /\ f \in Ruling /\ f[2] = "network"
      /\ g \in Ruling /\ g[2] = "no_audio"
      /\ h \in Ruling /\ h[2] = "extractor_broken"
      /\ i \in Ruling /\ i[2] = "network"
      /\ j \in Ruling /\ j[2] = "extractor_broken"
      /\ k \in Ruling /\ k[2] = "unknown"
      /\ g[1] => "format" \in error.says /\ video_only /\ ~Withheld(warnings)
      /\ k[1]
  <2>1. a \in Ruling /\ a[2] = "network"
    <3>1. (error.types \intersect Network # {} \/ 503 \in error.statuses) \in BOOLEAN
      OBVIOUS
    <3> QED
      BY <1>1, <3>1, RuleTyped
  <2>2. b \in Ruling /\ b[2] = "network"
    <3>1. ("[download] got error:" \in error.says) \in BOOLEAN
      OBVIOUS
    <3> QED
      BY <1>1, <3>1, RuleTyped
  <2>3. c \in Ruling /\ c[2] = "extractor_broken"
    <3>1. (403 \in error.statuses /\ "challenge" \in warnings) \in BOOLEAN
      OBVIOUS
    <3> QED
      BY <1>1, <3>1, RuleTyped
  <2>4. d \in Ruling /\ d[2] = "local_io"
    <3>1. ("OSError" \in error.types) \in BOOLEAN
      OBVIOUS
    <3> QED
      BY <1>1, <3>1, RuleTyped
  <2>5. e \in Ruling /\ e[2] = "rate_limited"
    <3>1. ("too many requests" \in warnings) \in BOOLEAN
      OBVIOUS
    <3> QED
      BY <1>1, <3>1, RuleTyped
  <2>6. f \in Ruling /\ f[2] = "network"
    <3>1. ("format" \in error.says /\ "http error 503" \in warnings) \in BOOLEAN
      OBVIOUS
    <3> QED
      BY <1>1, <3>1, RuleTyped
  <2>7. /\ g \in Ruling /\ g[2] = "no_audio"
        /\ g[1] => "format" \in error.says /\ video_only /\ ~Withheld(warnings)
    <3>1. ("format" \in error.says /\ video_only /\ ~Withheld(warnings)) \in BOOLEAN
      OBVIOUS
    <3> QED
      BY <1>1, <3>1, RuleTyped
  <2>8. h \in Ruling /\ h[2] = "extractor_broken"
    <3>1. ("format" \in error.says) \in BOOLEAN
      OBVIOUS
    <3> QED
      BY <1>1, <3>1, RuleTyped
  <2>9. i \in Ruling /\ i[2] = "network"
    <3>1. ("no player response" \in error.says /\ "http error 503" \in warnings) \in BOOLEAN
      OBVIOUS
    <3> QED
      BY <1>1, <3>1, RuleTyped
  <2>10. j \in Ruling /\ j[2] = "extractor_broken"
    <3>1. ("no player response" \in error.says \/ "unable to extract" \in error.says)
             \in BOOLEAN
      OBVIOUS
    <3> QED
      BY <1>1, <3>1, RuleTyped
  <2>11. k \in Ruling /\ k[2] = "unknown" /\ k[1]
    <3>1. (TRUE) \in BOOLEAN
      OBVIOUS
    <3> QED
      BY <1>1, <3>1, RuleTyped
  <2> HIDE DEF a, b, c, d, e, f, g, h, i, j, k
  <2> QED
    BY <2>1, <2>2, <2>3, <2>4, <2>5, <2>6, <2>7, <2>8, <2>9, <2>10, <2>11
<1>5. rules = <<a, b, c, d, e, f, g, h, i, j, k>>
  BY DEF Rules3
<1> HIDE DEF a, b, c, d, e, f, g, h, i, j, k, rules
<1>6. /\ rules \in Seq(Ruling) /\ Len(rules) = 11
      /\ rules[1] = a /\ rules[2] = b /\ rules[3] = c /\ rules[4] = d /\ rules[5] = e
      /\ rules[6] = f /\ rules[7] = g /\ rules[8] = h /\ rules[9] = i /\ rules[10] = j
      /\ rules[11] = k
  BY <1>2, <1>5, ElevenRules
<1>7. \A n \in 1..11 : n # 7 => rules[n][2] \notin Refusals
  <2> SUFFICES ASSUME NEW n \in 1..11, n # 7
               PROVE  rules[n][2] \notin Refusals
    OBVIOUS
  <2>1. rules[n][2] \in
          {"network", "extractor_broken", "local_io", "rate_limited", "unknown"}
    BY <1>2, <1>6, SMTT(60)
  <2> QED
    BY <2>1 DEF Refusals
<1> QED
  BY <1>2, <1>6, <1>7 DEF rules

(* What of an error counts as a fault of the video: YouTube's word for     *)
(* where it may be seen, one of the refusals' words, or that no format     *)
(* suits and none with sound was offered or withheld.                      *)
LEMMA ClassifyRefuses ==
  ASSUME NEW error, NEW warnings, NEW video_only \in BOOLEAN
  PROVE  LET kind == classify(error, warnings, video_only) IN
         /\ kind \in FetchKind
         /\ Refuses(kind) =>
              \/ kind = "geo_restricted" /\ "GeoRestrictedError" \in error.types
              \/ \E i \in 1..8 :
                   /\ kind = MESSAGES[i][2]
                   /\ MESSAGES[i][1] \intersect error.says # {}
                   /\ \A k \in 1..(i - 1) : MESSAGES[k][1] \intersect error.says = {}
              \/ /\ kind = "no_audio" /\ "format" \in error.says
                 /\ video_only /\ ~Withheld(warnings)
<1> DEFINE kind == classify(error, warnings, video_only)
           r1 == Rules1(error)
           r2 == Rules2(error)
           r3 == Rules3(error, warnings, video_only)
           Told == \E i \in 1..8 :
                     /\ kind = MESSAGES[i][2]
                     /\ MESSAGES[i][1] \intersect error.says # {}
                     /\ \A k \in 1..(i - 1) : MESSAGES[k][1] \intersect error.says = {}
<1>1. /\ r1 \in Seq(Ruling) /\ Len(r1) = 2
      /\ r1[1][2] = "geo_restricted" /\ r1[2][2] = "rate_limited"
      /\ r1[1][1] => "GeoRestrictedError" \in error.types
  BY RulesTyped1
<1>2. /\ r2 \in Seq(Ruling) /\ Len(r2) = 8
      /\ \A i \in 1..8 : MessageRule(r2[i], i, error)
  BY RulesTyped2
<1>3. /\ r3 \in Seq(Ruling) /\ Len(r3) = 11
      /\ \A i \in 1..11 : i # 7 => r3[i][2] \notin Refusals
      /\ r3[7][2] = "no_audio"
      /\ r3[7][1] => "format" \in error.says /\ video_only /\ ~Withheld(warnings)
      /\ r3[11][1]
  BY RulesTyped3
<1>4. kind = FirstOf(r1 \o r2 \o r3)
  BY ClassifyChain DEF RuleChain
<1> HIDE DEF kind, r1, r2, r3
<1>5. r3 # <<>> /\ r3[Len(r3)][1]
  <2>1. r3 # <<>>
    BY <1>3, EmptySeq
  <2> QED
    BY <1>3, <2>1
<1>6. \/ \E i \in 1..Len(r1) : r1[i][1] /\ kind = r1[i][2]
      \/ \E i \in 1..Len(r2) : /\ r2[i][1] /\ kind = r2[i][2]
                               /\ \A k \in 1..(i - 1) : ~r2[k][1]
      \/ \E i \in 1..Len(r3) : r3[i][1] /\ kind = r3[i][2]
  <2>1. r1 \in Seq(Ruling) /\ r2 \in Seq(Ruling) /\ r3 \in Seq(Ruling)
    BY <1>1, <1>2, <1>3
  <2>2. LET first == FirstOf(r1 \o r2 \o r3) IN
        \/ \E i \in 1..Len(r1) : r1[i][1] /\ first = r1[i][2]
        \/ \E i \in 1..Len(r2) : /\ r2[i][1] /\ first = r2[i][2]
                                 /\ \A k \in 1..(i - 1) : ~r2[k][1]
        \/ \E i \in 1..Len(r3) : r3[i][1] /\ first = r3[i][2]
    BY <1>5, <2>1, FirstOfThreeChains, Zenon
  <2> QED
    BY <1>4, <2>2, Zenon
<1>7. kind \in FetchKind
  <2>1. \A s \in Seq(Ruling), i \in Nat : i \in 1..Len(s) => s[i][2] \in FetchKind
    BY DEF Ruling
  <2>2. r1 \in Seq(Ruling) /\ r2 \in Seq(Ruling) /\ r3 \in Seq(Ruling)
    BY <1>1, <1>2, <1>3
  <2>3. \A s \in Seq(Ruling) : \A i \in 1..Len(s) : s[i][2] \in FetchKind
    BY <2>1
  <2> QED
    BY <1>6, <2>2, <2>3, Zenon
<1> SUFFICES ASSUME Refuses(kind)
             PROVE  \/ kind = "geo_restricted" /\ "GeoRestrictedError" \in error.types
                    \/ Told
                    \/ /\ kind = "no_audio" /\ "format" \in error.says
                       /\ video_only /\ ~Withheld(warnings)
  BY <1>7 DEF kind
<1>8. kind \in Refusals
  BY <1>7, RefusedKinds
<1>9. ASSUME NEW i \in 1..2, r1[i][1], kind = r1[i][2]
      PROVE  kind = "geo_restricted" /\ "GeoRestrictedError" \in error.types
  <2>1. i # 2
    BY <1>1, <1>8, <1>9 DEF Refusals
  <2> QED
    BY <1>1, <1>9, <2>1
<1>10. ASSUME NEW i \in 1..8, r2[i][1], kind = r2[i][2], \A k \in 1..(i - 1) : ~r2[k][1]
       PROVE  Told
  <2>1. \A k \in 1..(i - 1) : k \in 1..8
    OBVIOUS
  <2>2. kind = MESSAGES[i][2] /\ MESSAGES[i][1] \intersect error.says # {}
    <3>1. MessageRule(r2[i], i, error)
      BY <1>2
    <3> QED
      BY <1>10, <3>1 DEF MessageRule
  <2>3. \A k \in 1..(i - 1) : MESSAGES[k][1] \intersect error.says = {}
    <3> SUFFICES ASSUME NEW k \in 1..(i - 1)
                 PROVE  MESSAGES[k][1] \intersect error.says = {}
      OBVIOUS
    <3>1. MessageRule(r2[k], k, error)
      BY <1>2, <2>1
    <3> QED
      BY <1>10, <3>1 DEF MessageRule
  <2> QED
    BY <2>2, <2>3, Zenon
<1>11. ASSUME NEW i \in 1..11, r3[i][1], kind = r3[i][2]
       PROVE  /\ kind = "no_audio" /\ "format" \in error.says
              /\ video_only /\ ~Withheld(warnings)
  <2>1. i = 7
    BY <1>3, <1>8, <1>11
  <2> QED
    BY <1>3, <1>11, <2>1
<1> QED
  BY <1>1, <1>2, <1>3, <1>6, <1>9, <1>10, <1>11

(* check_info as the ifs it is.                                            *)
LEMMA CheckInfoIs ==
  ASSUME NEW info
  PROVE  check_info(info) =
           IF info.live_status = "is_live" THEN "live"
           ELSE IF info.live_status = "is_upcoming" THEN "upcoming"
           ELSE IF info.live_status = "post_live" THEN "post_live"
           ELSE IF info.availability = "private" THEN "private"
           ELSE IF info.availability \in {"premium_only", "subscriber_only"}
                THEN "members_only"
           ELSE IF info.availability = "needs_auth" THEN "age_restricted"
           ELSE LengthFault(info.duration)
<1> DEFINE a == <<info.live_status = "is_live", "live">>
           b == <<info.live_status = "is_upcoming", "upcoming">>
           c == <<info.live_status = "post_live", "post_live">>
           d == <<info.availability = "private", "private">>
           e == <<info.availability \in {"premium_only", "subscriber_only"},
                  "members_only">>
           f == <<info.availability = "needs_auth", "age_restricted">>
           g == <<LengthFault(info.duration) # "fine", LengthFault(info.duration)>>
           h == <<TRUE, "fine">>
<1>1. a[2] = "live" /\ (a[1] <=> info.live_status = "is_live")
  BY RuleIs
<1>2. b[2] = "upcoming" /\ (b[1] <=> info.live_status = "is_upcoming")
  BY RuleIs
<1>3. c[2] = "post_live" /\ (c[1] <=> info.live_status = "post_live")
  BY RuleIs
<1>4. d[2] = "private" /\ (d[1] <=> info.availability = "private")
  BY RuleIs
<1>5. /\ e[2] = "members_only"
      /\ e[1] <=> info.availability \in {"premium_only", "subscriber_only"}
  <2>1. (info.availability \in {"premium_only", "subscriber_only"}) \in BOOLEAN
    OBVIOUS
  <2> QED
    BY <2>1, RuleIs
<1>6. f[2] = "age_restricted" /\ (f[1] <=> info.availability = "needs_auth")
  BY RuleIs
<1>7. /\ g[2] = LengthFault(info.duration)
      /\ g[1] <=> LengthFault(info.duration) # "fine"
  <2>1. (LengthFault(info.duration) # "fine") \in BOOLEAN
    OBVIOUS
  <2> QED
    BY <2>1, RuleIs
<1>8. h[2] = "fine" /\ h[1]
  BY RuleIs
<1>9. check_info(info) = FirstOf(<<a, b, c, d, e, f, g, h>>)
  BY DEF check_info
<1> HIDE DEF a, b, c, d, e, f, g, h
<1>10. check_info(info) =
         IF a[1] THEN a[2] ELSE IF b[1] THEN b[2] ELSE IF c[1] THEN c[2]
         ELSE IF d[1] THEN d[2] ELSE IF e[1] THEN e[2] ELSE IF f[1] THEN f[2]
         ELSE IF g[1] THEN g[2] ELSE h[2]
  BY <1>8, <1>9, FirstOfEightRules
<1> QED
  BY <1>1, <1>2, <1>3, <1>4, <1>5, <1>6, <1>7, <1>8, <1>10

(* A length.                                                               *)
LEMMA LengthFaultIs ==
  /\ LengthFault(Nothing) = "no_duration" /\ LengthFault(0) = "no_duration"
  /\ LengthFault(1) = "fine"
  /\ LengthFault(MaxDuration) = "fine" /\ LengthFault(MaxDuration + 1) = "too_long"
<1>1. MaxDuration \in Nat \ {0} /\ Nothing \notin Nat
  BY LinkFetchAssumption
<1>2. MaxDuration # Nothing /\ 1 # Nothing /\ 0 # Nothing /\ MaxDuration + 1 # Nothing
  BY <1>1
<1>3. check_duration(0) = "unsupported_format"
  BY <1>1 DEF check_duration
<1>4. check_duration(1) = "fine" /\ check_duration(MaxDuration) = "fine"
  BY <1>1 DEF check_duration
<1>5. check_duration(MaxDuration + 1) = "too_long"
  BY <1>1 DEF check_duration
<1> QED
  BY <1>2, <1>3, <1>4, <1>5 DEF LengthFault

(* What the metadata let pass, and what they do not.                       *)
Passable == {Nothing, "no_audio"} \cup OnDisk

LEMMA CheckedRight ==
  ASSUME own \in (Faults \cup {Nothing}) \ (Spoken \ Recorded),
         NEW raw \in Metadata(own)
  PROVE  \/ checked(raw) = "fine" /\ own \in Passable
         \/ checked(raw) = own /\ own \in FetchKind /\ own # "fine"
<1>0. Nothing \notin FetchKind
  BY LinkFetchAssumption
<1>1. checked(raw) = IF raw.type # "video" THEN "members_only" ELSE check_info(raw)
  BY DEF checked
<1>2. CASE own \in {"private", "age_restricted", "members_only"}
  BY <1>1, <1>2, CheckInfoIs DEF Metadata, Raw, FetchKind
<1>3. CASE own \in {"live", "upcoming", "post_live"}
  BY <1>1, <1>3, CheckInfoIs DEF Metadata, Raw, FetchKind
<1>4. CASE own = "no_duration"
  BY <1>1, <1>4, CheckInfoIs, LengthFaultIs DEF Metadata, Raw, FetchKind
<1>5. CASE own = "too_long"
  BY <1>1, <1>5, CheckInfoIs, LengthFaultIs DEF Metadata, Raw, FetchKind, Passable, OnDisk
<1>6. CASE own \in {Nothing, "no_audio", "too_large", "unreadable"}
  <2>1. raw = Raw("video", "not_live", "public", MaxDuration)
    BY <1>0, <1>6 DEF Metadata, FetchKind
  <2> QED
    BY <1>1, <1>6, <2>1, CheckInfoIs, LengthFaultIs DEF Raw, Passable, OnDisk
<1> QED
  BY <1>2, <1>3, <1>4, <1>5, <1>6 DEF Faults, Spoken, Recorded, OnDisk

(* A pattern of the refusals is in the words.                              *)
Hits(i, says) == MESSAGES[i][1] \intersect says # {}

LEMMA HitsAre ==
  ASSUME NEW says
  PROVE  /\ Hits(1, says) <=> "private video" \in says
         /\ Hits(2, says) <=> "not a bot" \in says \/ "too many requests" \in says
         /\ Hits(3, says) <=> "confirm your age" \in says
         /\ Hits(4, says) <=> "members-only" \in says
         /\ Hits(5, says) <=> "premieres in" \in says
         /\ Hits(6, says) <=> "in your country" \in says
         /\ Hits(7, says) <=> "video unavailable" \in says
         /\ Hits(8, says) <=> "sign in" \in says
  BY DEF Hits, MESSAGES

LEMMA KindsAre ==
  /\ MESSAGES[1][2] = "private"       /\ MESSAGES[2][2] = "rate_limited"
  /\ MESSAGES[3][2] = "age_restricted" /\ MESSAGES[4][2] = "members_only"
  /\ MESSAGES[5][2] = "upcoming"      /\ MESSAGES[6][2] = "geo_restricted"
  /\ MESSAGES[7][2] = "unavailable"   /\ MESSAGES[8][2] = "age_restricted"
  BY DEF MESSAGES

(* What the first pattern that the words match says of the video.          *)
LEMMA FirstHitIs ==
  ASSUME NEW says, NEW i \in 1..8, Hits(i, says), \A k \in 1..(i - 1) : ~Hits(k, says)
  PROVE  MESSAGES[i][2] =
           IF "private video" \in says THEN "private"
           ELSE IF "not a bot" \in says \/ "too many requests" \in says THEN "rate_limited"
           ELSE IF "confirm your age" \in says THEN "age_restricted"
           ELSE IF "members-only" \in says THEN "members_only"
           ELSE IF "premieres in" \in says THEN "upcoming"
           ELSE IF "in your country" \in says THEN "geo_restricted"
           ELSE IF "video unavailable" \in says THEN "unavailable"
           ELSE "age_restricted"
<1>1. CASE i = 1
  BY <1>1, HitsAre, KindsAre
<1>2. CASE i = 2
  <2>1. ~Hits(1, says)
    BY <1>2
  <2> QED
    BY <1>2, <2>1, HitsAre, KindsAre
<1>3. CASE i = 3
  <2>1. ~Hits(1, says) /\ ~Hits(2, says)
    BY <1>3
  <2> QED
    BY <1>3, <2>1, HitsAre, KindsAre
<1>4. CASE i = 4
  <2>1. ~Hits(1, says) /\ ~Hits(2, says) /\ ~Hits(3, says)
    BY <1>4
  <2> QED
    BY <1>4, <2>1, HitsAre, KindsAre
<1>5. CASE i = 5
  <2>1. ~Hits(1, says) /\ ~Hits(2, says) /\ ~Hits(3, says) /\ ~Hits(4, says)
    BY <1>5
  <2> QED
    BY <1>5, <2>1, HitsAre, KindsAre
<1>6. CASE i = 6
  <2>1. ~Hits(1, says) /\ ~Hits(2, says) /\ ~Hits(3, says) /\ ~Hits(4, says)
        /\ ~Hits(5, says)
    BY <1>6
  <2> QED
    BY <1>6, <2>1, HitsAre, KindsAre
<1>7. CASE i = 7
  <2>1. ~Hits(1, says) /\ ~Hits(2, says) /\ ~Hits(3, says) /\ ~Hits(4, says)
        /\ ~Hits(5, says) /\ ~Hits(6, says)
    BY <1>7
  <2> QED
    BY <1>7, <2>1, HitsAre, KindsAre
<1>8. CASE i = 8
  <2>1. ~Hits(1, says) /\ ~Hits(2, says) /\ ~Hits(3, says) /\ ~Hits(4, says)
        /\ ~Hits(5, says) /\ ~Hits(6, says) /\ ~Hits(7, says)
    BY <1>8
  <2> QED
    BY <1>8, <2>1, HitsAre, KindsAre
<1>9. i = 1 \/ i = 2 \/ i = 3 \/ i = 4 \/ i = 5 \/ i = 6 \/ i = 7 \/ i = 8
  OBVIOUS
<1> QED
  BY <1>1, <1>2, <1>3, <1>4, <1>5, <1>6, <1>7, <1>8, <1>9

(* What the patterns in an error's words make of it, if any is there.      *)
LEMMA BlamedFor ==
  ASSUME NEW error, NEW warnings, NEW video_only \in BOOLEAN,
         Refuses(classify(error, warnings, video_only))
  PROVE  LET kind == classify(error, warnings, video_only)
             says(words) == words \in error.says IN
         \/ kind = "geo_restricted" /\ "GeoRestrictedError" \in error.types
         \/ /\ \E i \in 1..8 : Hits(i, error.says)
            /\ kind = IF says("private video") THEN "private"
                      ELSE IF says("not a bot") \/ says("too many requests")
                           THEN "rate_limited"
                      ELSE IF says("confirm your age") THEN "age_restricted"
                      ELSE IF says("members-only") THEN "members_only"
                      ELSE IF says("premieres in") THEN "upcoming"
                      ELSE IF says("in your country") THEN "geo_restricted"
                      ELSE IF says("video unavailable") THEN "unavailable"
                      ELSE "age_restricted"
         \/ /\ kind = "no_audio" /\ says("format")
            /\ video_only /\ ~Withheld(warnings)
<1> DEFINE kind == classify(error, warnings, video_only)
<1>1. \/ kind = "geo_restricted" /\ "GeoRestrictedError" \in error.types
      \/ \E i \in 1..8 :
                   /\ kind = MESSAGES[i][2]
                   /\ MESSAGES[i][1] \intersect error.says # {}
                   /\ \A k \in 1..(i - 1) : MESSAGES[k][1] \intersect error.says = {}
      \/ /\ kind = "no_audio" /\ "format" \in error.says
         /\ video_only /\ ~Withheld(warnings)
  BY ClassifyRefuses
<1> HIDE DEF kind
<1>2. CASE \E i \in 1..8 :
                   /\ kind = MESSAGES[i][2]
                   /\ MESSAGES[i][1] \intersect error.says # {}
                   /\ \A k \in 1..(i - 1) : MESSAGES[k][1] \intersect error.says = {}
  <2>1. PICK i \in 1..8 : /\ kind = MESSAGES[i][2] /\ Hits(i, error.says)
                         /\ \A k \in 1..(i - 1) : ~Hits(k, error.says)
    BY <1>2 DEF Hits
  <2> QED
    BY <2>1, FirstHitIs DEF kind
<1> QED
  BY <1>1, <1>2 DEF kind

(* The page's and a download's failures are of YouTube, the network, the   *)
(* disk or yt-dlp, and so is that no client was answered.                  *)
OfOthers ==
  Outages \cup DownloadFailures
    \cup {Failure({}, {}, {"no player response"}), Failure({"TransportError"}, {}, {})}

LEMMA OthersBlameless ==
  ASSUME NEW error \in OfOthers, NEW warnings, NEW video_only \in BOOLEAN
  PROVE  /\ classify(error, warnings, video_only) \in FetchKind
         /\ ~Refuses(classify(error, warnings, video_only))
<1> DEFINE kind == classify(error, warnings, video_only)
<1>1. kind \in FetchKind
  BY ClassifyRefuses
<1> DEFINE Mild(e) ==
             /\ "GeoRestrictedError" \notin e.types
             /\ "format" \notin e.says /\ "private video" \notin e.says
             /\ \/ "too many requests" \in e.says
                \/ "not a bot" \in e.says
                \/ e.says \subseteq {"unable to extract", "[download] got error:",
                                     "no player response"}
<1>2. Mild(error)
  <2>1. ASSUME NEW types, NEW statuses, NEW says,
               types \subseteq {"HTTPError", "TransportError", "OSError",
                               "ContentTooShortError", "UnavailableVideoError"},
               \/ says = {"too many requests"} \/ says = {"not a bot", "sign in"}
               \/ says \subseteq {"unable to extract", "[download] got error:",
                                 "no player response"}
        PROVE  Mild(Failure(types, statuses, says))
    <3>1. /\ Failure(types, statuses, says).types = types
          /\ Failure(types, statuses, says).says = says
      BY DEF Failure
    <3>2. "GeoRestrictedError" \notin types
      BY <2>1
    <3>3. "format" \notin says /\ "private video" \notin says
      BY <2>1
    <3>4. \/ "too many requests" \in says \/ "not a bot" \in says
          \/ says \subseteq {"unable to extract", "[download] got error:",
                            "no player response"}
      BY <2>1
    <3> QED
      BY <3>1, <3>2, <3>3, <3>4
  <2> HIDE DEF Mild
  <2>2. /\ Mild(Failure({"HTTPError"}, {429}, {"too many requests"}))
        /\ Mild(Failure({}, {}, {"not a bot", "sign in"}))
    BY <2>1
  <2>3. /\ Mild(Failure({"HTTPError"}, {503}, {}))
        /\ Mild(Failure({"HTTPError"}, {403}, {}))
        /\ Mild(Failure({"TransportError"}, {}, {}))
        /\ Mild(Failure({"OSError"}, {}, {}))
        /\ Mild(Failure({}, {}, {}))
        /\ Mild(Failure({"ContentTooShortError"}, {}, {}))
        /\ Mild(Failure({"UnavailableVideoError", "OSError"}, {}, {}))
    BY <2>1, ZenonT(60)
  <2>4. /\ Mild(Failure({}, {}, {"unable to extract"}))
        /\ Mild(Failure({}, {}, {"[download] got error:"}))
        /\ Mild(Failure({}, {}, {"no player response"}))
    BY <2>1
  <2>5. CASE error \in Outages
    <3>1. CASE error = Failure({"HTTPError"}, {429}, {"too many requests"})
      BY <2>2, <3>1
    <3>2. CASE error = Failure({}, {}, {"not a bot", "sign in"})
      BY <2>2, <3>2
    <3>3. CASE error \in {Failure({"HTTPError"}, {503}, {}),
                          Failure({"HTTPError"}, {403}, {}),
                          Failure({"TransportError"}, {}, {}),
                          Failure({"OSError"}, {}, {}), Failure({}, {}, {})}
      BY <2>3, <3>3
    <3>4. CASE error = Failure({}, {}, {"unable to extract"})
      BY <2>4, <3>4
    <3> QED
      BY <2>5, <3>1, <3>2, <3>3, <3>4, ZenonT(90) DEF Outages
  <2>6. CASE error \in DownloadFailures
    BY <2>3, <2>4, <2>6, Zenon DEF DownloadFailures
  <2>7. CASE error \in {Failure({}, {}, {"no player response"}),
                        Failure({"TransportError"}, {}, {})}
    BY <2>3, <2>4, <2>7, Zenon
  <2> QED
    BY <2>5, <2>6, <2>7 DEF OfOthers
<1>3. ASSUME Refuses(kind) PROVE FALSE
  <2>1. kind \in Refusals
    BY <1>1, <1>3, RefusedKinds
  <2>2. /\ \E i \in 1..8 : Hits(i, error.says)
        /\ "not a bot" \in error.says \/ "too many requests" \in error.says
             => kind = "rate_limited"
    BY <1>2, <1>3, BlamedFor
  <2> HIDE DEF kind
  <2>3. error.says \subseteq {"unable to extract", "[download] got error:",
                             "no player response"}
    BY <1>2, <2>1, <2>2 DEF Refusals
  <2>4. \A i \in 1..8 : ~Hits(i, error.says)
    <3>1. /\ ~Hits(1, error.says) /\ ~Hits(2, error.says) /\ ~Hits(3, error.says)
          /\ ~Hits(4, error.says) /\ ~Hits(5, error.says) /\ ~Hits(6, error.says)
          /\ ~Hits(7, error.says) /\ ~Hits(8, error.says)
      BY <2>3, HitsAre
    <3> QED
      BY <3>1
  <2> QED
    BY <2>2, <2>4
<1> QED
  BY <1>1, <1>3

(* What a video says of itself is what is the matter with it.              *)
LEMMA SpokenBlamed ==
  ASSUME own \in Spoken, NEW warnings, NEW video_only \in BOOLEAN,
         NEW types, types = IF own = "geo_restricted" THEN {"GeoRestrictedError"} ELSE {}
  PROVE  LET kind == classify(Failure(types, {}, Words(own)), warnings, video_only) IN
         kind \in FetchKind /\ (Refuses(kind) => kind = own)
<1> DEFINE error == Failure(types, {}, Words(own))
           kind == classify(error, warnings, video_only)
<1>1. error.types = types /\ error.says = Words(own)
  BY DEF Failure
<1>2. "format" \notin Words(own)
  BY DEF Words
<1>3. kind \in FetchKind
  BY ClassifyRefuses
<1>4. ASSUME Refuses(kind) PROVE kind = own
  <2>1. \/ kind = "geo_restricted" /\ own = "geo_restricted"
        \/ /\ \E i \in 1..8 : Hits(i, Words(own))
           /\ kind = IF "private video" \in Words(own) THEN "private"
                      ELSE IF \/ "not a bot" \in Words(own)
                              \/ "too many requests" \in Words(own)
                           THEN "rate_limited"
                      ELSE IF "confirm your age" \in Words(own) THEN "age_restricted"
                      ELSE IF "members-only" \in Words(own) THEN "members_only"
                      ELSE IF "premieres in" \in Words(own) THEN "upcoming"
                      ELSE IF "in your country" \in Words(own) THEN "geo_restricted"
                      ELSE IF "video unavailable" \in Words(own) THEN "unavailable"
                      ELSE "age_restricted"
    BY <1>1, <1>2, <1>4, BlamedFor, ZenonT(60)
  <2> HIDE DEF kind, error
  <2>2. own \in {"private", "age_restricted", "members_only", "upcoming",
                "geo_restricted", "unavailable"}
    BY DEF Spoken
  <2>3. /\ own = "private" => Words(own) = {"private video", "sign in"}
        /\ own = "age_restricted" => Words(own) = {"confirm your age", "sign in"}
        /\ own = "members_only" => Words(own) = {"members-only"}
        /\ own = "upcoming" => Words(own) = {"premieres in"}
        /\ own = "geo_restricted" => Words(own) = {"in your country", "video unavailable"}
        /\ own = "unavailable" => Words(own) = {"video unavailable"}
    BY DEF Words
  <2>4. CASE own = "private"
    BY <2>1, <2>3, <2>4
  <2>5. CASE own = "age_restricted"
    BY <2>1, <2>3, <2>5
  <2>6. CASE own = "members_only"
    BY <2>1, <2>3, <2>6
  <2>7. CASE own = "upcoming"
    BY <2>1, <2>3, <2>7
  <2>8. CASE own = "geo_restricted"
    BY <2>1, <2>3, <2>8
  <2>9. CASE own = "unavailable"
    BY <2>1, <2>3, <2>9
  <2> QED
    BY <2>2, <2>4, <2>5, <2>6, <2>7, <2>8, <2>9
<1> QED
  BY <1>3, <1>4

-----------------------------------------------------------------------------
(* A link, from what yt-dlp says to what the listener is told.             *)

WarningWords == {"too many requests", "http error 503", "challenge", "may be missing"}

(* The types.                                                              *)
LinkTyped ==
  /\ phase \in {"lookup", "download"}
  /\ place \in Places
  /\ own \in Faults \cup {Nothing}
  /\ log \in [warnings : SUBSET WarningWords, video_only : BOOLEAN, hit_size_cap : BOOLEAN]
  /\ size \in Nat
  /\ arrived \in Nat

(* The warnings are of what the clients met.                               *)
WarnedOf ==
  place \in {"extract", "check", "choose"} =>
    /\ met \in [Clients -> Meetings]
    /\ log.warnings = Warnings({met[c] : c \in Clients})

(* What the metadata let pass, and what the formats do.                    *)
Passed ==
  /\ place = "check" => own \notin Spoken \ Recorded
  /\ place = "choose" => own \in Passable
  /\ place \in {"media", "get", "weigh", "ingest"} =>
       phase = "download" /\ own \in {Nothing} \cup OnDisk

(* The file, and as much of it as has arrived.                             *)
Sized ==
  /\ place \in {"get", "weigh", "ingest"} =>
       medium = "googlevideo" /\ (size > MaxBytes <=> own = "too_large")
  /\ place = "ingest" => size \in 1..MaxBytes

(* Nothing arrives but from googlevideo, and little more than is allowed.  *)
Arriving ==
  /\ arrived <= MaxBytes + 1
  /\ place \in {"start", "ask", "extract", "check", "choose", "media"} => arrived = 0
  /\ place = "get" => arrived <= MaxBytes /\ arrived <= size

(* The cap is hit by a file that is too large.                             *)
Capped ==
  log.hit_size_cap =>
    place \in {"weigh", "ingest", "told"} /\ (place = "weigh" => size > MaxBytes)

(* Nothing is said before the end.                                         *)
Told == place # "told" => verdict = Nothing

(* What holds of a link at every step.                                     *)
LinkInv ==
  /\ LinkTyped /\ WarnedOf /\ Passed /\ Sized /\ Arriving /\ Capped /\ Told
  /\ BlamedRight /\ AcceptedSound

(* Nothing more is said of a video whose call goes on.                     *)
LEMMA UntoldRight ==
  ASSUME verdict = Nothing PROVE BlamedRight /\ (arrived <= MaxBytes + 1 => AcceptedSound)
  BY LinkFetchAssumption DEF BlamedRight, AcceptedSound

(* That no format suits is a fault of the video only if the clients        *)
(* offered all there is, and it has no sound.                              *)
LEMMA ChoiceBlamed ==
  ASSUME met \in [Clients -> Meetings],
         NEW warnings, warnings = Warnings({met[c] : c \in Clients}),
         NEW audio \in IF own = "no_audio" THEN {{}} ELSE {{Sound}, {Muxed}, {Vague}},
         NEW offered \in [Clients -> SUBSET ({Picture, Storyboard} \union audio)],
         \A c \in Clients : offered[c] \in Offers(c, audio),
         NEW formats, formats = UNION {offered[c] : c \in Clients},
         Sound \notin formats
  PROVE  LET kind == classify(Failure({}, {}, {"format"}), warnings,
                              offers_only_video(formats))
         IN  kind \in FetchKind /\ (Refuses(kind) => kind = own)
<1> DEFINE error == Failure({}, {}, {"format"})
           video_only == offers_only_video(formats)
           kind == classify(error, warnings, video_only)
<1>1. video_only \in BOOLEAN
  BY DEF offers_only_video
<1>2. error.types = {} /\ error.says = {"format"}
  BY DEF Failure
<1>3. kind \in FetchKind
  BY <1>1, ClassifyRefuses
<1>4. ASSUME Refuses(kind) PROVE kind = own
  <2>1. \A i \in 1..8 : ~Hits(i, error.says)
    <3>1. /\ ~Hits(1, error.says) /\ ~Hits(2, error.says) /\ ~Hits(3, error.says)
          /\ ~Hits(4, error.says) /\ ~Hits(5, error.says) /\ ~Hits(6, error.says)
          /\ ~Hits(7, error.says) /\ ~Hits(8, error.says)
      BY <1>2, HitsAre
    <3> QED
      BY <3>1
  <2>2. kind = "no_audio" /\ video_only /\ ~Withheld(warnings)
    <3>1. "GeoRestrictedError" \notin error.types
      BY <1>2
    <3> QED
      BY <1>1, <1>4, <2>1, <3>1, BlamedFor
  <2> HIDE DEF kind, error
  <2>3. PICK f \in formats : f.playable
    BY <2>2 DEF offers_only_video
  <2>4. PICK c \in Clients : f \in offered[c]
    BY <2>3
  <2>5. offered[c] \in Offers(c, audio) /\ met[c] \in Meetings
    OBVIOUS
  <2>6. met[c] # "unsolved"
    <3> SUFFICES ASSUME met[c] = "unsolved" PROVE FALSE
      OBVIOUS
    <3>1. "unsolved" \in {met[d] : d \in Clients}
      OBVIOUS
    <3>2. "challenge" \in warnings
      BY <3>1 DEF Warnings
    <3> QED
      BY <2>2, <3>2 DEF Withheld
  <2>7. met[c] # "no token"
    <3> SUFFICES ASSUME met[c] = "no token" PROVE FALSE
      OBVIOUS
    <3>1. Offers(c, audio) = SUBSET {Storyboard}
      BY DEF Offers
    <3>2. f = Storyboard
      BY <2>4, <2>5, <3>1
    <3>3. Storyboard.playable = FALSE
      BY DEF Storyboard, Format
    <3> QED
      BY <2>3, <3>2, <3>3
  <2>8. met[c] \notin {"throttled", "down"}
    BY <2>4, <2>5 DEF Offers
  <2>9. offered[c] = {Picture, Storyboard} \union audio
    BY <2>5, <2>6, <2>7, <2>8 DEF Offers, Meetings
  <2>10. audio \subseteq formats
    BY <2>9
  <2>11. \A g \in formats : g.acodec = "none"
    BY <2>2 DEF offers_only_video
  <2>12. Muxed \notin formats /\ Vague \notin formats
    BY <2>11 DEF Muxed, Vague, Format
  <2>13. own = "no_audio"
    BY <2>10, <2>12
  <2> QED
    BY <2>2, <2>13
<1> QED
  BY <1>3, <1>4

(* At the start.                                                           *)
LEMMA LinkInitially == LinkFetchInit => LinkInv
<1> SUFFICES ASSUME LinkFetchInit PROVE LinkInv
  OBVIOUS
<1>1. MaxBytes \in Nat
  BY LinkFetchAssumption
<1>2. LinkTyped
  BY DEF LinkFetchInit, LinkTyped, NoLog, Places
<1>3. arrived <= MaxBytes + 1
  BY <1>1 DEF LinkFetchInit
<1>4. WarnedOf /\ Passed /\ Sized /\ Arriving /\ Capped /\ Told
  BY <1>3 DEF LinkFetchInit, WarnedOf, Passed, Sized, Arriving, Capped, Told, NoLog
<1>5. BlamedRight /\ AcceptedSound
  BY <1>3, UntoldRight DEF LinkFetchInit
<1> QED
  BY <1>2, <1>4, <1>5 DEF LinkInv

(* A call that goes on.                                                    *)
LEMMA GoesOn ==
  ASSUME LinkInv, verdict' = Nothing, arrived' <= MaxBytes + 1
  PROVE  (BlamedRight /\ AcceptedSound /\ Told)'
<1>1. (BlamedRight /\ AcceptedSound)'
  BY LinkFetchAssumption DEF BlamedRight, AcceptedSound
<1>2. Told'
  BY DEF Told
<1> QED
  BY <1>1, <1>2

(* A call that ends with a failure: one that is not the video's, or is.    *)
LEMMA EndsFailing ==
  ASSUME LinkInv, NEW kind, kind \in FetchKind \cup {"no_ffprobe"},
         kind \in FetchKind /\ Refuses(kind) => kind = own, Tell(kind),
         UNCHANGED <<phase, own, medium, size>>,
         log' \in [warnings : SUBSET WarningWords, video_only : BOOLEAN,
                   hit_size_cap : BOOLEAN],
         arrived' \in Nat, arrived' <= MaxBytes + 1
  PROVE  LinkInv'
<1>1. place' = "told" /\ verdict' = kind
  BY DEF Tell
<1>2. LinkTyped'
  BY <1>1 DEF LinkInv, LinkTyped, Places
<1>3. (WarnedOf /\ Passed /\ Sized /\ Told)'
  BY <1>1 DEF WarnedOf, Passed, Sized, Told
<1>4. (Arriving /\ Capped)'
  BY <1>1 DEF Arriving, Capped
<1>5. BlamedRight'
  BY <1>1 DEF BlamedRight
<1>6. AcceptedSound'
  <2>1. verdict' # "accepted"
    BY <1>1 DEF FetchKind
  <2> QED
    BY <2>1 DEF AcceptedSound
<1> QED
  BY <1>2, <1>3, <1>4, <1>5, <1>6 DEF LinkInv

(* The child's own deaths are not the video's fault.                       *)
LEMMA NotTheVideos ==
  ASSUME NEW kind \in {"busy", "misconfigured", "crashed", "lookup_timeout",
                       "download_timeout", "media_refused", "empty_download"}
  PROVE  kind \in FetchKind /\ ~Refuses(kind)
<1>1. kind \in FetchKind /\ kind \notin Refusals
  BY DEF FetchKind, Refusals
<1> QED
  BY <1>1, RefusedKinds

(* Until the metadata.                                                     *)
LEMMA AskingSteps ==
  ASSUME LinkInv, Busy \/ Starts \/ Ask \/ Outage \/ Extract \/ Dies
  PROVE  LinkInv'
<1> USE DEF LinkInv
<1>a. arrived \in Nat /\ arrived <= MaxBytes + 1 /\
      log \in [warnings : SUBSET WarningWords, video_only : BOOLEAN, hit_size_cap : BOOLEAN]
  BY DEF LinkTyped, AcceptedSound
<1>1. CASE Busy
  <2>1. Tell("busy") /\ UNCHANGED <<phase, own, met, log, medium, size, arrived>>
    BY <1>1 DEF Busy
  <2> QED
    BY <1>a, <2>1, NotTheVideos, EndsFailing
<1>2. CASE Starts
  <2>1. CASE Tell("misconfigured")
    <3>1. UNCHANGED <<phase, own, met, log, medium, size, arrived>>
      BY <1>2 DEF Starts
    <3> QED
      BY <1>a, <2>1, <3>1, NotTheVideos, EndsFailing
  <2>2. CASE place' = "ask" /\ UNCHANGED verdict
    <3>1. UNCHANGED <<phase, own, met, log, medium, size, arrived>> /\ place = "start"
      BY <1>2 DEF Starts
    <3>2. verdict' = Nothing
      BY <2>2, <3>1 DEF Told
    <3>3. (BlamedRight /\ AcceptedSound /\ Told)'
      BY <1>a, <3>1, <3>2, GoesOn
    <3>4. LinkTyped'
      BY <2>2, <3>1 DEF LinkTyped, Places
    <3>5. (WarnedOf /\ Passed /\ Sized /\ Arriving /\ Capped)'
      BY <2>2, <3>1 DEF WarnedOf, Passed, Sized, Arriving, Capped
    <3> QED
      BY <3>3, <3>4, <3>5
  <2> QED
    BY <1>2, <2>1, <2>2 DEF Starts
<1>3. CASE Ask
  <2>1. /\ UNCHANGED <<phase, own, medium, size, arrived, verdict>>
        /\ place = "ask" /\ place' = "extract" /\ met' \in [Clients -> Meetings]
        /\ log' = [log EXCEPT !.warnings = Warnings({met'[c] : c \in Clients})]
    BY <1>3 DEF Ask
  <2>2. verdict' = Nothing
    BY <2>1 DEF Told
  <2>3. (BlamedRight /\ AcceptedSound /\ Told)'
    BY <1>a, <2>1, <2>2, GoesOn
  <2>4. Warnings({met'[c] : c \in Clients}) \in SUBSET WarningWords
    BY DEF Warnings, WarningWords
  <2>5. LinkTyped'
    BY <1>a, <2>1, <2>4 DEF LinkTyped, Places
  <2>6. /\ log'.warnings = Warnings({met'[c] : c \in Clients})
        /\ log'.hit_size_cap = log.hit_size_cap
    BY <1>a, <2>1
  <2>7. (WarnedOf /\ Passed /\ Sized /\ Arriving /\ Capped)'
    BY <2>1, <2>6 DEF WarnedOf, Passed, Sized, Arriving, Capped
  <2> QED
    BY <2>3, <2>5, <2>7
<1>4. CASE Outage
  <2>1. PICK error \in Outages : Raise(error, FALSE)
    BY <1>4 DEF Outage
  <2>2. UNCHANGED <<phase, own, met, log, medium, size, arrived>>
    BY <1>4 DEF Outage
  <2>3. /\ classify(error, log.warnings, FALSE) \in FetchKind
        /\ ~Refuses(classify(error, log.warnings, FALSE))
    BY OthersBlameless DEF OfOthers
  <2> QED
    BY <1>a, <2>1, <2>2, <2>3, EndsFailing DEF Raise
<1>5. CASE Extract
  <2>0. place = "extract" /\ UNCHANGED <<phase, own, met, log, medium, size, arrived>>
    BY <1>5 DEF Extract
  <2>1. CASE Raise(Failure({}, {}, {"no player response"}), FALSE)
    <3>1. LET kind == classify(Failure({}, {}, {"no player response"}), log.warnings, FALSE)
          IN  kind \in FetchKind /\ ~Refuses(kind)
      BY OthersBlameless DEF OfOthers
    <3> QED
      BY <1>a, <2>0, <2>1, <3>1, EndsFailing DEF Raise
  <2>2. CASE /\ own \in Spoken
             /\ LET types == IF own = "geo_restricted" THEN {"GeoRestrictedError"} ELSE {}
                IN  Raise(Failure(types, {}, Words(own)), FALSE)
    <3> DEFINE types == IF own = "geo_restricted" THEN {"GeoRestrictedError"} ELSE {}
               kind == classify(Failure(types, {}, Words(own)), log.warnings, FALSE)
    <3>1. kind \in FetchKind /\ (Refuses(kind) => kind = own)
      BY <2>2, SpokenBlamed
    <3>2. Tell(kind)
      BY <2>2 DEF Raise
    <3> QED
      BY <1>a, <2>0, <3>1, <3>2, EndsFailing
  <2>3. CASE place' = "check" /\ UNCHANGED verdict /\ own \notin Spoken \ Recorded
    <3>1. verdict' = Nothing
      BY <2>0, <2>3 DEF Told
    <3>2. (BlamedRight /\ AcceptedSound /\ Told)'
      BY <1>a, <2>0, <3>1, GoesOn
    <3>3. LinkTyped'
      BY <2>0, <2>3 DEF LinkTyped, Places
    <3>4. (WarnedOf /\ Passed /\ Sized /\ Arriving /\ Capped)'
      BY <2>0, <2>3 DEF WarnedOf, Passed, Sized, Arriving, Capped
    <3> QED
      BY <3>2, <3>3, <3>4
  <2> QED
    BY <1>5, <2>1, <2>2, <2>3 DEF Extract
<1>6. CASE Dies
  <2>1. PICK kind \in {"crashed", "lookup_timeout", "download_timeout"} : Tell(kind)
    BY <1>6 DEF Dies
  <2>2. UNCHANGED <<phase, own, met, log, medium, size, arrived>>
    BY <1>6 DEF Dies
  <2> QED
    BY <1>a, <2>1, <2>2, NotTheVideos, EndsFailing
<1> QED
  BY <1>1, <1>2, <1>3, <1>4, <1>5, <1>6

(* The metadata are checked, and a format is chosen.                       *)
LEMMA CheckStep ==
  ASSUME LinkInv, place = "check", NEW raw \in Metadata(own), Check(raw)
  PROVE  LinkInv'
<1> USE DEF LinkInv
<1>a. arrived \in Nat /\ arrived <= MaxBytes + 1 /\
      log \in [warnings : SUBSET WarningWords, video_only : BOOLEAN, hit_size_cap : BOOLEAN]
  BY DEF LinkTyped, AcceptedSound
<1>1. /\ Go("choose", checked(raw))
      /\ UNCHANGED <<phase, own, met, log, medium, size, arrived>>
  BY DEF Check
<1>2. \/ checked(raw) = "fine" /\ own \in Passable
      \/ checked(raw) = own /\ own \in FetchKind /\ own # "fine"
  BY CheckedRight DEF Passed, LinkTyped
<1>3. CASE checked(raw) = "fine" /\ own \in Passable
  <2>1. place' = "choose" /\ UNCHANGED verdict
    BY <1>1, <1>3 DEF Go
  <2>2. verdict' = Nothing
    BY <2>1 DEF Told
  <2>3. (BlamedRight /\ AcceptedSound /\ Told)'
    BY <1>a, <1>1, <2>2, GoesOn
  <2>4. LinkTyped'
    BY <1>1, <2>1 DEF LinkTyped, Places
  <2>5. (WarnedOf /\ Passed /\ Sized /\ Arriving /\ Capped)'
    BY <1>1, <1>3, <2>1 DEF WarnedOf, Passed, Sized, Arriving, Capped
  <2> QED
    BY <2>3, <2>4, <2>5
<1>4. CASE checked(raw) = own /\ own \in FetchKind /\ own # "fine"
  <2>1. Tell(own)
    BY <1>1, <1>4 DEF Go
  <2> QED
    BY <1>a, <1>1, <1>4, <2>1, EndsFailing
<1> QED
  BY <1>2, <1>3, <1>4

(* Formats that suit, or none.                                             *)
LEMMA ChooseStep ==
  ASSUME LinkInv, place = "choose",
         NEW audio \in IF own = "no_audio" THEN {{}} ELSE {{Sound}, {Muxed}, {Vague}},
         NEW offered \in [Clients -> SUBSET ({Picture, Storyboard} \union audio)],
         \A c \in Clients : offered[c] \in Offers(c, audio),
         Choose(UNION {offered[c] : c \in Clients})
  PROVE  LinkInv'
<1> USE DEF LinkInv
<1>a. arrived \in Nat /\ arrived <= MaxBytes + 1 /\
      log \in [warnings : SUBSET WarningWords, video_only : BOOLEAN, hit_size_cap : BOOLEAN]
  BY DEF LinkTyped, AcceptedSound
<1>1. PICK formats : formats = UNION {offered[c] : c \in Clients}
  OBVIOUS
<1>2. /\ UNCHANGED <<phase, own, met, medium, size, arrived>>
      /\ log' = [log EXCEPT !.video_only = offers_only_video(formats)]
  BY <1>1 DEF Choose
<1>3. offers_only_video(formats) \in BOOLEAN
  BY DEF offers_only_video
<1>4. /\ log' \in [warnings : SUBSET WarningWords, video_only : BOOLEAN,
                   hit_size_cap : BOOLEAN]
      /\ log'.warnings = log.warnings /\ log'.hit_size_cap = log.hit_size_cap
  BY <1>a, <1>2, <1>3
<1>5. CASE Sound \notin formats
  <2> DEFINE kind == classify(Failure({}, {}, {"format"}), log.warnings,
                              offers_only_video(formats))
  <2>1. Tell(kind)
    BY <1>1, <1>5 DEF Choose, Raise
  <2>2. kind \in FetchKind /\ (Refuses(kind) => kind = own)
    BY <1>1, <1>5, ChoiceBlamed, ZenonT(90) DEF WarnedOf
  <2> HIDE DEF kind
  <2> QED
    BY <1>a, <1>2, <1>4, <2>1, <2>2, EndsFailing
<1>6. CASE Sound \in formats
  <2>1. own \in {Nothing} \cup OnDisk
    <3>1. PICK c \in Clients : Sound \in offered[c]
      BY <1>1, <1>6
    <3>2. Sound \in {Picture, Storyboard} \union audio
      BY <3>1
    <3>3. Sound # Picture /\ Sound # Storyboard
      BY DEF Sound, Picture, Storyboard, Format
    <3>4. own # "no_audio"
      BY <3>2, <3>3
    <3> QED
      BY <3>4 DEF Passed, Passable
  <2>2. CASE phase = "lookup"
    <3>1. Tell("accepted")
      BY <1>1, <1>6, <2>2 DEF Choose
    <3>2. place' = "told" /\ verdict' = "accepted"
      BY <3>1 DEF Tell
    <3>3. LinkTyped'
      BY <1>2, <1>4, <3>2 DEF LinkTyped, Places
    <3>4. (WarnedOf /\ Passed /\ Sized /\ Arriving /\ Capped /\ Told)'
      BY <1>a, <1>2, <3>2 DEF WarnedOf, Passed, Sized, Arriving, Capped, Told
    <3>5. BlamedRight'
      BY <3>2 DEF BlamedRight, FetchKind
    <3>6. AcceptedSound'
      BY <1>a, <1>2, <2>1, <2>2 DEF AcceptedSound
    <3> QED
      BY <3>3, <3>4, <3>5, <3>6
  <2>3. CASE phase # "lookup"
    <3>1. place' = "media" /\ UNCHANGED verdict
      BY <1>1, <1>6, <2>3 DEF Choose
    <3>2. verdict' = Nothing
      BY <3>1 DEF Told
    <3>3. (BlamedRight /\ AcceptedSound /\ Told)'
      BY <1>a, <1>2, <3>2, GoesOn
    <3>4. LinkTyped'
      BY <1>2, <1>4, <3>1 DEF LinkTyped, Places
    <3>5. phase' = "download"
      BY <1>2, <2>3 DEF LinkTyped
    <3>6. (WarnedOf /\ Passed /\ Sized /\ Arriving)'
      BY <1>2, <2>1, <3>1, <3>5 DEF WarnedOf, Passed, Sized, Arriving
    <3>7. Capped'
      BY <1>4, <3>1 DEF Capped
    <3> QED
      BY <3>3, <3>4, <3>6, <3>7
  <2> QED
    BY <2>2, <2>3
<1> QED
  BY <1>5, <1>6

(* The medium, and its size if it is claimed.                              *)
LEMMA MediaStep ==
  ASSUME LinkInv, place = "media", NEW leads \in MediaLeads, NEW claimed \in BOOLEAN,
         NEW bytes \in IF own = "too_large" THEN {MaxBytes + 1, MaxBytes + 2}
                       ELSE 0..MaxBytes,
         CheckMedia(leads, bytes, claimed)
  PROVE  LinkInv'
<1> USE DEF LinkInv
<1>1. MaxBytes \in Nat /\ bytes \in Nat /\ (bytes > MaxBytes <=> own = "too_large")
  BY LinkFetchAssumption
<1>2. /\ medium' = leads /\ size' = bytes
      /\ UNCHANGED <<phase, own, met, log, arrived>>
  BY DEF CheckMedia
<1> DEFINE a == <<leads # "googlevideo", "media_refused">>
           b == <<claimed /\ bytes > MaxBytes, "too_large">>
           c == <<TRUE, "fine">>
           kind == FirstOf(<<a, b, c>>)
<1>3. a[2] = "media_refused" /\ (a[1] <=> leads # "googlevideo")
  <2>1. (leads # "googlevideo") \in BOOLEAN
    OBVIOUS
  <2> QED
    BY <2>1, RuleIs
<1>4. b[2] = "too_large" /\ (b[1] <=> claimed /\ bytes > MaxBytes)
  <2>1. (claimed /\ bytes > MaxBytes) \in BOOLEAN
    OBVIOUS
  <2> QED
    BY <2>1, RuleIs
<1>5. c[2] = "fine" /\ c[1]
  BY RuleIs
<1>6. Go("get", kind)
  BY DEF CheckMedia
<1> HIDE DEF a, b, c
<1>7. kind = IF a[1] THEN a[2] ELSE IF b[1] THEN b[2] ELSE c[2]
  BY <1>5, FirstOfThreeRules
<1> HIDE DEF kind
<1>8. arrived = 0 /\ arrived' = 0 /\ 0 <= MaxBytes + 1
  BY <1>1, <1>2 DEF Arriving
<1>9. CASE leads = "googlevideo" /\ ~(claimed /\ bytes > MaxBytes)
  <2>1. place' = "get" /\ UNCHANGED verdict
    BY <1>3, <1>4, <1>5, <1>6, <1>7, <1>9 DEF Go
  <2>2. verdict' = Nothing
    BY <2>1 DEF Told
  <2>3. (BlamedRight /\ AcceptedSound /\ Told)'
    BY <1>8, <2>2, GoesOn
  <2>4. LinkTyped'
    BY <1>1, <1>2, <2>1 DEF LinkTyped, Places
  <2>5. (WarnedOf /\ Passed /\ Sized)'
    BY <1>1, <1>2, <1>9, <2>1 DEF WarnedOf, Passed, Sized
  <2>6. (Arriving /\ Capped)'
    BY <1>1, <1>2, <1>8, <2>1 DEF Arriving, Capped
  <2> QED
    BY <2>3, <2>4, <2>5, <2>6
<1>10. CASE ~(leads = "googlevideo" /\ ~(claimed /\ bytes > MaxBytes))
  <2>1. \/ kind = "media_refused"
        \/ kind = "too_large" /\ own = "too_large"
    BY <1>1, <1>3, <1>4, <1>7, <1>10
  <2>2. Tell(kind)
    BY <1>6, <2>1 DEF Go
  <2>3. kind \in FetchKind /\ (Refuses(kind) => kind = own)
    <3>1. "too_large" \in FetchKind
      BY DEF FetchKind
    <3> QED
      BY <2>1, <3>1, NotTheVideos
  <2>4. place' = "told" /\ verdict' = kind
    BY <2>2 DEF Tell
  <2>5. LinkTyped'
    BY <1>1, <1>2, <2>4 DEF LinkTyped, Places
  <2>6. (WarnedOf /\ Passed /\ Sized /\ Arriving /\ Capped /\ Told)'
    BY <1>2, <1>8, <2>4 DEF WarnedOf, Passed, Sized, Arriving, Capped, Told
  <2>7. BlamedRight'
    BY <1>2, <2>3, <2>4 DEF BlamedRight
  <2>8. AcceptedSound'
    <3>1. verdict' # "accepted"
      BY <2>3, <2>4 DEF FetchKind
    <3> QED
      BY <1>8, <3>1 DEF AcceptedSound
  <2> QED
    BY <2>5, <2>6, <2>7, <2>8
<1> QED
  BY <1>9, <1>10

(* The file arrives.                                                       *)
LEMMA DownloadSteps ==
  ASSUME LinkInv, Unresolved \/ GiveUpQuietly \/ GetChunk \/ GetFails \/ GetEnds
  PROVE  LinkInv'
<1> USE DEF LinkInv
<1>a. arrived \in Nat /\ arrived <= MaxBytes + 1 /\ size \in Nat /\
      log \in [warnings : SUBSET WarningWords, video_only : BOOLEAN, hit_size_cap : BOOLEAN]
  BY DEF LinkTyped, AcceptedSound
<1>b. MaxBytes \in Nat \ {0}
  BY LinkFetchAssumption
<1>1. CASE Unresolved
  <2>1. /\ Raise(Failure({"TransportError"}, {}, {}), log.video_only)
        /\ UNCHANGED <<phase, own, met, log, medium, size, arrived>>
    BY <1>1 DEF Unresolved
  <2>2. LET kind == classify(Failure({"TransportError"}, {}, {}), log.warnings,
                             log.video_only)
        IN  kind \in FetchKind /\ ~Refuses(kind)
    BY <1>a, OthersBlameless DEF OfOthers
  <2> QED
    BY <1>a, <2>1, <2>2, EndsFailing DEF Raise
<1>2. CASE GiveUpQuietly
  <2>1. /\ place = "get" /\ place' = "weigh" /\ size > MaxBytes
        /\ log' = [log EXCEPT !.hit_size_cap = TRUE]
        /\ UNCHANGED <<phase, own, met, medium, size, arrived, verdict>>
    BY <1>2 DEF GiveUpQuietly
  <2>2. verdict' = Nothing
    BY <2>1 DEF Told
  <2>3. (BlamedRight /\ AcceptedSound /\ Told)'
    BY <1>a, <2>1, <2>2, GoesOn
  <2>4. LinkTyped'
    BY <1>a, <2>1 DEF LinkTyped, Places
  <2>5. (WarnedOf /\ Passed /\ Sized /\ Arriving /\ Capped)'
    BY <2>1 DEF WarnedOf, Passed, Sized, Arriving, Capped
  <2> QED
    BY <2>3, <2>4, <2>5
<1>3. CASE GetChunk
  <2>1. /\ place = "get" /\ arrived < size /\ arrived' = arrived + 1
        /\ UNCHANGED <<phase, own, met, log, medium, size>>
    BY <1>3 DEF GetChunk
  <2>2. arrived <= MaxBytes /\ (size > MaxBytes => own = "too_large")
    BY <2>1 DEF Arriving, Sized
  <2>3. arrived' \in Nat /\ arrived' <= MaxBytes + 1 /\ arrived' <= size
    BY <1>a, <1>b, <2>1, <2>2
  <2>4. CASE arrived' > MaxBytes
    <3>1. Tell("too_large")
      BY <1>3, <2>4 DEF GetChunk
    <3>2. own = "too_large"
      BY <1>a, <1>b, <2>2, <2>3, <2>4
    <3>3. "too_large" \in FetchKind
      BY DEF FetchKind
    <3> QED
      BY <1>a, <2>1, <2>3, <3>1, <3>2, <3>3, EndsFailing
  <2>5. CASE ~(arrived' > MaxBytes)
    <3>1. UNCHANGED <<place, verdict>>
      BY <1>3, <2>5 DEF GetChunk
    <3>2. verdict' = Nothing
      BY <2>1, <3>1 DEF Told
    <3>3. (BlamedRight /\ AcceptedSound /\ Told)'
      BY <2>3, <3>2, GoesOn
    <3>4. LinkTyped'
      BY <2>1, <2>3, <3>1 DEF LinkTyped
    <3>5. (WarnedOf /\ Passed /\ Sized /\ Capped)'
      BY <2>1, <3>1 DEF WarnedOf, Passed, Sized, Capped
    <3>6. arrived' <= MaxBytes
      BY <1>b, <2>3, <2>5
    <3>7. Arriving'
      BY <2>1, <2>3, <3>1, <3>6 DEF Arriving
    <3> QED
      BY <3>3, <3>4, <3>5, <3>7
  <2> QED
    BY <2>4, <2>5
<1>4. CASE GetFails
  <2>1. PICK error \in DownloadFailures : Raise(error, log.video_only)
    BY <1>4 DEF GetFails
  <2>2. UNCHANGED <<phase, own, met, log, medium, size, arrived>>
    BY <1>4 DEF GetFails
  <2>3. /\ classify(error, log.warnings, log.video_only) \in FetchKind
        /\ ~Refuses(classify(error, log.warnings, log.video_only))
    BY <1>a, OthersBlameless DEF OfOthers
  <2> QED
    BY <1>a, <2>1, <2>2, <2>3, EndsFailing DEF Raise
<1>5. CASE GetEnds
  <2>1. /\ place = "get" /\ place' = "weigh"
        /\ UNCHANGED <<phase, own, met, log, medium, size, arrived, verdict>>
    BY <1>5 DEF GetEnds
  <2>2. verdict' = Nothing
    BY <2>1 DEF Told
  <2>3. (BlamedRight /\ AcceptedSound /\ Told)'
    BY <1>a, <2>1, <2>2, GoesOn
  <2>4. LinkTyped'
    BY <2>1 DEF LinkTyped, Places
  <2>5. (WarnedOf /\ Passed /\ Sized /\ Arriving /\ Capped)'
    BY <2>1 DEF WarnedOf, Passed, Sized, Arriving, Capped
  <2> QED
    BY <2>3, <2>4, <2>5
<1> QED
  BY <1>1, <1>2, <1>3, <1>4, <1>5

(* What the download made.                                                 *)
LEMMA WeighStep ==
  ASSUME LinkInv, Weigh
  PROVE  LinkInv'
<1> USE DEF LinkInv
<1>a. arrived \in Nat /\ arrived <= MaxBytes + 1 /\ size \in Nat /\
      log \in [warnings : SUBSET WarningWords, video_only : BOOLEAN, hit_size_cap : BOOLEAN]
  BY DEF LinkTyped, AcceptedSound
<1>b. MaxBytes \in Nat \ {0}
  BY LinkFetchAssumption
<1>1. place = "weigh" /\ UNCHANGED <<phase, own, met, log, medium, size, arrived>>
  BY DEF Weigh
<1>2. PICK there \in {~log.hit_size_cap, FALSE} :
        Go("ingest", FirstOf(<< <<~there /\ log.hit_size_cap, "too_large">>,
                               <<~there \/ size = 0, "empty_download">>,
                               <<size > MaxBytes, "too_large">>,
                               <<TRUE, "fine">> >>))
  BY DEF Weigh
<1>3. there \in BOOLEAN /\ log.hit_size_cap \in BOOLEAN
  BY <1>a
<1> DEFINE a == <<~there /\ log.hit_size_cap, "too_large">>
           b == <<~there \/ size = 0, "empty_download">>
           c == <<size > MaxBytes, "too_large">>
           d == <<TRUE, "fine">>
           kind == FirstOf(<<a, b, c, d>>)
<1>4. a[2] = "too_large" /\ (a[1] <=> ~there /\ log.hit_size_cap)
  <2>1. (~there /\ log.hit_size_cap) \in BOOLEAN
    OBVIOUS
  <2> QED
    BY <2>1, RuleIs
<1>5. b[2] = "empty_download" /\ (b[1] <=> ~there \/ size = 0)
  <2>1. (~there \/ size = 0) \in BOOLEAN
    OBVIOUS
  <2> QED
    BY <2>1, RuleIs
<1>6. c[2] = "too_large" /\ (c[1] <=> size > MaxBytes)
  <2>1. (size > MaxBytes) \in BOOLEAN
    BY <1>a, <1>b
  <2> QED
    BY <2>1, RuleIs
<1>7. d[2] = "fine" /\ d[1]
  BY RuleIs
<1>8. Go("ingest", kind)
  BY <1>2
<1> HIDE DEF a, b, c, d
<1>9. kind = IF a[1] THEN a[2] ELSE IF b[1] THEN b[2] ELSE IF c[1] THEN c[2] ELSE d[2]
  BY <1>7, FirstOfFourRules
<1> HIDE DEF kind
<1>10. (log.hit_size_cap => size > MaxBytes) /\ (size > MaxBytes <=> own = "too_large")
  BY <1>1 DEF Capped, Sized
<1>11. \/ kind = "too_large" /\ own = "too_large"
       \/ kind = "empty_download"
       \/ kind = "fine" /\ size # 0 /\ ~(size > MaxBytes)
  BY <1>4, <1>5, <1>6, <1>7, <1>9, <1>10
<1>12. CASE kind = "fine" /\ size # 0 /\ ~(size > MaxBytes)
  <2>1. place' = "ingest" /\ UNCHANGED verdict
    BY <1>8, <1>12 DEF Go
  <2>2. verdict' = Nothing
    BY <1>1, <2>1 DEF Told
  <2>3. (BlamedRight /\ AcceptedSound /\ Told)'
    BY <1>a, <1>1, <2>2, GoesOn
  <2>4. LinkTyped'
    BY <1>1, <2>1 DEF LinkTyped, Places
  <2>5. size \in 1..MaxBytes
    BY <1>a, <1>b, <1>12
  <2>6. (WarnedOf /\ Passed /\ Sized /\ Arriving /\ Capped)'
    BY <1>1, <2>1, <2>5 DEF WarnedOf, Passed, Sized, Arriving, Capped
  <2> QED
    BY <2>3, <2>4, <2>6
<1>13. CASE kind # "fine"
  <2>1. Tell(kind)
    BY <1>8, <1>13 DEF Go
  <2>2. kind \in FetchKind /\ (Refuses(kind) => kind = own)
    <3>1. "too_large" \in FetchKind
      BY DEF FetchKind
    <3> QED
      BY <1>11, <1>13, <3>1, NotTheVideos
  <2> QED
    BY <1>a, <1>1, <2>1, <2>2, EndsFailing
<1> QED
  BY <1>11, <1>12, <1>13

(* What ffprobe says of the length, by what is the matter with the file.   *)
LEMMA ProbedLength ==
  ASSUME own \in {Nothing} \cup OnDisk, own # "too_large", NEW length \in Probed
  PROVE  \/ /\ own = "unreadable"
            /\ length = Nothing \/ check_duration(length) = "unsupported_format"
         \/ own = "too_long" /\ length # Nothing /\ check_duration(length) = "too_long"
         \/ own = Nothing /\ length # Nothing /\ check_duration(length) = "fine"
<1>1. MaxDuration \in Nat \ {0} /\ Nothing \notin Nat /\ Nothing \notin FetchKind
  BY LinkFetchAssumption
<1>2. CASE own = "unreadable"
  <2>1. length \in {Nothing, 0}
    BY <1>2 DEF Probed
  <2>2. check_duration(0) = "unsupported_format"
    BY <1>1 DEF check_duration
  <2> QED
    BY <1>2, <2>1, <2>2
<1>3. CASE own = "too_long"
  <2>1. length = MaxDuration + 1
    BY <1>3 DEF Probed
  <2>2. length # Nothing /\ check_duration(length) = "too_long"
    BY <1>1, <2>1 DEF check_duration
  <2> QED
    BY <1>3, <2>2
<1>4. CASE own = Nothing
  <2>1. length \in 1..MaxDuration
    BY <1>1, <1>4 DEF Probed, FetchKind
  <2>2. length # Nothing /\ check_duration(length) = "fine"
    BY <1>1, <2>1 DEF check_duration
  <2> QED
    BY <1>4, <2>2
<1> QED
  BY <1>2, <1>3, <1>4 DEF OnDisk

(* The file is probed.  What it does not tell is what was the matter.      *)
LEMMA IngestStep ==
  ASSUME LinkInv, place = "ingest", NEW where \in {"inside", "outside", "gone"},
         NEW installed \in BOOLEAN, NEW length \in Probed, Ingest(where, installed, length)
  PROVE  LinkInv'
<1> USE DEF LinkInv
<1>a. arrived \in Nat /\ arrived <= MaxBytes + 1 /\
      log \in [warnings : SUBSET WarningWords, video_only : BOOLEAN, hit_size_cap : BOOLEAN]
  BY DEF LinkTyped, AcceptedSound
<1>b. MaxBytes \in Nat \ {0}
  BY LinkFetchAssumption
<1>1. UNCHANGED <<phase, own, met, log, medium, size, arrived>>
  BY DEF Ingest
<1>2. /\ phase = "download" /\ own \in {Nothing} \cup OnDisk
      /\ medium = "googlevideo" /\ size \in 1..MaxBytes /\ own # "too_large"
  BY <1>b DEF Passed, Sized
<1> DEFINE a == <<where = "outside", "crashed">>
           b == <<where = "gone", "empty_download">>
           c == <<~installed, "no_ffprobe">>
           d == <<length = Nothing, "unreadable">>
           e == <<length # Nothing /\ check_duration(length) = "unsupported_format",
                  "unreadable">>
           f == <<length # Nothing /\ check_duration(length) = "too_long", "too_long">>
           g == <<TRUE, "accepted">>
           kind == FirstOf(<<a, b, c, d, e, f, g>>)
<1>3. a[2] = "crashed" /\ b[2] = "empty_download" /\ c[2] = "no_ffprobe"
  BY RuleIs
<1>4. d[2] = "unreadable" /\ (d[1] <=> length = Nothing)
  <2>1. (length = Nothing) \in BOOLEAN
    OBVIOUS
  <2> QED
    BY <2>1, RuleIs
<1>5. /\ e[2] = "unreadable"
      /\ e[1] <=> length # Nothing /\ check_duration(length) = "unsupported_format"
  <2>1. (length # Nothing /\ check_duration(length) = "unsupported_format") \in BOOLEAN
    OBVIOUS
  <2> QED
    BY <2>1, RuleIs
<1>6. /\ f[2] = "too_long"
      /\ f[1] <=> length # Nothing /\ check_duration(length) = "too_long"
  <2>1. (length # Nothing /\ check_duration(length) = "too_long") \in BOOLEAN
    OBVIOUS
  <2> QED
    BY <2>1, RuleIs
<1>7. g[2] = "accepted" /\ g[1]
  BY RuleIs
<1>8. Tell(kind)
  BY DEF Ingest
<1> HIDE DEF a, b, c, d, e, f, g
<1>9. kind = IF a[1] THEN a[2] ELSE IF b[1] THEN b[2] ELSE IF c[1] THEN c[2]
             ELSE IF d[1] THEN d[2] ELSE IF e[1] THEN e[2] ELSE IF f[1] THEN f[2]
             ELSE g[2]
  BY <1>7, FirstOfSevenRules
<1> HIDE DEF kind
<1>10. \/ kind \in {"crashed", "empty_download", "no_ffprobe"}
       \/ kind = own /\ own \in {"unreadable", "too_long"}
       \/ kind = "accepted" /\ own = Nothing
  <2>1. kind \in {"crashed", "empty_download", "no_ffprobe"} \/
        kind = IF d[1] THEN d[2] ELSE IF e[1] THEN e[2] ELSE IF f[1] THEN f[2] ELSE g[2]
    BY <1>3, <1>9
  <2>2. \/ /\ own = "unreadable"
           /\ length = Nothing \/ check_duration(length) = "unsupported_format"
        \/ own = "too_long" /\ length # Nothing /\ check_duration(length) = "too_long"
        \/ own = Nothing /\ length # Nothing /\ check_duration(length) = "fine"
    BY <1>2, ProbedLength
  <2> QED
    BY <1>4, <1>5, <1>6, <1>7, <2>1, <2>2
<1>11. CASE kind # "accepted"
  <2>1. kind \in FetchKind \cup {"no_ffprobe"}
    BY <1>10, <1>11 DEF FetchKind
  <2>2. kind \in FetchKind /\ Refuses(kind) => kind = own
    <3>1. "no_ffprobe" \notin FetchKind
      BY DEF FetchKind
    <3> QED
      BY <1>10, <1>11, <3>1, NotTheVideos
  <2> QED
    BY <1>a, <1>1, <1>8, <2>1, <2>2, EndsFailing
<1>12. CASE kind = "accepted"
  <2>1. place' = "told" /\ verdict' = "accepted" /\ own = Nothing
    BY <1>8, <1>10, <1>12 DEF Tell
  <2>2. LinkTyped'
    BY <1>1, <2>1 DEF LinkTyped, Places
  <2>3. (WarnedOf /\ Passed /\ Sized /\ Arriving /\ Capped /\ Told)'
    BY <1>a, <1>1, <2>1 DEF WarnedOf, Passed, Sized, Arriving, Capped, Told
  <2>4. BlamedRight'
    BY <2>1 DEF BlamedRight, FetchKind
  <2>5. AcceptedSound'
    BY <1>a, <1>1, <1>2, <2>1 DEF AcceptedSound
  <2> QED
    BY <2>2, <2>3, <2>4, <2>5
<1> QED
  BY <1>11, <1>12

(* Another video, as far as one knows, and from the start.                 *)
LEMMA QueuedStep ==
  ASSUME LinkInv, Queued
  PROVE  LinkInv'
<1>1. /\ phase' = "download" /\ place' = "start"
      /\ own' \in Faults \cup {Nothing}
      /\ met' = Unasked /\ log' = NoLog
      /\ medium' = Nothing /\ size' = 0 /\ arrived' = 0
      /\ verdict' = Nothing
  BY DEF Queued
<1>2. MaxBytes \in Nat
  BY LinkFetchAssumption
<1>3. (BlamedRight /\ AcceptedSound /\ Told)'
  BY <1>1, <1>2, GoesOn
<1>4. LinkTyped'
  BY <1>1 DEF LinkTyped, NoLog, Places
<1>5. (WarnedOf /\ Passed /\ Sized /\ Arriving /\ Capped)'
  BY <1>1, <1>2 DEF WarnedOf, Passed, Sized, Arriving, Capped, NoLog
<1> QED
  BY <1>3, <1>4, <1>5 DEF LinkInv

(* Every step keeps the invariant.                                         *)
LEMMA LinkStep == LinkInv /\ [LinkFetchNext]_linkVars => LinkInv'
<1> SUFFICES ASSUME LinkInv, [LinkFetchNext]_linkVars
             PROVE  LinkInv'
  OBVIOUS
<1>1. CASE Busy \/ Starts \/ Ask \/ Outage \/ Extract \/ Dies
  BY <1>1, AskingSteps
<1>2. CASE place = "check" /\ \E raw \in Metadata(own) : Check(raw)
  BY <1>2, CheckStep
<1>3. CASE /\ place = "choose"
           /\ \E audio \in IF own = "no_audio" THEN {{}} ELSE {{Sound}, {Muxed}, {Vague}} :
              \E offered \in [Clients -> SUBSET ({Picture, Storyboard} \union audio)] :
                /\ \A c \in Clients : offered[c] \in Offers(c, audio)
                /\ Choose(UNION {offered[c] : c \in Clients})
  BY <1>3, ChooseStep
<1>4. CASE /\ place = "media"
           /\ \E leads \in MediaLeads, claimed \in BOOLEAN,
                 bytes \in IF own = "too_large" THEN {MaxBytes + 1, MaxBytes + 2}
                                                ELSE 0..MaxBytes :
                CheckMedia(leads, bytes, claimed)
  BY <1>4, MediaStep
<1>5. CASE Unresolved \/ GiveUpQuietly \/ GetChunk \/ GetFails \/ GetEnds
  BY <1>5, DownloadSteps
<1>6. CASE Weigh
  BY <1>6, WeighStep
<1>7. CASE /\ place = "ingest"
           /\ \E where \in {"inside", "outside", "gone"}, installed \in BOOLEAN,
                 length \in Probed : Ingest(where, installed, length)
  BY <1>7, IngestStep
<1>8. CASE Queued
  BY <1>8, QueuedStep
<1>9. CASE UNCHANGED linkVars
  BY <1>9 DEF linkVars, LinkInv, LinkTyped, WarnedOf, Passed, Sized, Arriving, Capped,
     Told, BlamedRight, AcceptedSound
<1> QED
  BY <1>1, <1>2, <1>3, <1>4, <1>5, <1>6, <1>7, <1>8, <1>9 DEF LinkFetchNext

(* A refusal that blames the video is true of the video: what the listener *)
(* is told is what is the matter with it, not with YouTube, the network,   *)
(* yt-dlp or the disk (classify, offers_only_video, check_info, _checked). *)
THEOREM Blames == LinkFetchSpec => []BlamedRight
<1>1. LinkInv => BlamedRight
  BY DEF LinkInv
<1> QED
  BY <1>1, LinkInitially, LinkStep, PTL DEF LinkFetchSpec

(* What a lookup accepts can be used, what a download keeps came from      *)
(* YouTube and has nothing the matter, and what is put on the disk never   *)
(* exceeds the cap by more than a chunk (_checked, the media hosts, the    *)
(* hook that counts, and ingest).                                          *)
THEOREM Accepts == LinkFetchSpec => []AcceptedSound
<1>1. LinkInv => AcceptedSound
  BY DEF LinkInv
<1> QED
  BY <1>1, LinkInitially, LinkStep, PTL DEF LinkFetchSpec

-----------------------------------------------------------------------------
(* A request at the door.                                                  *)

(* The error handlers as the ifs they are.                                 *)
LEMMA HandlersAre ==
  ASSUME NEW e
  PROVE  error_handlers(e) =
           IF e.type = "ApiError" THEN Reply(e.status, e.reason)
           ELSE IF e.type = "RequestValidationError" THEN Reply(422, "unsupported_format")
           ELSE IF e.type = "Exception" THEN Reply(500, "internal")
           ELSE IF e.status = 400 /\ e.context = "multipart"
                THEN Reply(422, "unsupported_format")
           ELSE IF e.status = 400 /\ e.cause # "none" THEN Reply(500, "internal")
           ELSE IF e.status \in {404, 405} THEN Reply(e.status, "not_found")
           ELSE Reply(e.status, "internal")
<1> DEFINE a == <<e.type = "ApiError", Reply(e.status, e.reason)>>
           b == <<e.type = "RequestValidationError", Reply(422, "unsupported_format")>>
           c == <<e.type = "Exception", Reply(500, "internal")>>
           d == <<e.status = 400 /\ e.context = "multipart",
                  Reply(422, "unsupported_format")>>
           f == <<e.status = 400 /\ e.cause # "none", Reply(500, "internal")>>
           g == <<e.status \in {404, 405}, Reply(e.status, "not_found")>>
           h == <<TRUE, Reply(e.status, "internal")>>
<1>1. a[2] = Reply(e.status, e.reason) /\ (a[1] <=> e.type = "ApiError")
  <2>1. (e.type = "ApiError") \in BOOLEAN
    OBVIOUS
  <2> QED
    BY <2>1, RuleIs
<1>2. /\ b[2] = Reply(422, "unsupported_format")
      /\ b[1] <=> e.type = "RequestValidationError"
  <2>1. (e.type = "RequestValidationError") \in BOOLEAN
    OBVIOUS
  <2> QED
    BY <2>1, RuleIs
<1>3. c[2] = Reply(500, "internal") /\ (c[1] <=> e.type = "Exception")
  <2>1. (e.type = "Exception") \in BOOLEAN
    OBVIOUS
  <2> QED
    BY <2>1, RuleIs
<1>4. /\ d[2] = Reply(422, "unsupported_format")
      /\ d[1] <=> e.status = 400 /\ e.context = "multipart"
  <2>1. (e.status = 400 /\ e.context = "multipart") \in BOOLEAN
    OBVIOUS
  <2> QED
    BY <2>1, RuleIs
<1>5. f[2] = Reply(500, "internal") /\ (f[1] <=> e.status = 400 /\ e.cause # "none")
  <2>1. (e.status = 400 /\ e.cause # "none") \in BOOLEAN
    OBVIOUS
  <2> QED
    BY <2>1, RuleIs
<1>6. g[2] = Reply(e.status, "not_found") /\ (g[1] <=> e.status \in {404, 405})
  <2>1. (e.status \in {404, 405}) \in BOOLEAN
    OBVIOUS
  <2> QED
    BY <2>1, RuleIs, ZenonT(60)
<1>7. h[2] = Reply(e.status, "internal") /\ h[1]
  BY RuleIs
<1>8. error_handlers(e) = FirstOf(<<a, b, c, d, f, g, h>>)
  BY DEF error_handlers
<1> HIDE DEF a, b, c, d, f, g, h
<1>9. error_handlers(e) =
        IF a[1] THEN a[2] ELSE IF b[1] THEN b[2] ELSE IF c[1] THEN c[2]
        ELSE IF d[1] THEN d[2] ELSE IF f[1] THEN f[2] ELSE IF g[1] THEN g[2] ELSE h[2]
  BY <1>7, <1>8, FirstOfSevenRules
<1> QED
  BY <1>1, <1>2, <1>3, <1>4, <1>5, <1>6, <1>7, <1>9

(* What each exception is answered with.                                   *)
LEMMA AnswersAre ==
  /\ \A status, reason : error_handlers(ApiError(status, reason)) = Reply(status, reason)
  /\ error_handlers(RequestValidationError) = Reply(422, "unsupported_format")
  /\ error_handlers(InvalidMultipart) = Reply(422, "unsupported_format")
  /\ error_handlers(Unread("OSError")) = Reply(500, "internal")
  /\ error_handlers(Unexpected) = Reply(500, "internal")
  /\ \A status \in {404, 405} :
       error_handlers(HTTPException(status)) = Reply(status, "not_found")
<1>1. ASSUME NEW status, NEW reason
      PROVE  error_handlers(ApiError(status, reason)) = Reply(status, reason)
  BY HandlersAre DEF ApiError, Exception
<1>2. error_handlers(RequestValidationError) = Reply(422, "unsupported_format")
  BY HandlersAre DEF RequestValidationError, Exception
<1>3. error_handlers(InvalidMultipart) = Reply(422, "unsupported_format")
  BY HandlersAre DEF InvalidMultipart, Exception
<1>4. error_handlers(Unread("OSError")) = Reply(500, "internal")
  BY HandlersAre DEF Unread, Exception
<1>5. error_handlers(Unexpected) = Reply(500, "internal")
  BY HandlersAre DEF Unexpected, Exception
<1>6. ASSUME NEW status \in {404, 405}
      PROVE  error_handlers(HTTPException(status)) = Reply(status, "not_found")
  BY HandlersAre DEF HTTPException, Exception
<1> QED
  BY <1>1, <1>2, <1>3, <1>4, <1>5, <1>6

(* And what the link route makes of it first.                              *)
LEMMA LinkAnswersAre ==
  /\ \A status, reason :
       error_handlers(link_route(ApiError(status, reason))) = Reply(status, reason)
  /\ error_handlers(link_route(RequestValidationError)) = Reply(422, "unsupported_link")
  /\ error_handlers(link_route(Unread("ValueError"))) = Reply(422, "unsupported_link")
<1>1. ASSUME NEW status, NEW reason
      PROVE  link_route(ApiError(status, reason)) = ApiError(status, reason)
  BY DEF link_route, _is_unreadable_body, ApiError, Exception
<1>2. link_route(RequestValidationError) = ApiError(422, "unsupported_link")
  BY DEF link_route, RequestValidationError, Exception
<1>3. link_route(Unread("ValueError")) = ApiError(422, "unsupported_link")
  BY DEF link_route, _is_unreadable_body, Unread, Exception
<1> QED
  BY <1>1, <1>2, <1>3, AnswersAre

(* A host's fault.                                                         *)
LEMMA HostFaultIs ==
  ASSUME NEW raw, raw.dressed = TRUE \/ raw.dressed = FALSE
  PROVE  /\ host_fault(raw) \in {"not_a_link", "unsupported_site", "fine"}
         /\ raw.host \notin {"", "address"} /\ raw.scheme # "host:port"
              /\ raw.dressed = FALSE => host_fault(raw) = "fine"
<1> DEFINE a == <<raw.host = "", "not_a_link">>
           b == <<raw.dressed \/ raw.scheme = "host:port" \/ raw.host = "address",
                  "unsupported_site">>
           c == <<TRUE, "fine">>
<1>1. a[2] = "not_a_link" /\ (a[1] <=> raw.host = "")
  <2>1. (raw.host = "") \in BOOLEAN
    OBVIOUS
  <2> QED
    BY <2>1, RuleIs
<1>2. /\ b[2] = "unsupported_site"
      /\ b[1] <=> raw.dressed \/ raw.scheme = "host:port" \/ raw.host = "address"
  <2>1. (raw.dressed \/ raw.scheme = "host:port" \/ raw.host = "address") \in BOOLEAN
    OBVIOUS
  <2> QED
    BY <2>1, RuleIs
<1>3. c[2] = "fine" /\ c[1]
  BY RuleIs
<1>4. host_fault(raw) = FirstOf(<<a, b, c>>)
  BY DEF host_fault
<1> HIDE DEF a, b, c
<1>5. host_fault(raw) = IF a[1] THEN a[2] ELSE IF b[1] THEN b[2] ELSE c[2]
  BY <1>3, <1>4, FirstOfThreeRules
<1> QED
  BY <1>1, <1>2, <1>3, <1>5

(* The link's parsing as the ifs it is.                                    *)
LEMMA ParseIs ==
  ASSUME NEW raw
  PROVE  parse(raw) =
           IF raw.text \in {"blank", "long", "backslash", "control", "unbalanced"}
           THEN "not_a_link"
           ELSE IF with_scheme(raw.scheme) \notin {"http", "https"} THEN "bad_scheme"
           ELSE IF host_fault(raw) # "fine" THEN host_fault(raw)
           ELSE IF raw.host \notin Hosts THEN "unsupported_site"
           ELSE IF youtube_id(raw) = NoVideo THEN "not_a_video" ELSE youtube_id(raw)
<1> DEFINE a == <<raw.text \in {"blank", "long", "backslash", "control", "unbalanced"},
                  "not_a_link">>
           b == <<with_scheme(raw.scheme) \notin {"http", "https"}, "bad_scheme">>
           c == <<host_fault(raw) # "fine", host_fault(raw)>>
           d == <<raw.host \notin Hosts, "unsupported_site">>
           e == <<youtube_id(raw) = NoVideo, "not_a_video">>
           f == <<TRUE, youtube_id(raw)>>
<1>1. /\ a[2] = "not_a_link"
      /\ a[1] <=> raw.text \in {"blank", "long", "backslash", "control", "unbalanced"}
  <2>1. (raw.text \in {"blank", "long", "backslash", "control", "unbalanced"}) \in BOOLEAN
    OBVIOUS
  <2> QED
    BY <2>1, RuleIs
<1>2. /\ b[2] = "bad_scheme"
      /\ b[1] <=> with_scheme(raw.scheme) \notin {"http", "https"}
  <2>1. (with_scheme(raw.scheme) \notin {"http", "https"}) \in BOOLEAN
    OBVIOUS
  <2> QED
    BY <2>1, RuleIs
<1>3. c[2] = host_fault(raw) /\ (c[1] <=> host_fault(raw) # "fine")
  <2>1. (host_fault(raw) # "fine") \in BOOLEAN
    OBVIOUS
  <2> QED
    BY <2>1, RuleIs
<1>4. d[2] = "unsupported_site" /\ (d[1] <=> raw.host \notin Hosts)
  <2>1. (raw.host \notin Hosts) \in BOOLEAN
    OBVIOUS
  <2> QED
    BY <2>1, RuleIs
<1>5. e[2] = "not_a_video" /\ (e[1] <=> youtube_id(raw) = NoVideo)
  <2>1. (youtube_id(raw) = NoVideo) \in BOOLEAN
    OBVIOUS
  <2> QED
    BY <2>1, RuleIs
<1>6. f[2] = youtube_id(raw) /\ f[1]
  BY RuleIs
<1>7. parse(raw) = FirstOf(<<a, b, c, d, e, f>>)
  BY DEF parse
<1> HIDE DEF a, b, c, d, e, f
<1>8. parse(raw) =
        IF a[1] THEN a[2] ELSE IF b[1] THEN b[2] ELSE IF c[1] THEN c[2]
        ELSE IF d[1] THEN d[2] ELSE IF e[1] THEN e[2] ELSE f[2]
  BY <1>6, <1>7, FirstOfSixRules
<1> QED
  BY <1>1, <1>2, <1>3, <1>4, <1>5, <1>6, <1>8

(* One or two segments, and what they are.                                 *)
LEMMA Segments ==
  ASSUME NEW s \in Seq(STRING)
  PROVE  /\ Len(s) = 1 => s = <<s[1]>>
         /\ Len(s) = 2 => s = <<s[1], s[2]>>
  OBVIOUS

(* The id the code reads is what the link spells, and all it spells.       *)
LEMMA IdSpelled ==
  ASSUME NEW link, link.path \in Seq(STRING), link.v \in Seq(STRING), link.host \in Hosts
  PROVE  Spelled(link) = IF youtube_id(link) = NoVideo THEN {} ELSE {youtube_id(link)}
<1>0. NoVideo \notin Videos \union NOT_IDS
  BY LinksAssumption
<1> DEFINE ids == Videos \union NOT_IDS
           pages == {"shorts", "live", "embed", "v"}
<1>1. \A a : /\ Len(<<a>>) = 1 /\ <<a>>[1] = a
             /\ \A b : <<b>> = <<a>> => a = b
  OBVIOUS
<1>2. \A a, b : Len(<<a, b>>) = 2 /\ <<a, b>>[1] = a /\ <<a, b>>[2] = b
  OBVIOUS
<1>3. Len(<<"watch">>) = 1
  OBVIOUS
<1>4. CASE link.host = ShortHost
  <2>1. Spelled(link) = {id \in ids : link.path = <<id>>}
    BY <1>4 DEF Spelled
  <2>2. CASE Len(link.path) = 1
    <3>1. link.path = <<link.path[1]>>
      BY <2>2, Segments
    <3>2. youtube_id(link) = IF link.path[1] \in ids THEN link.path[1] ELSE NoVideo
      BY <1>4, <2>2 DEF youtube_id
    <3>3. \A id : link.path = <<id>> <=> id = link.path[1]
      BY <1>1, <3>1
    <3>4. Spelled(link) = {id \in ids : id = link.path[1]}
      BY <2>1, <3>3
    <3> HIDE DEF ids
    <3> QED
      BY <1>0, <3>2, <3>4 DEF ids
  <2>3. CASE Len(link.path) # 1
    <3>1. youtube_id(link) = NoVideo
      BY <1>0, <1>4, <2>3 DEF youtube_id
    <3>2. \A id : link.path # <<id>>
      BY <1>1, <2>3
    <3> QED
      BY <2>1, <3>1, <3>2
  <2> QED
    BY <2>2, <2>3
<1>5. CASE link.host # ShortHost /\ link.path = <<"watch">>
  <2>1. Spelled(link) = {id \in ids : link.v = <<id>>}
    BY <1>2, <1>3, <1>5 DEF Spelled
  <2>2. CASE Len(link.v) = 1
    <3>1. link.v = <<link.v[1]>>
      BY <2>2, Segments
    <3>2. youtube_id(link) = IF link.v[1] \in ids THEN link.v[1] ELSE NoVideo
      BY <1>5, <2>2 DEF youtube_id
    <3>3. \A id : link.v = <<id>> <=> id = link.v[1]
      BY <1>1, <3>1
    <3> QED
      BY <1>0, <2>1, <3>2, <3>3
  <2>3. CASE Len(link.v) # 1
    <3>1. youtube_id(link) = NoVideo
      BY <1>0, <1>5, <2>3 DEF youtube_id
    <3>2. \A id : link.v # <<id>>
      BY <1>1, <2>3
    <3> QED
      BY <2>1, <3>1, <3>2
  <2> QED
    BY <2>2, <2>3
<1>6. CASE link.host # ShortHost /\ link.path # <<"watch">>
  <2>1. Spelled(link) =
          {id \in ids : id \notin NOT_IDS /\ \E page \in pages : link.path = <<page, id>>}
    BY <1>6 DEF Spelled
  <2>2. CASE Len(link.path) = 2 /\ link.path[1] \in pages /\ link.path[2] \notin NOT_IDS
    <3>1. link.path = <<link.path[1], link.path[2]>>
      BY <2>2, Segments
    <3>2. youtube_id(link) = IF link.path[2] \in ids THEN link.path[2] ELSE NoVideo
      BY <1>6, <2>2 DEF youtube_id
    <3>3. \A id : (\E page \in pages : link.path = <<page, id>>) <=> id = link.path[2]
      BY <1>2, <2>2, <3>1
    <3> QED
      BY <1>0, <2>1, <2>2, <3>2, <3>3
  <2>3. CASE ~(Len(link.path) = 2 /\ link.path[1] \in pages /\ link.path[2] \notin NOT_IDS)
    <3>1. youtube_id(link) = NoVideo
      BY <1>0, <1>6, <2>3 DEF youtube_id
    <3>2. ASSUME NEW id, id \notin NOT_IDS, NEW page \in pages, link.path = <<page, id>>
          PROVE  FALSE
      <4>1. Len(link.path) = 2 /\ link.path[1] = page /\ link.path[2] = id
        BY <1>2, <3>2
      <4> QED
        BY <2>3, <3>2, <4>1
    <3> QED
      BY <2>1, <3>1, <3>2
  <2> QED
    BY <2>2, <2>3
<1> QED
  BY <1>4, <1>5, <1>6

(* A link is parsed as the video it opens, and one that any browser would  *)
(* open is parsed.                                                         *)
LEMMA ParsedRight ==
  ASSUME NEW link \in RawLinks
  PROVE  /\ parse(link) \in RefusalKind => ~Plain(link)
         /\ parse(link) \notin RefusalKind =>
              parse(link) = link.opens /\ link.opens # NoVideo
<1>1. /\ link.path \in Seq(STRING) /\ link.v \in Seq(STRING) /\ link.dressed \in BOOLEAN
      /\ link.text \in {"plain", "padded", "blank", "long", "backslash", "control",
                        "unbalanced"}
      /\ Reachable(link) /\ Spelled(link) # {} => link.opens \in Spelled(link)
      /\ ~(Reachable(link) /\ Spelled(link) # {}) => link.opens = NoVideo
  BY RawLinksAssumption
<1>2. Spelled(link) # {} => link.host \in Hosts
  BY DEF Spelled, Hosts
<1>3. /\ NoVideo \notin Videos \union NOT_IDS
      /\ (Videos \union NOT_IDS) \intersect RefusalKind = {}
  BY LinksAssumption DEF NOT_IDS, RefusalKind
<1>4. Spelled(link) \subseteq Videos \union NOT_IDS
  BY DEF Spelled
<1>7. link.dressed = TRUE \/ link.dressed = FALSE
  BY <1>1
<1>5. ASSUME Plain(link)  PROVE parse(link) \notin RefusalKind
  <2>1. Reachable(link) /\ link.opens \in Spelled(link)
    BY <1>1, <1>5 DEF Plain
  <2>2. link.host \in Hosts
    BY <1>2, <2>1
  <2>3. youtube_id(link) # NoVideo /\ link.opens = youtube_id(link)
    BY <1>1, <2>1, <2>2, IdSpelled
  <2>4. host_fault(link) = "fine"
    <3>1. link.host # "" /\ link.host # "address"
      BY <2>2 DEF Hosts, ShortHost
    <3>2. link.dressed = FALSE /\ link.scheme # "host:port"
      BY <1>5, <1>7 DEF Plain
    <3> QED
      BY <1>7, <3>1, <3>2, HostFaultIs
  <2>5. with_scheme(link.scheme) \in {"http", "https"}
    BY <1>5 DEF Plain, with_scheme
  <2>6. link.text \notin {"blank", "long", "backslash", "control", "unbalanced"}
    BY <1>5 DEF Plain
  <2>7. parse(link) = youtube_id(link)
    BY <2>2, <2>3, <2>4, <2>5, <2>6, ParseIs
  <2> QED
    BY <1>3, <1>4, <2>1, <2>3, <2>7
<1>6. ASSUME parse(link) \notin RefusalKind
      PROVE  parse(link) = link.opens /\ link.opens # NoVideo
  <2>1. link.text \notin {"blank", "long", "backslash", "control", "unbalanced"}
    BY <1>6, ParseIs DEF RefusalKind
  <2>2. with_scheme(link.scheme) \in {"http", "https"}
    BY <1>6, <2>1, ParseIs DEF RefusalKind
  <2>3. host_fault(link) = "fine"
    <3>1. host_fault(link) \in {"not_a_link", "unsupported_site", "fine"}
      BY <1>7, HostFaultIs
    <3>2. host_fault(link) # "fine" => parse(link) = host_fault(link)
      BY <2>1, <2>2, ParseIs
    <3> QED
      BY <1>6, <3>1, <3>2 DEF RefusalKind
  <2>4. link.host \in Hosts
    BY <1>6, <2>1, <2>2, <2>3, ParseIs DEF RefusalKind
  <2>5. youtube_id(link) # NoVideo /\ parse(link) = youtube_id(link)
    BY <1>6, <2>1, <2>2, <2>3, <2>4, ParseIs DEF RefusalKind
  <2>6. Reachable(link)
    BY <1>1, <2>1, <2>2 DEF Reachable, with_scheme
  <2>7. Spelled(link) = {youtube_id(link)}
    BY <1>1, <2>4, <2>5, IdSpelled
  <2> QED
    BY <1>1, <2>5, <2>6, <2>7
<1> QED
  BY <1>5, <1>6

(* A request, by its door.                                                 *)
Uploaded(r) ==
  /\ r.door = "/jobs" /\ r.file \in Nat /\ r.around \in Nat /\ r.links = TRUE
  /\ r.form \in Form
  /\ r.audio \in {"sound", "unreadable", "no length", "too long"}

Pasted(r) ==
  /\ r.door = "/jobs/from-url" /\ r.file = 0 /\ r.around \in Nat
  /\ r.links = TRUE \/ r.links = FALSE
  /\ r.form \in Form /\ r.link \in RawLinks

Missent(r) ==
  /\ r.door = "elsewhere" /\ r.file \in Nat /\ r.around \in Nat /\ r.links = TRUE

LEMMA UploadsAre ==
  ASSUME NEW r \in Uploads
  PROVE  Uploaded(r)
<1>1. 0..(MaxUpload + 3) \subseteq Nat /\ 1..(Allowance + 1) \subseteq Nat
  BY IntakeAssumption
<1> QED
  BY <1>1 DEF Uploads, Uploaded

LEMMA PastesAre ==
  ASSUME NEW r \in Pastes
  PROVE  Pasted(r)
<1>1. /\ 1..(MaxLinkBody + 3) \subseteq Nat /\ MaxLinkBody \in Nat
      /\ (CHOOSE link \in RawLinks : TRUE) \in RawLinks
  BY IntakeAssumption, RawLinksAssumption
<1>2. r.door = "/jobs/from-url" /\ r.file = 0 /\ r.links \in BOOLEAN
  BY DEF Pastes
<1>3. r.around \in Nat /\ r.form \in Form
  BY <1>1 DEF Pastes, Form
<1>4. r.link \in RawLinks
  BY <1>1 DEF Pastes
<1> QED
  BY <1>2, <1>3, <1>4 DEF Pasted

(* There are no others.                                                    *)
LEMMA RequestsAre ==
  ASSUME NEW r \in Requests
  PROVE  Uploaded(r) \/ Pasted(r) \/ Missent(r)
<1>1. Missent(Lost)
  BY DEF Lost, Missent
<1> QED
  BY <1>1, UploadsAre, PastesAre DEF Requests

(* What every request has.                                                 *)
LEMMA RequestTyped ==
  ASSUME NEW r \in Requests
  PROVE  /\ r.links = TRUE \/ r.links = FALSE
         /\ r.door # "/jobs/from-url" => r.links = TRUE
         /\ r.file \in Nat /\ r.around \in Nat /\ BodyLength(r) \in Nat
<1>1. r.links = TRUE \/ r.links = FALSE
  BY RequestsAre DEF Uploaded, Pasted, Missent
<1>2. r.door # "/jobs/from-url" => r.links = TRUE
  BY RequestsAre DEF Uploaded, Pasted, Missent
<1>3. r.file \in Nat /\ r.around \in Nat
  <2>1. Uploaded(r) => r.file \in Nat /\ r.around \in Nat
    BY DEF Uploaded
  <2>2. Pasted(r) => r.file \in Nat /\ r.around \in Nat
    BY DEF Pasted
  <2>3. Missent(r) => r.file \in Nat /\ r.around \in Nat
    BY DEF Missent
  <2> QED
    BY <2>1, <2>2, <2>3, RequestsAre
<1>4. BodyLength(r) \in Nat
  BY <1>3 DEF BodyLength
<1> QED
  BY <1>1, <1>2, <1>3, <1>4

(* What was sent, and how much of it may have been taken.                  *)
Counted ==
  /\ request \in Requests /\ taken \in Nat
  /\ point \in {"sent", "routing"} => taken = 0
  /\ point = "reading" =>
       /\ request.door # "elsewhere" /\ request.links
       /\ taken <= limit(request.door)
       /\ ~(request.declares /\ BodyLength(request) > limit(request.door))
  /\ point = "routing" =>
       /\ request.door # "elsewhere"
       /\ ~(request.declares /\ BodyLength(request) > limit(request.door))
  /\ point \in {"receive", "probe"} => request.door = "/jobs"
  /\ BodyBounded

(* A limit is a number of bytes.                                           *)
LEMMA LimitTyped ==
  \A door : limit(door) \in Nat
  BY IntakeAssumption DEF limit

(* What is taken, at every step.                                           *)
LEMMA CountedHolds == IntakeSpec => []Counted
<1>1. ASSUME IntakeInit  PROVE Counted
  <2>1. request \in Requests /\ taken = 0 /\ point = "sent"
    BY <1>1 DEF IntakeInit
  <2>2. PICK last \in Chunks : last \in Nat
    BY IntakeAssumption
  <2> QED
    BY <2>1, <2>2, LimitTyped DEF Counted, BodyBounded
<1>2. ASSUME Counted, [IntakeNext]_intakeVars  PROVE Counted'
  <2>a. /\ request \in Requests /\ taken \in Nat /\ Counted /\ BodyBounded
    BY <1>2 DEF Counted
  <2>b. IntakeNext \/ UNCHANGED intakeVars
    BY <1>2
  <2>0. Uploaded(request) \/ Pasted(request) \/ Missent(request)
    BY <2>a, RequestsAre
  <2>1. /\ request.links = TRUE \/ request.links = FALSE
        /\ request.door # "/jobs/from-url" => request.links = TRUE
        /\ request.file \in Nat /\ request.around \in Nat
    BY <2>a, RequestTyped
  <2>2. \A door : limit(door) \in Nat
    BY LimitTyped
  <2>3. BodyLength(request) \in Nat
    BY <2>a, RequestTyped
  <2>4. CASE /\ request' = request /\ taken' = taken
             /\ point' \notin {"sent", "routing", "reading"}
             /\ point' \in {"receive", "probe"} => request.door = "/jobs"
    <3>1. BodyBounded'
      BY <2>a, <2>4 DEF BodyBounded
    <3> QED
      BY <2>a, <2>4, <3>1 DEF Counted
  <2>5. CASE CheckLength
    <3>1. CASE point' = "routing"
      BY <2>a, <2>5, <3>1, <2>2, <2>3 DEF CheckLength, Answered, Onward, BodyBounded, Counted
    <3>2. CASE point' = "answered"
      BY <2>4, <2>5, <3>2 DEF CheckLength
    <3> QED
      BY <2>5, <3>1, <3>2 DEF CheckLength, Answered, Onward
  <2>6. CASE Route
    <3>1. CASE point' = "reading"
      <4>1. request' = request /\ taken' = taken /\ taken = 0 /\ request.door # "elsewhere"
        BY <2>6, <2>a DEF Route, Counted
      <4>2. request.links
        BY <2>1, <2>6, <3>1 DEF Route, Raised, Answered, Onward
      <4> QED
        BY <2>a, <2>2, <2>6, <3>1, <4>1, <4>2 DEF Route, BodyBounded, Counted
    <3>2. CASE point' = "answered"
      BY <2>4, <2>6, <3>2 DEF Route
    <3> QED
      BY <2>6, <3>1, <3>2 DEF Route, Raised, Answered, Onward
  <2>7. ASSUME NEW bytes \in Chunks, Read(bytes)  PROVE Counted'
    <3>1. bytes \in Nat
      BY IntakeAssumption
    <3>2. /\ request' = request /\ taken' = taken + bytes /\ taken' \in Nat
          /\ point = "reading"
      BY <2>a, <2>7, <3>1 DEF Read
    <3>3. taken' <= limit(request.door) + bytes
      BY <2>a, <2>2, <3>1, <3>2 DEF Counted
    <3>4. BodyBounded'
      BY <2>a, <3>2, <3>3 DEF BodyBounded, Counted
    <3>5. \/ point' = "answered"
          \/ point' = "reading" /\ taken' <= limit(request.door)
      BY <2>2, <2>7, <3>2 DEF Read, Raised, Answered
    <3> QED
      BY <2>a, <3>2, <3>4, <3>5 DEF Counted
  <2>8. CASE Unrouted
    BY <2>4, <2>8 DEF Unrouted, Raised, Answered
  <2>9. CASE BreaksOff \/ SpoolFails
    BY <2>4, <2>9 DEF BreaksOff, SpoolFails, Raised, Answered
  <2>10. CASE Parse
    <3>1. request.form \in {"whole", "lacking", "garbled"}
      BY <2>0, <2>a, <2>10 DEF Uploaded, Pasted, Missent, Parse, Counted, Form
    <3>2. request' = request /\ taken' = taken
      BY <2>10 DEF Parse
    <3>3. point' \in {"answered", "receive", "parse"}
      BY <2>10, <3>1 DEF Parse, Raised, Answered, Onward
    <3>4. point' = "receive" => request.door = "/jobs"
      BY <2>10, <3>1 DEF Parse, Raised, Answered, Onward
    <3> QED
      BY <2>4, <3>2, <3>3, <3>4
  <2>11. CASE Receive
    <3>1. request.file > MaxUpload \/ request.file = 0 \/ request.file \in 1..MaxUpload
      BY <2>1, IntakeAssumption
    <3> QED
      BY <2>a, <2>4, <2>11, <3>1 DEF Counted, Receive, Raised, Answered, Onward
  <2>12. CASE ReceiveFails \/ ProbeMissing \/ ParseLink
    BY <2>4, <2>12 DEF ReceiveFails, ProbeMissing, ParseLink, Raised, Answered
  <2>13. CASE Probe
    <3>1. request.audio \in {"sound", "unreadable", "no length", "too long"}
      BY <2>0, <2>a, <2>13 DEF Uploaded, Pasted, Missent, Probe, Counted
    <3> QED
      BY <2>a, <2>4, <2>13, <3>1 DEF Counted, Probe, Raised, Answered
  <2>14. CASE UNCHANGED intakeVars
    BY <2>a, <2>14 DEF intakeVars, BodyBounded, Counted
  <2> QED
    BY <2>b, <2>5, <2>6, <2>7, <2>8, <2>9, <2>10, <2>11, <2>12, <2>13, <2>14 DEF IntakeNext
<1> QED
  BY <1>1, <1>2, PTL DEF IntakeSpec

(* A body is abandoned within a chunk of its limit, and nothing is taken   *)
(* of one that declares too much or comes while links are off              *)
(* (UploadSizeLimit, _LinkRoute).                                          *)
THEOREM Bounds == IntakeSpec => []BodyBounded
<1>1. Counted => BodyBounded
  BY DEF Counted
<1> QED
  BY <1>1, CountedHolds, PTL

(* AnsweredRight, of a request, of whether something of ours failed, and   *)
(* of an answer.                                                           *)
Right(r, failed, reply) ==
  LET said(reason) == reply.reason = reason
  IN
  /\ said("internal") <=> failed
  /\ said("not_found") <=> r.door = "elsewhere"
  /\ said("links_disabled") <=> r.door = "/jobs/from-url" /\ ~r.links
  /\ said("too_large") => TooBig(r)
  /\ said("too_long") => r.audio = "too long"
  /\ said("unsupported_format") =>
       /\ r.door = "/jobs"
       /\ r.form # "whole" \/ r.file = 0 \/ r.audio \in {"unreadable", "no length"}
  /\ said("unsupported_link") =>
       r.door = "/jobs/from-url" /\ (r.form = "whole" => ~Plain(r.link))
  /\ said("accepted") =>
       /\ ~TooBig(r) /\ r.form = "whole"
       /\ IF r.door = "/jobs" THEN r.audio = "sound" /\ r.file > 0
                             ELSE reply.song = r.link.opens /\ r.link.opens # NoVideo

LEMMA AnsweredIsRight ==
  /\ AnsweredRight <=> (point = "answered" => Right(request, ours, answer))
  /\ AnsweredRight' <=> (point' = "answered" => Right(request', ours', answer'))
  BY DEF AnsweredRight, Right

(* A request the link route's switch lets through.                         *)
Open(r) == r.door # "elsewhere" /\ ~(r.door = "/jobs/from-url" /\ ~r.links)

(* What an answer says.                                                    *)
LEMMA ReplyIs ==
  /\ \A status, reason : Reply(status, reason).reason = reason
  /\ \A song : Accepted(song).reason = "accepted" /\ Accepted(song).song = song
  BY DEF Reply, Accepted

(* The refusals, and when each is right.                                   *)
LEMMA RefusedRight ==
  ASSUME NEW r, Open(r), NEW reply
  PROVE  /\ reply.reason = "internal" => Right(r, TRUE, reply)
         /\ reply.reason = "too_large" /\ TooBig(r) => Right(r, FALSE, reply)
         /\ reply.reason = "too_long" /\ r.audio = "too long" => Right(r, FALSE, reply)
         /\ /\ reply.reason = "unsupported_format" /\ r.door = "/jobs"
            /\ r.form # "whole" \/ r.file = 0 \/ r.audio \in {"unreadable", "no length"}
            => Right(r, FALSE, reply)
         /\ /\ reply.reason = "unsupported_link" /\ r.door = "/jobs/from-url"
            /\ r.form = "whole" => ~Plain(r.link)
            => Right(r, FALSE, reply)
<1>1. ASSUME reply.reason = "internal"  PROVE Right(r, TRUE, reply)
  BY <1>1 DEF Right, Open
<1>2. ASSUME reply.reason = "too_large", TooBig(r)  PROVE Right(r, FALSE, reply)
  BY <1>2 DEF Right, Open
<1>3. ASSUME reply.reason = "too_long", r.audio = "too long"  PROVE Right(r, FALSE, reply)
  BY <1>3 DEF Right, Open
<1>4. ASSUME reply.reason = "unsupported_format", r.door = "/jobs",
             r.form # "whole" \/ r.file = 0 \/ r.audio \in {"unreadable", "no length"}
      PROVE  Right(r, FALSE, reply)
  BY <1>4 DEF Right, Open
<1>5. ASSUME reply.reason = "unsupported_link", r.door = "/jobs/from-url",
             r.form = "whole" => ~Plain(r.link)
      PROVE  Right(r, FALSE, reply)
  BY <1>5 DEF Right, Open
<1> QED
  BY <1>1, <1>2, <1>3, <1>4, <1>5

(* What never reaches a handler.                                           *)
LEMMA MissentRight ==
  ASSUME NEW r, NEW reply, reply.reason = "not_found", r.door = "elsewhere"
  PROVE  Right(r, FALSE, reply)
  BY DEF Right

LEMMA SwitchedOffRight ==
  ASSUME NEW r, NEW reply, reply.reason = "links_disabled",
         r.door = "/jobs/from-url", ~r.links
  PROVE  Right(r, FALSE, reply)
  BY DEF Right

(* And what may be accepted.                                               *)
LEMMA AcceptedRight ==
  ASSUME NEW r, NEW song, Open(r), ~TooBig(r), r.form = "whole",
         IF r.door = "/jobs" THEN r.audio = "sound" /\ r.file > 0
                             ELSE song = r.link.opens /\ r.link.opens # NoVideo
  PROVE  Right(r, FALSE, Accepted(song))
<1> DEFINE reply == Accepted(song)
<1>1. reply.reason = "accepted" /\ reply.song = song
  BY ReplyIs
<1> HIDE DEF reply
<1>2. Right(r, FALSE, reply)
  BY <1>1 DEF Right, Open
<1> QED
  BY <1>2 DEF reply

(* What an exception is answered with, by the door.                        *)
LEMMA RaisedIs ==
  ASSUME NEW e, Raised(e)
  PROVE  /\ point' = "answered"
         /\ answer' = error_handlers(IF request.door = "/jobs/from-url"
                                     THEN link_route(e) ELSE e)
  BY DEF Raised, Answered

(* Each exception a handler raises, by the door.                           *)
LEMMA OursRaised ==
  /\ \A status, reason : Raised(ApiError(status, reason)) =>
       point' = "answered" /\ answer'.reason = reason
  /\ request.door # "/jobs/from-url" =>
       /\ Raised(RequestValidationError) =>
            point' = "answered" /\ answer'.reason = "unsupported_format"
       /\ Raised(InvalidMultipart) =>
            point' = "answered" /\ answer'.reason = "unsupported_format"
       /\ Raised(Unread("OSError")) =>
            point' = "answered" /\ answer'.reason = "internal"
       /\ Raised(Unexpected) => point' = "answered" /\ answer'.reason = "internal"
       /\ \A status \in {404, 405} : Raised(HTTPException(status)) =>
            point' = "answered" /\ answer'.reason = "not_found"
  /\ request.door = "/jobs/from-url" =>
       /\ Raised(RequestValidationError) =>
            point' = "answered" /\ answer'.reason = "unsupported_link"
       /\ Raised(Unread("ValueError")) =>
            point' = "answered" /\ answer'.reason = "unsupported_link"
<1>1. ASSUME NEW status, NEW reason, Raised(ApiError(status, reason))
      PROVE  point' = "answered" /\ answer'.reason = reason
  <2>1. answer' = Reply(status, reason)
    BY <1>1, RaisedIs, AnswersAre, LinkAnswersAre
  <2> QED
    BY <1>1, <2>1, RaisedIs, ReplyIs
<1>2. ASSUME request.door # "/jobs/from-url", NEW e, Raised(e)
      PROVE  point' = "answered" /\ answer' = error_handlers(e)
  BY <1>2, RaisedIs
<1>3. ASSUME request.door = "/jobs/from-url", NEW e, Raised(e)
      PROVE  point' = "answered" /\ answer' = error_handlers(link_route(e))
  BY <1>3, RaisedIs
<1> QED
  BY <1>1, <1>2, <1>3, AnswersAre, LinkAnswersAre, ReplyIs

(* What refuse says.                                                       *)
LEMMA RefusalIs ==
  ASSUME NEW r
  PROVE  refuse(r) = IF r.door = "/jobs/from-url" /\ ~r.links
                     THEN ApiError(403, "links_disabled") ELSE ApiError(413, "too_large")
  BY DEF refuse, links_off

(* The invariant but for what is taken.                                    *)
Clear ==
  /\ point \in {"sent", "routing", "reading", "receive", "probe", "parse", "answered"}
  /\ point # "answered" => ours = FALSE
  /\ point \in {"receive", "probe", "parse"} =>
       request.form = "whole" /\ BodyLength(request) <= limit(request.door)
  /\ point = "probe" => request.file \in 1..MaxUpload
  /\ point = "parse" => request.door = "/jobs/from-url" /\ request.links
  /\ AnsweredRight

(* A request that is answered, and one that goes on.                       *)
LEMMA AnsweredClear ==
  ASSUME point' = "answered", request' = request, Right(request, ours', answer')
  PROVE  Clear'
<1>1. AnsweredRight'
  BY AnsweredIsRight
<1> QED
  BY <1>1 DEF Clear

LEMMA OnwardClear ==
  ASSUME request' = request, ours' = FALSE,
         \/ point' \in {"routing", "reading"}
         \/ /\ point' = "receive"
            /\ request.form = "whole" /\ BodyLength(request) <= limit(request.door)
         \/ /\ point' = "probe" /\ request.file \in 1..MaxUpload
            /\ request.form = "whole" /\ BodyLength(request) <= limit(request.door)
         \/ /\ point' = "parse" /\ request.door = "/jobs/from-url" /\ request.links
            /\ request.form = "whole" /\ BodyLength(request) <= limit(request.door)
  PROVE  Clear'
<1>1. AnsweredRight'
  BY AnsweredIsRight
<1> QED
  BY <1>1 DEF Clear

(* Each action keeps it.                                                   *)
LEMMA CheckLengthClear ==
  ASSUME Counted, Clear, CheckLength
  PROVE  Clear'
<1>1. /\ request' = request /\ ours' = FALSE /\ request.door # "elsewhere"
      /\ request \in Requests
  BY DEF CheckLength, Clear, Counted
<1>2. CASE point' = "routing"
  BY <1>1, <1>2, OnwardClear
<1>3. CASE point' # "routing"
  <2>1. /\ BodyLength(request) > limit(request.door)
        /\ point' = "answered" /\ answer' = error_handlers(refuse(request))
    BY <1>3 DEF CheckLength, Answered, Onward
  <2>2. TooBig(request)
    BY <2>1 DEF TooBig
  <2>3. CASE request.door = "/jobs/from-url" /\ ~request.links
    <3>1. answer'.reason = "links_disabled"
      <4>1. answer' = Reply(403, "links_disabled")
        BY <2>1, <2>3, RefusalIs, AnswersAre
      <4> QED
        BY <4>1, ReplyIs
    <3>2. Right(request, FALSE, answer')
      BY <2>3, <3>1, SwitchedOffRight
    <3> QED
      BY <1>1, <2>1, <3>2, AnsweredClear
  <2>4. CASE ~(request.door = "/jobs/from-url" /\ ~request.links)
    <3>1. answer'.reason = "too_large"
      <4>1. answer' = Reply(413, "too_large")
        BY <2>1, <2>4, RefusalIs, AnswersAre
      <4> QED
        BY <4>1, ReplyIs
    <3>2. Open(request)
      BY <1>1, <2>4 DEF Open
    <3>3. Right(request, FALSE, answer')
      BY <2>2, <3>1, <3>2, RefusedRight
    <3> QED
      BY <1>1, <2>1, <3>3, AnsweredClear
  <2> QED
    BY <2>3, <2>4
<1> QED
  BY <1>2, <1>3

LEMMA RouteClear ==
  ASSUME Counted, Clear, Route \/ Unrouted
  PROVE  Clear'
<1>1. request' = request /\ ours' = FALSE /\ request \in Requests
  BY DEF Route, Unrouted, Clear, Counted
<1>2. CASE Route
  <2>1. CASE point' = "reading"
    BY <1>1, <2>1, OnwardClear
  <2>2. CASE point' # "reading"
    <3>1. /\ request.door = "/jobs/from-url" /\ ~request.links
          /\ Raised(ApiError(403, "links_disabled"))
      BY <1>2, <2>2 DEF Route, Onward, links_off
    <3>2. point' = "answered" /\ answer'.reason = "links_disabled"
      BY <3>1, OursRaised
    <3>3. Right(request, FALSE, answer')
      BY <3>1, <3>2, SwitchedOffRight
    <3> QED
      BY <1>1, <3>2, <3>3, AnsweredClear
  <2> QED
    BY <2>1, <2>2
<1>3. CASE Unrouted
  <2>2. request.door = "elsewhere"
    BY <1>3 DEF Unrouted
  <2>3. point' = "answered" /\ answer'.reason = "not_found"
    <3>1. PICK status \in {404, 405} : Raised(HTTPException(status))
      BY <1>3 DEF Unrouted
    <3> QED
      BY <2>2, <3>1, OursRaised
  <2>4. Right(request, FALSE, answer')
    BY <2>2, <2>3, MissentRight
  <2> QED
    BY <1>1, <2>3, <2>4, AnsweredClear
<1> QED
  BY <1>2, <1>3

LEMMA ReadClear ==
  ASSUME Counted, Clear, NEW bytes \in Chunks, Read(bytes)
  PROVE  Clear'
<1>1. /\ request' = request /\ ours' = FALSE /\ Open(request) /\ request \in Requests
      /\ point = "reading" /\ taken' <= BodyLength(request)
  BY DEF Read, Clear, Counted, Open
<1>2. CASE point' = "reading"
  BY <1>1, <1>2, OnwardClear
<1>3. CASE point' # "reading"
  <2>1. taken' > limit(request.door) /\ Raised(refuse(request))
    BY <1>1, <1>3 DEF Read
  <2>2. refuse(request) = ApiError(413, "too_large")
    BY <1>1, RefusalIs DEF Open
  <2>3. point' = "answered" /\ answer'.reason = "too_large"
    BY <2>1, <2>2, OursRaised
  <2>4. TooBig(request)
    <3>1. /\ taken \in Nat /\ bytes \in Nat /\ taken' = taken + bytes
          /\ limit(request.door) \in Nat /\ BodyLength(request) \in Nat
      BY <1>1, LimitTyped, RequestTyped, IntakeAssumption DEF Counted, Read
    <3> QED
      BY <1>1, <2>1, <3>1 DEF TooBig
  <2>5. Right(request, FALSE, answer')
    BY <1>1, <2>3, <2>4, RefusedRight
  <2> QED
    BY <1>1, <2>3, <2>5, AnsweredClear
<1> QED
  BY <1>2, <1>3

(* A form that breaks, a disk that fills, a file that cannot be stored, a  *)
(* prober that is not there.                                               *)
LEMMA BreakClear ==
  ASSUME Counted, Clear, BreaksOff \/ SpoolFails \/ ReceiveFails \/ ProbeMissing
  PROVE  Clear'
<1>1. request' = request /\ request.door = "/jobs" /\ request \in Requests
  BY DEF BreaksOff, SpoolFails, ReceiveFails, ProbeMissing, Counted
<1>2. Open(request)
  BY <1>1 DEF Open
<1>3. CASE BreaksOff
  <2>1. ours' = FALSE /\ request.form # "whole" /\ Raised(InvalidMultipart)
    BY <1>3 DEF BreaksOff, Clear
  <2>2. point' = "answered" /\ answer'.reason = "unsupported_format"
    BY <1>1, <2>1, OursRaised
  <2>3. Right(request, FALSE, answer')
    BY <1>1, <1>2, <2>1, <2>2, RefusedRight
  <2> QED
    BY <1>1, <2>1, <2>2, <2>3, AnsweredClear
<1>4. CASE SpoolFails \/ ReceiveFails \/ ProbeMissing
  <2>1. ours' = TRUE
    BY <1>4 DEF SpoolFails, ReceiveFails, ProbeMissing
  <2>2. \/ Raised(Unread("OSError")) \/ Raised(Unexpected)
        \/ Raised(ApiError(503, "internal"))
    BY <1>4 DEF SpoolFails, ReceiveFails, ProbeMissing
  <2>3. point' = "answered" /\ answer'.reason = "internal"
    BY <1>1, <2>2, OursRaised
  <2>4. Right(request, TRUE, answer')
    BY <1>2, <2>3, RefusedRight
  <2> QED
    BY <1>1, <2>1, <2>3, <2>4, AnsweredClear
<1> QED
  BY <1>3, <1>4

LEMMA ParseClear ==
  ASSUME Counted, Clear, Parse
  PROVE  Clear'
<1>1. /\ request' = request /\ ours' = FALSE /\ Open(request) /\ request \in Requests
      /\ BodyLength(request) <= limit(request.door) /\ request.links
      /\ request.door # "elsewhere"
  BY DEF Parse, Clear, Counted, Open
<1>2. Uploaded(request) \/ Pasted(request)
  BY <1>1, RequestsAre DEF Missent
<1>3. CASE Uploaded(request)
  <2>1. request.door = "/jobs" /\ request.form \in Form
    BY <1>3 DEF Uploaded
  <2>2. CASE request.form = "whole"
    <3>1. point' = "receive"
      BY <2>1, <2>2 DEF Parse, Onward
    <3> QED
      BY <1>1, <2>2, <3>1, OnwardClear
  <2>3. CASE request.form # "whole"
    <3>1. Raised(InvalidMultipart) \/ Raised(RequestValidationError)
      BY <2>1, <2>3 DEF Parse, Form
    <3>2. point' = "answered" /\ answer'.reason = "unsupported_format"
      BY <2>1, <3>1, OursRaised
    <3>3. Right(request, FALSE, answer')
      BY <1>1, <2>1, <2>3, <3>2, RefusedRight
    <3> QED
      BY <1>1, <3>2, <3>3, AnsweredClear
  <2> QED
    BY <2>2, <2>3
<1>4. CASE Pasted(request)
  <2>1. request.door = "/jobs/from-url" /\ request.form \in Form
    BY <1>4 DEF Pasted
  <2>2. CASE request.form = "whole" /\ request.link.text # "long"
    <3>1. point' = "parse"
      BY <2>1, <2>2 DEF Parse, Onward
    <3> QED
      BY <1>1, <2>1, <2>2, <3>1, OnwardClear
  <2>3. CASE request.form # "whole" \/ request.link.text = "long"
    <3>1. Raised(Unread("ValueError")) \/ Raised(RequestValidationError)
      BY <2>1, <2>3 DEF Parse, Form
    <3>2. point' = "answered" /\ answer'.reason = "unsupported_link"
      BY <2>1, <3>1, OursRaised
    <3>3. request.form = "whole" => ~Plain(request.link)
      BY <2>3 DEF Plain
    <3>4. Right(request, FALSE, answer')
      BY <1>1, <2>1, <3>2, <3>3, RefusedRight
    <3> QED
      BY <1>1, <3>2, <3>4, AnsweredClear
  <2> QED
    BY <2>2, <2>3
<1> QED
  BY <1>2, <1>3, <1>4

LEMMA ReceiveClear ==
  ASSUME Counted, Clear, Receive
  PROVE  Clear'
<1>1. /\ request' = request /\ ours' = FALSE /\ request \in Requests
      /\ request.door = "/jobs" /\ request.form = "whole"
      /\ BodyLength(request) <= limit(request.door)
  BY DEF Receive, Clear, Counted
<1>2. Open(request)
  BY <1>1 DEF Open
<1>3. request.file \in Nat /\ MaxUpload \in Nat \ {0}
  BY <1>1, RequestTyped, IntakeAssumption
<1>4. CASE request.file > MaxUpload
  <2>1. Raised(ApiError(413, "too_large"))
    <3>1. request.file # 0 /\ request.file \notin 1..MaxUpload
      BY <1>3, <1>4
    <3> QED
      BY <1>4, <3>1 DEF Receive
  <2>2. point' = "answered" /\ answer'.reason = "too_large"
    BY <2>1, OursRaised
  <2>3. Right(request, FALSE, answer')
    BY <1>2, <1>4, <2>2, RefusedRight DEF TooBig
  <2> QED
    BY <1>1, <2>2, <2>3, AnsweredClear
<1>5. CASE request.file = 0
  <2>1. Raised(ApiError(422, "unsupported_format"))
    BY <1>3, <1>5 DEF Receive
  <2>2. point' = "answered" /\ answer'.reason = "unsupported_format"
    BY <2>1, OursRaised
  <2>3. Right(request, FALSE, answer')
    BY <1>1, <1>2, <1>5, <2>2, RefusedRight
  <2> QED
    BY <1>1, <2>2, <2>3, AnsweredClear
<1>6. CASE request.file \in 1..MaxUpload
  <2>1. point' = "probe"
    <3>1. request.file # 0 /\ ~(request.file > MaxUpload)
      BY <1>3, <1>6
    <3> QED
      BY <1>6, <3>1 DEF Receive, Onward
  <2> QED
    BY <1>1, <1>6, <2>1, OnwardClear
<1> QED
  BY <1>3, <1>4, <1>5, <1>6

LEMMA ProbeClear ==
  ASSUME Counted, Clear, Probe
  PROVE  Clear'
<1>1. /\ request' = request /\ ours' = FALSE /\ request \in Requests
      /\ request.door = "/jobs" /\ request.form = "whole"
      /\ request.file \in 1..MaxUpload /\ BodyLength(request) <= limit(request.door)
  BY DEF Probe, Clear, Counted
<1>2. Open(request)
  BY <1>1 DEF Open
<1>3. request.audio \in {"sound", "unreadable", "no length", "too long"}
  BY <1>1, RequestsAre DEF Uploaded, Pasted, Missent
<1>4. CASE request.audio \in {"unreadable", "no length"}
  <2>1. Raised(ApiError(422, "unsupported_format"))
    BY <1>4 DEF Probe
  <2>2. point' = "answered" /\ answer'.reason = "unsupported_format"
    BY <2>1, OursRaised
  <2>3. Right(request, FALSE, answer')
    BY <1>1, <1>2, <1>4, <2>2, RefusedRight
  <2> QED
    BY <1>1, <2>2, <2>3, AnsweredClear
<1>5. CASE request.audio = "too long"
  <2>1. Raised(ApiError(422, "too_long"))
    BY <1>5 DEF Probe
  <2>2. point' = "answered" /\ answer'.reason = "too_long"
    BY <2>1, OursRaised
  <2>3. Right(request, FALSE, answer')
    BY <1>2, <1>5, <2>2, RefusedRight
  <2> QED
    BY <1>1, <2>2, <2>3, AnsweredClear
<1>6. CASE request.audio = "sound"
  <2>1. point' = "answered" /\ answer' = Accepted("the file")
    BY <1>6 DEF Probe, Answered
  <2>2. request.file > 0 /\ ~TooBig(request)
    <3>1. /\ request.file \in Nat /\ BodyLength(request) \in Nat
          /\ limit(request.door) \in Nat /\ MaxUpload \in Nat
      BY <1>1, RequestTyped, LimitTyped, IntakeAssumption
    <3> QED
      BY <1>1, <3>1 DEF TooBig
  <2>3. Right(request, FALSE, Accepted("the file"))
    BY <1>1, <1>2, <1>6, <2>2, AcceptedRight
  <2> QED
    BY <1>1, <2>1, <2>3, AnsweredClear
<1> QED
  BY <1>3, <1>4, <1>5, <1>6

LEMMA ParseLinkClear ==
  ASSUME Counted, Clear, ParseLink
  PROVE  Clear'
<1> DEFINE song == parse(request.link)
<1>1. /\ request' = request /\ ours' = FALSE /\ request \in Requests
      /\ request.door = "/jobs/from-url" /\ request.links /\ request.form = "whole"
      /\ BodyLength(request) <= limit(request.door)
  BY DEF ParseLink, Clear, Counted
<1>2. Open(request)
  BY <1>1 DEF Open
<1>3. request.file = 0 /\ request.link \in RawLinks
  BY <1>1, RequestsAre DEF Uploaded, Pasted, Missent
<1>4. CASE song \in RefusalKind
  <2>1. Raised(ApiError(422, "unsupported_link"))
    BY <1>4 DEF ParseLink
  <2>2. point' = "answered" /\ answer'.reason = "unsupported_link"
    BY <2>1, OursRaised
  <2>3. ~Plain(request.link)
    BY <1>3, <1>4, ParsedRight
  <2>4. Right(request, FALSE, answer')
    BY <1>1, <1>2, <2>2, <2>3, RefusedRight
  <2> QED
    BY <1>1, <2>2, <2>4, AnsweredClear
<1>5. CASE song \notin RefusalKind
  <2>1. point' = "answered" /\ answer' = Accepted(song)
    BY <1>5 DEF ParseLink, Answered
  <2>2. song = request.link.opens /\ request.link.opens # NoVideo
    BY <1>3, <1>5, ParsedRight
  <2>3. ~TooBig(request)
    <3>1. /\ BodyLength(request) \in Nat /\ limit(request.door) \in Nat /\ MaxUpload \in Nat
      BY <1>1, RequestTyped, LimitTyped, IntakeAssumption
    <3> QED
      BY <1>1, <1>3, <3>1 DEF TooBig
  <2>4. Right(request, FALSE, Accepted(song))
    BY <1>1, <1>2, <2>2, <2>3, AcceptedRight
  <2> QED
    BY <1>1, <2>1, <2>4, AnsweredClear
<1> QED
  BY <1>4, <1>5

(* At every step.                                                          *)
LEMMA ClearHolds == IntakeSpec => []Clear
<1>1. IntakeInit => Clear
  BY DEF IntakeInit, Clear, AnsweredRight
<1>2. Counted /\ Clear /\ [IntakeNext]_intakeVars => Clear'
  <2> SUFFICES ASSUME Counted, Clear, [IntakeNext]_intakeVars  PROVE Clear'
    OBVIOUS
  <2>1. CASE UNCHANGED intakeVars
    BY <2>1 DEF intakeVars, Clear, AnsweredRight
  <2> QED
    BY <2>1, CheckLengthClear, RouteClear, ReadClear, BreakClear, ParseClear, ReceiveClear,
       ProbeClear, ParseLinkClear DEF IntakeNext
<1> QED
  BY <1>1, <1>2, CountedHolds, PTL DEF IntakeSpec

(* Whoever's the fault is, is told so, each refusal is true of what was    *)
(* sent, and what is accepted is what was sent (install_error_handlers,    *)
(* _LinkRoute, UploadSizeLimit, receive, _probe, parse).                   *)
THEOREM Answers == IntakeSpec => []AnsweredRight
<1>1. Clear => AnsweredRight
  BY DEF Clear
<1> QED
  BY <1>1, ClearHolds, PTL

-----------------------------------------------------------------------------
(* Creation.  For every set of callers, ids, hashes and addresses, every   *)
(* limit and every number of rounds: the statements of `create` implement  *)
(* the record of JobRecord.                                                *)

StatusOK ==
  standing \in [Ids -> {"absent", "queued", "running", "succeeded", "failed"}]

TypeOK ==
  /\ StatusOK
  /\ started \in [Ids -> Nat]
  /\ hashOf \in [Ids -> Hashes \cup {Nobody}]
  /\ ipOf \in [Ids -> Addresses \cup {Nobody}]
  /\ at \in [Callers -> {"begin"} \cup InTransaction \cup Ends]
  /\ want \in [Callers -> Hashes] /\ from \in [Callers -> Addresses]
  /\ drawn \in [Callers -> Ids \cup {Nobody}]
  /\ round \in [Callers -> Nat]
  /\ held \in [Addresses -> Callers \cup {Nobody}]

(* A transaction holds its address's lock while it lasts.                  *)
Locked == \A c \in Callers : at[c] \in InTransaction => held[from[c]] = c

(* Who has counted may still insert: the holder of the lock alone adds     *)
(* rows of the address.                                                    *)
Room ==
  \A c \in Callers :
    at[c] \in {"insert", "commit"} => Cardinality(ActiveFrom(from[c])) < MaxActive

(* An inserted row is the only one to come of its hash, and has its id.    *)
Alone ==
  \A c \in Callers : at[c] = "commit" =>
    /\ drawn[c] \in Ids /\ standing[drawn[c]] = "absent"
    /\ LiveFor(want[c]) = {}
    /\ \A d \in Callers \ {c} :
         at[d] = "commit" => drawn[d] # drawn[c] /\ want[d] # want[c]

CreationInv == TypeOK /\ Locked /\ Room /\ Alone

-----------------------------------------------------------------------------
(* Fewer active rows leave as much room.                                   *)
LEMMA RoomKept ==
  ASSUME NEW ip, ActiveFrom(ip)' \subseteq ActiveFrom(ip),
         Cardinality(ActiveFrom(ip)) < MaxActive
  PROVE  Cardinality(ActiveFrom(ip)') < MaxActive
  <1>1. IsFiniteSet(ActiveFrom(ip))
    BY CreationAssumption, FS_Subset DEF ActiveFrom
  <1>2. /\ IsFiniteSet(ActiveFrom(ip)')
        /\ Cardinality(ActiveFrom(ip)') <= Cardinality(ActiveFrom(ip))
    BY <1>1, FS_Subset
  <1>3. Cardinality(ActiveFrom(ip)) \in Nat /\ Cardinality(ActiveFrom(ip)') \in Nat
    BY <1>1, <1>2, FS_CardinalityType
  <1>4. MaxActive \in Nat
    BY CreationAssumption
  <1>5. QED
    BY <1>2, <1>3, <1>4

Points == {"begin"} \cup InTransaction \cup Ends

LEMMA GoesType ==
  ASSUME TypeOK, NEW c \in Callers, NEW spot \in Points, Goes(c, spot)
  PROVE  /\ at' \in [Callers -> Points]
         /\ want' \in [Callers -> Hashes] /\ from' \in [Callers -> Addresses]
  BY DEF TypeOK, Points, Goes

LEMMA LeavesType ==
  ASSUME TypeOK, NEW c \in Callers, NEW spot \in Points, Leaves(c, spot)
  PROVE  /\ at' \in [Callers -> Points]
         /\ want' \in [Callers -> Hashes] /\ from' \in [Callers -> Addresses]
         /\ drawn' \in [Callers -> Ids \cup {Nobody}]
         /\ held' \in [Addresses -> Callers \cup {Nobody}]
  <1>1. Goes(c, spot)
    BY DEF Leaves
  <1>2. QED
    BY <1>1, GoesType DEF TypeOK, Leaves

(* A step of a caller that commits nothing.                                *)
Calls(c) == Begin(c) \/ Look(c) \/ Count(c) \/ Insert(c) \/ Reread(c) \/ Breaks(c)

LEMMA CallsType ==
  ASSUME TypeOK, NEW c \in Callers, Calls(c)
  PROVE  TypeOK'
  <1>1. Points = {"begin", "look", "count", "insert", "commit", "reread",
                  "created", "found", "refused", "gave up", "broken"}
    BY DEF Points, InTransaction, Ends
  <1>2. UNCHANGED tableVars
    BY DEF Calls, Begin, Look, Count, Insert, Reread, Breaks
  <1>3. /\ at' \in [Callers -> Points]
        /\ want' \in [Callers -> Hashes] /\ from' \in [Callers -> Addresses]
    BY <1>1, GoesType, LeavesType DEF Calls, Begin, Look, Count, Insert, Reread, Breaks
  <1>4. drawn' \in [Callers -> Ids \cup {Nobody}]
    BY <1>1, LeavesType DEF TypeOK, Calls, Begin, Look, Count, Insert, Reread, Breaks
  <1>5. held' \in [Addresses -> Callers \cup {Nobody}]
    <2>1. CASE Begin(c)
      BY <2>1 DEF TypeOK, Begin
    <2>2. CASE ~Begin(c)
      BY <1>1, <2>2, LeavesType DEF TypeOK, Calls, Look, Count, Insert, Reread, Breaks
    <2>3. QED
      BY <2>1, <2>2
  <1>6. round' \in [Callers -> Nat]
    <2>1. CASE Reread(c)
      <3>1. round' = round \/ round' = [round EXCEPT ![c] = round[c] + 1]
        BY <2>1 DEF Reread
      <3>2. round \in [Callers -> Nat] /\ round[c] + 1 \in Nat
        BY DEF TypeOK
      <3>3. QED
        BY <3>1, <3>2
    <2>2. CASE ~Reread(c)
      BY <2>2 DEF TypeOK, Calls, Begin, Look, Count, Insert, Breaks
    <2>3. QED
      BY <2>1, <2>2
  <1>7. QED
    BY <1>2, <1>3, <1>4, <1>5, <1>6 DEF TypeOK, StatusOK, tableVars, Points

LEMMA CommitType ==
  ASSUME TypeOK, Alone, NEW c \in Callers, Commit(c)
  PROVE  TypeOK'
  <1>1. drawn[c] \in Ids /\ want[c] \in Hashes /\ from[c] \in Addresses
    BY DEF TypeOK, Alone, Commit
  <1>2. /\ StatusOK' /\ started' \in [Ids -> Nat]
        /\ hashOf' \in [Ids -> Hashes \cup {Nobody}]
        /\ ipOf' \in [Ids -> Addresses \cup {Nobody}]
        /\ round' \in [Callers -> Nat]
    BY <1>1 DEF TypeOK, StatusOK, Commit
  <1>3. Leaves(c, "created") \/ Leaves(c, "broken")
    BY DEF Commit
  <1>4. {"created", "broken"} \subseteq Points
    BY DEF Points, Ends
  <1>5. /\ at' \in [Callers -> Points]
        /\ want' \in [Callers -> Hashes] /\ from' \in [Callers -> Addresses]
        /\ drawn' \in [Callers -> Ids \cup {Nobody}]
        /\ held' \in [Addresses -> Callers \cup {Nobody}]
    BY <1>3, <1>4, LeavesType
  <1>6. QED
    BY <1>2, <1>5 DEF TypeOK, Points

Moves(j) == Taken(j) \/ Ended(j, "succeeded") \/ Ended(j, "failed")

LEMMA MovesType ==
  ASSUME TypeOK, NEW j \in Ids, Moves(j)
  PROVE  TypeOK'
  BY DEF TypeOK, StatusOK, Moves, Taken, Ended

-----------------------------------------------------------------------------
(* The three parts of the invariant.                                       *)

LEMMA LockedStep ==
  ASSUME TypeOK, Locked, NEW c \in Callers, Calls(c) \/ Commit(c)
  PROVE  Locked'
  <1> SUFFICES ASSUME NEW d \in Callers, at'[d] \in InTransaction
               PROVE  held'[from'[d]] = d
    BY DEF Locked
  <1>1. UNCHANGED from
    BY DEF Calls, Begin, Look, Count, Insert, Reread, Breaks, Commit, Goes, Leaves
  <1>2. c \notin {Nobody} /\ d # Nobody
    BY CreationAssumption
  <1>3. CASE Begin(c)
    <2>1. CASE d = c
      BY <1>1, <1>3, <2>1 DEF Begin, TypeOK
    <2>2. CASE d # c
      <3>1. at[d] \in InTransaction
        BY <1>3, <2>2 DEF Begin, Goes, TypeOK
      <3>2. held[from[d]] = d /\ from[d] # from[c]
        BY <3>1, <1>3, <1>2 DEF Locked, Begin
      <3>3. QED
        BY <1>1, <1>3, <3>2 DEF Begin, TypeOK
    <2>3. QED
      BY <2>1, <2>2
  <1>4. CASE \E spot \in {"begin"} \cup Ends : at[c] \in InTransaction /\ Leaves(c, spot)
    <2>1. d # c /\ at[d] \in InTransaction
      BY <1>4 DEF Leaves, Goes, TypeOK, InTransaction, Ends
    <2>2. held[from[d]] = d /\ from[d] # from[c]
      BY <2>1, <1>4 DEF Locked
    <2>3. QED
      BY <1>1, <1>4, <2>2 DEF Leaves, TypeOK
  <1>5. CASE /\ at[c] \in InTransaction /\ UNCHANGED held
             /\ \E spot \in InTransaction : Goes(c, spot)
    <2>1. at[d] \in InTransaction
      BY <1>5 DEF Goes, TypeOK
    <2>2. QED
      BY <1>1, <1>5, <2>1 DEF Locked
  <1>6. QED
    BY <1>3, <1>4, <1>5
    DEF Calls, Look, Count, Insert, Reread, Breaks, Commit, InTransaction, Ends

(* Two callers of one address are not in their transactions together.      *)
LEMMA OneByOne ==
  ASSUME Locked, NEW c \in Callers, NEW d \in Callers \ {c},
         at[c] \in InTransaction, at[d] \in InTransaction
  PROVE  from[c] # from[d]
  BY DEF Locked

LEMMA RoomCalls ==
  ASSUME TypeOK, Room, NEW c \in Callers, Calls(c)
  PROVE  Room'
  <1> SUFFICES ASSUME NEW d \in Callers, at'[d] \in {"insert", "commit"}
               PROVE  Cardinality(ActiveFrom(from[d])) < MaxActive
    BY ZenonT(40) DEF Room, Calls, Begin, Look, Count, Insert, Reread, Breaks, Goes, Leaves,
           ActiveFrom, tableVars
  <1>1. CASE at[d] \in {"insert", "commit"}
    BY <1>1 DEF Room
  <1>2. CASE at[d] \notin {"insert", "commit"}
    <2>1. d = c /\ Count(c) /\ Goes(c, "insert")
      BY <1>2 DEF TypeOK, Calls, Begin, Look, Count, Insert, Reread, Breaks, Goes, Leaves
    <2>2. ~Leaves(c, "refused")
      BY <2>1 DEF Goes, Leaves, TypeOK
    <2>3. QED
      BY <2>1, <2>2 DEF Count
  <1>3. QED
    BY <1>1, <1>2

LEMMA AloneCalls ==
  ASSUME TypeOK, Alone, NEW c \in Callers, Calls(c)
  PROVE  Alone'
  <1>1. UNCHANGED tableVars /\ UNCHANGED want
    BY DEF Calls, Begin, Look, Count, Insert, Reread, Breaks, Goes, Leaves
  <1>2. \A hash : LiveFor(hash)' = LiveFor(hash)
    BY <1>1 DEF LiveFor, tableVars
  <1>3. CASE Insert(c) /\ Goes(c, "commit")
    <2>1. PICK j \in Ids : /\ standing[j] = "absent"
                            /\ \A d \in Callers : drawn[d] # j
                            /\ drawn' = [drawn EXCEPT ![c] = j]
      BY <1>3 DEF Insert, Goes, TypeOK
    <2>2. LiveFor(want[c]) = {}
      BY <1>3 DEF Insert, Goes, TypeOK
    <2>3. \A d \in Callers : at[d] = "commit" => want[d] # want[c]
      BY <1>3 DEF Insert
    <2>4. \A d \in Callers \ {c} : at'[d] = at[d] /\ drawn'[d] = drawn[d]
      BY <1>3, <2>1 DEF Goes, TypeOK
    <2>5. drawn'[c] = j
      BY <2>1 DEF TypeOK
    <2>6. QED
      BY <1>1, <1>2, <2>1, <2>2, <2>3, <2>4, <2>5 DEF Alone, tableVars
  <1>4. CASE ~(Insert(c) /\ Goes(c, "commit"))
    <2>1. \A d \in Callers : at'[d] = "commit" => at[d] = "commit" /\ drawn'[d] = drawn[d]
      BY <1>4 DEF TypeOK, Calls, Begin, Look, Count, Insert, Reread, Breaks, Goes, Leaves
    <2>2. QED
      BY <1>1, <1>2, <2>1 DEF Alone, tableVars
  <1>5. QED
    BY <1>3, <1>4

(* A committed row is of an address that nobody else has counted, and of a *)
(* hash that nobody else is about to commit.                               *)
LEMMA CommitKeeps ==
  ASSUME CreationInv, NEW c \in Callers, Commit(c)
  PROVE  Room' /\ Alone'
  <1>1. /\ drawn[c] \in Ids /\ at[c] \in InTransaction
        /\ UNCHANGED <<want, from>>
    BY DEF CreationInv, TypeOK, Alone, Commit, InTransaction, Leaves, Goes
  <1>2. /\ standing' = [standing EXCEPT ![drawn[c]] = "queued"]
        /\ hashOf' = [hashOf EXCEPT ![drawn[c]] = want[c]]
        /\ ipOf' = [ipOf EXCEPT ![drawn[c]] = from[c]]
    BY DEF Commit
  <1>3. \A d \in Callers : at'[d] \in {"insert", "commit"} =>
          d # c /\ at'[d] = at[d] /\ drawn'[d] = drawn[d]
    BY DEF CreationInv, TypeOK, Commit, Leaves, Goes
  <1>4. Room'
    <2> SUFFICES ASSUME NEW d \in Callers, at'[d] \in {"insert", "commit"},
                        NEW ip, ip = from[d]
                 PROVE  Cardinality(ActiveFrom(ip)') < MaxActive
      BY <1>1 DEF Room, ActiveFrom
    <2>1. d # c /\ at[d] \in {"insert", "commit"}
      BY <1>3
    <2>2. from[c] # from[d]
      BY <1>1, <2>1, OneByOne DEF CreationInv, InTransaction
    <2>3. ActiveFrom(ip)' \subseteq ActiveFrom(ip)
      BY <1>1, <1>2, <2>2 DEF ActiveFrom, CreationInv, TypeOK, StatusOK
    <2>4. Cardinality(ActiveFrom(ip)) < MaxActive
      BY <2>1 DEF CreationInv, Room
    <2>5. QED
      BY <2>3, <2>4, RoomKept
  <1>5. Alone'
    <2> SUFFICES ASSUME NEW d \in Callers, at'[d] = "commit"
                 PROVE  /\ drawn'[d] \in Ids /\ standing'[drawn'[d]] = "absent"
                        /\ LiveFor(want[d])' = {}
                        /\ \A e \in Callers \ {d} :
                             at'[e] = "commit" => drawn'[e] # drawn'[d] /\ want[e] # want[d]
      BY <1>1 DEF Alone, LiveFor
    <2>1. d # c /\ at[d] = "commit" /\ at[c] = "commit" /\ drawn'[d] = drawn[d]
      BY <1>3 DEF Commit
    <2>2. /\ drawn[d] \in Ids /\ drawn[d] # drawn[c] /\ want[d] # want[c]
          /\ standing[drawn[d]] = "absent" /\ LiveFor(want[d]) = {}
      BY <2>1 DEF CreationInv, Alone
    <2>3. standing'[drawn[d]] = "absent"
      BY <1>2, <2>2 DEF CreationInv, TypeOK, StatusOK
    <2>4. LiveFor(want[d])' = {}
      <3>1. \A j \in Ids : j # drawn[c] => standing'[j] = standing[j] /\ hashOf'[j] = hashOf[j]
        BY <1>1, <1>2 DEF CreationInv, TypeOK, StatusOK
      <3>2. hashOf'[drawn[c]] = want[c]
        BY <1>1, <1>2 DEF CreationInv, TypeOK
      <3>3. LiveFor(want[d])' \subseteq LiveFor(want[d])
        BY <1>1, <2>2, <3>1, <3>2 DEF LiveFor
      <3>4. QED
        BY <2>2, <3>3
    <2>5. \A e \in Callers \ {d} :
            at'[e] = "commit" => drawn'[e] # drawn[d] /\ want[e] # want[d]
      BY <1>3, <2>1 DEF CreationInv, Alone
    <2>6. QED
      BY <2>1, <2>2, <2>3, <2>4, <2>5
  <1>6. QED
    BY <1>4, <1>5

(* A row that moves on was there already.                                  *)
LEMMA MovesKeep ==
  ASSUME CreationInv, NEW j \in Ids, Moves(j)
  PROVE  Locked' /\ Room' /\ Alone'
  <1>1. UNCHANGED <<hashOf, ipOf, at, want, from, drawn, held>>
    BY DEF Moves, Taken, Ended
  <1>2. /\ standing[j] \in {"queued", "running"}
        /\ \A i \in Ids \ {j} : standing'[i] = standing[i]
    BY DEF Moves, Taken, Ended, CreationInv, TypeOK, StatusOK
  <1>3. \A ip : ActiveFrom(ip)' \subseteq ActiveFrom(ip)
    BY <1>1, <1>2 DEF ActiveFrom
  <1>5. Locked'
    BY <1>1 DEF CreationInv, Locked
  <1>6. Room'
    <2> SUFFICES ASSUME NEW d \in Callers, at[d] \in {"insert", "commit"},
                        NEW ip, ip = from[d]
                 PROVE  Cardinality(ActiveFrom(ip)') < MaxActive
      BY <1>1 DEF Room, ActiveFrom
    <2>1. Cardinality(ActiveFrom(ip)) < MaxActive
      BY DEF CreationInv, Room
    <2>2. QED
      BY <1>3, <2>1, RoomKept
  <1>7. Alone'
    <2> SUFFICES ASSUME NEW d \in Callers, at[d] = "commit"
                 PROVE  /\ drawn[d] \in Ids /\ standing'[drawn[d]] = "absent"
                        /\ LiveFor(want[d])' = {}
                        /\ \A e \in Callers \ {d} :
                             at[e] = "commit" => drawn[e] # drawn[d] /\ want[e] # want[d]
      BY <1>1 DEF Alone, LiveFor
    <2>1. /\ drawn[d] \in Ids /\ standing[drawn[d]] = "absent" /\ LiveFor(want[d]) = {}
          /\ \A e \in Callers \ {d} :
               at[e] = "commit" => drawn[e] # drawn[d] /\ want[e] # want[d]
      BY DEF CreationInv, Alone
    <2>2. standing'[drawn[d]] = "absent"
      BY <1>2, <2>1
    <2>3. LiveFor(want[d])' = {}
      BY <1>1, <1>2, <2>1 DEF LiveFor
    <2>4. QED
      BY <2>1, <2>2, <2>3
  <1>8. QED
    BY <1>5, <1>6, <1>7

LEMMA InvInitially == CreationInit => CreationInv
  <1> SUFFICES ASSUME CreationInit
               PROVE  CreationInv
    OBVIOUS
  <1>1. TypeOK
    BY DEF CreationInit, TypeOK, StatusOK
  <1>2. \A c \in Callers : at[c] = "begin"
    BY DEF CreationInit
  <1>3. QED
    BY <1>1, <1>2 DEF CreationInv, Locked, Room, Alone, InTransaction

LEMMA InvStep == CreationInv /\ [CreationNext]_creationVars => CreationInv'
  <1> SUFFICES ASSUME CreationInv, [CreationNext]_creationVars
               PROVE  CreationInv'
    OBVIOUS
  <1>1. CASE \E c \in Callers : Calls(c)
    BY <1>1, CallsType, LockedStep, RoomCalls, AloneCalls DEF CreationInv
  <1>2. CASE \E c \in Callers : Commit(c)
    BY <1>2, CommitType, LockedStep, CommitKeeps DEF CreationInv
  <1>3. CASE \E j \in Ids : Moves(j)
    BY <1>3, MovesType, MovesKeep DEF CreationInv
  <1>4. CASE UNCHANGED creationVars
    BY <1>4 DEF CreationInv, TypeOK, StatusOK, Locked, Room, Alone, LiveFor, ActiveFrom,
                creationVars
  <1>5. QED
    BY <1>1, <1>2, <1>3, <1>4 DEF CreationNext, Calls, Moves

-----------------------------------------------------------------------------
(* Each call of create, statement by statement, does to the table what one *)
(* step of the record does: a commit is its Submit, and every other        *)
(* statement leaves the table alone (PostgresJobStore.create).             *)
THEOREM Atomic == CreationSpec => CreateAtomic
  <1>1. CreationInit => Record!Init
    BY DEF CreationInit, Record!Init
  <1>2. CreationInv /\ [CreationNext]_creationVars => [Record!Next]_Record!vars
    <2> SUFFICES ASSUME CreationInv, [CreationNext]_creationVars
                 PROVE  [Record!Next]_Record!vars
      OBVIOUS
    <2>1. CASE \E c \in Callers : Calls(c)
      BY <2>1 DEF Calls, Begin, Look, Count, Insert, Reread, Breaks, tableVars, Record!vars
    <2>2. CASE \E c \in Callers : Commit(c)
      <3>1. PICK c \in Callers : Commit(c)
        BY <2>2
      <3>2. /\ at[c] = "commit" /\ want[c] \in Hashes /\ from[c] \in Addresses
            /\ drawn[c] \in Ids /\ standing[drawn[c]] = "absent"
            /\ LiveFor(want[c]) = {}
            /\ Cardinality(ActiveFrom(from[c])) < MaxActive
        BY <3>1 DEF Commit, CreationInv, TypeOK, Room, Alone
      <3>3. \A i \in Ids : ~(Record!IsLive(i) /\ hashOf[i] = want[c])
        BY <3>2 DEF LiveFor, Record!IsLive
      <3>4. Cardinality({i \in Ids : Record!IsActive(i) /\ ipOf[i] = from[c]}) < MaxActive
        BY <3>2 DEF ActiveFrom, Record!IsActive
      <3>5. Record!Submit(drawn[c], want[c], from[c])
        <4>1. /\ standing' = [standing EXCEPT ![drawn[c]] = "queued"]
              /\ started' = [started EXCEPT ![drawn[c]] = 0]
              /\ hashOf' = [hashOf EXCEPT ![drawn[c]] = want[c]]
              /\ ipOf' = [ipOf EXCEPT ![drawn[c]] = from[c]]
          BY <3>1 DEF Commit
        <4>2. \A S : Record!Cardinality(S) = Cardinality(S)
          BY DEF Record!Cardinality, Cardinality
        <4>3. QED
          BY <3>2, <3>3, <3>4, <4>1, <4>2 DEF Record!Submit
      <3>6. QED
        BY <3>2, <3>5 DEF Record!Next
    <2>3. CASE \E j \in Ids : Moves(j)
      <3>1. PICK j \in Ids : Moves(j)
        BY <2>3
      <3>2. CASE Taken(j)
        BY <3>2 DEF Taken, Record!StartAttempt, Record!Move, Record!Next
      <3>3. CASE Ended(j, "succeeded")
        BY <3>3 DEF Ended, Record!Finish, Record!Move, Record!Next
      <3>4. CASE Ended(j, "failed")
        BY <3>4 DEF Ended, Record!GiveUp, Record!Move, Record!Next
      <3>5. QED
        BY <3>1, <3>2, <3>3, <3>4 DEF Moves
    <2>4. CASE UNCHANGED creationVars
      BY <2>4 DEF creationVars, Record!vars
    <2>5. QED
      BY <2>1, <2>2, <2>3, <2>4 DEF CreationNext, Calls, Moves
  <1>3. QED
    BY <1>1, <1>2, InvInitially, InvStep, PTL DEF CreationSpec, CreateAtomic, Record!Spec
=============================================================================
