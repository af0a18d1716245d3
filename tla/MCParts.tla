------------------------------ MODULE MCParts -------------------------------
(***************************************************************************)
(* The parts that share no state with each other, checked in one run: the  *)
(* worker's stages, what the page makes of a document, a request's way     *)
(* in, the creation of its row, and what is made of a link.  A behaviour   *)
(* is of one of them; the others rest.                                     *)
(***************************************************************************)
EXTENDS Fretboard, Separation, Transcription, Structure, Views, MediaClock,
        LinkFetch, Intake, Creation

VARIABLE part

doorVars == <<linkVars, intakeVars, creationVars>>

partsVars ==
  <<part, vars, separationVars, transcriptionVars, structureVars, viewsVars, clockVars,
    doorVars>>

-----------------------------------------------------------------------------
(* The mapper.  Five strings of a guitar, from the lowest; times in        *)
(* hundredths of a second, costs in tenths: the defaults of MapperCosts,   *)
(* with a beam that some chords of three notes overfill.                   *)
MCTuning == <<0, 5, 10, 15, 19>>
MCCosts ==
  [move_weight |-> 10, span_weight |-> 5, height_weight |-> 0,
   open_reach |-> 4, open_weight |-> 2, ring_weight |-> 20,
   ring_tolerance |-> 10, gap_weight |-> 6, max_fret |-> 20,
   max_span |-> 4, hand_window |-> 4, beam |-> 8]

Note(onset, length, midi, confidence) ==
  [onset |-> onset, duration |-> length, midi |-> midi,
   confidence |-> confidence]

(* Melodies whose notes stop, or ring on under the next.                   *)
Melodies(Length, lengths, pitches) ==
  UNION {{[k \in 1..n |-> Note(30 * k, sound[k][1], sound[k][2], 1)] :
            sound \in [1..n -> lengths \X pitches]} :
         n \in 0..Length}

(* Chords, arpeggios and runs, in any order: some out of range, or of      *)
(* notes no hand reaches together.                                         *)
Chords(Length) ==
  SeqOf({Note(o, 20, s[1], s[2]) : o \in {0, 4, 8},
           s \in {<<1, 1>>, <<12, 1>>, <<12, 2>>, <<19, 2>>, <<40, 1>>}},
        Length)

(* Chords that leave strings out, stretch or lean on an open string, with  *)
(* a note after them or without; and more notes at once than strings.      *)
Strums ==
  UNION {{[i \in 1..n |-> Note(IF i = 4 THEN 60 ELSE 30, 20, pitch[i], 1)] :
            pitch \in [1..n -> {0, 5, 12, 14, 15, 20}]} : n \in 3..4}
    \union {[i \in 1..6 |-> Note(0, 20, pitch[i], i)] :
              pitch \in {p \in [1..6 -> {5, 12, 19}] :
                           \A i \in 1..5 : p[i] <= p[i + 1]}}

MCSongs ==
  Melodies(3, {20, 60}, {1, 5, 10, 12, 19, 24})
    \union Melodies(4, {60}, {5, 10, 12, 19})
    \union Chords(3) \union Strums

-----------------------------------------------------------------------------
(* What the model predicts: pairs of any notes, some faint, loud or out of *)
(* range, and three notes at octaves at or near one onset.                 *)
Predicts(start, midi, amplitude) ==
  [start |-> start, end |-> start + 10, midi |-> midi, amplitude |-> amplitude]

MCPredictions ==
  UNION {[1..n -> {Predicts(s, m, a) :
                     s \in {0, 5, 12}, m \in {40, 52, 59, 64, 140}, a \in {5, 50, 110}}] :
         n \in 0..2}
    \union [1..3 -> {Predicts(s, m, a) :
                       s \in {0, 5}, m \in {40, 52, 64}, a \in {20, 50, 90}}]

(* Beats from the start and after it, too few for a grid, close together,  *)
(* and past the end of the song.                                           *)
MCGrids ==
  {<<>>, <<3>>, <<0, 3, 5>>, <<1, 4, 7, 9>>, <<2, 4, 6, 8, 12>>, <<1, 2, 11, 13>>,
   <<0, 1, 2, 3, 4, 5>>}

-----------------------------------------------------------------------------
(* Documents of four notes on two strings, at gaps within a run and past   *)
(* it, short and long, clear and weak, and listed out of order; and chords *)
(* that overlap.                                                           *)
Drawn(t, dur, string, confidence) ==
  [t |-> t, dur |-> dur, string |-> string, fret |-> 0, confidence |-> confidence]

MCDocs ==
  {[notes |-> << Drawn(gap[1], dur[1], 0, conf[1]),
                 Drawn(gap[1] + gap[2], dur[2], 1, conf[2]),
                 Drawn(gap[1] + gap[2] + gap[3], dur[2] - 1, 0, conf[3]),
                 Drawn(0, dur[2], 1, conf[2]) >>,
    chords |-> << [t |-> 1, dur |-> 3], [t |-> 2, dur |-> 1] >>,
    beats |-> << [t |-> 0, dur |-> 0, beat |-> 1], [t |-> 2, dur |-> 0, beat |-> 2] >>] :
     gap \in [1..3 -> {0, 1, 3}], dur \in [1..2 -> {1, 4}], conf \in [1..3 -> {30, 55}]}

NoDoc == [notes |-> <<>>, chords |-> <<>>, beats |-> <<>>]

MCNegativeInfinity == -99

-----------------------------------------------------------------------------
(* Links: every way YouTube spells a video, ways it spells something else  *)
(* with an id in it, and other hosts; in any dress.                        *)
Pasted(host, path, v, opens) ==
  [host |-> host, path |-> path, v |-> v, opens |-> opens]

Opened ==
  {Pasted("youtu.be", <<"v1">>, <<>>, "v1"),
   Pasted("youtube.com", <<"watch">>, <<"v1">>, "v1"),
   Pasted("music.youtube.com", <<"watch">>, <<"v2">>, "v2")}
    \union {Pasted("youtube.com", <<page, "v1">>, <<>>, "v1") :
              page \in {"shorts", "live", "embed", "v"}}
    \union {Pasted("youtu.be", path, <<>>, NoVideo) : path \in {<<>>, <<"v1", "v2">>}}
    \union {Pasted("youtube.com", <<"watch">>, v, NoVideo) :
              v \in {<<>>, <<"v1", "v2">>, <<"too short">>}}
    \union {Pasted("youtube.com", path, <<>>, NoVideo) :
              path \in {<<"embed", "videoseries">>, <<"embed", "live_stream">>,
                        <<"user", "v2">>, <<"playlist">>}}
    \union {Pasted(host, <<"watch">>, <<"v1">>, NoVideo) : host \in {"other", "address", ""}}

(* A text with no scheme begins with a host.                               *)
MCRawLinks ==
  {link \in
     {[text |-> text, scheme |-> scheme, dressed |-> dressed,
       host |-> it.host, path |-> it.path, v |-> it.v,
       opens |-> IF text \in {"plain", "padded"} /\ scheme \notin {"ftp", "javascript"}
                 THEN it.opens ELSE NoVideo] :
        text \in {"plain", "padded", "long", "control"},
        scheme \in {"", "//", "http", "https", "ftp", "javascript", "host:port"},
        dressed \in BOOLEAN, it \in Opened} :
     link.host = "" => link.scheme \notin {"", "host:port"}}

(* Ids are interchangeable, and so are songs, and addresses: the next id   *)
(* drawn is the first that is free, and some caller calls for h1 from a1.  *)
FirstCaller == CHOOSE c \in Callers : TRUE

OneOfEachKind ==
  /\ want[FirstCaller] = CHOOSE h \in Hashes : TRUE
  /\ from[FirstCaller] = CHOOSE a \in Addresses : TRUE

Free == {j \in Ids : standing[j] = "absent" /\ \A c \in Callers : drawn[c] # j}

DrawnInOrder ==
  \A c \in Callers :
    drawn'[c] \notin {drawn[c], Nobody} => \A j \in Free : drawn'[c] <= j

-----------------------------------------------------------------------------
(* What each part is while another runs.                                   *)
MapperRests ==
  /\ song = <<>> /\ stage = "group" /\ voicings = <<>> /\ options = <<>>
  /\ dropped = 0 /\ history = <<>> /\ tab = <<>>

TranscriberRests ==
  predicted = <<>> /\ events = <<>> /\ ghosts = {} /\ transcript = <<>> /\ heardTo = "nothing"

AnalyzerRests ==
  /\ duration = 0 /\ grid = <<>> /\ labels = <<>> /\ step = "beats"
  /\ analysis = [beats |-> <<>>, chords |-> <<>>, warnings |-> {}]

ViewsRest ==
  /\ opened = buildSong(NoDoc) /\ width = 0
  /\ cursors = CursorsAt(NewCursors, 0, 0)
  /\ strip = layout(cursors, 0, 0)
  /\ guitar = sounding(cursors, 0)
  /\ lane = At(NewCursor, opened.chords, 0)

LinksRest == LinkFetchInit /\ phase = "lookup" /\ own = Nothing

IntakeRests == IntakeInit /\ request.door = "elsewhere"

CreationRests ==
  /\ CreationInit
  /\ OneOfEachKind
  /\ \A c, d \in Callers : want[c] = want[d] /\ from[c] = from[d]

StagesRest == MapperRests /\ TranscriberRests /\ AnalyzerRests /\ ViewsRest

(* One of the worker's or the page's parts is at work.                     *)
StagesInit ==
  \/ /\ part = "mapper" /\ Init
     /\ TranscriberRests /\ AnalyzerRests /\ ViewsRest
  \/ /\ part = "transcriber" /\ TranscriptionInit
     /\ MapperRests /\ AnalyzerRests /\ ViewsRest
  \/ /\ part = "analyzer" /\ StructureInit
     /\ MapperRests /\ TranscriberRests /\ ViewsRest
  \/ /\ part = "views" /\ ViewsInit
     /\ MapperRests /\ TranscriberRests /\ AnalyzerRests
  \/ /\ part \in {"separator", "clock"}
     /\ MapperRests /\ TranscriberRests /\ AnalyzerRests /\ ViewsRest

PartsInit ==
  /\ SeparationInit /\ ClockInit
  /\ \/ /\ part = "link" /\ LinkFetchInit
        /\ StagesRest /\ IntakeRests /\ CreationRests
     \/ /\ part = "intake" /\ IntakeInit
        /\ StagesRest /\ LinksRest /\ CreationRests
     \/ /\ part = "creation" /\ CreationInit /\ OneOfEachKind
        /\ StagesRest /\ LinksRest /\ IntakeRests
     \/ StagesInit /\ LinksRest /\ IntakeRests /\ CreationRests

StagesNext ==
  \/ /\ part = "mapper" /\ Next
     /\ UNCHANGED <<separationVars, transcriptionVars, structureVars, viewsVars, clockVars>>
  \/ /\ part = "separator" /\ SeparationNext
     /\ UNCHANGED <<vars, transcriptionVars, structureVars, viewsVars, clockVars>>
  \/ /\ part = "transcriber" /\ TranscriptionNext
     /\ UNCHANGED <<vars, separationVars, structureVars, viewsVars, clockVars>>
  \/ /\ part = "analyzer" /\ StructureNext
     /\ UNCHANGED <<vars, separationVars, transcriptionVars, viewsVars, clockVars>>
  \/ /\ part = "views" /\ ViewsNext
     /\ UNCHANGED <<vars, separationVars, transcriptionVars, structureVars, clockVars>>
  \/ /\ part = "clock" /\ ClockNext
     /\ UNCHANGED <<vars, separationVars, transcriptionVars, structureVars, viewsVars>>

PartsNext ==
  /\ UNCHANGED part
  /\ \/ StagesNext /\ UNCHANGED doorVars
     \/ /\ UNCHANGED <<vars, separationVars, transcriptionVars, structureVars, viewsVars,
                     clockVars>>
        /\ \/ part = "link" /\ LinkFetchNext /\ UNCHANGED <<intakeVars, creationVars>>
           \/ part = "intake" /\ IntakeNext /\ UNCHANGED <<linkVars, creationVars>>
           \/ part = "creation" /\ CreationNext /\ DrawnInOrder
             /\ UNCHANGED <<linkVars, intakeVars>>

(* A stage that has returned is done, and so is an answered request or a   *)
(* call; anything else that stops is a deadlock.                           *)
PartEnded ==
  /\ \/ outcome # "none"
     \/ heardTo = "transcript"
     \/ part = "analyzer" /\ step = "done"
     \/ place = "told" \/ point = "answered"
     \/ \A c \in Callers : at[c] \in Ends
  /\ UNCHANGED partsVars

PartsSpec == PartsInit /\ [][PartsNext \/ PartEnded]_partsVars
=============================================================================
