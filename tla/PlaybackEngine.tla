--------------------------- MODULE PlaybackEngine ---------------------------
(***************************************************************************)
(* The PlaybackEngine (web/src/playback/engine.ts) over an element whose   *)
(* events come late.  A step is a task of the page: a call by a control,   *)
(* the next event, an animation frame, or the element's own progress.      *)
(* Time is counted in whole steps of playback; MediaClock's interpolation  *)
(* between them, the playback rate and the buffering flag are left out.    *)
(***************************************************************************)
EXTENDS MediaElement

CONSTANTS
  None,
  MAX_FAILURES,
  RECOVERED_AFTER,   \* in steps
  MaxActs,           \* bound: what the user does
  MaxBreaks          \* bound: connections lost, links expired

ASSUME EngineAssumption ==
  /\ MAX_FAILURES \in Nat \ {0}
  /\ RECOVERED_AFTER \in Nat \ {0}
  /\ MaxActs \in Nat
  /\ MaxBreaks \in Nat
  /\ None \notin Places \cup [at : Places, resume : BOOLEAN]

VARIABLES
  player,   \* the engine and its element: see Player
  drawn,    \* the time the views last drew
  acts, breaks

vars == <<player, drawn, acts, breaks>>

Points == Places \cup {None}

(* pending, playing, source, error, time, a, b, failures, played, mark,    *)
(* previous and frame are the engine's fields of these names; held is      *)
(* resumeAfterError.                                                       *)
Player ==
  [ready : {"nothing", "metadata", "failed"}, paused : BOOLEAN, place : Places,
   src : Sources, events : Seq(EventNames),
   pending : [at : Places, resume : BOOLEAN] \cup {None},
   playing : BOOLEAN, source : Sources, error : BOOLEAN, time : Places,
   a : Points, b : Points,
   failures : 0..MAX_FAILURES, played : Nat, mark : Places, previous : Places,
   held : BOOLEAN, frame : BOOLEAN]

-----------------------------------------------------------------------------
(* The engine's methods, from a player to a player.                        *)

(* time(): held still while a source loads, and once it has given up.      *)
Time(p) == IF p.pending = None THEN p.place ELSE p.pending.at

Looping(p) == p.a # None /\ p.b # None
LoopStart(p) == IF p.a < p.b THEN p.a ELSE p.b
LoopEnd(p)   == IF p.a < p.b THEN p.b ELSE p.a

Redraw(p) == [p EXCEPT !.frame = TRUE]

(* update: a change of what getState shows asks for a frame.               *)
Shown(p) == <<p.playing, p.source, p.error, p.time, p.a, p.b>>
Update(old, new) == IF Shown(old) = Shown(new) THEN new ELSE Redraw(new)

SyncPlaying(p) ==
  Update(p, [p EXCEPT !.playing =
               IF p.pending = None THEN ~p.paused ELSE p.pending.resume])

Seek(p, t) ==
  LET moved == IF p.pending # None
               THEN [p EXCEPT !.pending.at = t]
               ELSE [ElementSeek(p, t) EXCEPT !.mark = t]
  IN  Redraw([moved EXCEPT !.previous = t, !.time = t])

(* The browser may refuse: the promise is rejected, and nothing plays.      *)
Play(p, allowed) ==
  CASE p.error          -> p
    [] ~p.error /\ p.pending # None
                        -> SyncPlaying([p EXCEPT !.pending.resume = TRUE])
    [] OTHER            -> LET from == IF Ended(p) THEN Seek(p, 0) ELSE p IN
                           IF allowed THEN ElementPlay(from) ELSE SyncPlaying(from)

Pause(p) ==
  IF p.pending # None
  THEN SyncPlaying([p EXCEPT !.pending.resume = FALSE])
  ELSE ElementPause(p)

Toggle(p, allowed) == IF p.playing THEN Pause(p) ELSE Play(p, allowed)

Load(p, at, resume) ==
  SyncPlaying([ElementLoad(p, p.source) EXCEPT
                 !.pending = [at |-> at, resume |-> resume]])

(* Mutant: the play state of an engine that has given up is not held.      *)
SetSourceForgetting(p, s) ==
  Load(Redraw([p EXCEPT !.source = s, !.failures = 0, !.error = FALSE]),
       Time(p), p.playing)

SetSource(p, s) ==
  Load(Redraw([p EXCEPT !.source = s, !.failures = 0, !.error = FALSE]),
       Time(p), IF p.error THEN p.held ELSE p.playing)

(* Points closer than MIN_LOOP_SEC, here equal ones, are refused.          *)
SetA(p) == IF Time(p) = p.b THEN p ELSE Update(p, [p EXCEPT !.a = Time(p)])
SetB(p) == IF Time(p) = p.a THEN p ELSE Update(p, [p EXCEPT !.b = Time(p)])

ClearLoop(p) == Update(p, [p EXCEPT !.a = None, !.b = None])

(* Only playback that crosses the end from inside jumps back.              *)
Tick(p) ==
  IF /\ Looping(p)
     /\ p.pending = None
     /\ p.previous >= LoopStart(p) /\ p.previous < LoopEnd(p)
     /\ p.place >= LoopEnd(p)
  THEN Seek(p, LoopStart(p))
  ELSE Update(p, [p EXCEPT !.previous = Time(p), !.time = Time(p)])

NoteProgress(p) ==
  IF p.failures = 0 \/ p.pending # None
  THEN p
  ELSE LET played == IF p.place > p.mark THEN p.played + p.place - p.mark
                                         ELSE p.played
       IN  [p EXCEPT !.mark = p.place, !.played = played,
                     !.failures = IF played >= RECOVERED_AFTER THEN 0 ELSE @]

(* Mutant: the frames are left to the element's other events.              *)
OnMetadataUndrawn(p, allowed) ==
  IF p.pending = None
  THEN p
  ELSE LET at == p.pending.at
           loaded == [ElementSeek(p, at) EXCEPT
                        !.pending = None, !.previous = at, !.mark = at]
       IN  SyncPlaying(IF p.pending.resume /\ allowed
                       THEN ElementPlay(loaded) ELSE loaded)

(* Mutant: a file that loads is taken for a recovery.                      *)
OnMetadataRecovered(p, allowed) ==
  IF p.pending = None
  THEN p
  ELSE LET at == p.pending.at
           loaded == [ElementSeek(p, at) EXCEPT !.failures = 0,
                        !.pending = None, !.previous = at, !.mark = at]
       IN  Redraw(SyncPlaying(IF p.pending.resume /\ allowed
                              THEN ElementPlay(loaded) ELSE loaded))

(* Mutant: play() is taken to succeed.                                     *)
OnMetadataTrusting(p, allowed) ==
  IF p.pending = None
  THEN p
  ELSE LET at == p.pending.at
           loaded == [ElementSeek(p, at) EXCEPT
                        !.pending = None, !.previous = at, !.mark = at]
       IN  Redraw(IF p.pending.resume /\ allowed
                  THEN ElementPlay(loaded) ELSE loaded)

OnMetadata(p, allowed) ==
  IF p.pending = None
  THEN p
  ELSE LET at == p.pending.at
           loaded == [ElementSeek(p, at) EXCEPT
                        !.pending = None, !.previous = at, !.mark = at]
       IN  Redraw(SyncPlaying(IF p.pending.resume /\ allowed
                              THEN ElementPlay(loaded) ELSE loaded))

(* A loop whose end is the song's goes on.                                 *)
OnEnded(p, allowed) ==
  IF Looping(p) /\ p.previous >= LoopStart(p) /\ p.previous <= LoopEnd(p)
  THEN Play(Seek(p, LoopStart(p)), allowed)
  ELSE SyncPlaying(p)

(* Mutant: the position is the element's, whatever is pending.             *)
OnErrorAtPlace(p) ==
  IF p.failures + 1 >= MAX_FAILURES
  THEN Redraw([ElementPause(p) EXCEPT
                 !.failures = @ + 1, !.pending = [at |-> p.place, resume |-> FALSE],
                 !.held = p.playing, !.error = TRUE, !.playing = FALSE])
  ELSE Load([p EXCEPT !.failures = @ + 1, !.played = 0], p.place, p.playing)

OnError(p) ==
  IF p.failures + 1 >= MAX_FAILURES
  THEN Redraw([ElementPause(p) EXCEPT
                 !.failures = @ + 1, !.pending = [at |-> Time(p), resume |-> FALSE],
                 !.held = p.playing, !.error = TRUE, !.playing = FALSE])
  ELSE Load([p EXCEPT !.failures = @ + 1, !.played = 0], Time(p), p.playing)

(* Mutant: the loop is left to the frames.                                 *)
OnTimeUpdateUnlooped(p) == NoteProgress(p)

OnTimeUpdate(p) == Tick(NoteProgress(p))

(* The listeners of the events of one task, in turn.                       *)
Heard(p, event, allowed) ==
  CASE event = "loadedmetadata" -> OnMetadata(p, allowed)
    [] event = "play"           -> SyncPlaying(p)
    [] event = "pause"          -> SyncPlaying(OnTimeUpdate(p))
    [] event = "timeupdate"     -> OnTimeUpdate(p)
    [] event = "ended"          -> LET q == OnTimeUpdate(p) IN
                                   OnEnded(IF StopsAtEnd(q)
                                           THEN SyncPlaying(Stopped(q)) ELSE q,
                                           allowed)
    [] event = "error"          -> OnError(p)

-----------------------------------------------------------------------------
(* A new element has its first src.  A view subscribes as soon as the      *)
(* engine is there.                                                        *)
Init ==
  \E s \in Sources :
    /\ player =
         [ready |-> "nothing", paused |-> TRUE, place |-> 0, src |-> s,
          events |-> <<>>, pending |-> [at |-> 0, resume |-> FALSE],
          playing |-> FALSE, source |-> s, error |-> FALSE, time |-> 0,
          a |-> None, b |-> None, failures |-> 0, played |-> 0,
          mark |-> 0, previous |-> 0, held |-> FALSE, frame |-> TRUE]
    /\ drawn = 0
    /\ acts = MaxActs
    /\ breaks = MaxBreaks

(* The user, through the controls, the keys and the scrubber.              *)
Acts == acts > 0 /\ acts' = acts - 1 /\ UNCHANGED <<drawn, breaks>>

UserToggles ==
  Acts /\ \E allowed \in BOOLEAN : player' = Toggle(player, allowed)

UserSeeks ==
  Acts /\ \E t \in Places : player' = Seek(player, t)

UserSetsSource ==
  Acts /\ \E s \in Sources \ {player.source} : player' = SetSource(player, s)

UserLoops ==
  Acts /\ player' \in {SetA(player), SetB(player), ClearLoop(player)}

(* The page.                                                               *)
HandleEvent ==
  /\ player.events # <<>>
  /\ LET rest == [player EXCEPT !.events = Tail(@)] IN
     \E allowed \in BOOLEAN :
       player' = Heard(rest, Head(player.events), allowed)
  /\ UNCHANGED <<drawn, acts, breaks>>

RunFrame ==
  LET ticked == Tick([player EXCEPT !.frame = FALSE])
      emitting == ticked.playing /\ ticked.pending = None
  IN
  /\ player.frame
  /\ player' = IF emitting THEN Redraw(ticked) ELSE ticked
  /\ drawn' = Time(ticked)
  /\ UNCHANGED <<acts, breaks>>

(* The element.                                                            *)
ElementLoads ==
  /\ Loads(player)
  /\ player' = Loaded(player)
  /\ UNCHANGED <<drawn, acts, breaks>>

ElementAdvances ==
  /\ Advances(player)
  /\ player' = Advanced(player)
  /\ UNCHANGED <<drawn, acts, breaks>>

ElementEnds ==
  /\ ReachesEnd(player)
  /\ player' = Queue(player, "ended")
  /\ UNCHANGED <<drawn, acts, breaks>>

ElementBreaksOff ==
  /\ BreaksOff(player)
  /\ player' = Broken(player)
  /\ UNCHANGED <<drawn, acts, breaks>>

ElementBreaks ==
  /\ breaks > 0
  /\ breaks' = breaks - 1
  /\ Breaks(player)
  /\ player' = Broken(player)
  /\ UNCHANGED <<drawn, acts>>

Next ==
  \/ UserToggles \/ UserSeeks \/ UserSetsSource \/ UserLoops
  \/ HandleEvent \/ RunFrame
  \/ ElementLoads \/ ElementAdvances \/ ElementEnds \/ ElementBreaksOff
  \/ ElementBreaks

Spec == Init /\ [][Next]_vars

(* Weak fairness of HandleEvent, which is enabled when an event waits.     *)
EventsHandled ==
  []<>(player.events = <<>>) \/ []<><<HandleEvent>>_vars

(* Events are handled and the element makes progress.  Frames are not      *)
(* assumed: a tab in the background has none.                              *)
FairSpec ==
  /\ Spec
  /\ EventsHandled
  /\ WF_vars(ElementLoads)
  /\ WF_vars(ElementAdvances)
  /\ WF_vars(ElementEnds)
  /\ WF_vars(ElementBreaksOff)

-----------------------------------------------------------------------------
(* When the element has said all it has to, the engine shows it: playing   *)
(* if it plays, or will once the source that loads has loaded.  An engine  *)
(* that has given up plays nothing.                                        *)
PlayingAgrees ==
  LET p == player IN
  /\ p.events = <<>> =>
       p.playing = IF p.pending = None THEN ~p.paused ELSE p.pending.resume
  /\ p.error => ~p.playing /\ p.pending # None

(* The frames go on as long as the song plays, and when they stop the      *)
(* views have drawn where it is.                                           *)
ViewsShowTime ==
  LET p == player IN
  /\ p.playing /\ p.pending = None => p.frame
  /\ p.events = <<>> /\ ~p.frame => drawn = Time(p)

(* Is the engine told of the element's last play or pause?                 *)
UpToDate(p) == ~Contains(p.events, "play") /\ ~Contains(p.events, "pause")

(* Whether it plays and where are kept through loading, errors, giving up  *)
(* and a change of source.  A source is loaded to play on if the last one  *)
(* did, be it chosen or asked for again after an error; only the user      *)
(* changes that while it loads, and an engine that has given up remembers  *)
(* it.  The position changes by playback and by the user's seeks, and by a *)
(* jump to the start of the loop.                                          *)
PlaybackKept ==
  [][LET p == player
         q == player'
     IN
     /\ p.pending = None /\ q.pending # None /\ ~q.error /\ UpToDate(p) =>
          q.pending.resume = ~p.paused
     /\ p.pending # None /\ ~p.error /\ q.pending # None /\ acts' = acts =>
          (IF q.error THEN q.held ELSE q.pending.resume) = p.pending.resume
     /\ p.error /\ ~q.error => q.pending.resume = p.held
     /\ acts' = acts /\ Time(q) # Time(p) =>
          \/ p.pending = None /\ Time(q) = Time(p) + 1
          \/ Looping(p) /\ Time(q) = LoopStart(p)
     /\ q.source # p.source => Time(q) = Time(p)
    ]_vars

(* A file that breaks off at the same place is not reloaded without end:   *)
(* what loads has loaded in the end, or the engine has given up.  A loop   *)
(* is excepted, that plays long enough between two errors to recover.      *)
ReloadsEnd ==
  <>[](player.pending = None \/ player.error \/ Looping(player))

(* The loop holds: once the element's readings are heard, the position is  *)
(* not one that playback reached by crossing the loop's end from inside.   *)
(* It takes no frame, so a tab in the background loops as well.            *)
LoopHolds ==
  LET p == player IN
  /\ p.events = <<>>
  /\ Looping(p) /\ p.pending = None
  /\ p.previous >= LoopStart(p) /\ p.previous < LoopEnd(p)
  => p.place < LoopEnd(p)
=============================================================================
