----------------------------- MODULE MediaClock -----------------------------
(***************************************************************************)
(* The MediaClock (web/src/playback/clock.ts): song time between the       *)
(* readings of an element whose currentTime is coarse, whose events come   *)
(* late and which may stall without saying so.  Time is counted in ticks;  *)
(* song time in the song that half speed plays in a tick.                  *)
(***************************************************************************)
EXTENDS Integers, Sequences

CONSTANTS
  MAX_DRIFT,   \* MAX_DRIFT_SEC
  MAX_LEAD,    \* MAX_LEAD_SEC
  MaxAge,      \* how old a reading may be, in ticks
  SeekTargets, \* where the user seeks to
  MaxTicks,    \* bound: how long the song plays
  MaxEvents    \* bound: the element's queue of events

ASSUME ClockAssumption ==
  /\ MAX_DRIFT \in Nat
  /\ MAX_LEAD \in Nat
  /\ MaxAge \in Nat
  /\ SeekTargets \subseteq Nat
  /\ MaxTicks \in Nat
  /\ MaxEvents \in Nat

VARIABLES
  media,   \* the element: see Media
  clock,   \* the fields of the class; anchorAt is kept as the time since
  moved    \* since the last frame: did a seek begin or end?

clockVars == <<media, clock, moved>>

Rates == {1, 2}   \* half speed, full speed

AnchoringEvents == {"seeked", "ratechange", "play", "pause", "waiting", "playing"}
ClockEvents == AnchoringEvents \cup {"timeupdate"}

(* at is where playback really is, currentTime what the element says of    *)
(* it, ages ticks ago when it plays.                                       *)
Media ==
  [at : Nat, currentTime : Nat, age : 0..MaxAge, paused : BOOLEAN,
   stalled : BOOLEAN, playbackRate : Rates, events : Seq(ClockEvents),
   ticks : 0..MaxTicks]

-----------------------------------------------------------------------------
(* The clock's methods, from a clock to a clock.                           *)

extrapolate(c, m) == c.anchorTime + c.elapsed * m.playbackRate

anchor(c, m) ==
  [c EXCEPT !.anchorTime = m.currentTime, !.elapsed = 0, !.reading = m.currentTime]

(* A reading ahead of the extrapolation corrects it, one behind it only    *)
(* past the allowance.  An unchanged one says nothing.                     *)
read(c, m) ==
  LET error == m.currentTime - extrapolate(c, m) IN
  IF m.currentTime = c.reading THEN c
  ELSE IF error > 0 \/ error < -MAX_DRIFT THEN anchor(c, m)
  ELSE [c EXCEPT !.reading = m.currentTime]

Least(a, b) == IF a < b THEN a ELSE b

(* Mutant: the extrapolation runs on without an end.                       *)
AheadUnbounded(c, m) == extrapolate(c, m)

Ahead(c, m) == Least(extrapolate(c, m), c.reading + MAX_LEAD)

(* Mutant: a small correction runs the strip backwards.                    *)
nowFreely(c, m) ==
  LET r == read(c, m) IN
  IF m.paused \/ c.waiting
  THEN [c EXCEPT !.mayGoBack = FALSE, !.last = m.currentTime]
  ELSE [r EXCEPT !.mayGoBack = FALSE, !.last = Ahead(r, m)]

(* now(): the clock after it; its `last` is what it returns.               *)
now(c, m) ==
  LET r == read(c, m)
      t == Ahead(r, m)
  IN  IF m.paused \/ c.waiting
      THEN [c EXCEPT !.mayGoBack = FALSE, !.last = m.currentTime]
      ELSE [r EXCEPT !.mayGoBack = FALSE,
                     !.last = IF t < c.last /\ ~c.mayGoBack THEN c.last ELSE t]

jump(c, m) == anchor([c EXCEPT !.mayGoBack = TRUE], m)

observe(c, m, type) ==
  anchor([c EXCEPT !.waiting = CASE type = "waiting"              -> TRUE
                                 [] type \in {"playing", "pause"} -> FALSE
                                 [] OTHER                         -> @,
                   !.mayGoBack = @ \/ type = "seeked"], m)

-----------------------------------------------------------------------------
ClockInit ==
  /\ media = [at |-> 0, currentTime |-> 0, age |-> 0, paused |-> TRUE,
              stalled |-> FALSE, playbackRate |-> 2, events |-> <<>>, ticks |-> 0]
  /\ clock = [anchorTime |-> 0, elapsed |-> 0, reading |-> 0, waiting |-> FALSE,
              last |-> 0, mayGoBack |-> TRUE]
  /\ moved = FALSE

Says(m, type) == [m EXCEPT !.events = Append(@, type)]
Room == Len(media.events) < MaxEvents
Plays(m) == ~m.paused /\ ~m.stalled

(* A tick of the page's clock: the song plays on, unless it has stalled,   *)
(* and what the element says of it gets older.                             *)
Ticks ==
  /\ media.ticks < MaxTicks
  /\ Plays(media) => media.age < MaxAge
  /\ media' = [media EXCEPT
                 !.ticks = @ + 1,
                 !.at = IF Plays(media) THEN @ + media.playbackRate ELSE @,
                 !.age = IF Plays(media) THEN @ + 1 ELSE @]
  /\ clock' = [clock EXCEPT !.elapsed = @ + 1]
  /\ UNCHANGED moved

(* The element's currentTime catches up; it may fire timeupdate.           *)
Reads(m) == [m EXCEPT !.currentTime = m.at, !.age = 0]

CatchesUp ==
  /\ media.currentTime # media.at
  /\ \/ media' = Reads(media)
     \/ Room /\ media' = Says(Reads(media), "timeupdate")
  /\ UNCHANGED <<clock, moved>>

(* It stalls, at once or not at all saying so, and plays on.               *)
Stalls ==
  /\ Plays(media)
  /\ Room
  /\ LET m == [media EXCEPT !.stalled = TRUE] IN
     media' \in {m, Says(m, "waiting")}
  /\ UNCHANGED <<clock, moved>>

Resumes ==
  /\ media.stalled
  /\ Room
  /\ media' = Says([media EXCEPT !.stalled = FALSE], "playing")
  /\ UNCHANGED <<clock, moved>>

(* The user plays, pauses, changes the rate, and seeks; the engine tells   *)
(* the clock of a seek.                                                    *)
TogglesMedia ==
  /\ Room
  /\ media' = Says([Reads(media) EXCEPT !.paused = ~@],
                   IF media.paused THEN "play" ELSE "pause")
  /\ UNCHANGED <<clock, moved>>

ChangesRate ==
  /\ Room
  /\ \E rate \in Rates \ {media.playbackRate} :
       media' = Says([media EXCEPT !.playbackRate = rate], "ratechange")
  /\ UNCHANGED <<clock, moved>>

Seeks ==
  /\ Room
  /\ \E t \in SeekTargets :
       LET m == Says([media EXCEPT !.at = t, !.currentTime = t, !.age = 0], "seeked") IN
       /\ media' = m
       /\ clock' = jump(clock, m)
  /\ moved' = TRUE

HearsEvent ==
  /\ media.events # <<>>
  /\ LET type == Head(media.events)
         m == [media EXCEPT !.events = Tail(@)]
     IN  /\ media' = m
         /\ clock' = IF type \in AnchoringEvents THEN observe(clock, m, type)
                                                 ELSE read(clock, m)
         /\ moved' = (moved \/ type = "seeked")

DrawsFrame ==
  /\ clock' = now(clock, media)
  /\ moved' = FALSE
  /\ UNCHANGED media

ClockNext ==
  \/ Ticks \/ CatchesUp \/ Stalls \/ Resumes
  \/ TogglesMedia \/ ChangesRate \/ Seeks
  \/ HearsEvent \/ DrawsFrame

ClockSpec == ClockInit /\ [][ClockNext]_clockVars

-----------------------------------------------------------------------------
(* Whatever a frame would show now is near what is heard: never ahead of   *)
(* the song by more than MAX_LEAD, and not behind the element's last       *)
(* reading, except while the clock has yet to hear of a change of rate.    *)
ClockNear ==
  LET shown == now(clock, media).last
      toldRate == \A i \in DOMAIN media.events : media.events[i] # "ratechange"
  IN  /\ shown <= media.at + MAX_LEAD
      /\ toldRate => shown >= media.currentTime

(* The strip runs backwards only for a seek, or to stand where the song    *)
(* pauses or waits, and then by no more than it had run ahead.             *)
NeverBack ==
  [][clock'.last < clock.last =>
       \/ moved
       \/ /\ media.paused \/ clock.waiting
          /\ clock.last - media.at <= MAX_LEAD]_clockVars
=============================================================================
