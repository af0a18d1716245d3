--------------------------- MODULE PlaybackProofs ---------------------------
(***************************************************************************)
(* Theorems of playback: of the clock between an element's readings, for   *)
(* every drift and lead it allows and every seek; of the engine over its   *)
(* element, for every song, every break in its files, every number of      *)
(* failures it bears and whatever the user does; and of what the views     *)
(* draw at the playhead, for every document and every way it is moved.     *)
(***************************************************************************)
EXTENDS PlaybackEngine, MediaClock, Views, LoopsProofs, TLAPS, SequenceTheorems

-----------------------------------------------------------------------------
(* The clock.                                                              *)

ClockTypes ==
  [anchorTime : Nat, elapsed : Nat, reading : Nat, waiting : BOOLEAN,
   last : Nat, mayGoBack : BOOLEAN]

ToldRate(m) == \A i \in DOMAIN m.events : m.events[i] # "ratechange"

(* The extrapolation has not fallen behind the reading it began from.      *)
PastReading(c, m) == extrapolate(c, m) >= c.reading

ClockTyped ==
  /\ media \in Media
  /\ clock \in ClockTypes
  /\ moved \in BOOLEAN

Readings == clock.reading <= media.currentTime /\ media.currentTime <= media.at
Extrapolates == ToldRate(media) => PastReading(clock, media)

(* What is shown may be further ahead only when a seek has let it go back. *)
ShownSoon ==
  /\ clock.mayGoBack => moved \/ clock.last = 0
  /\ ~clock.mayGoBack => clock.last <= media.at + MAX_LEAD

ClockInv == ClockTyped /\ Readings /\ Extrapolates /\ ShownSoon

LEMMA RateTimes ==
  ASSUME NEW c \in ClockTypes, NEW m \in Media
  PROVE  /\ extrapolate(c, m) = c.anchorTime + (IF m.playbackRate = 1 THEN c.elapsed
                                                ELSE c.elapsed + c.elapsed)
         /\ extrapolate(c, m) \in Nat
  <1>1. c.elapsed \in Nat /\ c.anchorTime \in Nat /\ m.playbackRate \in {1, 2}
    BY DEF ClockTypes, Media, Rates
  <1>2. c.elapsed * 1 = c.elapsed /\ c.elapsed * 2 = c.elapsed + c.elapsed
    BY <1>1
  <1>3. QED
    BY <1>1, <1>2 DEF extrapolate

LEMMA AnchorFields ==
  ASSUME NEW c \in ClockTypes, NEW m \in Media, NEW d, d = anchor(c, m)
  PROVE  /\ d \in ClockTypes /\ d.reading = m.currentTime
         /\ d.waiting = c.waiting /\ d.last = c.last /\ d.mayGoBack = c.mayGoBack
         /\ PastReading(d, m)
  <1>1. /\ d \in ClockTypes /\ d.reading = m.currentTime /\ d.anchorTime = m.currentTime
        /\ d.elapsed = 0
        /\ d.waiting = c.waiting /\ d.last = c.last /\ d.mayGoBack = c.mayGoBack
    BY DEF anchor, ClockTypes, Media
  <1>2. m.currentTime \in Nat
    BY DEF Media
  <1>3. extrapolate(d, m) = m.currentTime
    BY <1>1, <1>2, RateTimes
  <1>4. QED
    BY <1>1, <1>2, <1>3 DEF PastReading

LEMMA ReadFields ==
  ASSUME NEW c \in ClockTypes, NEW m \in Media, NEW d, d = read(c, m)
  PROVE  /\ d \in ClockTypes /\ d.reading = m.currentTime
         /\ d.waiting = c.waiting /\ d.last = c.last /\ d.mayGoBack = c.mayGoBack
         /\ PastReading(c, m) => PastReading(d, m)
  <1>1. m.currentTime \in Nat /\ extrapolate(c, m) \in Nat
    BY RateTimes DEF Media
  <1>2. CASE m.currentTime = c.reading
    BY <1>2 DEF read
  <1>3. CASE d = anchor(c, m)
    BY <1>3, AnchorFields
  <1>4. CASE /\ m.currentTime # c.reading /\ d # anchor(c, m)
    <2>1. d = [c EXCEPT !.reading = m.currentTime] /\ ~(m.currentTime - extrapolate(c, m) > 0)
      BY <1>4 DEF read
    <2>2. /\ d \in ClockTypes /\ d.reading = m.currentTime /\ d.anchorTime = c.anchorTime
          /\ d.elapsed = c.elapsed
          /\ d.waiting = c.waiting /\ d.last = c.last /\ d.mayGoBack = c.mayGoBack
      BY <1>1, <2>1 DEF ClockTypes
    <2>3. extrapolate(d, m) = extrapolate(c, m)
      BY <2>2 DEF extrapolate
    <2>4. QED
      BY <1>1, <2>1, <2>2, <2>3 DEF PastReading
  <1>5. QED
    BY <1>2, <1>3, <1>4

LEMMA NowFields ==
  ASSUME NEW c \in ClockTypes, NEW m \in Media, c.reading <= m.currentTime,
         NEW d, d = now(c, m)
  PROVE  /\ d \in ClockTypes /\ d.reading <= m.currentTime /\ ~d.mayGoBack
         /\ d.waiting = c.waiting
         /\ PastReading(c, m) => PastReading(d, m) /\ d.last >= m.currentTime
         /\ \/ d.last <= m.currentTime + MAX_LEAD
            \/ ~c.mayGoBack /\ d.last = c.last
         /\ d.last < c.last => \/ c.mayGoBack
                               \/ (m.paused \/ c.waiting)
  <1>1. /\ m.currentTime \in Nat /\ extrapolate(c, m) \in Nat /\ MAX_LEAD \in Nat
        /\ c.last \in Nat
    BY RateTimes, ClockAssumption DEF Media, ClockTypes
  <1>2. PICK r, t : r = read(c, m) /\ t = Ahead(r, m)
    OBVIOUS
  <1>3. /\ r \in ClockTypes /\ r.reading = m.currentTime
        /\ r.waiting = c.waiting /\ r.last = c.last /\ r.mayGoBack = c.mayGoBack
        /\ PastReading(c, m) => PastReading(r, m)
    BY <1>2, ReadFields
  <1>4. extrapolate(r, m) \in Nat
    BY <1>3, RateTimes
  <1>5. /\ t \in Nat /\ t <= m.currentTime + MAX_LEAD
        /\ PastReading(c, m) => t >= m.currentTime
    BY <1>1, <1>2, <1>3, <1>4 DEF Ahead, Least, PastReading
  <1>6. CASE m.paused \/ c.waiting
    <2>1. d = [c EXCEPT !.mayGoBack = FALSE, !.last = m.currentTime]
      BY <1>6 DEF now
    <2>2. /\ d \in ClockTypes /\ d.reading = c.reading /\ ~d.mayGoBack
          /\ d.waiting = c.waiting /\ d.last = m.currentTime
          /\ d.anchorTime = c.anchorTime /\ d.elapsed = c.elapsed
      BY <1>1, <2>1 DEF ClockTypes
    <2>3. PastReading(d, m) <=> PastReading(c, m)
      BY <2>2 DEF PastReading, extrapolate
    <2>4. QED
      BY <1>1, <1>6, <2>2, <2>3
  <1>7. CASE ~(m.paused \/ c.waiting)
    <2>1. PICK last : last = IF t < c.last /\ ~c.mayGoBack THEN c.last ELSE t
      OBVIOUS
    <2>2. d = [r EXCEPT !.mayGoBack = FALSE, !.last = last]
      BY <1>2, <1>7, <2>1 DEF now
    <2>3. last \in Nat
      BY <1>1, <1>5, <2>1
    <2>4. /\ d \in ClockTypes /\ d.reading = r.reading /\ ~d.mayGoBack
          /\ d.waiting = c.waiting /\ d.last = last
          /\ d.anchorTime = r.anchorTime /\ d.elapsed = r.elapsed
      BY <1>3, <2>2, <2>3 DEF ClockTypes
    <2>5. PastReading(d, m) <=> PastReading(r, m)
      BY <2>4 DEF PastReading, extrapolate
    <2>6. QED
      BY <1>1, <1>3, <1>5, <2>1, <2>4, <2>5
  <1>8. QED
    BY <1>6, <1>7

(* What is told stays told, and an event that is heard may be news.        *)
LEMMA SaysFields ==
  ASSUME NEW m \in Media, NEW type \in ClockEvents, NEW n, n = Says(m, type)
  PROVE  /\ n \in Media /\ n.events = Append(m.events, type)
         /\ n.at = m.at /\ n.currentTime = m.currentTime /\ n.age = m.age
         /\ n.paused = m.paused /\ n.stalled = m.stalled
         /\ n.playbackRate = m.playbackRate /\ n.ticks = m.ticks
         /\ ToldRate(n) <=> ToldRate(m) /\ type # "ratechange"
  <1>0. PICK s \in Seq(ClockEvents) : s = m.events
    BY DEF Media
  <1>1. PICK t \in Seq(ClockEvents) : s = m.events /\ t = Append(s, type)
    <2>1. Append(s, type) \in Seq(ClockEvents)
      OBVIOUS
    <2>2. QED
      BY <1>0, <2>1
  <1>2. n = [m EXCEPT !.events = t]
    BY <1>1 DEF Says
  <1>3. /\ n \in Media /\ n.events = t
        /\ n.at = m.at /\ n.currentTime = m.currentTime /\ n.age = m.age
        /\ n.paused = m.paused /\ n.stalled = m.stalled
        /\ n.playbackRate = m.playbackRate /\ n.ticks = m.ticks
    BY <1>2 DEF Media
  <1>4. /\ DOMAIN t = 1..(Len(s) + 1) /\ DOMAIN s = 1..Len(s)
        /\ Len(s) \in Nat
        /\ \A i \in 1..Len(s) : t[i] = s[i]
        /\ t[Len(s) + 1] = type
    BY <1>1
  <1>5. 1..(Len(s) + 1) = (1..Len(s)) \cup {Len(s) + 1}
    BY <1>4
  <1>6. ToldRate(n) <=> ToldRate(m) /\ type # "ratechange"
    BY <1>1, <1>3, <1>4, <1>5 DEF ToldRate
  <1>7. QED
    BY <1>1, <1>3, <1>6

LEMMA HeardEvent ==
  ASSUME NEW m \in Media, m.events # <<>>, NEW n, n = [m EXCEPT !.events = Tail(@)]
  PROVE  /\ n \in Media
         /\ n.at = m.at /\ n.currentTime = m.currentTime
         /\ n.paused = m.paused /\ n.playbackRate = m.playbackRate
         /\ ToldRate(m) <=> ToldRate(n) /\ Head(m.events) # "ratechange"
  <1>1. PICK s \in Seq(ClockEvents) : s = m.events
    BY DEF Media
  <1>2. /\ Tail(s) \in Seq(ClockEvents) /\ Len(s) \in Nat /\ Len(s) > 0
        /\ Head(s) = s[1]
        /\ DOMAIN s = 1..Len(s) /\ DOMAIN Tail(s) = 1..(Len(s) - 1)
        /\ \A i \in 1..(Len(s) - 1) : Tail(s)[i] = s[i + 1]
    BY <1>1, HeadTailProperties
  <1>3. /\ n \in Media /\ n.events = Tail(s)
        /\ n.at = m.at /\ n.currentTime = m.currentTime
        /\ n.paused = m.paused /\ n.playbackRate = m.playbackRate
    BY <1>1, <1>2 DEF Media
  <1>4. ASSUME ToldRate(n), Head(s) # "ratechange", NEW i \in 1..Len(s)
        PROVE  s[i] # "ratechange"
    <2>1. CASE i = 1
      BY <1>2, <1>4, <2>1
    <2>2. CASE i # 1
      <3>1. i - 1 \in 1..(Len(s) - 1) /\ Tail(s)[i - 1] = s[i]
        BY <1>2, <2>2
      <3>2. QED
        BY <1>2, <1>3, <1>4, <3>1 DEF ToldRate
    <2>3. QED
      BY <2>1, <2>2
  <1>5. ASSUME ToldRate(m), NEW i \in 1..(Len(s) - 1)
        PROVE  Tail(s)[i] # "ratechange"
    <2>1. i + 1 \in 1..Len(s) /\ Tail(s)[i] = s[i + 1]
      BY <1>2
    <2>2. QED
      BY <1>1, <1>2, <1>5, <2>1 DEF ToldRate
  <1>6. ToldRate(m) => Head(s) # "ratechange"
    BY <1>1, <1>2 DEF ToldRate
  <1>7. QED
    BY <1>1, <1>2, <1>3, <1>4, <1>5, <1>6 DEF ToldRate

(* The element alone: playback goes on, and readings catch up with it.     *)
LEMMA MediaMoves ==
  ASSUME ClockInv, NEW m \in Media, media' = m, clock' = clock, moved' = moved,
         m.at = media.at,
         m.currentTime \in {media.currentTime, media.at},
         ToldRate(m) => ToldRate(media) /\ m.playbackRate = media.playbackRate
  PROVE  ClockInv'
  <1>1. ClockTyped'
    BY DEF ClockInv, ClockTyped
  <1>2. /\ media.at \in Nat /\ media.currentTime \in Nat /\ clock.reading \in Nat
    BY DEF ClockInv, ClockTyped, Media, ClockTypes
  <1>3. Readings'
    BY <1>2 DEF ClockInv, Readings
  <1>4. Extrapolates'
    <2>1. (/\ ToldRate(m)
           /\ PastReading(clock, media)) => PastReading(clock, m)
      BY DEF PastReading, extrapolate
    <2>2. ToldRate(m) => PastReading(clock, m)
      BY <2>1 DEF ClockInv, Extrapolates
    <2>3. QED
      BY <2>2 DEF Extrapolates, ToldRate, PastReading, extrapolate
  <1>5. ShownSoon'
    BY DEF ClockInv, ShownSoon
  <1>6. QED
    BY <1>1, <1>3, <1>4, <1>5 DEF ClockInv

LEMMA ElementKeeps ==
  ASSUME ClockInv, CatchesUp \/ Stalls \/ Resumes \/ TogglesMedia \/ ChangesRate
  PROVE  ClockInv'
  <1>1. media \in Media /\ media.at \in Nat
    BY DEF ClockInv, ClockTyped, Media
  <1>2. PICK caught \in Media : caught = Reads(media)
    <2>1. 0 \in 0..MaxAge
      BY ClockAssumption
    <2>2. Reads(media) \in Media
      BY <1>1, <2>1 DEF Reads, Media
    <2>3. QED
      BY <2>2
  <1>3. /\ caught.at = media.at /\ caught.currentTime = media.at
        /\ caught.playbackRate = media.playbackRate /\ caught.events = media.events
        /\ caught.paused = media.paused
    BY <1>1, <1>2 DEF Reads, Media
  <1>4. ToldRate(caught) <=> ToldRate(media)
    BY <1>3 DEF ToldRate
  <1>5. CASE CatchesUp
    <2>1. /\ media' = caught \/ media' = Says(caught, "timeupdate")
          /\ clock' = clock /\ moved' = moved
      BY <1>2, <1>5 DEF CatchesUp
    <2>2. CASE media' = caught
      BY <1>2, <1>3, <1>4, <2>1, <2>2, MediaMoves
    <2>3. CASE media' = Says(caught, "timeupdate")
      <3>1. PICK m : m = Says(caught, "timeupdate")
        OBVIOUS
      <3>2. /\ m \in Media /\ m.at = caught.at /\ m.currentTime = caught.currentTime
            /\ m.playbackRate = caught.playbackRate
            /\ ToldRate(m) => ToldRate(caught)
        BY <3>1, SaysFields DEF ClockEvents, AnchoringEvents
      <3>3. QED
        BY <1>3, <1>4, <2>1, <2>3, <3>1, <3>2, MediaMoves
    <2>4. QED
      BY <2>1, <2>2, <2>3
  <1>6. CASE Stalls
    <2>1. PICK m \in Media : m = [media EXCEPT !.stalled = TRUE]
      BY <1>1 DEF Media
    <2>2. /\ m.at = media.at /\ m.currentTime = media.currentTime
          /\ m.playbackRate = media.playbackRate /\ m.events = media.events
      BY <1>1, <2>1 DEF Media
    <2>3. ToldRate(m) <=> ToldRate(media)
      BY <2>2 DEF ToldRate
    <2>4. /\ media' = m \/ media' = Says(m, "waiting")
          /\ clock' = clock /\ moved' = moved
      BY <1>6, <2>1 DEF Stalls
    <2>5. CASE media' = m
      BY <2>2, <2>3, <2>4, <2>5, MediaMoves
    <2>6. CASE media' = Says(m, "waiting")
      <3>1. PICK n : n = Says(m, "waiting")
        OBVIOUS
      <3>2. /\ n \in Media /\ n.at = m.at /\ n.currentTime = m.currentTime
            /\ n.playbackRate = m.playbackRate
            /\ ToldRate(n) => ToldRate(m)
        BY <3>1, SaysFields DEF ClockEvents, AnchoringEvents
      <3>3. QED
        BY <2>2, <2>3, <2>4, <2>6, <3>1, <3>2, MediaMoves
    <2>7. QED
      BY <2>4, <2>5, <2>6
  <1>7. CASE Resumes
    <2>1. PICK m \in Media : m = [media EXCEPT !.stalled = FALSE]
      BY <1>1 DEF Media
    <2>2. /\ m.at = media.at /\ m.currentTime = media.currentTime
          /\ m.playbackRate = media.playbackRate /\ m.events = media.events
      BY <1>1, <2>1 DEF Media
    <2>3. ToldRate(m) <=> ToldRate(media)
      BY <2>2 DEF ToldRate
    <2>4. PICK n : n = Says(m, "playing")
      OBVIOUS
    <2>5. media' = n /\ clock' = clock /\ moved' = moved
      BY <1>7, <2>1, <2>4 DEF Resumes
    <2>6. /\ n \in Media /\ n.at = m.at /\ n.currentTime = m.currentTime
          /\ n.playbackRate = m.playbackRate
          /\ ToldRate(n) => ToldRate(m)
      BY <2>4, SaysFields DEF ClockEvents, AnchoringEvents
    <2>7. QED
      BY <2>2, <2>3, <2>5, <2>6, MediaMoves
  <1>8. CASE TogglesMedia
    <2>1. PICK m \in Media : m = [caught EXCEPT !.paused = ~@]
      BY <1>2 DEF Media
    <2>2. /\ m.at = media.at /\ m.currentTime = media.at
          /\ m.playbackRate = media.playbackRate /\ m.events = media.events
      BY <1>2, <1>3, <2>1 DEF Media
    <2>3. ToldRate(m) <=> ToldRate(media)
      BY <2>2 DEF ToldRate
    <2>4. PICK type, n : /\ type = IF media.paused THEN "play" ELSE "pause"
                         /\ n = Says(m, type)
      OBVIOUS
    <2>5. media' = n /\ clock' = clock /\ moved' = moved
      BY <1>2, <1>8, <2>1, <2>4 DEF TogglesMedia
    <2>6. /\ n \in Media /\ n.at = m.at /\ n.currentTime = m.currentTime
          /\ n.playbackRate = m.playbackRate
          /\ ToldRate(n) => ToldRate(m)
      BY <2>4, SaysFields DEF ClockEvents, AnchoringEvents
    <2>7. QED
      BY <2>2, <2>3, <2>5, <2>6, MediaMoves
  <1>9. CASE ChangesRate
    <2>1. PICK rate \in Rates :
            media' = Says([media EXCEPT !.playbackRate = rate], "ratechange")
      BY <1>9 DEF ChangesRate
    <2>2. PICK m \in Media : m = [media EXCEPT !.playbackRate = rate]
      BY <1>1 DEF Media
    <2>3. m.at = media.at /\ m.currentTime = media.currentTime
      BY <1>1, <2>2 DEF Media
    <2>4. PICK n : n = Says(m, "ratechange")
      OBVIOUS
    <2>5. media' = n /\ clock' = clock /\ moved' = moved
      BY <1>9, <2>1, <2>2, <2>4 DEF ChangesRate
    <2>6. n \in Media /\ n.at = m.at /\ n.currentTime = m.currentTime /\ ~ToldRate(n)
      BY <2>4, SaysFields DEF ClockEvents, AnchoringEvents
    <2>7. QED
      BY <2>3, <2>5, <2>6, MediaMoves
  <1>10. QED
    BY <1>5, <1>6, <1>7, <1>8, <1>9

LEMMA ClockStarts == ClockInit => ClockInv
  <1> SUFFICES ASSUME ClockInit
               PROVE  ClockInv
    OBVIOUS
  <1>1. 0 \in 0..MaxAge /\ 0 \in 0..MaxTicks /\ MAX_LEAD \in Nat
    BY ClockAssumption
  <1>2. /\ media \in Media /\ media.at = 0 /\ media.currentTime = 0
        /\ media.playbackRate = 2
    BY <1>1 DEF ClockInit, Media, Rates
  <1>3. /\ clock \in ClockTypes /\ clock.anchorTime = 0 /\ clock.elapsed = 0
        /\ clock.reading = 0 /\ clock.last = 0 /\ clock.mayGoBack
    BY DEF ClockInit, ClockTypes
  <1>4. extrapolate(clock, media) = 0
    BY <1>2, <1>3, RateTimes
  <1>5. ClockTyped
    BY <1>2, <1>3 DEF ClockInit, ClockTyped
  <1>6. Readings /\ Extrapolates
    BY <1>2, <1>3, <1>4 DEF Readings, Extrapolates, PastReading
  <1>7. ShownSoon
    BY <1>3 DEF ShownSoon
  <1>8. QED
    BY <1>5, <1>6, <1>7 DEF ClockInv

LEMMA TicksKeeps ==
  ASSUME ClockInv, Ticks
  PROVE  ClockInv'
  <1>1. /\ media \in Media /\ media.at \in Nat /\ media.currentTime \in Nat
        /\ media.age \in 0..MaxAge /\ media.ticks \in 0..MaxTicks
        /\ media.playbackRate \in {1, 2}
        /\ clock \in ClockTypes /\ clock.elapsed \in Nat /\ clock.anchorTime \in Nat
        /\ clock.reading \in Nat /\ clock.last \in Nat /\ MAX_LEAD \in Nat
    BY ClockAssumption DEF ClockInv, ClockTyped, Media, ClockTypes, Rates
  <1>2. PICK at, age, ticks :
          /\ at = IF Plays(media) THEN media.at + media.playbackRate ELSE media.at
          /\ age = IF Plays(media) THEN media.age + 1 ELSE media.age
          /\ ticks = media.ticks + 1
    OBVIOUS
  <1>3. /\ at \in Nat /\ media.at <= at /\ age \in 0..MaxAge /\ ticks \in 0..MaxTicks
    BY <1>1, <1>2, ClockAssumption DEF Ticks
  <1>4. media' = [media EXCEPT !.ticks = ticks, !.at = at, !.age = age]
    BY <1>1, <1>2 DEF Ticks, Media
  <1>5. /\ media' \in Media /\ media'.at = at /\ media'.currentTime = media.currentTime
        /\ media'.playbackRate = media.playbackRate /\ media'.events = media.events
    BY <1>1, <1>3, <1>4 DEF Media
  <1>6. PICK elapsed \in Nat : elapsed = clock.elapsed + 1
    BY <1>1
  <1>7. clock' = [clock EXCEPT !.elapsed = elapsed] /\ moved' = moved
    BY <1>1, <1>6 DEF Ticks, ClockTypes
  <1>8. /\ clock' \in ClockTypes /\ clock'.elapsed = elapsed
        /\ clock'.anchorTime = clock.anchorTime /\ clock'.reading = clock.reading
        /\ clock'.last = clock.last /\ clock'.mayGoBack = clock.mayGoBack
    BY <1>1, <1>7 DEF ClockTypes
  <1>9. ClockTyped'
    BY <1>5, <1>7, <1>8 DEF ClockInv, ClockTyped
  <1>10. Readings'
    BY <1>1, <1>3, <1>5, <1>8 DEF ClockInv, Readings
  <1>11. Extrapolates'
    <2>1. PICK c \in ClockTypes, m \in Media : c = clock' /\ m = media'
      BY <1>5, <1>8
    <2>2. extrapolate(c, m) >= extrapolate(clock, media)
      <3>1. extrapolate(clock, media) = clock.anchorTime + clock.elapsed * media.playbackRate
        BY DEF extrapolate
      <3>2. extrapolate(c, m) = clock.anchorTime + elapsed * media.playbackRate
        BY <1>5, <1>8, <2>1 DEF extrapolate
      <3>3. CASE media.playbackRate = 1
        BY <1>1, <1>6, <3>1, <3>2, <3>3
      <3>4. CASE media.playbackRate = 2
        BY <1>1, <1>6, <3>1, <3>2, <3>4
      <3>5. QED
        BY <1>1, <3>3, <3>4
    <2>3. extrapolate(c, m) \in Nat /\ extrapolate(clock, media) \in Nat
      BY <1>1, <2>1, RateTimes
    <2>4. PastReading(clock, media) => PastReading(c, m)
      BY <1>1, <1>8, <2>1, <2>2, <2>3 DEF PastReading
    <2>5. ToldRate(m) <=> ToldRate(media)
      BY <1>5, <2>1 DEF ToldRate
    <2>6. ToldRate(m) => PastReading(c, m)
      BY <2>4, <2>5 DEF ClockInv, Extrapolates
    <2>7. QED
      BY <2>1, <2>6 DEF Extrapolates, ToldRate, PastReading, extrapolate
  <1>12. ShownSoon'
    BY <1>1, <1>3, <1>5, <1>7, <1>8 DEF ClockInv, ShownSoon
  <1>13. QED
    BY <1>9, <1>10, <1>11, <1>12 DEF ClockInv

(* The clock alone, and its element as it is by then.                      *)
LEMMA ClockMoves ==
  ASSUME NEW c \in ClockTypes, NEW m \in Media, media' = m, clock' = c,
         moved' \in BOOLEAN,
         c.reading <= m.currentTime, m.currentTime <= m.at,
         ToldRate(m) => PastReading(c, m),
         c.mayGoBack => moved' \/ c.last = 0,
         ~c.mayGoBack => c.last <= m.at + MAX_LEAD
  PROVE  ClockInv'
  BY DEF ClockInv, ClockTyped, Readings, Extrapolates, ShownSoon, ToldRate,
         PastReading, extrapolate

LEMMA SeeksKeeps ==
  ASSUME ClockInv, Seeks
  PROVE  ClockInv'
  <1>1. media \in Media /\ clock \in ClockTypes
    BY DEF ClockInv, ClockTyped
  <1>2. PICK t \in SeekTargets :
          LET m == Says([media EXCEPT !.at = t, !.currentTime = t, !.age = 0], "seeked") IN
          media' = m /\ clock' = jump(clock, m)
    BY DEF Seeks
  <1>3. t \in Nat /\ 0 \in 0..MaxAge
    BY ClockAssumption
  <1>4. PICK n \in Media : n = [media EXCEPT !.at = t, !.currentTime = t, !.age = 0]
    BY <1>1, <1>3 DEF Media
  <1>5. n.at = t /\ n.currentTime = t
    BY <1>1, <1>4 DEF Media
  <1>6. PICK m : m = Says(n, "seeked")
    OBVIOUS
  <1>7. m \in Media /\ m.at = t /\ m.currentTime = t
    BY <1>5, <1>6, SaysFields DEF ClockEvents, AnchoringEvents
  <1>8. PICK b \in ClockTypes : b = [clock EXCEPT !.mayGoBack = TRUE]
    BY <1>1 DEF ClockTypes
  <1>9. b.mayGoBack
    BY <1>1, <1>8 DEF ClockTypes
  <1>10. PICK c : c = anchor(b, m)
    OBVIOUS
  <1>11. /\ c \in ClockTypes /\ c.reading = t /\ c.mayGoBack /\ PastReading(c, m)
    BY <1>7, <1>9, <1>10, AnchorFields
  <1>12. media' = m /\ clock' = c /\ moved' = TRUE
    BY <1>2, <1>4, <1>6, <1>8, <1>10 DEF Seeks, jump
  <1>13. QED
    BY <1>3, <1>7, <1>11, <1>12, ClockMoves

LEMMA HearsEventKeeps ==
  ASSUME ClockInv, HearsEvent
  PROVE  ClockInv'
  <1>1. /\ media \in Media /\ clock \in ClockTypes /\ media.events # <<>>
        /\ media.at \in Nat /\ media.currentTime \in Nat /\ clock.reading \in Nat
        /\ clock.last \in Nat /\ MAX_LEAD \in Nat /\ moved \in BOOLEAN
        /\ clock.waiting \in BOOLEAN /\ clock.mayGoBack \in BOOLEAN
    BY ClockAssumption DEF HearsEvent, ClockInv, ClockTyped, Media, ClockTypes
  <1>2. PICK m, type : m = [media EXCEPT !.events = Tail(@)] /\ type = Head(media.events)
    OBVIOUS
  <1>3. /\ m \in Media /\ m.at = media.at /\ m.currentTime = media.currentTime
        /\ m.playbackRate = media.playbackRate
        /\ ToldRate(media) <=> ToldRate(m) /\ type # "ratechange"
    BY <1>1, <1>2, HeardEvent
  <1>4. /\ media' = m
        /\ clock' = IF type \in AnchoringEvents THEN observe(clock, m, type)
                                                ELSE read(clock, m)
        /\ moved' = (moved \/ type = "seeked")
    BY <1>2 DEF HearsEvent
  <1>5. CASE type \in AnchoringEvents
    <2>1. PICK waiting, mayGoBack :
            /\ waiting = CASE type = "waiting"              -> TRUE
                           [] type \in {"playing", "pause"} -> FALSE
                           [] OTHER                         -> clock.waiting
            /\ mayGoBack = (clock.mayGoBack \/ type = "seeked")
      OBVIOUS
    <2>2. waiting \in BOOLEAN /\ mayGoBack \in BOOLEAN
      BY <1>1, <2>1
    <2>3. PICK b : b = [clock EXCEPT !.waiting = waiting, !.mayGoBack = mayGoBack]
      OBVIOUS
    <2>4. b \in ClockTypes /\ b.last = clock.last /\ b.mayGoBack = mayGoBack
      BY <1>1, <2>2, <2>3 DEF ClockTypes
    <2>5. PICK c : c = anchor(b, m)
      OBVIOUS
    <2>6. /\ c \in ClockTypes /\ c.reading = m.currentTime
          /\ c.mayGoBack = mayGoBack /\ c.last = clock.last /\ PastReading(c, m)
      BY <1>3, <2>4, <2>5, AnchorFields
    <2>7. clock' = c
      BY <1>1, <1>4, <1>5, <2>1, <2>3, <2>5 DEF observe, ClockTypes
    <2>8. /\ c.mayGoBack => moved' \/ c.last = 0
          /\ ~c.mayGoBack => c.last <= m.at + MAX_LEAD
      BY <1>3, <1>4, <2>1, <2>6 DEF ClockInv, ShownSoon
    <2>9. /\ m.currentTime <= m.at /\ moved' \in BOOLEAN
          /\ c.reading <= m.currentTime
      BY <1>1, <1>3, <1>4, <2>6 DEF ClockInv, Readings
    <2>10. QED
      BY <1>3, <1>4, <2>6, <2>7, <2>8, <2>9, ClockMoves
  <1>6. CASE type \notin AnchoringEvents
    <2>1. PICK c : c = read(clock, m)
      OBVIOUS
    <2>2. /\ c \in ClockTypes /\ c.reading = m.currentTime
          /\ c.last = clock.last /\ c.mayGoBack = clock.mayGoBack
          /\ PastReading(clock, m) => PastReading(c, m)
      BY <1>1, <1>3, <2>1, ReadFields
    <2>3. type # "ratechange"
      BY <1>6 DEF AnchoringEvents
    <2>4. PastReading(clock, media) => PastReading(clock, m)
      BY <1>3 DEF PastReading, extrapolate
    <2>5. ToldRate(m) => PastReading(c, m)
      BY <1>3, <2>2, <2>3, <2>4 DEF ClockInv, Extrapolates
    <2>6. /\ c.mayGoBack => moved' \/ c.last = 0
          /\ ~c.mayGoBack => c.last <= m.at + MAX_LEAD
      BY <1>3, <1>4, <2>2 DEF ClockInv, ShownSoon
    <2>7. /\ m.currentTime <= m.at /\ moved' \in BOOLEAN /\ clock' = c
          /\ c.reading <= m.currentTime
      BY <1>1, <1>3, <1>4, <1>6, <2>1, <2>2 DEF ClockInv, Readings
    <2>8. QED
      BY <1>3, <1>4, <2>2, <2>5, <2>6, <2>7, ClockMoves
  <1>7. QED
    BY <1>5, <1>6

LEMMA DrawsFrameKeeps ==
  ASSUME ClockInv, DrawsFrame
  PROVE  ClockInv'
  <1>1. /\ media \in Media /\ clock \in ClockTypes
        /\ media.at \in Nat /\ media.currentTime \in Nat
        /\ clock.last \in Nat /\ MAX_LEAD \in Nat
        /\ clock.reading <= media.currentTime /\ media.currentTime <= media.at
    BY ClockAssumption DEF ClockInv, ClockTyped, Media, ClockTypes, Readings
  <1>2. PICK c, m : c = now(clock, media) /\ m = media
    OBVIOUS
  <1>3. /\ c \in ClockTypes /\ c.reading <= m.currentTime /\ ~c.mayGoBack
        /\ PastReading(clock, m) => PastReading(c, m)
        /\ \/ c.last <= m.currentTime + MAX_LEAD
           \/ ~clock.mayGoBack /\ c.last = clock.last
    BY <1>1, <1>2, NowFields
  <1>4. media' = m /\ clock' = c /\ moved' = FALSE
    BY <1>2 DEF DrawsFrame
  <1>5. c.last <= m.at + MAX_LEAD
    <2>1. c.last \in Nat
      BY <1>3 DEF ClockTypes
    <2>2. QED
      BY <1>1, <1>2, <1>3, <2>1 DEF ClockInv, ShownSoon
  <1>6. ToldRate(m) => PastReading(c, m)
    BY <1>2, <1>3 DEF ClockInv, Extrapolates
  <1>7. QED
    BY <1>1, <1>2, <1>3, <1>4, <1>5, <1>6, ClockMoves

LEMMA ClockKeeps == ClockInv /\ [ClockNext]_clockVars => ClockInv'
  <1> SUFFICES ASSUME ClockInv, [ClockNext]_clockVars
               PROVE  ClockInv'
    OBVIOUS
  <1>1. CASE UNCHANGED clockVars
    BY <1>1 DEF clockVars, ClockInv, ClockTyped, Readings, Extrapolates, ShownSoon,
                ToldRate, PastReading, extrapolate
  <1>2. QED
    BY <1>1, TicksKeeps, ElementKeeps, SeeksKeeps, HearsEventKeeps, DrawsFrameKeeps
       DEF ClockNext

LEMMA ClockSound == ClockSpec => []ClockInv
  BY ClockStarts, ClockKeeps, PTL DEF ClockSpec

(* What a frame shows is ahead of the song by MAX_LEAD at the most, and    *)
(* not behind the element's last reading (MediaClock.now, read).           *)
THEOREM ShownNear == ClockSpec => []ClockNear
  <1>1. ClockInv => ClockNear
    <2> SUFFICES ASSUME ClockInv
                 PROVE  ClockNear
      OBVIOUS
    <2>1. /\ media \in Media /\ clock \in ClockTypes
          /\ media.at \in Nat /\ media.currentTime \in Nat
          /\ clock.last \in Nat /\ MAX_LEAD \in Nat
          /\ clock.reading <= media.currentTime /\ media.currentTime <= media.at
      BY ClockAssumption DEF ClockInv, ClockTyped, Media, ClockTypes, Readings
    <2>2. PICK c : c = now(clock, media)
      OBVIOUS
    <2>3. /\ c \in ClockTypes
          /\ PastReading(clock, media) => c.last >= media.currentTime
          /\ \/ c.last <= media.currentTime + MAX_LEAD
             \/ ~clock.mayGoBack /\ c.last = clock.last
      BY <2>1, <2>2, NowFields
    <2>4. c.last \in Nat
      BY <2>3 DEF ClockTypes
    <2>5. c.last <= media.at + MAX_LEAD
      BY <2>1, <2>3, <2>4 DEF ClockInv, ShownSoon
    <2>6. ToldRate(media) => c.last >= media.currentTime
      BY <2>3 DEF ClockInv, Extrapolates
    <2>7. QED
      BY <2>2, <2>5, <2>6 DEF ClockNear, ToldRate
  <1>2. QED
    BY <1>1, ClockSound, PTL

(* The strip runs backwards only for a seek, or to stand, and then by no   *)
(* more than it had run ahead (MediaClock.now).                            *)
THEOREM BackOnlyToStand == ClockSpec => NeverBack
  <1>1. ClockInv /\ [ClockNext]_clockVars =>
          (clock'.last < clock.last =>
             \/ moved
             \/ /\ media.paused \/ clock.waiting
                /\ clock.last - media.at <= MAX_LEAD)
    <2> SUFFICES ASSUME ClockInv, [ClockNext]_clockVars, clock'.last < clock.last
                 PROVE  \/ moved
                        \/ /\ media.paused \/ clock.waiting
                           /\ clock.last - media.at <= MAX_LEAD
      OBVIOUS
    <2>1. /\ media \in Media /\ clock \in ClockTypes
          /\ media.at \in Nat /\ clock.last \in Nat /\ MAX_LEAD \in Nat
          /\ clock.reading <= media.currentTime
      BY ClockAssumption DEF ClockInv, ClockTyped, Media, ClockTypes, Readings
    <2>2. CASE DrawsFrame
      <3>1. PICK c : c = now(clock, media)
        OBVIOUS
      <3>2. /\ c \in ClockTypes
            /\ c.last < clock.last => clock.mayGoBack \/ media.paused \/ clock.waiting
        BY <2>1, <3>1, NowFields
      <3>3. c.last < clock.last /\ c.last \in Nat
        BY <2>2, <3>1, <3>2 DEF DrawsFrame, ClockTypes
      <3>4. clock.mayGoBack => moved
        BY <2>1, <3>3 DEF ClockInv, ShownSoon
      <3>5. QED
        BY <2>1, <3>2, <3>3, <3>4 DEF ClockInv, ShownSoon
    <2>3. CASE ~DrawsFrame
      <3>1. clock'.last = clock.last
        <4>1. CASE Ticks
          BY <2>1, <4>1 DEF Ticks, ClockTypes
        <4>2. CASE Seeks
          BY <2>1, <4>2 DEF Seeks, jump, anchor, ClockTypes
        <4>3. CASE HearsEvent
          <5>1. PICK m, type :
                  clock' = IF type \in AnchoringEvents THEN observe(clock, m, type)
                                                       ELSE read(clock, m)
            BY <4>3 DEF HearsEvent
          <5>2. observe(clock, m, type).last = clock.last
            BY <2>1 DEF observe, anchor, ClockTypes
          <5>3. read(clock, m).last = clock.last
            BY <2>1 DEF read, anchor, ClockTypes
          <5>4. QED
            BY <5>1, <5>2, <5>3
        <4>4. CASE CatchesUp \/ Stalls \/ Resumes \/ TogglesMedia \/ ChangesRate
          BY <4>4 DEF CatchesUp, Stalls, Resumes, TogglesMedia, ChangesRate
        <4>5. QED
          BY <2>3, <4>1, <4>2, <4>3, <4>4 DEF ClockNext, clockVars
      <3>2. QED
        BY <2>1, <3>1
    <2>4. QED
      BY <2>2, <2>3
  <1>2. QED
    BY <1>1, ClockSound, PTL DEF ClockSpec, NeverBack

-----------------------------------------------------------------------------
(* The engine.                                                             *)

Pendings == [at : Places, resume : BOOLEAN]

PlayerTypes ==
  [ready : {"nothing", "metadata", "failed"}, paused : BOOLEAN, place : Places,
   src : Sources, events : Seq(EventNames), pending : Pendings \cup {None},
   playing : BOOLEAN, source : Sources, error : BOOLEAN, time : Places,
   a : Points, b : Points, failures : Nat, played : Nat, mark : Places,
   previous : Places, held : BOOLEAN, frame : BOOLEAN]

(* A file that failed is done with: what waits after its error is not of   *)
(* its loading.                                                            *)
ErrorLast(s) ==
  \A i, j \in 1..Len(s) :
    i < j /\ s[i] = "error" => s[j] \notin {"error", "loadedmetadata"}

(* An engine that has given up, and an element that has failed.            *)
GivenUp(p) ==
  p.error =>
    /\ p.ready = "failed" /\ p.pending # None /\ ~p.playing /\ ~p.pending.resume
    /\ ~Contains(p.events, "error") /\ ~Contains(p.events, "loadedmetadata")

Failing(p) ==
  ErrorLast(p.events) /\ (Contains(p.events, "error") => p.ready = "failed")

(* While a source loads, playing is what it will do; else what the element *)
(* does, once it has said so.                                              *)
Agrees(p) ==
  IF p.pending # None
  THEN p.playing = p.pending.resume
  ELSE p.playing = ~p.paused \/ Contains(p.events, "play") \/ Contains(p.events, "pause")

FramesGoOn(p) == p.playing /\ p.pending = None => p.frame

(* The time shown is where the song is, or will be drawn, or is to be      *)
(* told: by a reading that no new load throws away, or that is next.       *)
TimeTold(p) ==
  p.time # Time(p) =>
    \/ p.frame
    \/ p.pending = None /\ p.place # 0 /\ Contains(p.events, "timeupdate")
    \/ p.pending # None /\ p.events # <<>> /\ Head(p.events) = "timeupdate"

(* The position that the loop is judged from is the element's, or it will  *)
(* be told.                                                                *)
PreviousTold(p) ==
  p.pending = None /\ p.previous # p.place => Contains(p.events, "timeupdate")

Core(p) == p \in PlayerTypes /\ GivenUp(p) /\ Failing(p)
Whole(p) == Core(p) /\ FramesGoOn(p) /\ Agrees(p) /\ TimeTold(p) /\ PreviousTold(p)

(* A change that is shown asks for a frame, and none is taken back.        *)
Asks(p, q) == (p.frame => q.frame) /\ (q.frame \/ q.time = p.time)

EngineInv == Whole(player) /\ (~player.frame => drawn = player.time)

-----------------------------------------------------------------------------
(* The queue of events.                                                    *)

(* t is s with `event` queued.                                             *)
Queued(s, t, event) ==
  /\ t \in Seq(EventNames) /\ t # <<>>
  /\ \A e : Contains(t, e) <=> Contains(s, e) \/ e = event
  /\ s # <<>> => Head(t) = Head(s)
  /\ s = <<>> => Head(t) = event
  /\ /\ ErrorLast(s)
     /\ Contains(s, "error") => event \notin {"error", "loadedmetadata"}
     => ErrorLast(t)

LEMMA AppendQueued ==
  ASSUME NEW s \in Seq(EventNames), NEW event \in EventNames,
         NEW t, t = Append(s, event)
  PROVE  Queued(s, t, event)
  <1>1. /\ t \in Seq(EventNames) /\ Len(t) = Len(s) + 1 /\ Len(s) \in Nat
        /\ \A i \in 1..Len(s) : t[i] = s[i]
        /\ t[Len(s) + 1] = event
    OBVIOUS
  <1>2. 1..Len(t) = (1..Len(s)) \cup {Len(s) + 1}
    BY <1>1
  <1>3. t # <<>> /\ Head(t) = t[1]
    BY <1>1
  <1>4. \A e : Contains(t, e) <=> Contains(s, e) \/ e = event
    BY <1>1, <1>2 DEF Contains
  <1>5. s # <<>> => Head(t) = Head(s)
    <2>1. s # <<>> => Len(s) > 0 /\ Head(s) = s[1]
      BY <1>1
    <2>2. QED
      BY <1>1, <1>3, <2>1
  <1>6. s = <<>> => Head(t) = event
    <2>1. s = <<>> => Len(s) = 0
      OBVIOUS
    <2>2. QED
      BY <1>1, <1>3, <2>1
  <1>7. ASSUME ErrorLast(s),
               Contains(s, "error") => event \notin {"error", "loadedmetadata"}
        PROVE  ErrorLast(t)
    <2> SUFFICES ASSUME NEW i \in 1..Len(t), NEW j \in 1..Len(t), i < j, t[i] = "error"
                 PROVE  t[j] \notin {"error", "loadedmetadata"}
      BY DEF ErrorLast
    <2>1. i \in 1..Len(s) /\ s[i] = "error"
      BY <1>1, <1>2
    <2>2. CASE j \in 1..Len(s)
      BY <1>1, <1>7, <2>1, <2>2 DEF ErrorLast
    <2>3. CASE j = Len(s) + 1
      BY <1>1, <1>7, <2>1, <2>3 DEF Contains
    <2>4. QED
      BY <1>2, <2>2, <2>3
  <1>8. QED
    BY <1>1, <1>3, <1>4, <1>5, <1>6, <1>7 DEF Queued

LEMMA TailOfQueue ==
  ASSUME NEW s \in Seq(EventNames), s # <<>>
  PROVE  /\ Tail(s) \in Seq(EventNames) /\ Head(s) \in EventNames
         /\ \A e : Contains(s, e) <=> Head(s) = e \/ Contains(Tail(s), e)
         /\ ErrorLast(s) => ErrorLast(Tail(s))
         /\ ErrorLast(s) /\ Head(s) = "error" =>
              ~Contains(Tail(s), "error") /\ ~Contains(Tail(s), "loadedmetadata")
  <1>1. PICK t : t = Tail(s)
    OBVIOUS
  <1>2. /\ t \in Seq(EventNames) /\ Len(s) \in Nat /\ Len(s) > 0
        /\ Len(t) = Len(s) - 1 /\ Head(s) = s[1]
        /\ \A i \in 1..(Len(s) - 1) : t[i] = s[i + 1]
    BY <1>1
  <1>3. ASSUME NEW i \in 1..Len(t)
        PROVE  i + 1 \in 1..Len(s) /\ i + 1 > 1 /\ s[i + 1] = t[i]
    BY <1>2
  <1>4. ASSUME NEW i \in 1..Len(s), i # 1
        PROVE  i - 1 \in 1..Len(t) /\ t[i - 1] = s[i]
    BY <1>2, <1>4
  <1>5. 1 \in 1..Len(s) /\ s[1] \in EventNames
    BY <1>2
  <1>6. ASSUME NEW e
        PROVE  Contains(s, e) <=> Head(s) = e \/ Contains(t, e)
    BY <1>2, <1>3, <1>4, <1>5 DEF Contains
  <1>7. ASSUME ErrorLast(s)
        PROVE  ErrorLast(t)
    <2> SUFFICES ASSUME NEW i \in 1..Len(t), NEW j \in 1..Len(t), i < j, t[i] = "error"
                 PROVE  t[j] \notin {"error", "loadedmetadata"}
      BY DEF ErrorLast
    <2>1. i + 1 < j + 1
      OBVIOUS
    <2>2. QED
      BY <1>3, <1>7, <2>1 DEF ErrorLast
  <1>8. ASSUME ErrorLast(s), Head(s) = "error", NEW i \in 1..Len(t)
        PROVE  t[i] \notin {"error", "loadedmetadata"}
    BY <1>2, <1>3, <1>5, <1>8 DEF ErrorLast
  <1>9. QED
    BY <1>1, <1>2, <1>5, <1>6, <1>7, <1>8 DEF Contains

LEMMA NoneQueued ==
  /\ <<>> \in Seq(EventNames) /\ ErrorLast(<<>>) /\ \A e : ~Contains(<<>>, e)
  /\ <<"timeupdate">> \in Seq(EventNames) /\ <<"timeupdate">> # <<>>
  /\ ErrorLast(<<"timeupdate">>) /\ Head(<<"timeupdate">>) = "timeupdate"
  /\ \A e : Contains(<<"timeupdate">>, e) <=> e = "timeupdate"
  <1>1. PICK s : s = <<"timeupdate">>
    OBVIOUS
  <1>2. s \in Seq(EventNames) /\ Len(s) = 1 /\ s[1] = "timeupdate" /\ Head(s) = "timeupdate"
    BY <1>1 DEF EventNames
  <1>3. 1..Len(s) = {1}
    BY <1>2
  <1>4. ErrorLast(s)
    <2>1. \A i, j \in 1..Len(s) : i = 1 /\ j = 1
      BY <1>3
    <2>2. QED
      BY <2>1 DEF ErrorLast
  <1>5. ASSUME NEW e
        PROVE  Contains(s, e) <=> e = "timeupdate"
    BY <1>2, <1>3 DEF Contains
  <1>6. s # <<>>
    <2>1. Len(s) = 1 /\ s \in Seq(EventNames)
      BY <1>2
    <2>2. QED
      BY <2>1, EmptySeq
  <1>7. <<>> \in Seq(EventNames) /\ ErrorLast(<<>>) /\ \A e : ~Contains(<<>>, e)
    BY DEF ErrorLast, Contains
  <1>8. QED
    BY <1>1, <1>2, <1>4, <1>6, <1>7, <1>5

(* What it says waits, and all else stays.                                 *)
LEMMA QueueFields ==
  ASSUME NEW p \in PlayerTypes, NEW event \in EventNames, NEW q, q = Queue(p, event)
  PROVE  /\ q \in PlayerTypes /\ Queued(p.events, q.events, event)
         /\ q = [p EXCEPT !.events = q.events]
         /\ q.ready = p.ready /\ q.paused = p.paused /\ q.place = p.place
         /\ q.pending = p.pending /\ q.playing = p.playing /\ q.error = p.error
         /\ q.time = p.time /\ q.previous = p.previous /\ q.frame = p.frame
  <1>1. PICK s \in Seq(EventNames) : s = p.events
    BY DEF PlayerTypes
  <1>2. CASE event = "timeupdate" /\ Contains(s, event)
    <2>1. q = p
      BY <1>1, <1>2 DEF Queue
    <2>2. s # <<>>
      BY <1>2, NoneQueued
    <2>3. Queued(s, s, event)
      BY <1>2, <2>2 DEF Queued
    <2>4. q = [p EXCEPT !.events = s]
      BY <1>1, <2>1 DEF PlayerTypes
    <2>5. QED
      BY <1>1, <2>1, <2>3, <2>4
  <1>3. CASE ~(event = "timeupdate" /\ Contains(s, event))
    <2>1. PICK t : t = Append(s, event)
      OBVIOUS
    <2>2. Queued(s, t, event)
      BY <2>1, AppendQueued
    <2>3. q = [p EXCEPT !.events = t]
      BY <1>1, <1>3, <2>1 DEF Queue
    <2>4. t \in Seq(EventNames)
      BY <2>2 DEF Queued
    <2>5. /\ q \in PlayerTypes /\ q.events = t
          /\ q.ready = p.ready /\ q.paused = p.paused /\ q.place = p.place
          /\ q.pending = p.pending /\ q.playing = p.playing /\ q.error = p.error
          /\ q.time = p.time /\ q.previous = p.previous /\ q.frame = p.frame
      BY <2>3, <2>4 DEF PlayerTypes
    <2>6. QED
      BY <1>1, <2>2, <2>3, <2>5
  <1>4. QED
    BY <1>2, <1>3

(* What of a player the invariant is about is the same, but that a frame   *)
(* may have been asked for.                                                *)
Like(p, q) ==
  /\ q.ready = p.ready /\ q.paused = p.paused /\ q.place = p.place
  /\ q.events = p.events /\ q.pending = p.pending /\ q.playing = p.playing
  /\ q.error = p.error /\ q.time = p.time /\ q.previous = p.previous
  /\ p.frame => q.frame

(* The fields the engine keeps for itself are the same.                    *)
Kept(p, q) ==
  /\ q.pending = p.pending /\ q.playing = p.playing /\ q.error = p.error
  /\ q.time = p.time /\ q.previous = p.previous /\ q.frame = p.frame

LEMMA SeekElementFields ==
  ASSUME NEW p \in PlayerTypes, NEW t \in Places, NEW q, q = ElementSeek(p, t)
  PROVE  /\ q \in PlayerTypes /\ Queued(p.events, q.events, "timeupdate")
         /\ q.place = t /\ q.ready = p.ready /\ q.paused = p.paused /\ Kept(p, q)
  <1>1. PICK r : r = [p EXCEPT !.place = t]
    OBVIOUS
  <1>2. /\ r \in PlayerTypes /\ r.place = t /\ r.ready = p.ready
        /\ r.paused = p.paused /\ r.events = p.events /\ Kept(p, r)
    BY <1>1 DEF PlayerTypes, Kept
  <1>3. q = Queue(r, "timeupdate") /\ "timeupdate" \in EventNames
    BY <1>1 DEF ElementSeek, EventNames
  <1>4. QED
    BY <1>2, <1>3, QueueFields DEF Kept

LEMMA PlayElementFields ==
  ASSUME NEW p \in PlayerTypes, NEW q, q = ElementPlay(p)
  PROVE  /\ q \in PlayerTypes /\ ~q.paused
         /\ IF p.paused THEN Queued(p.events, q.events, "play")
                        ELSE q.events = p.events
         /\ q.place = p.place /\ q.ready = p.ready /\ Kept(p, q)
  <1>1. PICK r : r = [p EXCEPT !.paused = FALSE]
    OBVIOUS
  <1>2. /\ r \in PlayerTypes /\ r.place = p.place /\ r.ready = p.ready
        /\ ~r.paused /\ r.events = p.events /\ Kept(p, r)
    BY <1>1 DEF PlayerTypes, Kept
  <1>3. (p.paused => q = Queue(r, "play")) /\ (~p.paused => q = p)
    BY <1>1 DEF ElementPlay
  <1>4. "play" \in EventNames /\ Kept(p, p)
    BY DEF EventNames, Kept
  <1>5. CASE p.paused
    BY <1>2, <1>3, <1>4, <1>5, QueueFields DEF Kept
  <1>6. CASE ~p.paused
    BY <1>3, <1>4, <1>6
  <1>7. QED
    BY <1>5, <1>6

LEMMA PauseElementFields ==
  ASSUME NEW p \in PlayerTypes, NEW q, q = ElementPause(p)
  PROVE  /\ q \in PlayerTypes /\ q.paused
         /\ IF p.paused THEN q.events = p.events
                        ELSE Queued(p.events, q.events, "pause")
         /\ q.place = p.place /\ q.ready = p.ready /\ Kept(p, q)
  <1>1. PICK r : r = [p EXCEPT !.paused = TRUE]
    OBVIOUS
  <1>2. /\ r \in PlayerTypes /\ r.place = p.place /\ r.ready = p.ready
        /\ r.paused /\ r.events = p.events /\ Kept(p, r)
    BY <1>1 DEF PlayerTypes, Kept
  <1>3. (~p.paused => q = Queue(r, "pause")) /\ (p.paused => q = p)
    BY <1>1 DEF ElementPause
  <1>4. "pause" \in EventNames /\ Kept(p, p)
    BY DEF EventNames, Kept
  <1>5. CASE ~p.paused
    BY <1>2, <1>3, <1>4, <1>5, QueueFields DEF Kept
  <1>6. CASE p.paused
    BY <1>3, <1>4, <1>6
  <1>7. QED
    BY <1>5, <1>6

-----------------------------------------------------------------------------
(* What the engine's methods do.                                           *)

LEMMA RedrawFields ==
  ASSUME NEW p \in PlayerTypes, NEW q, q = Redraw(p)
  PROVE  q \in PlayerTypes /\ Like(p, q) /\ q.frame
  BY DEF Redraw, PlayerTypes, Like

(* What is shown of the new player either is what was shown, or is drawn.  *)
LEMMA UpdateFields ==
  ASSUME NEW p \in PlayerTypes, NEW r \in PlayerTypes, NEW q, q = Update(p, r)
  PROVE  /\ q \in PlayerTypes /\ Like(r, q)
         /\ q.frame \/ (q.playing = p.playing /\ q.time = p.time)
  <1>1. CASE Shown(p) = Shown(r)
    <2>1. q = r /\ r.playing = p.playing /\ r.time = p.time
      BY <1>1 DEF Update, Shown
    <2>2. QED
      BY <2>1 DEF Like
  <1>2. CASE Shown(p) # Shown(r)
    <2>1. q = Redraw(r)
      BY <1>2 DEF Update
    <2>2. QED
      BY <2>1, RedrawFields
  <1>3. QED
    BY <1>1, <1>2

LEMMA SyncFields ==
  ASSUME NEW p \in PlayerTypes, NEW q, q = SyncPlaying(p)
  PROVE  /\ q \in PlayerTypes
         /\ q.playing = IF p.pending = None THEN ~p.paused ELSE p.pending.resume
         /\ q.frame \/ q.playing = p.playing
         /\ p.frame => q.frame
         /\ q.ready = p.ready /\ q.paused = p.paused /\ q.place = p.place
         /\ q.events = p.events /\ q.pending = p.pending
         /\ q.error = p.error /\ q.time = p.time /\ q.previous = p.previous
  <1>1. PICK plays \in BOOLEAN :
          plays = IF p.pending = None THEN ~p.paused ELSE p.pending.resume
    <2>1. p.paused \in BOOLEAN /\ p.pending \in Pendings \cup {None}
      BY DEF PlayerTypes
    <2>2. p.pending # None => p.pending.resume \in BOOLEAN
      BY <2>1 DEF Pendings
    <2>3. QED
      BY <2>1, <2>2
  <1>2. PICK r : r = [p EXCEPT !.playing = plays]
    OBVIOUS
  <1>3. /\ r \in PlayerTypes /\ r.playing = plays
        /\ r.ready = p.ready /\ r.paused = p.paused /\ r.place = p.place
        /\ r.events = p.events /\ r.pending = p.pending /\ r.frame = p.frame
        /\ r.error = p.error /\ r.time = p.time /\ r.previous = p.previous
    BY <1>2 DEF PlayerTypes
  <1>4. q = Update(p, r)
    BY <1>1, <1>2 DEF SyncPlaying
  <1>5. /\ q \in PlayerTypes /\ Like(r, q)
        /\ q.frame \/ q.playing = p.playing
    BY <1>3, <1>4, UpdateFields
  <1>6. QED
    BY <1>1, <1>3, <1>5 DEF Like

(* The time shown is a place, and so are the points of a loop.             *)
LEMMA TimeInSong ==
  ASSUME NEW p \in PlayerTypes
  PROVE  /\ Time(p) \in Places
         /\ Looping(p) => LoopStart(p) \in Places
         /\ 0 \in Places
  <1>1. Time(p) \in Places
    <2>1. p.place \in Places /\ p.pending \in Pendings \cup {None}
      BY DEF PlayerTypes
    <2>2. p.pending # None => p.pending.at \in Places
      BY <2>1 DEF Pendings
    <2>3. QED
      BY <2>1, <2>2 DEF Time
  <1>2. Looping(p) => LoopStart(p) \in Places
    <2>1. p.a \in Places \cup {None} /\ p.b \in Places \cup {None}
      BY DEF PlayerTypes, Points
    <2>2. QED
      BY <2>1 DEF Looping, LoopStart
  <1>3. 0 \in Places
    BY ElementAssumption DEF Places
  <1>4. QED
    BY <1>1, <1>2, <1>3

(* What is pending is not None, and gives its parts.                       *)
LEMMA PendingParts ==
  ASSUME NEW at \in Places, NEW resume \in BOOLEAN, NEW w,
         w = [at |-> at, resume |-> resume]
  PROVE  w \in Pendings /\ w # None /\ w.at = at /\ w.resume = resume
  <1>1. w \in Pendings /\ w.at = at /\ w.resume = resume
    BY DEF Pendings
  <1>2. w # None
    BY <1>1, EngineAssumption DEF Pendings
  <1>3. QED
    BY <1>1, <1>2

LEMMA LoadFields ==
  ASSUME NEW p \in PlayerTypes, NEW at \in Places, NEW resume \in BOOLEAN,
         NEW q, q = Load(p, at, resume)
  PROVE  /\ q \in PlayerTypes
         /\ q.ready = "nothing" /\ q.paused /\ q.place = 0
         /\ q.events = IF p.place = 0 THEN <<>> ELSE <<"timeupdate">>
         /\ q.pending # None /\ q.pending.at = at /\ q.pending.resume = resume
         /\ q.playing = resume /\ (p.frame => q.frame)
         /\ q.error = p.error /\ q.time = p.time /\ q.previous = p.previous
  <1>1. PICK w : w = [at |-> at, resume |-> resume]
    OBVIOUS
  <1>2. w \in Pendings /\ w # None /\ w.at = at /\ w.resume = resume
    BY <1>1, PendingParts
  <1>3. PICK s \in Seq(EventNames) : s = IF p.place = 0 THEN <<>> ELSE <<"timeupdate">>
    BY NoneQueued
  <1>4. PICK m : m = ElementLoad(p, p.source)
    OBVIOUS
  <1>5. m = [p EXCEPT !.src = p.source, !.ready = "nothing", !.paused = TRUE,
                      !.place = 0, !.events = s]
    BY <1>3, <1>4 DEF ElementLoad
  <1>6. 0 \in Places /\ p.source \in Sources
    BY TimeInSong DEF PlayerTypes
  <1>7. /\ m \in PlayerTypes /\ m.ready = "nothing" /\ m.paused /\ m.place = 0
        /\ m.events = s /\ Kept(p, m)
    BY <1>5, <1>6 DEF PlayerTypes, Kept
  <1>8. PICK r : r = [m EXCEPT !.pending = w]
    OBVIOUS
  <1>9. /\ r \in PlayerTypes /\ r.ready = "nothing" /\ r.paused /\ r.place = 0
        /\ r.events = s /\ r.pending = w /\ r.error = p.error
        /\ r.time = p.time /\ r.previous = p.previous /\ r.frame = p.frame
    BY <1>2, <1>7, <1>8 DEF PlayerTypes, Kept
  <1>10. q = SyncPlaying(r)
    BY <1>1, <1>4, <1>8 DEF Load
  <1>11. QED
    BY <1>2, <1>3, <1>9, <1>10, SyncFields

LEMMA SeekFields ==
  ASSUME NEW p \in PlayerTypes, NEW t \in Places, NEW q, q = Seek(p, t)
  PROVE  /\ q \in PlayerTypes /\ q.frame /\ q.previous = t /\ q.time = t
         /\ q.ready = p.ready /\ q.paused = p.paused /\ q.playing = p.playing
         /\ q.error = p.error
         /\ IF p.pending = None
            THEN /\ q.pending = None /\ q.place = t
                 /\ Queued(p.events, q.events, "timeupdate")
            ELSE /\ q.pending # None /\ q.place = p.place /\ q.events = p.events
                 /\ q.pending.at = t /\ q.pending.resume = p.pending.resume
  <1>1. ASSUME NEW m \in PlayerTypes, q = Redraw([m EXCEPT !.previous = t, !.time = t])
        PROVE  /\ q \in PlayerTypes /\ q.frame /\ q.previous = t /\ q.time = t
               /\ q.ready = m.ready /\ q.paused = m.paused /\ q.playing = m.playing
               /\ q.error = m.error /\ q.pending = m.pending /\ q.place = m.place
               /\ q.events = m.events
    <2>1. PICK r : r = [m EXCEPT !.previous = t, !.time = t]
      OBVIOUS
    <2>2. /\ r \in PlayerTypes /\ r.previous = t /\ r.time = t
          /\ r.ready = m.ready /\ r.paused = m.paused /\ r.playing = m.playing
          /\ r.error = m.error /\ r.pending = m.pending /\ r.place = m.place
          /\ r.events = m.events
      BY <2>1 DEF PlayerTypes
    <2>3. q = Redraw(r)
      BY <1>1, <2>1
    <2>4. q \in PlayerTypes /\ Like(r, q) /\ q.frame
      BY <2>2, <2>3, RedrawFields
    <2>5. QED
      BY <2>2, <2>4 DEF Like
  <1>2. CASE p.pending = None
    <2>1. PICK e : e = ElementSeek(p, t)
      OBVIOUS
    <2>2. /\ e \in PlayerTypes /\ Queued(p.events, e.events, "timeupdate")
          /\ e.place = t /\ e.ready = p.ready /\ e.paused = p.paused /\ Kept(p, e)
      BY <2>1, SeekElementFields
    <2>3. PICK m : m = [e EXCEPT !.mark = t]
      OBVIOUS
    <2>4. /\ m \in PlayerTypes /\ m.events = e.events /\ m.place = t
          /\ m.ready = p.ready /\ m.paused = p.paused /\ Kept(p, m)
      BY <2>2, <2>3 DEF PlayerTypes, Kept
    <2>5. q = Redraw([m EXCEPT !.previous = t, !.time = t])
      BY <1>2, <2>1, <2>3 DEF Seek
    <2>6. QED
      BY <1>1, <1>2, <2>2, <2>4, <2>5 DEF Kept
  <1>3. CASE p.pending # None
    <2>1. PICK w : w = [p.pending EXCEPT !.at = t]
      OBVIOUS
    <2>2. p.pending \in Pendings
      BY <1>3 DEF PlayerTypes
    <2>3. w \in Pendings /\ w.at = t /\ w.resume = p.pending.resume
      BY <2>1, <2>2 DEF Pendings
    <2>4. w # None
      BY <2>3, EngineAssumption DEF Pendings
    <2>5. PICK m : m = [p EXCEPT !.pending = w]
      OBVIOUS
    <2>6. /\ m \in PlayerTypes /\ m.events = p.events /\ m.place = p.place
          /\ m.ready = p.ready /\ m.paused = p.paused /\ m.playing = p.playing
          /\ m.error = p.error /\ m.pending = w
      BY <2>3, <2>5 DEF PlayerTypes
    <2>7. m = [p EXCEPT !.pending.at = t]
      BY <2>1, <2>5
    <2>8. q = Redraw([m EXCEPT !.previous = t, !.time = t])
      BY <1>3, <2>7 DEF Seek
    <2>9. QED
      BY <1>1, <1>3, <2>3, <2>4, <2>6, <2>8
  <1>4. QED
    BY <1>2, <1>3

(* Hearing of the song's progress changes nothing of this.                 *)
LEMMA NoteFields ==
  ASSUME NEW p \in PlayerTypes, NEW q, q = NoteProgress(p)
  PROVE  q \in PlayerTypes /\ Like(p, q)
  <1>1. CASE p.failures = 0 \/ p.pending # None
    BY <1>1 DEF NoteProgress, Like
  <1>2. CASE ~(p.failures = 0 \/ p.pending # None)
    <2>1. p.place \in Nat /\ p.mark \in Nat /\ p.played \in Nat /\ p.failures \in Nat
      BY ElementAssumption DEF PlayerTypes, Places
    <2>2. PICK n \in Nat : n = IF p.place > p.mark THEN p.played + p.place - p.mark
                                                   ELSE p.played
      BY <2>1
    <2>3. PICK f \in Nat : f = IF n >= RECOVERED_AFTER THEN 0 ELSE p.failures
      BY <2>1
    <2>4. q = [p EXCEPT !.mark = p.place, !.played = n, !.failures = f]
      BY <1>2, <2>2, <2>3 DEF NoteProgress
    <2>5. QED
      BY <2>4, ZenonT(40) DEF PlayerTypes, Like
  <1>3. QED
    BY <1>1, <1>2

-----------------------------------------------------------------------------
(* What each method keeps of the invariant.                                *)

(* More to be told than before, and nothing that failing excludes.         *)
LEMMA MoreQueued ==
  ASSUME NEW s, NEW t, NEW event, Queued(s, t, event),
         event \in {"play", "pause", "timeupdate", "ended"}
  PROVE  /\ ErrorLast(s) => ErrorLast(t)
         /\ \A e : Contains(s, e) => Contains(t, e)
         /\ Contains(t, "error") => Contains(s, "error")
         /\ Contains(t, "loadedmetadata") => Contains(s, "loadedmetadata")
         /\ Contains(t, event)
         /\ t # <<>> /\ (s # <<>> => Head(t) = Head(s))
  <1>1. event \notin {"error", "loadedmetadata"}
    OBVIOUS
  <1>2. QED
    BY <1>1 DEF Queued

LEMMA LikeKeeps ==
  ASSUME NEW p, NEW q \in PlayerTypes, Whole(p), Like(p, q)
  PROVE  Whole(q) /\ Asks(p, q)
  BY DEF Whole, Core, Like, Asks, GivenUp, Failing, FramesGoOn, Agrees, TimeTold,
         PreviousTold, Time

(* The engine takes over what the element does.                            *)
LEMMA SyncKeeps ==
  ASSUME NEW p, Core(p), FramesGoOn(p), TimeTold(p), PreviousTold(p),
         NEW q, q = SyncPlaying(p)
  PROVE  Whole(q) /\ Asks(p, q)
  <1>1. p \in PlayerTypes
    BY DEF Core
  <1>2. /\ q \in PlayerTypes
        /\ q.playing = IF p.pending = None THEN ~p.paused ELSE p.pending.resume
        /\ q.frame \/ q.playing = p.playing
        /\ p.frame => q.frame
        /\ q.ready = p.ready /\ q.paused = p.paused /\ q.place = p.place
        /\ q.events = p.events /\ q.pending = p.pending
        /\ q.error = p.error /\ q.time = p.time /\ q.previous = p.previous
    BY <1>1, SyncFields
  <1>3. GivenUp(q) /\ Failing(q)
    BY <1>2 DEF Core, GivenUp, Failing
  <1>4. FramesGoOn(q)
    BY <1>2 DEF FramesGoOn
  <1>5. Agrees(q)
    BY <1>2 DEF Agrees
  <1>6. Time(q) = Time(p)
    BY <1>2 DEF Time
  <1>7. TimeTold(q)
    BY <1>2, <1>6 DEF TimeTold
  <1>8. PreviousTold(q)
    BY <1>2 DEF PreviousTold
  <1>9. QED
    BY <1>2, <1>3, <1>4, <1>5, <1>7, <1>8 DEF Whole, Core, Asks

(* A seek is shown at once; where it goes, the loop is judged from there.  *)
LEMMA SeekKeeps ==
  ASSUME NEW p, Core(p), NEW t \in Places, NEW q, q = Seek(p, t)
  PROVE  /\ Core(q) /\ q.frame /\ FramesGoOn(q) /\ TimeTold(q) /\ PreviousTold(q)
         /\ q.time = Time(q)
         /\ Agrees(p) => Agrees(q)
         /\ q.error = p.error /\ q.playing = p.playing
         /\ (q.pending = None) <=> (p.pending = None)
  <1>1. p \in PlayerTypes
    BY DEF Core
  <1>2. /\ q \in PlayerTypes /\ q.frame /\ q.previous = t /\ q.time = t
        /\ q.ready = p.ready /\ q.paused = p.paused /\ q.playing = p.playing
        /\ q.error = p.error
        /\ IF p.pending = None
           THEN /\ q.pending = None /\ q.place = t
                /\ Queued(p.events, q.events, "timeupdate")
           ELSE /\ q.pending # None /\ q.place = p.place /\ q.events = p.events
                /\ q.pending.at = t /\ q.pending.resume = p.pending.resume
    BY <1>1, SeekFields
  <1>3. FramesGoOn(q) /\ TimeTold(q)
    BY <1>2 DEF FramesGoOn, TimeTold
  <1>4. PreviousTold(q) /\ q.time = Time(q)
    BY <1>2 DEF PreviousTold, Time
  <1>5. CASE p.pending = None
    <2>1. Queued(p.events, q.events, "timeupdate")
      BY <1>2, <1>5
    <2>2. /\ ErrorLast(p.events) => ErrorLast(q.events)
          /\ \A e : Contains(p.events, e) => Contains(q.events, e)
          /\ Contains(q.events, "error") => Contains(p.events, "error")
      BY <2>1, MoreQueued
    <2>3. GivenUp(q) /\ Failing(q)
      BY <1>2, <1>5, <2>2 DEF Core, GivenUp, Failing
    <2>4. Agrees(p) => Agrees(q)
      BY <1>2, <1>5, <2>2 DEF Agrees
    <2>5. QED
      BY <1>2, <1>3, <1>4, <1>5, <2>3, <2>4 DEF Core
  <1>6. CASE p.pending # None
    <2>1. GivenUp(q) /\ Failing(q)
      BY <1>2, <1>6 DEF Core, GivenUp, Failing
    <2>2. Agrees(p) => Agrees(q)
      BY <1>2, <1>6 DEF Agrees
    <2>3. QED
      BY <1>2, <1>3, <1>4, <1>6, <2>1, <2>2 DEF Core
  <1>7. QED
    BY <1>5, <1>6

(* A reading is heard: the time shown and the loop's are the song's.       *)
LEMMA TickKeeps ==
  ASSUME NEW p, Core(p), NEW q, q = Tick(p)
  PROVE  /\ Core(q) /\ TimeTold(q) /\ PreviousTold(q) /\ q.time = Time(q)
         /\ Agrees(p) => Agrees(q)
         /\ FramesGoOn(p) => FramesGoOn(q)
         /\ Asks(p, q) /\ q.playing = p.playing
  <1>1. p \in PlayerTypes
    BY DEF Core
  <1>2. CASE /\ Looping(p) /\ p.pending = None
             /\ p.previous >= LoopStart(p) /\ p.previous < LoopEnd(p)
             /\ p.place >= LoopEnd(p)
    <2>1. LoopStart(p) \in Places
      BY <1>1, <1>2, TimeInSong
    <2>2. PICK t \in Places : t = LoopStart(p)
      BY <2>1
    <2>3. q = Seek(p, t)
      BY <1>2, <2>2 DEF Tick
    <2>4. QED
      BY <2>3, SeekKeeps DEF Asks
  <1>3. CASE ~(/\ Looping(p) /\ p.pending = None
               /\ p.previous >= LoopStart(p) /\ p.previous < LoopEnd(p)
               /\ p.place >= LoopEnd(p))
    <2>1. PICK t \in Places : t = Time(p)
      BY <1>1, TimeInSong
    <2>2. PICK r : r = [p EXCEPT !.previous = t, !.time = t]
      OBVIOUS
    <2>3. /\ r \in PlayerTypes /\ r.previous = t /\ r.time = t
          /\ r.ready = p.ready /\ r.paused = p.paused /\ r.playing = p.playing
          /\ r.error = p.error /\ r.pending = p.pending /\ r.place = p.place
          /\ r.events = p.events /\ r.frame = p.frame
      BY <1>1, <2>2 DEF PlayerTypes
    <2>4. q = Update(p, r)
      BY <1>3, <2>1, <2>2 DEF Tick
    <2>5. /\ q \in PlayerTypes /\ Like(r, q)
          /\ q.frame \/ (q.playing = p.playing /\ q.time = p.time)
      BY <1>1, <2>3, <2>4, UpdateFields
    <2>6. /\ q.previous = t /\ q.time = t
          /\ q.ready = p.ready /\ q.paused = p.paused /\ q.playing = p.playing
          /\ q.error = p.error /\ q.pending = p.pending /\ q.place = p.place
          /\ q.events = p.events /\ (p.frame => q.frame)
      BY <2>3, <2>5 DEF Like
    <2>7. GivenUp(q) /\ Failing(q)
      BY <2>6 DEF Core, GivenUp, Failing
    <2>8. q.time = Time(q) /\ TimeTold(q)
      BY <2>1, <2>6 DEF Time, TimeTold
    <2>9. PreviousTold(q)
      BY <2>1, <2>6 DEF Time, PreviousTold
    <2>10. (Agrees(p) => Agrees(q)) /\ (FramesGoOn(p) => FramesGoOn(q))
      BY <2>6 DEF Agrees, FramesGoOn
    <2>11. QED
      BY <2>5, <2>6, <2>7, <2>8, <2>9, <2>10 DEF Core, Asks
  <1>4. QED
    BY <1>2, <1>3

LEMMA AsksOn ==
  ASSUME NEW p, NEW q, NEW r, Asks(p, q), Asks(q, r)
  PROVE  Asks(p, r)
  BY DEF Asks

(* What is to come of a load may change, unless the engine has given up.   *)
LEMMA ResumeKeeps ==
  ASSUME NEW p, Whole(p), p.pending # None, NEW resume \in BOOLEAN,
         p.error => ~resume,
         NEW q, q = SyncPlaying([p EXCEPT !.pending.resume = resume])
  PROVE  Whole(q) /\ Asks(p, q)
  <1>1. p \in PlayerTypes /\ p.pending \in Pendings
    <2>1. p \in PlayerTypes
      BY DEF Whole, Core
    <2>2. QED
      BY <2>1 DEF PlayerTypes
  <1>2. PICK w : w = [p.pending EXCEPT !.resume = resume]
    OBVIOUS
  <1>3. w \in Pendings /\ w.at = p.pending.at /\ w.resume = resume
    BY <1>1, <1>2 DEF Pendings
  <1>4. w # None
    BY <1>3, EngineAssumption DEF Pendings
  <1>5. PICK r : r = [p EXCEPT !.pending = w]
    OBVIOUS
  <1>6. /\ r \in PlayerTypes /\ r.pending = w
        /\ r.ready = p.ready /\ r.paused = p.paused /\ r.playing = p.playing
        /\ r.error = p.error /\ r.place = p.place /\ r.time = p.time
        /\ r.previous = p.previous /\ r.events = p.events /\ r.frame = p.frame
    BY <1>1, <1>3, <1>5 DEF PlayerTypes
  <1>7. q = SyncPlaying(r)
    BY <1>2, <1>5
  <1>8. Core(r) /\ FramesGoOn(r)
    BY <1>3, <1>4, <1>6 DEF Whole, Core, GivenUp, Failing, FramesGoOn
  <1>9. Time(r) = Time(p)
    BY <1>3, <1>4, <1>6 DEF Time
  <1>10. TimeTold(r) /\ PreviousTold(r)
    BY <1>4, <1>6, <1>9 DEF Whole, TimeTold, PreviousTold
  <1>11. Whole(q) /\ Asks(r, q)
    BY <1>7, <1>8, <1>10, SyncKeeps
  <1>12. QED
    BY <1>6, <1>11 DEF Asks

(* What the element will say of it is heard later.                         *)
LEMMA SaidKeeps ==
  ASSUME NEW p, Whole(p), NEW q \in PlayerTypes,
         NEW event \in {"play", "pause", "timeupdate", "ended"},
         Queued(p.events, q.events, event),
         q.ready = p.ready, q.place = p.place, Kept(p, q),
         q.paused = p.paused \/ event \in {"play", "pause"}
  PROVE  Whole(q) /\ Asks(p, q)
  <1>1. /\ ErrorLast(p.events) => ErrorLast(q.events)
        /\ \A e : Contains(p.events, e) => Contains(q.events, e)
        /\ Contains(q.events, "error") => Contains(p.events, "error")
        /\ Contains(q.events, "loadedmetadata") => Contains(p.events, "loadedmetadata")
        /\ Contains(q.events, event)
        /\ q.events # <<>> /\ (p.events # <<>> => Head(q.events) = Head(p.events))
    BY MoreQueued
  <1>2. GivenUp(q) /\ Failing(q)
    BY <1>1 DEF Kept, Whole, Core, GivenUp, Failing
  <1>3. FramesGoOn(q)
    BY DEF Kept, Whole, FramesGoOn
  <1>4. Agrees(q)
    BY <1>1 DEF Kept, Whole, Agrees
  <1>5. Time(q) = Time(p)
    BY DEF Kept, Time
  <1>6. TimeTold(q)
    BY <1>1, <1>5 DEF Kept, Whole, TimeTold
  <1>7. PreviousTold(q)
    BY <1>1 DEF Kept, Whole, PreviousTold
  <1>8. QED
    BY <1>2, <1>3, <1>4, <1>6, <1>7 DEF Whole, Core, Asks, Kept

LEMMA PlayKeeps ==
  ASSUME NEW p, Whole(p), NEW allowed \in BOOLEAN, NEW q, q = Play(p, allowed)
  PROVE  Whole(q) /\ Asks(p, q)
  <1>1. p \in PlayerTypes
    BY DEF Whole, Core
  <1>2. CASE p.error
    BY <1>2 DEF Play, Asks
  <1>3. CASE ~p.error /\ p.pending # None
    <2>1. q = SyncPlaying([p EXCEPT !.pending.resume = TRUE])
      BY <1>3 DEF Play
    <2>2. QED
      BY <1>3, <2>1, ResumeKeeps
  <1>4. CASE ~p.error /\ p.pending = None
    <2>1. PICK r : r = IF Ended(p) THEN Seek(p, 0) ELSE p
      OBVIOUS
    <2>2. q = IF allowed THEN ElementPlay(r) ELSE SyncPlaying(r)
      BY <1>4, <2>1 DEF Play
    <2>3. Whole(r) /\ Asks(p, r)
      <3>1. CASE Ended(p)
        BY <2>1, <3>1, <1>1, SeekKeeps, TimeInSong DEF Whole, Asks
      <3>2. CASE ~Ended(p)
        BY <2>1, <3>2 DEF Asks
      <3>3. QED
        BY <3>1, <3>2
    <2>4. r \in PlayerTypes
      BY <2>3 DEF Whole, Core
    <2>5. CASE allowed
      <3>1. q = ElementPlay(r)
        BY <2>2, <2>5
      <3>2. /\ q \in PlayerTypes /\ ~q.paused
            /\ IF r.paused THEN Queued(r.events, q.events, "play")
                           ELSE q.events = r.events
            /\ q.place = r.place /\ q.ready = r.ready /\ Kept(r, q)
        BY <2>4, <3>1, PlayElementFields
      <3>3. CASE r.paused
        BY <2>3, <3>2, <3>3, SaidKeeps, AsksOn
      <3>4. CASE ~r.paused
        <4>1. r.paused = q.paused
          BY <2>4, <3>2, <3>4 DEF PlayerTypes
        <4>2. Like(r, q)
          BY <3>2, <3>4, <4>1 DEF Kept, Like
        <4>3. QED
          BY <2>3, <3>2, <4>2, LikeKeeps, AsksOn
      <3>5. QED
        BY <3>3, <3>4
    <2>6. CASE ~allowed
      <3>1. q = SyncPlaying(r)
        BY <2>2, <2>6
      <3>2. QED
        BY <2>3, <3>1, SyncKeeps, AsksOn DEF Whole
    <2>7. QED
      BY <2>5, <2>6
  <1>5. QED
    BY <1>2, <1>3, <1>4

LEMMA PauseKeeps ==
  ASSUME NEW p, Whole(p), NEW q, q = Pause(p)
  PROVE  Whole(q) /\ Asks(p, q)
  <1>1. p \in PlayerTypes
    BY DEF Whole, Core
  <1>2. CASE p.pending # None
    <2>1. q = SyncPlaying([p EXCEPT !.pending.resume = FALSE])
      BY <1>2 DEF Pause
    <2>2. QED
      BY <1>2, <2>1, ResumeKeeps
  <1>3. CASE p.pending = None
    <2>1. q = ElementPause(p)
      BY <1>3 DEF Pause
    <2>2. /\ q \in PlayerTypes /\ q.paused
          /\ IF p.paused THEN q.events = p.events
                         ELSE Queued(p.events, q.events, "pause")
          /\ q.place = p.place /\ q.ready = p.ready /\ Kept(p, q)
      BY <1>1, <2>1, PauseElementFields
    <2>3. CASE p.paused
      <3>1. q.paused = p.paused
        BY <1>1, <2>2, <2>3 DEF PlayerTypes
      <3>2. Like(p, q)
        BY <2>2, <2>3, <3>1 DEF Kept, Like
      <3>3. QED
        BY <2>2, <3>2, LikeKeeps
    <2>4. CASE ~p.paused
      BY <2>2, <2>4, SaidKeeps
    <2>5. QED
      BY <2>3, <2>4
  <1>4. QED
    BY <1>2, <1>3

(* A load shows where it goes on from, by a frame or by the reading that   *)
(* the element's own start has queued.                                     *)
LEMMA LoadKeeps ==
  ASSUME NEW p \in PlayerTypes, ~p.error, NEW resume \in BOOLEAN,
         NEW at, at = Time(p),
         p.time # at => p.frame \/ p.place # 0,
         NEW q, q = Load(p, at, resume)
  PROVE  Whole(q) /\ Asks(p, q)
  <1>1. at \in Places
    BY TimeInSong
  <1>2. /\ q \in PlayerTypes
        /\ q.ready = "nothing" /\ q.paused /\ q.place = 0
        /\ q.events = IF p.place = 0 THEN <<>> ELSE <<"timeupdate">>
        /\ q.pending # None /\ q.pending.at = at /\ q.pending.resume = resume
        /\ q.playing = resume /\ (p.frame => q.frame)
        /\ q.error = p.error /\ q.time = p.time /\ q.previous = p.previous
    BY <1>1, LoadFields
  <1>3. /\ ErrorLast(q.events) /\ ~Contains(q.events, "error")
        /\ p.place # 0 => q.events # <<>> /\ Head(q.events) = "timeupdate"
    BY <1>2, NoneQueued
  <1>4. GivenUp(q) /\ Failing(q) /\ FramesGoOn(q) /\ Agrees(q) /\ PreviousTold(q)
    BY <1>2, <1>3 DEF GivenUp, Failing, FramesGoOn, Agrees, PreviousTold
  <1>5. TimeTold(q)
    BY <1>2, <1>3 DEF TimeTold, Time
  <1>6. QED
    BY <1>2, <1>4, <1>5 DEF Whole, Core, Asks

LEMMA SourceKeeps ==
  ASSUME NEW p, Whole(p), NEW s \in Sources, NEW q, q = SetSource(p, s)
  PROVE  Whole(q) /\ Asks(p, q)
  <1>1. p \in PlayerTypes
    BY DEF Whole, Core
  <1>2. PICK resume \in BOOLEAN : resume = IF p.error THEN p.held ELSE p.playing
    BY <1>1 DEF PlayerTypes
  <1>3. PICK r : r = [p EXCEPT !.source = s, !.failures = 0, !.error = FALSE]
    OBVIOUS
  <1>4. /\ r \in PlayerTypes /\ ~r.error
        /\ r.pending = p.pending /\ r.place = p.place
    BY <1>1, <1>3 DEF PlayerTypes
  <1>5. PICK x : x = Redraw(r)
    OBVIOUS
  <1>6. x \in PlayerTypes /\ Like(r, x) /\ x.frame
    BY <1>4, <1>5, RedrawFields
  <1>7. PICK at : at = Time(p)
    OBVIOUS
  <1>8. at = Time(x) /\ ~x.error
    BY <1>4, <1>6, <1>7 DEF Like, Time
  <1>9. q = Load(x, at, resume)
    BY <1>2, <1>3, <1>5, <1>7 DEF SetSource
  <1>10. Whole(q) /\ Asks(x, q)
    BY <1>6, <1>8, <1>9, LoadKeeps
  <1>11. QED
    BY <1>6, <1>10 DEF Asks

LEMMA LoopKeeps ==
  ASSUME NEW p, Whole(p), NEW q, q \in {SetA(p), SetB(p), ClearLoop(p)}
  PROVE  Whole(q) /\ Asks(p, q)
  <1>1. p \in PlayerTypes
    BY DEF Whole, Core
  <1>2. Like(p, p)
    BY DEF Like
  <1>3. ASSUME NEW a \in Points, NEW b \in Points,
               q = Update(p, [p EXCEPT !.a = a, !.b = b])
        PROVE  Whole(q) /\ Asks(p, q)
    <2>1. PICK r : r = [p EXCEPT !.a = a, !.b = b]
      OBVIOUS
    <2>2. r \in PlayerTypes /\ Like(p, r)
      BY <1>1, <2>1 DEF PlayerTypes, Like
    <2>3. q = Update(p, r)
      BY <1>3, <2>1
    <2>4. q \in PlayerTypes /\ Like(r, q)
      BY <1>1, <2>2, <2>3, UpdateFields
    <2>5. Like(p, q)
      BY <2>2, <2>4 DEF Like
    <2>6. QED
      BY <2>4, <2>5, LikeKeeps
  <1>4. PICK t \in Points : t = Time(p)
    BY <1>1, TimeInSong DEF Points
  <1>5. p.a \in Points /\ p.b \in Points /\ None \in Points
    BY <1>1 DEF PlayerTypes, Points
  <1>6. CASE q = SetA(p)
    <2>1. q = p \/ q = Update(p, [p EXCEPT !.a = t])
      BY <1>4, <1>6 DEF SetA
    <2>2. [p EXCEPT !.a = t] = [p EXCEPT !.a = t, !.b = p.b]
      BY <1>1 DEF PlayerTypes
    <2>3. CASE q = p
      BY <1>1, <1>2, <2>3, LikeKeeps
    <2>4. CASE q = Update(p, [p EXCEPT !.a = t])
      BY <1>3, <1>5, <2>2, <2>4
    <2>5. QED
      BY <2>1, <2>3, <2>4
  <1>7. CASE q = SetB(p)
    <2>1. q = p \/ q = Update(p, [p EXCEPT !.b = t])
      BY <1>4, <1>7 DEF SetB
    <2>2. [p EXCEPT !.b = t] = [p EXCEPT !.a = p.a, !.b = t]
      BY <1>1 DEF PlayerTypes
    <2>3. CASE q = p
      BY <1>1, <1>2, <2>3, LikeKeeps
    <2>4. CASE q = Update(p, [p EXCEPT !.b = t])
      BY <1>3, <1>5, <2>2, <2>4
    <2>5. QED
      BY <2>1, <2>3, <2>4
  <1>8. CASE q = ClearLoop(p)
    BY <1>3, <1>5, <1>8 DEF ClearLoop
  <1>9. QED
    BY <1>6, <1>7, <1>8

-----------------------------------------------------------------------------
(* What hearing each event keeps of it.                                    *)

(* The source has loaded: it goes on from where it was held.               *)
LEMMA MetadataKeeps ==
  ASSUME NEW p, Core(p), p.pending # None, ~p.error, NEW allowed \in BOOLEAN,
         NEW q, q = OnMetadata(p, allowed)
  PROVE  Whole(q) /\ Asks(p, q)
  <1>1. p \in PlayerTypes /\ p.pending.resume \in BOOLEAN /\ p.pending.at \in Places
    <2>1. p \in PlayerTypes
      BY DEF Core
    <2>2. p.pending \in Pendings
      BY <2>1 DEF PlayerTypes
    <2>3. QED
      BY <2>1, <2>2 DEF Pendings
  <1>2. PICK at \in Places : at = p.pending.at
    BY <1>1
  <1>3. PICK m : m = ElementSeek(p, at)
    OBVIOUS
  <1>4. /\ m \in PlayerTypes /\ Queued(p.events, m.events, "timeupdate")
        /\ m.place = at /\ m.ready = p.ready /\ m.paused = p.paused /\ Kept(p, m)
    BY <1>1, <1>3, SeekElementFields
  <1>5. PICK l : l = [m EXCEPT !.pending = None, !.previous = at, !.mark = at]
    OBVIOUS
  <1>6. /\ l \in PlayerTypes /\ l.pending = None /\ l.previous = at
        /\ l.place = at /\ l.ready = p.ready /\ l.events = m.events
        /\ l.error = p.error
    BY <1>4, <1>5 DEF PlayerTypes, Kept
  <1>7. PICK x : x = IF p.pending.resume /\ allowed THEN ElementPlay(l) ELSE l
    OBVIOUS
  <1>8. /\ x \in PlayerTypes /\ x.pending = None /\ x.previous = at
        /\ x.place = at /\ x.ready = p.ready /\ x.error = p.error
        /\ x.events = l.events \/ Queued(l.events, x.events, "play")
    <2>1. CASE p.pending.resume /\ allowed
      <3>1. x = ElementPlay(l)
        BY <1>7, <2>1
      <3>2. /\ x \in PlayerTypes
            /\ IF l.paused THEN Queued(l.events, x.events, "play")
                           ELSE x.events = l.events
            /\ x.place = l.place /\ x.ready = l.ready /\ Kept(l, x)
        BY <1>6, <3>1, PlayElementFields
      <3>3. QED
        BY <1>6, <3>2 DEF Kept
    <2>2. CASE ~(p.pending.resume /\ allowed)
      BY <1>6, <1>7, <2>2
    <2>3. QED
      BY <2>1, <2>2
  <1>9. Failing(x)
    <2>1. /\ ErrorLast(p.events) => ErrorLast(m.events)
          /\ Contains(m.events, "error") => Contains(p.events, "error")
      BY <1>4, MoreQueued
    <2>2. /\ ErrorLast(l.events) => ErrorLast(x.events)
          /\ Contains(x.events, "error") => Contains(l.events, "error")
      <3>1. CASE x.events = l.events
        BY <3>1
      <3>2. CASE Queued(l.events, x.events, "play")
        BY <3>2, MoreQueued
      <3>3. QED
        BY <1>8, <3>1, <3>2
    <2>3. QED
      BY <1>6, <1>8, <2>1, <2>2 DEF Core, Failing
  <1>10. PICK y : y = SyncPlaying(x)
    OBVIOUS
  <1>11. /\ y \in PlayerTypes
         /\ y.playing = IF x.pending = None THEN ~x.paused ELSE x.pending.resume
         /\ y.ready = x.ready /\ y.paused = x.paused /\ y.place = x.place
         /\ y.events = x.events /\ y.pending = x.pending
         /\ y.error = x.error /\ y.previous = x.previous
    BY <1>8, <1>10, SyncFields
  <1>12. q = Redraw(y)
    BY <1>2, <1>3, <1>5, <1>7, <1>10 DEF OnMetadata
  <1>13. q \in PlayerTypes /\ Like(y, q) /\ q.frame
    BY <1>11, <1>12, RedrawFields
  <1>14. /\ q.ready = x.ready /\ q.paused = x.paused /\ q.place = at
         /\ q.events = x.events /\ q.pending = None /\ q.previous = at
         /\ ~q.error /\ q.playing = ~x.paused
    BY <1>8, <1>11, <1>13 DEF Like
  <1>15. GivenUp(q) /\ Failing(q) /\ FramesGoOn(q) /\ TimeTold(q) /\ PreviousTold(q)
    BY <1>9, <1>13, <1>14
    DEF GivenUp, Failing, FramesGoOn, TimeTold, PreviousTold
  <1>16. Agrees(q)
    BY <1>14 DEF Agrees
  <1>17. QED
    BY <1>13, <1>15, <1>16 DEF Whole, Core, Asks

(* The file has failed: it is asked for again, or the engine gives up.     *)
LEMMA ErrorKeeps ==
  ASSUME NEW p, Core(p), ~p.error, p.ready = "failed",
         ~Contains(p.events, "error"), ~Contains(p.events, "loadedmetadata"),
         p.time # Time(p) => p.frame \/ p.place # 0,
         NEW q, q = OnError(p)
  PROVE  Whole(q) /\ Asks(p, q)
  <1>1. p \in PlayerTypes /\ p.failures \in Nat /\ p.playing \in BOOLEAN
    <2>1. p \in PlayerTypes
      BY DEF Core
    <2>2. QED
      BY <2>1 DEF PlayerTypes
  <1>2. PICK at \in Places : at = Time(p)
    BY <1>1, TimeInSong
  <1>3. PICK f \in Nat : f = p.failures + 1
    BY <1>1
  <1>4. CASE f >= MAX_FAILURES
    <2>1. PICK w : w = [at |-> at, resume |-> FALSE]
      OBVIOUS
    <2>2. w \in Pendings /\ w # None /\ w.at = at /\ w.resume = FALSE
      BY <2>1, PendingParts
    <2>3. PICK m : m = ElementPause(p)
      OBVIOUS
    <2>4. /\ m \in PlayerTypes
          /\ IF p.paused THEN m.events = p.events
                         ELSE Queued(p.events, m.events, "pause")
          /\ m.place = p.place /\ m.ready = p.ready /\ Kept(p, m)
          /\ m.failures = p.failures
      <3>1. /\ m \in PlayerTypes
            /\ IF p.paused THEN m.events = p.events
                           ELSE Queued(p.events, m.events, "pause")
            /\ m.place = p.place /\ m.ready = p.ready /\ Kept(p, m)
        BY <1>1, <2>3, PauseElementFields
      <3>2. m.failures = p.failures
        BY <1>1, <2>3 DEF ElementPause, Queue, PlayerTypes
      <3>3. QED
        BY <3>1, <3>2
    <2>5. PICK r : r = [m EXCEPT !.failures = f, !.pending = w, !.held = p.playing,
                                 !.error = TRUE, !.playing = FALSE]
      OBVIOUS
    <2>6. /\ r \in PlayerTypes /\ r.pending = w /\ r.error /\ ~r.playing
          /\ r.ready = "failed" /\ r.events = m.events
      BY <1>1, <2>2, <2>4, <2>5 DEF PlayerTypes
    <2>7. q = Redraw(r)
      BY <1>2, <1>3, <1>4, <2>1, <2>3, <2>4, <2>5 DEF OnError
    <2>8. q \in PlayerTypes /\ Like(r, q) /\ q.frame
      BY <2>6, <2>7, RedrawFields
    <2>9. /\ q.pending = w /\ q.error /\ ~q.playing
          /\ q.ready = "failed" /\ q.events = m.events
      BY <2>6, <2>8 DEF Like
    <2>10. /\ ErrorLast(m.events) /\ ~Contains(m.events, "error")
           /\ ~Contains(m.events, "loadedmetadata")
      <3>1. CASE p.paused
        BY <2>4, <3>1 DEF Core, Failing
      <3>2. CASE ~p.paused
        BY <2>4, <3>2, MoreQueued DEF Core, Failing
      <3>3. QED
        BY <3>1, <3>2
    <2>11. GivenUp(q) /\ Failing(q)
      BY <2>2, <2>9, <2>10 DEF GivenUp, Failing
    <2>12. FramesGoOn(q) /\ TimeTold(q) /\ PreviousTold(q)
      BY <2>2, <2>8, <2>9 DEF FramesGoOn, TimeTold, PreviousTold
    <2>13. Agrees(q)
      BY <2>2, <2>8, <2>9 DEF Agrees, PlayerTypes
    <2>14. QED
      BY <2>8, <2>11, <2>12, <2>13 DEF Whole, Core, Asks
  <1>5. CASE ~(f >= MAX_FAILURES)
    <2>1. PICK r : r = [p EXCEPT !.failures = f, !.played = 0]
      OBVIOUS
    <2>2. /\ r \in PlayerTypes /\ ~r.error /\ r.pending = p.pending
          /\ r.place = p.place /\ r.time = p.time /\ r.frame = p.frame
      BY <1>1, <2>1 DEF PlayerTypes
    <2>3. at = Time(r)
      BY <1>2, <2>2 DEF Time
    <2>4. PICK resume \in BOOLEAN : resume = p.playing
      BY <1>1
    <2>5. q = Load(r, at, resume)
      BY <1>2, <1>3, <1>5, <2>1, <2>4 DEF OnError
    <2>6. Whole(q) /\ Asks(r, q)
      BY <1>2, <2>2, <2>3, <2>5, LoadKeeps
    <2>7. QED
      BY <2>2, <2>6 DEF Asks
  <1>6. QED
    BY <1>4, <1>5

(* A reading of the song's progress, on the way to what else is heard.     *)
LEMMA ReadingKeeps ==
  ASSUME NEW p, Core(p), NEW q, q = OnTimeUpdate(p)
  PROVE  /\ Core(q) /\ TimeTold(q) /\ PreviousTold(q)
         /\ Agrees(p) => Agrees(q)
         /\ FramesGoOn(p) => FramesGoOn(q)
         /\ Asks(p, q)
  <1>1. PICK r : r = NoteProgress(p)
    OBVIOUS
  <1>2. p \in PlayerTypes
    BY DEF Core
  <1>3. r \in PlayerTypes /\ Like(p, r)
    BY <1>1, <1>2, NoteFields
  <1>4. /\ Core(r) /\ (Agrees(p) => Agrees(r)) /\ (FramesGoOn(p) => FramesGoOn(r))
        /\ Asks(p, r)
    BY <1>3 DEF Core, GivenUp, Failing, Agrees, FramesGoOn, Like, Asks
  <1>5. q = Tick(r)
    BY <1>1 DEF OnTimeUpdate
  <1>6. /\ Core(q) /\ TimeTold(q) /\ PreviousTold(q)
        /\ Agrees(r) => Agrees(q)
        /\ FramesGoOn(r) => FramesGoOn(q)
        /\ Asks(r, q)
    BY <1>4, <1>5, TickKeeps
  <1>7. QED
    BY <1>4, <1>6, AsksOn

LEMMA EndedKeeps ==
  ASSUME NEW p, Core(p), FramesGoOn(p), Agrees(p), NEW allowed \in BOOLEAN,
         NEW q, q = Heard(p, "ended", allowed)
  PROVE  Whole(q) /\ Asks(p, q)
  <1>1. PICK t : t = OnTimeUpdate(p)
    OBVIOUS
  <1>2. Whole(t) /\ Asks(p, t)
    BY <1>1, ReadingKeeps DEF Whole
  <1>3. PICK r : r = IF StopsAtEnd(t) THEN SyncPlaying(Stopped(t)) ELSE t
    OBVIOUS
  <1>4. q = OnEnded(r, allowed)
    BY <1>1, <1>3 DEF Heard
  <1>5. Whole(r) /\ Asks(t, r)
    <2>1. CASE StopsAtEnd(t)
      <3>1. PICK m : m = [t EXCEPT !.paused = TRUE]
        OBVIOUS
      <3>2. t \in PlayerTypes
        BY <1>2 DEF Whole, Core
      <3>3. /\ m \in PlayerTypes /\ m.ready = t.ready /\ m.place = t.place
            /\ m.events = t.events /\ Kept(t, m)
        BY <3>1, <3>2 DEF PlayerTypes, Kept
      <3>4. Core(m) /\ FramesGoOn(m)
        BY <1>2, <3>3 DEF Whole, Core, GivenUp, Failing, FramesGoOn, Kept
      <3>5. Time(m) = Time(t)
        BY <3>3 DEF Time, Kept
      <3>6. TimeTold(m) /\ PreviousTold(m)
        BY <1>2, <3>3, <3>5 DEF Whole, TimeTold, PreviousTold, Kept
      <3>7. r = SyncPlaying(m)
        BY <1>3, <2>1, <3>1 DEF Stopped
      <3>8. Whole(r) /\ Asks(m, r)
        BY <3>4, <3>6, <3>7, SyncKeeps
      <3>9. QED
        BY <3>3, <3>8 DEF Asks, Kept
    <2>2. CASE ~StopsAtEnd(t)
      BY <1>2, <1>3, <2>2 DEF Asks
    <2>3. QED
      BY <2>1, <2>2
  <1>6. Whole(q) /\ Asks(r, q)
    <2>1. CASE Looping(r) /\ r.previous >= LoopStart(r) /\ r.previous <= LoopEnd(r)
      <3>1. r \in PlayerTypes
        BY <1>5 DEF Whole, Core
      <3>2. PICK at \in Places : at = LoopStart(r)
        BY <2>1, <3>1, TimeInSong
      <3>3. PICK m : m = Seek(r, at)
        OBVIOUS
      <3>4. Whole(m) /\ m.frame
        BY <1>5, <3>3, SeekKeeps DEF Whole
      <3>5. q = Play(m, allowed)
        BY <1>4, <2>1, <3>2, <3>3 DEF OnEnded
      <3>6. Whole(q) /\ Asks(m, q)
        BY <3>4, <3>5, PlayKeeps
      <3>7. QED
        BY <3>4, <3>6 DEF Asks
    <2>2. CASE ~(Looping(r) /\ r.previous >= LoopStart(r) /\ r.previous <= LoopEnd(r))
      <3>1. q = SyncPlaying(r)
        BY <1>4, <2>2 DEF OnEnded
      <3>2. QED
        BY <1>5, <3>1, SyncKeeps DEF Whole
    <2>3. QED
      BY <2>1, <2>2
  <1>7. QED
    BY <1>2, <1>5, <1>6, AsksOn

(* The next event is taken from those that wait, and heard.                *)
LEMMA HeardKeeps ==
  ASSUME NEW p, Whole(p), p.events # <<>>, NEW allowed \in BOOLEAN,
         NEW q, q = Heard([p EXCEPT !.events = Tail(@)], Head(p.events), allowed)
  PROVE  Whole(q) /\ Asks(p, q)
  <1>1. p \in PlayerTypes /\ p.events \in Seq(EventNames)
    <2>1. p \in PlayerTypes
      BY DEF Whole, Core
    <2>2. QED
      BY <2>1 DEF PlayerTypes
  <1>2. PICK s : s = Tail(p.events)
    OBVIOUS
  <1>3. PICK h : h = Head(p.events)
    OBVIOUS
  <1>4. /\ s \in Seq(EventNames) /\ h \in EventNames
        /\ \A e : Contains(p.events, e) <=> h = e \/ Contains(s, e)
        /\ ErrorLast(p.events) => ErrorLast(s)
        /\ ErrorLast(p.events) /\ h = "error" =>
             ~Contains(s, "error") /\ ~Contains(s, "loadedmetadata")
    BY <1>1, <1>2, <1>3, TailOfQueue
  <1>5. PICK r : r = [p EXCEPT !.events = s]
    OBVIOUS
  <1>6. /\ r \in PlayerTypes /\ r.events = s /\ r.ready = p.ready
        /\ r.paused = p.paused /\ r.place = p.place /\ Kept(p, r)
    BY <1>1, <1>4, <1>5 DEF PlayerTypes, Kept
  <1>7. Core(r) /\ FramesGoOn(r)
    BY <1>4, <1>6 DEF Whole, Core, GivenUp, Failing, FramesGoOn, Kept
  <1>8. Asks(p, r) /\ Time(r) = Time(p)
    BY <1>6 DEF Asks, Kept, Time
  <1>9. h \notin {"play", "pause"} => Agrees(r)
    BY <1>4, <1>6 DEF Whole, Agrees, Kept
  <1>10. h # "timeupdate" =>
           /\ PreviousTold(r)
           /\ r.time # Time(r) =>
                r.frame \/ (r.pending = None /\ r.place # 0 /\ Contains(s, "timeupdate"))
    BY <1>3, <1>4, <1>6, <1>8 DEF Whole, PreviousTold, TimeTold, Kept
  <1>11. h # "timeupdate" => TimeTold(r)
    BY <1>6, <1>10 DEF TimeTold
  <1>12. q = Heard(r, h, allowed)
    BY <1>2, <1>3, <1>5
  <1>13. Whole(q) /\ Asks(r, q)
    <2>1. CASE h = "loadedmetadata"
      <3>1. q = OnMetadata(r, allowed)
        BY <1>12, <2>1 DEF Heard
      <3>2. CASE r.pending = None
        <4>1. q = r
          BY <3>1, <3>2 DEF OnMetadata
        <4>2. Whole(r)
          BY <1>7, <1>9, <1>10, <1>11, <2>1 DEF Whole
        <4>3. QED
          BY <4>1, <4>2 DEF Asks
      <3>3. CASE r.pending # None
        <4>1. ~r.error
          BY <1>4, <1>6, <2>1 DEF Whole, Core, GivenUp, Kept
        <4>2. QED
          BY <1>7, <3>1, <3>3, <4>1, MetadataKeeps
      <3>4. QED
        BY <3>2, <3>3
    <2>2. CASE h = "play"
      <3>1. q = SyncPlaying(r)
        BY <1>12, <2>2 DEF Heard
      <3>2. QED
        BY <1>7, <1>10, <1>11, <2>2, <3>1, SyncKeeps
    <2>3. CASE h = "pause"
      <3>1. PICK t : t = OnTimeUpdate(r)
        OBVIOUS
      <3>2. q = SyncPlaying(t)
        BY <1>12, <2>3, <3>1 DEF Heard
      <3>3. /\ Core(t) /\ TimeTold(t) /\ PreviousTold(t) /\ FramesGoOn(t)
            /\ Asks(r, t)
        BY <1>7, <3>1, ReadingKeeps
      <3>4. Whole(q) /\ Asks(t, q)
        BY <3>2, <3>3, SyncKeeps
      <3>5. QED
        BY <3>3, <3>4, AsksOn
    <2>4. CASE h = "timeupdate"
      <3>1. q = OnTimeUpdate(r)
        BY <1>12, <2>4 DEF Heard
      <3>2. Agrees(r)
        BY <1>9, <2>4
      <3>3. QED
        BY <1>7, <3>1, <3>2, ReadingKeeps DEF Whole
    <2>5. CASE h = "ended"
      <3>1. q = Heard(r, "ended", allowed)
        BY <1>12, <2>5
      <3>2. Agrees(r)
        BY <1>9, <2>5
      <3>3. QED
        BY <1>7, <3>1, <3>2, EndedKeeps
    <2>6. CASE h = "error"
      <3>1. q = OnError(r)
        BY <1>12, <2>6 DEF Heard
      <3>2. Contains(p.events, "error")
        BY <1>4, <2>6
      <3>3. ~r.error /\ r.ready = "failed"
        BY <1>6, <3>2 DEF Whole, Core, GivenUp, Failing, Kept
      <3>4. ~Contains(r.events, "error") /\ ~Contains(r.events, "loadedmetadata")
        BY <1>4, <1>6, <2>6 DEF Whole, Core, Failing
      <3>5. r.time # Time(r) => r.frame \/ r.place # 0
        BY <1>10, <2>6
      <3>6. QED
        BY <1>7, <3>1, <3>3, <3>4, <3>5, ErrorKeeps
    <2>7. QED
      BY <1>4, <2>1, <2>2, <2>3, <2>4, <2>5, <2>6 DEF EventNames
  <1>14. QED
    BY <1>8, <1>13, AsksOn

-----------------------------------------------------------------------------
(* What the element does by itself, and the frames.                        *)

LEMMA LoadedKeeps ==
  ASSUME NEW p, Whole(p), Loads(p), NEW q, q = Loaded(p)
  PROVE  Whole(q) /\ Asks(p, q)
  <1>1. p \in PlayerTypes /\ p.ready = "nothing"
    BY DEF Whole, Core, Loads
  <1>2. PICK r : r = [p EXCEPT !.ready = "metadata"]
    OBVIOUS
  <1>3. /\ r \in PlayerTypes /\ r.ready = "metadata" /\ r.events = p.events
        /\ r.paused = p.paused /\ r.place = p.place /\ Kept(p, r)
    BY <1>1, <1>2 DEF PlayerTypes, Kept
  <1>4. q = Queue(r, "loadedmetadata") /\ "loadedmetadata" \in EventNames
    BY <1>2 DEF Loaded, EventNames
  <1>5. /\ q \in PlayerTypes /\ Queued(p.events, q.events, "loadedmetadata")
        /\ q.ready = "metadata" /\ q.paused = p.paused /\ q.place = p.place
        /\ Kept(p, q)
    BY <1>3, <1>4, QueueFields DEF Kept
  <1>6. ~p.error /\ ~Contains(p.events, "error") /\ ErrorLast(p.events)
    BY <1>1 DEF Whole, Core, GivenUp, Failing
  <1>7. /\ \A e : Contains(p.events, e) => Contains(q.events, e)
        /\ ErrorLast(q.events) /\ ~Contains(q.events, "error")
        /\ p.events # <<>> => q.events # <<>> /\ Head(q.events) = Head(p.events)
    BY <1>5, <1>6 DEF Queued
  <1>8. GivenUp(q) /\ Failing(q) /\ FramesGoOn(q)
    BY <1>5, <1>6, <1>7 DEF GivenUp, Failing, FramesGoOn, Kept, Whole
  <1>9. Agrees(q) /\ PreviousTold(q)
    BY <1>5, <1>7 DEF Agrees, PreviousTold, Kept, Whole
  <1>10. Time(q) = Time(p)
    BY <1>5 DEF Time, Kept
  <1>11. TimeTold(q)
    BY <1>5, <1>7, <1>10 DEF TimeTold, Kept, Whole
  <1>12. QED
    BY <1>5, <1>8, <1>9, <1>11 DEF Whole, Core, Asks, Kept

LEMMA BrokenKeeps ==
  ASSUME NEW p, Whole(p), p.ready # "failed", NEW q, q = Broken(p)
  PROVE  Whole(q) /\ Asks(p, q)
  <1>1. p \in PlayerTypes
    BY DEF Whole, Core
  <1>2. PICK r : r = [p EXCEPT !.ready = "failed"]
    OBVIOUS
  <1>3. /\ r \in PlayerTypes /\ r.ready = "failed" /\ r.events = p.events
        /\ r.paused = p.paused /\ r.place = p.place /\ Kept(p, r)
    BY <1>1, <1>2 DEF PlayerTypes, Kept
  <1>4. q = Queue(r, "error") /\ "error" \in EventNames
    BY <1>2 DEF Broken, EventNames
  <1>5. /\ q \in PlayerTypes /\ Queued(p.events, q.events, "error")
        /\ q.ready = "failed" /\ q.paused = p.paused /\ q.place = p.place
        /\ Kept(p, q)
    BY <1>3, <1>4, QueueFields DEF Kept
  <1>6. ~p.error /\ ~Contains(p.events, "error") /\ ErrorLast(p.events)
    BY DEF Whole, Core, GivenUp, Failing
  <1>7. /\ \A e : Contains(p.events, e) => Contains(q.events, e)
        /\ ErrorLast(q.events)
        /\ p.events # <<>> => q.events # <<>> /\ Head(q.events) = Head(p.events)
    BY <1>5, <1>6 DEF Queued
  <1>8. GivenUp(q) /\ Failing(q) /\ FramesGoOn(q)
    BY <1>5, <1>6, <1>7 DEF GivenUp, Failing, FramesGoOn, Kept, Whole
  <1>9. Agrees(q) /\ PreviousTold(q)
    BY <1>5, <1>7 DEF Agrees, PreviousTold, Kept, Whole
  <1>10. Time(q) = Time(p)
    BY <1>5 DEF Time, Kept
  <1>11. TimeTold(q)
    BY <1>5, <1>7, <1>10 DEF TimeTold, Kept, Whole
  <1>12. QED
    BY <1>5, <1>8, <1>9, <1>11 DEF Whole, Core, Asks, Kept

LEMMA AdvancedKeeps ==
  ASSUME NEW p, Whole(p), Advances(p), NEW q, q = Advanced(p)
  PROVE  Whole(q) /\ Asks(p, q)
  <1>1. p \in PlayerTypes /\ p.place \in Places
    <2>1. p \in PlayerTypes
      BY DEF Whole, Core
    <2>2. QED
      BY <2>1 DEF PlayerTypes
  <1>2. PICK t \in Places : t = p.place + 1 /\ t # 0
    BY <1>1, ElementAssumption DEF Advances, Places
  <1>3. q = ElementSeek(p, t)
    BY <1>2 DEF Advanced
  <1>4. /\ q \in PlayerTypes /\ Queued(p.events, q.events, "timeupdate")
        /\ q.place = t /\ q.ready = p.ready /\ q.paused = p.paused /\ Kept(p, q)
    BY <1>1, <1>3, SeekElementFields
  <1>5. /\ ErrorLast(p.events) => ErrorLast(q.events)
        /\ \A e : Contains(p.events, e) => Contains(q.events, e)
        /\ Contains(q.events, "error") => Contains(p.events, "error")
        /\ Contains(q.events, "loadedmetadata") => Contains(p.events, "loadedmetadata")
        /\ Contains(q.events, "timeupdate")
        /\ q.events # <<>> /\ (p.events # <<>> => Head(q.events) = Head(p.events))
    BY <1>4, MoreQueued
  <1>6. GivenUp(q) /\ Failing(q)
    BY <1>4, <1>5 DEF Kept, Whole, Core, GivenUp, Failing
  <1>7. FramesGoOn(q) /\ Agrees(q) /\ PreviousTold(q)
    BY <1>4, <1>5 DEF Kept, Whole, FramesGoOn, Agrees, PreviousTold
  <1>8. TimeTold(q)
    <2>1. CASE p.pending = None
      BY <1>2, <1>4, <1>5, <2>1 DEF Kept, TimeTold
    <2>2. CASE p.pending # None
      BY <1>4, <1>5, <2>2 DEF Kept, Whole, TimeTold, Time
    <2>3. QED
      BY <2>1, <2>2
  <1>9. QED
    BY <1>4, <1>6, <1>7, <1>8 DEF Whole, Core, Asks, Kept

LEMMA EndSaidKeeps ==
  ASSUME NEW p, Whole(p), NEW q, q = Queue(p, "ended")
  PROVE  Whole(q) /\ Asks(p, q)
  <1>1. p \in PlayerTypes /\ "ended" \in EventNames
    BY DEF Whole, Core, EventNames
  <1>2. /\ q \in PlayerTypes /\ Queued(p.events, q.events, "ended")
        /\ q.ready = p.ready /\ q.paused = p.paused /\ q.place = p.place
        /\ Kept(p, q)
    BY <1>1, QueueFields DEF Kept
  <1>3. QED
    BY <1>2, SaidKeeps

(* A frame draws the time that it reads.                                   *)
LEMMA FrameKeeps ==
  ASSUME NEW p, Whole(p), NEW r, r = Tick([p EXCEPT !.frame = FALSE]),
         NEW q, q = IF r.playing /\ r.pending = None THEN Redraw(r) ELSE r
  PROVE  Whole(q) /\ q.time = Time(r)
  <1>1. p \in PlayerTypes
    BY DEF Whole, Core
  <1>2. PICK x : x = [p EXCEPT !.frame = FALSE]
    OBVIOUS
  <1>3. /\ x \in PlayerTypes /\ x.ready = p.ready /\ x.paused = p.paused
        /\ x.place = p.place /\ x.events = p.events /\ x.pending = p.pending
        /\ x.playing = p.playing /\ x.error = p.error
    BY <1>1, <1>2 DEF PlayerTypes
  <1>4. Core(x) /\ Agrees(x)
    BY <1>3 DEF Whole, Core, GivenUp, Failing, Agrees
  <1>5. /\ Core(r) /\ TimeTold(r) /\ PreviousTold(r) /\ r.time = Time(r)
        /\ Agrees(r)
    BY <1>2, <1>4, TickKeeps
  <1>6. CASE r.playing /\ r.pending = None
    <2>1. q = Redraw(r) /\ r \in PlayerTypes
      BY <1>5, <1>6 DEF Core
    <2>2. q \in PlayerTypes /\ Like(r, q) /\ q.frame
      BY <2>1, RedrawFields
    <2>3. Core(q) /\ Agrees(q) /\ TimeTold(q) /\ PreviousTold(q)
      BY <1>5, <2>2 DEF Core, GivenUp, Failing, Agrees, TimeTold, PreviousTold, Like
    <2>4. FramesGoOn(q) /\ q.time = Time(r)
      BY <1>5, <2>2 DEF FramesGoOn, Like
    <2>5. QED
      BY <2>3, <2>4 DEF Whole
  <1>7. CASE ~(r.playing /\ r.pending = None)
    <2>1. q = r /\ FramesGoOn(r)
      BY <1>7 DEF FramesGoOn
    <2>2. QED
      BY <1>5, <2>1 DEF Whole
  <1>8. QED
    BY <1>6, <1>7

-----------------------------------------------------------------------------
(* The engine as a whole.                                                  *)

LEMMA EngineStarts == Init => EngineInv
  <1> SUFFICES ASSUME NEW s \in Sources,
                      player =
                        [ready |-> "nothing", paused |-> TRUE, place |-> 0, src |-> s,
                         events |-> <<>>, pending |-> [at |-> 0, resume |-> FALSE],
                         playing |-> FALSE, source |-> s, error |-> FALSE, time |-> 0,
                         a |-> None, b |-> None, failures |-> 0, played |-> 0,
                         mark |-> 0, previous |-> 0, held |-> FALSE, frame |-> TRUE]
               PROVE  EngineInv
    BY DEF Init
  <1>1. PICK w : w = [at |-> 0, resume |-> FALSE]
    OBVIOUS
  <1>2. PICK e \in Seq(EventNames) : e = <<>>
    BY NoneQueued
  <1>3. PICK p : p =
          [ready |-> "nothing", paused |-> TRUE, place |-> 0, src |-> s, events |-> e,
           pending |-> w, playing |-> FALSE, source |-> s, error |-> FALSE, time |-> 0,
           a |-> None, b |-> None, failures |-> 0, played |-> 0,
           mark |-> 0, previous |-> 0, held |-> FALSE, frame |-> TRUE]
    OBVIOUS
  <1>4. player = p
    BY <1>1, <1>2, <1>3
  <1>5. 0 \in Places
    BY ElementAssumption DEF Places
  <1>6. w \in Pendings /\ w # None /\ w.at = 0 /\ w.resume = FALSE
    BY <1>1, <1>5, PendingParts
  <1>7. p \in PlayerTypes
    BY <1>2, <1>3, <1>5, <1>6 DEF PlayerTypes, Points
  <1>8. /\ p.pending = w /\ ~p.playing /\ ~p.error /\ p.frame /\ p.events = <<>>
    BY <1>2, <1>3
  <1>9. GivenUp(p) /\ Failing(p)
    BY <1>8, NoneQueued DEF GivenUp, Failing
  <1>10. FramesGoOn(p) /\ TimeTold(p) /\ PreviousTold(p)
    BY <1>6, <1>8 DEF FramesGoOn, TimeTold, PreviousTold
  <1>11. Agrees(p)
    BY <1>3, <1>6 DEF Agrees
  <1>12. QED
    BY <1>4, <1>7, <1>8, <1>9, <1>10, <1>11 DEF EngineInv, Whole, Core

LEMMA EngineKeeps == EngineInv /\ [Next]_vars => EngineInv'
  <1> SUFFICES ASSUME EngineInv, [Next]_vars
               PROVE  EngineInv'
    OBVIOUS
  <1>1. Whole(player) /\ (~player.frame => drawn = player.time)
    BY DEF EngineInv
  <1>2. ASSUME Whole(player'), Asks(player, player'), drawn' = drawn
        PROVE  EngineInv'
    BY <1>1, <1>2 DEF EngineInv, Asks
  <1>3. CASE UserToggles
    <2>1. PICK allowed \in BOOLEAN : player' = Toggle(player, allowed)
      BY <1>3 DEF UserToggles
    <2>2. Whole(player') /\ Asks(player, player')
      BY <1>1, <2>1, PauseKeeps, PlayKeeps DEF Toggle
    <2>3. QED
      BY <1>2, <1>3, <2>2 DEF UserToggles, Acts
  <1>4. CASE UserSeeks
    <2>1. PICK t \in Places : player' = Seek(player, t)
      BY <1>4 DEF UserSeeks
    <2>2. Whole(player') /\ Asks(player, player')
      BY <1>1, <2>1, SeekKeeps DEF Whole, Asks
    <2>3. QED
      BY <1>2, <1>4, <2>2 DEF UserSeeks, Acts
  <1>5. CASE UserSetsSource
    <2>1. PICK s \in Sources : player' = SetSource(player, s)
      BY <1>5 DEF UserSetsSource
    <2>2. Whole(player') /\ Asks(player, player')
      BY <1>1, <2>1, SourceKeeps
    <2>3. QED
      BY <1>2, <1>5, <2>2 DEF UserSetsSource, Acts
  <1>6. CASE UserLoops
    <2>1. Whole(player') /\ Asks(player, player')
      BY <1>1, <1>6, LoopKeeps DEF UserLoops
    <2>2. QED
      BY <1>2, <1>6, <2>1 DEF UserLoops, Acts
  <1>7. CASE HandleEvent
    <2>1. PICK allowed \in BOOLEAN :
            player' = Heard([player EXCEPT !.events = Tail(@)], Head(player.events),
                            allowed)
      BY <1>7 DEF HandleEvent
    <2>2. player.events # <<>> /\ drawn' = drawn
      BY <1>7 DEF HandleEvent
    <2>3. Whole(player') /\ Asks(player, player')
      BY <1>1, <2>1, <2>2, HeardKeeps
    <2>4. QED
      BY <1>2, <2>2, <2>3
  <1>8. CASE RunFrame
    <2>1. PICK r : r = Tick([player EXCEPT !.frame = FALSE])
      OBVIOUS
    <2>2. /\ player' = IF r.playing /\ r.pending = None THEN Redraw(r) ELSE r
          /\ drawn' = Time(r)
      BY <1>8, <2>1 DEF RunFrame
    <2>3. Whole(player') /\ player'.time = Time(r)
      BY <1>1, <2>1, <2>2, FrameKeeps
    <2>4. QED
      BY <2>2, <2>3 DEF EngineInv
  <1>9. CASE ElementLoads
    <2>1. Whole(player') /\ Asks(player, player')
      BY <1>1, <1>9, LoadedKeeps DEF ElementLoads
    <2>2. QED
      BY <1>2, <1>9, <2>1 DEF ElementLoads
  <1>10. CASE ElementAdvances
    <2>1. Whole(player') /\ Asks(player, player')
      BY <1>1, <1>10, AdvancedKeeps DEF ElementAdvances
    <2>2. QED
      BY <1>2, <1>10, <2>1 DEF ElementAdvances
  <1>11. CASE ElementEnds
    <2>1. Whole(player') /\ Asks(player, player')
      BY <1>1, <1>11, EndSaidKeeps DEF ElementEnds
    <2>2. QED
      BY <1>2, <1>11, <2>1 DEF ElementEnds
  <1>12. CASE ElementBreaksOff
    <2>1. player.ready # "failed" /\ player' = Broken(player)
      BY <1>12 DEF ElementBreaksOff, BreaksOff
    <2>2. Whole(player') /\ Asks(player, player')
      BY <1>1, <2>1, BrokenKeeps
    <2>3. QED
      BY <1>2, <1>12, <2>2 DEF ElementBreaksOff
  <1>13. CASE ElementBreaks
    <2>1. player.ready # "failed" /\ player' = Broken(player)
      BY <1>13 DEF ElementBreaks, Breaks
    <2>2. Whole(player') /\ Asks(player, player')
      BY <1>1, <2>1, BrokenKeeps
    <2>3. QED
      BY <1>2, <1>13, <2>2 DEF ElementBreaks
  <1>14. CASE UNCHANGED vars
    BY <1>1, <1>14 DEF vars, EngineInv
  <1>15. QED
    BY <1>3, <1>4, <1>5, <1>6, <1>7, <1>8, <1>9, <1>10, <1>11, <1>12, <1>13, <1>14
    DEF Next

LEMMA EngineSound == Spec => []EngineInv
  BY EngineStarts, EngineKeeps, PTL DEF Spec

(* When the element has said all it has to, the engine plays if it does,   *)
(* or will once the source has loaded; one that has given up plays nothing *)
(* (engine.ts syncPlaying, onError).                                       *)
THEOREM PlaysAsHeard == Spec => []PlayingAgrees
  <1>1. EngineInv => PlayingAgrees
    BY NoneQueued DEF EngineInv, Whole, Core, GivenUp, Agrees, PlayingAgrees
  <1>2. QED
    BY <1>1, EngineSound, PTL

(* The frames go on as long as the song plays, and when they stop the      *)
(* views have drawn where it is (engine.ts update, onMetadata, frame).     *)
THEOREM ViewsFollow == Spec => []ViewsShowTime
  <1>1. EngineInv => ViewsShowTime
    BY NoneQueued DEF EngineInv, Whole, FramesGoOn, TimeTold, ViewsShowTime
  <1>2. QED
    BY <1>1, EngineSound, PTL

(* Once the readings are heard, the song is not past an end of the loop    *)
(* that it crossed from inside, and no frame is needed for that            *)
(* (engine.ts onTimeUpdate, tick, onEnded).                                *)
THEOREM LoopKept == Spec => []LoopHolds
  <1>1. EngineInv => LoopHolds
    BY NoneQueued DEF EngineInv, Whole, PreviousTold, LoopHolds
  <1>2. QED
    BY <1>1, EngineSound, PTL

-----------------------------------------------------------------------------
(* What is kept through loading, errors, giving up and a change of source. *)

(* While a source loads the element is still, and will not say it ended;   *)
(* a loop is never of one point.                                           *)
Still(p) == p.pending # None /\ ~p.error => p.paused /\ ~Contains(p.events, "ended")
Apart(p) == p.a # None => p.a # p.b

KeepInv == EngineInv /\ Still(player) /\ Apart(player) /\ acts \in Nat

(* Fields that only a call of the user's, or giving up, writes.            *)
Aside(p, q) ==
  q.a = p.a /\ q.b = p.b /\ q.source = p.source /\ q.held = p.held /\ q.error = p.error

Steady(p, q) == Aside(p, q) /\ q.pending = p.pending /\ q.place = p.place

(* Back at the start of the loop.                                          *)
LoopsBack(p, q) ==
  /\ Aside(p, q) /\ Looping(p) /\ Time(q) = LoopStart(p)
  /\ q.pending = None <=> p.pending = None
  /\ p.pending # None => q.pending.resume = p.pending.resume

Moves(p, q) == Steady(p, q) \/ LoopsBack(p, q)

(* The parts of PlaybackKept: of every step, and of all but the user's.    *)
Carries(p, q) ==
  /\ p.pending = None /\ q.pending # None /\ ~q.error /\ UpToDate(p) =>
       q.pending.resume = ~p.paused
  /\ p.error /\ ~q.error => q.pending.resume = p.held
  /\ q.source # p.source => Time(q) = Time(p)

CarriesOn(p, q) ==
  /\ p.pending # None /\ ~p.error /\ q.pending # None =>
       (IF q.error THEN q.held ELSE q.pending.resume) = p.pending.resume
  /\ Time(q) # Time(p) =>
       \/ p.pending = None /\ Time(q) = Time(p) + 1
       \/ Looping(p) /\ Time(q) = LoopStart(p)

LEMMA MovesCarry ==
  ASSUME NEW p, NEW q, Moves(p, q)
  PROVE  Carries(p, q) /\ CarriesOn(p, q)
  <1>1. CASE Steady(p, q)
    BY <1>1 DEF Steady, Aside, Carries, CarriesOn, Time
  <1>2. CASE LoopsBack(p, q)
    BY <1>2 DEF LoopsBack, Aside, Carries, CarriesOn
  <1>3. QED
    BY <1>1, <1>2 DEF Moves

LEMMA MovesOn ==
  ASSUME NEW p, NEW q, NEW r, Moves(p, q), Moves(q, r)
  PROVE  Moves(p, r)
  <1>1. Aside(p, q) /\ Aside(q, r) /\ Aside(p, r)
    BY DEF Moves, Steady, LoopsBack, Aside
  <1>2. Looping(q) <=> Looping(p)
    BY <1>1 DEF Aside, Looping
  <1>3. LoopStart(q) = LoopStart(p)
    BY <1>1 DEF Aside, LoopStart
  <1>4. CASE Steady(p, q) /\ Steady(q, r)
    BY <1>1, <1>4 DEF Moves, Steady
  <1>5. CASE Steady(p, q) /\ LoopsBack(q, r)
    BY <1>1, <1>2, <1>3, <1>5 DEF Moves, Steady, LoopsBack
  <1>6. CASE LoopsBack(p, q) /\ Steady(q, r)
    BY <1>1, <1>6 DEF Moves, Steady, LoopsBack, Time
  <1>7. CASE LoopsBack(p, q) /\ LoopsBack(q, r)
    BY <1>1, <1>2, <1>3, <1>7 DEF Moves, LoopsBack
  <1>8. QED
    BY <1>4, <1>5, <1>6, <1>7 DEF Moves

(* Which of the engine's own fields the element's methods leave alone.     *)
LEMMA ElementAside ==
  ASSUME NEW p \in PlayerTypes
  PROVE  /\ \A event \in EventNames : Aside(p, Queue(p, event))
         /\ \A t \in Places : Aside(p, ElementSeek(p, t))
         /\ Aside(p, ElementPlay(p)) /\ Aside(p, ElementPause(p))
         /\ Aside(p, Redraw(p))
  <1>1. ASSUME NEW r \in PlayerTypes, NEW event \in EventNames
        PROVE  Aside(r, Queue(r, event))
    BY DEF Queue, Aside, PlayerTypes
  <1>2. "play" \in EventNames /\ "pause" \in EventNames /\ "timeupdate" \in EventNames
    BY DEF EventNames
  <1>3. ASSUME NEW t \in Places
        PROVE  Aside(p, ElementSeek(p, t))
    <2>1. PICK r : r = [p EXCEPT !.place = t]
      OBVIOUS
    <2>2. r \in PlayerTypes /\ Aside(p, r)
      BY <2>1 DEF PlayerTypes, Aside
    <2>3. Aside(r, Queue(r, "timeupdate"))
      BY <1>1, <1>2, <2>2
    <2>4. ElementSeek(p, t) = Queue(r, "timeupdate")
      BY <2>1 DEF ElementSeek
    <2>5. QED
      BY <2>2, <2>3, <2>4 DEF Aside
  <1>4. Aside(p, ElementPlay(p))
    <2>1. PICK r : r = [p EXCEPT !.paused = FALSE]
      OBVIOUS
    <2>2. r \in PlayerTypes /\ Aside(p, r)
      BY <2>1 DEF PlayerTypes, Aside
    <2>3. Aside(r, Queue(r, "play"))
      BY <1>1, <1>2, <2>2
    <2>4. ElementPlay(p) = IF p.paused THEN Queue(r, "play") ELSE p
      BY <2>1 DEF ElementPlay
    <2>5. QED
      BY <2>2, <2>3, <2>4 DEF Aside
  <1>5. Aside(p, ElementPause(p))
    <2>1. PICK r : r = [p EXCEPT !.paused = TRUE]
      OBVIOUS
    <2>2. r \in PlayerTypes /\ Aside(p, r)
      BY <2>1 DEF PlayerTypes, Aside
    <2>3. Aside(r, Queue(r, "pause"))
      BY <1>1, <1>2, <2>2
    <2>4. ElementPause(p) = IF p.paused THEN p ELSE Queue(r, "pause")
      BY <2>1 DEF ElementPause
    <2>5. QED
      BY <2>2, <2>3, <2>4 DEF Aside
  <1>6. Aside(p, Redraw(p))
    BY DEF Redraw, PlayerTypes, Aside
  <1>7. QED
    BY <1>1, <1>3, <1>4, <1>5, <1>6

(* The engine's fields again, of an update and of what takes over the      *)
(* element's state.                                                        *)
LEMMA UpdateAside ==
  ASSUME NEW p, NEW r \in PlayerTypes
  PROVE  Aside(r, Update(p, r))
  BY ElementAside DEF Update, Aside

LEMMA SyncMoves ==
  ASSUME NEW p \in PlayerTypes, NEW q, q = SyncPlaying(p)
  PROVE  Steady(p, q) /\ (Still(p) => Still(q))
  <1>1. PICK plays \in BOOLEAN :
          plays = IF p.pending = None THEN ~p.paused ELSE p.pending.resume
    <2>1. p.paused \in BOOLEAN /\ p.pending \in Pendings \cup {None}
      BY DEF PlayerTypes
    <2>2. p.pending # None => p.pending.resume \in BOOLEAN
      BY <2>1 DEF Pendings
    <2>3. QED
      BY <2>1, <2>2
  <1>2. PICK r : r = [p EXCEPT !.playing = plays]
    OBVIOUS
  <1>3. r \in PlayerTypes /\ Aside(p, r)
    BY <1>2 DEF PlayerTypes, Aside
  <1>4. q = Update(p, r)
    BY <1>1, <1>2 DEF SyncPlaying
  <1>5. Aside(p, q)
    BY <1>3, <1>4, UpdateAside DEF Aside
  <1>6. /\ q.paused = p.paused /\ q.place = p.place
        /\ q.events = p.events /\ q.pending = p.pending /\ q.error = p.error
    BY SyncFields
  <1>7. QED
    BY <1>5, <1>6 DEF Steady, Still

LEMMA SeekAside ==
  ASSUME NEW p \in PlayerTypes, NEW t \in Places, NEW q, q = Seek(p, t)
  PROVE  Aside(p, q) /\ (Still(p) => Still(q))
  <1>1. ASSUME NEW m \in PlayerTypes, Aside(p, m),
               q = Redraw([m EXCEPT !.previous = t, !.time = t])
        PROVE  Aside(p, q)
    <2>1. PICK r : r = [m EXCEPT !.previous = t, !.time = t]
      OBVIOUS
    <2>2. r \in PlayerTypes /\ Aside(m, r)
      BY <2>1 DEF PlayerTypes, Aside
    <2>3. q = Redraw(r)
      BY <1>1, <2>1
    <2>4. Aside(r, q)
      BY <2>2, <2>3, ElementAside
    <2>5. QED
      BY <1>1, <2>2, <2>4 DEF Aside
  <1>2. CASE p.pending = None
    <2>1. PICK e : e = ElementSeek(p, t)
      OBVIOUS
    <2>2. e \in PlayerTypes /\ Aside(p, e)
      BY <2>1, SeekElementFields, ElementAside
    <2>3. PICK m : m = [e EXCEPT !.mark = t]
      OBVIOUS
    <2>4. m \in PlayerTypes /\ Aside(p, m)
      BY <2>2, <2>3 DEF PlayerTypes, Aside
    <2>5. q = Redraw([m EXCEPT !.previous = t, !.time = t])
      BY <1>2, <2>1, <2>3 DEF Seek
    <2>6. q.pending = None
      BY <1>2, SeekFields
    <2>7. QED
      BY <1>1, <2>4, <2>5, <2>6 DEF Still
  <1>3. CASE p.pending # None
    <2>1. PICK w : w = [p.pending EXCEPT !.at = t]
      OBVIOUS
    <2>2. p.pending \in Pendings
      BY <1>3 DEF PlayerTypes
    <2>3. w \in Pendings
      BY <2>1, <2>2 DEF Pendings
    <2>4. PICK m : m = [p EXCEPT !.pending = w]
      OBVIOUS
    <2>5. m \in PlayerTypes /\ Aside(p, m)
      BY <2>3, <2>4 DEF PlayerTypes, Aside
    <2>6. m = [p EXCEPT !.pending.at = t]
      BY <2>1, <2>4
    <2>7. q = Redraw([m EXCEPT !.previous = t, !.time = t])
      BY <1>3, <2>6 DEF Seek
    <2>8. q.paused = p.paused /\ q.error = p.error /\ q.events = p.events
      BY <1>3, SeekFields
    <2>9. QED
      BY <1>1, <1>3, <2>5, <2>7, <2>8 DEF Still
  <1>4. QED
    BY <1>2, <1>3

(* A seek to the start of the loop.                                        *)
LEMMA SeekMoves ==
  ASSUME NEW p \in PlayerTypes, Looping(p), NEW q, q = Seek(p, LoopStart(p))
  PROVE  LoopsBack(p, q) /\ (Still(p) => Still(q))
  <1>1. PICK t \in Places : t = LoopStart(p)
    BY TimeInSong
  <1>2. Aside(p, q) /\ (Still(p) => Still(q))
    BY <1>1, SeekAside
  <1>3. /\ q.pending = None <=> p.pending = None
        /\ p.pending # None => q.pending.resume = p.pending.resume
        /\ Time(q) = t
    BY <1>1, SeekFields DEF Time
  <1>4. QED
    BY <1>1, <1>2, <1>3 DEF LoopsBack

LEMMA TickMoves ==
  ASSUME NEW p \in PlayerTypes, NEW q, q = Tick(p)
  PROVE  Moves(p, q) /\ (Still(p) => Still(q))
  <1>1. CASE /\ Looping(p) /\ p.pending = None
             /\ p.previous >= LoopStart(p) /\ p.previous < LoopEnd(p)
             /\ p.place >= LoopEnd(p)
    <2>1. q = Seek(p, LoopStart(p))
      BY <1>1 DEF Tick
    <2>2. QED
      BY <1>1, <2>1, SeekMoves DEF Moves
  <1>2. CASE ~(/\ Looping(p) /\ p.pending = None
               /\ p.previous >= LoopStart(p) /\ p.previous < LoopEnd(p)
               /\ p.place >= LoopEnd(p))
    <2>1. PICK t \in Places : t = Time(p)
      BY TimeInSong
    <2>2. PICK r : r = [p EXCEPT !.previous = t, !.time = t]
      OBVIOUS
    <2>3. /\ r \in PlayerTypes /\ Aside(p, r) /\ r.paused = p.paused
          /\ r.pending = p.pending /\ r.place = p.place /\ r.events = p.events
      BY <2>2 DEF PlayerTypes, Aside
    <2>4. q = Update(p, r)
      BY <1>2, <2>1, <2>2 DEF Tick
    <2>5. Like(r, q) /\ Aside(r, q)
      BY <2>3, <2>4, UpdateFields, UpdateAside
    <2>6. QED
      BY <2>3, <2>5 DEF Like, Aside, Moves, Steady, Still
  <1>3. QED
    BY <1>1, <1>2

(* What moves with the loop at most, and is still already or need not be.  *)
LEMMA MovesStill ==
  ASSUME NEW p, NEW q, Moves(p, q), p.pending = None \/ p.error
  PROVE  Still(q)
  BY DEF Moves, Steady, LoopsBack, Aside, Still

LEMMA MovesApart ==
  ASSUME NEW p, NEW q, Moves(p, q), Apart(p)
  PROVE  Apart(q)
  BY DEF Moves, Steady, LoopsBack, Aside, Apart

LEMMA ReadingMoves ==
  ASSUME NEW p \in PlayerTypes, NEW q, q = OnTimeUpdate(p)
  PROVE  Moves(p, q) /\ (Still(p) => Still(q))
  <1>1. PICK r : r = NoteProgress(p)
    OBVIOUS
  <1>2. r \in PlayerTypes /\ Like(p, r)
    BY <1>1, NoteFields
  <1>3. Aside(p, r)
    <2>1. CASE p.failures = 0 \/ p.pending # None
      BY <1>1, <2>1 DEF NoteProgress, Aside
    <2>2. CASE ~(p.failures = 0 \/ p.pending # None)
      <3>1. PICK n : n = IF p.place > p.mark THEN p.played + p.place - p.mark
                                             ELSE p.played
        OBVIOUS
      <3>2. PICK f : f = IF n >= RECOVERED_AFTER THEN 0 ELSE p.failures
        OBVIOUS
      <3>3. r = [p EXCEPT !.mark = p.place, !.played = n, !.failures = f]
        BY <1>1, <2>2, <3>1, <3>2 DEF NoteProgress
      <3>4. QED
        BY <3>3 DEF PlayerTypes, Aside
    <2>3. QED
      BY <2>1, <2>2
  <1>4. Moves(p, r) /\ (Still(p) => Still(r))
    BY <1>2, <1>3 DEF Like, Moves, Steady, Still
  <1>5. q = Tick(r)
    BY <1>1 DEF OnTimeUpdate
  <1>6. Moves(r, q) /\ (Still(r) => Still(q))
    BY <1>2, <1>5, TickMoves
  <1>7. QED
    BY <1>4, <1>6, MovesOn

(* Only a loop goes on after the end, from its start and not from the      *)
(* song's.                                                                 *)
LEMMA EndedMoves ==
  ASSUME NEW p, Core(p), Apart(p), p.pending = None \/ p.error,
         NEW allowed \in BOOLEAN, NEW q, q = Heard(p, "ended", allowed)
  PROVE  Moves(p, q)
  <1>1. PICK t : t = OnTimeUpdate(p)
    OBVIOUS
  <1>2. Core(t) /\ t \in PlayerTypes /\ Moves(p, t)
    BY <1>1, ReadingKeeps, ReadingMoves DEF Core
  <1>3. PICK r : r = IF StopsAtEnd(t) THEN SyncPlaying(Stopped(t)) ELSE t
    OBVIOUS
  <1>4. q = OnEnded(r, allowed)
    BY <1>1, <1>3 DEF Heard
  <1>5. r \in PlayerTypes /\ Moves(t, r)
    <2>1. CASE StopsAtEnd(t)
      <3>1. PICK m : m = [t EXCEPT !.paused = TRUE]
        OBVIOUS
      <3>2. m \in PlayerTypes /\ Steady(t, m)
        BY <1>2, <3>1 DEF PlayerTypes, Steady, Aside
      <3>3. r = SyncPlaying(m)
        BY <1>3, <2>1, <3>1 DEF Stopped
      <3>4. r \in PlayerTypes /\ Steady(m, r)
        BY <3>2, <3>3, SyncFields, SyncMoves
      <3>5. QED
        BY <3>2, <3>4, MovesOn DEF Moves
    <2>2. CASE ~StopsAtEnd(t)
      BY <1>2, <1>3, <2>2 DEF Moves, Steady, Aside
    <2>3. QED
      BY <2>1, <2>2
  <1>6. Moves(p, r)
    BY <1>2, <1>5, MovesOn
  <1>7. Moves(r, q)
    <2>1. CASE Looping(r) /\ r.previous >= LoopStart(r) /\ r.previous <= LoopEnd(r)
      <3>1. PICK m : m = Seek(r, LoopStart(r))
        OBVIOUS
      <3>2. q = Play(m, allowed)
        BY <1>4, <2>1, <3>1 DEF OnEnded
      <3>3. LoopsBack(r, m)
        BY <1>5, <2>1, <3>1, SeekMoves
      <3>4. PICK at \in Places : at = LoopStart(r)
        BY <1>5, <2>1, TimeInSong
      <3>5. m \in PlayerTypes /\ (r.pending = None => m.place = at)
        BY <1>5, <3>1, <3>4, SeekFields
      <3>6. Moves(m, q)
        <4>1. CASE m.error
          BY <3>2, <4>1 DEF Play, Moves, Steady, Aside
        <4>2. CASE ~m.error
          <5>1. ~p.error /\ p.pending = None
            BY <1>6, <3>3, <4>2 DEF Moves, Steady, LoopsBack, Aside
          <5>2. r.pending = None /\ m.pending = None
            BY <1>6, <3>3, <5>1 DEF Moves, Steady, LoopsBack
          <5>3. r.a \in Places /\ r.b \in Places /\ r.a # r.b
            <6>1. Apart(r)
              BY <1>6, MovesApart
            <6>2. QED
              BY <1>5, <2>1, <6>1 DEF Looping, Apart, PlayerTypes, Points
          <5>4. at # Length
            <6>1. at = IF r.a < r.b THEN r.a ELSE r.b
              BY <3>4 DEF LoopStart
            <6>2. /\ r.a \in Nat /\ r.b \in Nat /\ r.a <= Length /\ r.b <= Length
                  /\ Length \in Nat
              BY <5>3, ElementAssumption DEF Places
            <6>3. QED
              BY <5>3, <6>1, <6>2
          <5>5. ~Ended(m)
            BY <3>5, <5>2, <5>4 DEF Ended
          <5>6. q = IF allowed THEN ElementPlay(m) ELSE SyncPlaying(m)
            BY <3>2, <4>2, <5>2, <5>5 DEF Play
          <5>7. CASE allowed
            BY <3>5, <5>6, <5>7, PlayElementFields, ElementAside
            DEF Moves, Steady, Kept
          <5>8. CASE ~allowed
            BY <3>5, <5>6, <5>8, SyncMoves DEF Moves
          <5>9. QED
            BY <5>7, <5>8
        <4>3. QED
          BY <4>1, <4>2
      <3>7. QED
        BY <3>3, <3>6, MovesOn DEF Moves
    <2>2. CASE ~(Looping(r) /\ r.previous >= LoopStart(r) /\ r.previous <= LoopEnd(r))
      <3>1. q = SyncPlaying(r)
        BY <1>4, <2>2 DEF OnEnded
      <3>2. QED
        BY <1>5, <3>1, SyncMoves DEF Moves
    <2>3. QED
      BY <2>1, <2>2
  <1>8. QED
    BY <1>6, <1>7, MovesOn

(* A source that has loaded goes on where it was held.                     *)
LEMMA MetadataGoesOn ==
  ASSUME NEW p, Core(p), p.pending # None, NEW allowed \in BOOLEAN,
         NEW q, q = OnMetadata(p, allowed)
  PROVE  q.pending = None /\ Time(q) = Time(p) /\ Aside(p, q)
  <1>1. p \in PlayerTypes /\ p.pending.at \in Places
    <2>1. p \in PlayerTypes
      BY DEF Core
    <2>2. p.pending \in Pendings
      BY <2>1 DEF PlayerTypes
    <2>3. QED
      BY <2>1, <2>2 DEF Pendings
  <1>2. PICK at \in Places : at = p.pending.at
    BY <1>1
  <1>3. PICK m : m = ElementSeek(p, at)
    OBVIOUS
  <1>4. m \in PlayerTypes /\ m.place = at /\ Aside(p, m)
    BY <1>1, <1>3, SeekElementFields, ElementAside
  <1>5. PICK l : l = [m EXCEPT !.pending = None, !.previous = at, !.mark = at]
    OBVIOUS
  <1>6. l \in PlayerTypes /\ l.pending = None /\ l.place = at /\ Aside(p, l)
    BY <1>4, <1>5 DEF PlayerTypes, Aside
  <1>7. PICK x : x = IF p.pending.resume /\ allowed THEN ElementPlay(l) ELSE l
    OBVIOUS
  <1>8. x \in PlayerTypes /\ x.pending = None /\ x.place = at /\ Aside(p, x)
    <2>1. CASE p.pending.resume /\ allowed
      <3>1. x = ElementPlay(l)
        BY <1>7, <2>1
      <3>2. x \in PlayerTypes /\ x.place = l.place /\ Kept(l, x) /\ Aside(l, x)
        BY <1>6, <3>1, PlayElementFields, ElementAside
      <3>3. QED
        BY <1>6, <3>2 DEF Kept, Aside
    <2>2. CASE ~(p.pending.resume /\ allowed)
      BY <1>6, <1>7, <2>2
    <2>3. QED
      BY <2>1, <2>2
  <1>9. PICK y : y = SyncPlaying(x)
    OBVIOUS
  <1>10. y \in PlayerTypes /\ Steady(x, y)
    BY <1>8, <1>9, SyncFields, SyncMoves
  <1>11. q = Redraw(y)
    BY <1>2, <1>3, <1>5, <1>7, <1>9 DEF OnMetadata
  <1>12. Like(y, q) /\ Aside(y, q)
    BY <1>10, <1>11, RedrawFields, ElementAside
  <1>13. q.pending = None /\ q.place = at /\ Aside(p, q)
    BY <1>8, <1>10, <1>12 DEF Steady, Like, Aside
  <1>14. QED
    BY <1>2, <1>13 DEF Time

LEMMA LoadAside ==
  ASSUME NEW p \in PlayerTypes, NEW at \in Places, NEW resume \in BOOLEAN,
         NEW q, q = Load(p, at, resume)
  PROVE  /\ Aside(p, q) /\ Still(q)
         /\ q.pending # None /\ q.pending.resume = resume /\ Time(q) = at
  <1>1. PICK w : w = [at |-> at, resume |-> resume]
    OBVIOUS
  <1>2. w \in Pendings /\ w # None /\ w.at = at /\ w.resume = resume
    BY <1>1, PendingParts
  <1>3. PICK m : m = ElementLoad(p, p.source)
    OBVIOUS
  <1>4. PICK s \in Seq(EventNames) : s = IF p.place = 0 THEN <<>> ELSE <<"timeupdate">>
    BY NoneQueued
  <1>5. m = [p EXCEPT !.src = p.source, !.ready = "nothing", !.paused = TRUE,
                      !.place = 0, !.events = s]
    BY <1>3, <1>4 DEF ElementLoad
  <1>6. 0 \in Places /\ p.source \in Sources
    BY TimeInSong DEF PlayerTypes
  <1>7. m \in PlayerTypes /\ Aside(p, m)
    BY <1>5, <1>6 DEF PlayerTypes, Aside
  <1>8. PICK r : r = [m EXCEPT !.pending = w]
    OBVIOUS
  <1>9. r \in PlayerTypes /\ Aside(p, r)
    BY <1>2, <1>7, <1>8 DEF PlayerTypes, Aside
  <1>10. q = SyncPlaying(r)
    BY <1>1, <1>3, <1>8 DEF Load
  <1>11. Aside(p, q)
    BY <1>9, <1>10, SyncMoves DEF Steady, Aside
  <1>12. /\ q.paused /\ q.pending # None /\ q.pending.at = at
         /\ q.pending.resume = resume
         /\ q.events = IF p.place = 0 THEN <<>> ELSE <<"timeupdate">>
    BY LoadFields
  <1>13. ~Contains(q.events, "ended")
    BY <1>12, NoneQueued
  <1>14. QED
    BY <1>11, <1>12, <1>13 DEF Still, Time

(* A failure keeps where and whether it plays: in the next load, or in     *)
(* what an engine that gives up remembers.                                 *)
LEMMA ErrorHolds ==
  ASSUME NEW p, Core(p), ~p.error, NEW q, q = OnError(p)
  PROVE  /\ q.pending # None /\ Time(q) = Time(p) /\ Still(q)
         /\ (IF q.error THEN q.held ELSE q.pending.resume) = p.playing
         /\ q.source = p.source /\ q.a = p.a /\ q.b = p.b
  <1>1. p \in PlayerTypes /\ p.failures \in Nat /\ p.playing \in BOOLEAN
    <2>1. p \in PlayerTypes
      BY DEF Core
    <2>2. QED
      BY <2>1 DEF PlayerTypes
  <1>2. PICK at \in Places : at = Time(p)
    BY <1>1, TimeInSong
  <1>3. PICK f \in Nat : f = p.failures + 1
    BY <1>1
  <1>4. CASE f >= MAX_FAILURES
    <2>1. PICK w : w = [at |-> at, resume |-> FALSE]
      OBVIOUS
    <2>2. w \in Pendings /\ w # None /\ w.at = at
      BY <2>1, PendingParts
    <2>3. PICK m : m = ElementPause(p)
      OBVIOUS
    <2>4. m \in PlayerTypes /\ Aside(p, m)
      BY <1>1, <2>3, PauseElementFields, ElementAside
    <2>5. PICK n \in Nat : n = m.failures + 1
      BY <2>4 DEF PlayerTypes
    <2>6. PICK r : r = [m EXCEPT !.failures = n, !.pending = w,
                                 !.held = p.playing, !.error = TRUE, !.playing = FALSE]
      OBVIOUS
    <2>7. /\ r \in PlayerTypes /\ r.pending = w /\ r.error /\ r.held = p.playing
          /\ r.source = m.source /\ r.a = m.a /\ r.b = m.b
      BY <1>1, <2>2, <2>4, <2>6 DEF PlayerTypes
    <2>8. q = Redraw(r)
      BY <1>2, <1>3, <1>4, <2>1, <2>3, <2>6, <2>5 DEF OnError
    <2>9. Like(r, q) /\ Aside(r, q)
      BY <2>7, <2>8, RedrawFields, ElementAside
    <2>10. /\ q.pending = w /\ q.error /\ q.held = p.playing
          /\ q.source = p.source /\ q.a = p.a /\ q.b = p.b
      BY <2>4, <2>7, <2>9 DEF Like, Aside
    <2>11. QED
      BY <1>2, <2>2, <2>10 DEF Time, Still
  <1>5. CASE ~(f >= MAX_FAILURES)
    <2>1. PICK r : r = [p EXCEPT !.failures = f, !.played = 0]
      OBVIOUS
    <2>2. r \in PlayerTypes /\ Aside(p, r)
      BY <1>1, <2>1 DEF PlayerTypes, Aside
    <2>3. PICK resume \in BOOLEAN : resume = p.playing
      BY <1>1
    <2>4. q = Load(r, at, resume)
      BY <1>2, <1>3, <1>5, <2>1, <2>3 DEF OnError
    <2>5. /\ Aside(r, q) /\ Still(q)
          /\ q.pending # None /\ q.pending.resume = resume /\ Time(q) = at
      BY <2>2, <2>4, LoadAside
    <2>6. QED
      BY <1>2, <2>2, <2>3, <2>5 DEF Aside
  <1>6. QED
    BY <1>4, <1>5

LEMMA HeardCarries ==
  ASSUME NEW p, Whole(p), Still(p), Apart(p), p.events # <<>>,
         NEW allowed \in BOOLEAN,
         NEW q, q = Heard([p EXCEPT !.events = Tail(@)], Head(p.events), allowed)
  PROVE  Carries(p, q) /\ CarriesOn(p, q) /\ Still(q) /\ Apart(q)
  <1>1. p \in PlayerTypes /\ p.events \in Seq(EventNames)
    <2>1. p \in PlayerTypes
      BY DEF Whole, Core
    <2>2. QED
      BY <2>1 DEF PlayerTypes
  <1>2. PICK s : s = Tail(p.events)
    OBVIOUS
  <1>3. PICK h : h = Head(p.events)
    OBVIOUS
  <1>4. /\ s \in Seq(EventNames) /\ h \in EventNames
        /\ \A e : Contains(p.events, e) <=> h = e \/ Contains(s, e)
        /\ ErrorLast(p.events) => ErrorLast(s)
    BY <1>1, <1>2, <1>3, TailOfQueue
  <1>5. PICK r : r = [p EXCEPT !.events = s]
    OBVIOUS
  <1>6. /\ r \in PlayerTypes /\ r.events = s /\ r.ready = p.ready
        /\ r.paused = p.paused /\ r.playing = p.playing /\ Steady(p, r)
    BY <1>1, <1>4, <1>5 DEF PlayerTypes, Steady, Aside
  <1>7. Core(r) /\ FramesGoOn(p)
    BY <1>4, <1>6 DEF Whole, Core, GivenUp, Failing, Steady, Aside
  <1>8. Moves(p, r) /\ Still(r) /\ Apart(r)
    BY <1>4, <1>6 DEF Moves, Steady, Aside, Still, Apart
  <1>9. q = Heard(r, h, allowed)
    BY <1>2, <1>3, <1>5
  <1>10. ASSUME Moves(r, q), Still(q)
         PROVE  Carries(p, q) /\ CarriesOn(p, q) /\ Still(q) /\ Apart(q)
    BY <1>8, <1>10, MovesOn, MovesCarry, MovesApart
  <1>11. CASE h = "loadedmetadata"
    <2>1. q = OnMetadata(r, allowed)
      BY <1>9, <1>11 DEF Heard
    <2>2. CASE r.pending = None
      <3>1. q = r
        BY <2>1, <2>2 DEF OnMetadata
      <3>2. QED
        BY <1>8, <3>1, MovesCarry
    <2>3. CASE r.pending # None
      <3>1. q.pending = None /\ Time(q) = Time(r) /\ Aside(r, q)
        BY <1>7, <2>1, <2>3, MetadataGoesOn
      <3>2. Time(q) = Time(p) /\ Aside(p, q)
        BY <1>6, <3>1 DEF Steady, Aside, Time
      <3>3. QED
        BY <1>8, <3>1, <3>2 DEF Aside, Carries, CarriesOn, Still, Apart
    <2>4. QED
      BY <2>2, <2>3
  <1>12. CASE h = "play"
    <2>1. q = SyncPlaying(r)
      BY <1>9, <1>12 DEF Heard
    <2>2. QED
      BY <1>6, <1>8, <1>10, <2>1, SyncMoves DEF Moves
  <1>13. CASE h = "pause"
    <2>1. PICK t : t = OnTimeUpdate(r)
      OBVIOUS
    <2>2. q = SyncPlaying(t)
      BY <1>9, <1>13, <2>1 DEF Heard
    <2>3. t \in PlayerTypes
      BY <1>7, <2>1, ReadingKeeps DEF Core
    <2>4. Moves(r, t) /\ Still(t)
      BY <1>6, <1>8, <2>1, ReadingMoves
    <2>5. Moves(t, q) /\ Still(q)
      BY <2>2, <2>3, <2>4, SyncMoves DEF Moves
    <2>6. QED
      BY <1>10, <2>4, <2>5, MovesOn
  <1>14. CASE h = "timeupdate"
    <2>1. q = OnTimeUpdate(r)
      BY <1>9, <1>14 DEF Heard
    <2>2. QED
      BY <1>6, <1>8, <1>10, <2>1, ReadingMoves
  <1>15. CASE h = "ended"
    <2>1. q = Heard(r, "ended", allowed)
      BY <1>9, <1>15
    <2>2. r.pending = None \/ r.error
      BY <1>4, <1>6, <1>15 DEF Still, Steady, Aside
    <2>3. Moves(r, q)
      BY <1>7, <1>8, <2>1, <2>2, EndedMoves
    <2>4. QED
      BY <1>10, <2>2, <2>3, MovesStill
  <1>16. CASE h = "error"
    <2>1. q = OnError(r)
      BY <1>9, <1>16 DEF Heard
    <2>2. ~p.error
      BY <1>4, <1>16 DEF Whole, Core, GivenUp
    <2>3. ~r.error /\ Time(r) = Time(p)
      BY <1>6, <2>2 DEF Steady, Aside, Time
    <2>4. /\ q.pending # None /\ Time(q) = Time(r) /\ Still(q)
          /\ (IF q.error THEN q.held ELSE q.pending.resume) = r.playing
          /\ q.source = r.source /\ q.a = r.a /\ q.b = r.b
      BY <1>7, <2>1, <2>3, ErrorHolds
    <2>5. p.pending = None /\ UpToDate(p) => p.playing = ~p.paused
      BY DEF Whole, Agrees, UpToDate
    <2>6. p.pending # None => p.playing = p.pending.resume
      BY DEF Whole, Agrees
    <2>7. Carries(p, q)
      BY <1>6, <2>2, <2>4, <2>5 DEF Carries, Steady, Aside
    <2>8. CarriesOn(p, q)
      BY <1>6, <2>3, <2>4, <2>6 DEF CarriesOn, Steady, Aside
    <2>9. QED
      BY <1>8, <2>4, <2>7, <2>8 DEF Apart
  <1>17. QED
    BY <1>4, <1>11, <1>12, <1>13, <1>14, <1>15, <1>16 DEF EventNames

(* What the user does.                                                     *)
LEMMA PlayCarries ==
  ASSUME NEW p, Whole(p), Still(p), Apart(p), NEW allowed \in BOOLEAN,
         NEW q, q = Play(p, allowed)
  PROVE  Carries(p, q) /\ Still(q) /\ Apart(q)
  <1>1. p \in PlayerTypes
    BY DEF Whole, Core
  <1>2. CASE p.error
    BY <1>2 DEF Play, Carries
  <1>3. CASE ~p.error /\ p.pending # None
    <2>1. PICK w : w = [p.pending EXCEPT !.resume = TRUE]
      OBVIOUS
    <2>2. p.pending \in Pendings
      BY <1>1, <1>3 DEF PlayerTypes
    <2>3. w \in Pendings
      BY <2>1, <2>2 DEF Pendings
    <2>4. PICK r : r = [p EXCEPT !.pending = w]
      OBVIOUS
    <2>5. /\ r \in PlayerTypes /\ Aside(p, r) /\ r.paused = p.paused
          /\ r.events = p.events
      BY <1>1, <2>3, <2>4 DEF PlayerTypes, Aside
    <2>6. q = SyncPlaying(r)
      BY <1>3, <2>1, <2>4 DEF Play
    <2>7. Steady(r, q) /\ (Still(r) => Still(q))
      BY <2>5, <2>6, SyncMoves
    <2>8. Still(r)
      BY <1>3, <2>5 DEF Still
    <2>9. Aside(p, q)
      BY <2>5, <2>7 DEF Steady, Aside
    <2>10. QED
      BY <1>3, <2>7, <2>8, <2>9 DEF Carries, Aside, Apart
  <1>4. CASE ~p.error /\ p.pending = None
    <2>1. PICK r : r = IF Ended(p) THEN Seek(p, 0) ELSE p
      OBVIOUS
    <2>2. q = IF allowed THEN ElementPlay(r) ELSE SyncPlaying(r)
      BY <1>4, <2>1 DEF Play
    <2>3. r \in PlayerTypes /\ r.pending = None /\ Aside(p, r)
      <3>1. CASE Ended(p)
        <4>1. r = Seek(p, 0) /\ 0 \in Places
          BY <1>1, <2>1, <3>1, TimeInSong
        <4>2. r \in PlayerTypes /\ r.pending = None
          BY <1>1, <1>4, <4>1, SeekFields
        <4>3. Aside(p, r)
          BY <1>1, <4>1, SeekAside
        <4>4. QED
          BY <4>2, <4>3
      <3>2. CASE ~Ended(p)
        BY <1>1, <1>4, <2>1, <3>2 DEF Aside
      <3>3. QED
        BY <3>1, <3>2
    <2>4. q.pending = None /\ Aside(r, q)
      <3>1. CASE allowed
        BY <2>2, <2>3, <3>1, PlayElementFields, ElementAside DEF Kept
      <3>2. CASE ~allowed
        BY <2>2, <2>3, <3>2, SyncMoves DEF Steady
      <3>3. QED
        BY <3>1, <3>2
    <2>5. QED
      BY <1>4, <2>3, <2>4 DEF Carries, Aside, Still, Apart
  <1>5. QED
    BY <1>2, <1>3, <1>4

LEMMA PauseCarries ==
  ASSUME NEW p, Whole(p), Still(p), Apart(p), NEW q, q = Pause(p)
  PROVE  Carries(p, q) /\ Still(q) /\ Apart(q)
  <1>1. p \in PlayerTypes
    BY DEF Whole, Core
  <1>2. CASE p.pending # None
    <2>1. PICK w : w = [p.pending EXCEPT !.resume = FALSE]
      OBVIOUS
    <2>2. p.pending \in Pendings
      BY <1>1, <1>2 DEF PlayerTypes
    <2>3. w \in Pendings
      BY <2>1, <2>2 DEF Pendings
    <2>4. PICK r : r = [p EXCEPT !.pending = w]
      OBVIOUS
    <2>5. /\ r \in PlayerTypes /\ Aside(p, r) /\ r.paused = p.paused
          /\ r.events = p.events
      BY <1>1, <2>3, <2>4 DEF PlayerTypes, Aside
    <2>6. q = SyncPlaying(r)
      BY <1>2, <2>1, <2>4 DEF Pause
    <2>7. Steady(r, q) /\ (Still(r) => Still(q))
      BY <2>5, <2>6, SyncMoves
    <2>8. Still(r)
      BY <1>2, <2>5 DEF Still, Aside
    <2>9. Aside(p, q)
      BY <2>5, <2>7 DEF Steady, Aside
    <2>10. QED
      BY <1>2, <2>7, <2>8, <2>9 DEF Carries, Aside, Apart
  <1>3. CASE p.pending = None
    <2>1. q = ElementPause(p)
      BY <1>3 DEF Pause
    <2>2. q.pending = None /\ Aside(p, q)
      BY <1>1, <1>3, <2>1, PauseElementFields, ElementAside DEF Kept
    <2>3. QED
      BY <2>2 DEF Carries, Aside, Still, Apart
  <1>4. QED
    BY <1>2, <1>3

LEMMA SourceCarries ==
  ASSUME NEW p, Whole(p), Still(p), Apart(p), NEW s \in Sources,
         NEW q, q = SetSource(p, s)
  PROVE  Carries(p, q) /\ Still(q) /\ Apart(q)
  <1>1. p \in PlayerTypes
    BY DEF Whole, Core
  <1>2. PICK resume \in BOOLEAN : resume = IF p.error THEN p.held ELSE p.playing
    BY <1>1 DEF PlayerTypes
  <1>3. PICK at \in Places : at = Time(p)
    BY <1>1, TimeInSong
  <1>4. PICK r : r = [p EXCEPT !.source = s, !.failures = 0, !.error = FALSE]
    OBVIOUS
  <1>5. r \in PlayerTypes /\ r.a = p.a /\ r.b = p.b
    BY <1>1, <1>4 DEF PlayerTypes
  <1>6. PICK x : x = Redraw(r)
    OBVIOUS
  <1>7. x \in PlayerTypes /\ Aside(r, x)
    BY <1>5, <1>6, RedrawFields, ElementAside
  <1>8. q = Load(x, at, resume)
    BY <1>2, <1>3, <1>4, <1>6 DEF SetSource
  <1>9. /\ Aside(x, q) /\ Still(q)
        /\ q.pending # None /\ q.pending.resume = resume /\ Time(q) = at
    BY <1>7, <1>8, LoadAside
  <1>10. p.pending = None /\ UpToDate(p) => p.playing = ~p.paused
    BY DEF Whole, Agrees, UpToDate
  <1>11. p.pending = None => ~p.error
    BY DEF Whole, Core, GivenUp
  <1>12. Carries(p, q)
    BY <1>2, <1>3, <1>9, <1>10, <1>11 DEF Carries
  <1>13. Apart(q)
    BY <1>5, <1>7, <1>9 DEF Aside, Apart
  <1>14. QED
    BY <1>9, <1>12, <1>13

(* The points of a loop are set apart.                                     *)
LEMMA LoopCarries ==
  ASSUME NEW p, Whole(p), Still(p), Apart(p),
         NEW q, q \in {SetA(p), SetB(p), ClearLoop(p)}
  PROVE  Carries(p, q) /\ Still(q) /\ Apart(q)
  <1>1. p \in PlayerTypes
    BY DEF Whole, Core
  <1>2. ASSUME NEW a \in Points, NEW b \in Points, a # None => a # b,
               q = Update(p, [p EXCEPT !.a = a, !.b = b])
        PROVE  Carries(p, q) /\ Still(q) /\ Apart(q)
    <2>1. PICK r : r = [p EXCEPT !.a = a, !.b = b]
      OBVIOUS
    <2>2. /\ r \in PlayerTypes /\ r.a = a /\ r.b = b /\ r.source = p.source
          /\ r.error = p.error /\ r.pending = p.pending /\ r.paused = p.paused
          /\ r.events = p.events
      BY <1>1, <1>2, <2>1 DEF PlayerTypes
    <2>3. Like(r, q) /\ Aside(r, q)
      BY <1>1, <1>2, <2>1, <2>2, UpdateFields, UpdateAside
    <2>4. QED
      BY <1>2, <2>2, <2>3 DEF Like, Aside, Carries, Still, Apart
  <1>3. PICK t \in Places : t = Time(p)
    BY <1>1, TimeInSong
  <1>4. /\ p.a \in Points /\ p.b \in Points /\ None \in Points /\ t \in Points
        /\ t # None
    BY <1>1, EngineAssumption DEF PlayerTypes, Points
  <1>5. CASE q = SetA(p)
    <2>1. CASE t = p.b
      BY <1>3, <1>5, <2>1 DEF SetA, Carries
    <2>2. CASE t # p.b
      <3>1. q = Update(p, [p EXCEPT !.a = t])
        BY <1>3, <1>5, <2>2 DEF SetA
      <3>2. [p EXCEPT !.a = t] = [p EXCEPT !.a = t, !.b = p.b]
        BY <1>1 DEF PlayerTypes
      <3>3. QED
        BY <1>2, <1>4, <2>2, <3>1, <3>2
    <2>3. QED
      BY <2>1, <2>2
  <1>6. CASE q = SetB(p)
    <2>1. CASE t = p.a
      BY <1>3, <1>6, <2>1 DEF SetB, Carries
    <2>2. CASE t # p.a
      <3>1. q = Update(p, [p EXCEPT !.b = t])
        BY <1>3, <1>6, <2>2 DEF SetB
      <3>2. [p EXCEPT !.b = t] = [p EXCEPT !.a = p.a, !.b = t]
        BY <1>1 DEF PlayerTypes
      <3>3. QED
        BY <1>2, <1>4, <2>2, <3>1, <3>2
    <2>3. QED
      BY <2>1, <2>2
  <1>7. CASE q = ClearLoop(p)
    BY <1>2, <1>4, <1>7 DEF ClearLoop
  <1>8. QED
    BY <1>5, <1>6, <1>7

LEMMA ElementCarries ==
  ASSUME NEW p, Whole(p), Still(p), Apart(p),
         NEW q,
         \/ Loads(p) /\ q = Loaded(p)
         \/ Advances(p) /\ q = Advanced(p)
         \/ ReachesEnd(p) /\ q = Queue(p, "ended")
         \/ p.ready # "failed" /\ q = Broken(p)
  PROVE  Carries(p, q) /\ CarriesOn(p, q) /\ Still(q) /\ Apart(q)
  <1>1. p \in PlayerTypes /\ p.place \in Places
    <2>1. p \in PlayerTypes
      BY DEF Whole, Core
    <2>2. QED
      BY <2>1 DEF PlayerTypes
  <1>2. ASSUME NEW event \in EventNames, NEW r \in PlayerTypes,
               r.events = p.events, r.paused = p.paused, r.place = p.place,
               Kept(p, r), Aside(p, r), q = Queue(r, event),
               event = "ended" => ~p.paused
        PROVE  Carries(p, q) /\ CarriesOn(p, q) /\ Still(q) /\ Apart(q)
    <2>1. /\ Queued(p.events, q.events, event) /\ q.paused = r.paused
          /\ q.place = r.place /\ q.pending = r.pending
      BY <1>2, QueueFields
    <2>2. Aside(r, q)
      BY <1>2, ElementAside
    <2>3. Moves(p, q)
      BY <1>2, <2>1, <2>2 DEF Moves, Steady, Aside, Kept
    <2>4. Contains(q.events, "ended") => Contains(p.events, "ended") \/ event = "ended"
      BY <2>1 DEF Queued
    <2>5. Still(q)
      BY <1>2, <2>1, <2>2, <2>4 DEF Still, Aside, Kept
    <2>6. QED
      BY <2>3, <2>5, MovesCarry, MovesApart
  <1>3. /\ "loadedmetadata" \in EventNames /\ "ended" \in EventNames
        /\ "error" \in EventNames
    BY DEF EventNames
  <1>4. CASE Loads(p) /\ q = Loaded(p)
    <2>1. PICK r : r = [p EXCEPT !.ready = "metadata"]
      OBVIOUS
    <2>2. /\ r \in PlayerTypes /\ r.events = p.events /\ r.paused = p.paused
          /\ r.place = p.place /\ Kept(p, r) /\ Aside(p, r)
      BY <1>1, <2>1 DEF PlayerTypes, Kept, Aside
    <2>3. q = Queue(r, "loadedmetadata")
      BY <1>4, <2>1 DEF Loaded
    <2>4. QED
      BY <1>2, <1>3, <2>2, <2>3
  <1>5. CASE Advances(p) /\ q = Advanced(p)
    <2>1. PICK t \in Places : t = p.place + 1
      BY <1>1, <1>5, ElementAssumption DEF Advances, Places
    <2>2. q = ElementSeek(p, t)
      BY <1>5, <2>1 DEF Advanced
    <2>3. /\ q.place = t /\ q.paused = p.paused /\ Kept(p, q) /\ Aside(p, q)
          /\ Queued(p.events, q.events, "timeupdate")
      BY <1>1, <2>2, SeekElementFields, ElementAside
    <2>4. Contains(q.events, "ended") => Contains(p.events, "ended")
      BY <2>3 DEF Queued
    <2>5. p.pending = None => Time(q) = Time(p) + 1
      BY <2>1, <2>3 DEF Kept, Time
    <2>6. p.pending # None => Time(q) = Time(p)
      BY <2>3 DEF Kept, Time
    <2>7. Carries(p, q) /\ CarriesOn(p, q)
      BY <2>3, <2>5, <2>6 DEF Carries, CarriesOn, Kept, Aside
    <2>8. QED
      BY <2>3, <2>4, <2>7 DEF Still, Apart, Kept, Aside
  <1>6. CASE ReachesEnd(p) /\ q = Queue(p, "ended")
    <2>1. ~p.paused /\ Kept(p, p) /\ Aside(p, p)
      BY <1>6 DEF ReachesEnd, Kept, Aside
    <2>2. QED
      BY <1>1, <1>2, <1>3, <1>6, <2>1
  <1>7. CASE p.ready # "failed" /\ q = Broken(p)
    <2>1. PICK r : r = [p EXCEPT !.ready = "failed"]
      OBVIOUS
    <2>2. /\ r \in PlayerTypes /\ r.events = p.events /\ r.paused = p.paused
          /\ r.place = p.place /\ Kept(p, r) /\ Aside(p, r)
      BY <1>1, <2>1 DEF PlayerTypes, Kept, Aside
    <2>3. q = Queue(r, "error")
      BY <1>7, <2>1 DEF Broken
    <2>4. QED
      BY <1>2, <1>3, <2>2, <2>3
  <1>8. QED
    BY <1>4, <1>5, <1>6, <1>7

LEMMA FrameCarries ==
  ASSUME NEW p, Whole(p), Still(p), Apart(p),
         NEW r, r = Tick([p EXCEPT !.frame = FALSE]),
         NEW q, q = IF r.playing /\ r.pending = None THEN Redraw(r) ELSE r
  PROVE  Carries(p, q) /\ CarriesOn(p, q) /\ Still(q) /\ Apart(q)
  <1>1. p \in PlayerTypes
    BY DEF Whole, Core
  <1>2. PICK x : x = [p EXCEPT !.frame = FALSE]
    OBVIOUS
  <1>3. /\ x \in PlayerTypes /\ Steady(p, x) /\ x.paused = p.paused
        /\ x.events = p.events /\ x.ready = p.ready /\ x.playing = p.playing
    BY <1>1, <1>2 DEF PlayerTypes, Steady, Aside
  <1>4. Moves(p, x) /\ Still(x)
    BY <1>3 DEF Moves, Steady, Aside, Still
  <1>5. Core(x)
    BY <1>3 DEF Whole, Core, GivenUp, Failing, Steady, Aside
  <1>6. Moves(x, r) /\ Still(r) /\ r \in PlayerTypes
    BY <1>2, <1>3, <1>4, <1>5, TickMoves, TickKeeps DEF Core
  <1>7. Moves(r, q) /\ Still(q)
    <2>1. CASE q = r
      BY <1>6, <2>1 DEF Moves, Steady, Aside
    <2>2. CASE q = Redraw(r)
      <3>1. Like(r, q) /\ Aside(r, q)
        BY <1>6, <2>2, RedrawFields, ElementAside
      <3>2. QED
        BY <1>6, <3>1 DEF Moves, Steady, Like, Still
    <2>3. QED
      BY <2>1, <2>2
  <1>8. Moves(p, q)
    BY <1>4, <1>6, <1>7, MovesOn
  <1>9. QED
    BY <1>7, <1>8, MovesCarry, MovesApart

LEMMA KeepStarts == Init => KeepInv
  <1> SUFFICES ASSUME Init
               PROVE  KeepInv
    OBVIOUS
  <1>1. player.paused /\ player.events = <<>> /\ player.a = None /\ acts \in Nat
    BY EngineAssumption DEF Init
  <1>2. Still(player) /\ Apart(player)
    BY <1>1, NoneQueued DEF Still, Apart
  <1>3. QED
    BY <1>1, <1>2, EngineStarts DEF KeepInv

LEMMA KeepSteps ==
  ASSUME KeepInv, Next
  PROVE  /\ KeepInv'
         /\ Carries(player, player')
         /\ acts' = acts => CarriesOn(player, player')
  <1>1. /\ EngineInv' /\ Whole(player) /\ Still(player) /\ Apart(player)
        /\ acts \in Nat
    BY EngineKeeps DEF KeepInv, EngineInv
  <1>2. ASSUME Acts
        PROVE  acts' \in Nat /\ acts' # acts
    BY <1>1, <1>2 DEF Acts
  <1>3. ASSUME Carries(player, player') /\ Still(player') /\ Apart(player'),
               Acts \/ (acts' = acts /\ CarriesOn(player, player'))
        PROVE  /\ KeepInv'
               /\ Carries(player, player')
               /\ acts' = acts => CarriesOn(player, player')
    BY <1>1, <1>2, <1>3 DEF KeepInv
  <1>4. CASE UserToggles
    <2>1. PICK allowed \in BOOLEAN : player' = Toggle(player, allowed)
      BY <1>4 DEF UserToggles
    <2>2. Carries(player, player') /\ Still(player') /\ Apart(player')
      BY <1>1, <2>1, PauseCarries, PlayCarries DEF Toggle
    <2>3. QED
      BY <1>3, <1>4, <2>2 DEF UserToggles
  <1>5. CASE UserSeeks
    <2>1. PICK t \in Places : player' = Seek(player, t)
      BY <1>5 DEF UserSeeks
    <2>2. player \in PlayerTypes
      BY <1>1 DEF Whole, Core
    <2>3. Aside(player, player') /\ Still(player')
      BY <1>1, <2>1, <2>2, SeekAside
    <2>4. player'.pending = None <=> player.pending = None
      BY <2>1, <2>2, SeekFields
    <2>5. Carries(player, player') /\ Apart(player')
      BY <1>1, <2>3, <2>4 DEF Carries, Aside, Apart
    <2>6. QED
      BY <1>3, <1>5, <2>3, <2>5 DEF UserSeeks
  <1>6. CASE UserSetsSource
    <2>1. PICK s \in Sources : player' = SetSource(player, s)
      BY <1>6 DEF UserSetsSource
    <2>2. Carries(player, player') /\ Still(player') /\ Apart(player')
      BY <1>1, <2>1, SourceCarries
    <2>3. QED
      BY <1>3, <1>6, <2>2 DEF UserSetsSource
  <1>7. CASE UserLoops
    <2>1. Carries(player, player') /\ Still(player') /\ Apart(player')
      BY <1>1, <1>7, LoopCarries DEF UserLoops
    <2>2. QED
      BY <1>3, <1>7, <2>1 DEF UserLoops
  <1>8. CASE HandleEvent
    <2>1. PICK allowed \in BOOLEAN :
            player' = Heard([player EXCEPT !.events = Tail(@)], Head(player.events),
                            allowed)
      BY <1>8 DEF HandleEvent
    <2>2. player.events # <<>> /\ acts' = acts
      BY <1>8 DEF HandleEvent
    <2>3. /\ Carries(player, player') /\ CarriesOn(player, player')
          /\ Still(player') /\ Apart(player')
      BY <1>1, <2>1, <2>2, HeardCarries
    <2>4. QED
      BY <1>3, <2>2, <2>3
  <1>9. CASE RunFrame
    <2>1. PICK r : r = Tick([player EXCEPT !.frame = FALSE])
      OBVIOUS
    <2>2. /\ player' = IF r.playing /\ r.pending = None THEN Redraw(r) ELSE r
          /\ acts' = acts
      BY <1>9, <2>1 DEF RunFrame
    <2>3. /\ Carries(player, player') /\ CarriesOn(player, player')
          /\ Still(player') /\ Apart(player')
      BY <1>1, <2>1, <2>2, FrameCarries
    <2>4. QED
      BY <1>3, <2>2, <2>3
  <1>10. CASE \/ ElementLoads \/ ElementAdvances \/ ElementEnds \/ ElementBreaksOff
              \/ ElementBreaks
    <2>1. acts' = acts
      BY <1>10 DEF ElementLoads, ElementAdvances, ElementEnds, ElementBreaksOff,
         ElementBreaks
    <2>2. \/ Loads(player) /\ player' = Loaded(player)
          \/ Advances(player) /\ player' = Advanced(player)
          \/ ReachesEnd(player) /\ player' = Queue(player, "ended")
          \/ player.ready # "failed" /\ player' = Broken(player)
      BY <1>10 DEF ElementLoads, ElementAdvances, ElementEnds, ElementBreaksOff,
         ElementBreaks, Breaks, BreaksOff
    <2>3. /\ Carries(player, player') /\ CarriesOn(player, player')
          /\ Still(player') /\ Apart(player')
      BY <1>1, <2>2, ElementCarries
    <2>4. QED
      BY <1>3, <2>1, <2>3
  <1>11. QED
    BY <1>4, <1>5, <1>6, <1>7, <1>8, <1>9, <1>10 DEF Next

LEMMA KeepSound == Spec => []KeepInv
  <1>1. KeepInv /\ UNCHANGED vars => KeepInv'
    <2> SUFFICES ASSUME KeepInv, UNCHANGED vars
                 PROVE  KeepInv'
      OBVIOUS
    <2>1. EngineInv'
      BY EngineKeeps DEF KeepInv
    <2>2. QED
      BY <2>1 DEF KeepInv, vars
  <1>2. KeepInv /\ [Next]_vars => KeepInv'
    BY <1>1, KeepSteps
  <1>3. QED
    BY KeepStarts, <1>2, PTL DEF Spec

(* Whether the song plays, and where, is kept through loading, errors,     *)
(* giving up and a change of source; but for the user's own calls the      *)
(* position moves by playback or back to the start of the loop, and what   *)
(* is to come of a load stays as it is (engine.ts load, setSource,         *)
(* onMetadata, onError, onEnded).                                          *)
THEOREM KeepsPlayback == Spec => PlaybackKept
  <1>1. KeepInv /\ [Next]_vars =>
          [/\ player.pending = None /\ player'.pending # None /\ ~player'.error
                /\ UpToDate(player) =>
                player'.pending.resume = ~player.paused
           /\ player.pending # None /\ ~player.error /\ player'.pending # None
                /\ acts' = acts =>
                (IF player'.error THEN player'.held ELSE player'.pending.resume)
                  = player.pending.resume
           /\ player.error /\ ~player'.error => player'.pending.resume = player.held
           /\ acts' = acts /\ Time(player') # Time(player) =>
                \/ player.pending = None /\ Time(player') = Time(player) + 1
                \/ Looping(player) /\ Time(player') = LoopStart(player)
           /\ player'.source # player.source => Time(player') = Time(player)]_vars
    BY KeepSteps DEF Carries, CarriesOn
  <1>2. QED
    BY <1>1, KeepSound, PTL DEF Spec, PlaybackKept

-----------------------------------------------------------------------------
(* The views.                                                              *)

(* The binary search.                                                      *)

(* The indices that pass are those from m on.                              *)
Splits(n, passing, m) ==
  m \in 0..n /\ \A i \in 0..(n - 1) : i \in passing <=> m <= i

LEMMA SplitsOnce ==
  ASSUME NEW n \in Nat, NEW passing, NEW m, NEW k,
         Splits(n, passing, m), Splits(n, passing, k)
  PROVE  m = k
<1>1. m \in 0..n /\ k \in 0..n
  BY DEF Splits
<1>2. CASE m < k
  BY <1>1, <1>2 DEF Splits
<1>3. CASE k < m
  BY <1>1, <1>3 DEF Splits
<1> QED
  BY <1>1, <1>2, <1>3

UpClosed(n, passing) ==
  \A i, j \in 0..(n - 1) : i \in passing /\ i <= j => j \in passing

LEMMA UpSplits ==
  ASSUME NEW n \in Nat, NEW passing, UpClosed(n, passing)
  PROVE  \E m \in 0..n : Splits(n, passing, m)
<1> DEFINE P == {i \in 0..(n - 1) : i \in passing}
<1>1. CASE P = {}
  <2>1. Splits(n, passing, n)
    BY <1>1 DEF Splits
  <2> QED
    BY <2>1
<1>2. CASE P # {}
  <2>0. P \subseteq Nat
    OBVIOUS
  <2>1. PICK m \in P : \A x \in P : m <= x
    <3> HIDE DEF P
    <3> QED
      BY <1>2, <2>0, LeastOf
  <2>2. Splits(n, passing, m)
    BY <2>1 DEF Splits, UpClosed
  <2> QED
    BY <2>1, <2>2
<1> QED
  BY <1>1, <1>2

(* What a step of the search does with a range.                            *)
Narrow(f, lo, hi, passing) ==
  IF lo >= hi THEN lo
  ELSE IF (lo + hi) \div 2 \in passing THEN f[<<lo, (lo + hi) \div 2>>]
  ELSE f[<<(lo + hi) \div 2 + 1, hi>>]

IsSearch(f, n, passing) ==
  f = [r \in (0..n) \X (0..n) |-> Narrow(f, r[1], r[2], passing)]

SearchOf(n, passing) == CHOOSE f : IsSearch(f, n, passing)

LEMMA FirstIndexSearch ==
  ASSUME NEW n, NEW passing
  PROVE  firstIndex(n, passing) = SearchOf(n, passing)[<<0, n>>]
  BY DEF firstIndex, SearchOf, IsSearch, Narrow

(* The place in a range that is nearest to m.                              *)
Nearest(m, lo, hi) ==
  IF lo >= hi THEN lo ELSE IF hi <= m THEN hi ELSE IF lo >= m THEN lo ELSE m

LEMMA Half ==
  ASSUME NEW lo \in Nat, NEW hi \in Nat, lo < hi
  PROVE  (lo + hi) \div 2 \in lo..(hi - 1)
  OBVIOUS

LEMMA NearestNarrows ==
  ASSUME NEW n \in Nat, NEW passing, NEW m, Splits(n, passing, m),
         NEW lo \in 0..n, NEW hi \in 0..n, lo < hi,
         NEW mid, mid = (lo + hi) \div 2
  PROVE  /\ mid \in lo..(hi - 1) /\ mid \in 0..n /\ mid + 1 \in 0..n
         /\ Nearest(m, lo, hi) = IF mid \in passing THEN Nearest(m, lo, mid)
                                 ELSE Nearest(m, mid + 1, hi)
<1>1. mid \in lo..(hi - 1)
  BY Half
<1>2. mid \in passing <=> m <= mid
  BY <1>1 DEF Splits
<1>3. m \in 0..n
  BY DEF Splits
<1> QED
  BY <1>1, <1>2, <1>3 DEF Nearest

LEMMA SearchExists ==
  ASSUME NEW n \in Nat, NEW passing, NEW m, Splits(n, passing, m)
  PROVE  \E f : IsSearch(f, n, passing)
<1> DEFINE g == [r \in (0..n) \X (0..n) |-> Nearest(m, r[1], r[2])]
<1>0. \A lo, hi \in 0..n : g[<<lo, hi>>] = Nearest(m, lo, hi)
  OBVIOUS
<1>1. ASSUME NEW lo \in 0..n, NEW hi \in 0..n
      PROVE  Nearest(m, lo, hi) = Narrow(g, lo, hi, passing)
  <2> HIDE DEF g
  <2>1. CASE lo >= hi
    BY <2>1 DEF Nearest, Narrow
  <2>2. CASE lo < hi
    <3> DEFINE mid == (lo + hi) \div 2
    <3>1. /\ mid \in 0..n /\ mid + 1 \in 0..n
          /\ Nearest(m, lo, hi) = IF mid \in passing THEN Nearest(m, lo, mid)
                                  ELSE Nearest(m, mid + 1, hi)
      BY <2>2, NearestNarrows
    <3>2. ~(lo >= hi)
      BY <2>2
    <3> QED
      BY <1>0, <3>1, <3>2 DEF Narrow
  <2> QED
    BY <2>1, <2>2
<1>2. g = [r \in (0..n) \X (0..n) |-> Narrow(g, r[1], r[2], passing)]
  <2>1. \A r \in (0..n) \X (0..n) : Nearest(m, r[1], r[2]) = Narrow(g, r[1], r[2], passing)
    BY <1>1
  <2> QED
    BY <2>1, Zenon
<1> HIDE DEF g
<1> QED
  BY <1>2 DEF IsSearch

LEMMA FirstIndexIs ==
  ASSUME NEW n \in Nat, NEW passing, UpClosed(n, passing)
  PROVE  Splits(n, passing, firstIndex(n, passing))
<1>1. PICK m \in 0..n : Splits(n, passing, m)
  BY UpSplits
<1> DEFINE f == SearchOf(n, passing)
           T == {d \in Nat : \A lo, hi \in 0..n :
                    hi - lo <= d => f[<<lo, hi>>] = Nearest(m, lo, hi)}
<1>2. IsSearch(f, n, passing)
  BY <1>1, SearchExists, Zenon DEF SearchOf
<1> HIDE DEF f
<1>3. \A lo, hi \in 0..n : f[<<lo, hi>>] = Narrow(f, lo, hi, passing)
  <2>1. f = [r \in (0..n) \X (0..n) |-> Narrow(f, r[1], r[2], passing)]
    BY <1>2 DEF IsSearch
  <2> SUFFICES ASSUME NEW lo \in 0..n, NEW hi \in 0..n
               PROVE  f[<<lo, hi>>] = Narrow(f, lo, hi, passing)
    OBVIOUS
  <2>2. PICK r \in (0..n) \X (0..n) : r = <<lo, hi>>
    OBVIOUS
  <2>3. f[r] = Narrow(f, r[1], r[2], passing)
    BY <2>1, Zenon
  <2> QED
    BY <2>2, <2>3
<1>4. 0 \in T
  <2> SUFFICES ASSUME NEW lo \in 0..n, NEW hi \in 0..n, hi - lo <= 0
               PROVE  f[<<lo, hi>>] = Nearest(m, lo, hi)
    OBVIOUS
  <2>1. lo >= hi
    OBVIOUS
  <2> QED
    BY <1>3, <2>1 DEF Narrow, Nearest
<1>5. ASSUME NEW d \in Nat, d \in T PROVE (d + 1) \in T
  <2>q. d + 1 \in Nat
    OBVIOUS
  <2> SUFFICES ASSUME NEW lo \in 0..n, NEW hi \in 0..n, hi - lo <= d + 1
               PROVE  f[<<lo, hi>>] = Nearest(m, lo, hi)
    BY <2>q
  <2>1. CASE lo >= hi
    BY <1>3, <2>1 DEF Narrow, Nearest
  <2>2. CASE lo < hi
    <3> DEFINE mid == (lo + hi) \div 2
    <3>1. /\ mid \in lo..(hi - 1) /\ mid \in 0..n /\ mid + 1 \in 0..n
          /\ Nearest(m, lo, hi) = IF mid \in passing THEN Nearest(m, lo, mid)
                                  ELSE Nearest(m, mid + 1, hi)
      BY <1>1, <2>2, NearestNarrows
    <3>2. f[<<lo, hi>>] = IF mid \in passing THEN f[<<lo, mid>>] ELSE f[<<mid + 1, hi>>]
      BY <1>3, <2>2 DEF Narrow
    <3> HIDE DEF mid
    <3>3. mid - lo <= d /\ hi - (mid + 1) <= d
      BY <3>1
    <3>4. f[<<lo, mid>>] = Nearest(m, lo, mid) /\ f[<<mid + 1, hi>>] = Nearest(m, mid + 1, hi)
      BY <1>5, <3>1, <3>3
    <3> QED
      BY <3>1, <3>2, <3>4
  <2> QED
    BY <2>1, <2>2
<1>6. n \in T
  <2> HIDE DEF T
  <2> QED
    BY <1>4, <1>5, Everywhere
<1>7. f[<<0, n>>] = Nearest(m, 0, n)
  BY <1>6
<1>8. Nearest(m, 0, n) = m
  BY DEF Nearest
<1>9. firstIndex(n, passing) = m
  BY <1>7, <1>8, FirstIndexSearch DEF f
<1> QED
  BY <1>1, <1>9

-----------------------------------------------------------------------------
(* The cursors, over spans sorted by onset.                                *)
Track(items) ==
  /\ Len(items) \in Nat /\ DOMAIN items = 1..Len(items)
  /\ \A i \in 1..Len(items) : items[i].t \in Nat /\ items[i].dur \in Nat
  /\ \A i, j \in 1..Len(items) : i < j => items[i].t <= items[j].t

LEMMA TrackAt ==
  ASSUME NEW items, Track(items), NEW i \in Indices(items)
  PROVE  /\ Len(items) \in Nat /\ i \in 0..(Len(items) - 1) /\ i + 1 \in 1..Len(items)
         /\ Nth(items, i) = items[i + 1]
         /\ Nth(items, i).t \in Nat /\ Nth(items, i).dur \in Nat
         /\ End(items, i) = Nth(items, i).t + Nth(items, i).dur
         /\ End(items, i) \in Nat
         /\ \A k \in Indices(items) : i <= k => Nth(items, i).t <= Nth(items, k).t
<1>1. Len(items) \in Nat /\ i \in 0..(Len(items) - 1) /\ i + 1 \in 1..Len(items)
  BY DEF Track, Indices
<1>2. items[i + 1].t \in Nat /\ items[i + 1].dur \in Nat
  BY <1>1 DEF Track
<1>3. ASSUME NEW k \in Indices(items), i <= k
      PROVE  items[i + 1].t <= items[k + 1].t
  <2>1. k + 1 \in 1..Len(items)
    BY DEF Track, Indices
  <2>2. CASE i = k
    BY <1>2, <2>2
  <2>3. CASE i # k
    <3>1. i + 1 < k + 1
      BY <1>1, <1>3, <2>1, <2>3 DEF Indices
    <3> QED
      BY <1>1, <2>1, <3>1 DEF Track
  <2> QED
    BY <2>2, <2>3
<1> QED
  BY <1>1, <1>2, <1>3 DEF Nth, End

LEMMA LongestIs ==
  ASSUME NEW items, Track(items)
  PROVE  /\ Longest(items) \in Nat
         /\ \A i \in Indices(items) : Nth(items, i).dur <= Longest(items)
<1> DEFINE D == {items[i].dur : i \in DOMAIN items}
           S == {0} \cup D
<1>1. Len(items) \in Nat /\ DOMAIN items = 1..Len(items)
  BY DEF Track
<1>2. D \subseteq Nat
  BY <1>1 DEF Track
<1>3. IsFiniteSet(D)
  <2> DEFINE dur == [i \in 1..Len(items) |-> items[i].dur]
  <2>1. IsFiniteSet(1..Len(items))
    <3>0. Len(items) \in Int
      BY <1>1
    <3>1. PICK n \in Int : n = Len(items)
      BY <3>0, Zenon
    <3>2. PICK one \in Int : one = 1
      OBVIOUS
    <3>3. IsFiniteSet(one..n)
      BY FS_Interval
    <3> QED
      BY <3>1, <3>2, <3>3
  <2>2. D = {dur[i] : i \in 1..Len(items)}
    BY <1>1
  <2> HIDE DEF dur, D
  <2> QED
    BY <2>1, <2>2, ImageFinite
<1> HIDE DEF D
<1>4. IsFiniteSet(S) /\ S \subseteq Nat /\ S \subseteq Int /\ S # {}
  <2>1. IsFiniteSet({0})
    BY FS_Singleton
  <2>2. IsFiniteSet({0} \cup D)
    BY <1>3, <2>1, FS_Union
  <2> QED
    BY <1>2, <2>2
<1> HIDE DEF S
<1>5. Max(S) \in S /\ \A x \in S : x <= Max(S)
  BY <1>4, FiniteGreatest
<1>6. Longest(items) = Max(S)
  BY DEF Longest, S, D
<1>7. ASSUME NEW i \in Indices(items)
      PROVE  Nth(items, i).dur \in S
  <2>1. i + 1 \in DOMAIN items /\ Nth(items, i) = items[i + 1]
    BY <1>1, TrackAt
  <2>2. items[i + 1].dur \in D
    BY <2>1 DEF D
  <2> QED
    BY <2>1, <2>2 DEF S
<1>8. Max(S) \in Nat
  BY <1>4, <1>5
<1> QED
  BY <1>5, <1>6, <1>7, <1>8

LEMMA ReachUp ==
  ASSUME NEW items, Track(items), NEW from \in Int
  PROVE  UpClosed(Len(items), InReach(items, from))
<1> SUFFICES ASSUME NEW i \in 0..(Len(items) - 1), NEW j \in 0..(Len(items) - 1),
                    i \in InReach(items, from), i <= j
             PROVE  j \in InReach(items, from)
  BY DEF UpClosed
<1>1. i \in Indices(items) /\ j \in Indices(items)
  BY DEF Indices
<1>2. Nth(items, i).t <= Nth(items, j).t /\ Nth(items, i).t \in Nat /\ Nth(items, j).t \in Nat
  BY <1>1, TrackAt
<1>3. Longest(items) \in Nat
  BY LongestIs
<1> QED
  BY <1>1, <1>2, <1>3 DEF InReach

LEMMA ToComeUp ==
  ASSUME NEW items, Track(items), NEW to \in Int
  PROVE  UpClosed(Len(items), Indices(items) \ Begun(items, to))
<1> SUFFICES ASSUME NEW i \in 0..(Len(items) - 1), NEW j \in 0..(Len(items) - 1),
                    i \in Indices(items) \ Begun(items, to), i <= j
             PROVE  j \in Indices(items) \ Begun(items, to)
  BY DEF UpClosed
<1>1. i \in Indices(items) /\ j \in Indices(items)
  BY DEF Indices
<1>2. Nth(items, i).t <= Nth(items, j).t /\ Nth(items, i).t \in Nat /\ Nth(items, j).t \in Nat
  BY <1>1, TrackAt
<1> QED
  BY <1>1, <1>2 DEF Begun

(* The cursor stands where its window is.                                  *)
Seated(cursor, items) ==
  /\ cursor.lo \in 0..Len(items) /\ cursor.hi \in 0..Len(items)
  /\ \A i \in Indices(items) : i \in InReach(items, cursor.from) <=> cursor.lo <= i
  /\ \A i \in Indices(items) : i \in Begun(items, cursor.to) <=> i < cursor.hi

(* A cursor is of no use for the window it is in until it is seated.       *)
Usable(cursor, items) ==
  /\ cursor.lo \in 0..Len(items) /\ cursor.hi \in 0..Len(items)
  /\ cursor.from \in Int /\ cursor.to \in Int
  /\ cursor.from <= cursor.to => Seated(cursor, items)

LEMMA NewUsable ==
  ASSUME NEW items, Track(items)
  PROVE  Usable(NewCursor, items)
  BY CursorAssumption DEF Usable, NewCursor, Track

(* The pointer that goes on from a seat behind the one it looks for finds  *)
(* it.                                                                     *)
LEMMA GoesOn ==
  ASSUME NEW n \in Nat, NEW passing, NEW m, Splits(n, passing, m),
         NEW lo \in 0..n, lo <= m
  PROVE  Min({i \in lo..n : i = n \/ i \in passing} \cup {n}) = m
<1> DEFINE S == {i \in lo..n : i = n \/ i \in passing} \cup {n}
<1>1. S \subseteq Nat /\ S # {}
  OBVIOUS
<1>2. m \in S
  BY DEF Splits
<1>3. \A i \in S : m <= i
  BY DEF Splits
<1> HIDE DEF S
<1>4. Min(S) \in S /\ \A x \in S : Min(S) <= x
  BY <1>1, LeastIs
<1>5. Min(S) \in Nat /\ m \in Nat
  BY <1>1, <1>2, <1>4
<1>6. Min(S) = m
  BY <1>2, <1>3, <1>4, <1>5
<1> QED
  BY <1>6 DEF S

LEMMA MovedIs ==
  ASSUME NEW items, Track(items), NEW cursor, Usable(cursor, items),
         NEW from \in Int, NEW to \in Int,
         NEW new, new = Moved(cursor, items, from, to)
  PROVE  new.from = from /\ new.to = to /\ Seated(new, items)
<1> DEFINE n == Len(items)
           reach == InReach(items, from)
           ahead == Indices(items) \ Begun(items, to)
<1>1. n \in Nat /\ Indices(items) = 0..(n - 1)
  BY DEF Track, Indices
<1>2. UpClosed(n, reach) /\ UpClosed(n, ahead)
  BY ReachUp, ToComeUp
<1>3. PICK lo \in 0..n : Splits(n, reach, lo)
  BY <1>1, <1>2, UpSplits
<1>4. PICK hi \in 0..n : Splits(n, ahead, hi)
  BY <1>1, <1>2, UpSplits
<1>5. /\ \A i \in Indices(items) : i \in reach <=> lo <= i
      /\ \A i \in Indices(items) : i \in Begun(items, to) <=> i < hi
  <2>1. \A i \in 0..(n - 1) : i \in reach <=> lo <= i
    BY <1>3 DEF Splits
  <2>2. \A i \in 0..(n - 1) : i \in ahead <=> hi <= i
    BY <1>4 DEF Splits
  <2> HIDE DEF reach, n
  <2> QED
    BY <1>1, <1>4, <2>1, <2>2
<1>6. new.lo = lo /\ new.hi = hi
  <2>1. CASE Follows(cursor, from, to)
    <3>1. /\ cursor.from \in Int /\ cursor.to \in Int /\ Seated(cursor, items)
          /\ cursor.from <= from /\ cursor.to <= to
      BY <2>1 DEF Usable, Follows
    <3>2. cursor.lo \in 0..n /\ cursor.lo <= lo
      <4>1. CASE lo = n
        BY <3>1, <4>1 DEF Seated
      <4>2. CASE lo # n
        <5>1. lo \in Indices(items) /\ lo \in reach
          BY <1>1, <1>3, <1>5, <4>2
        <5>2. Nth(items, lo).t \in Nat /\ Longest(items) \in Nat
          BY <5>1, TrackAt, LongestIs
        <5>3. lo \in InReach(items, cursor.from)
          BY <3>1, <5>1, <5>2 DEF InReach
        <5> QED
          BY <3>1, <5>1, <5>3 DEF Seated
      <4> QED
        BY <4>1, <4>2
    <3>3. cursor.hi \in 0..n /\ cursor.hi <= hi
      <4>1. CASE cursor.hi = 0
        BY <1>4, <3>1, <4>1 DEF Seated
      <4>2. CASE cursor.hi # 0
        <5>1. cursor.hi \in 0..n
          BY <3>1 DEF Seated
        <5>2. PICK k \in Indices(items) : k = cursor.hi - 1
          BY <1>1, <4>2, <5>1
        <5>3. k \in Begun(items, cursor.to)
          BY <1>1, <3>1, <5>1, <5>2 DEF Seated
        <5>4. Nth(items, k).t \in Nat
          BY <5>2, TrackAt
        <5>5. k \in Begun(items, to)
          BY <3>1, <5>3, <5>4 DEF Begun
        <5>6. k < hi
          BY <1>5, <5>2, <5>5
        <5> QED
          BY <1>4, <5>1, <5>2, <5>6
      <4> QED
        BY <4>1, <4>2
    <3>4. Min({i \in cursor.lo..n : i = n \/ i \in reach} \cup {n}) = lo
      <4> HIDE DEF reach, n
      <4> QED
        BY <1>1, <1>3, <3>2, GoesOn
    <3>5. Min({i \in cursor.hi..n : i = n \/ i \in ahead} \cup {n}) = hi
      <4> HIDE DEF ahead, n
      <4> QED
        BY <1>1, <1>4, <3>3, GoesOn
    <3>6. {i \in cursor.hi..n : i = n \/ i \in ahead}
            = {i \in cursor.hi..n : i = n \/ i \notin Begun(items, to)}
      <4>1. \A i \in cursor.hi..n : i # n => i \in Indices(items)
        BY <1>1, <3>3
      <4> QED
        BY <4>1
    <3>7. /\ new.lo = Min({i \in cursor.lo..n : i = n \/ i \in reach} \cup {n})
          /\ new.hi = Min({i \in cursor.hi..n : i = n \/ i \notin Begun(items, to)} \cup {n})
      BY <2>1 DEF Moved
    <3> QED
      BY <3>4, <3>5, <3>6, <3>7
  <2>2. CASE ~Follows(cursor, from, to)
    <3>1. new.lo = firstIndex(n, reach) /\ new.hi = firstIndex(n, ahead)
      BY <2>2 DEF Moved
    <3>2. Splits(n, reach, new.lo) /\ Splits(n, ahead, new.hi)
      BY <1>1, <1>2, <3>1, FirstIndexIs
    <3> HIDE DEF n, reach, ahead
    <3> QED
      BY <1>1, <1>3, <1>4, <3>2, SplitsOnce
  <2> QED
    BY <2>1, <2>2
<1>7. new.from = from /\ new.to = to
  BY DEF Moved
<1> QED
  BY <1>3, <1>4, <1>5, <1>6, <1>7 DEF Seated

(* What a read of a window returns: the spans that overlap it.             *)
LEMMA FoundIs ==
  ASSUME NEW items, Track(items), NEW cursor, Seated(cursor, items),
         cursor.from \in Int, cursor.to \in Int
  PROVE  Found(cursor, items) = Overlapping(items, cursor.from, cursor.to)
<1>1. Len(items) \in Nat /\ Indices(items) = 0..(Len(items) - 1)
  BY DEF Track, Indices
<1>2. cursor.lo \in 0..Len(items) /\ cursor.hi \in 0..Len(items)
  BY DEF Seated
<1>3. ASSUME NEW i \in Indices(items), End(items, i) >= cursor.from
      PROVE  cursor.lo <= i
  <2>1. i \in InReach(items, cursor.from)
    BY <1>3, TrackAt, LongestIs DEF InReach
  <2> QED
    BY <2>1 DEF Seated
<1>4. \A i \in Indices(items) : i < cursor.hi <=> Nth(items, i).t <= cursor.to
  BY DEF Seated, Begun
<1>5. \A i : i \in cursor.lo..(cursor.hi - 1)
               <=> i \in Indices(items) /\ cursor.lo <= i /\ i < cursor.hi
  BY <1>1, <1>2
<1> QED
  BY <1>3, <1>4, <1>5 DEF Found, Overlapping

LEMMA ReadIs ==
  ASSUME NEW items, Track(items), NEW cursor, Usable(cursor, items),
         NEW from \in Int, NEW to \in Int
  PROVE  /\ Found(Moved(cursor, items, from, to), items) = Overlapping(items, from, to)
         /\ Usable(Moved(cursor, items, from, to), items)
<1> DEFINE new == Moved(cursor, items, from, to)
<1>1. new.from = from /\ new.to = to /\ Seated(new, items)
  BY MovedIs
<1> HIDE DEF new
<1>2. Found(new, items) = Overlapping(items, from, to)
  BY <1>1, FoundIs
<1>3. Usable(new, items)
  BY <1>1 DEF Usable, Seated
<1> QED
  BY <1>2, <1>3 DEF new

(* TrackCursor.                                                            *)
LEMMA AtIs ==
  ASSUME NEW items, Track(items), NEW cursor, Usable(cursor, items), NEW t \in Int
  PROVE  /\ At(cursor, items, t).current = Latest(Overlapping(items, t, t))
         /\ At(cursor, items, t).next
              = Cardinality({i \in Indices(items) : Nth(items, i).t <= t})
<1> DEFINE n == Len(items)
           B == Begun(items, t)
           m == firstIndex(n, Indices(items) \ B)
<1>1. n \in Nat /\ Indices(items) = 0..(n - 1)
  BY DEF Track, Indices
<1>2. Splits(n, Indices(items) \ B, m)
  BY <1>1, ToComeUp, FirstIndexIs
<1>3. m \in 0..n /\ \A i \in 0..(n - 1) : i \in Indices(items) \ B <=> m <= i
  BY <1>2 DEF Splits
<1> HIDE DEF m
<1>4. B = 0..(m - 1)
  BY <1>1, <1>3 DEF Begun
<1>5. Cardinality(B) = m
  <2>1. PICK last \in Int : last = m - 1
    BY <1>3
  <2>2. Cardinality(0..last) = IF 0 > last THEN 0 ELSE last - 0 + 1
    BY FS_Interval
  <2> HIDE DEF B, n
  <2> QED
    BY <1>3, <1>4, <2>1, <2>2
<1>6. Found(Moved(cursor, items, t, t), items) = Overlapping(items, t, t)
  BY ReadIs
<1> QED
  BY <1>5, <1>6 DEF At, Begun, m

(* Spans whose starts and ends both rise.                                  *)
Stairs(items) ==
  /\ Track(items)
  /\ \A i, k \in Indices(items) : i <= k => End(items, i) <= End(items, k)

LEMMA InWindowIs ==
  ASSUME NEW items, Stairs(items), NEW from \in Int, NEW to \in Int
  PROVE  inWindow(items, from, to) = Overlapping(items, from, to)
<1> DEFINE n == Len(items)
           P == {i \in Indices(items) : End(items, i) >= from}
           first == firstIndex(n, P)
<1>0. Track(items)
  BY DEF Stairs
<1>1. n \in Nat /\ Indices(items) = 0..(n - 1)
  BY <1>0 DEF Track, Indices
<1>2. UpClosed(n, P)
  <2> SUFFICES ASSUME NEW i \in 0..(n - 1), NEW j \in 0..(n - 1), i \in P, i <= j
               PROVE  j \in P
    BY DEF UpClosed
  <2>1. End(items, i) <= End(items, j) /\ End(items, i) \in Nat /\ End(items, j) \in Nat
    BY <1>0, <1>1, TrackAt DEF Stairs
  <2> QED
    BY <1>1, <2>1
<1>3. first \in 0..n /\ \A i \in 0..(n - 1) : i \in P <=> first <= i
  BY <1>1, <1>2, FirstIndexIs DEF Splits
<1> HIDE DEF first
<1>4. ASSUME NEW i \in Indices(items), first <= i
      PROVE  Nth(items, i).t <= to <=> \A k \in first..i : Nth(items, k).t <= to
  <2>1. i \in first..i /\ \A k \in first..i : k \in Indices(items) /\ k <= i
    BY <1>1, <1>3, <1>4
  <2>2. \A k \in first..i : Nth(items, k).t <= Nth(items, i).t /\ Nth(items, k).t \in Nat
    BY <1>0, <2>1, TrackAt
  <2>3. Nth(items, i).t \in Nat
    BY <1>0, TrackAt
  <2> QED
    BY <2>1, <2>2, <2>3
<1>5. \A i : i \in first..(n - 1) <=> i \in Indices(items) /\ first <= i
  BY <1>1, <1>3
<1>6. \A i \in Indices(items) : first <= i <=> End(items, i) >= from
  BY <1>1, <1>3
<1>7. inWindow(items, from, to)
        = {i \in first..(n - 1) : \A k \in first..i : Nth(items, k).t <= to}
  BY DEF inWindow, first
<1> QED
  BY <1>4, <1>5, <1>6, <1>7 DEF Overlapping

-----------------------------------------------------------------------------
(* A track sorted is a track.                                              *)
Spans(V) == \A span \in V : span.t \in Nat /\ span.dur \in Nat

LEMMA ByOnsetIs ==
  ASSUME NEW V, Spans(V), NEW items \in Seq(V)
  PROVE  /\ byOnset(items) \in Seq(V) /\ Len(byOnset(items)) = Len(items)
         /\ Track(byOnset(items))
<1> DEFINE S == DOMAIN items
           earlier(i, j) == \/ items[i].t < items[j].t
                            \/ items[i].t = items[j].t /\ i < j
           before == [j \in S |-> {i \in S : earlier(i, j)}]
           order == InOrder(before)
           sorted == [k \in DOMAIN order |-> items[order[k]]]
<1>1. Len(items) \in Nat /\ S = 1..Len(items) /\ \A i \in S : items[i] \in V
  OBVIOUS
<1>2. \A i \in S : i \in Nat /\ items[i].t \in Nat
  BY <1>1 DEF Spans
<1>3. IsFiniteSet(S) /\ Cardinality(S) = Len(items)
  <2>0. Len(items) \in Int
    BY <1>1
  <2>1. PICK n \in Int : n = Len(items)
    BY <2>0, Zenon
  <2>2. PICK one \in Int : one = 1
    OBVIOUS
  <2>3. IsFiniteSet(one..n) /\ Cardinality(one..n) = IF one > n THEN 0 ELSE n - one + 1
    BY FS_Interval
  <2> QED
    BY <1>1, <2>1, <2>2, <2>3
<1> HIDE DEF S
<1>4. Sorts(before, S)
  <2>1. before \in [S -> SUBSET S]
    OBVIOUS
  <2>2. \A x, y \in S : x \in before[y] <=> earlier(x, y)
    OBVIOUS
  <2> HIDE DEF before
  <2>3. \A x \in S : x \notin before[x]
    BY <1>2, <2>2
  <2>4. ASSUME NEW x \in S, NEW y \in S, x \in before[y], NEW z \in before[x]
        PROVE  z \in before[y]
    <3>1. z \in S
      BY <2>1, <2>4
    <3>2. earlier(z, x) /\ earlier(x, y)
      BY <2>2, <2>4, <3>1
    <3>3. earlier(z, y)
      BY <1>2, <3>1, <3>2
    <3> QED
      BY <2>2, <3>1, <3>3
  <2>5. \A x, y \in S : x = y \/ x \in before[y] \/ y \in before[x]
    BY <1>2, <2>2
  <2> QED
    BY <2>1, <2>3, <2>4, <2>5 DEF Sorts
<1>5. byOnset(items) = sorted
  BY DEF byOnset, S
<1>6. SortedOut(order, before, S)
  <2> HIDE DEF before
  <2> QED
    BY <1>3, <1>4, InOrderIs
<1>7. /\ DOMAIN order = 1..Len(items)
      /\ \A k \in DOMAIN order : order[k] \in S
      /\ \A i, j \in DOMAIN order : i < j => order[i] \in before[order[j]]
  BY <1>3, <1>6 DEF SortedOut
<1>8. \A i, j \in DOMAIN order : i < j => earlier(order[i], order[j])
  BY <1>7
<1> HIDE DEF before, order
<1>9. sorted \in Seq(V) /\ Len(sorted) = Len(items) /\ DOMAIN sorted = 1..Len(items)
  BY <1>1, <1>7
<1>10. \A k \in DOMAIN order : sorted[k] = items[order[k]]
  OBVIOUS
<1> HIDE DEF sorted
<1>11. \A k \in DOMAIN order : sorted[k].t \in Nat /\ sorted[k].dur \in Nat
  BY <1>1, <1>7, <1>10 DEF Spans
<1>12. ASSUME NEW i \in DOMAIN order, NEW j \in DOMAIN order, i < j
       PROVE  sorted[i].t <= sorted[j].t
  <2>1. earlier(order[i], order[j])
    BY <1>8, <1>12
  <2>2. order[i] \in S /\ order[j] \in S
    BY <1>7
  <2>3. items[order[i]].t <= items[order[j]].t
    BY <1>2, <2>1, <2>2
  <2> QED
    BY <1>10, <2>3
<1>13. Track(sorted)
  BY <1>1, <1>7, <1>9, <1>11, <1>12 DEF Track
<1> QED
  BY <1>5, <1>9, <1>13

-----------------------------------------------------------------------------
(* The passages.  A note is soft when all that begin with it are weak; a   *)
(* group is of soft notes, each near the next.                             *)
Soft(notes, i) ==
  \A x \in 1..Len(notes) : notes[x].t = notes[i].t => notes[x].confidence < Hide

Near(notes, i) == notes[i + 1].t - notes[i].t <= MAX_GAP

Joined(notes, i, k) ==
  /\ \A x \in i..k : Soft(notes, x)
  /\ \A x \in i..(k - 1) : Near(notes, x)

Group(notes, i) ==
  {k \in 1..Len(notes) : \/ i <= k /\ Joined(notes, i, k)
                         \/ k <= i /\ Joined(notes, k, i)}

Outlasts(notes, k, i) == notes[k].t + notes[k].dur > notes[i].t

(* What Unclear says, of the i-th note.                                    *)
Dim(notes, i) ==
  /\ Cardinality(Group(notes, i)) >= MIN_RUN
  /\ \E k \in Group(notes, i) : Outlasts(notes, k, i)

(* Where no group goes on to the left of a, to the right of b.             *)
Begins(notes, a) == a = 1 \/ ~Soft(notes, a - 1) \/ ~Near(notes, a - 1)
Ends(notes, b)   == b = Len(notes) \/ ~Soft(notes, b + 1) \/ ~Near(notes, b)

WholeGroup(notes, a, b) ==
  /\ a \in 1..Len(notes) /\ b \in 1..Len(notes) /\ a <= b
  /\ Joined(notes, a, b) /\ Begins(notes, a) /\ Ends(notes, b)

LEMMA GroupIs ==
  ASSUME NEW notes, Len(notes) \in Nat, NEW a, NEW b, WholeGroup(notes, a, b),
         NEW i \in a..b
  PROVE  Group(notes, i) = a..b
<1>0. a \in 1..Len(notes) /\ b \in 1..Len(notes) /\ a <= b
  BY DEF WholeGroup
<1>1. ASSUME NEW k \in a..b PROVE k \in Group(notes, i)
  BY <1>0 DEF WholeGroup, Group, Joined
<1>2. ASSUME NEW k \in Group(notes, i) PROVE k \in a..b
  <2>1. k \in 1..Len(notes)
    BY DEF Group
  <2>2. CASE k > b
    <3>1. Joined(notes, i, k)
      BY <1>0, <2>1, <2>2 DEF Group
    <3>2. b + 1 \in i..k /\ b \in i..(k - 1) /\ b # Len(notes)
      BY <1>0, <2>1, <2>2
    <3>3. Soft(notes, b + 1) /\ Near(notes, b)
      BY <3>1, <3>2 DEF Joined
    <3> QED
      BY <3>2, <3>3 DEF WholeGroup, Ends
  <2>3. CASE k < a
    <3>1. Joined(notes, k, i)
      BY <1>0, <2>1, <2>3 DEF Group
    <3>2. a - 1 \in k..i /\ a - 1 \in k..(i - 1) /\ a # 1
      BY <1>0, <2>1, <2>3
    <3>3. Soft(notes, a - 1) /\ Near(notes, a - 1)
      BY <3>1, <3>2 DEF Joined
    <3> QED
      BY <3>2, <3>3 DEF WholeGroup, Begins
  <2> QED
    BY <1>0, <2>1, <2>2, <2>3
<1> QED
  BY <1>1, <1>2

LEMMA StrongIsClear ==
  ASSUME NEW notes, Len(notes) \in Nat, NEW i \in 1..Len(notes), ~Soft(notes, i)
  PROVE  ~Dim(notes, i)
<1>1. Group(notes, i) = {}
  <2> SUFFICES ASSUME NEW k \in Group(notes, i) PROVE FALSE
    OBVIOUS
  <2>1. k \in 1..Len(notes)
    BY DEF Group
  <2>2. (i <= k /\ i \in i..k) \/ (k <= i /\ i \in k..i)
    BY <2>1
  <2> QED
    BY <2>1, <2>2 DEF Group, Joined
<1>2. Cardinality({}) = 0
  BY FS_EmptySet
<1> QED
  BY <1>1 DEF Dim

(* Of the notes of one onset, the first and the last.                      *)
Complete(notes, k) == k = 0 \/ k = Len(notes) \/ notes[k].t < notes[k + 1].t

LEMMA FirstIs ==
  ASSUME NEW notes, Track(notes), NEW k \in 1..Len(notes)
  PROVE  /\ FirstAt(notes, k) \in 1..k
         /\ \A x \in FirstAt(notes, k)..k : notes[x].t = notes[k].t
         /\ \A x \in 1..(FirstAt(notes, k) - 1) : notes[x].t < notes[k].t
         /\ Complete(notes, FirstAt(notes, k) - 1)
<1> DEFINE S == {i \in 1..k : notes[i].t = notes[k].t}
           first == FirstAt(notes, k)
<1>1. Len(notes) \in Nat /\ \A i \in 1..Len(notes) : notes[i].t \in Nat
  BY DEF Track
<1>2. S \subseteq Nat /\ S # {}
  <2>1. k \in S
    OBVIOUS
  <2> QED
    BY <2>1
<1>3. first \in S /\ \A x \in S : first <= x
  <2>1. first = Min(S)
    BY DEF FirstAt
  <2> HIDE DEF S, first
  <2> QED
    BY <1>2, <2>1, LeastIs
<1> HIDE DEF first
<1>4. first \in 1..k /\ notes[first].t = notes[k].t
  BY <1>3
<1>5. ASSUME NEW x \in first..k PROVE notes[x].t = notes[k].t
  <2>1. x \in 1..Len(notes) /\ first \in 1..Len(notes)
    BY <1>1, <1>4
  <2>2. notes[first].t <= notes[x].t /\ notes[x].t <= notes[k].t
    <3>1. first = x \/ first < x
      BY <1>4
    <3>2. x = k \/ x < k
      OBVIOUS
    <3> QED
      BY <1>1, <2>1, <3>1, <3>2 DEF Track
  <2> QED
    BY <1>1, <1>4, <2>1, <2>2
<1>6. ASSUME NEW x \in 1..(first - 1) PROVE notes[x].t < notes[k].t
  <2>1. x \in 1..Len(notes) /\ x < k /\ x < first /\ x \in 1..k
    BY <1>1, <1>4
  <2>2. notes[x].t <= notes[k].t
    BY <2>1 DEF Track
  <2>3. x \notin S
    BY <1>3, <1>4, <2>1
  <2> QED
    BY <1>1, <2>1, <2>2, <2>3
<1>7. Complete(notes, first - 1)
  <2>1. CASE first = 1
    BY <2>1 DEF Complete
  <2>2. CASE first # 1
    <3>1. first - 1 \in 1..(first - 1) /\ (first - 1) + 1 = first
      BY <1>4, <2>2
    <3> QED
      BY <1>4, <1>6, <3>1 DEF Complete
  <2> QED
    BY <2>1, <2>2
<1> QED
  BY <1>4, <1>5, <1>6, <1>7 DEF first

(* The fold of hiddenPassages.                                             *)
Silence == [run |-> NoRun, passages |-> <<>>]

Hears(notes, f, k) ==
  IF k = 0 THEN Silence
  ELSE HeardMoment(f[FirstAt(notes, k) - 1], byMoment(notes, k))

IsHearing(f, notes, n) == f = [k \in 0..n |-> Hears(notes, f, k)]

Hearing(notes) == CHOOSE f : IsHearing(f, notes, Len(notes))

LEMMA HiddenIs ==
  ASSUME NEW notes
  PROVE  hiddenPassages(notes)
           = closed(Hearing(notes)[Len(notes)], PositiveInfinity).passages
  BY DEF hiddenPassages, Hearing, IsHearing, Hears, Silence

LEMMA HearingExists ==
  ASSUME NEW notes, Track(notes), NEW n \in Nat, n <= Len(notes)
  PROVE  \E f : IsHearing(f, notes, n)
<1> DEFINE T == {m \in Nat : m <= Len(notes) => \E f : IsHearing(f, notes, m)}
<1>n. Len(notes) \in Nat
  BY DEF Track
<1>1. 0 \in T
  <2> DEFINE f == [k \in 0..0 |-> Silence]
  <2>1. \A k \in 0..0 : k = 0
    OBVIOUS
  <2>2. f = [k \in 0..0 |-> Hears(notes, f, k)]
    BY <2>1 DEF Hears
  <2> HIDE DEF f
  <2> QED
    BY <2>2 DEF IsHearing
<1>2. ASSUME NEW m \in Nat, m \in T PROVE (m + 1) \in T
  <2>q. m + 1 \in Nat
    OBVIOUS
  <2> SUFFICES ASSUME m + 1 <= Len(notes) PROVE \E f : IsHearing(f, notes, m + 1)
    BY <2>q
  <2>0. PICK f : IsHearing(f, notes, m)
    BY <1>2, <1>n
  <2>1. f = [k \in 0..m |-> Hears(notes, f, k)]
    BY <2>0 DEF IsHearing
  <2> DEFINE g == [k \in 0..(m + 1) |-> Hears(notes, f, k)]
  <2>2. \A k \in 0..m : g[k] = f[k]
    <3>1. \A k \in 0..m : k \in 0..(m + 1)
      OBVIOUS
    <3> QED
      BY <2>1, <3>1
  <2>3. ASSUME NEW k \in 0..(m + 1)
        PROVE  Hears(notes, f, k) = Hears(notes, g, k)
    <3>1. k # 0 => FirstAt(notes, k) - 1 \in 0..m
      <4> SUFFICES ASSUME k # 0 PROVE FirstAt(notes, k) - 1 \in 0..m
        OBVIOUS
      <4>1. k \in 1..Len(notes)
        BY <1>n
      <4>2. FirstAt(notes, k) \in 1..k
        BY <4>1, FirstIs
      <4> QED
        BY <4>2
    <3>2. k # 0 => g[FirstAt(notes, k) - 1] = f[FirstAt(notes, k) - 1]
      BY <2>2, <3>1
    <3> HIDE DEF g
    <3> QED
      BY <3>2 DEF Hears
  <2>4. g = [k \in 0..(m + 1) |-> Hears(notes, g, k)]
    BY <2>3
  <2> HIDE DEF g
  <2> QED
    BY <2>4 DEF IsHearing
<1> HIDE DEF T
<1>3. n \in T
  BY <1>1, <1>2, Everywhere
<1> QED
  BY <1>3 DEF T

LEMMA HearingIs ==
  ASSUME NEW notes, Track(notes), NEW k \in 0..Len(notes)
  PROVE  Hearing(notes)[k] = Hears(notes, Hearing(notes), k)
<1> DEFINE f == Hearing(notes)
<1>1. \E g : IsHearing(g, notes, Len(notes))
  <2>1. Len(notes) \in Nat
    BY DEF Track
  <2>2. PICK n \in Nat : n = Len(notes)
    BY <2>1, Zenon
  <2> QED
    BY <2>2, HearingExists
<1>2. IsHearing(f, notes, Len(notes))
  BY <1>1, Zenon DEF Hearing
<1> HIDE DEF f
<1>3. f = [i \in 0..Len(notes) |-> Hears(notes, f, i)]
  BY <1>2 DEF IsHearing
<1>4. f[k] = Hears(notes, f, k)
  BY <1>3
<1> QED
  BY <1>4 DEF f

-----------------------------------------------------------------------------
(* Passages that rise, none of which meets the next.                       *)
EndOf(span) == span.t + span.dur

LEMMA EndOfIs ==
  ASSUME NEW span, span.t \in Nat, span.dur \in Nat
  PROVE  EndOf(span) \in Nat
BY DEF EndOf

Spaced(passages) ==
  /\ passages \in Seq([t : Nat, dur : Nat])
  /\ \A p, q \in 1..Len(passages) : p < q => EndOf(passages[p]) < passages[q].t

Until(passages, t) == \A p \in 1..Len(passages) : EndOf(passages[p]) <= t

Covers(passages, t) ==
  \E p \in 1..Len(passages) : passages[p].t <= t /\ t < EndOf(passages[p])

(* A run's passage, after those before it.                                 *)
WithRun(passages, from, to) ==
  LET last == passages[Len(passages)]
  IN  IF passages # <<>> /\ from <= last.t + last.dur
      THEN [passages EXCEPT ![Len(passages)].dur = Max({@, to - last.t})]
      ELSE Append(passages, [t |-> from, dur |-> to - from])

LEMMA LesserIs ==
  ASSUME NEW x \in Nat, NEW y \in Nat
  PROVE  Min({x, y}) = IF x <= y THEN x ELSE y
<1> DEFINE S == {x, y}
<1>1. S \subseteq Nat /\ S # {}
  OBVIOUS
<1>2. \A z : z \in S <=> z = x \/ z = y
  OBVIOUS
<1> HIDE DEF S
<1>3. Min(S) \in S /\ \A z \in S : Min(S) <= z
  BY <1>1, LeastIs
<1>4. Min(S) = IF x <= y THEN x ELSE y
  BY <1>2, <1>3
<1> QED
  BY <1>4 DEF S

LEMMA GreaterIs ==
  ASSUME NEW x \in Nat, NEW y \in Nat
  PROVE  Max({x, y}) = IF x <= y THEN y ELSE x
<1> DEFINE S == {x, y}
<1>1. S \in SUBSET Int /\ S # {} /\ x + y \in Int /\ \A z \in S : z <= x + y
  OBVIOUS
<1>2. \A z : z \in S <=> z = x \/ z = y
  OBVIOUS
<1> HIDE DEF S
<1>3. Max(S) \in S /\ \A z \in S : z <= Max(S)
  BY <1>1, GreatestIs
<1>4. Max(S) = IF x <= y THEN y ELSE x
  BY <1>2, <1>3
<1> QED
  BY <1>4 DEF S

LEMMA WithRunIs ==
  ASSUME NEW passages, Spaced(passages), NEW from \in Nat, NEW to \in Nat, from <= to,
         Until(passages, from), NEW new, new = WithRun(passages, from, to)
  PROVE  /\ Spaced(new)
         /\ \A x \in Nat : Covers(new, x) <=> Covers(passages, x) \/ (from <= x /\ x < to)
         /\ \A x \in Nat : to <= x => Until(new, x)
<1> DEFINE n == Len(passages)
           Span == [t : Nat, dur : Nat]
<1>0. passages \in Seq(Span)
  BY DEF Spaced
<1>1. n \in Nat /\ passages \in Seq(Span) /\ \A p \in 1..n : passages[p] \in Span
  <2> HIDE DEF Span
  <2> QED
    BY <1>0
<1>n. n \in Nat
  BY <1>1
<1>a. \A p, q \in 1..n : p < q => EndOf(passages[p]) < passages[q].t
  BY DEF Spaced
<1>2. ASSUME NEW p \in 1..n
      PROVE  /\ passages[p].t \in Nat /\ passages[p].dur \in Nat
             /\ EndOf(passages[p]) \in Nat
             /\ passages[p].t <= EndOf(passages[p]) /\ EndOf(passages[p]) <= from
  BY <1>1 DEF EndOf, Until
<1>3. CASE passages # <<>> /\ from <= EndOf(passages[n])
  <2> DEFINE longer == [t |-> passages[n].t, dur |-> to - passages[n].t]
  <2>1. n \in 1..n
    BY <1>1, <1>3
  <2>2. EndOf(passages[n]) = from /\ passages[n].t <= from /\ passages[n].t \in Nat
        /\ passages[n].dur \in Nat /\ passages[n].dur = from - passages[n].t
    BY <1>2, <1>3, <2>1 DEF EndOf
  <2>3. Max({passages[n].dur, to - passages[n].t}) = to - passages[n].t
    <3>1. PICK y \in Nat : y = to - passages[n].t
      BY <2>2
    <3>2. passages[n].dur <= y
      BY <2>2, <3>1
    <3>3. Max({passages[n].dur, y}) = y
      BY <2>2, <3>2, GreaterIs
    <3> QED
      BY <3>1, <3>3
  <2>4. new = [passages EXCEPT ![n] = [passages[n] EXCEPT !.dur = to - passages[n].t]]
    <3>1. new = [passages EXCEPT ![n].dur = Max({@, to - passages[n].t})]
      BY <1>3 DEF WithRun, EndOf
    <3> QED
      BY <2>3, <3>1
  <2>5. [passages[n] EXCEPT !.dur = to - passages[n].t] = longer
    <3>1. passages[n] \in Span
      BY <1>1, <2>1
    <3>2. \A r \in Span : \A d : [r EXCEPT !.dur = d] = [t |-> r.t, dur |-> d]
      OBVIOUS
    <3> HIDE DEF Span, n
    <3> QED
      BY <3>1, <3>2, Zenon
  <2>6. longer \in Span /\ EndOf(longer) = to /\ longer.t = passages[n].t
    <3>1. PICK t \in Nat : t = passages[n].t
      BY <2>2
    <3>2. t <= to /\ to - t \in Nat /\ t + (to - t) = to
      BY <2>2, <3>1
    <3>3. longer = [t |-> t, dur |-> to - t]
      BY <3>1
    <3> HIDE DEF longer
    <3> QED
      BY <3>1, <3>2, <3>3 DEF EndOf
  <2> HIDE DEF longer
  <2>7. new = [passages EXCEPT ![n] = longer]
    BY <2>4, <2>5
  <2>8. /\ new \in Seq(Span) /\ Len(new) = n
        /\ new[n] = longer /\ \A p \in 1..n : p # n => new[p] = passages[p]
    BY <1>1, <2>1, <2>6, <2>7
  <2>9. Spaced(new)
    <3> SUFFICES ASSUME NEW p \in 1..n, NEW q \in 1..n, p < q
                 PROVE  EndOf(new[p]) < new[q].t
      BY <2>8 DEF Spaced
    <3>1. p # n
      BY <1>1
    <3>2. new[p] = passages[p]
      BY <2>8, <3>1
    <3>3. new[q].t = passages[q].t
      BY <2>6, <2>8
    <3> QED
      BY <1>a, <3>2, <3>3
  <2>10. ASSUME NEW x \in Nat
         PROVE  Covers(new, x) <=> Covers(passages, x) \/ (from <= x /\ x < to)
    <3>1. new[n].t <= x /\ x < EndOf(new[n]) <=> \/ passages[n].t <= x /\ x < EndOf(passages[n])
                                                 \/ from <= x /\ x < to
      BY <2>2, <2>6, <2>8
    <3> QED
      BY <2>1, <2>8, <3>1 DEF Covers
  <2>11. ASSUME NEW x \in Nat, to <= x PROVE Until(new, x)
    <3> SUFFICES ASSUME NEW p \in 1..n PROVE EndOf(new[p]) <= x
      BY <2>8 DEF Until
    <3>1. CASE p = n
      BY <2>6, <2>8, <2>11, <3>1
    <3>2. CASE p # n
      <4>1. new[p] = passages[p] /\ EndOf(passages[p]) <= from /\ EndOf(passages[p]) \in Nat
        BY <1>2, <2>8, <3>2
      <4> QED
        BY <2>11, <4>1
    <3> QED
      BY <3>1, <3>2
  <2> QED
    BY <2>9, <2>10, <2>11
<1>4. CASE ~(passages # <<>> /\ from <= EndOf(passages[n]))
  <2> DEFINE span == [t |-> from, dur |-> to - from]
  <2>1. new = Append(passages, span)
    BY <1>4 DEF WithRun, EndOf
  <2>2. span \in Span /\ EndOf(span) = to /\ span.t = from
    BY DEF EndOf
  <2> HIDE DEF span
  <2>3. /\ new \in Seq(Span) /\ Len(new) = n + 1
        /\ new[n + 1] = span /\ \A p \in 1..n : new[p] = passages[p]
    BY <1>1, <2>1, <2>2, AppendProperties
  <2>4. ASSUME NEW p \in 1..n PROVE EndOf(passages[p]) < from
    <3>1. n \in 1..n /\ passages # <<>>
      BY <1>1
    <3>2. EndOf(passages[n]) < from
      BY <1>2, <1>4, <3>1
    <3>3. CASE p = n
      BY <3>2, <3>3
    <3>4. CASE p # n
      <4>1. p < n
        BY <1>1, <3>4
      <4>2. EndOf(passages[p]) < passages[n].t
        BY <1>a, <3>1, <4>1
      <4> QED
        BY <1>2, <3>1, <3>2, <4>2
    <3> QED
      BY <3>3, <3>4
  <2>5. Spaced(new)
    <3> SUFFICES ASSUME NEW p \in 1..(n + 1), NEW q \in 1..(n + 1), p < q
                 PROVE  EndOf(new[p]) < new[q].t
      BY <2>3 DEF Spaced
    <3>0. p \in 1..n
      BY <1>1
    <3>1. p \in 1..n /\ new[p] = passages[p]
      BY <2>3, <3>0
    <3>2. CASE q = n + 1
      BY <2>2, <2>3, <2>4, <3>1, <3>2
    <3>3. CASE q # n + 1
      <4>0. q \in 1..n
        BY <1>n, <3>3
      <4>1. q \in 1..n /\ new[q] = passages[q]
        BY <2>3, <4>0
      <4> QED
        BY <1>a, <3>1, <4>1
    <3> QED
      BY <3>2, <3>3
  <2>6. ASSUME NEW x \in Nat
        PROVE  Covers(new, x) <=> Covers(passages, x) \/ (from <= x /\ x < to)
    <3>1. \A p \in 1..(n + 1) : p \in 1..n \/ p = n + 1
      BY <1>1
    <3>2. n + 1 \in 1..(n + 1) /\ \A p \in 1..n : p \in 1..(n + 1)
      BY <1>1
    <3> QED
      BY <2>2, <2>3, <3>1, <3>2 DEF Covers
  <2>7. ASSUME NEW x \in Nat, to <= x PROVE Until(new, x)
    <3> SUFFICES ASSUME NEW p \in 1..(n + 1) PROVE EndOf(new[p]) <= x
      BY <2>3 DEF Until
    <3>1. CASE p = n + 1
      BY <2>2, <2>3, <2>7, <3>1
    <3>2. CASE p # n + 1
      <4>0. p \in 1..n
        BY <1>1, <3>2
      <4>1. p \in 1..n /\ new[p] = passages[p] /\ EndOf(passages[p]) \in Nat
        BY <1>2, <2>3, <4>0
      <4> QED
        BY <2>4, <2>7, <4>1
    <3> QED
      BY <3>1, <3>2
  <2> QED
    BY <2>5, <2>6, <2>7
<1> QED
  BY <1>3, <1>4

-----------------------------------------------------------------------------
(* What closing a run leaves.                                              *)
NoteSet == [t : Nat, dur : Nat, string : Nat, fret : Nat, confidence : Nat]

Score(notes) ==
  /\ notes \in Seq(NoteSet) /\ Track(notes)
  /\ \A i \in 1..Len(notes) : notes[i].t < PositiveInfinity

LEMMA ScoreAt ==
  ASSUME NEW notes, Score(notes)
  PROVE  /\ Len(notes) \in Nat /\ DOMAIN notes = 1..Len(notes)
         /\ \A i \in 1..Len(notes) :
              /\ notes[i] \in NoteSet
              /\ notes[i].t \in Nat /\ notes[i].dur \in Nat
              /\ notes[i].confidence \in Nat
              /\ notes[i].t < PositiveInfinity
         /\ \A i, j \in 1..Len(notes) : i <= j => notes[i].t <= notes[j].t
<1>1. /\ notes \in Seq(NoteSet) /\ Len(notes) \in Nat /\ DOMAIN notes = 1..Len(notes)
  BY DEF Score, Track
<1>2. \A i \in 1..Len(notes) : notes[i] \in NoteSet
  <2> HIDE DEF NoteSet
  <2> QED
    BY <1>1
<1>3. \A i \in 1..Len(notes) : /\ notes[i].t \in Nat /\ notes[i].dur \in Nat
                               /\ notes[i].confidence \in Nat
  BY <1>2 DEF NoteSet
<1>4. ASSUME NEW i \in 1..Len(notes), NEW j \in 1..Len(notes), i <= j
      PROVE  notes[i].t <= notes[j].t
  <2>1. CASE i = j
    BY <1>3, <2>1
  <2>2. CASE i # j
    <3>1. i < j
      BY <1>4, <2>2
    <3> QED
      BY <3>1 DEF Score, Track
  <2> QED
    BY <2>1, <2>2
<1> QED
  BY <1>1, <1>2, <1>3, <1>4 DEF Score

(* The passages tell which of the notes before the a-th are dim.           *)
Told(notes, passages, a) ==
  /\ Spaced(passages)
  /\ \A j \in 1..(a - 1) : Covers(passages, notes[j].t) <=> Dim(notes, j)
  /\ \A j \in a..Len(notes) : Until(passages, notes[j].t)

LEMMA UntilCoversNot ==
  ASSUME NEW passages, Spaced(passages), NEW t \in Nat, Until(passages, t)
  PROVE  ~Covers(passages, t)
<1>1. ASSUME NEW p \in 1..Len(passages) PROVE EndOf(passages[p]) \in Nat
  <2> DEFINE Span == [t : Nat, dur : Nat]
  <2>1. passages \in Seq(Span)
    BY DEF Spaced
  <2>2. passages[p] \in Span
    <3> HIDE DEF Span
    <3> QED
      BY <2>1
  <2> QED
    BY <2>2 DEF EndOf
<1> QED
  BY <1>1 DEF Until, Covers

LEMMA RunIs ==
  ASSUME NEW notes, Score(notes), NEW a \in Nat \ {0}, NEW k \in 0..Len(notes), a <= k + 1
  PROVE  /\ SubSeq(notes, a, k) \in Seq(NoteSet)
         /\ Len(SubSeq(notes, a, k)) = k + 1 - a
         /\ DOMAIN SubSeq(notes, a, k) = 1..(k + 1 - a)
         /\ \A i \in 1..(k + 1 - a) : SubSeq(notes, a, k)[i] = notes[a + i - 1]
<1>1. a \in Int /\ k \in Int /\ \A i \in a..k : notes[i] \in NoteSet
  BY ScoreAt
<1>2. /\ SubSeq(notes, a, k) \in Seq(NoteSet)
      /\ Len(SubSeq(notes, a, k)) = IF a <= k THEN k - a + 1 ELSE 0
      /\ \A i \in 1..(k - a + 1) : SubSeq(notes, a, k)[i] = notes[a + i - 1]
  <2> HIDE DEF NoteSet
  <2> QED
    BY <1>1, SubSeqProperties
<1>3. k - a + 1 = k + 1 - a /\ (IF a <= k THEN k - a + 1 ELSE 0) = k + 1 - a
  OBVIOUS
<1>4. DOMAIN SubSeq(notes, a, k) = 1..Len(SubSeq(notes, a, k))
  BY <1>2
<1> QED
  BY <1>2, <1>3, <1>4

LastEnd(run) == Max({run[i].t + run[i].dur : i \in DOMAIN run})

EndsAt(notes, a, k, m) ==
  /\ m \in Nat
  /\ \E x \in a..k : m = EndOf(notes[x])
  /\ \A x \in a..k : EndOf(notes[x]) <= m

LEMMA EndsOfRun ==
  ASSUME NEW notes, Score(notes), NEW a \in Nat \ {0}, NEW k \in 0..Len(notes), a <= k,
         NEW run, run = SubSeq(notes, a, k)
  PROVE  EndsAt(notes, a, k, LastEnd(run))
<1> DEFINE m == LastEnd(run)
           S == DOMAIN run
           ends == [i \in S |-> EndOf(run[i])]
           R == {ends[i] : i \in S}
<1>1. /\ S = 1..(k + 1 - a)
      /\ \A i \in S : run[i] = notes[a + i - 1]
  BY RunIs
<1>2. IsFiniteSet(S) /\ S # {}
  <2>1. PICK n \in Int : n = k + 1 - a
    OBVIOUS
  <2>2. PICK one \in Int : one = 1
    OBVIOUS
  <2>3. IsFiniteSet(one..n)
    BY FS_Interval
  <2>4. 1 \in S
    BY <1>1
  <2> QED
    BY <1>1, <2>1, <2>2, <2>3, <2>4
<1>3. \A i \in S : a + i - 1 \in a..k /\ a + i - 1 \in 1..Len(notes)
  BY <1>1, ScoreAt
<1>4. \A x \in a..k : EndOf(notes[x]) \in Nat
  <2> SUFFICES ASSUME NEW x \in a..k PROVE EndOf(notes[x]) \in Nat
    OBVIOUS
  <2>1. x \in 1..Len(notes)
    BY ScoreAt
  <2> QED
    BY <2>1, ScoreAt DEF EndOf
<1>5. \A i \in S : ends[i] = EndOf(notes[a + i - 1])
  BY <1>1
<1>6. R = {run[i].t + run[i].dur : i \in DOMAIN run}
  BY DEF EndOf
<1> HIDE DEF ends, S
<1>7. IsFiniteSet(R)
  BY <1>2, ImageFinite
<1>8. R \subseteq Nat /\ R # {}
  BY <1>2, <1>3, <1>4, <1>5
<1>9. \A r \in R : \E x \in a..k : r = EndOf(notes[x])
  BY <1>3, <1>5
<1>10. \A x \in a..k : EndOf(notes[x]) \in R
  <2> SUFFICES ASSUME NEW x \in a..k PROVE EndOf(notes[x]) \in R
    OBVIOUS
  <2>1. x + 1 - a \in S /\ a + (x + 1 - a) - 1 = x
    BY <1>1
  <2>2. ends[x + 1 - a] = EndOf(notes[x])
    BY <1>5, <2>1
  <2> QED
    BY <2>1, <2>2
<1> HIDE DEF R
<1>11. R \subseteq Int
  BY <1>8
<1>12. m = Max(R)
  BY <1>6 DEF LastEnd
<1> HIDE DEF m
<1>13. m \in R /\ \A x \in R : x <= m
  BY <1>7, <1>8, <1>11, <1>12, FiniteGreatest
<1> QED
  BY <1>8, <1>9, <1>10, <1>13 DEF EndsAt, m

LEMMA DimInGroup ==
  ASSUME NEW notes, Score(notes), NEW a, NEW k, WholeGroup(notes, a, k), NEW i \in a..k
  PROVE  Dim(notes, i) <=> /\ k + 1 - a >= MIN_RUN
                           /\ \E x \in a..k : EndOf(notes[x]) > notes[i].t
<1>1. a \in Nat /\ k \in Nat /\ a <= k /\ Len(notes) \in Nat
  BY ScoreAt DEF WholeGroup
<1>2. Group(notes, i) = a..k
  BY <1>1, GroupIs
<1>3. Cardinality(a..k) = k + 1 - a
  <2>1. a \in Int /\ k \in Int
    BY <1>1
  <2>2. Cardinality(a..k) = IF a > k THEN 0 ELSE k - a + 1
    BY <2>1, FS_Interval
  <2> QED
    BY <1>1, <2>2
<1> QED
  BY <1>2, <1>3 DEF Dim, Outlasts, EndOf

Shut(notes, k, state) ==
  /\ state = [run |-> NoRun, passages |-> state.passages]
  /\ Told(notes, state.passages, k + 1)

LEMMA ShutIs ==
  ASSUME NEW notes, NEW k, NEW state, NEW new,
         state = [run |-> NoRun, passages |-> new], Told(notes, new, k + 1)
  PROVE  Shut(notes, k, state)
<1>1. state.passages = new
  OBVIOUS
<1> QED
  BY <1>1 DEF Shut

(* A run, of a group that is whole, ends.                                  *)
LEMMA Closes ==
  ASSUME NEW notes, Score(notes), NEW passages, NEW a, NEW k,
         WholeGroup(notes, a, k), Told(notes, passages, a),
         a # 1 => notes[a - 1].t < notes[a].t,
         NEW next \in Nat,
         \A x \in a..k : notes[x].t < next,
         \A x \in (k + 1)..Len(notes) : next <= notes[x].t,
         NEW state, state = [run |-> SubSeq(notes, a, k), passages |-> passages]
  PROVE  Shut(notes, k, closed(state, next))
<1> DEFINE n == Len(notes)
           run == SubSeq(notes, a, k)
           from == notes[a].t
           m == LastEnd(run)
           to == RunEnd(run, next)
<1>0. /\ a \in 1..n /\ k \in 1..n /\ a <= k /\ n \in Nat
      /\ \A i \in 1..n : notes[i].t \in Nat /\ notes[i].dur \in Nat
      /\ \A i, j \in 1..n : i <= j => notes[i].t <= notes[j].t
  BY ScoreAt DEF WholeGroup
<1>1. a \in Nat \ {0} /\ k \in 0..n /\ a <= k + 1
  BY <1>0
<1>2. Len(run) = k + 1 - a /\ run[1] = notes[a]
  <2>1. /\ Len(run) = k + 1 - a
        /\ \A i \in 1..(k + 1 - a) : run[i] = notes[a + i - 1]
    BY <1>1, RunIs
  <2>2. 1 \in 1..(k + 1 - a) /\ a + 1 - 1 = a
    BY <1>0
  <2> QED
    BY <2>1, <2>2
<1>3. /\ m \in Nat
      /\ \E x \in a..k : m = EndOf(notes[x])
      /\ \A x \in a..k : EndOf(notes[x]) <= m
  <2>1. run = SubSeq(notes, a, k)
    OBVIOUS
  <2>2. m = LastEnd(run)
    OBVIOUS
  <2>3. a \in Nat \ {0} /\ k \in 0..Len(notes) /\ a <= k
    BY <1>0, <1>1
  <2>4. EndsAt(notes, a, k, LastEnd(run))
    <3> HIDE DEF run, n
    <3> QED
      BY <2>1, <2>3, EndsOfRun
  <2> QED
    BY <2>2, <2>4 DEF EndsAt
<1>4. to = IF next <= m THEN next ELSE m
  <2>1. to = Min({next, m})
    BY DEF RunEnd, LastEnd
  <2> HIDE DEF m, to
  <2> QED
    BY <1>3, <2>1, LesserIs
<1> HIDE DEF run, to, m, n
<1>5. ASSUME NEW i \in a..k
      PROVE  /\ Dim(notes, i) <=> k + 1 - a >= MIN_RUN /\ m > notes[i].t
             /\ from <= notes[i].t /\ notes[i].t \in Nat /\ notes[i].t < next
             /\ Until(passages, notes[i].t)
  <2>1. Dim(notes, i) <=> /\ k + 1 - a >= MIN_RUN
                          /\ \E x \in a..k : EndOf(notes[x]) > notes[i].t
    BY DimInGroup
  <2>2. i \in 1..n /\ from <= notes[i].t /\ notes[i].t \in Nat /\ notes[i].t < next
    <3>1. i \in 1..n /\ a <= i
      BY <1>0
    <3>2. notes[i].t < next
      OBVIOUS
    <3> QED
      BY <1>0, <3>1, <3>2
  <2>3. (\E x \in a..k : EndOf(notes[x]) > notes[i].t) <=> m > notes[i].t
    <3>1. ASSUME NEW x \in a..k PROVE EndOf(notes[x]) \in Nat
      <4>1. x \in 1..n
        <5>1. a \in 1..n /\ k \in 1..n /\ n \in Nat
          BY <1>0
        <5> QED
          BY <5>1
      <4>2. notes[x].t \in Nat /\ notes[x].dur \in Nat
        BY <1>0, <4>1
      <4> QED
        BY <4>2, EndOfIs
    <3>2. ASSUME NEW x \in a..k, EndOf(notes[x]) > notes[i].t
          PROVE  m > notes[i].t
      <4>1. EndOf(notes[x]) \in Nat /\ EndOf(notes[x]) <= m /\ m \in Nat
        BY <1>3, <3>1
      <4> QED
        BY <2>2, <3>2, <4>1
    <3>3. PICK x \in a..k : m = EndOf(notes[x])
      BY <1>3
    <3> QED
      BY <3>2, <3>3
  <2>4. Until(passages, notes[i].t)
    BY <1>0, <2>2 DEF Told, n
  <2> QED
    BY <2>1, <2>2, <2>3, <2>4
<1>t. /\ Spaced(passages)
      /\ \A j \in 1..(a - 1) : Covers(passages, notes[j].t) <=> Dim(notes, j)
      /\ \A j \in a..n : Until(passages, notes[j].t)
  BY DEF Told, n
<1>6. CASE Len(run) < MIN_RUN
  <2>1. closed(state, next) = [run |-> NoRun, passages |-> passages]
    BY <1>6 DEF closed, run
  <2>2. ASSUME NEW j \in 1..((k + 1) - 1)
        PROVE  Covers(passages, notes[j].t) <=> Dim(notes, j)
    <3>1. CASE j \in 1..(a - 1)
      BY <1>t, <3>1
    <3>2. CASE j \in a..k
      <4>1. ~(k + 1 - a >= MIN_RUN)
        BY <1>0, <1>2, <1>6, ConfidenceAssumption
      <4>2. ~Dim(notes, j)
        BY <1>5, <3>2, <4>1
      <4>3. ~Covers(passages, notes[j].t)
        BY <1>5, <1>t, <3>2, UntilCoversNot
      <4> QED
        BY <4>2, <4>3
    <3> QED
      BY <1>0, <3>1, <3>2
  <2>3. Told(notes, passages, k + 1)
    <3>1. \A j \in (k + 1)..n : j \in a..n
      BY <1>0
    <3> QED
      BY <1>t, <2>2, <3>1 DEF Told, n
  <2> QED
    BY <2>1, <2>3, ShutIs
<1>7. CASE ~(Len(run) < MIN_RUN)
  <2> DEFINE new == WithRun(passages, from, to)
  <2>1. closed(state, next) = [run |-> NoRun, passages |-> new]
    <3>1. state.run = run /\ state.passages = passages
      BY DEF run
    <3> QED
      BY <1>2, <1>7, <3>1 DEF closed, WithRun, to
  <2>2. from \in Nat /\ to \in Nat /\ from <= to
    <3>1. a \in a..k
      BY <1>0
    <3>2. from < next /\ EndOf(notes[a]) <= m
      BY <1>3, <3>1
    <3>3. from \in Nat /\ from <= EndOf(notes[a]) /\ EndOf(notes[a]) \in Nat
      BY <1>0 DEF EndOf
    <3> HIDE DEF from
    <3> QED
      BY <1>3, <1>4, <3>2, <3>3
  <2>3. Until(passages, from)
    <3>1. a \in a..k
      BY <1>0
    <3> QED
      BY <1>5, <3>1
  <2> HIDE DEF from
  <2>4. /\ Spaced(new)
        /\ \A x \in Nat : Covers(new, x) <=> Covers(passages, x) \/ (from <= x /\ x < to)
        /\ \A x \in Nat : to <= x => Until(new, x)
    BY <1>t, <2>2, <2>3, WithRunIs
  <2> HIDE DEF new
  <2>5. ASSUME NEW j \in 1..((k + 1) - 1)
        PROVE  Covers(new, notes[j].t) <=> Dim(notes, j)
    <3>1. CASE j \in 1..(a - 1)
      <4>1. j \in 1..n /\ a - 1 \in 1..n /\ j <= a - 1 /\ a # 1
        BY <1>0, <3>1
      <4>2. notes[j].t <= notes[a - 1].t /\ notes[a - 1].t < from
            /\ notes[j].t \in Nat /\ notes[a - 1].t \in Nat
        BY <1>0, <4>1 DEF from
      <4>3. ~(from <= notes[j].t)
        BY <2>2, <4>2
      <4>4. Covers(new, notes[j].t) <=> Covers(passages, notes[j].t)
        BY <2>4, <4>2, <4>3
      <4> QED
        BY <1>t, <3>1, <4>4
    <3>2. CASE j \in a..k
      <4>0. /\ Dim(notes, j) <=> k + 1 - a >= MIN_RUN /\ m > notes[j].t
            /\ from <= notes[j].t /\ notes[j].t \in Nat /\ notes[j].t < next
            /\ Until(passages, notes[j].t)
        BY <1>5, <3>2 DEF from
      <4>1. k + 1 - a >= MIN_RUN
        BY <1>0, <1>2, <1>7, ConfidenceAssumption
      <4>2. ~Covers(passages, notes[j].t)
        BY <1>t, <4>0, UntilCoversNot
      <4>3. notes[j].t < to <=> m > notes[j].t
        BY <1>3, <1>4, <4>0
      <4>4. Covers(new, notes[j].t) <=> notes[j].t < to
        BY <2>4, <4>0, <4>2
      <4> QED
        BY <4>0, <4>1, <4>3, <4>4
    <3> QED
      BY <1>0, <3>1, <3>2
  <2>6. ASSUME NEW j \in (k + 1)..n
        PROVE  Until(new, notes[j].t)
    <3>1. j \in 1..n
      BY <1>0
    <3>2. notes[j].t \in Nat /\ next <= notes[j].t
      BY <1>0, <3>1 DEF n
    <3>3. to <= notes[j].t
      BY <1>3, <1>4, <3>2
    <3> QED
      BY <2>4, <3>2, <3>3
  <2>7. Told(notes, new, k + 1)
    BY <2>4, <2>5, <2>6 DEF Told, n
  <2> QED
    BY <2>1, <2>7, ShutIs
<1> QED
  BY <1>6, <1>7

-----------------------------------------------------------------------------
(* Where the fold is after the k-th note: its run begins at the a-th.      *)
OpenAt(notes, k, state, a) ==
  /\ a \in 1..(k + 1)
  /\ state = [run |-> SubSeq(notes, a, k), passages |-> state.passages]
  /\ a <= k => Joined(notes, a, k)
  /\ Begins(notes, a)
  /\ a # 1 /\ a <= Len(notes) => notes[a - 1].t < notes[a].t
  /\ Told(notes, state.passages, a)

(* A moment that parts the first k notes from the rest.                    *)
Parts(notes, k, next) ==
  /\ next \in Int
  /\ \A x \in 1..k : notes[x].t < next
  /\ \A x \in (k + 1)..Len(notes) : next <= notes[x].t

LEMMA ClosesOpen ==
  ASSUME NEW notes, Score(notes), NEW k \in 0..Len(notes), NEW state, NEW a,
         OpenAt(notes, k, state, a), NEW next, Parts(notes, k, next), Ends(notes, k)
  PROVE  Shut(notes, k, closed(state, next))
<1>0. Len(notes) \in Nat /\ k \in Nat /\ k <= Len(notes) /\ a \in 1..(k + 1)
  BY ScoreAt DEF OpenAt
<1>n. /\ next \in Int
      /\ \A x \in 1..k : notes[x].t < next
      /\ \A x \in (k + 1)..Len(notes) : next <= notes[x].t
  BY DEF Parts
<1> DEFINE P == state.passages
<1>1. state = [run |-> SubSeq(notes, a, k), passages |-> P] /\ Told(notes, P, a)
  BY DEF OpenAt
<1> HIDE DEF P
<1>2. CASE a <= k
  <2>1. WholeGroup(notes, a, k)
    BY <1>0, <1>2 DEF OpenAt, WholeGroup
  <2>2. a # 1 => notes[a - 1].t < notes[a].t
    BY <1>0, <1>2 DEF OpenAt
  <2>3. next \in Nat /\ \A x \in a..k : notes[x].t < next
    <3>1. a \in 1..Len(notes) /\ a \in 1..k
      BY <1>0, <1>2
    <3>2. notes[a].t \in Nat /\ notes[a].t < next
      BY <1>n, <3>1, ScoreAt
    <3>3. \A x \in a..k : x \in 1..k
      BY <1>0
    <3> QED
      BY <1>n, <3>2, <3>3
  <2> QED
    BY <1>1, <1>n, <2>1, <2>2, <2>3, Closes
<1>3. CASE ~(a <= k)
  <2>1. a = k + 1
    BY <1>0, <1>3
  <2>2. SubSeq(notes, a, k) = <<>>
    BY <1>0, <2>1, SubSeqEmpty
  <2>3. Len(state.run) < MIN_RUN /\ state = [run |-> NoRun, passages |-> P]
    BY <1>1, <2>2, ConfidenceAssumption DEF NoRun
  <2>4. closed(state, next) = [state EXCEPT !.run = NoRun]
    BY <2>3 DEF closed
  <2>5. closed(state, next) = [run |-> NoRun, passages |-> P]
    BY <2>3, <2>4
  <2> QED
    BY <1>1, <2>1, <2>5, ShutIs
<1> QED
  BY <1>2, <1>3

(* The notes that begin together.                                          *)
MomentIs(notes, j, k, t) ==
  /\ j \in 0..(k - 1) /\ k \in 1..Len(notes) /\ t \in Nat
  /\ \A x \in (j + 1)..k : notes[x].t = t
  /\ \A x \in 1..j : notes[x].t < t
  /\ \A x \in (k + 1)..Len(notes) : t < notes[x].t

LEMMA MomentOf ==
  ASSUME NEW notes, Score(notes), NEW k \in 1..Len(notes), Complete(notes, k)
  PROVE  MomentIs(notes, FirstAt(notes, k) - 1, k, notes[k].t)
<1> DEFINE first == FirstAt(notes, k)
           j == first - 1
<1>0. /\ Len(notes) \in Nat
      /\ \A i \in 1..Len(notes) : notes[i].t \in Nat
      /\ \A i, x \in 1..Len(notes) : i <= x => notes[i].t <= notes[x].t
  BY ScoreAt
<1>1. /\ first \in 1..k
      /\ \A x \in first..k : notes[x].t = notes[k].t
      /\ \A x \in 1..(first - 1) : notes[x].t < notes[k].t
  BY FirstIs DEF Score
<1> HIDE DEF first
<1>2. j \in 0..(k - 1) /\ j + 1 = first
  BY <1>1
<1>3. \A x \in (j + 1)..k : notes[x].t = notes[k].t
  BY <1>1, <1>2
<1>4. ASSUME NEW x \in (k + 1)..Len(notes) PROVE notes[k].t < notes[x].t
  <2>1. x \in 1..Len(notes) /\ k + 1 \in 1..Len(notes) /\ k + 1 <= x /\ k # Len(notes) /\ k # 0
    BY <1>0
  <2>2. notes[k].t < notes[k + 1].t /\ notes[k + 1].t <= notes[x].t
    BY <1>0, <2>1 DEF Complete
  <2> QED
    BY <1>0, <2>1, <2>2
<1>5. MomentIs(notes, j, k, notes[k].t)
  BY <1>0, <1>1, <1>2, <1>3, <1>4 DEF MomentIs
<1> QED
  BY <1>5 DEF first

LEMMA SoftMoment ==
  ASSUME NEW notes, Score(notes), NEW j, NEW k, NEW t, MomentIs(notes, j, k, t)
  PROVE  \A x \in (j + 1)..k :
           Soft(notes, x) <=> \A y \in (j + 1)..k : notes[y].confidence < Hide
<1>0. j \in Nat /\ k \in Nat /\ Len(notes) \in Nat /\ j < k /\ k <= Len(notes) /\ t \in Nat
      /\ \A i \in 1..Len(notes) : notes[i].t \in Nat
  BY ScoreAt DEF MomentIs
<1> SUFFICES ASSUME NEW x \in (j + 1)..k
             PROVE  Soft(notes, x) <=> \A y \in (j + 1)..k : notes[y].confidence < Hide
  OBVIOUS
<1>1. notes[x].t = t
  BY DEF MomentIs
<1>2. ASSUME NEW y \in 1..Len(notes)
      PROVE  notes[y].t = t <=> y \in (j + 1)..k
  <2>1. CASE y \in (j + 1)..k
    BY <2>1 DEF MomentIs
  <2>2. CASE y \in 1..j
    <3>1. notes[y].t < t /\ ~(y \in (j + 1)..k)
      BY <1>0, <2>2 DEF MomentIs
    <3> QED
      BY <1>0, <3>1
  <2>3. CASE y \in (k + 1)..Len(notes)
    <3>1. t < notes[y].t /\ ~(y \in (j + 1)..k)
      BY <1>0, <2>3 DEF MomentIs
    <3> QED
      BY <1>0, <3>1
  <2> QED
    BY <1>0, <2>1, <2>2, <2>3
<1>3. \A y \in (j + 1)..k : y \in 1..Len(notes)
  BY <1>0
<1> QED
  BY <1>1, <1>2, <1>3 DEF Soft

JoinedMoment(notes, j, k) == \A x \in (j + 1)..k : Soft(notes, x)

LEMMA MomentJoined ==
  ASSUME NEW notes, Score(notes), NEW j, NEW k, NEW t, MomentIs(notes, j, k, t),
         JoinedMoment(notes, j, k)
  PROVE  /\ Joined(notes, j + 1, k)
         /\ \A a \in 1..j : Joined(notes, a, j) /\ Near(notes, j) => Joined(notes, a, k)
<1>0. j \in Nat /\ k \in Nat /\ j < k /\ t \in Nat
  BY DEF MomentIs
<1>1. ASSUME NEW x \in (j + 1)..(k - 1) PROVE Near(notes, x)
  <2>1. x \in (j + 1)..k /\ x + 1 \in (j + 1)..k
    BY <1>0
  <2>2. notes[x].t = t /\ notes[x + 1].t = t
    BY <2>1 DEF MomentIs
  <2> QED
    BY <1>0, <2>2, ConfidenceAssumption DEF Near
<1>2. Joined(notes, j + 1, k)
  BY <1>1 DEF Joined, JoinedMoment
<1>3. ASSUME NEW a \in 1..j, Joined(notes, a, j), Near(notes, j)
      PROVE  Joined(notes, a, k)
  <2>1. \A x \in a..k : x \in a..j \/ x \in (j + 1)..k
    BY <1>0
  <2>2. \A x \in a..(k - 1) : x \in a..(j - 1) \/ x = j \/ x \in (j + 1)..(k - 1)
    BY <1>0
  <2> QED
    BY <1>1, <1>3, <2>1, <2>2 DEF Joined, JoinedMoment
<1> QED
  BY <1>2, <1>3

LEMMA StrongMoment ==
  ASSUME NEW notes, Score(notes), NEW j, NEW k, NEW t, MomentIs(notes, j, k, t),
         \A x \in (j + 1)..k : ~Soft(notes, x),
         NEW state, Shut(notes, j, state)
  PROVE  OpenAt(notes, k, state, k + 1)
<1> DEFINE P == state.passages
           n == Len(notes)
<1>0. j \in Nat /\ k \in Nat /\ j < k /\ k <= n /\ n \in Nat /\ t \in Nat
  BY ScoreAt DEF MomentIs
<1>1. state = [run |-> NoRun, passages |-> P] /\ Told(notes, P, j + 1)
  BY DEF Shut
<1>2. state = [run |-> SubSeq(notes, k + 1, k), passages |-> state.passages]
  <2>1. SubSeq(notes, k + 1, k) = <<>>
    BY <1>0, SubSeqEmpty
  <2> QED
    BY <1>1, <2>1 DEF NoRun
<1> HIDE DEF P
<1>3. Begins(notes, k + 1)
  <2>1. ~Soft(notes, k)
    BY <1>0
  <2>2. (k + 1) - 1 = k
    BY <1>0
  <2> QED
    BY <2>1, <2>2 DEF Begins
<1>4. k + 1 <= n => notes[(k + 1) - 1].t < notes[k + 1].t
  <2> SUFFICES ASSUME k + 1 <= n PROVE notes[(k + 1) - 1].t < notes[k + 1].t
    OBVIOUS
  <2>1. (k + 1) - 1 = k /\ k \in (j + 1)..k /\ k + 1 \in (k + 1)..n
    BY <1>0
  <2>2. notes[k].t = t /\ t < notes[k + 1].t
    BY <2>1 DEF MomentIs
  <2> QED
    BY <2>1, <2>2
<1>t. /\ Spaced(P)
      /\ \A x \in 1..((j + 1) - 1) : Covers(P, notes[x].t) <=> Dim(notes, x)
      /\ \A x \in (j + 1)..n : Until(P, notes[x].t)
  BY <1>1 DEF Told
<1>5. ASSUME NEW x \in 1..((k + 1) - 1)
      PROVE  Covers(P, notes[x].t) <=> Dim(notes, x)
  <2>1. CASE x \in 1..((j + 1) - 1)
    BY <1>t, <2>1
  <2>2. CASE x \in (j + 1)..k
    <3>1. x \in (j + 1)..n /\ x \in 1..n
      BY <1>0, <2>2
    <3>2. ~Dim(notes, x)
      BY <1>0, <2>2, <3>1, StrongIsClear
    <3>3. notes[x].t \in Nat
      BY <3>1, ScoreAt
    <3>4. ~Covers(P, notes[x].t)
      BY <1>t, <3>1, <3>3, UntilCoversNot
    <3> QED
      BY <3>2, <3>4
  <2> QED
    BY <1>0, <2>1, <2>2
<1>6. Told(notes, P, k + 1)
  <2>1. \A x \in (k + 1)..n : x \in (j + 1)..n
    BY <1>0
  <2> QED
    BY <1>t, <1>5, <2>1 DEF Told
<1> QED
  BY <1>0, <1>2, <1>3, <1>4, <1>6 DEF OpenAt, P

LEMMA WeakMoment ==
  ASSUME NEW notes, Score(notes), NEW j, NEW k, NEW t, MomentIs(notes, j, k, t),
         JoinedMoment(notes, j, k),
         NEW state, NEW a, OpenAt(notes, j, state, a), a <= j => Near(notes, j)
  PROVE  OpenAt(notes, k, [state EXCEPT !.run = @ \o SubSeq(notes, j + 1, k)], a)
<1> DEFINE P == state.passages
           n == Len(notes)
           new == [state EXCEPT !.run = @ \o SubSeq(notes, j + 1, k)]
<1>0. /\ j \in Nat /\ k \in Nat /\ j < k /\ k <= n /\ n \in Nat /\ a \in 1..(j + 1)
  BY ScoreAt DEF MomentIs, OpenAt
<1>1. state = [run |-> SubSeq(notes, a, j), passages |-> P]
  BY DEF OpenAt
<1>2. SubSeq(notes, a, j) \o SubSeq(notes, j + 1, k) = SubSeq(notes, a, k)
  <2>1. notes \in Seq(NoteSet)
    BY DEF Score
  <2>2. a \in 1..(n + 1) /\ j \in (a - 1)..n /\ k \in j..n
    BY <1>0
  <2> HIDE DEF NoteSet
  <2> QED
    BY <2>1, <2>2, ConcatAdjacentSubSeq
<1> HIDE DEF P
<1>3. new = [run |-> SubSeq(notes, a, k), passages |-> P]
  <2>1. state.run = SubSeq(notes, a, j)
    BY <1>1
  <2>2. PICK y : y = SubSeq(notes, a, k)
    OBVIOUS
  <2>3. state.run \o SubSeq(notes, j + 1, k) = y
    BY <1>2, <2>1, <2>2
  <2>4. new = [state EXCEPT !.run = y]
    BY <2>3
  <2>5. [state EXCEPT !.run = y] = [run |-> y, passages |-> P]
    BY <1>1
  <2> QED
    BY <2>2, <2>4, <2>5
<1>4. Joined(notes, a, k)
  <2>1. CASE a <= j
    <3>1. a \in 1..j /\ Joined(notes, a, j) /\ Near(notes, j)
      BY <1>0, <2>1 DEF OpenAt
    <3> QED
      BY <3>1, MomentJoined
  <2>2. CASE ~(a <= j)
    <3>1. a = j + 1
      BY <1>0, <2>2
    <3> QED
      BY <3>1, MomentJoined
  <2> QED
    BY <2>1, <2>2
<1> HIDE DEF new
<1>5. new = [run |-> SubSeq(notes, a, k), passages |-> new.passages] /\ new.passages = P
  BY <1>3
<1>6. a \in 1..(k + 1)
  BY <1>0
<1>7. OpenAt(notes, k, new, a)
  BY <1>4, <1>5, <1>6 DEF OpenAt, P
<1> QED
  BY <1>7 DEF new

LEMMA HeardMomentIs ==
  ASSUME NEW notes, Score(notes), NEW j, NEW k, NEW t, MomentIs(notes, j, k, t),
         NEW state, NEW a, OpenAt(notes, j, state, a)
  PROVE  \E b \in 1..(k + 1) :
           OpenAt(notes, k, HeardMoment(state, SubSeq(notes, j + 1, k)), b)
<1> DEFINE P == state.passages
           n == Len(notes)
           moment == SubSeq(notes, j + 1, k)
           new == HeardMoment(state, moment)
<1>0. /\ j \in Nat /\ k \in Nat /\ j < k /\ k <= n /\ n \in Nat /\ a \in 1..(j + 1) /\ t \in Nat
      /\ \A i \in 1..n : notes[i].t \in Nat /\ notes[i].confidence \in Nat
  <2>1. n \in Nat /\ \A i \in 1..n : notes[i].t \in Nat /\ notes[i].confidence \in Nat
    BY ScoreAt
  <2>2. j \in 0..(k - 1) /\ k \in 1..n /\ t \in Nat
    BY DEF MomentIs
  <2>3. a \in 1..(j + 1)
    BY DEF OpenAt
  <2> QED
    BY <2>1, <2>2, <2>3
<1>1. state = [run |-> SubSeq(notes, a, j), passages |-> P]
  BY DEF OpenAt
<1>2. /\ DOMAIN moment = 1..(k - j)
      /\ \A i \in 1..(k - j) : moment[i] = notes[j + i]
      /\ moment[1].t = t
  <2>1. j + 1 \in Nat \ {0} /\ k \in 0..n /\ j + 1 <= k + 1 /\ k + 1 - (j + 1) = k - j
    BY <1>0
  <2>2. /\ DOMAIN moment = 1..(k + 1 - (j + 1))
        /\ \A i \in 1..(k + 1 - (j + 1)) : moment[i] = notes[(j + 1) + i - 1]
    BY <2>1, RunIs
  <2>3. \A i \in 1..(k - j) : (j + 1) + i - 1 = j + i
    BY <1>0
  <2>4. 1 \in 1..(k - j) /\ j + 1 \in (j + 1)..k
    BY <1>0
  <2>5. notes[j + 1].t = t
    BY <2>4 DEF MomentIs
  <2> HIDE DEF moment
  <2> QED
    BY <2>1, <2>2, <2>3, <2>4, <2>5
<1> HIDE DEF P, moment
<1>3. (\E i \in DOMAIN moment : moment[i].confidence >= Hide)
        <=> ~(\A x \in (j + 1)..k : Soft(notes, x))
  <2>1. \A i \in DOMAIN moment : j + i \in (j + 1)..k /\ moment[i] = notes[j + i]
    BY <1>0, <1>2
  <2>2. \A x \in (j + 1)..k : /\ x - j \in DOMAIN moment /\ moment[x - j] = notes[x]
                              /\ x \in 1..n
    <3> SUFFICES ASSUME NEW x \in (j + 1)..k
                 PROVE  /\ x - j \in DOMAIN moment /\ moment[x - j] = notes[x]
                        /\ x \in 1..n
      OBVIOUS
    <3>1. x - j \in 1..(k - j) /\ j + (x - j) = x /\ x \in 1..n
      BY <1>0
    <3> QED
      BY <1>2, <3>1
  <2>3. \A x \in (j + 1)..k : notes[x].confidence < Hide <=> ~(notes[x].confidence >= Hide)
    BY <1>0, <2>2 DEF Hide
  <2>4. (\E i \in DOMAIN moment : moment[i].confidence >= Hide)
          <=> (\E x \in (j + 1)..k : notes[x].confidence >= Hide)
    BY <2>1, <2>2
  <2>5. \A x \in (j + 1)..k :
           Soft(notes, x) <=> \A y \in (j + 1)..k : notes[y].confidence < Hide
    BY SoftMoment
  <2>6. k \in (j + 1)..k
    BY <1>0
  <2> QED
    BY <2>3, <2>4, <2>5, <2>6
<1>4. j \in 0..Len(notes) /\ Parts(notes, j, t)
  <2>1. ASSUME NEW x \in (j + 1)..n PROVE t <= notes[x].t
    <3>1. CASE x <= k
      <4>1. x \in (j + 1)..k
        BY <1>0, <3>1
      <4>2. notes[x].t = t
        BY <4>1 DEF MomentIs
      <4> QED
        BY <1>0, <4>2
    <3>2. CASE ~(x <= k)
      <4>1. x \in (k + 1)..n /\ x \in 1..n
        BY <1>0, <3>2
      <4>2. t < notes[x].t
        BY <4>1 DEF MomentIs
      <4> QED
        BY <1>0, <4>1, <4>2
    <3> QED
      BY <3>1, <3>2
  <2> QED
    BY <1>0, <2>1 DEF MomentIs, Parts
<1>5. CASE ~(\A x \in (j + 1)..k : Soft(notes, x))
  <2>1. new = closed(state, t)
    BY <1>2, <1>3, <1>5 DEF HeardMoment
  <2>2. \A x \in (j + 1)..k : ~Soft(notes, x)
    BY <1>5, SoftMoment
  <2>3. Ends(notes, j)
    <3>1. j + 1 \in (j + 1)..k
      BY <1>0
    <3> QED
      BY <2>2, <3>1 DEF Ends
  <2>4. Shut(notes, j, closed(state, t))
    BY <1>4, <2>3, ClosesOpen
  <2>5. OpenAt(notes, k, new, k + 1)
    <3> HIDE DEF new
    <3> QED
      BY <2>1, <2>2, <2>4, StrongMoment
  <2> QED
    BY <1>0, <2>5 DEF moment
<1>6. CASE \A x \in (j + 1)..k : Soft(notes, x)
  <2> DEFINE gap == state.run # NoRun /\ t - state.run[Len(state.run)].t > MAX_GAP
             before == IF gap THEN closed(state, t) ELSE state
  <2>1. new = [before EXCEPT !.run = @ \o moment]
    BY <1>2, <1>3, <1>6 DEF HeardMoment
  <2>2. JoinedMoment(notes, j, k)
    BY <1>6 DEF JoinedMoment
  <2>3. IF a <= j THEN gap <=> ~Near(notes, j) ELSE ~gap
    <3>0. state.run = SubSeq(notes, a, j)
      BY <1>1
    <3>1. CASE a <= j
      <4>1. /\ Len(state.run) = j + 1 - a
            /\ \A i \in 1..(j + 1 - a) : state.run[i] = notes[a + i - 1]
        BY <1>0, <1>4, <3>0, RunIs
      <4>2. j + 1 - a \in 1..(j + 1 - a) /\ a + (j + 1 - a) - 1 = j
        BY <1>0, <3>1
      <4>3. state.run[Len(state.run)] = notes[j]
        BY <4>1, <4>2
      <4>4. state.run # NoRun
        <5>1. Len(NoRun) = 0
          BY DEF NoRun
        <5> QED
          BY <4>1, <4>2, <5>1
      <4>5. j + 1 \in (j + 1)..k /\ j \in 1..n
        BY <1>0, <3>1
      <4>6. notes[j + 1].t = t
        BY <4>5 DEF MomentIs
      <4>7. t - notes[j].t \in Int
        BY <1>0, <4>5
      <4>8. gap <=> t - notes[j].t > MAX_GAP
        BY <4>3, <4>4
      <4>9. Near(notes, j) <=> t - notes[j].t <= MAX_GAP
        BY <4>6 DEF Near
      <4> HIDE DEF gap
      <4> QED
        BY <3>1, <4>7, <4>8, <4>9, ConfidenceAssumption
    <3>2. CASE ~(a <= j)
      <4>1. SubSeq(notes, a, j) = <<>>
        BY <1>0, <3>2, SubSeqEmpty
      <4> QED
        BY <3>0, <3>2, <4>1 DEF NoRun
    <3> QED
      BY <3>1, <3>2
  <2> HIDE DEF gap, new
  <2>4. CASE gap
    <3>1. a <= j /\ ~Near(notes, j)
      BY <2>3, <2>4
    <3>2. Shut(notes, j, closed(state, t))
      <4>1. Ends(notes, j)
        BY <3>1 DEF Ends
      <4> QED
        BY <1>4, <4>1, ClosesOpen
    <3>3. before = closed(state, t)
      BY <2>4
    <3> HIDE DEF before
    <3>4. OpenAt(notes, j, before, j + 1)
      <4>1. SubSeq(notes, j + 1, j) = <<>>
        BY <1>0, SubSeqEmpty
      <4>2. /\ before = [run |-> SubSeq(notes, j + 1, j), passages |-> before.passages]
            /\ Told(notes, before.passages, j + 1)
        BY <3>2, <3>3, <4>1 DEF Shut, NoRun
      <4>3. (j + 1) - 1 = j /\ ~(j + 1 <= j) /\ j + 1 \in 1..(j + 1) /\ j \in 1..j
            /\ j + 1 \in (j + 1)..k
        BY <1>0, <3>1
      <4>4. Begins(notes, j + 1)
        BY <3>1, <4>3 DEF Begins
      <4>5. notes[(j + 1) - 1].t < notes[j + 1].t
        <5>1. notes[j].t < t /\ notes[j + 1].t = t
          BY <4>3 DEF MomentIs
        <5> QED
          BY <4>3, <5>1
      <4> QED
        BY <4>2, <4>3, <4>4, <4>5 DEF OpenAt
    <3>5. OpenAt(notes, k, [before EXCEPT !.run = @ \o SubSeq(notes, j + 1, k)], j + 1)
      <4>1. ~(j + 1 <= j)
        BY <1>0
      <4> QED
        BY <2>2, <3>4, <4>1, WeakMoment
    <3>6. OpenAt(notes, k, new, j + 1)
      BY <2>1, <3>5 DEF moment
    <3> QED
      BY <1>0, <3>6 DEF new, moment
  <2>5. CASE ~gap
    <3>1. a <= j => Near(notes, j)
      BY <2>3, <2>5
    <3>2. before = state
      BY <2>5
    <3>3. OpenAt(notes, k, [state EXCEPT !.run = @ \o SubSeq(notes, j + 1, k)], a)
      BY <2>2, <3>1, WeakMoment
    <3>4. OpenAt(notes, k, new, a)
      BY <2>1, <3>2, <3>3 DEF moment
    <3> QED
      BY <1>0, <3>4 DEF new, moment
  <2> QED
    BY <2>4, <2>5
<1> QED
  BY <1>5, <1>6

(* After the last of the notes that begin together.                        *)
LEMMA HearingTo ==
  ASSUME NEW notes, Score(notes), NEW k \in 0..Len(notes), Complete(notes, k)
  PROVE  \E a \in 1..(k + 1) : OpenAt(notes, k, Hearing(notes)[k], a)
<1> DEFINE f == Hearing(notes)
           T == {m \in Nat : \A i \in 0..Len(notes) :
                   i <= m /\ Complete(notes, i) => \E a \in 1..(i + 1) : OpenAt(notes, i, f[i], a)}
<1>0. Len(notes) \in Nat /\ Track(notes)
  BY ScoreAt DEF Score
<1>h. \A i \in 0..Len(notes) : f[i] = Hears(notes, f, i)
  BY <1>0, HearingIs
<1> HIDE DEF f
<1>z. OpenAt(notes, 0, f[0], 1)
  <2>1. f[0] = Silence
    BY <1>0, <1>h DEF Hears
  <2>2. SubSeq(notes, 1, 0) = <<>>
    BY SubSeqEmpty
  <2>3. f[0] = [run |-> SubSeq(notes, 1, 0), passages |-> f[0].passages] /\ f[0].passages = <<>>
    BY <2>1, <2>2 DEF Silence, NoRun
  <2>4. Told(notes, <<>>, 1)
    <3>1. <<>> \in Seq([t : Nat, dur : Nat]) /\ Len(<<>>) = 0
      OBVIOUS
    <3>2. 1..Len(<<>>) = {} /\ 1..(1 - 1) = {}
      BY <3>1
    <3> QED
      BY <3>1, <3>2 DEF Told, Spaced, Until
  <2> QED
    BY <2>3, <2>4 DEF OpenAt, Begins
<1>1. 0 \in T
  <2>1. \A i \in 0..Len(notes) : i <= 0 => i = 0
    BY <1>0
  <2>2. \E a \in 1..(0 + 1) : OpenAt(notes, 0, f[0], a)
    BY <1>z
  <2> QED
    BY <2>1, <2>2
<1>2. ASSUME NEW m \in Nat, m \in T PROVE (m + 1) \in T
  <2>q. m + 1 \in Nat
    OBVIOUS
  <2> SUFFICES ASSUME NEW i \in 0..Len(notes), i <= m + 1, Complete(notes, i)
               PROVE  \E a \in 1..(i + 1) : OpenAt(notes, i, f[i], a)
    BY <2>q
  <2>1. CASE i <= m
    BY <1>2, <2>1
  <2>2. CASE ~(i <= m)
    <3> DEFINE j == FirstAt(notes, i) - 1
    <3>1. i \in 1..Len(notes) /\ i = m + 1 /\ i # 0
      BY <1>0, <2>2
    <3>2. MomentIs(notes, j, i, notes[i].t)
      BY <3>1, MomentOf
    <3>3. Complete(notes, j)
      BY <1>0, <3>1, FirstIs
    <3>4. j \in 0..Len(notes) /\ j <= m /\ j + 1 = FirstAt(notes, i)
      <4>1. FirstAt(notes, i) \in 1..i
        BY <1>0, <3>1, FirstIs
      <4> QED
        BY <1>0, <3>1, <4>1
    <3>5. f[i] = HeardMoment(f[j], byMoment(notes, i))
      BY <1>h, <3>1 DEF Hears
    <3>6. byMoment(notes, i) = SubSeq(notes, j + 1, i)
      <4> HIDE DEF j
      <4> QED
        BY <3>4 DEF byMoment
    <3> HIDE DEF j
    <3>7. PICK a \in 1..(j + 1) : OpenAt(notes, j, f[j], a)
      BY <1>2, <3>3, <3>4
    <3> QED
      BY <3>2, <3>5, <3>6, <3>7, HeardMomentIs
  <2> QED
    BY <2>1, <2>2
<1> HIDE DEF T
<1>3. k \in T
  BY <1>1, <1>2, Everywhere
<1> QED
  BY <1>0, <1>3 DEF T, f

(* What hiddenPassages finds: in a passage begin the notes that are dim.   *)
LEMMA HiddenTold ==
  ASSUME NEW notes, Score(notes)
  PROVE  Told(notes, hiddenPassages(notes), Len(notes) + 1)
<1> DEFINE n == Len(notes)
           state == Hearing(notes)[n]
<1>0. n \in Nat /\ \A i \in 1..n : notes[i].t < PositiveInfinity
  BY ScoreAt
<1>1. n \in 0..Len(notes) /\ Complete(notes, n) /\ Ends(notes, n)
  BY <1>0 DEF Complete, Ends
<1>2. PICK a \in 1..(n + 1) : OpenAt(notes, n, state, a)
  BY <1>1, HearingTo
<1>3. Parts(notes, n, PositiveInfinity)
  <2>1. PositiveInfinity \in Int /\ (n + 1)..n = {}
    BY <1>0, CursorAssumption
  <2> QED
    BY <1>0, <2>1 DEF Parts
<1> HIDE DEF state
<1>4. Shut(notes, n, closed(state, PositiveInfinity))
  BY <1>0, <1>1, <1>2, <1>3, ClosesOpen
<1>5. hiddenPassages(notes) = closed(state, PositiveInfinity).passages
  BY HiddenIs DEF state
<1> QED
  BY <1>4, <1>5 DEF Shut

-----------------------------------------------------------------------------
(* Unclear, of the song that is open, is what Dim is of its notes.         *)
LEMMA NoteAt ==
  ASSUME Score(opened.notes), NEW i \in Notes
  PROVE  /\ i \in Nat /\ i + 1 \in 1..Len(opened.notes)
         /\ Onset(i) = opened.notes[i + 1].t /\ Onset(i) \in Nat
         /\ End(opened.notes, i) = EndOf(opened.notes[i + 1]) /\ End(opened.notes, i) \in Nat
         /\ \A k \in Notes : i <= k => Onset(i) <= Onset(k)
         /\ \A k \in Notes : Onset(i) < Onset(k) => i < k
<1>1. Len(opened.notes) \in Nat /\ Notes = 0..(Len(opened.notes) - 1)
  BY ScoreAt DEF Notes, Indices
<1>2. ASSUME NEW k \in Notes
      PROVE  k \in Nat /\ k + 1 \in 1..Len(opened.notes)
             /\ Onset(k) = opened.notes[k + 1].t /\ Onset(k) \in Nat
  <2>1. k \in Nat /\ k + 1 \in 1..Len(opened.notes)
    BY <1>1
  <2> QED
    BY <2>1, ScoreAt DEF Onset, Nth
<1>3. ASSUME NEW k \in Notes, NEW x \in Notes, k <= x
      PROVE  Onset(k) <= Onset(x)
  <2>1. k + 1 \in 1..Len(opened.notes) /\ x + 1 \in 1..Len(opened.notes) /\ k + 1 <= x + 1
    BY <1>2, <1>3
  <2>2. opened.notes[k + 1].t <= opened.notes[x + 1].t
    BY <2>1, ScoreAt
  <2> QED
    BY <1>2, <2>2
<1>4. ASSUME NEW k \in Notes, Onset(i) < Onset(k) PROVE i < k
  <2> SUFFICES ASSUME ~(i < k) PROVE FALSE
    OBVIOUS
  <2>1. k <= i
    BY <1>2
  <2>2. Onset(k) <= Onset(i)
    BY <1>3, <2>1
  <2> QED
    BY <1>2, <1>4, <2>2
<1>5. End(opened.notes, i) = EndOf(opened.notes[i + 1]) /\ End(opened.notes, i) \in Nat
  BY <1>2, ScoreAt DEF End, EndOf, Nth
<1> QED
  BY <1>2, <1>3, <1>4, <1>5

LEMMA WeakIs ==
  ASSUME Score(opened.notes), NEW i \in Notes
  PROVE  Weak(Onset(i)) <=> Soft(opened.notes, i + 1)
<1>1. Len(opened.notes) \in Nat /\ Notes = 0..(Len(opened.notes) - 1)
  BY ScoreAt DEF Notes, Indices
<1>2. Onset(i) = opened.notes[i + 1].t
  BY NoteAt
<1>3. \A k \in Notes : /\ k + 1 \in 1..Len(opened.notes)
                       /\ Onset(k) = opened.notes[k + 1].t
                       /\ Nth(opened.notes, k) = opened.notes[k + 1]
  BY NoteAt DEF Nth
<1>4. \A x \in 1..Len(opened.notes) : x - 1 \in Notes /\ (x - 1) + 1 = x
  BY <1>1
<1>5. ASSUME Weak(Onset(i)) PROVE Soft(opened.notes, i + 1)
  <2> SUFFICES ASSUME NEW x \in 1..Len(opened.notes),
                      opened.notes[x].t = opened.notes[i + 1].t
               PROVE  opened.notes[x].confidence < Hide
    BY DEF Soft
  <2>1. PICK k \in Notes : k + 1 = x
    BY <1>4
  <2> QED
    BY <1>2, <1>3, <1>5, <2>1 DEF Weak
<1>6. ASSUME Soft(opened.notes, i + 1) PROVE Weak(Onset(i))
  BY <1>2, <1>3, <1>6 DEF Soft, Weak
<1> QED
  BY <1>5, <1>6

LEMMA TogetherJoins ==
  ASSUME Score(opened.notes), NEW i \in Notes, NEW k \in Notes, i <= k,
         Together(Onset(i), Onset(k))
  PROVE  Joined(opened.notes, i + 1, k + 1)
<1> DEFINE notes == opened.notes
<1>0. i \in Nat /\ k \in Nat /\ Notes = 0..(Len(notes) - 1) /\ Len(notes) \in Nat
  BY ScoreAt DEF Notes, Indices
<1>1. ASSUME NEW x \in Notes, i <= x, x <= k
      PROVE  /\ Onset(i) <= Onset(x) /\ Onset(x) <= Onset(k) /\ Onset(x) \in Nat
             /\ Weak(Onset(x))
             /\ Onset(x) < Onset(k) => \E y \in Notes : /\ Onset(x) < Onset(y)
                                                        /\ Onset(y) - Onset(x) <= MAX_GAP
  <2>1. Onset(i) <= Onset(x) /\ Onset(x) <= Onset(k) /\ Onset(x) \in Nat
    BY <1>1, NoteAt
  <2> QED
    BY <2>1 DEF Together
<1>2. ASSUME NEW x \in (i + 1)..(k + 1) PROVE Soft(notes, x)
  <2>1. PICK y \in Notes : y + 1 = x /\ i <= y /\ y <= k
    <3>1. x - 1 \in Notes /\ (x - 1) + 1 = x /\ i <= x - 1 /\ x - 1 <= k
      BY <1>0
    <3> QED
      BY <3>1
  <2>2. Weak(Onset(y))
    BY <1>1, <2>1
  <2> QED
    BY <2>1, <2>2, WeakIs
<1>3. ASSUME NEW x \in (i + 1)..((k + 1) - 1) PROVE Near(notes, x)
  <2>1. PICK y \in Notes : y + 1 = x /\ i <= y /\ y <= k /\ y + 1 \in Notes /\ y + 1 <= k /\ y \in Nat
    <3>1. x - 1 \in Notes /\ (x - 1) + 1 = x /\ i <= x - 1 /\ x - 1 <= k
          /\ (x - 1) + 1 \in Notes /\ (x - 1) + 1 <= k /\ x - 1 \in Nat
      BY <1>0
    <3> QED
      BY <3>1
  <2>2. /\ Onset(y) = notes[x].t /\ Onset(y + 1) = notes[x + 1].t
        /\ Onset(y) \in Nat /\ Onset(y + 1) \in Nat /\ Onset(y) <= Onset(y + 1)
    <3>1. Onset(y) = notes[y + 1].t /\ Onset(y + 1) = notes[(y + 1) + 1].t
      BY <2>1, NoteAt
    <3>2. Onset(y) \in Nat /\ Onset(y + 1) \in Nat /\ Onset(y) <= Onset(y + 1)
      BY <2>1, NoteAt
    <3> QED
      BY <2>1, <3>1, <3>2
  <2>3. Onset(y + 1) - Onset(y) <= MAX_GAP
    <3>1. CASE Onset(y) = Onset(y + 1)
      BY <2>2, <3>1, ConfidenceAssumption
    <3>2. CASE Onset(y) < Onset(y + 1)
      <4>1. Onset(y + 1) <= Onset(k) /\ Onset(k) \in Nat
        BY <2>1, NoteAt
      <4>2. Onset(y) < Onset(k)
        BY <2>2, <3>2, <4>1
      <4>3. PICK z \in Notes : Onset(y) < Onset(z) /\ Onset(z) - Onset(y) <= MAX_GAP
        BY <1>1, <2>1, <4>2
      <4>4. y < z /\ z \in Nat /\ Onset(z) \in Nat
        BY <4>3, NoteAt
      <4>5. y + 1 <= z
        BY <2>1, <4>4
      <4>6. Onset(y + 1) <= Onset(z)
        BY <2>1, <4>5, NoteAt
      <4> QED
        BY <2>2, <4>3, <4>4, <4>6, ConfidenceAssumption
    <3> QED
      BY <2>2, <3>1, <3>2
  <2> QED
    BY <2>2, <2>3 DEF Near
<1> QED
  BY <1>2, <1>3 DEF Joined

LEMMA JoinsTogether ==
  ASSUME Score(opened.notes), NEW i \in Notes, NEW k \in Notes, i <= k,
         Joined(opened.notes, i + 1, k + 1)
  PROVE  Together(Onset(i), Onset(k))
<1> DEFINE notes == opened.notes
<1>0. i \in Nat /\ k \in Nat /\ Notes = 0..(Len(notes) - 1) /\ Len(notes) \in Nat
      /\ Onset(i) \in Nat /\ Onset(k) \in Nat
  BY ScoreAt, NoteAt DEF Notes, Indices
<1>1. ASSUME NEW x \in Notes, i <= x, x <= k PROVE Weak(Onset(x))
  <2>1. x + 1 \in (i + 1)..(k + 1)
    BY <1>0, <1>1
  <2>2. Soft(notes, x + 1)
    BY <2>1 DEF Joined
  <2> QED
    BY <2>2, WeakIs
<1> SUFFICES ASSUME NEW x \in Notes, Onset(i) <= Onset(x), Onset(x) <= Onset(k)
             PROVE  /\ Weak(Onset(x))
                    /\ Onset(x) < Onset(k) =>
                         \E y \in Notes : /\ Onset(x) < Onset(y) /\ Onset(y) <= Onset(k)
                                          /\ Onset(y) - Onset(x) <= MAX_GAP
  BY DEF Together
<1>2. x \in Nat /\ Onset(x) \in Nat
  BY NoteAt
<1>3. Weak(Onset(x))
  <2>1. CASE x < i
    <3>1. Onset(x) <= Onset(i)
      BY <1>0, <1>2, <2>1, NoteAt
    <3>2. Onset(x) = Onset(i)
      BY <1>0, <1>2, <3>1
    <3>3. Weak(Onset(i))
      BY <1>0, <1>1
    <3> QED
      BY <3>2, <3>3
  <2>2. CASE k < x
    <3>1. Onset(k) <= Onset(x)
      BY <1>0, <1>2, <2>2, NoteAt
    <3>2. Onset(x) = Onset(k)
      BY <1>0, <1>2, <3>1
    <3>3. Weak(Onset(k))
      BY <1>0, <1>1
    <3> QED
      BY <3>2, <3>3
  <2>3. CASE i <= x /\ x <= k
    BY <1>1, <2>3
  <2> QED
    BY <1>0, <1>2, <2>1, <2>2, <2>3
<1>4. ASSUME Onset(x) < Onset(k)
      PROVE  \E y \in Notes : /\ Onset(x) < Onset(y) /\ Onset(y) <= Onset(k)
                              /\ Onset(y) - Onset(x) <= MAX_GAP
  <2> DEFINE S == {z \in Notes : Onset(x) < Onset(z)}
  <2>1. S \subseteq Nat /\ k \in S
    BY <1>0, <1>4
  <2>2. PICK y \in S : \A z \in S : y <= z
    <3> HIDE DEF S
    <3> QED
      BY <2>1, LeastOf
  <2>3. y \in Notes /\ Onset(x) < Onset(y) /\ y <= k /\ y \in Nat /\ Onset(y) \in Nat
    BY <1>0, <2>1, <2>2, NoteAt
  <2>4. x < y
    BY <2>3, NoteAt
  <2>5. Onset(y) <= Onset(k)
    BY <2>3, NoteAt
  <2>6. PICK z \in Notes : z + 1 = y /\ z \in Nat
    <3>1. y - 1 \in Notes /\ (y - 1) + 1 = y /\ y - 1 \in Nat
      BY <1>0, <1>2, <2>3, <2>4
    <3> QED
      BY <3>1
  <2>7. Onset(z) <= Onset(x) /\ Onset(z) \in Nat
    <3>1. z \notin S
      BY <2>2, <2>3, <2>6
    <3>2. Onset(z) \in Nat
      BY NoteAt
    <3> QED
      BY <1>2, <3>1, <3>2
  <2>8. Onset(x) <= Onset(z)
    <3>1. x <= z
      BY <1>2, <2>3, <2>4, <2>6
    <3> QED
      BY <3>1, NoteAt
  <2>9. i <= z
    <3> SUFFICES ASSUME z < i PROVE FALSE
      BY <1>0, <2>6
    <3>1. y <= i
      BY <1>0, <2>3, <2>6
    <3>2. Onset(y) <= Onset(i)
      BY <2>3, <3>1, NoteAt
    <3> QED
      BY <1>0, <1>2, <2>3, <3>2
  <2>10. y \in (i + 1)..((k + 1) - 1)
    BY <1>0, <2>3, <2>6, <2>9
  <2>11. Near(notes, y)
    BY <2>10 DEF Joined
  <2>12. Onset(y) = notes[y + 1].t /\ Onset(z) = notes[y].t
    BY <2>3, <2>6, NoteAt
  <2>13. Onset(y) - Onset(z) <= MAX_GAP
    BY <2>11, <2>12 DEF Near
  <2> QED
    BY <1>2, <2>3, <2>5, <2>7, <2>8, <2>13
<1> QED
  BY <1>3, <1>4

LEMMA TogetherIs ==
  ASSUME Score(opened.notes), NEW i \in Notes, NEW k \in Notes
  PROVE  Together(Min({Onset(i), Onset(k)}), Max({Onset(i), Onset(k)}))
           <=> k + 1 \in Group(opened.notes, i + 1)
<1>0. /\ i \in Nat /\ k \in Nat /\ Onset(i) \in Nat /\ Onset(k) \in Nat
      /\ i + 1 \in 1..Len(opened.notes) /\ k + 1 \in 1..Len(opened.notes)
  BY NoteAt
<1>1. /\ Min({Onset(i), Onset(k)}) = IF Onset(i) <= Onset(k) THEN Onset(i) ELSE Onset(k)
      /\ Max({Onset(i), Onset(k)}) = IF Onset(i) <= Onset(k) THEN Onset(k) ELSE Onset(i)
  BY <1>0, LesserIs, GreaterIs
<1>2. CASE i < k
  <2>1. Onset(i) <= Onset(k)
    BY <1>0, <1>2, NoteAt
  <2>2. k + 1 \in Group(opened.notes, i + 1) <=> Joined(opened.notes, i + 1, k + 1)
    BY <1>0, <1>2 DEF Group
  <2>3. Together(Onset(i), Onset(k)) <=> Joined(opened.notes, i + 1, k + 1)
    BY <1>0, <1>2, TogetherJoins, JoinsTogether
  <2> QED
    BY <1>1, <2>1, <2>2, <2>3
<1>3. CASE k <= i
  <2>1. Onset(k) <= Onset(i)
    BY <1>0, <1>3, NoteAt
  <2>2. k + 1 \in Group(opened.notes, i + 1) <=> Joined(opened.notes, k + 1, i + 1)
    <3>1. i + 1 <= k + 1 => i = k
      BY <1>0, <1>3
    <3> QED
      BY <1>0, <1>3, <3>1 DEF Group
  <2>3. Together(Onset(k), Onset(i)) <=> Joined(opened.notes, k + 1, i + 1)
    BY <1>0, <1>3, TogetherJoins, JoinsTogether
  <2>4. /\ Min({Onset(i), Onset(k)}) = Onset(k)
        /\ Max({Onset(i), Onset(k)}) = Onset(i)
    BY <1>0, <1>1, <2>1
  <2> QED
    BY <2>2, <2>3, <2>4
<1> QED
  BY <1>0, <1>2, <1>3

LEMMA UnclearIs ==
  ASSUME Score(opened.notes), NEW i \in Notes
  PROVE  Unclear(i) <=> Dim(opened.notes, i + 1)
<1> DEFINE notes == opened.notes
           run == {k \in Notes : Together(Min({Onset(i), Onset(k)}),
                                          Max({Onset(i), Onset(k)}))}
           group == Group(notes, i + 1)
           shift == [k \in run |-> k + 1]
<1>0. Len(notes) \in Nat /\ Notes = 0..(Len(notes) - 1)
  BY ScoreAt DEF Notes, Indices
<1>1. \A k \in Notes : k \in run <=> k + 1 \in group
  BY TogetherIs
<1>2. \A x \in group : x - 1 \in Notes /\ (x - 1) + 1 = x
  BY <1>0 DEF Group
<1>3. Unclear(i) <=> /\ Cardinality(run) >= MIN_RUN
                     /\ \E k \in run : End(notes, k) > Onset(i)
  BY DEF Unclear
<1>4. run \subseteq Notes
  <2> HIDE DEF group
  <2> QED
    OBVIOUS
<1> HIDE DEF run, group
<1>5. IsFiniteSet(run)
  <2>0. Len(notes) - 1 \in Int
    BY <1>0
  <2>1. PICK last \in Int : last = Len(notes) - 1
    BY <2>0, Zenon
  <2>2. PICK zero \in Int : zero = 0
    OBVIOUS
  <2>3. IsFiniteSet(zero..last)
    BY FS_Interval
  <2>4. IsFiniteSet(Notes)
    BY <1>0, <2>1, <2>2, <2>3
  <2> QED
    BY <1>4, <2>4, FS_Subset
<1>6. shift \in Bijection(run, group)
  <2>1. \A k \in run : k \in Int /\ k + 1 \in group
    BY <1>0, <1>1, <1>4
  <2>2. shift \in [run -> group]
    BY <2>1
  <2>3. \A x, y \in run : shift[x] = shift[y] => x = y
    BY <2>1
  <2>4. \A x \in group : \E k \in run : shift[k] = x
    <3> SUFFICES ASSUME NEW x \in group PROVE \E k \in run : shift[k] = x
      OBVIOUS
    <3>1. x - 1 \in run /\ (x - 1) + 1 = x
      BY <1>1, <1>2
    <3> QED
      BY <3>1
  <2> HIDE DEF shift
  <2> QED
    BY <2>2, <2>3, <2>4 DEF Bijection, Injection, Surjection, IsInjective
<1> HIDE DEF shift
<1>7. Cardinality(group) = Cardinality(run)
  <2>1. ExistsBijection(run, group)
    BY <1>6 DEF ExistsBijection
  <2> QED
    BY <1>5, <2>1, FS_Bijection
<1>8. \A k \in run : End(notes, k) > Onset(i) <=> Outlasts(notes, k + 1, i + 1)
  <2> SUFFICES ASSUME NEW k \in run
               PROVE  End(notes, k) > Onset(i) <=> Outlasts(notes, k + 1, i + 1)
    OBVIOUS
  <2>1. End(notes, k) = EndOf(notes[k + 1]) /\ Onset(i) = notes[i + 1].t
    BY <1>4, NoteAt
  <2> QED
    BY <2>1 DEF Outlasts, EndOf
<1>9. (\E k \in run : End(notes, k) > Onset(i)) <=> \E x \in group : Outlasts(notes, x, i + 1)
  <2>1. \A k \in run : k + 1 \in group
    BY <1>1, <1>4
  <2>2. \A x \in group : \E k \in run : k + 1 = x
    BY <1>1, <1>2
  <2> QED
    BY <1>8, <2>1, <2>2
<1> QED
  BY <1>3, <1>7, <1>9 DEF Dim, group

-----------------------------------------------------------------------------
(* The passages rise, and isHidden finds its own among those in a window.  *)
LEMMA ApartRises ==
  ASSUME NEW passages, Spaced(passages)
  PROVE  Stairs(passages)
<1> DEFINE Span == [t : Nat, dur : Nat]
           n == Len(passages)
<1>0. passages \in Seq(Span)
  BY DEF Spaced
<1>1. n \in Nat /\ DOMAIN passages = 1..n /\ \A p \in 1..n : passages[p] \in Span
  <2> HIDE DEF Span
  <2> QED
    BY <1>0
<1>2. \A p \in 1..n : /\ passages[p].t \in Nat /\ passages[p].dur \in Nat
                      /\ EndOf(passages[p]) \in Nat /\ passages[p].t <= EndOf(passages[p])
  BY <1>1 DEF EndOf
<1>3. ASSUME NEW p \in 1..n, NEW q \in 1..n, p < q
      PROVE  passages[p].t <= passages[q].t /\ EndOf(passages[p]) <= EndOf(passages[q])
  <2>1. EndOf(passages[p]) < passages[q].t
    BY <1>3 DEF Spaced
  <2> QED
    BY <1>2, <2>1
<1>4. Track(passages)
  BY <1>1, <1>2, <1>3 DEF Track
<1>5. ASSUME NEW i \in Indices(passages), NEW k \in Indices(passages), i <= k
      PROVE  End(passages, i) <= End(passages, k)
  <2>1. /\ i \in 0..(n - 1) /\ k \in 0..(n - 1)
        /\ End(passages, i) = EndOf(passages[i + 1]) /\ End(passages, k) = EndOf(passages[k + 1])
    BY DEF Indices, End, EndOf, Nth
  <2>2. i + 1 \in 1..n /\ k + 1 \in 1..n
    BY <1>1, <2>1
  <2>3. CASE i = k
    BY <1>2, <2>1, <2>2, <2>3
  <2>4. CASE i # k
    <3>1. i + 1 < k + 1
      BY <1>5, <2>1, <2>4
    <3> QED
      BY <1>3, <2>1, <2>2, <3>1
  <2> QED
    BY <2>3, <2>4
<1> QED
  BY <1>4, <1>5 DEF Stairs

LEMMA HiddenIn ==
  ASSUME NEW passages, Spaced(passages), NEW since \in Int, NEW to \in Int, NEW t \in Int,
         since <= t, t <= to
  PROVE  isHidden(passages, inWindow(passages, since, to), t) <=> Covers(passages, t)
<1>1. Stairs(passages) /\ Track(passages)
  BY ApartRises DEF Stairs
<1>2. inWindow(passages, since, to) = Overlapping(passages, since, to)
  BY <1>1, InWindowIs
<1>3. /\ Len(passages) \in Nat
      /\ \A i \in Indices(passages) :
           /\ i + 1 \in 1..Len(passages)
           /\ Nth(passages, i) = passages[i + 1]
           /\ End(passages, i) = EndOf(passages[i + 1])
           /\ Nth(passages, i).t \in Nat /\ End(passages, i) \in Nat
  <2>1. Len(passages) \in Nat
    BY <1>1 DEF Track
  <2>2. \A i \in Indices(passages) : End(passages, i) = EndOf(passages[i + 1])
    BY DEF End, EndOf, Nth
  <2> QED
    BY <1>1, <2>1, <2>2, TrackAt
<1>4. ASSUME isHidden(passages, inWindow(passages, since, to), t)
      PROVE  Covers(passages, t)
  <2>1. PICK i \in Overlapping(passages, since, to) :
          Nth(passages, i).t <= t /\ t < End(passages, i)
    BY <1>2, <1>4 DEF isHidden
  <2>2. i \in Indices(passages)
    BY DEF Overlapping
  <2> QED
    BY <1>3, <2>1, <2>2 DEF Covers
<1>5. ASSUME Covers(passages, t)
      PROVE  isHidden(passages, inWindow(passages, since, to), t)
  <2>1. PICK p \in 1..Len(passages) : passages[p].t <= t /\ t < EndOf(passages[p])
    BY <1>5 DEF Covers
  <2>2. PICK i \in Indices(passages) : i + 1 = p
    <3>1. p - 1 \in Indices(passages) /\ (p - 1) + 1 = p
      BY <1>3 DEF Indices
    <3> QED
      BY <3>1
  <2>3. Nth(passages, i).t <= t /\ t < End(passages, i)
        /\ Nth(passages, i).t \in Nat /\ End(passages, i) \in Nat
    BY <1>3, <2>1, <2>2
  <2>4. i \in Overlapping(passages, since, to)
    BY <2>3 DEF Overlapping
  <2> QED
    BY <1>2, <2>3, <2>4 DEF isHidden
<1> QED
  BY <1>4, <1>5

(* The earliest of the onsets that are read.                               *)
LEMMA SinceIs ==
  ASSUME NEW notes, Track(notes), NEW found, found \subseteq Indices(notes), NEW from \in Int
  PROVE  /\ Since(notes, found, from) \in Int
         /\ Since(notes, found, from) <= from
         /\ \A i \in found : Since(notes, found, from) <= Nth(notes, i).t
<1> DEFINE onset == [i \in found |-> Nth(notes, i).t]
           T == {onset[i] : i \in found}
           S == {from} \cup T
<1>0. Len(notes) \in Nat /\ Indices(notes) = 0..(Len(notes) - 1)
  BY DEF Track, Indices
<1>1. \A i \in found : Nth(notes, i).t \in Nat
  BY TrackAt
<1>2. S = {from} \cup {Nth(notes, i).t : i \in found}
  OBVIOUS
<1>3. IsFiniteSet(found)
  <2>0. Len(notes) - 1 \in Int
    BY <1>0
  <2>1. PICK last \in Int : last = Len(notes) - 1
    BY <2>0, Zenon
  <2>2. PICK zero \in Int : zero = 0
    OBVIOUS
  <2>3. IsFiniteSet(zero..last)
    BY FS_Interval
  <2>4. IsFiniteSet(Indices(notes))
    BY <1>0, <2>1, <2>2, <2>3
  <2> QED
    BY <2>4, FS_Subset
<1>4. \A i \in found : onset[i] = Nth(notes, i).t
  OBVIOUS
<1> HIDE DEF onset
<1>5. IsFiniteSet(T)
  BY <1>3, ImageFinite
<1>6. T \subseteq Int
  BY <1>1, <1>4
<1>7. \A i \in found : Nth(notes, i).t \in T
  BY <1>4
<1> HIDE DEF T
<1>8. IsFiniteSet(S) /\ S \subseteq Int /\ S # {} /\ from \in S
      /\ \A i \in found : Nth(notes, i).t \in S
  <2>1. IsFiniteSet({from})
    BY FS_Singleton
  <2>2. IsFiniteSet({from} \cup T)
    BY <1>5, <2>1, FS_Union
  <2> QED
    BY <1>6, <1>7, <2>2
<1> HIDE DEF S
<1>9. PICK i \in S : \A x \in S : i <= x
  BY <1>8, FiniteLeast
<1>10. Min(S) \in S /\ \A x \in S : Min(S) =< x
  BY <1>9, Zenon DEF Min
<1>11. Since(notes, found, from) = Min(S)
  BY <1>2 DEF Since
<1> QED
  BY <1>8, <1>10, <1>11

-----------------------------------------------------------------------------
(* What buildSong makes of a document.                                     *)
SongRight(song) ==
  /\ Score(song.notes) /\ Track(song.chords)
  /\ Spaced(song.hidden)
  /\ \A j \in 1..Len(song.notes) :
       Covers(song.hidden, song.notes[j].t) <=> Dim(song.notes, j)

LEMMA BuiltRight ==
  ASSUME NEW doc \in Docs
  PROVE  SongRight(buildSong(doc))
<1> DEFINE Early == {note \in NoteSet : note.t < PositiveInfinity}
           Span == [t : Nat, dur : Nat]
           notes == byOnset(doc.notes)
           chords == byOnset(doc.chords)
           song == buildSong(doc)
<1>1. doc \in Documents
  BY ViewsAssumption
<1>2. doc.notes \in Seq(NoteSet) /\ doc.chords \in Seq(Span)
  BY <1>1 DEF Documents, NoteSet
<1>3. doc.notes \in Seq(Early)
  <2>1. ASSUME NEW i \in DOMAIN doc.notes PROVE doc.notes[i] \in Early
    <3>1. doc.notes[i] \in NoteSet
      <4> HIDE DEF NoteSet
      <4> QED
        BY <1>2
    <3>2. doc.notes[i].t + doc.notes[i].dur < PositiveInfinity
      BY <1>1 DEF Documents
    <3>3. doc.notes[i].t \in Nat /\ doc.notes[i].dur \in Nat
      BY <3>1 DEF NoteSet
    <3>4. doc.notes[i].t < PositiveInfinity
      BY <3>2, <3>3, CursorAssumption
    <3> QED
      BY <3>1, <3>4
  <2> HIDE DEF NoteSet, Early
  <2> QED
    BY <1>2, <2>1
<1>4. Spans(Early) /\ Spans(Span)
  BY DEF Spans, NoteSet
<1>5. notes \in Seq(Early) /\ Track(notes)
  <2> HIDE DEF Early
  <2> QED
    BY <1>3, <1>4, ByOnsetIs
<1>6. Track(chords)
  <2> HIDE DEF Span
  <2> QED
    BY <1>2, <1>4, ByOnsetIs
<1>7. Score(notes)
  <2>1. \A i \in 1..Len(notes) : notes[i] \in Early
    <3> HIDE DEF Early, notes
    <3> QED
      BY <1>5
  <2>2. notes \in Seq(NoteSet)
    <3>1. Early \subseteq NoteSet
      OBVIOUS
    <3> HIDE DEF Early, NoteSet, notes
    <3> QED
      BY <1>5, <3>1
  <2> HIDE DEF notes
  <2> QED
    BY <1>5, <2>1, <2>2 DEF Score
<1>8. song.notes = notes /\ song.chords = chords /\ song.hidden = hiddenPassages(notes)
  BY DEF buildSong
<1> HIDE DEF notes, chords, song
<1>9. Told(notes, song.hidden, Len(notes) + 1)
  BY <1>7, <1>8, HiddenTold
<1>10. /\ Spaced(song.hidden)
       /\ \A j \in 1..Len(notes) : Covers(song.hidden, notes[j].t) <=> Dim(notes, j)
  <2>1. Len(notes) \in Nat
    BY <1>7, ScoreAt
  <2>2. (Len(notes) + 1) - 1 = Len(notes)
    BY <2>1
  <2> QED
    BY <1>9, <2>2 DEF Told
<1>11. SongRight(song)
  BY <1>6, <1>7, <1>8, <1>10 DEF SongRight
<1> QED
  BY <1>11 DEF song

-----------------------------------------------------------------------------
(* The cursors of a frame.                                                 *)
CursorsUsable(at, song) ==
  /\ Usable(at.strip, song.notes) /\ Usable(at.stripChords, song.chords)
  /\ Usable(at.guitar, song.notes) /\ Usable(at.guitarChords, song.chords)
  /\ Usable(at.lane, song.chords)

LEMMA NewCursorsUsable ==
  ASSUME NEW song, SongRight(song)
  PROVE  CursorsUsable(NewCursors, song)
<1>1. Track(song.notes) /\ Track(song.chords)
  BY DEF SongRight, Score
<1>2. /\ NewCursors.strip = NewCursor /\ NewCursors.stripChords = NewCursor
      /\ NewCursors.guitar = NewCursor /\ NewCursors.guitarChords = NewCursor
      /\ NewCursors.lane = NewCursor
  BY DEF NewCursors
<1> QED
  BY <1>1, <1>2, NewUsable DEF CursorsUsable

LEMMA WindowIs ==
  ASSUME NEW wide \in Nat, NEW time \in Int
  PROVE  /\ Behind(wide) \in Nat /\ Behind(wide) <= wide
         /\ time - Behind(wide) \in Int /\ time - Behind(wide) + wide \in Int
         /\ time - Behind(wide) <= time /\ time <= time - Behind(wide) + wide
<1>1. wide \div 5 \in Nat /\ wide \div 5 <= wide
  OBVIOUS
<1> QED
  BY <1>1 DEF Behind

(* The passages that the guitar reads.                                     *)
NearPlayed(song, found, time) ==
  inWindow(song.hidden, Since(song.notes, found, time), time)

LEMMA CursorsAtIs ==
  ASSUME SongRight(opened), NEW was, CursorsUsable(was, opened),
         NEW time \in Int, NEW wide \in Nat, NEW at, at = CursorsAt(was, time, wide)
  PROVE  /\ CursorsUsable(at, opened)
         /\ Found(at.strip, opened.notes)
              = Overlapping(opened.notes, time - Behind(wide), time - Behind(wide) + wide)
         /\ Found(at.stripChords, opened.chords)
              = Overlapping(opened.chords, time - Behind(wide), time - Behind(wide) + wide)
         /\ Found(at.guitar, opened.notes)
              = Overlapping(opened.notes, time - MIN_LIT, time)
         /\ opened.notes # <<>>
            /\ isHidden(opened.hidden,
                        NearPlayed(opened, Found(at.guitar, opened.notes), time), time)
              => Found(at.guitarChords, opened.chords) = Overlapping(opened.chords, time, time)
<1> DEFINE from == time - Behind(wide)
           to == from + wide
           played == Moved(was.guitar, opened.notes, time - MIN_LIT, time)
           empty == opened.notes = <<>>
           hidden == isHidden(opened.hidden,
                              NearPlayed(opened, Found(played, opened.notes), time), time)
<1>1. Track(opened.notes) /\ Track(opened.chords)
  BY DEF SongRight, Score
<1>2. from \in Int /\ to \in Int /\ time - MIN_LIT \in Int
  BY WindowIs, ViewsAssumption
<1>3. /\ Usable(was.strip, opened.notes) /\ Usable(was.stripChords, opened.chords)
      /\ Usable(was.guitar, opened.notes) /\ Usable(was.guitarChords, opened.chords)
      /\ Usable(was.lane, opened.chords)
  BY DEF CursorsUsable
<1>4. /\ at.strip = Moved(was.strip, opened.notes, from, to)
      /\ at.stripChords = Moved(was.stripChords, opened.chords, from, to)
      /\ at.guitar = IF empty THEN was.guitar ELSE played
      /\ at.guitarChords = IF ~empty /\ hidden
                           THEN Moved(was.guitarChords, opened.chords, time, time)
                           ELSE was.guitarChords
      /\ at.lane = Moved(was.lane, opened.chords, time, time)
  BY DEF CursorsAt, NearPlayed
<1> HIDE DEF from, to
<1>5. /\ Found(at.strip, opened.notes) = Overlapping(opened.notes, from, to)
      /\ Usable(at.strip, opened.notes)
  BY <1>1, <1>2, <1>3, <1>4, ReadIs
<1>6. /\ Found(at.stripChords, opened.chords) = Overlapping(opened.chords, from, to)
      /\ Usable(at.stripChords, opened.chords)
  BY <1>1, <1>2, <1>3, <1>4, ReadIs
<1>7. /\ Found(played, opened.notes) = Overlapping(opened.notes, time - MIN_LIT, time)
      /\ Usable(played, opened.notes)
  BY <1>1, <1>2, <1>3, ReadIs
<1>8. Usable(at.lane, opened.chords)
  BY <1>1, <1>3, <1>4, ReadIs
<1>9. LET asked == Moved(was.guitarChords, opened.chords, time, time)
      IN  /\ Found(asked, opened.chords) = Overlapping(opened.chords, time, time)
          /\ Usable(asked, opened.chords)
  BY <1>1, <1>3, ReadIs
<1> HIDE DEF hidden, played
<1>10. /\ Found(at.guitar, opened.notes) = Overlapping(opened.notes, time - MIN_LIT, time)
       /\ Usable(at.guitar, opened.notes)
  <2>1. CASE empty
    <3>1. at.guitar = was.guitar
      BY <1>4, <2>1
    <3>2. Len(opened.notes) = 0 /\ Indices(opened.notes) = {}
      BY <2>1 DEF Indices
    <3>3. was.guitar.lo = 0 /\ was.guitar.hi = 0
      BY <1>3, <3>2 DEF Usable
    <3>4. Found(was.guitar, opened.notes) = {}
      BY <3>3 DEF Found
    <3>5. Overlapping(opened.notes, time - MIN_LIT, time) = {}
      BY <3>2 DEF Overlapping
    <3> QED
      BY <1>3, <3>1, <3>4, <3>5
  <2>2. CASE ~empty
    BY <1>4, <1>7, <2>2
  <2> QED
    BY <2>1, <2>2
<1>11. Usable(at.guitarChords, opened.chords)
  <2>1. CASE ~empty /\ hidden
    BY <1>4, <1>9, <2>1
  <2>2. CASE ~(~empty /\ hidden)
    BY <1>3, <1>4, <2>2
  <2> QED
    BY <2>1, <2>2
<1>12. ASSUME ~empty, isHidden(opened.hidden,
                               NearPlayed(opened, Found(at.guitar, opened.notes), time), time)
       PROVE  Found(at.guitarChords, opened.chords) = Overlapping(opened.chords, time, time)
  <2>1. at.guitar = played
    BY <1>4, <1>12
  <2>2. hidden
    BY <1>12, <2>1 DEF hidden
  <2> QED
    BY <1>4, <1>9, <1>12, <2>2
<1> QED
  BY <1>3, <1>5, <1>6, <1>8, <1>10, <1>11, <1>12 DEF CursorsUsable, from, to

-----------------------------------------------------------------------------
(* What ViewsRight says, of a song and of what is drawn of it.             *)
Clear(notes) == {i \in Indices(notes) : ~Dim(notes, i + 1)}

SameString(notes, i, k) == Nth(notes, k).string = Nth(notes, i).string

LitAt(notes, i, time) ==
  /\ Nth(notes, i).t <= time /\ time <= Held(Nth(notes, i))
  /\ OnNeck(Nth(notes, i))
  /\ \A k \in Indices(notes) :
       k > i /\ SameString(notes, i, k) =>
         \/ Nth(notes, k).t > time
         \/ Nth(notes, k).t = time /\ Dim(notes, k + 1)

StripRight(song, wide, shows) ==
  LET from == shows.now - Behind(wide)
      to == from + wide
  IN  /\ shows.notes = {i \in Overlapping(song.notes, from, to) \cap Clear(song.notes) :
                          Nth(song.notes, i).string \in StringsDrawn}
      /\ shows.chords = Overlapping(song.chords, from, to)
      /\ shows.bands = Overlapping(song.hidden, from, to)

GuitarRight(song, time, neck) ==
  neck.notes = {i \in Clear(song.notes) : LitAt(song.notes, i, time)}

LaneRight(song, time, followed) ==
  /\ followed.current = Latest(Overlapping(song.chords, time, time))
  /\ followed.next = Cardinality({i \in Indices(song.chords) : Nth(song.chords, i).t <= time})

MessageRight(song, time, shows, neck, followed) ==
  neck.message \in {"chord", "unclear"} =>
    /\ neck.chord = followed.current
    /\ \E p \in shows.bands : Nth(song.hidden, p).t <= time /\ time < End(song.hidden, p)

RightFor(song, wide, shows, neck, followed) ==
  /\ StripRight(song, wide, shows)
  /\ GuitarRight(song, shows.now, neck) /\ neck.notes \subseteq shows.notes
  /\ LaneRight(song, shows.now, followed)
  /\ MessageRight(song, shows.now, shows, neck, followed)

LEMMA RightIs ==
  ASSUME SongRight(opened), RightFor(opened, width, strip, guitar, lane)
  PROVE  ViewsRight
<1> DEFINE time == strip.now
           from == time - Behind(width)
           to == from + width
           notes == opened.notes
           clear == {i \in Notes : ~Unclear(i)}
           lit(i) == /\ Onset(i) <= time /\ time <= Held(Nth(opened.notes, i))
                     /\ OnNeck(Nth(opened.notes, i))
                     /\ \A k \in Notes :
                          k > i /\ Nth(opened.notes, k).string = Nth(opened.notes, i).string =>
                            \/ Onset(k) > time
                            \/ Onset(k) = time /\ Unclear(k)
<1>0. Score(opened.notes)
  BY DEF SongRight
<1>1. \A i \in Notes : Unclear(i) <=> Dim(notes, i + 1)
  BY <1>0, UnclearIs
<1>2. clear = Clear(notes)
  BY <1>1 DEF Clear, Notes
<1>3. \A i \in Notes : lit(i) <=> LitAt(notes, i, time)
  <2> SUFFICES ASSUME NEW i \in Notes PROVE lit(i) <=> LitAt(notes, i, time)
    OBVIOUS
  <2>1. (\A k \in Notes :
           k > i /\ Nth(opened.notes, k).string = Nth(opened.notes, i).string =>
             \/ Onset(k) > time
             \/ Onset(k) = time /\ Unclear(k))
        <=> (\A k \in Indices(notes) :
               k > i /\ SameString(notes, i, k) =>
                 \/ Nth(notes, k).t > time
                 \/ Nth(notes, k).t = time /\ Dim(notes, k + 1))
    BY <1>1, Zenon DEF Notes, Onset, SameString
  <2> QED
    BY <2>1 DEF LitAt, Onset
<1>4. {i \in clear : lit(i)} = {i \in Clear(notes) : LitAt(notes, i, time)}
  <2>1. \A i \in clear : i \in Notes
    OBVIOUS
  <2> HIDE DEF lit, clear
  <2> QED
    BY <1>2, <1>3, <2>1
<1>5. /\ strip.notes = {i \in Overlapping(notes, from, to) \cap Clear(notes) :
                          Nth(notes, i).string \in StringsDrawn}
      /\ strip.chords = Overlapping(opened.chords, from, to)
      /\ strip.bands = Overlapping(opened.hidden, from, to)
  BY DEF RightFor, StripRight
<1>6. guitar.notes = {i \in Clear(notes) : LitAt(notes, i, time)} /\ guitar.notes \subseteq strip.notes
  BY DEF RightFor, GuitarRight
<1>7. /\ lane.current = Latest(Overlapping(opened.chords, time, time))
      /\ lane.next = Cardinality({i \in Indices(opened.chords) : Nth(opened.chords, i).t <= time})
  BY DEF RightFor, LaneRight
<1>8. guitar.message \in {"chord", "unclear"} =>
        /\ guitar.chord = lane.current
        /\ \E p \in strip.bands : /\ Nth(opened.hidden, p).t <= time
                                  /\ time < End(opened.hidden, p)
  BY DEF RightFor, MessageRight
<1>9. /\ strip.notes = {i \in Overlapping(notes, from, to) \cap clear :
                          Nth(notes, i).string \in StringsDrawn}
      /\ guitar.notes = {i \in clear : lit(i)}
  <2> HIDE DEF clear, lit
  <2> QED
    BY <1>2, <1>4, <1>5, <1>6
<1> QED
  BY <1>5, <1>6, <1>7, <1>8, <1>9 DEF ViewsRight

-----------------------------------------------------------------------------
(* The strip as it is drawn.                                               *)
LEMMA HiddenNote ==
  ASSUME NEW song, SongRight(song), NEW i \in Indices(song.notes),
         NEW since \in Int, NEW to \in Int,
         since <= Nth(song.notes, i).t, Nth(song.notes, i).t <= to
  PROVE  isHidden(song.hidden, inWindow(song.hidden, since, to), Nth(song.notes, i).t)
           <=> Dim(song.notes, i + 1)
<1>1. Track(song.notes) /\ Spaced(song.hidden)
  BY DEF SongRight, Score
<1>2. /\ i + 1 \in 1..Len(song.notes) /\ Nth(song.notes, i) = song.notes[i + 1]
      /\ Nth(song.notes, i).t \in Nat
  BY <1>1, TrackAt
<1>3. Covers(song.hidden, song.notes[i + 1].t) <=> Dim(song.notes, i + 1)
  BY <1>2 DEF SongRight
<1>4. isHidden(song.hidden, inWindow(song.hidden, since, to), Nth(song.notes, i).t)
        <=> Covers(song.hidden, Nth(song.notes, i).t)
  BY <1>1, <1>2, HiddenIn
<1> QED
  BY <1>2, <1>3, <1>4

LEMMA LayoutRight ==
  ASSUME SongRight(opened), NEW was, CursorsUsable(was, opened),
         NEW time \in Int, NEW wide \in Nat, NEW at, at = CursorsAt(was, time, wide),
         NEW shows, shows = layout(at, time, wide)
  PROVE  StripRight(opened, wide, shows) /\ shows.now = time
<1> DEFINE from == time - Behind(wide)
           to == from + wide
           notes == Overlapping(opened.notes, from, to)
           since == Since(opened.notes, notes, from)
           near == inWindow(opened.hidden, since, to)
<1>0. from \in Int /\ to \in Int /\ from <= time /\ time <= to
  BY WindowIs
<1>1. /\ Found(at.strip, opened.notes) = notes
      /\ Found(at.stripChords, opened.chords) = Overlapping(opened.chords, from, to)
  BY CursorsAtIs
<1>2. Track(opened.notes) /\ Spaced(opened.hidden)
  BY DEF SongRight, Score
<1>3. inWindow(opened.hidden, from, to) = Overlapping(opened.hidden, from, to)
  <2> HIDE DEF from, to
  <2> QED
    BY <1>0, <1>2, ApartRises, InWindowIs
<1>4. /\ shows.now = time
      /\ shows.notes = {i \in notes :
                          /\ Nth(opened.notes, i).string \in StringsDrawn
                          /\ ~isHidden(opened.hidden, near, Nth(opened.notes, i).t)}
      /\ shows.chords = Overlapping(opened.chords, from, to)
      /\ shows.bands = Overlapping(opened.hidden, from, to)
  <2>1. /\ shows.now = time
        /\ shows.notes = {i \in Found(at.strip, opened.notes) :
                            /\ Nth(opened.notes, i).string \in StringsDrawn
                            /\ ~isHidden(opened.hidden,
                                         inWindow(opened.hidden,
                                                  Since(opened.notes,
                                                        Found(at.strip, opened.notes), from),
                                                  to),
                                         Nth(opened.notes, i).t)}
        /\ shows.chords = Found(at.stripChords, opened.chords)
        /\ shows.bands = inWindow(opened.hidden, from, to)
    BY DEF layout
  <2> HIDE DEF from, to, notes
  <2> QED
    BY <1>1, <1>3, <2>1
<1>5. ASSUME NEW i \in notes
      PROVE  /\ i \in Indices(opened.notes)
             /\ isHidden(opened.hidden, near, Nth(opened.notes, i).t)
                  <=> Dim(opened.notes, i + 1)
  <2>1. /\ i \in Indices(opened.notes)
        /\ Nth(opened.notes, i).t <= to
    BY DEF Overlapping
  <2>2. notes \subseteq Indices(opened.notes)
    BY DEF Overlapping
  <2> HIDE DEF from, to, notes
  <2>3. since \in Int /\ since <= Nth(opened.notes, i).t
    BY <1>0, <1>2, <2>2, SinceIs
  <2> HIDE DEF since
  <2> QED
    BY <1>0, <2>1, <2>3, HiddenNote
<1>6. shows.notes = {i \in notes \cap Clear(opened.notes) :
                       Nth(opened.notes, i).string \in StringsDrawn}
  <2> HIDE DEF notes, near
  <2> QED
    BY <1>4, <1>5 DEF Clear
<1> QED
  BY <1>4, <1>6 DEF StripRight

-----------------------------------------------------------------------------
(* The guitar as it is drawn.                                              *)
LEMMA HeldIs ==
  ASSUME NEW notes, Track(notes), NEW i \in Indices(notes)
  PROVE  /\ Held(Nth(notes, i)) \in Nat
         /\ Nth(notes, i).t <= Held(Nth(notes, i))
         /\ Held(Nth(notes, i)) <= End(notes, i) + MIN_LIT
<1>1. /\ Nth(notes, i).t \in Nat /\ Nth(notes, i).dur \in Nat
      /\ End(notes, i) = Nth(notes, i).t + Nth(notes, i).dur
  BY TrackAt
<1>2. MIN_LIT \in Nat
  BY ViewsAssumption
<1>3. Max({Nth(notes, i).dur, MIN_LIT})
        = IF Nth(notes, i).dur <= MIN_LIT THEN MIN_LIT ELSE Nth(notes, i).dur
  BY <1>1, <1>2, GreaterIs
<1> QED
  BY <1>1, <1>2, <1>3 DEF Held

LEMMA LitUntilIs ==
  ASSUME NEW notes, Track(notes), NEW i \in Indices(notes), NEW time \in Int
  PROVE  time <= litUntil(notes, i)
           <=> /\ time <= Held(Nth(notes, i))
               /\ \A k \in Indices(notes) : k > i /\ SameString(notes, i, k) =>
                                              time <= Nth(notes, k).t
<1> DEFINE later == {k \in Indices(notes) : k > i /\ SameString(notes, i, k)}
           held == Held(Nth(notes, i))
<1>1. litUntil(notes, i) = IF later = {} THEN held ELSE Min({held, Nth(notes, Min(later)).t})
  BY DEF litUntil, SameString
<1>2. held \in Nat
  BY HeldIs
<1>3. \A k \in Indices(notes) : k > i /\ SameString(notes, i, k) <=> k \in later
  OBVIOUS
<1>4. later \subseteq Indices(notes) /\ \A k \in Indices(notes) : k \in Nat
  BY DEF Indices
<1> HIDE DEF later, held
<1>5. CASE later = {}
  BY <1>1, <1>3, <1>5 DEF held
<1>6. CASE later # {}
  <2>1. Min(later) \in later /\ \A k \in later : Min(later) <= k
    BY <1>4, <1>6, LeastIs
  <2> DEFINE m == Min(later)
  <2> HIDE DEF m
  <2>2. m \in later /\ m \in Indices(notes) /\ \A k \in later : m <= k
    BY <1>4, <2>1 DEF m
  <2>3. Nth(notes, m).t \in Nat
    BY <2>2, TrackAt
  <2>4. \A k \in later : Nth(notes, m).t <= Nth(notes, k).t /\ Nth(notes, k).t \in Nat
    BY <1>4, <2>2, TrackAt
  <2>5. litUntil(notes, i) = IF held <= Nth(notes, m).t THEN held ELSE Nth(notes, m).t
    BY <1>1, <1>2, <1>6, <2>3, LesserIs DEF m
  <2>6. time <= litUntil(notes, i) <=> time <= held /\ time <= Nth(notes, m).t
    BY <1>2, <2>3, <2>5
  <2>7. time <= Nth(notes, m).t <=> \A k \in later : time <= Nth(notes, k).t
    BY <2>2, <2>3, <2>4
  <2> QED
    BY <1>3, <1>4, <2>6, <2>7 DEF held
<1> QED
  BY <1>5, <1>6

LEMMA SoundingRight ==
  ASSUME SongRight(opened), NEW was, CursorsUsable(was, opened),
         NEW time \in Int, NEW wide \in Nat, NEW at, at = CursorsAt(was, time, wide),
         NEW neck, neck = sounding(at, time)
  PROVE  /\ GuitarRight(opened, time, neck)
         /\ neck.message \in {"chord", "unclear"} =>
              /\ neck.chord = Latest(Overlapping(opened.chords, time, time))
              /\ Covers(opened.hidden, time)
<1> DEFINE notes == opened.notes
           found == Overlapping(notes, time - MIN_LIT, time)
           near == NearPlayed(opened, found, time)
           since == Since(notes, found, time)
           note(i) == Nth(notes, i)
           open == {i \in found : /\ OnNeck(note(i))
                                  /\ ~isHidden(opened.hidden, near, note(i).t)
                                  /\ note(i).t <= time /\ time <= litUntil(notes, i)}
<1>0. Track(notes) /\ Spaced(opened.hidden) /\ Score(notes)
  BY DEF SongRight, Score
<1>1. /\ Found(at.guitar, notes) = found
      /\ notes # <<>> /\ isHidden(opened.hidden, near, time)
           => Found(at.guitarChords, opened.chords) = Overlapping(opened.chords, time, time)
  BY CursorsAtIs
<1>2. /\ neck.notes = {i \in open : \A k \in open :
                         Nth(notes, k).string = Nth(notes, i).string => k <= i}
      /\ neck.message = CASE notes = <<>> -> "no notes"
                          [] ~(notes = <<>>) /\ isHidden(opened.hidden, near, time)
                             /\ Latest(Found(at.guitarChords, opened.chords)) = -1 -> "unclear"
                          [] ~(notes = <<>>) /\ isHidden(opened.hidden, near, time)
                             /\ Latest(Found(at.guitarChords, opened.chords)) # -1 -> "chord"
                          [] OTHER -> "none"
      /\ neck.chord = IF isHidden(opened.hidden, near, time) /\ ~(notes = <<>>)
                      THEN Latest(Found(at.guitarChords, opened.chords)) ELSE -1
  <2> HIDE DEF found
  <2> QED
    BY <1>1 DEF sounding, NearPlayed
<1>3. found \subseteq Indices(notes)
  BY DEF Overlapping
<1>4. since \in Int /\ since <= time /\ \A i \in found : since <= note(i).t
  <2> HIDE DEF found
  <2> QED
    BY <1>0, <1>3, SinceIs
<1>5. MIN_LIT \in Nat
  BY ViewsAssumption
<1>6. ASSUME NEW i \in Indices(notes)
      PROVE  /\ i \in Nat /\ note(i).t \in Nat /\ End(notes, i) \in Nat
             /\ End(notes, i) >= note(i).t
             /\ Held(note(i)) \in Nat /\ note(i).t <= Held(note(i))
             /\ Held(note(i)) <= End(notes, i) + MIN_LIT
  <2>1. /\ i \in Nat /\ note(i).t \in Nat /\ note(i).dur \in Nat
        /\ End(notes, i) = note(i).t + note(i).dur
    BY <1>0, TrackAt
  <2>2. /\ Held(note(i)) \in Nat /\ note(i).t <= Held(note(i))
        /\ Held(note(i)) <= End(notes, i) + MIN_LIT
    BY <1>0, HeldIs
  <2> QED
    BY <2>1, <2>2
<1>7. ASSUME NEW i \in found
      PROVE  note(i).t <= time /\
             (isHidden(opened.hidden, near, note(i).t) <=> Dim(notes, i + 1))
  <2>1. i \in Indices(notes) /\ note(i).t <= time
    BY DEF Overlapping
  <2>2. since <= note(i).t
    BY <1>4
  <2> HIDE DEF since, found
  <2>3. near = inWindow(opened.hidden, since, time)
    BY DEF NearPlayed, since
  <2> QED
    BY <1>4, <2>1, <2>2, <2>3, HiddenNote
<1> HIDE DEF near, since
<1>8. \A i \in Indices(notes) : i \in found <=> note(i).t <= time /\ End(notes, i) >= time - MIN_LIT
  BY DEF Overlapping
<1> HIDE DEF found
<1>9. \A i \in Indices(notes) :
        i \in open <=> /\ i \in found /\ OnNeck(note(i)) /\ ~Dim(notes, i + 1)
                       /\ time <= litUntil(notes, i)
  BY <1>7
<1>10. open \subseteq Indices(notes)
  BY <1>3
<1> HIDE DEF open
<1>11. ASSUME NEW i \in Indices(notes)
       PROVE  time <= litUntil(notes, i)
                <=> /\ time <= Held(note(i))
                    /\ \A k \in Indices(notes) : k > i /\ SameString(notes, i, k) =>
                                                   time <= note(k).t
  BY <1>0, LitUntilIs
<1>12. ASSUME NEW i \in Clear(notes), LitAt(notes, i, time)
       PROVE  i \in neck.notes
  <2>1. i \in Indices(notes) /\ ~Dim(notes, i + 1)
    BY DEF Clear
  <2>2. /\ note(i).t <= time /\ time <= Held(note(i)) /\ OnNeck(note(i))
        /\ \A k \in Indices(notes) :
             k > i /\ SameString(notes, i, k) =>
               \/ note(k).t > time
               \/ note(k).t = time /\ Dim(notes, k + 1)
    BY <1>12 DEF LitAt
  <2>3. i \in found
    <3>1. End(notes, i) >= time - MIN_LIT
      <4>1. End(notes, i) \in Nat /\ Held(note(i)) \in Nat
            /\ Held(note(i)) <= End(notes, i) + MIN_LIT
        BY <1>6, <2>1
      <4>2. time <= Held(note(i))
        BY <2>2
      <4> HIDE DEF note
      <4> QED
        BY <1>5, <4>1, <4>2
    <3> QED
      BY <1>8, <2>1, <2>2, <3>1
  <2>4. time <= litUntil(notes, i)
    <3>1. ASSUME NEW k \in Indices(notes), k > i, SameString(notes, i, k)
          PROVE  time <= note(k).t
      <4>1. note(k).t > time \/ note(k).t = time
        BY <2>2, <3>1
      <4>2. note(k).t \in Nat
        BY <1>6
      <4> QED
        BY <4>1, <4>2
    <3> QED
      BY <1>11, <2>1, <2>2, <3>1
  <2>5. i \in open
    BY <1>9, <2>1, <2>2, <2>3, <2>4
  <2>6. ASSUME NEW k \in open, Nth(notes, k).string = Nth(notes, i).string
        PROVE  k <= i
    <3> SUFFICES ASSUME ~(k <= i) PROVE FALSE
      OBVIOUS
    <3>1. k \in Indices(notes) /\ k \in Nat /\ i \in Nat /\ k > i
      BY <1>6, <1>10, <2>1
    <3>2. SameString(notes, i, k)
      BY <2>6 DEF SameString
    <3>3. k \in found /\ ~Dim(notes, k + 1)
      BY <1>9, <3>1
    <3>4. note(k).t <= time /\ note(k).t \in Nat
      BY <1>6, <1>7, <3>1, <3>3
    <3> QED
      BY <2>2, <3>1, <3>2, <3>3, <3>4
  <2> QED
    BY <1>2, <2>5, <2>6
<1>13. ASSUME NEW i \in neck.notes
       PROVE  i \in Clear(notes) /\ LitAt(notes, i, time)
  <2>1. /\ i \in open
        /\ \A k \in open : Nth(notes, k).string = Nth(notes, i).string => k <= i
    BY <1>2
  <2>2. /\ i \in Indices(notes) /\ i \in found /\ OnNeck(note(i)) /\ ~Dim(notes, i + 1)
        /\ time <= litUntil(notes, i)
    BY <1>9, <1>10, <2>1
  <2>3. /\ time <= Held(note(i))
        /\ \A k \in Indices(notes) : k > i /\ SameString(notes, i, k) => time <= note(k).t
    BY <1>11, <2>2
  <2>4. note(i).t <= time
    BY <1>7, <2>2
  <2>5. ASSUME NEW k \in Indices(notes), k > i, SameString(notes, i, k)
        PROVE  note(k).t > time \/ (note(k).t = time /\ Dim(notes, k + 1))
    <3>1. CASE note(k).t > time
      BY <3>1
    <3>2. CASE ~(note(k).t > time)
      <4>0. time <= note(k).t /\ note(k).t \in Nat /\ ~(note(k).t > time)
        BY <1>6, <2>3, <2>5, <3>2
      <4>1. note(k).t = time
        <5> HIDE DEF note
        <5> QED
          BY <4>0
      <4>2. Dim(notes, k + 1)
        <5> SUFFICES ASSUME ~Dim(notes, k + 1) PROVE FALSE
          OBVIOUS
        <5>1. k \in found
          <6>1. End(notes, k) \in Nat /\ End(notes, k) >= note(k).t
            BY <1>6
          <6>2. End(notes, k) >= time - MIN_LIT
            BY <1>5, <4>1, <6>1
          <6>3. note(k).t <= time
            BY <4>1
          <6> QED
            BY <1>8, <6>2, <6>3
        <5>2. OnNeck(note(k))
          <6>1. k + 1 \in 1..Len(notes) /\ Nth(notes, k) = notes[k + 1]
            BY <1>0, TrackAt
          <6>2. notes[k + 1] \in NoteSet
            BY <1>0, <6>1, ScoreAt
          <6>3. notes[k + 1].fret \in Nat
            BY <6>2 DEF NoteSet
          <6>4. note(k).string \in StringsDrawn
            BY <2>2, <2>5 DEF OnNeck, SameString
          <6> QED
            BY <6>1, <6>3, <6>4 DEF OnNeck
        <5>3. time <= litUntil(notes, k)
          <6>1. time <= Held(note(k))
            BY <1>6, <4>1
          <6>2. ASSUME NEW x \in Indices(notes), x > k, SameString(notes, k, x)
                PROVE  time <= note(x).t
            <7>1. SameString(notes, i, x)
              BY <2>5, <6>2 DEF SameString
            <7>2. x > i
              <8>1. x \in Nat /\ k \in Nat /\ i \in Nat
                BY <1>6, <2>2
              <8> QED
                BY <2>5, <6>2, <8>1
            <7> QED
              BY <2>3, <7>1, <7>2
          <6> QED
            BY <1>11, <6>1, <6>2
        <5>4. k \in open
          BY <1>9, <5>1, <5>2, <5>3
        <5>5. k <= i
          BY <2>1, <2>5, <5>4 DEF SameString
        <5>6. k \in Nat /\ i \in Nat
          BY <1>6, <2>2
        <5> QED
          BY <2>5, <5>5, <5>6
      <4> QED
        BY <4>1, <4>2
    <3> QED
      BY <3>1, <3>2
  <2>6. LitAt(notes, i, time)
    BY <2>2, <2>3, <2>4, <2>5 DEF LitAt
  <2>7. i \in Clear(notes)
    BY <2>2 DEF Clear
  <2> QED
    BY <2>6, <2>7
<1>14. GuitarRight(opened, time, neck)
  BY <1>12, <1>13 DEF GuitarRight
<1>15. ASSUME neck.message \in {"chord", "unclear"}
       PROVE  /\ neck.chord = Latest(Overlapping(opened.chords, time, time))
              /\ Covers(opened.hidden, time)
  <2>1. notes # <<>> /\ isHidden(opened.hidden, near, time)
    <3>1. CASE notes = <<>>
      <4>1. neck.message = "no notes"
        BY <1>2, <3>1
      <4> QED
        BY <1>15, <4>1
    <3>2. CASE notes # <<>> /\ ~isHidden(opened.hidden, near, time)
      <4>1. neck.message = "none"
        BY <1>2, <3>2
      <4> QED
        BY <1>15, <4>1
    <3> QED
      BY <3>1, <3>2
  <2>2. neck.chord = Latest(Overlapping(opened.chords, time, time))
    BY <1>1, <1>2, <2>1
  <2>3. Covers(opened.hidden, time)
    <3>1. near = inWindow(opened.hidden, since, time)
      BY DEF near, since, NearPlayed
    <3>2. isHidden(opened.hidden, inWindow(opened.hidden, since, time), time)
      BY <2>1, <3>1
    <3> QED
      BY <1>0, <1>4, <3>2, HiddenIn
  <2> QED
    BY <2>2, <2>3
<1> QED
  BY <1>14, <1>15

-----------------------------------------------------------------------------
(* The views together.                                                     *)

(* A passage that covers the playhead has its band on the strip.           *)
LEMMA BandOver ==
  ASSUME NEW song, SongRight(song), NEW wide \in Nat, NEW time \in Int,
         NEW shows, StripRight(song, wide, shows), shows.now = time,
         Covers(song.hidden, time)
  PROVE  \E p \in shows.bands : Nth(song.hidden, p).t <= time /\ time < End(song.hidden, p)
<1> DEFINE passages == song.hidden
           from == time - Behind(wide)
           to == from + wide
<1>1. Track(passages)
  BY ApartRises DEF SongRight, Stairs
<1>2. from \in Int /\ to \in Int /\ from <= time /\ time <= to
  BY WindowIs
<1> HIDE DEF from, to
<1>3. shows.bands = Overlapping(passages, from, to)
  BY DEF StripRight, from, to
<1>4. PICK q \in 1..Len(passages) : passages[q].t <= time /\ time < EndOf(passages[q])
  BY DEF Covers
<1>5. PICK p \in Indices(passages) : p + 1 = q
  <2>1. q - 1 \in Indices(passages) /\ (q - 1) + 1 = q
    BY <1>1 DEF Track, Indices
  <2> QED
    BY <2>1
<1>6. /\ Nth(passages, p) = passages[q]
      /\ Nth(passages, p).t \in Nat /\ End(passages, p) \in Nat
  BY <1>1, <1>5, TrackAt
<1>7. End(passages, p) = EndOf(passages[q])
  BY <1>6 DEF End, EndOf
<1>8. Nth(passages, p).t <= time /\ time < End(passages, p)
  BY <1>4, <1>6, <1>7
<1>9. Nth(passages, p).t <= to /\ End(passages, p) >= from
  BY <1>2, <1>6, <1>8
<1>10. p \in Overlapping(passages, from, to)
  BY <1>9 DEF Overlapping
<1> QED
  BY <1>3, <1>8, <1>10

(* A note that is lit is on the strip: what is left of the playhead is as  *)
(* long as the shortest light.                                             *)
LEMMA LitDrawn ==
  ASSUME NEW song, SongRight(song), NEW wide \in Widths, NEW time \in Int,
         NEW shows, StripRight(song, wide, shows), shows.now = time,
         NEW neck, GuitarRight(song, time, neck)
  PROVE  neck.notes \subseteq shows.notes
<1> DEFINE notes == song.notes
           from == time - Behind(wide)
           to == from + wide
<1> SUFFICES ASSUME NEW i \in neck.notes PROVE i \in shows.notes
  OBVIOUS
<1>1. wide \in Nat /\ MIN_LIT \in Nat /\ MIN_LIT <= Behind(wide)
  BY ViewsAssumption
<1>2. /\ from \in Int /\ to \in Int /\ time <= to
      /\ from <= time - MIN_LIT
  BY <1>1, WindowIs
<1> HIDE DEF from, to
<1>3. i \in Clear(notes) /\ LitAt(notes, i, time)
  BY DEF GuitarRight
<1>4. i \in Indices(notes)
  BY <1>3 DEF Clear
<1>5. /\ Nth(notes, i).t \in Nat /\ End(notes, i) \in Nat
      /\ Held(Nth(notes, i)) \in Nat
      /\ Held(Nth(notes, i)) <= End(notes, i) + MIN_LIT
  <2>1. Track(notes)
    BY DEF SongRight, Score
  <2> QED
    BY <1>4, <2>1, TrackAt, HeldIs
<1>6. Nth(notes, i).t <= time /\ time <= Held(Nth(notes, i)) /\ OnNeck(Nth(notes, i))
  BY <1>3 DEF LitAt
<1>7. Nth(notes, i).t <= to
  BY <1>2, <1>5, <1>6
<1>8. End(notes, i) >= from
  BY <1>1, <1>2, <1>5, <1>6
<1>9. i \in Overlapping(notes, from, to)
  BY <1>4, <1>7, <1>8 DEF Overlapping
<1>10. Nth(notes, i).string \in StringsDrawn
  BY <1>6 DEF OnNeck
<1> QED
  BY <1>3, <1>9, <1>10 DEF StripRight, from, to

(* A frame, from cursors of any use, draws what is right for the song.     *)
LEMMA DrawsRight ==
  ASSUME SongRight(opened), NEW was, CursorsUsable(was, opened),
         NEW time \in Int, NEW wide \in Widths,
         NEW at, at = CursorsAt(was, time, wide),
         NEW cursor, Usable(cursor, opened.chords)
  PROVE  /\ CursorsUsable(at, opened)
         /\ layout(at, time, wide).now = time
         /\ RightFor(opened, wide, layout(at, time, wide), sounding(at, time),
                     At(cursor, opened.chords, time))
<1> DEFINE shows == layout(at, time, wide)
           neck == sounding(at, time)
           followed == At(cursor, opened.chords, time)
<1>1. wide \in Nat /\ Track(opened.chords)
  BY ViewsAssumption DEF SongRight
<1>2. CursorsUsable(at, opened)
  BY <1>1, CursorsAtIs
<1>3. StripRight(opened, wide, shows) /\ shows.now = time
  BY <1>1, LayoutRight
<1>4. /\ GuitarRight(opened, time, neck)
      /\ neck.message \in {"chord", "unclear"} =>
           /\ neck.chord = Latest(Overlapping(opened.chords, time, time))
           /\ Covers(opened.hidden, time)
  BY <1>1, SoundingRight
<1>5. LaneRight(opened, time, followed)
  BY <1>1, AtIs DEF LaneRight
<1> HIDE DEF shows, neck, followed
<1>6. neck.notes \subseteq shows.notes
  BY <1>3, <1>4, LitDrawn
<1>7. MessageRight(opened, time, shows, neck, followed)
  <2> SUFFICES ASSUME neck.message \in {"chord", "unclear"}
               PROVE  /\ neck.chord = followed.current
                      /\ \E p \in shows.bands : /\ Nth(opened.hidden, p).t <= time
                                                /\ time < End(opened.hidden, p)
    BY DEF MessageRight
  <2>1. neck.chord = followed.current
    BY <1>4, <1>5 DEF LaneRight
  <2>2. Covers(opened.hidden, time)
    BY <1>4
  <2> QED
    BY <1>1, <1>3, <2>1, <2>2, BandOver
<1>8. RightFor(opened, wide, shows, neck, followed)
  BY <1>3, <1>4, <1>5, <1>6, <1>7 DEF RightFor
<1> QED
  BY <1>2, <1>3, <1>8 DEF shows, neck, followed

(* The song is one that was built; each cursor is seated in the window it  *)
(* says it is in, wherever the playhead was before; and what is drawn is   *)
(* right for the song.                                                     *)
ViewsInv ==
  /\ \E doc \in Docs : opened = buildSong(doc)
  /\ width \in Widths
  /\ CursorsUsable(cursors, opened)
  /\ strip.now \in Int
  /\ RightFor(opened, width, strip, guitar, lane)

LEMMA OpenedRight ==
  ASSUME \E doc \in Docs : opened = buildSong(doc)
  PROVE  SongRight(opened)
BY BuiltRight

(* The first frame, whose cursors are new.                                 *)
LEMMA ViewsStart ==
  ViewsInit => ViewsInv
<1> SUFFICES ASSUME ViewsInit PROVE ViewsInv
  OBVIOUS
<1>1. (\E doc \in Docs : opened = buildSong(doc)) /\ width \in Widths
  BY DEF ViewsInit
<1>2. PICK time \in Times :
        /\ cursors = CursorsAt(NewCursors, time, width)
        /\ strip = layout(cursors, time, width)
        /\ guitar = sounding(cursors, time)
        /\ lane = At(NewCursor, opened.chords, time)
  BY DEF ViewsInit
<1>3. SongRight(opened) /\ time \in Int
  BY <1>1, OpenedRight, ViewsAssumption
<1>4. CursorsUsable(NewCursors, opened)
  BY <1>3, NewCursorsUsable
<1>5. Usable(NewCursor, opened.chords)
  BY <1>3, NewUsable DEF SongRight
<1>6. /\ CursorsUsable(cursors, opened)
      /\ layout(cursors, time, width).now = time
      /\ RightFor(opened, width, layout(cursors, time, width), sounding(cursors, time),
                  At(NewCursor, opened.chords, time))
  BY <1>1, <1>2, <1>3, <1>4, <1>5, DrawsRight
<1>7. strip.now \in Int
  BY <1>2, <1>3, <1>6
<1>8. RightFor(opened, width, strip, guitar, lane)
  BY <1>2, <1>6
<1> QED
  BY <1>1, <1>6, <1>7, <1>8 DEF ViewsInv

(* Every frame after it, at the strip's width or another.                  *)
LEMMA DrawsOn ==
  ASSUME ViewsInv, NEW time \in Int, NEW wide \in Widths, Draws(time, wide),
         opened' = opened, width' = wide
  PROVE  ViewsInv'
<1> DEFINE at == CursorsAt(cursors, time, wide)
           followed == At(cursors.lane, opened.chords, time)
<1>1. SongRight(opened) /\ CursorsUsable(cursors, opened)
  BY OpenedRight DEF ViewsInv
<1>2. Usable(cursors.lane, opened.chords)
  BY <1>1 DEF CursorsUsable
<1>3. /\ CursorsUsable(at, opened)
      /\ layout(at, time, wide).now = time
      /\ RightFor(opened, wide, layout(at, time, wide), sounding(at, time), followed)
  BY <1>1, <1>2, DrawsRight
<1>4. /\ cursors' = at /\ strip' = layout(at, time, wide) /\ guitar' = sounding(at, time)
      /\ lane' = followed
  BY DEF Draws, Followed
<1> HIDE DEF at, followed
<1>5. RightFor(opened', width', strip', guitar', lane')
  BY <1>3, <1>4
<1>6. CursorsUsable(cursors', opened')
  BY <1>3, <1>4
<1>7. strip'.now \in Int
  BY <1>3, <1>4
<1>8. (\E doc \in Docs : opened' = buildSong(doc)) /\ width' \in Widths
  BY DEF ViewsInv
<1> QED
  BY <1>5, <1>6, <1>7, <1>8 DEF ViewsInv

LEMMA ViewsStep ==
  ViewsInv /\ [ViewsNext]_viewsVars => ViewsInv'
<1> SUFFICES ASSUME ViewsInv, [ViewsNext]_viewsVars PROVE ViewsInv'
  OBVIOUS
<1>1. width \in Widths /\ strip.now \in Int
  BY DEF ViewsInv
<1>2. CASE Frame
  <2>1. PICK time \in Times : Draws(time, width)
    BY <1>2 DEF Frame
  <2>2. time \in Int /\ opened' = opened /\ width' = width
    BY <1>2, ViewsAssumption DEF Frame
  <2> QED
    BY <1>1, <2>1, <2>2, DrawsOn
<1>3. CASE Resizes
  <2>1. PICK wide \in Widths : width' = wide /\ Draws(strip.now, wide) /\ opened' = opened
    BY <1>3 DEF Resizes
  <2> QED
    BY <1>1, <2>1, DrawsOn
<1>4. CASE UNCHANGED viewsVars
  <2>1. /\ opened' = opened /\ width' = width /\ cursors' = cursors
        /\ strip' = strip /\ guitar' = guitar /\ lane' = lane
    BY <1>4 DEF viewsVars
  <2>2. RightFor(opened', width', strip', guitar', lane')
    BY <2>1 DEF ViewsInv
  <2>3. CursorsUsable(cursors', opened') /\ strip'.now \in Int /\ width' \in Widths
    BY <2>1 DEF ViewsInv
  <2>4. \E doc \in Docs : opened' = buildSong(doc)
    BY <2>1 DEF ViewsInv
  <2> QED
    BY <2>2, <2>3, <2>4 DEF ViewsInv
<1> QED
  BY <1>2, <1>3, <1>4 DEF ViewsNext

(* Of every document that its schema lets through, at every time the       *)
(* playhead is taken to, in every order, and at every width the strip is   *)
(* given: the strip, the guitar and the lane show what ViewsRight says, as *)
(* if each had read the whole song, and they agree.                        *)
THEOREM ViewsSafe == ViewsSpec => []ViewsRight
<1>1. ViewsInv => ViewsRight
  BY OpenedRight, RightIs DEF ViewsInv
<1> QED
  BY <1>1, ViewsStart, ViewsStep, PTL DEF ViewsSpec

=============================================================================
