----------------------------- MODULE Separation -----------------------------
(***************************************************************************)
(* Separation (worker/stages/separation.py): Demucs as a child process,    *)
(* its progress bar read out of its output as that arrives, and a second   *)
(* pass with another model when the first one finds no guitar.  The worker *)
(* may be interrupted while it reads: by the job's timeout, or by a        *)
(* progress write that fails.                                              *)
(***************************************************************************)
EXTENDS Loops, FiniteSetsExt

CONSTANTS
  Percents,     \* the numbers Demucs draws; some are no percentage
  BarLengths,   \* how much of a redraw follows its number
  MaxRedraws    \* bound: how often one pass draws

ASSUME SeparationAssumption ==
  /\ Percents \subseteq 0..999
  /\ BarLengths \subseteq Nat
  /\ MaxRedraws \in Nat

VARIABLES
  demucs,   \* the child: see NoChild
  reader,   \* _demucs and _stream in the worker
  outcome   \* of isolate; "none" while it runs

separationVars == <<demucs, reader, outcome>>

-----------------------------------------------------------------------------
(* TqdmPercent.  Characters are numbers: digits, and these.                *)
Digit == 0..9
PERCENT == 10
BAR == 11
GLYPH == 12

CARRY == 8   \* _CARRY

(* Where in a text the pattern ends: one to three digits, then "%|".       *)
MatchEnds(text) ==
  {e \in 3..Len(text) :
     text[e] = BAR /\ text[e - 1] = PERCENT /\ text[e - 2] \in Digit}

(* The number before it: as many digits as there are, up to three.         *)
ValueAt(text, e) ==
  LET digit(k) == text[e - 1 - k]
      two == e >= 4 /\ digit(2) \in Digit
      three == two /\ e >= 5 /\ digit(3) \in Digit
  IN  digit(1) + (IF two THEN 10 * digit(2) ELSE 0)
               + (IF three THEN 100 * digit(3) ELSE 0)

(* The percentages of a text, from left to right; no more than a hundred.  *)
Percentages(text) ==
  Picked(Len(text), {e \in MatchEnds(text) : ValueAt(text, e) <= 100},
         [e \in MatchEnds(text) |-> ValueAt(text, e)])

(* Mutant: nothing is kept from one chunk to the next.                     *)
CarryNone(text) == <<>>

(* What is kept of a text for the next chunk: the last characters after    *)
(* its last match.                                                         *)
Carry(text) ==
  LET consumed == Max({0} \cup MatchEnds(text))
      rest == SubSeq(text, consumed + 1, Len(text))
  IN  SubSeq(rest, Max({1, Len(rest) - CARRY + 1}), Len(rest))

feed(carry, chunk) ==
  [found |-> Percentages(carry \o chunk), carry |-> Carry(carry \o chunk)]

(* _span: the first pass fills three quarters of the stage, the fallback   *)
(* the rest.  In four hundredths.                                          *)
Span(pass, percent) == IF pass = 1 THEN 3 * percent ELSE 300 + percent

-----------------------------------------------------------------------------
(* The child: its output not yet read, and what it has drawn.              *)
NoChild == [state |-> "none", unread |-> <<>>, drawn |-> <<>>, code |-> 0]
Running == [NoChild EXCEPT !.state = "running"]

Reading(pass) == [pass |-> pass, carry |-> <<>>, found |-> <<>>, told |-> 0, fractions |-> <<>>]

SeparationInit ==
  /\ demucs = NoChild
  /\ reader = Reading(1)
  /\ outcome = "none"

Returns(result) == outcome = "none" /\ outcome' = result

(* Popen; Demucs may not be installed.                                     *)
Begins ==
  /\ demucs.state = "none"
  /\ \/ /\ outcome = "none"
        /\ demucs' = Running
        /\ UNCHANGED <<reader, outcome>>
     \/ /\ reader.pass = 1
        /\ Returns("internal")
        /\ UNCHANGED <<demucs, reader>>

Digits(n) ==
  IF n < 10 THEN <<n>>
  ELSE IF n < 100 THEN <<n \div 10, n % 10>>
  ELSE <<n \div 100, (n \div 10) % 10, n % 10>>

Redraw(n, length) == Digits(n) \o <<PERCENT, BAR>> \o [k \in 1..length |-> GLYPH]

(* The child draws its bar again, further on.                              *)
DemucsDraws ==
  /\ demucs.state = "running"
  /\ Len(demucs.drawn) < MaxRedraws
  /\ \E n \in Percents, length \in BarLengths :
       /\ \A k \in DOMAIN demucs.drawn : demucs.drawn[k] <= n
       /\ demucs' = [demucs EXCEPT !.unread = @ \o Redraw(n, length),
                                   !.drawn = Append(@, n)]
  /\ UNCHANGED <<reader, outcome>>

DemucsExits ==
  /\ demucs.state = "running"
  /\ \E code \in {0, 1} : demucs' = [demucs EXCEPT !.state = "exited", !.code = code]
  /\ UNCHANGED <<reader, outcome>>

Streaming == outcome = "none" /\ demucs.state \in {"running", "exited"}
Untold == SubSeq(reader.found, reader.told + 1, Len(reader.found))

(* read1 returns what the pipe holds of the output.                        *)
ReadsChunk ==
  /\ Streaming
  /\ Untold = <<>>
  /\ \E n \in 1..Len(demucs.unread) :
       LET parsed == feed(reader.carry, SubSeq(demucs.unread, 1, n)) IN
       /\ demucs' = [demucs EXCEPT !.unread = SubSeq(@, n + 1, Len(@))]
       /\ reader' = [reader EXCEPT !.carry = parsed.carry, !.found = @ \o parsed.found]
  /\ UNCHANGED outcome

TellsProgress ==
  /\ Streaming
  /\ Untold # <<>>
  /\ reader' = [reader EXCEPT !.told = @ + 1,
                              !.fractions = Append(@, Span(reader.pass, Head(Untold)))]
  /\ UNCHANGED <<demucs, outcome>>

(* Mutant: the child is left to itself.                                    *)
SpawnedLeft(child) == child

(* The `finally`: a child that still runs is killed, and waited for.       *)
Spawned(child) ==
  IF child.state = "running" THEN [child EXCEPT !.state = "killed"] ELSE child

(* A timeout or a failed progress write raises in the loop, or in wait().  *)
ReaderRaises ==
  /\ Streaming
  /\ Returns("raised")
  /\ demucs' = Spawned(demucs)
  /\ UNCHANGED reader

(* The output has ended and wait() returns: the stem is there and heard,   *)
(* there and silent, or not there.                                         *)
PassEnds ==
  /\ Streaming
  /\ demucs.state = "exited" /\ demucs.unread = <<>> /\ Untold = <<>>
  /\ \/ /\ Returns("internal")   \* a bad exit, or no stem
        /\ UNCHANGED <<demucs, reader>>
     \/ /\ demucs.code = 0
        /\ Returns(IF reader.pass = 1 THEN "guitar" ELSE "other")
        /\ UNCHANGED <<demucs, reader>>
     \/ /\ demucs.code = 0 /\ reader.pass = 2
        /\ Returns("no_guitar_detected")
        /\ UNCHANGED <<demucs, reader>>
     \/ /\ demucs.code = 0 /\ reader.pass = 1
        /\ demucs' = NoChild
        /\ reader' = [Reading(2) EXCEPT !.fractions = reader.fractions]
        /\ UNCHANGED outcome

SeparationNext ==
  \/ Begins \/ DemucsDraws \/ DemucsExits
  \/ ReadsChunk \/ TellsProgress \/ ReaderRaises \/ PassEnds

SeparationSpec == SeparationInit /\ [][SeparationNext]_separationVars

-----------------------------------------------------------------------------
(* However the pipe cuts the output into chunks, a pass finds the          *)
(* percentages drawn in what it has read, each once and in order; and the  *)
(* fractions told of the whole stage never fall, through both passes.      *)
ProgressFollows ==
  /\ demucs.unread = <<>> =>
       reader.found = Picked(Len(demucs.drawn),
                             {k \in DOMAIN demucs.drawn : demucs.drawn[k] <= 100},
                             demucs.drawn)
  /\ \A k \in 2..Len(reader.fractions) : reader.fractions[k - 1] <= reader.fractions[k]

(* When isolate has returned, or raised, no Demucs it began runs on.       *)
ChildReaped == outcome # "none" => demucs.state # "running"

(* What isolate tells on the way is what Demucs said, and what it leaves   *)
(* behind is no Demucs (_run, _stop).                                      *)
SeparationRight == ProgressFollows /\ ChildReaped
=============================================================================
