----------------------------- MODULE NoteCursor -----------------------------
(***************************************************************************)
(* The cursors (web/src/playback/cursor.ts) over spans sorted by onset.    *)
(* Indices run from 0, as in the code; a span's start is its field t and   *)
(* its duration dur.                                                       *)
(***************************************************************************)
EXTENDS Integers, Sequences, FiniteSetsExt

Nth(items, i) == items[i + 1]

CONSTANTS
  NegativeInfinity, PositiveInfinity   \* before every time, and after

ASSUME CursorAssumption ==
  /\ NegativeInfinity \in Int /\ PositiveInfinity \in Int
  /\ NegativeInfinity < PositiveInfinity

-----------------------------------------------------------------------------
(* The binary search for the first index in `passing`, a set of indices    *)
(* that holds every index above its least.                                 *)
firstIndex(n, passing) ==
  LET search[r \in (0..n) \X (0..n)] ==
        LET mid == (r[1] + r[2]) \div 2 IN
        IF r[1] >= r[2] THEN r[1]
        ELSE IF mid \in passing THEN search[<<r[1], mid>>] ELSE search[<<mid + 1, r[2]>>]
  IN  search[<<0, n>>]

Indices(items) == 0..(Len(items) - 1)
End(items, i) == Nth(items, i).t + Nth(items, i).dur
Longest(items) == Max({0} \cup {items[i].dur : i \in DOMAIN items})

InReach(items, from) == {i \in Indices(items) : Nth(items, i).t + Longest(items) >= from}
Begun(items, to)     == {i \in Indices(items) : Nth(items, i).t <= to}

NewCursor == [lo |-> 0, hi |-> 0, from |-> PositiveInfinity, to |-> NegativeInfinity]

(* Mutant: a window that shrank is followed too.                           *)
FollowsShrunk(cursor, from, to) == from >= cursor.from /\ from <= cursor.to

Follows(cursor, from, to) ==
  from >= cursor.from /\ from <= cursor.to /\ to >= cursor.to

(* The two pointers after a read of the window.  A loop passes the indices *)
(* from its pointer on that do not meet its end.                           *)
Moved(cursor, items, from, to) ==
  LET n == Len(items)
      seats == IF Follows(cursor, from, to)
               THEN [lo |-> Min({i \in cursor.lo..n : i = n \/ i \in InReach(items, from)}
                                  \cup {n}),
                     hi |-> Min({i \in cursor.hi..n : i \notin Begun(items, to)}
                                  \cup {n})]
               ELSE [lo |-> firstIndex(n, InReach(items, from)),
                     hi |-> firstIndex(n, Indices(items) \ Begun(items, to))]
  IN  [lo |-> seats.lo, hi |-> seats.hi, from |-> from, to |-> to]

(* What the read returns, given the cursor it leaves.                      *)
Found(cursor, items) ==
  {i \in cursor.lo..(cursor.hi - 1) : End(items, i) >= cursor.from}

Latest(found) == IF found = {} THEN -1 ELSE Max(found)

-----------------------------------------------------------------------------
(* TrackCursor: the span that is current at t, and the next one.  Its      *)
(* window has no width, so it is never followed but at the time it is at.  *)
At(cursor, items, t) ==
  [current |-> Latest(Found(Moved(cursor, items, t, t), items)),
   next    |-> firstIndex(Len(items), Indices(items) \ Begun(items, t))]

(* inWindow, for spans whose starts and ends both rise.                    *)
inWindow(items, from, to) ==
  LET first == firstIndex(Len(items), {i \in Indices(items) : End(items, i) >= from})
  IN  {i \in first..(Len(items) - 1) : \A k \in first..i : Nth(items, k).t <= to}
=============================================================================
