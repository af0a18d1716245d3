------------------------- MODULE ChildFetcherProofs -------------------------
(***************************************************************************)
(* Proofs about the calls of ChildFetcher, for any number of threads,      *)
(* horses and permits, and whatever the bounds.                            *)
(***************************************************************************)
EXTENDS ChildFetcher, TLAPS, FiniteSetTheorems, SequenceTheorems

-----------------------------------------------------------------------------
(* Permits.                                                                *)

Busy == {c \in Threads : ~At(c, "idle")}

(* The api's threads die together, with their process.                     *)
DieTogether == \A c, d \in Threads : At(c, "dead") => At(d, "dead")

(* A permit is released by a thread that has one, so there is room for it: *)
(* the count is typed only as long as it is kept.                          *)
PermitInv == TypeOK /\ DieTogether /\ PermitsKept

(* A busy thread, none being dead, holds one of the permits.               *)
LEMMA RoomToRelease ==
  ASSUME FetcherAssumption, PermitInv,
         NEW c \in Threads, ~At(c, "idle"), ~At(c, "dead")
  PROVE  permits + 1 \in 0..Permits
<1>1. \A d \in Threads : ~At(d, "dead")
  BY DEF PermitInv, DieTogether
<1>2. permits + Cardinality(Busy) = Permits
  BY <1>1 DEF PermitInv, PermitsKept, Busy
<1>3. IsFiniteSet(Busy)
  BY FS_Subset DEF FetcherAssumption, Busy
<1>4. Cardinality(Busy) \in Nat /\ Cardinality(Busy) # 0
  BY <1>3, FS_CardinalityType, FS_EmptySet DEF Busy
<1> QED
  BY <1>2, <1>4 DEF PermitInv, TypeOK, FetcherAssumption

LEMMA TypeInit == ASSUME FetcherAssumption, Init PROVE TypeOK
  BY DEF FetcherAssumption, Init, TypeOK, Finally, Alive, Lines, Answers, Outcomes

(* The parts of the types that several actions set.                        *)
Pcs == {"idle", "spawn", "unguarded", "reader", "loop", "get", "ended", "dead"}
         \cup Finally
PcOK      == pc \in [Callers -> Pcs]
OutcomeOK == outcome \in [Callers -> Outcomes]
LinesOK   == lines \in [Callers -> Seq(Lines)]
Others    == <<late, stdin, reader, childVars, permits>>

LEMMA Parts == TypeOK => PcOK /\ OutcomeOK /\ LinesOK
  BY DEF TypeOK, PcOK, OutcomeOK, LinesOK, Pcs

LEMMA GotoType ==
  ASSUME PcOK, NEW c \in Callers, NEW place \in Pcs, Goto(c, place)
  PROVE  PcOK'
  BY DEF PcOK, Goto

LEMMA LeaveType ==
  ASSUME PcOK, OutcomeOK, NEW c \in Callers, NEW how \in Outcomes, Leave(c, how)
  PROVE  PcOK' /\ OutcomeOK'
<1>1. Goto(c, "kill") /\ "kill" \in Pcs
  BY DEF Leave, Pcs, Finally
<1>2. OutcomeOK'
  BY DEF Leave, OutcomeOK
<1> QED
  BY <1>1, <1>2, GotoType

(* A step of the call that leaves the child and its pipes alone.           *)
LEMMA CallStepType ==
  ASSUME FetcherAssumption, TypeOK, PcOK', OutcomeOK', LinesOK', UNCHANGED Others,
         faults' = faults \/ Fault
  PROVE  TypeOK'
<1>1. faults' \in 0..MaxFaults
  BY DEF TypeOK, Fault, FetcherAssumption
<1> QED
  BY <1>1 DEF TypeOK, PcOK, OutcomeOK, LinesOK, Pcs, Others, childVars

(* Every step keeps the types.                                             *)
LEMMA TypeStep ==
  ASSUME FetcherAssumption, PermitInv, [Next]_vars
  PROVE  TypeOK'
<1>0. TypeOK /\ PcOK /\ OutcomeOK /\ LinesOK
  BY Parts DEF PermitInv
<1>1. ASSUME NEW c \in Callers, Loop(c) PROVE TypeOK'
  <2>1. PcOK' /\ OutcomeOK'
    <3>1. CASE late[c]
      <4>1. Leave(c, "timeout") /\ "timeout" \in Outcomes
        BY <1>1, <3>1 DEF Loop, Outcomes
      <4> QED
        BY <1>0, <4>1, LeaveType
    <3>2. CASE ~late[c]
      <4>1. Goto(c, "get") /\ "get" \in Pcs /\ UNCHANGED outcome
        BY <1>1, <3>2 DEF Loop, Pcs
      <4> QED
        BY <1>0, <4>1, GotoType DEF OutcomeOK
    <3> QED
      BY <3>1, <3>2
  <2>2. LinesOK' /\ UNCHANGED Others /\ faults' = faults
    BY <1>0, <1>1 DEF Loop, LinesOK, Others, readerVars
  <2> QED
    BY FetcherAssumption, <1>0, <2>1, <2>2, CallStepType
<1>2. ASSUME NEW c \in Callers, Get(c) PROVE TypeOK'
  <2>1. lines[c] \in Seq(Lines) /\ lines[c] # <<>>
    BY <1>0, <1>2 DEF Get, LinesOK
  <2>2. Head(lines[c]) \in Lines /\ Tail(lines[c]) \in Seq(Lines)
    BY <2>1
  <2>3. LinesOK'
    BY <1>0, <1>2, <2>2 DEF Get, LinesOK
  <2>4. PcOK' /\ OutcomeOK'
    <3>1. CASE Goto(c, "loop") /\ UNCHANGED outcome
      <4>1. "loop" \in Pcs
        BY DEF Pcs
      <4> QED
        BY <1>0, <3>1, <4>1, GotoType DEF OutcomeOK
    <3>2. CASE Leave(c, "crashed")
      BY <1>0, <3>2, LeaveType DEF Outcomes
    <3>3. CASE Head(lines[c]) \in {"result", "error"} /\ Leave(c, Head(lines[c]))
      <4>1. Head(lines[c]) \in Outcomes
        BY <3>3 DEF Outcomes
      <4> QED
        BY <1>0, <3>3, <4>1, LeaveType
    <3> QED
      BY <1>2, <3>1, <3>2, <3>3 DEF Get
  <2>5. UNCHANGED Others /\ faults' = faults
    BY <1>2 DEF Get, Others
  <2> QED
    BY FetcherAssumption, <1>0, <2>3, <2>4, <2>5, CallStepType
<1>3. ASSUME NEW c \in Callers, GetEmpty(c) PROVE TypeOK'
  <2>1. "loop" \in Pcs /\ Goto(c, "loop")
    BY <1>3 DEF GetEmpty, Pcs
  <2>2. PcOK'
    BY <1>0, <2>1, GotoType
  <2>3. OutcomeOK' /\ LinesOK' /\ UNCHANGED Others /\ faults' = faults
    BY <1>0, <1>3 DEF GetEmpty, OutcomeOK, LinesOK, Others, readerVars
  <2> QED
    BY FetcherAssumption, <1>0, <2>2, <2>3, CallStepType
<1>4. ASSUME NEW c \in Callers, Release(c) PROVE TypeOK'
  <2>1. c \in Threads /\ ~At(c, "idle") /\ ~At(c, "dead")
    BY <1>4 DEF Release, At
  <2>2. permits + 1 \in 0..Permits
    BY FetcherAssumption, <2>1, RoomToRelease
  <2> QED
    BY FetcherAssumption, <1>0, <1>4, <2>2
       DEF FetcherAssumption, TypeOK, Finally, Alive, Lines, Answers, Outcomes,
           At, callVars, readerVars, childVars, Release, Forget
<1>5. ASSUME NEW c \in Callers, Alarm(c) PROVE TypeOK'
  <2>1. PcOK' /\ OutcomeOK'
    <3>1. "interrupted" \in Outcomes /\ "ended" \in Pcs
      BY DEF Outcomes, Pcs
    <3>2. CASE Leave(c, "interrupted")
      BY <1>0, <3>1, <3>2, LeaveType
    <3>3. CASE /\ Goto(c, "ended")
               /\ outcome' = [outcome EXCEPT ![c] = "interrupted"]
      <4>1. PcOK'
        BY <1>0, <3>1, <3>3, GotoType
      <4>2. OutcomeOK'
        BY <1>0, <3>1, <3>3 DEF OutcomeOK
      <4> QED
        BY <4>1, <4>2
    <3> QED
      BY <1>5, <3>2, <3>3 DEF Alarm
  <2>2. LinesOK' /\ UNCHANGED Others /\ Fault
    BY <1>0, <1>5 DEF Alarm, LinesOK, Others, readerVars
  <2> QED
    BY FetcherAssumption, <1>0, <2>1, <2>2, CallStepType
<1>6. ASSUME NEW c \in Callers, KillCaller(c) PROVE TypeOK'
  <2> DEFINE killed == IF c \in Threads THEN Threads ELSE {c}
  <2>1. /\ pc' = [d \in Callers |-> IF d \in killed THEN "dead" ELSE pc[d]]
        /\ stdin' = [d \in Callers |-> IF d \in killed THEN FALSE ELSE stdin[d]]
        /\ UNCHANGED <<outcome, late, readerVars, childVars, permits>>
        /\ Fault
    BY <1>6 DEF KillCaller
  <2> HIDE DEF killed
  <2>2. pc' \in [Callers -> Pcs]
    BY <1>0, <2>1 DEF PcOK, Pcs
  <2>3. stdin' \in [Callers -> BOOLEAN]
    BY <1>0, <2>1 DEF TypeOK
  <2>4. faults' \in 0..MaxFaults
    BY FetcherAssumption, <1>0, <2>1 DEF TypeOK, Fault, FetcherAssumption
  <2> QED
    BY <1>0, <2>1, <2>2, <2>3, <2>4 DEF TypeOK, Pcs, readerVars, childVars
<1> USE FetcherAssumption DEF FetcherAssumption, TypeOK, Finally, Alive, Lines,
      Answers, Outcomes, At, Goto, Fault, callVars, readerVars, childVars
<1>7. ASSUME NEW c \in Callers, Acquire(c) PROVE TypeOK'
  BY <1>0, <1>7 DEF Acquire
<1>8. ASSUME NEW c \in Callers, StartDownload(c) PROVE TypeOK'
  BY <1>0, <1>8 DEF StartDownload
<1>9. ASSUME NEW c \in Callers, Spawn(c) PROVE TypeOK'
  BY <1>0, <1>9 DEF Spawn
<1>10. ASSUME NEW c \in Callers, EnterTry(c) PROVE TypeOK'
  BY <1>0, <1>10 DEF EnterTry
<1>11. ASSUME NEW c \in Callers, StartReader(c) PROVE TypeOK'
  BY <1>0, <1>11 DEF StartReader
<1>12. ASSUME NEW c \in Callers, Kill(c) PROVE TypeOK'
  BY <1>0, <1>12 DEF Kill, KillGroup
<1>13. ASSUME NEW c \in Callers, Wait(c) PROVE TypeOK'
  BY <1>0, <1>13 DEF Wait
<1>14. ASSUME NEW c \in Callers, Close(c) PROVE TypeOK'
  BY <1>0, <1>14 DEF Close
<1>15. ASSUME NEW c \in Callers, ExitHorse(c) PROVE TypeOK'
  BY <1>0, <1>15 DEF ExitHorse
<1>16. ASSUME NEW c \in Callers, SpawnFails(c) PROVE TypeOK'
  BY <1>0, <1>16 DEF SpawnFails
<1>17. ASSUME NEW c \in Callers, NoThread(c) PROVE TypeOK'
  BY <1>0, <1>17 DEF NoThread, Leave
<1>18. ASSUME NEW c \in Callers, CallbackRaises(c) PROVE TypeOK'
  BY <1>0, <1>18 DEF CallbackRaises, Leave
<1>19. ASSUME NEW c \in Callers, ReadLine(c) PROVE TypeOK'
  BY <1>0, <1>19 DEF ReadLine, Reading
<1>20. ASSUME NEW c \in Callers, ReadEnd(c) PROVE TypeOK'
  BY <1>0, <1>20 DEF ReadEnd, Reading
<1>21. ASSUME NEW c \in Callers, WatchParent(c) PROVE TypeOK'
  BY <1>0, <1>21 DEF WatchParent
<1>22. ASSUME NEW c \in Callers, StartHelper(c) PROVE TypeOK'
  BY <1>0, <1>22 DEF StartHelper
<1>23. ASSUME NEW c \in Callers, EndHelper(c) PROVE TypeOK'
  BY <1>0, <1>23 DEF EndHelper
<1>24. ASSUME NEW c \in Callers, Say(c) PROVE TypeOK'
  BY <1>0, <1>24 DEF Say
<1>25. ASSUME NEW c \in Callers, Exit(c) PROVE TypeOK'
  BY <1>0, <1>25 DEF Exit
<1>26. ASSUME NEW c \in Callers, DieWithParent(c) PROVE TypeOK'
  BY <1>0, <1>26 DEF DieWithParent, KillGroup
<1>27. ASSUME NEW c \in Callers, Deadline(c) PROVE TypeOK'
  BY <1>0, <1>27 DEF Deadline
<1>28. CASE UNCHANGED vars
  BY <1>0, <1>28 DEF vars
<1> QED
  BY <1>1, <1>2, <1>3, <1>4, <1>5, <1>6, <1>7, <1>8, <1>9, <1>10, <1>11, <1>12,
     <1>13, <1>14, <1>15, <1>16, <1>17, <1>18, <1>19, <1>20, <1>21, <1>22,
     <1>23, <1>24, <1>25, <1>26, <1>27, <1>28 DEF Next, CallerStep, ReaderStep

(* What a step can do to permits and threads: they are taken and returned  *)
(* together, or nothing is.                                                *)
Settled == /\ UNCHANGED permits
           /\ \A d \in Threads : /\ At(d, "idle")' <=> At(d, "idle")
                                 /\ At(d, "dead")' <=> At(d, "dead")

LEMMA PermitShape ==
  ASSUME FetcherAssumption, TypeOK, [Next]_vars
  PROVE  \/ \E c \in Threads : Acquire(c) \/ Release(c)
         \/ \E c \in Callers : KillCaller(c)
         \/ Settled
<1>0. Threads \cap Horses = {} /\ pc \in [Callers -> Pcs] /\ Threads \subseteq Callers
  BY Parts DEF FetcherAssumption, PcOK, Callers
<1> USE DEF Settled, At, Goto, Leave
<1>1. ASSUME NEW c \in Callers, StartDownload(c) PROVE Settled
  BY <1>0, <1>1 DEF StartDownload, Finally, callVars
<1>2. ASSUME NEW c \in Callers, Spawn(c) PROVE Settled
  BY <1>0, <1>2 DEF Spawn, Finally, callVars
<1>3. ASSUME NEW c \in Callers, EnterTry(c) PROVE Settled
  BY <1>0, <1>3 DEF EnterTry, Finally, callVars
<1>4. ASSUME NEW c \in Callers, StartReader(c) PROVE Settled
  BY <1>0, <1>4 DEF StartReader, Finally, callVars
<1>5. ASSUME NEW c \in Callers, Loop(c) PROVE Settled
  BY <1>0, <1>5 DEF Loop, Finally, callVars
<1>6. ASSUME NEW c \in Callers, Get(c) PROVE Settled
  BY <1>0, <1>6 DEF Get, Finally, callVars
<1>7. ASSUME NEW c \in Callers, GetEmpty(c) PROVE Settled
  BY <1>0, <1>7 DEF GetEmpty, Finally, callVars
<1>8. ASSUME NEW c \in Callers, Kill(c) PROVE Settled
  BY <1>0, <1>8 DEF Kill, Finally, callVars
<1>9. ASSUME NEW c \in Callers, Wait(c) PROVE Settled
  BY <1>0, <1>9 DEF Wait, Finally, callVars
<1>10. ASSUME NEW c \in Callers, Close(c) PROVE Settled
  BY <1>0, <1>10 DEF Close, Finally, callVars
<1>11. ASSUME NEW c \in Callers, ExitHorse(c) PROVE Settled
  BY <1>0, <1>11 DEF ExitHorse, Finally, callVars
<1>12. ASSUME NEW c \in Callers, SpawnFails(c) PROVE Settled
  BY <1>0, <1>12 DEF SpawnFails, Finally, callVars
<1>13. ASSUME NEW c \in Callers, NoThread(c) PROVE Settled
  BY <1>0, <1>13 DEF NoThread, Finally, callVars
<1>14. ASSUME NEW c \in Callers, CallbackRaises(c) PROVE Settled
  BY <1>0, <1>14 DEF CallbackRaises, Finally, callVars
<1>15. ASSUME NEW c \in Callers, ReadLine(c) PROVE Settled
  BY <1>0, <1>15 DEF ReadLine, Finally, callVars
<1>16. ASSUME NEW c \in Callers, ReadEnd(c) PROVE Settled
  BY <1>0, <1>16 DEF ReadEnd, Finally, callVars
<1>17. ASSUME NEW c \in Callers, WatchParent(c) PROVE Settled
  BY <1>0, <1>17 DEF WatchParent, Finally, callVars
<1>18. ASSUME NEW c \in Callers, StartHelper(c) PROVE Settled
  BY <1>0, <1>18 DEF StartHelper, Finally, callVars
<1>19. ASSUME NEW c \in Callers, EndHelper(c) PROVE Settled
  BY <1>0, <1>19 DEF EndHelper, Finally, callVars
<1>20. ASSUME NEW c \in Callers, Say(c) PROVE Settled
  BY <1>0, <1>20 DEF Say, Finally, callVars
<1>21. ASSUME NEW c \in Callers, Exit(c) PROVE Settled
  BY <1>0, <1>21 DEF Exit, Finally, callVars
<1>22. ASSUME NEW c \in Callers, DieWithParent(c) PROVE Settled
  BY <1>0, <1>22 DEF DieWithParent, Finally, callVars
<1>23. ASSUME NEW c \in Callers, Deadline(c) PROVE Settled
  BY <1>0, <1>23 DEF Deadline, Finally, callVars
<1>24. ASSUME NEW c \in Callers, Alarm(c) PROVE Settled
  BY <1>0, <1>24 DEF Alarm, Finally, callVars
<1>25. CASE UNCHANGED vars
  BY <1>25 DEF vars, callVars
<1>26. ASSUME NEW c \in Callers, Acquire(c) \/ Release(c) PROVE c \in Threads
  BY <1>26 DEF Acquire, Release
<1> QED
  BY <1>1, <1>2, <1>3, <1>4, <1>5, <1>6, <1>7, <1>8, <1>9, <1>10, <1>11, <1>12,
     <1>13, <1>14, <1>15, <1>16, <1>17, <1>18, <1>19, <1>20, <1>21, <1>22,
     <1>23, <1>24, <1>25, <1>26 DEF Next, CallerStep, ReaderStep

(* The api's threads go on sharing one fate, and each step that takes or   *)
(* returns a permit makes a thread busy or idle.                           *)
LEMMA PermitStep ==
  ASSUME FetcherAssumption, PermitInv, [Next]_vars
  PROVE  DieTogether' /\ PermitsKept'
<1>0. /\ TypeOK /\ DieTogether /\ PermitsKept
      /\ pc \in [Callers -> Pcs] /\ permits \in 0..Permits
      /\ Threads \subseteq Callers /\ Threads \cap Horses = {}
  BY FetcherAssumption, Parts DEF PermitInv, PcOK, Callers, FetcherAssumption, TypeOK
<1>1. IsFiniteSet(Busy)
  BY FetcherAssumption, FS_Subset DEF FetcherAssumption, Busy
<1>2. ASSUME NEW c \in Threads, Acquire(c) PROVE DieTogether' /\ PermitsKept'
  <2>1. pc' = [pc EXCEPT ![c] = "spawn"] /\ pc[c] = "idle" /\ permits' = permits - 1
    BY <1>2 DEF Acquire, Goto, At
  <2>2. Busy' = Busy \cup {c} /\ c \notin Busy
    BY <1>0, <2>1 DEF Busy, At
  <2>3. Cardinality(Busy') = Cardinality(Busy) + 1
    BY <1>1, <2>2, FS_AddElement
  <2>4. \A d \in Threads : At(d, "dead")' <=> At(d, "dead")
    BY <1>0, <2>1 DEF At
  <2>5. Cardinality(Busy) \in Nat
    BY <1>1, FS_CardinalityType
  <2>6. PermitsKept'
    BY FetcherAssumption, <1>0, <2>1, <2>3, <2>4, <2>5
       DEF PermitsKept, Busy, FetcherAssumption
  <2> QED
    BY <1>0, <2>4, <2>6 DEF DieTogether
<1>3. ASSUME NEW c \in Threads, Release(c) PROVE DieTogether' /\ PermitsKept'
  <2>1. pc' = [pc EXCEPT ![c] = "idle"] /\ pc[c] = "ended" /\ permits' = permits + 1
    BY <1>3 DEF Release, Forget, At
  <2>2. Busy' = Busy \ {c} /\ c \in Busy
    BY <1>0, <2>1 DEF Busy, At
  <2>3. Cardinality(Busy') = Cardinality(Busy) - 1
    BY <1>1, <2>2, FS_RemoveElement
  <2>4. \A d \in Threads : At(d, "dead")' <=> At(d, "dead")
    BY <1>0, <2>1 DEF At
  <2>5. Cardinality(Busy) \in Nat
    BY <1>1, FS_CardinalityType
  <2>6. PermitsKept'
    BY FetcherAssumption, <1>0, <2>1, <2>3, <2>4, <2>5
       DEF PermitsKept, Busy, FetcherAssumption
  <2> QED
    BY <1>0, <2>4, <2>6 DEF DieTogether
<1>4. ASSUME NEW c \in Callers, KillCaller(c) PROVE DieTogether' /\ PermitsKept'
  <2>1. /\ pc' = [d \in Callers |-> IF d \in (IF c \in Threads THEN Threads ELSE {c})
                                    THEN "dead" ELSE pc[d]]
        /\ permits' = permits
    BY <1>4 DEF KillCaller
  <2>2. CASE c \in Threads
    <3>1. \A d \in Threads : At(d, "dead")'
      BY <1>0, <2>1, <2>2 DEF At
    <3> QED
      BY <2>2, <3>1 DEF DieTogether, PermitsKept
  <2>3. CASE c \notin Threads
    <3>1. \A d \in Threads : pc'[d] = pc[d]
      BY <1>0, <2>1, <2>3
    <3>2. Busy' = Busy /\ DieTogether'
      BY <1>0, <3>1 DEF Busy, At, DieTogether
    <3> QED
      BY <1>0, <2>1, <3>1, <3>2 DEF PermitsKept, Busy, At
  <2> QED
    BY <2>2, <2>3
<1>5. CASE Settled
  <2>1. Busy' = Busy
    BY <1>5 DEF Settled, Busy
  <2> QED
    BY <1>0, <1>5, <2>1 DEF Settled, DieTogether, PermitsKept, Busy
<1> QED
  BY FetcherAssumption, <1>0, <1>2, <1>3, <1>4, <1>5, PermitShape

LEMMA PermitInitially == ASSUME FetcherAssumption, Init PROVE PermitInv
<1>1. Busy = {} /\ permits = Permits
  BY DEF Init, At, Callers, Busy
<1>2. PermitsKept
  BY FetcherAssumption, <1>1, FS_EmptySet DEF PermitsKept, FetcherAssumption, Busy
<1>3. DieTogether
  BY DEF Init, At, Callers, DieTogether
<1> QED
  BY FetcherAssumption, TypeInit, <1>2, <1>3 DEF PermitInv

LEMMA PermitInvariant == Spec => []PermitInv
<1>1. PermitInv /\ [Next]_vars => PermitInv'
  BY FetcherAssumption, TypeStep, PermitStep DEF PermitInv
<1> QED
  BY FetcherAssumption, PermitInitially, <1>1, PTL DEF Spec

(* Every reachable state is well typed, however many threads, horses and   *)
(* permits there are; in particular there are never more permits than      *)
(* MAX_CONCURRENT_LOOKUPS, nor fewer than none.                            *)
THEOREM TypeCorrect == Spec => []TypeOK
  BY PermitInvariant, PTL DEF PermitInv

(* No way out of a lookup keeps its permit (routes_links.py, _lookup).     *)
THEOREM Permission == Spec => []PermitsKept
  BY PermitInvariant, PTL DEF PermitInv
-----------------------------------------------------------------------------
(* What a call leaves.                                                     *)

(* Is the call somewhere where nothing of a child may be left: before one  *)
(* was started, once its group was killed, or over without the alarm?      *)
Clear(c) ==
  \/ pc[c] \in {"idle", "spawn", "wait", "close"}
  \/ At(c, "ended") /\ outcome[c] # "interrupted"

(* EndedWithoutChild is not inductive alone: how a call ends depends on    *)
(* what the finally has done on the way.                                   *)
ClearInv == TypeOK /\ \A c \in Callers : Clear(c) => Gone(c)

(* The actions of the call set its outcome and its place; Gone is undone   *)
(* by Spawn alone, for a helper is started by a running child only.        *)
LEMMA ClearStep ==
  ASSUME FetcherAssumption, ClearInv, TypeOK', [Next]_vars
  PROVE  ClearInv'
<1> SUFFICES ASSUME NEW d \in Callers, Clear(d)' PROVE Gone(d)'
  BY DEF ClearInv
<1>0. /\ Clear(d) => Gone(d)
      /\ Threads \cap Horses = {}
      /\ pc \in [Callers -> Pcs] /\ outcome \in [Callers -> Outcomes]
      /\ child \in [Callers -> Alive \cup {"none", "zombie", "reaped"}]
      /\ helper \in [Callers -> BOOLEAN]
  BY FetcherAssumption, Parts
     DEF ClearInv, TypeOK, PcOK, OutcomeOK, FetcherAssumption
<1> USE DEF Clear, Gone, At, Goto, Leave, Alive
<1>1. ASSUME NEW c \in Callers, Acquire(c) PROVE Gone(d)'
  BY <1>0, <1>1 DEF Acquire, Finally, callVars, childVars
<1>2. ASSUME NEW c \in Callers, StartDownload(c) PROVE Gone(d)'
  BY <1>0, <1>2 DEF StartDownload, Finally, callVars, childVars
<1>3. ASSUME NEW c \in Callers, Spawn(c) PROVE Gone(d)'
  BY <1>0, <1>3 DEF Spawn, Finally, callVars, childVars
<1>4. ASSUME NEW c \in Callers, EnterTry(c) PROVE Gone(d)'
  BY <1>0, <1>4 DEF EnterTry, Finally, callVars, childVars
<1>5. ASSUME NEW c \in Callers, StartReader(c) PROVE Gone(d)'
  BY <1>0, <1>5 DEF StartReader, Finally, callVars, childVars
<1>6. ASSUME NEW c \in Callers, Loop(c) PROVE Gone(d)'
  BY <1>0, <1>6 DEF Loop, Finally, callVars, childVars
<1>7. ASSUME NEW c \in Callers, Get(c) PROVE Gone(d)'
  BY <1>0, <1>7 DEF Get, Finally, callVars, childVars
<1>8. ASSUME NEW c \in Callers, GetEmpty(c) PROVE Gone(d)'
  BY <1>0, <1>8 DEF GetEmpty, Finally, callVars, childVars
<1>9. ASSUME NEW c \in Callers, Kill(c) PROVE Gone(d)'
  BY <1>0, <1>9 DEF Kill, KillGroup, Finally, callVars, childVars
<1>10. ASSUME NEW c \in Callers, Wait(c) PROVE Gone(d)'
  BY <1>0, <1>10 DEF Wait, Finally, callVars, childVars
<1>11. ASSUME NEW c \in Callers, Close(c) PROVE Gone(d)'
  BY <1>0, <1>11 DEF Close, Finally, callVars, childVars
<1>12. ASSUME NEW c \in Callers, Release(c) PROVE Gone(d)'
  BY <1>0, <1>12 DEF Release, Forget, Finally, callVars, childVars
<1>13. ASSUME NEW c \in Callers, ExitHorse(c) PROVE Gone(d)'
  BY <1>0, <1>13 DEF ExitHorse, Finally, callVars, childVars
<1>14. ASSUME NEW c \in Callers, SpawnFails(c) PROVE Gone(d)'
  BY <1>0, <1>14 DEF SpawnFails, Finally, callVars, childVars
<1>15. ASSUME NEW c \in Callers, NoThread(c) PROVE Gone(d)'
  BY <1>0, <1>15 DEF NoThread, Finally, callVars, childVars
<1>16. ASSUME NEW c \in Callers, CallbackRaises(c) PROVE Gone(d)'
  BY <1>0, <1>16 DEF CallbackRaises, Finally, callVars, childVars
<1>17. ASSUME NEW c \in Callers, ReadLine(c) PROVE Gone(d)'
  BY <1>0, <1>17 DEF ReadLine, Finally, callVars, childVars
<1>18. ASSUME NEW c \in Callers, ReadEnd(c) PROVE Gone(d)'
  BY <1>0, <1>18 DEF ReadEnd, Finally, callVars, childVars
<1>19. ASSUME NEW c \in Callers, WatchParent(c) PROVE Gone(d)'
  BY <1>0, <1>19 DEF WatchParent, Finally, callVars, childVars
<1>20. ASSUME NEW c \in Callers, StartHelper(c) PROVE Gone(d)'
  BY <1>0, <1>20 DEF StartHelper, Finally, callVars, childVars
<1>21. ASSUME NEW c \in Callers, EndHelper(c) PROVE Gone(d)'
  BY <1>0, <1>21 DEF EndHelper, Finally, callVars, childVars
<1>22. ASSUME NEW c \in Callers, Say(c) PROVE Gone(d)'
  BY <1>0, <1>22 DEF Say, Finally, callVars, childVars
<1>23. ASSUME NEW c \in Callers, Exit(c) PROVE Gone(d)'
  BY <1>0, <1>23 DEF Exit, Finally, callVars, childVars
<1>24. ASSUME NEW c \in Callers, DieWithParent(c) PROVE Gone(d)'
  BY <1>0, <1>24 DEF DieWithParent, KillGroup, Finally, callVars, childVars
<1>25. ASSUME NEW c \in Callers, Deadline(c) PROVE Gone(d)'
  BY <1>0, <1>25 DEF Deadline, Finally, callVars, childVars
<1>26. ASSUME NEW c \in Callers, Alarm(c) PROVE Gone(d)'
  BY <1>0, <1>26 DEF Alarm, Finally, callVars, childVars
<1>27. ASSUME NEW c \in Callers, KillCaller(c) PROVE Gone(d)'
  BY <1>0, <1>27 DEF KillCaller, Finally, callVars, childVars
<1>28. CASE UNCHANGED vars
  BY <1>0, <1>28 DEF vars, callVars, childVars
<1> QED
  BY <1>1, <1>2, <1>3, <1>4, <1>5, <1>6, <1>7, <1>8, <1>9, <1>10, <1>11, <1>12,
     <1>13, <1>14, <1>15, <1>16, <1>17, <1>18, <1>19, <1>20, <1>21, <1>22,
     <1>23, <1>24, <1>25, <1>26, <1>27, <1>28 DEF Next, CallerStep, ReaderStep

(* A call that the job timeout does not interrupt leaves nothing running:  *)
(* not the child, and nothing it started (fetcher.py, the finally of _run).*)
THEOREM Cleanup == Spec => []EndedWithoutChild
<1>1. Init => ClearInv
  BY FetcherAssumption, TypeInit DEF Init, ClearInv, Clear, Gone, At, Alive
<1>2. ClearInv /\ TypeOK' /\ [Next]_vars => ClearInv'
  BY FetcherAssumption, ClearStep
<1>3. ClearInv => EndedWithoutChild
  BY DEF ClearInv, Clear, EndedWithoutChild
<1> QED
  BY <1>1, <1>2, <1>3, TypeCorrect, PTL DEF Spec

-----------------------------------------------------------------------------
(* What a call is told.                                                    *)

Has(s, line) == \E i \in 1..Len(s) : s[i] = line
EndsLast(s)  == \A i \in 1..Len(s) : s[i] = "end" => i = Len(s)

LEMMA EmptyHas == EndsLast(<<>>) /\ \A line : ~Has(<<>>, line)
  BY DEF Has, EndsLast

LEMMA AppendHas ==
  ASSUME NEW s \in Seq(Lines), NEW x \in Lines
  PROVE  /\ \A line : Has(Append(s, x), line) <=> Has(s, line) \/ x = line
         /\ ~Has(s, "end") => EndsLast(Append(s, x))
<1>1. /\ Len(Append(s, x)) = Len(s) + 1
      /\ \A i \in 1..Len(s) : Append(s, x)[i] = s[i]
      /\ Append(s, x)[Len(s) + 1] = x
      /\ Len(s) \in Nat
  OBVIOUS
<1>2. 1..(Len(s) + 1) = (1..Len(s)) \cup {Len(s) + 1}
  BY <1>1
<1> QED
  BY <1>1, <1>2 DEF Has, EndsLast

LEMMA TailHas ==
  ASSUME NEW s \in Seq(Lines), s # <<>>
  PROVE  /\ \A line : Has(s, line) <=> Head(s) = line \/ Has(Tail(s), line)
         /\ EndsLast(s) => EndsLast(Tail(s))
         /\ EndsLast(s) /\ Head(s) = "end" => Tail(s) = <<>>
<1>1. /\ Len(s) \in Nat \ {0} /\ Len(Tail(s)) = Len(s) - 1
      /\ Head(s) = s[1] /\ Tail(s) \in Seq(Lines)
      /\ \A i \in 1..Len(s) - 1 : Tail(s)[i] = s[i + 1]
  OBVIOUS
<1>2. ASSUME NEW line PROVE Has(s, line) <=> Head(s) = line \/ Has(Tail(s), line)
  <2>1. ASSUME NEW i \in 1..Len(s), s[i] = line
        PROVE  Head(s) = line \/ Has(Tail(s), line)
    <3>1. CASE i = 1
      BY <1>1, <2>1, <3>1
    <3>2. CASE i # 1
      <4>1. i - 1 \in 1..Len(Tail(s)) /\ Tail(s)[i - 1] = line
        BY <1>1, <2>1, <3>2
      <4> QED
        BY SMTT(40), <4>1 DEF Has
    <3> QED
      BY <3>1, <3>2
  <2>2. ASSUME NEW i \in 1..Len(Tail(s)), Tail(s)[i] = line
        PROVE  Has(s, line)
    <3>1. i + 1 \in 1..Len(s) /\ s[i + 1] = line
      BY <1>1, <2>2
    <3> QED
      BY <3>1 DEF Has
  <2>3. Head(s) = line => Has(s, line)
    BY <1>1 DEF Has
  <2> QED
    BY <2>1, <2>2, <2>3 DEF Has
<1>3. ASSUME EndsLast(s) PROVE EndsLast(Tail(s))
  <2> SUFFICES ASSUME NEW i \in 1..Len(Tail(s)), Tail(s)[i] = "end"
               PROVE  i = Len(Tail(s))
    BY DEF EndsLast
  <2>1. i + 1 \in 1..Len(s) /\ s[i + 1] = "end"
    BY <1>1
  <2>2. i + 1 = Len(s)
    BY <1>3, <2>1 DEF EndsLast
  <2>3. i \in Nat
    BY <1>1
  <2>4. Len(s) \in Nat /\ Len(Tail(s)) = Len(s) - 1
    BY <1>1
  <2> HIDE <1>1
  <2>5. Len(s) - 1 = i
    BY <2>2, <2>3, <2>4
  <2> QED
    BY <2>4, <2>5
<1>4. ASSUME EndsLast(s), Head(s) = "end" PROVE Tail(s) = <<>>
  <2>1. Len(s) = 1
    <3>1. 1 \in 1..Len(s) /\ s[1] = "end"
      BY <1>1, <1>4
    <3> QED
      BY <1>4, <3>1 DEF EndsLast
  <2>2. Tail(s) \in Seq(Lines) /\ Len(Tail(s)) = 0
    BY SMTT(40), <1>1, <2>1
  <2> QED
    BY <2>2, EmptySeq
<1> QED
  BY <1>2, <1>3, <1>4

(* An answer is one line of what the child wrote, and no line is lost on   *)
(* its way; the reader's "end" comes after them all.  So a call that waits *)
(* has the answer before it, or there is none.                             *)
Heard(c) ==
  /\ pc[c] \in {"idle", "spawn"} => /\ said[c] = "nothing" /\ stdout[c] = <<>>
                                   /\ child[c] = "none"
  /\ pc[c] \in {"idle", "spawn", "unguarded", "reader"} =>
       reader[c] = "off" /\ lines[c] = <<>> /\ outcome[c] = "none"
  /\ \A line \in Answers :
       Has(lines[c], line) \/ Has(stdout[c], line) => said[c] = line
  /\ EndsLast(lines[c])
  /\ Has(lines[c], "end") =>
       reader[c] = "done" /\ stdout[c] = <<>> /\ child[c] \notin Alive
  /\ pc[c] \in {"unguarded", "reader", "loop", "get"} /\ said[c] \in Answers =>
       Has(lines[c], said[c]) \/ Has(stdout[c], said[c])
  /\ outcome[c] \in {"result", "error"} => said[c] = outcome[c]
  /\ outcome[c] = "crashed" =>
       \/ said[c] = "garbage"
       \/ said[c] = "nothing" /\ child[c] \notin Alive
  /\ outcome[c] = "timeout" => late[c]

HeardInv == \A c \in Callers : Heard(c)

LEMMA HeardStep ==
  ASSUME FetcherAssumption, TypeOK, HeardInv, [Next]_vars
  PROVE  HeardInv'
<1> SUFFICES ASSUME NEW d \in Callers PROVE Heard(d)'
  BY DEF HeardInv
<1>0. /\ Heard(d)
      /\ Threads \cap Horses = {}
      /\ pc \in [Callers -> Pcs] /\ outcome \in [Callers -> Outcomes]
      /\ late \in [Callers -> BOOLEAN]
      /\ stdin \in [Callers -> BOOLEAN]
      /\ reader \in [Callers -> {"off", "reading", "done"}]
      /\ lines \in [Callers -> Seq(Lines)]
      /\ stdout \in [Callers -> Seq(Lines \ {"end"})]
      /\ child \in [Callers -> Alive \cup {"none", "zombie", "reaped"}]
      /\ helper \in [Callers -> BOOLEAN]
      /\ said \in [Callers -> Answers \cup {"nothing"}]
  BY FetcherAssumption, Parts
     DEF HeardInv, TypeOK, PcOK, OutcomeOK, FetcherAssumption
<1> USE DEF Heard, At, Goto, Leave, Alive, Finally
<1>1. ASSUME NEW c \in Callers, Acquire(c) PROVE Heard(d)'
  BY <1>0, <1>1, EmptyHas DEF Acquire, callVars, readerVars, childVars
<1>2. ASSUME NEW c \in Callers, StartDownload(c) PROVE Heard(d)'
  BY <1>0, <1>2, EmptyHas DEF StartDownload, callVars, readerVars, childVars
<1>3. ASSUME NEW c \in Callers, EnterTry(c) PROVE Heard(d)'
  BY <1>0, <1>3, EmptyHas DEF EnterTry, callVars, readerVars, childVars
<1>4. ASSUME NEW c \in Callers, StartReader(c) PROVE Heard(d)'
  BY <1>0, <1>4, EmptyHas DEF StartReader, callVars, readerVars, childVars
<1>5. ASSUME NEW c \in Callers, Loop(c) PROVE Heard(d)'
  BY <1>0, <1>5, EmptyHas DEF Loop, callVars, readerVars, childVars
<1>6. ASSUME NEW c \in Callers, GetEmpty(c) PROVE Heard(d)'
  BY <1>0, <1>6, EmptyHas DEF GetEmpty, callVars, readerVars, childVars
<1>7. ASSUME NEW c \in Callers, Kill(c) PROVE Heard(d)'
  BY <1>0, <1>7, EmptyHas DEF Kill, KillGroup, callVars, readerVars, childVars
<1>8. ASSUME NEW c \in Callers, Wait(c) PROVE Heard(d)'
  BY <1>0, <1>8, EmptyHas DEF Wait, callVars, readerVars, childVars
<1>9. ASSUME NEW c \in Callers, Close(c) PROVE Heard(d)'
  BY <1>0, <1>9, EmptyHas DEF Close, callVars, readerVars, childVars
<1>10. ASSUME NEW c \in Callers, ExitHorse(c) PROVE Heard(d)'
  BY <1>0, <1>10, EmptyHas DEF ExitHorse, callVars, readerVars, childVars
<1>11. ASSUME NEW c \in Callers, SpawnFails(c) PROVE Heard(d)'
  BY <1>0, <1>11, EmptyHas DEF SpawnFails, callVars, readerVars, childVars
<1>12. ASSUME NEW c \in Callers, NoThread(c) PROVE Heard(d)'
  BY <1>0, <1>12, EmptyHas DEF NoThread, callVars, readerVars, childVars
<1>13. ASSUME NEW c \in Callers, CallbackRaises(c) PROVE Heard(d)'
  BY <1>0, <1>13, EmptyHas DEF CallbackRaises, callVars, readerVars, childVars
<1>14. ASSUME NEW c \in Callers, WatchParent(c) PROVE Heard(d)'
  BY <1>0, <1>14, EmptyHas DEF WatchParent, callVars, readerVars, childVars
<1>15. ASSUME NEW c \in Callers, StartHelper(c) PROVE Heard(d)'
  BY <1>0, <1>15, EmptyHas DEF StartHelper, callVars, readerVars, childVars
<1>16. ASSUME NEW c \in Callers, EndHelper(c) PROVE Heard(d)'
  BY <1>0, <1>16, EmptyHas DEF EndHelper, callVars, readerVars, childVars
<1>17. ASSUME NEW c \in Callers, Exit(c) PROVE Heard(d)'
  BY <1>0, <1>17, EmptyHas DEF Exit, callVars, readerVars, childVars
<1>18. ASSUME NEW c \in Callers, DieWithParent(c) PROVE Heard(d)'
  BY <1>0, <1>18, EmptyHas DEF DieWithParent, KillGroup, callVars, readerVars, childVars
<1>19. ASSUME NEW c \in Callers, Deadline(c) PROVE Heard(d)'
  BY <1>0, <1>19, EmptyHas DEF Deadline, callVars, readerVars, childVars
<1>20. ASSUME NEW c \in Callers, Alarm(c) PROVE Heard(d)'
  BY <1>0, <1>20, EmptyHas DEF Alarm, callVars, readerVars, childVars
<1>21. ASSUME NEW c \in Callers, KillCaller(c) PROVE Heard(d)'
  BY <1>0, <1>21, EmptyHas DEF KillCaller, callVars, readerVars, childVars
<1>22. ASSUME NEW c \in Callers, Spawn(c) PROVE Heard(d)'
  <2>1. CASE c # d
    BY <1>0, <1>22, <2>1 DEF Spawn, callVars, readerVars, childVars
  <2>2. CASE c = d
    <3>1. /\ pc[d] = "spawn" /\ pc'[d] = "unguarded" /\ child'[d] = "starting"
          /\ reader'[d] = reader[d] /\ lines'[d] = lines[d]
          /\ outcome'[d] = outcome[d] /\ late'[d] = late[d]
          /\ said'[d] = said[d] /\ stdout'[d] = stdout[d]
      BY <1>0, <1>22, <2>2 DEF Spawn, readerVars
    <3>2. /\ reader[d] = "off" /\ lines[d] = <<>> /\ outcome[d] = "none"
          /\ said[d] = "nothing" /\ stdout[d] = <<>>
      BY <1>0, <3>1
    <3> QED
      BY <3>1, <3>2, EmptyHas DEF Answers
  <2> QED
    BY <2>1, <2>2
<1>23. ASSUME NEW c \in Callers, Release(c) PROVE Heard(d)'
  BY <1>0, <1>23, EmptyHas DEF Release, Forget, callVars, readerVars, childVars
<1>30. CASE UNCHANGED vars
  BY <1>0, <1>30 DEF vars, callVars, readerVars, childVars
<1>24. ASSUME NEW c \in Callers, Get(c) PROVE Heard(d)'
  <2>1. CASE c # d
    BY <1>0, <1>24, <2>1 DEF Get, callVars, readerVars, childVars
  <2>2. CASE c = d
    <3>1. /\ lines[d] \in Seq(Lines) /\ lines[d] # <<>>
          /\ lines'[d] = Tail(lines[d]) /\ pc[d] = "get"
      BY <1>0, <1>24, <2>2 DEF Get
    <3>2. /\ \A line : Has(lines[d], line)
                        <=> Head(lines[d]) = line \/ Has(lines'[d], line)
          /\ EndsLast(lines'[d])
          /\ Head(lines[d]) = "end" => lines'[d] = <<>>
      BY <1>0, <3>1, TailHas
    <3>3. /\ reader'[d] = reader[d] /\ stdout'[d] = stdout[d]
          /\ child'[d] = child[d] /\ said'[d] = said[d] /\ late'[d] = late[d]
      BY <1>24 DEF Get, childVars
    <3>4. CASE Head(lines[d]) = "progress" /\ Goto(d, "loop") /\ UNCHANGED outcome
      <4>1. pc'[d] = "loop" /\ outcome'[d] = outcome[d]
        BY <1>0, <3>4
      <4> QED
        BY <1>0, <3>1, <3>2, <3>3, <3>4, <4>1 DEF Answers
    <3>5. CASE Head(lines[d]) \in {"result", "error"} /\ Leave(d, Head(lines[d]))
      <4>1. pc'[d] = "kill" /\ outcome'[d] = Head(lines[d])
        BY <1>0, <3>5
      <4>2. said[d] = Head(lines[d])
        BY <1>0, <3>2, <3>5 DEF Answers
      <4> QED
        BY <1>0, <3>2, <3>3, <3>5, <4>1, <4>2
    <3>6. CASE Head(lines[d]) = "garbage" /\ Leave(d, "crashed")
      <4>1. pc'[d] = "kill" /\ outcome'[d] = "crashed"
        BY <1>0, <3>6
      <4>2. said[d] = "garbage"
        BY <1>0, <3>2, <3>6 DEF Answers
      <4> QED
        BY <1>0, <3>2, <3>3, <4>1, <4>2
    <3>7. CASE Head(lines[d]) = "end" /\ Leave(d, "crashed")
      <4>1. pc'[d] = "kill" /\ outcome'[d] = "crashed"
        BY <1>0, <3>7
      <4>2. /\ Has(lines[d], "end") /\ lines'[d] = <<>>
            /\ stdout[d] = <<>> /\ child[d] \notin Alive
        BY <1>0, <3>2, <3>7
      <4>3. said[d] \notin Answers
        BY <1>0, <3>1, <3>2, <3>7, <4>2, EmptyHas DEF Answers
      <4>4. said[d] = "nothing"
        BY <1>0, <4>3
      <4> QED
        BY <1>0, <3>2, <3>3, <4>1, <4>2, <4>4, EmptyHas
    <3> QED
      BY <1>24, <2>2, <3>4, <3>5, <3>6, <3>7 DEF Get
  <2> QED
    BY <2>1, <2>2
<1>25. ASSUME NEW c \in Callers, ReadLine(c) PROVE Heard(d)'
  <2>1. CASE c # d
    BY <1>0, <1>25, <2>1 DEF ReadLine, callVars, readerVars, childVars
  <2>2. CASE c = d
    <3>1. /\ reader[d] = "reading" /\ reader'[d] = reader[d]
          /\ pc'[d] = pc[d] /\ outcome'[d] = outcome[d] /\ late'[d] = late[d]
          /\ child'[d] = child[d] /\ said'[d] = said[d]
          /\ stdout[d] # <<>> /\ stdout'[d] = Tail(stdout[d])
          /\ lines'[d] = Append(lines[d], Head(stdout[d]))
      BY <1>0, <1>25, <2>2 DEF ReadLine, Reading, callVars
    <3>2. /\ stdout[d] \in Seq(Lines) /\ lines[d] \in Seq(Lines)
          /\ Head(stdout[d]) \in Lines /\ Head(stdout[d]) # "end"
      BY <1>0, <3>1
    <3>3. \A line : Has(stdout[d], line)
                      <=> Head(stdout[d]) = line \/ Has(stdout'[d], line)
      BY <3>1, <3>2, TailHas
    <3>4. ~Has(lines[d], "end")
      BY <1>0, <3>1
    <3>5. /\ \A line : Has(lines'[d], line)
                        <=> Has(lines[d], line) \/ Head(stdout[d]) = line
          /\ EndsLast(lines'[d])
      BY <3>1, <3>2, <3>4, AppendHas
    <3>6. ~Has(lines'[d], "end")
      BY <3>2, <3>4, <3>5
    <3> QED
      BY <1>0, <3>1, <3>3, <3>5, <3>6
  <2> QED
    BY <2>1, <2>2
<1>26. ASSUME NEW c \in Callers, ReadEnd(c) PROVE Heard(d)'
  <2>1. CASE c # d
    BY <1>0, <1>26, <2>1 DEF ReadEnd, callVars, readerVars, childVars
  <2>2. CASE c = d
    <3>1. /\ reader[d] = "reading" /\ reader'[d] = "done"
          /\ pc'[d] = pc[d] /\ outcome'[d] = outcome[d] /\ late'[d] = late[d]
          /\ child'[d] = child[d] /\ said'[d] = said[d]
          /\ stdout[d] = <<>> /\ stdout'[d] = stdout[d]
          /\ child[d] \notin Alive
          /\ lines'[d] = Append(lines[d], "end")
      BY <1>0, <1>26, <2>2 DEF ReadEnd, Reading, callVars, childVars
    <3>2. lines[d] \in Seq(Lines) /\ "end" \in Lines
      BY <1>0 DEF Lines
    <3>3. ~Has(lines[d], "end")
      BY <1>0, <3>1
    <3>4. /\ \A line : Has(lines'[d], line) <=> Has(lines[d], line) \/ "end" = line
          /\ EndsLast(lines'[d])
      BY <3>1, <3>2, <3>3, AppendHas
    <3> QED
      BY <1>0, <3>1, <3>4 DEF Answers
  <2> QED
    BY <2>1, <2>2
<1>27. ASSUME NEW c \in Callers, Say(c) PROVE Heard(d)'
  <2>1. CASE c # d
    BY <1>0, <1>27, <2>1 DEF Say, callVars, readerVars, childVars
  <2>2. CASE c = d
    <3>1. PICK line \in Lines \ {"end"} :
            /\ stdout' = [stdout EXCEPT ![d] = Append(@, line)]
            /\ said' = [said EXCEPT ![d] = IF line \in Answers THEN line ELSE @]
      BY <1>27, <2>2 DEF Say
    <3>2. /\ child[d] = "running" /\ said[d] = "nothing"
          /\ reader'[d] = reader[d] /\ lines'[d] = lines[d]
          /\ pc'[d] = pc[d] /\ outcome'[d] = outcome[d] /\ late'[d] = late[d]
          /\ child'[d] = child[d]
          /\ stdout'[d] = Append(stdout[d], line)
          /\ said'[d] = IF line \in Answers THEN line ELSE "nothing"
      BY <1>0, <1>27, <2>2, <3>1 DEF Say, callVars, readerVars
    <3>3. stdout[d] \in Seq(Lines)
      BY <1>0
    <3>4. \A x : Has(stdout'[d], x) <=> Has(stdout[d], x) \/ line = x
      BY <3>1, <3>2, <3>3, AppendHas
    <3>5. \A x \in Answers : ~Has(lines[d], x) /\ ~Has(stdout[d], x)
      BY <1>0, <3>2 DEF Answers
    <3>6. pc[d] \notin {"idle", "spawn"}
      BY <1>0, <3>2
    <3> QED
      BY <1>0, <3>1, <3>2, <3>4, <3>5, <3>6
  <2> QED
    BY <2>1, <2>2
<1> QED
  BY <1>1, <1>2, <1>3, <1>4, <1>5, <1>6, <1>7, <1>8, <1>9, <1>10, <1>11, <1>12, <1>13, <1>14, <1>15, <1>16, <1>17, <1>18, <1>19, <1>20, <1>21, <1>22, <1>23, <1>24, <1>25, <1>26, <1>27, <1>30
     DEF Next, CallerStep, ReaderStep

(* What a call ends with is what the child said: an answer it wrote before *)
(* it exited is not lost, nor made up, and no crash is told of one that    *)
(* answered (fetcher.py, _answer).                                         *)
THEOREM Telling == Spec => []AnswerTold
<1>1. Init => HeardInv
  BY EmptyHas DEF Init, HeardInv, Heard
<1>2. TypeOK /\ HeardInv /\ [Next]_vars => HeardInv'
  BY FetcherAssumption, HeardStep
<1>3. HeardInv => AnswerTold
  BY DEF HeardInv, Heard, AnswerTold
<1> QED
  BY <1>1, <1>2, <1>3, TypeCorrect, PTL DEF Spec
=============================================================================
