---------------------------- MODULE ChildFetcher ----------------------------
(***************************************************************************)
(* A call of ChildFetcher (packages/fetch/fetcher.py) and the child it     *)
(* starts (child.py): the deadline, the child's answer, its crash, the     *)
(* parent's death and the job timeout's alarm, in any order.               *)
(*                                                                         *)
(* A caller is a thread of the api, which looks a link up under one of     *)
(* the lookups' permits (routes_links.py), or a worker's horse, which      *)
(* downloads.  Its pc:                                                     *)
(*   idle        no call                                                   *)
(*   spawn       Popen to call                                             *)
(*   unguarded   the child runs; the try that kills it is not entered      *)
(*   reader      the reader thread to start                                *)
(*   loop, get   _answer: the deadline to check, a line to get             *)
(*   kill, wait, close    the finally                                      *)
(*   ended       _run has returned or raised                               *)
(*   dead        the caller's process is gone                              *)
(***************************************************************************)
EXTENDS Naturals, Sequences, FiniteSets

CONSTANTS
  Threads,    \* the api's threads
  Horses,     \* the workers' horses: the job timeout's alarm is set
  Permits,    \* MAX_CONCURRENT_LOOKUPS
  MaxFaults,  \* bound: processes killed, children crashed, failed starts
  MaxLines    \* bound: lines in the stdout pipe, or with the reader

ASSUME FetcherAssumption ==
  /\ Threads \cap Horses = {}
  /\ IsFiniteSet(Threads)
  /\ Permits \in Nat \ {0}
  /\ MaxFaults \in Nat
  /\ MaxLines \in Nat \ {0}

Callers == Threads \cup Horses

VARIABLES
  pc, outcome,  \* the call: where it is, and how it ended
  late,         \* is the deadline past?
  stdin,        \* does the caller hold the write end of the child's stdin?
  reader,       \* the reader thread: "off", "reading" or "done"
  lines,        \* the queue between the reader and the caller
  stdout,       \* what the child wrote and the reader has not read
  child,        \* the child: "none", "starting", "running", "zombie", "reaped"
  helper,       \* is there another process in its group, Deno or ffmpeg?
  said,         \* its answer: the first line that is not progress
  permits,      \* of the lookups, those free
  faults        \* how many more faults may happen

callVars   == <<pc, outcome, late>>
readerVars == <<reader, lines>>
childVars  == <<child, helper, said, stdout>>
vars == <<callVars, stdin, readerVars, childVars, permits, faults>>

Answers  == {"result", "error", "garbage"}
Lines    == Answers \cup {"progress", "end"}
Outcomes == {"none", "result", "error", "crashed", "timeout", "unstarted",
             "raised", "interrupted"}
Finally  == {"kill", "wait", "close"}
Alive    == {"starting", "running"}

TypeOK ==
  /\ pc \in [Callers -> {"idle", "spawn", "unguarded", "reader", "loop", "get",
                         "ended", "dead"} \cup Finally]
  /\ outcome \in [Callers -> Outcomes]
  /\ late \in [Callers -> BOOLEAN]
  /\ stdin \in [Callers -> BOOLEAN]
  /\ reader \in [Callers -> {"off", "reading", "done"}]
  /\ lines \in [Callers -> Seq(Lines)]
  /\ stdout \in [Callers -> Seq(Lines \ {"end"})]
  /\ child \in [Callers -> Alive \cup {"none", "zombie", "reaped"}]
  /\ helper \in [Callers -> BOOLEAN]
  /\ said \in [Callers -> Answers \cup {"nothing"}]
  /\ permits \in 0..Permits
  /\ faults \in 0..MaxFaults

Init ==
  /\ pc = [c \in Callers |-> "idle"]
  /\ outcome = [c \in Callers |-> "none"]
  /\ late = [c \in Callers |-> FALSE]
  /\ stdin = [c \in Callers |-> FALSE]
  /\ reader = [c \in Callers |-> "off"]
  /\ lines = [c \in Callers |-> <<>>]
  /\ stdout = [c \in Callers |-> <<>>]
  /\ child = [c \in Callers |-> "none"]
  /\ helper = [c \in Callers |-> FALSE]
  /\ said = [c \in Callers |-> "nothing"]
  /\ permits = Permits
  /\ faults = MaxFaults

Fault == faults > 0 /\ faults' = faults - 1

At(c, place) == pc[c] = place
Goto(c, place) == pc' = [pc EXCEPT ![c] = place]

(* The call leaves _answer, or the start of the reader, for the finally.   *)
Leave(c, how) ==
  /\ Goto(c, "kill")
  /\ outcome' = [outcome EXCEPT ![c] = how]

(* Nothing of the child is left.                                           *)
Gone(c) == child[c] \notin Alive /\ ~helper[c]

-----------------------------------------------------------------------------
(* The call.                                                               *)

(* _lookup: a permit, or the request is refused at once.                   *)
Acquire(c) ==
  /\ c \in Threads
  /\ At(c, "idle")
  /\ permits > 0
  /\ permits' = permits - 1
  /\ Goto(c, "spawn")
  /\ UNCHANGED <<outcome, late, stdin, readerVars, childVars, faults>>

(* A horse's one download.                                                 *)
StartDownload(c) ==
  /\ c \in Horses
  /\ At(c, "idle")
  /\ Goto(c, "spawn")
  /\ UNCHANGED <<outcome, late, stdin, readerVars, childVars, permits, faults>>

Spawn(c) ==
  /\ At(c, "spawn")
  /\ Goto(c, "unguarded")
  /\ child' = [child EXCEPT ![c] = "starting"]
  /\ stdin' = [stdin EXCEPT ![c] = TRUE]
  /\ UNCHANGED <<outcome, late, readerVars, helper, said, stdout, permits, faults>>

(* No file for stderr, no process: an OSError.                             *)
SpawnFails(c) ==
  /\ At(c, "spawn")
  /\ Fault
  /\ Goto(c, "ended")
  /\ outcome' = [outcome EXCEPT ![c] = "unstarted"]
  /\ UNCHANGED <<late, stdin, readerVars, childVars, permits>>

EnterTry(c) ==
  /\ At(c, "unguarded")
  /\ Goto(c, "reader")
  /\ UNCHANGED <<outcome, late, stdin, readerVars, childVars, permits, faults>>

StartReader(c) ==
  /\ At(c, "reader")
  /\ Goto(c, "loop")
  /\ reader' = [reader EXCEPT ![c] = "reading"]
  /\ UNCHANGED <<outcome, late, stdin, lines, childVars, permits, faults>>

NoThread(c) ==
  /\ At(c, "reader")
  /\ Fault
  /\ Leave(c, "unstarted")
  /\ UNCHANGED <<late, stdin, readerVars, childVars, permits>>

(* Mutant: the deadline is looked at only when there is nothing to read.   *)
LoopUntilSilent(c) ==
  /\ At(c, "loop")
  /\ IF late[c] /\ lines[c] = <<>>
     THEN Leave(c, "timeout")
     ELSE Goto(c, "get") /\ UNCHANGED outcome
  /\ UNCHANGED <<late, stdin, readerVars, childVars, permits, faults>>

Loop(c) ==
  /\ At(c, "loop")
  /\ IF late[c] THEN Leave(c, "timeout")
                ELSE Goto(c, "get") /\ UNCHANGED outcome
  /\ UNCHANGED <<late, stdin, readerVars, childVars, permits, faults>>

(* Mutant: a child that has exited is taken for crashed, whatever it has   *)
(* answered.                                                               *)
GetWhileRunning(c) ==
  /\ At(c, "get")
  /\ IF child[c] = "zombie"
     THEN Leave(c, "crashed") /\ UNCHANGED lines
     ELSE /\ lines[c] # <<>>
          /\ lines' = [lines EXCEPT ![c] = Tail(@)]
          /\ \/ Head(lines[c]) = "progress" /\ Goto(c, "loop") /\ UNCHANGED outcome
             \/ Head(lines[c]) \in {"result", "error"} /\ Leave(c, Head(lines[c]))
             \/ Head(lines[c]) = "garbage" /\ Leave(c, "crashed")
  /\ UNCHANGED <<late, stdin, reader, childVars, permits, faults>>

(* The next line: progress, an answer, or one that cannot be read.         *)
Get(c) ==
  /\ At(c, "get")
  /\ lines[c] # <<>>
  /\ lines' = [lines EXCEPT ![c] = Tail(@)]
  /\ \/ Head(lines[c]) = "progress" /\ Goto(c, "loop") /\ UNCHANGED outcome
     \/ Head(lines[c]) \in {"result", "error"} /\ Leave(c, Head(lines[c]))
     \/ Head(lines[c]) = "garbage" /\ Leave(c, "crashed")
     \/ Head(lines[c]) = "end" /\ Leave(c, "crashed")
  /\ UNCHANGED <<late, stdin, reader, childVars, permits, faults>>

(* queue.Empty, the time that remained having passed.                      *)
GetEmpty(c) ==
  /\ At(c, "get")
  /\ lines[c] = <<>>
  /\ late[c]
  /\ Goto(c, "loop")
  /\ UNCHANGED <<outcome, late, stdin, readerVars, childVars, permits, faults>>

(* The progress callback raises: the row could not be written.             *)
CallbackRaises(c) ==
  /\ c \in Horses
  /\ At(c, "get")
  /\ lines[c] # <<>> /\ Head(lines[c]) = "progress"
  /\ Fault
  /\ Leave(c, "raised")
  /\ UNCHANGED <<late, stdin, readerVars, childVars, permits>>

-----------------------------------------------------------------------------
(* The finally, and after it.                                              *)

KillGroup(c) ==
  /\ child' = [child EXCEPT ![c] = IF @ \in Alive THEN "zombie" ELSE @]
  /\ helper' = [helper EXCEPT ![c] = FALSE]

(* Mutant: only the child is killed, not its group.                        *)
KillChildOnly(c) ==
  /\ At(c, "kill")
  /\ Goto(c, "wait")
  /\ child' = [child EXCEPT ![c] = IF @ \in Alive THEN "zombie" ELSE @]
  /\ UNCHANGED <<outcome, late, stdin, readerVars, helper, said, stdout,
                 permits, faults>>

Kill(c) ==
  /\ At(c, "kill")
  /\ Goto(c, "wait")
  /\ KillGroup(c)
  /\ UNCHANGED <<outcome, late, stdin, readerVars, said, stdout, permits, faults>>

Wait(c) ==
  /\ At(c, "wait")
  /\ child[c] \notin Alive
  /\ Goto(c, "close")
  /\ child' = [child EXCEPT ![c] = "reaped"]
  /\ UNCHANGED <<outcome, late, stdin, readerVars, helper, said, stdout,
                 permits, faults>>

(* _close_pipes: the reader is waited for, though not forever, and our end *)
(* of the child's stdin closed.                                            *)
Close(c) ==
  /\ At(c, "close")
  /\ Goto(c, "ended")
  /\ stdin' = [stdin EXCEPT ![c] = FALSE]
  /\ UNCHANGED <<outcome, late, readerVars, childVars, permits, faults>>

(* The call is over, and forgotten.                                        *)
Forget(c) ==
  /\ pc' = [pc EXCEPT ![c] = "idle"]
  /\ outcome' = [outcome EXCEPT ![c] = "none"]
  /\ late' = [late EXCEPT ![c] = FALSE]
  /\ stdin' = [stdin EXCEPT ![c] = FALSE]
  /\ reader' = [reader EXCEPT ![c] = "off"]
  /\ lines' = [lines EXCEPT ![c] = <<>>]
  /\ stdout' = [stdout EXCEPT ![c] = <<>>]
  /\ child' = [child EXCEPT ![c] = "none"]
  /\ helper' = [helper EXCEPT ![c] = FALSE]
  /\ said' = [said EXCEPT ![c] = "nothing"]

(* Mutant: the permit is returned with a result, and kept on a failure.    *)
ReleaseAfterResult(c) ==
  /\ c \in Threads
  /\ At(c, "ended")
  /\ permits' = IF outcome[c] = "result" THEN permits + 1 ELSE permits
  /\ Forget(c)
  /\ UNCHANGED faults

(* Mutant: a refused lookup returns its permit, and then the finally does. *)
ReleaseTwice(c) ==
  /\ c \in Threads
  /\ At(c, "ended")
  /\ permits' = IF outcome[c] = "error" THEN permits + 2 ELSE permits + 1
  /\ Forget(c)
  /\ UNCHANGED faults

(* _lookup's finally.                                                      *)
Release(c) ==
  /\ c \in Threads
  /\ At(c, "ended")
  /\ permits' = permits + 1
  /\ Forget(c)
  /\ UNCHANGED faults

(* After a download the horse works on, or its job ends and it exits.      *)
ExitHorse(c) ==
  /\ c \in Horses
  /\ At(c, "ended")
  /\ Goto(c, "dead")
  /\ stdin' = [stdin EXCEPT ![c] = FALSE]
  /\ UNCHANGED <<outcome, late, readerVars, childVars, permits, faults>>

-----------------------------------------------------------------------------
(* The reader thread.                                                      *)

(* Its process gone, a thread is gone.                                     *)
Reading(c) == reader[c] = "reading" /\ ~At(c, "dead")

ReadLine(c) ==
  /\ Reading(c)
  /\ stdout[c] # <<>>
  /\ Len(lines[c]) < MaxLines
  /\ lines' = [lines EXCEPT ![c] = Append(@, Head(stdout[c]))]
  /\ stdout' = [stdout EXCEPT ![c] = Tail(@)]
  /\ UNCHANGED <<callVars, stdin, reader, child, helper, said, permits, faults>>

(* End of output: the child alone held the other end.                      *)
ReadEnd(c) ==
  /\ Reading(c)
  /\ stdout[c] = <<>>
  /\ child[c] \notin Alive
  /\ lines' = [lines EXCEPT ![c] = Append(@, "end")]
  /\ reader' = [reader EXCEPT ![c] = "done"]
  /\ UNCHANGED <<callVars, stdin, childVars, permits, faults>>

-----------------------------------------------------------------------------
(* The child.                                                              *)

(* watch_parent, the first thing it does.                                  *)
WatchParent(c) ==
  /\ child[c] = "starting"
  /\ child' = [child EXCEPT ![c] = "running"]
  /\ UNCHANGED <<callVars, stdin, readerVars, helper, said, stdout, permits, faults>>

(* yt-dlp waits for what it starts, and says nothing meanwhile.            *)
StartHelper(c) ==
  /\ child[c] = "running"
  /\ said[c] = "nothing"
  /\ helper' = [helper EXCEPT ![c] = TRUE]
  /\ UNCHANGED <<callVars, stdin, readerVars, child, said, stdout, permits, faults>>

EndHelper(c) ==
  /\ helper[c]
  /\ helper' = [helper EXCEPT ![c] = FALSE]
  /\ UNCHANGED <<callVars, stdin, readerVars, child, said, stdout, permits, faults>>

(* send: progress, as often as it likes, and then the one answer.          *)
Say(c) ==
  /\ child[c] = "running"
  /\ said[c] = "nothing"
  /\ ~helper[c]
  /\ Len(stdout[c]) < MaxLines
  /\ \E line \in Lines \ {"end"} :
        /\ stdout' = [stdout EXCEPT ![c] = Append(@, line)]
        /\ said' = [said EXCEPT ![c] = IF line \in Answers THEN line ELSE @]
  /\ UNCHANGED <<callVars, stdin, readerVars, child, helper, permits, faults>>

(* It exits once it has answered, or crashes, whatever it has started.     *)
Exit(c) ==
  /\ \/ child[c] = "running" /\ said[c] # "nothing" /\ UNCHANGED faults
     \/ child[c] \in Alive /\ said[c] = "nothing" /\ Fault
  /\ child' = [child EXCEPT ![c] = "zombie"]
  /\ UNCHANGED <<callVars, stdin, readerVars, helper, said, stdout, permits>>

(* Mutant: _die_with_parent kills its own process only.                    *)
DieAlone(c) ==
  /\ child[c] = "running"
  /\ ~stdin[c]
  /\ child' = [child EXCEPT ![c] = "zombie"]
  /\ UNCHANGED <<callVars, stdin, readerVars, helper, said, stdout, permits, faults>>

(* _die_with_parent: end-of-file on the watched pipe.                      *)
DieWithParent(c) ==
  /\ child[c] = "running"
  /\ ~stdin[c]
  /\ KillGroup(c)
  /\ UNCHANGED <<callVars, stdin, readerVars, said, stdout, permits, faults>>

-----------------------------------------------------------------------------
(* Around both.                                                            *)

Deadline(c) ==
  /\ pc[c] \in {"reader", "loop", "get"}
  /\ ~late[c]
  /\ late' = [late EXCEPT ![c] = TRUE]
  /\ UNCHANGED <<pc, outcome, stdin, readerVars, childVars, permits, faults>>

(* The job timeout raises JobTimedOut into whatever the horse is at.       *)
(* Inside the try the finally runs; before it, or in it, it does not.      *)
Alarm(c) ==
  /\ c \in Horses
  /\ Fault
  /\ pc[c] \in {"spawn", "unguarded", "reader", "loop", "get"} \cup Finally
  /\ IF pc[c] \in {"reader", "loop", "get"}
     THEN Leave(c, "interrupted")
     ELSE /\ Goto(c, "ended")
          /\ outcome' = [outcome EXCEPT ![c] = "interrupted"]
  /\ UNCHANGED <<late, stdin, readerVars, childVars, permits>>

(* SIGKILL, to a horse or to the api with all its threads.                 *)
KillCaller(c) ==
  LET killed == IF c \in Threads THEN Threads ELSE {c} IN
  /\ Fault
  /\ ~At(c, "dead")
  /\ pc' = [d \in Callers |-> IF d \in killed THEN "dead" ELSE pc[d]]
  /\ stdin' = [d \in Callers |-> IF d \in killed THEN FALSE ELSE stdin[d]]
  /\ UNCHANGED <<outcome, late, readerVars, childVars, permits>>

CallerStep(c) ==
  \/ Spawn(c) \/ EnterTry(c) \/ StartReader(c)
  \/ Loop(c) \/ Get(c) \/ GetEmpty(c)
  \/ Kill(c) \/ Wait(c) \/ Close(c) \/ Release(c) \/ ExitHorse(c)

ReaderStep(c) == ReadLine(c) \/ ReadEnd(c)

Next ==
  \E c \in Callers :
    \/ Acquire(c) \/ StartDownload(c)
    \/ CallerStep(c) \/ SpawnFails(c) \/ NoThread(c) \/ CallbackRaises(c)
    \/ ReaderStep(c)
    \/ WatchParent(c) \/ StartHelper(c) \/ EndHelper(c) \/ Say(c) \/ Exit(c)
    \/ DieWithParent(c)
    \/ Deadline(c) \/ Alarm(c) \/ KillCaller(c)

Spec == Init /\ [][Next]_vars

(* Our processes go on, the child gets as far as its first call, its watch *)
(* wakes at the end of the pipe, and time passes.  Nothing is assumed of   *)
(* what the child does for the call, or of what it starts.                 *)
Fairness ==
  \A c \in Callers :
    /\ WF_vars(CallerStep(c))
    /\ WF_vars(ReaderStep(c))
    /\ WF_vars(WatchParent(c))
    /\ WF_vars(DieWithParent(c))
    /\ WF_vars(Deadline(c))

FairSpec == Spec /\ Fairness

-----------------------------------------------------------------------------
(* However a call ends, nothing of its child is left when it has: the      *)
(* finally kills the whole group before _run returns or raises.  What the  *)
(* comment there says, of the job timeout's exception too.                 *)
NothingOutlives == \A c \in Callers : At(c, "ended") => Gone(c)

(* It is so of every call the job timeout does not end: a result, an       *)
(* error, a crash, a deadline, a failed start, a callback that raises.     *)
EndedWithoutChild ==
  \A c \in Callers :
    At(c, "ended") /\ outcome[c] # "interrupted" => Gone(c)

(* A call ends as the child's answer says, if it ends with one; it calls   *)
(* the child crashed only if no answer came that could be read, and late   *)
(* only past the deadline.  An answer written before an exit is not lost.  *)
AnswerTold ==
  \A c \in Callers :
    /\ outcome[c] \in {"result", "error"} => said[c] = outcome[c]
    /\ outcome[c] = "crashed" => said[c] \in {"nothing", "garbage"}
    /\ outcome[c] = "timeout" => late[c]

(* Every permit is free or with a thread that is looking a link up: no     *)
(* way out of a lookup keeps one.                                          *)
PermitsKept ==
  (\A c \in Threads : ~At(c, "dead")) =>
     permits + Cardinality({c \in Threads : ~At(c, "idle")}) = Permits

(* Every call ends, whether the child hangs, floods its pipe or dies.      *)
CallEnds ==
  \A c \in Callers : At(c, "spawn") ~> pc[c] \in {"idle", "ended", "dead"}

(* Nothing the call started outlives it for good, not even when the caller *)
(* is killed, or the alarm rings where no finally runs.                    *)
NoOrphan ==
  \A c \in Callers : pc[c] \in {"ended", "dead"} ~> Gone(c)
=============================================================================
