----------------------------- MODULE JobRecord ------------------------------
(***************************************************************************)
(* What the jobs table promises its readers, whoever writes it and however *)
(* they race: each job goes queued, running (once per attempt, maybe back  *)
(* to queued), then succeeded or failed for good; a song has one live job; *)
(* an address has at most MaxActive active ones.                           *)
(***************************************************************************)
EXTENDS Naturals, FiniteSets

CONSTANTS Jobs, Songs, Addresses, MaxActive, None

VARIABLES
  status,    \* of each id; "absent" until the job is created
  attempts,  \* attempts started
  song, ip   \* what the job is for, and who asked; None until created

vars == <<status, attempts, song, ip>>

IsActive(j) == status[j] \in {"queued", "running"}
IsLive(j)   == status[j] \in {"queued", "running", "succeeded"}

Init ==
  /\ status = [j \in Jobs |-> "absent"]
  /\ attempts = [j \in Jobs |-> 0]
  /\ song = [j \in Jobs |-> None]
  /\ ip = [j \in Jobs |-> None]

Submit(j, s, a) ==
  /\ status[j] = "absent"
  /\ \A i \in Jobs : ~(IsLive(i) /\ song[i] = s)
  /\ Cardinality({i \in Jobs : IsActive(i) /\ ip[i] = a}) < MaxActive
  /\ status' = [status EXCEPT ![j] = "queued"]
  /\ song' = [song EXCEPT ![j] = s]
  /\ ip' = [ip EXCEPT ![j] = a]
  /\ attempts' = [attempts EXCEPT ![j] = 0]

Move(j, from, to) ==
  /\ status[j] \in from
  /\ status' = [status EXCEPT ![j] = to]
  /\ UNCHANGED <<song, ip>>

StartAttempt(j) ==
  /\ Move(j, {"queued", "running"}, "running")
  /\ attempts' = [attempts EXCEPT ![j] = attempts[j] + 1]

PutBack(j) == Move(j, {"running"}, "queued") /\ UNCHANGED attempts
Finish(j)  == Move(j, {"running"}, "succeeded") /\ UNCHANGED attempts
GiveUp(j)  == Move(j, {"queued", "running"}, "failed") /\ UNCHANGED attempts

Next ==
  \E j \in Jobs :
    \/ \E s \in Songs, a \in Addresses : Submit(j, s, a)
    \/ StartAttempt(j) \/ PutBack(j) \/ Finish(j) \/ GiveUp(j)

Spec == Init /\ [][Next]_vars
=============================================================================
