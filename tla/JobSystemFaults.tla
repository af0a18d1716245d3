-------------------------- MODULE JobSystemFaults ---------------------------
(***************************************************************************)
(* What may go wrong around the job system's code: a process is killed, a  *)
(* request is cut off, Redis is flushed, a call raises.  Store, queue,     *)
(* worker and api draw on one allowance of such faults; and the ids of     *)
(* jobs, which they share too.                                             *)
(***************************************************************************)
EXTENDS Integers, FiniteSets

CONSTANTS
  MaxFaults, \* bound: how many faults a behaviour may hold
  Jobs,      \* the ids `create` may draw, RQ's job ids too; a bound
  None       \* no value: SQL's NULL, an idle worker's job

ASSUME FaultsAssumption ==
  MaxFaults \in Nat /\ IsFiniteSet(Jobs) /\ None \notin Jobs

VARIABLE faults  \* what is left of the allowance

FaultsTypeOK == faults \in 0..MaxFaults

FaultsInit == faults = MaxFaults

(* A fault happens, and is paid for.                                       *)
Fault == faults >= 1 /\ faults' = faults - 1
=============================================================================
