------------------------------ MODULE Creation -------------------------------
(***************************************************************************)
(* PostgresJobStore.create (postgres.py), statement by statement.  The     *)
(* calls of the api's threads run in transactions of their own: each       *)
(* statement sees what is committed when it starts, an advisory lock       *)
(* serialises the creates of one address until the transaction ends, and   *)
(* the partial unique index keeps the live rows of a hash apart.  Api      *)
(* takes `create` for one step; here it is seen that it may.               *)
(*                                                                         *)
(* A caller makes one call.  What else writes the table is one UPDATE      *)
(* each; the rows' other columns are left out.                             *)
(***************************************************************************)
EXTENDS Naturals, FiniteSets

CONSTANTS
  Callers,    \* the threads that call `create`, of any api
  Ids,        \* bound: the ids uuid4 may draw
  Hashes,     \* content_hash
  Addresses,  \* client_ip
  MaxActive,  \* max_active
  Rounds,     \* bound of the code: how often an insert is tried, 3
  Nobody      \* no caller, no id, no row's column

ASSUME CreationAssumption ==
  /\ IsFiniteSet(Ids)
  /\ MaxActive \in Nat /\ Rounds \in Nat \ {0}
  /\ Nobody \notin Callers \cup Ids

VARIABLES
  (* What is committed of the table, by id.                                *)
  standing,   \* the row's status, or "absent"
  started,    \* its attempts
  hashOf, ipOf,
  (* The calls, by caller.                                                 *)
  at,         \* the statement it is at, or how it ended
  want, from, \* what it is called with
  drawn,      \* the id of the row it has inserted and not committed
  round,      \* inserts tried
  held        \* held[ip]: who has the address's advisory lock

tableVars    == <<standing, started, hashOf, ipOf>>
creationVars == <<standing, started, hashOf, ipOf, at, want, from, drawn, round, held>>

InTransaction == {"look", "count", "insert", "commit", "reread"}
Ends          == {"created", "found", "refused", "gave up", "broken"}

LiveFor(hash)  == {j \in Ids : standing[j] \in {"queued", "running", "succeeded"}
                                 /\ hashOf[j] = hash}
ActiveFrom(ip) == {j \in Ids : standing[j] \in {"queued", "running"} /\ ipOf[j] = ip}

CreationInit ==
  /\ standing = [j \in Ids |-> "absent"] /\ started = [j \in Ids |-> 0]
  /\ hashOf = [j \in Ids |-> Nobody] /\ ipOf = [j \in Ids |-> Nobody]
  /\ at = [c \in Callers |-> "begin"]
  /\ want \in [Callers -> Hashes] /\ from \in [Callers -> Addresses]
  /\ drawn = [c \in Callers |-> Nobody] /\ round = [c \in Callers |-> 1]
  /\ held = [ip \in Addresses |-> Nobody]

-----------------------------------------------------------------------------
Goes(c, place) ==
  /\ at' = [at EXCEPT ![c] = place]
  /\ UNCHANGED <<want, from>>

(* The transaction ends, committed or not; its lock with it.               *)
Leaves(c, place) ==
  /\ Goes(c, place)
  /\ held' = [held EXCEPT ![from[c]] = Nobody]
  /\ drawn' = [drawn EXCEPT ![c] = Nobody]

(* Mutant: the creates of an address do not wait for each other.           *)
BeginUnlocked(c) ==
  /\ at[c] = "begin"
  /\ held' = [held EXCEPT ![from[c]] = c]
  /\ Goes(c, "look")
  /\ UNCHANGED <<tableVars, drawn, round>>

(* pg_advisory_xact_lock, the first statement of _check_limit.             *)
Begin(c) ==
  /\ at[c] = "begin"
  /\ held[from[c]] = Nobody
  /\ held' = [held EXCEPT ![from[c]] = c]
  /\ Goes(c, "look")
  /\ UNCHANGED <<tableVars, drawn, round>>

Look(c) ==
  /\ at[c] = "look"
  /\ \/ LiveFor(want[c]) # {} /\ Leaves(c, "found")
     \/ LiveFor(want[c]) = {} /\ Goes(c, "count") /\ UNCHANGED <<held, drawn>>
  /\ UNCHANGED <<tableVars, round>>

Count(c) ==
  /\ at[c] = "count"
  /\ \/ Cardinality(ActiveFrom(from[c])) >= MaxActive /\ Leaves(c, "refused")
     \/ /\ Cardinality(ActiveFrom(from[c])) < MaxActive
        /\ Goes(c, "insert") /\ UNCHANGED <<held, drawn>>
  /\ UNCHANGED <<tableVars, round>>

(* ON CONFLICT DO NOTHING.  The index has it wait for a transaction that   *)
(* has inserted the same hash.                                             *)
Insert(c) ==
  /\ at[c] = "insert"
  /\ \A d \in Callers : at[d] = "commit" => want[d] # want[c]
  /\ \/ LiveFor(want[c]) # {} /\ Goes(c, "reread") /\ UNCHANGED drawn
     \/ /\ LiveFor(want[c]) = {}
        /\ \E j \in Ids :
             /\ standing[j] = "absent"
             /\ \A d \in Callers : drawn[d] # j
             /\ drawn' = [drawn EXCEPT ![c] = j]
        /\ Goes(c, "commit")
  /\ UNCHANGED <<tableVars, round, held>>

(* The connection may break before the caller hears of the commit.         *)
Commit(c) ==
  /\ at[c] = "commit"
  /\ standing' = [standing EXCEPT ![drawn[c]] = "queued"]
  /\ started' = [started EXCEPT ![drawn[c]] = 0]
  /\ hashOf' = [hashOf EXCEPT ![drawn[c]] = want[c]]
  /\ ipOf' = [ipOf EXCEPT ![drawn[c]] = from[c]]
  /\ Leaves(c, "created") \/ Leaves(c, "broken")
  /\ UNCHANGED round

(* The live row the insert collided with, unless it has failed since.      *)
Reread(c) ==
  /\ at[c] = "reread"
  /\ \/ LiveFor(want[c]) # {} /\ Leaves(c, "found") /\ UNCHANGED round
     \/ LiveFor(want[c]) = {} /\ round[c] = Rounds /\ Leaves(c, "gave up") /\ UNCHANGED round
     \/ /\ LiveFor(want[c]) = {} /\ round[c] < Rounds
        /\ Leaves(c, "begin") /\ round' = [round EXCEPT ![c] = @ + 1]
  /\ UNCHANGED tableVars

(* The connection breaks: Postgres rolls back.                             *)
Breaks(c) ==
  /\ at[c] \in InTransaction
  /\ Leaves(c, "broken")
  /\ UNCHANGED <<tableVars, round>>

(* Meanwhile: mark_running, succeed, and fail by a worker or a reader.     *)
Taken(j) ==
  /\ standing[j] = "queued"
  /\ standing' = [standing EXCEPT ![j] = "running"]
  /\ started' = [started EXCEPT ![j] = started[j] + 1]
  /\ UNCHANGED <<hashOf, ipOf, at, want, from, drawn, round, held>>

Ended(j, end) ==
  /\ standing[j] = "running" \/ (standing[j] = "queued" /\ end = "failed")
  /\ standing' = [standing EXCEPT ![j] = end]
  /\ UNCHANGED <<started, hashOf, ipOf, at, want, from, drawn, round, held>>

CreationNext ==
  \/ \E c \in Callers :
       \/ Begin(c) \/ Look(c) \/ Count(c) \/ Insert(c) \/ Commit(c) \/ Reread(c)
       \/ Breaks(c)
  \/ \E j \in Ids : Taken(j) \/ Ended(j, "succeeded") \/ Ended(j, "failed")

CreationSpec == CreationInit /\ [][CreationNext]_creationVars

-----------------------------------------------------------------------------
Record == INSTANCE JobRecord
  WITH Jobs <- Ids, Songs <- Hashes, Addresses <- Addresses, None <- Nobody,
       status <- standing, attempts <- started, song <- hashOf, ip <- ipOf

(* Creates of one address or of one song, however their statements mix     *)
(* with each other's and with the rows' ends, leave the table as if each   *)
(* were one step: never a second live row of a song, never more active     *)
(* rows than an address may have (create, _check_limit; store.py:44-48).   *)
CreateAtomic == Record!Spec
=============================================================================
