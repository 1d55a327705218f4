---------------------------- MODULE MemoryStore ----------------------------
(***************************************************************************)
(* The Memory Bank as the agent and the reviewers use it: records written  *)
(* by SREAgent._mb_store with status=pending_review, and the review        *)
(* operation of scripts/review_memory.py, which changes a status by        *)
(* deleting the record and creating another under a new name.              *)
(*                                                                         *)
(* Memory Bank itself is an external service.  Each of its calls           *)
(* (retrieve, get, delete, create) is atomic; what happens between two     *)
(* calls of one client is not, and that is what this module keeps.         *)
(***************************************************************************)
EXTENDS Integers, FiniteSets

CONSTANTS
  Runs,        \* investigations (run_id) that may write a record
  Scopes,      \* {"cluster": ..., "namespace": ...} scopes
  Incidents,   \* dedup keys: "pod=... incident_type=..."
  Reviewers,   \* review_memory.py processes
  MaxReviews   \* bound: review commands issued in a behaviour

ASSUME ReviewsAssumption == MaxReviews \in Nat

VARIABLES
  bank,      \* the records in Memory Bank
  names,     \* resource names handed out so far
  reviews,   \* review commands issued so far
  reviewing  \* reviewing[v]: the command v is running

storeVars == <<bank, names, reviews, reviewing>>

Statuses == {"pending_review", "approved", "rejected", "revoked"}
Verdicts == Statuses \ {"pending_review"}

Record == [name : Nat, run : Runs, scope : Scopes, incident : Incidents,
           status : Statuses]

\* No command, one that has fetched its record, one that has deleted it.
Command == [phase : {"idle"}]
           \cup [phase : {"fetched", "deleted"}, record : Record,
                 verdict : Verdicts]

Idle == [phase |-> "idle"]

StoreTypeOK ==
  /\ bank \subseteq Record
  /\ names \in Nat
  /\ reviews \in Nat
  /\ reviewing \in [Reviewers -> Command]

StoreInit ==
  /\ bank = {}
  /\ names = 0
  /\ reviews = 0
  /\ reviewing = [v \in Reviewers |-> Idle]

-----------------------------------------------------------------------------
\* memories.retrieve(scope = ...): every record of exactly that scope.
Retrieve(scope) == {m \in bank : m.scope = scope}

\* memories.create: the record gets a name no record has had.
Created(run, scope, incident, status) ==
  /\ bank' = bank \cup {[name |-> names, run |-> run, scope |-> scope,
                         incident |-> incident, status |-> status]}
  /\ names' = names + 1

-----------------------------------------------------------------------------
(* _change_status(args, verdict): get, delete, create.                     *)

ReviewGet(v) ==
  /\ reviewing[v] = Idle
  /\ reviews < MaxReviews
  /\ reviews' = reviews + 1
  /\ \E m \in bank, verdict \in Verdicts :
       reviewing' = [reviewing EXCEPT ![v] =
         [phase |-> "fetched", record |-> m, verdict |-> verdict]]
  /\ UNCHANGED <<bank, names>>

\* Defect: the delete of a name that is gone is taken for a success.
ReviewDelete_Ignored(v) ==
  /\ reviewing[v].phase = "fetched"
  /\ bank' = {m \in bank : m.name # reviewing[v].record.name}
  /\ reviewing' = [reviewing EXCEPT ![v].phase = "deleted"]
  /\ UNCHANGED <<names, reviews>>

\* Deleting a name that is gone raises NotFound and ends the command.
ReviewDelete(v) ==
  /\ reviewing[v].phase = "fetched"
  /\ bank' = {m \in bank : m.name # reviewing[v].record.name}
  /\ reviewing' = IF bank' # bank
                    THEN [reviewing EXCEPT ![v].phase = "deleted"]
                    ELSE [reviewing EXCEPT ![v] = Idle]
  /\ UNCHANGED <<names, reviews>>

ReviewCreate(v) ==
  LET old == reviewing[v].record
  IN /\ reviewing[v].phase = "deleted"
     /\ Created(old.run, old.scope, old.incident, reviewing[v].verdict)
     /\ reviewing' = [reviewing EXCEPT ![v] = Idle]
     /\ UNCHANGED reviews

\* The script is killed, or a call fails: nothing undoes what it has done.
ReviewFails(v) ==
  /\ reviewing[v] # Idle
  /\ reviewing' = [reviewing EXCEPT ![v] = Idle]
  /\ UNCHANGED <<bank, names, reviews>>

Review(v) == ReviewGet(v) \/ ReviewDelete(v) \/ ReviewCreate(v) \/ ReviewFails(v)
=============================================================================
