-------------------------- MODULE OperationStorage --------------------------
(***************************************************************************)
(* IOperationStorage: what the request handler relies on.  A call is       *)
(* accepted only while the storage is open; every accepted call takes      *)
(* effect once, in one step, some time before it returns, also when the    *)
(* storage is closed in between; the cache is loaded only while no call is *)
(* unanswered.  StorageWorker implements this.                             *)
(***************************************************************************)
EXTENDS StorageService

CONSTANT Callers    \* the threads that call the storage

VARIABLES job,      \* the call a thread is in, None outside one
          future,   \* its outcome, None until there is one
          open      \* calls are accepted

callVars == <<job, future, open>>

FindJob(l) == [kind |-> "find", lookup |-> l]
SaveJob(record) == [kind |-> "save", record |-> record]
Job == [kind : {"find"}, lookup : Lookup] \cup [kind : {"save"}, record : OperationRecord]

Unanswered(c) == job[c] # None /\ future[c] = None

CallInit ==
  /\ job = [c \in Callers |-> None]
  /\ future = [c \in Callers |-> None]
  /\ open = FALSE

\* A thread makes a call, its previous one having returned.
Submit(c, j) ==
  /\ open
  /\ ~Unanswered(c)
  /\ job' = [job EXCEPT ![c] = j]
  /\ future' = [future EXCEPT ![c] = None]
  /\ UNCHANGED open

\* The call takes effect.
Perform(c) ==
  /\ Unanswered(c)
  /\ \/ /\ job[c].kind = "find"
        /\ future' = [future EXCEPT ![c] = Find(job[c].lookup)]
        /\ UNCHANGED serviceVars
     \/ /\ job[c].kind = "save"
        /\ InsertSucceeds(job[c].record)
        /\ future' = [future EXCEPT ![c] = Returned(None)]
     \/ /\ job[c].kind = "save"
        /\ SaveThrows(job[c].record)
        /\ future' = [future EXCEPT ![c] = Thrown("ERROR_STORAGE")]
  /\ UNCHANGED <<job, open>>

\* The call returns, or throws what its future holds.
Return(c) ==
  /\ future[c] # None
  /\ job' = [job EXCEPT ![c] = None]
  /\ future' = [future EXCEPT ![c] = None]
  /\ UNCHANGED open

Load ==
  /\ ~open
  /\ \A c \in Callers : ~Unanswered(c)
  /\ Initialize
  /\ UNCHANGED callVars

Open == ~open /\ open' = TRUE /\ UNCHANGED <<job, future>>

Close == open /\ open' = FALSE /\ UNCHANGED <<job, future>>

StorageInit == ServiceInit /\ CallInit

\* calls: the finds and saves the threads make.
StorageNext(calls) ==
  \/ \E c \in Callers, j \in calls : Submit(c, j) /\ UNCHANGED serviceVars
  \/ \E c \in Callers : Perform(c)
  \/ \E c \in Callers : Return(c) /\ UNCHANGED serviceVars
  \/ Load
  \/ (Open \/ Close) /\ UNCHANGED serviceVars
=============================================================================
