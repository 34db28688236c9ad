------------------------------ MODULE JobRuns ------------------------------
(***************************************************************************)
(* The job_runs table and the operations the backend performs on it        *)
(* (core/models/jobs.py, repositories/jobs/job_run_repository.py).  Every  *)
(* operation is one database transaction, so one indivisible change here.  *)
(* The modules of the components that write the table extend this one.     *)
(***************************************************************************)
EXTENDS Naturals

CONSTANTS
  Task,              \* Celery task ids: the UUID of a published message
  NoTask,            \* the NULL of column celery_task_id
  MaxRows,           \* bound: rows the database hands out in one behaviour
  PendingLimit,      \* hours a run may be pending before it counts as stale
  RunningLimit,      \* hours a run may be running before it counts as stale
  Retention          \* hours after which the clean-up drops a finished run

ASSUME TableAssumption ==
  /\ NoTask \notin Task
  /\ MaxRows \in Nat
  /\ PendingLimit \in Nat /\ RunningLimit \in Nat /\ Retention \in Nat

VARIABLES
  nextId,            \* the next value of the id sequence; ids are not reused
  status,            \* column status; "absent" before INSERT and after DELETE
  celeryTaskId,      \* column celery_task_id
  queuedAge,         \* hours since column queued_at
  startedAge         \* hours since column started_at; 0 while it is NULL

tableVars == <<nextId, status, celeryTaskId, queuedAge, startedAge>>

Row == 1..MaxRows
Unfinished == {"pending", "running"}
Finished == {"completed", "failed", "cancelled"}
Status == {"absent"} \cup Unfinished \cup Finished

\* Ages are told apart only by the limits: they stop beyond the largest one.
Larger(a, b) == IF a >= b THEN a ELSE b
MaxAge == Larger(PendingLimit, Larger(RunningLimit, Retention)) + 1

Exists(r) == status[r] # "absent"

\* The rows that carry task id t.  The column is UNIQUE.
Claims(t) == {r \in Row : Exists(r) /\ celeryTaskId[r] = t}

TableTypeOK ==
  /\ nextId \in 1..(MaxRows + 1)
  /\ status \in [Row -> Status]
  /\ celeryTaskId \in [Row -> Task \cup {NoTask}]
  /\ queuedAge \in [Row -> 0..MaxAge]
  /\ startedAge \in [Row -> 0..MaxAge]

TableInit ==
  /\ nextId = 1
  /\ status = [r \in Row |-> "absent"]
  /\ celeryTaskId = [r \in Row |-> NoTask]
  /\ queuedAge = [r \in Row |-> 0]
  /\ startedAge = [r \in Row |-> 0]

----------------------------------------------------------------------------
(* INSERT of a pending run: the new row is nextId.                         *)
InsertPending ==
  /\ nextId \in Row
  /\ nextId' = nextId + 1
  /\ status' = [status EXCEPT ![nextId] = "pending"]
  /\ UNCHANGED <<celeryTaskId, queuedAge, startedAge>>

(* The UPDATEs.  A row that is gone is left alone (the method returns      *)
(* None); the current status is not looked at.                             *)
SetStatus(S, s) ==
  [r \in Row |-> IF r \in S /\ Exists(r) THEN s ELSE status[r]]

\* Mutant: the column is not UNIQUE.
NoUniqueViolation(r, t) == FALSE

\* Mutant: the index is UNIQUE over the unfinished runs only.
PartialUniqueViolation(r, t) ==
  Exists(r) /\ {q \in Claims(t) \ {r} : status[q] \in Unfinished} # {}

\* mark_started would give row r a task id another row already holds.
UniqueViolation(r, t) == Exists(r) /\ Claims(t) \ {r} # {}

MarkStarted(r, t) ==
  /\ ~UniqueViolation(r, t)
  /\ status' = SetStatus({r}, "running")
  /\ celeryTaskId' = [celeryTaskId EXCEPT ![r] = IF Exists(r) THEN t ELSE @]
  /\ startedAge' = [startedAge EXCEPT ![r] = 0]
  /\ UNCHANGED <<nextId, queuedAge>>

MarkFinished(r, s) ==
  /\ status' = SetStatus({r}, s)
  /\ UNCHANGED <<nextId, celeryTaskId, queuedAge, startedAge>>

(* DELETE of a set of rows.                                                *)
Delete(S) ==
  /\ status' = SetStatus(S, "absent")
  /\ celeryTaskId' = [r \in Row |-> IF r \in S THEN NoTask ELSE celeryTaskId[r]]
  /\ queuedAge' = [r \in Row |-> IF r \in S THEN 0 ELSE queuedAge[r]]
  /\ startedAge' = [r \in Row |-> IF r \in S THEN 0 ELSE startedAge[r]]
  /\ UNCHANGED nextId

----------------------------------------------------------------------------
(* What the periodic tasks and the history endpoints select.               *)
\* Mutant: a run of exactly the limit is stale.
StalePendingAtLimit ==
  {r \in Row : status[r] = "pending" /\ queuedAge[r] >= PendingLimit}

\* Mutant: pending runs are forgotten.
NoStalePending == {}

StalePending ==
  {r \in Row : status[r] = "pending" /\ queuedAge[r] > PendingLimit}

StaleRunning(activeTasks) ==
  {r \in Row : /\ status[r] = "running"
               /\ startedAge[r] > RunningLimit
               /\ celeryTaskId[r] \notin activeTasks}

FinishedRows == {r \in Row : status[r] \in Finished}
OldRows == {r \in Row : Exists(r) /\ queuedAge[r] > Retention}

\* An hour passes for every run in the table.
Older(a) == IF a < MaxAge THEN a + 1 ELSE a

AgeRows ==
  /\ queuedAge' = [r \in Row |-> IF Exists(r) THEN Older(queuedAge[r])
                                              ELSE queuedAge[r]]
  /\ startedAge' = [r \in Row |-> IF celeryTaskId[r] # NoTask
                                  THEN Older(startedAge[r])
                                  ELSE startedAge[r]]
=============================================================================
