---------------------------- MODULE JobDispatch ----------------------------
(***************************************************************************)
(* The life of a dispatched job: the broker that delivers the              *)
(* tasks.dispatch_job message, the dispatcher that runs it on a worker,    *)
(* the chord a parallel backup leaves behind, and everything that writes   *)
(* the job_runs table meanwhile: cancel, delete, stale-job detection,      *)
(* clean-up and "clear all".                                               *)
(*                                                                         *)
(* Broker and workers are Celery, configured by celery_app.py with late    *)
(* acknowledgement, requeueing of the tasks of a lost worker and a time    *)
(* limit.  A redelivered message keeps its task id.                        *)
(***************************************************************************)
EXTENDS JobRuns

CONSTANTS
  Worker,            \* worker processes; each runs one task at a time
  NoRow,             \* "no job run yet" in a dispatcher
  JobTimeLimit,      \* task_time_limit, in hours
  MaxRedeliveries,   \* bound: times the broker redelivers one message
  Events             \* what may interfere in this instance

EventKind == {"crash", "redelivery", "timeout", "dberror", "cancel",
              "delete", "clear", "cleanup"}

ASSUME DispatchAssumption ==
  /\ NoRow \notin Row
  /\ JobTimeLimit \in Nat /\ MaxRedeliveries \in Nat
  /\ Events \subseteq EventKind

\* 3600 s against the 3600 s and 7200 s of check_stale_jobs.
ASSUME TimeLimitAssumption ==
  JobTimeLimit <= PendingLimit /\ JobTimeLimit <= RunningLimit

VARIABLES
  published,         \* messages handed to the broker
  queued,            \* messages the broker has to deliver
  redeliveries,      \* how often each message was put back
  revoked,           \* task ids each worker was told to discard
  pc,                \* where each worker is in dispatch_job
  wtask,             \* the message a worker holds, unacknowledged
  wrow,              \* dispatch_job's local job_run
  elapsed,           \* hours the worker has spent on the message
  chord,             \* rows whose parallel backup is still going on
  requests,          \* cancel and delete requests past their status check
  staleFound,        \* rows a running stale check is going to fail
  executed,          \* history: the rows under which a task's job was run
  outcome            \* history: what the job of each row has returned

brokerVars == <<published, queued, redeliveries, revoked>>
workerVars == <<pc, wtask, wrow, elapsed>>
userVars == <<requests, staleFound>>
historyVars == <<executed, outcome>>
vars == <<tableVars, brokerVars, workerVars, chord, userVars, historyVars>>

PC == {"idle", "received", "created", "executing", "launched",
       "succeeded", "failed"}

Busy(w) == pc[w] # "idle"
HeldTasks == {wtask[w] : w \in {x \in Worker : Busy(x)}}
HeldRows == {wrow[w] : w \in Worker} \ {NoRow}

TypeOK ==
  /\ TableTypeOK
  /\ published \subseteq Task
  /\ queued \subseteq Task
  /\ redeliveries \in [Task -> 0..MaxRedeliveries]
  /\ revoked \in [Worker -> SUBSET Task]
  /\ pc \in [Worker -> PC]
  /\ wtask \in [Worker -> Task \cup {NoTask}]
  /\ wrow \in [Worker -> Row \cup {NoRow}]
  /\ elapsed \in [Worker -> 0..JobTimeLimit]
  /\ chord \subseteq Row
  /\ requests \subseteq Row \X {"cancel", "delete"}
  /\ staleFound \subseteq Row
  /\ executed \in [Task -> SUBSET Row]
  /\ outcome \in [Row -> {"none", "success", "failure", "finalized"}]

Init ==
  /\ TableInit
  /\ published = {} /\ queued = {}
  /\ redeliveries = [t \in Task |-> 0]
  /\ revoked = [w \in Worker |-> {}]
  /\ pc = [w \in Worker |-> "idle"]
  /\ wtask = [w \in Worker |-> NoTask]
  /\ wrow = [w \in Worker |-> NoRow]
  /\ elapsed = [w \in Worker |-> 0]
  /\ chord = {} /\ requests = {} /\ staleFound = {}
  /\ executed = [t \in Task |-> {}]
  /\ outcome = [r \in Row |-> "none"]

----------------------------------------------------------------------------
(* The broker.                                                             *)

\* dispatch_job.delay(...), from the schedule checker or a manual run.
Publish(t) ==
  /\ t \notin published
  /\ published' = published \cup {t}
  /\ queued' = queued \cup {t}
  /\ UNCHANGED <<tableVars, redeliveries, revoked, workerVars, chord,
                 userVars, historyVars>>

Receive(w, t) ==
  /\ pc[w] = "idle" /\ t \in queued /\ t \notin revoked[w]
  /\ queued' = queued \ {t}
  /\ pc' = [pc EXCEPT ![w] = "received"]
  /\ wtask' = [wtask EXCEPT ![w] = t]
  /\ UNCHANGED <<tableVars, published, redeliveries, revoked, wrow, elapsed,
                 chord, userVars, historyVars>>

\* A revoked message is acknowledged without being run.
Discard(w, t) ==
  /\ pc[w] = "idle" /\ t \in queued /\ t \in revoked[w]
  /\ queued' = queued \ {t}
  /\ UNCHANGED <<tableVars, published, redeliveries, revoked, workerVars,
                 chord, userVars, historyVars>>

\* The worker is done with its message and forgets the task's locals.
Leave(w) ==
  /\ pc' = [pc EXCEPT ![w] = "idle"]
  /\ wtask' = [wtask EXCEPT ![w] = NoTask]
  /\ wrow' = [wrow EXCEPT ![w] = NoRow]
  /\ elapsed' = [elapsed EXCEPT ![w] = 0]

Requeue(t) ==
  /\ redeliveries[t] < MaxRedeliveries
  /\ redeliveries' = [redeliveries EXCEPT ![t] = @ + 1]
  /\ queued' = queued \cup {t}

\* task_reject_on_worker_lost: the message goes back to the queue.  Revoked
\* ids live in the worker's memory: they are gone if the whole worker is.
WorkerLost(w) ==
  /\ "crash" \in Events /\ Busy(w)
  /\ Requeue(wtask[w])
  /\ Leave(w)
  /\ \E ids \in {revoked[w], {}} : revoked' = [revoked EXCEPT ![w] = ids]
  /\ UNCHANGED <<tableVars, published, chord, userVars, historyVars>>

\* A message held longer than the broker's visibility timeout is delivered
\* again while the first worker still runs it.
Redeliver(t) ==
  /\ "redelivery" \in Events /\ t \in HeldTasks
  /\ Requeue(t)
  /\ UNCHANGED <<tableVars, published, revoked, workerVars, chord, userVars,
                 historyVars>>

\* The hard time limit kills the task; its message is acknowledged.
TimeLimit(w) ==
  /\ "timeout" \in Events /\ Busy(w) /\ elapsed[w] = JobTimeLimit
  /\ Leave(w)
  /\ UNCHANGED <<tableVars, brokerVars, chord, userVars, historyVars>>

\* revoke(terminate=True) reaches a worker that runs the task.
Terminate(w) ==
  /\ Busy(w) /\ wtask[w] \in revoked[w]
  /\ Leave(w)
  /\ UNCHANGED <<tableVars, brokerVars, chord, userVars, historyVars>>

----------------------------------------------------------------------------
(* dispatch_job.                                                           *)

\* Resolving the template's devices, or the INSERT, raises: no run exists.
FailBeforeRow(w) ==
  /\ "dberror" \in Events /\ pc[w] = "received"
  /\ Leave(w)
  /\ UNCHANGED <<tableVars, brokerVars, chord, userVars, historyVars>>

CreateJobRun(w) ==
  /\ pc[w] = "received"
  /\ InsertPending
  /\ wrow' = [wrow EXCEPT ![w] = nextId]
  /\ pc' = [pc EXCEPT ![w] = "created"]
  /\ UNCHANGED <<brokerVars, wtask, elapsed, chord, userVars, historyVars>>

\* mark_started commits, then execute_job_type is entered.
StartJob(w) ==
  /\ pc[w] = "created"
  /\ MarkStarted(wrow[w], wtask[w])
  /\ pc' = [pc EXCEPT ![w] = "executing"]
  /\ executed' = [executed EXCEPT ![wtask[w]] = @ \cup {wrow[w]}]
  /\ UNCHANGED <<brokerVars, wtask, wrow, elapsed, chord, userVars, outcome>>

\* mark_started raises: another row holds this task id, or the database fails.
StartRefused(w) ==
  /\ pc[w] = "created"
  /\ UniqueViolation(wrow[w], wtask[w]) \/ "dberror" \in Events
  /\ pc' = [pc EXCEPT ![w] = "failed"]
  /\ UNCHANGED <<tableVars, brokerVars, wtask, wrow, elapsed, chord,
                 userVars, historyVars>>

\* The executor returns a result dictionary, or raises.
ExecuteJob(w) ==
  /\ pc[w] = "executing"
  /\ \/ /\ pc' = [pc EXCEPT ![w] = "succeeded"]
        /\ outcome' = [outcome EXCEPT ![wrow[w]] = "success"]
     \/ /\ pc' = [pc EXCEPT ![w] = "failed"]
        /\ outcome' = [outcome EXCEPT ![wrow[w]] = "failure"]
  /\ UNCHANGED <<tableVars, brokerVars, wtask, wrow, elapsed, chord,
                 userVars, executed>>

\* The executor starts a chord of device backups and returns "running".
LaunchChord(w) ==
  /\ pc[w] = "executing"
  /\ chord' = chord \cup {wrow[w]}
  /\ pc' = [pc EXCEPT ![w] = "launched"]
  /\ UNCHANGED <<tableVars, brokerVars, wtask, wrow, elapsed, userVars,
                 historyVars>>

\* Mutant: "success" in the returned dictionary is looked at first.
ReturnRunningCompletes(w) ==
  /\ pc[w] = "launched"
  /\ MarkFinished(wrow[w], "completed")
  /\ Leave(w)
  /\ UNCHANGED <<brokerVars, chord, userVars, historyVars>>

\* Mutant: the dispatcher writes the status it was returned.
ReturnRunningRewrites(w) ==
  /\ pc[w] = "launched"
  /\ MarkFinished(wrow[w], "running")
  /\ Leave(w)
  /\ UNCHANGED <<brokerVars, chord, userVars, historyVars>>

ReturnRunning(w) ==
  /\ pc[w] = "launched"
  /\ Leave(w)
  /\ UNCHANGED <<tableVars, brokerVars, chord, userVars, historyVars>>

RecordSuccess(w) ==
  /\ pc[w] = "succeeded"
  /\ MarkFinished(wrow[w], "completed")
  /\ Leave(w)
  /\ UNCHANGED <<brokerVars, chord, userVars, historyVars>>

\* mark_completed raises: the exception handler will mark the run failed.
CompletionRefused(w) ==
  /\ "dberror" \in Events /\ pc[w] = "succeeded"
  /\ pc' = [pc EXCEPT ![w] = "failed"]
  /\ UNCHANGED <<tableVars, brokerVars, wtask, wrow, elapsed, chord,
                 userVars, historyVars>>

RecordFailure(w) ==
  /\ pc[w] = "failed"
  /\ MarkFinished(wrow[w], "failed")
  /\ Leave(w)
  /\ UNCHANGED <<brokerVars, chord, userVars, historyVars>>

\* The database refuses the final update: the exception handler's own update
\* fails as well and the task ends with the run still "running".
RecordNothing(w) ==
  /\ "dberror" \in Events /\ pc[w] \in {"succeeded", "failed"}
  /\ Leave(w)
  /\ UNCHANGED <<tableVars, brokerVars, chord, userVars, historyVars>>

----------------------------------------------------------------------------
(* The chord of a parallel backup.                                         *)

\* finalize_backup_task, the chord's callback.
FinalizeBackup(r) ==
  /\ r \in chord
  /\ chord' = chord \ {r}
  /\ outcome' = [outcome EXCEPT ![r] = "finalized"]
  /\ MarkFinished(r, "completed")
  /\ UNCHANGED <<brokerVars, workerVars, userVars, executed>>

\* A device task is killed by its time limit, so the callback is never
\* called; or the callback's update fails, which it only logs.
ChordLost(r) ==
  /\ Events \cap {"timeout", "dberror"} # {} /\ r \in chord
  /\ chord' = chord \ {r}
  /\ UNCHANGED <<tableVars, brokerVars, workerVars, userVars, historyVars>>

----------------------------------------------------------------------------
(* The job-run endpoints (routers/jobs/runs.py): each reads the row, checks *)
(* its status, and writes in a second transaction.  The revoke broadcast   *)
(* reaches the workers that are connected.                                 *)

CancelRequest(r) ==
  /\ "cancel" \in Events
  /\ status[r] \in Unfinished
  /\ \E reached \in SUBSET Worker :
       revoked' = [w \in Worker |->
                     IF w \in reached
                     THEN revoked[w] \cup ({celeryTaskId[r]} \ {NoTask})
                     ELSE revoked[w]]
  /\ requests' = requests \cup {<<r, "cancel">>}
  /\ UNCHANGED <<tableVars, published, queued, redeliveries, workerVars,
                 chord, staleFound, historyVars>>

CancelCommit(r) ==
  /\ <<r, "cancel">> \in requests
  /\ requests' = requests \ {<<r, "cancel">>}
  /\ MarkFinished(r, "cancelled")
  /\ UNCHANGED <<brokerVars, workerVars, chord, staleFound, historyVars>>

DeleteRequest(r) ==
  /\ "delete" \in Events
  /\ status[r] \in Finished
  /\ requests' = requests \cup {<<r, "delete">>}
  /\ UNCHANGED <<tableVars, brokerVars, workerVars, chord, staleFound,
                 historyVars>>

DeleteCommit(r) ==
  /\ <<r, "delete">> \in requests
  /\ requests' = requests \ {<<r, "delete">>}
  /\ Delete({r})
  /\ UNCHANGED <<brokerVars, workerVars, chord, staleFound, historyVars>>

\* clear-filtered: any selection among the finished runs.
ClearFiltered ==
  /\ "delete" \in Events
  /\ \E S \in SUBSET FinishedRows : S # {} /\ Delete(S)
  /\ UNCHANGED <<brokerVars, workerVars, chord, userVars, historyVars>>

\* clear-all, whatever the status.
ClearAll ==
  /\ "clear" \in Events
  /\ Delete(Row)
  /\ UNCHANGED <<brokerVars, workerVars, chord, userVars, historyVars>>

----------------------------------------------------------------------------
(* Periodic maintenance.                                                   *)

\* check_stale_jobs reads the runs and asks the workers for their active and
\* reserved tasks (a reserved message is prefetched, still "queued" here); the
\* workers that do not answer in time are missing from the reply.
StaleScan ==
  /\ staleFound = {}
  /\ \E replies \in SUBSET Worker, reserved \in SUBSET queued :
       LET active == {wtask[w] : w \in {x \in replies : Busy(x)}}
       IN  staleFound' = StaleRunning(active \cup reserved) \cup StalePending
  /\ staleFound' # {}
  /\ UNCHANGED <<tableVars, brokerVars, workerVars, chord, requests,
                 historyVars>>

StaleMark(r) ==
  /\ r \in staleFound
  /\ staleFound' = staleFound \ {r}
  /\ MarkFinished(r, "failed")
  /\ UNCHANGED <<brokerVars, workerVars, chord, requests, historyVars>>

\* cleanup_old_runs_hours, from cleanup_celery_data.
CleanupOldRuns ==
  /\ "cleanup" \in Events
  /\ Delete(OldRows \cap FinishedRows)
  /\ UNCHANGED <<brokerVars, workerVars, chord, userVars, historyVars>>

\* cleanup_old_runs, from the clean-up endpoint: by age, whatever the status.
CleanupByDays ==
  /\ "cleanup" \in Events
  /\ Delete(OldRows)
  /\ UNCHANGED <<brokerVars, workerVars, chord, userVars, historyVars>>

\* Mutant: no time limit is configured.
UnlimitedTick ==
  /\ elapsed' = [w \in Worker |-> IF Busy(w) THEN elapsed[w] + 1 ELSE 0]
  /\ AgeRows
  /\ UNCHANGED <<nextId, status, celeryTaskId, brokerVars, pc, wtask, wrow,
                 chord, userVars, historyVars>>

\* An hour passes.  No task lives beyond its time limit.
Tick ==
  /\ \A w \in Worker : Busy(w) => elapsed[w] < JobTimeLimit
  /\ elapsed' = [w \in Worker |-> IF Busy(w) THEN elapsed[w] + 1 ELSE 0]
  /\ AgeRows
  /\ UNCHANGED <<nextId, status, celeryTaskId, brokerVars, pc, wtask, wrow,
                 chord, userVars, historyVars>>

----------------------------------------------------------------------------
BrokerStep ==
  \/ \E t \in Task : Publish(t) \/ Redeliver(t)
  \/ \E w \in Worker, t \in Task : Receive(w, t) \/ Discard(w, t)

WorkerStep(w) ==
  \/ FailBeforeRow(w) \/ CreateJobRun(w) \/ StartJob(w) \/ StartRefused(w)
  \/ ExecuteJob(w) \/ LaunchChord(w) \/ ReturnRunning(w)
  \/ RecordSuccess(w) \/ CompletionRefused(w)
  \/ RecordFailure(w) \/ RecordNothing(w)
  \/ TimeLimit(w) \/ Terminate(w)

RowStep(r) ==
  \/ FinalizeBackup(r) \/ ChordLost(r)
  \/ CancelRequest(r) \/ CancelCommit(r)
  \/ DeleteRequest(r) \/ DeleteCommit(r)
  \/ StaleMark(r)

Next ==
  \/ BrokerStep
  \/ \E w \in Worker : WorkerStep(w) \/ WorkerLost(w)
  \/ \E r \in Row : RowStep(r)
  \/ ClearFiltered \/ ClearAll \/ StaleScan \/ CleanupOldRuns
  \/ CleanupByDays \/ Tick

Spec == Init /\ [][Next]_vars

\* Workers take messages and get on with them, beat runs the stale check,
\* and time passes.  Users, crashes and chords owe nothing.
Fairness ==
  /\ \A w \in Worker : WF_vars(WorkerStep(w))
  /\ \A w \in Worker, t \in Task : WF_vars(Receive(w, t) \/ Discard(w, t))
  /\ WF_vars(StaleScan)
  /\ \A r \in Row : WF_vars(StaleMark(r))
  /\ WF_vars(Tick)

FairSpec == Spec /\ Fairness

----------------------------------------------------------------------------
(* Properties.                                                             *)

\* A job is run a second time for one message only after the history row of
\* the earlier run was deleted: while both rows exist, the UNIQUE task id
\* stops a redelivered dispatch_job before it reaches the executor, even if
\* the first worker is still at work.
ExecutedOncePerRow ==
  \A t \in Task : \A r1, r2 \in executed[t] :
    r1 # r2 => ~Exists(r1) \/ ~Exists(r2)

\* A run shown as completed has really come to the end of its work: the
\* executor returned a success, or the backup chord's callback has run.
CompletedMeansDone ==
  \A r \in Row :
    status[r] = "completed" => outcome[r] \in {"success", "finalized"}

\* Stale-job detection never fails a run whose dispatcher is still alive:
\* the time limit ends a dispatcher before any of its runs looks stale.
StaleSparesLiveRuns == staleFound \cap HeldRows = {}

\* A finished run goes back to an unfinished status only when it was
\* cancelled before its dispatcher reached mark_started (the cancel endpoint
\* finds no task id to revoke, and mark_started looks at no status): no stale
\* mark, late callback or second delivery reopens a run that had begun.
ReopensOnlyUnstarted ==
  \A r \in Row :
    status[r] \in Finished /\ status'[r] \in Unfinished
      => status[r] = "cancelled" /\ celeryTaskId[r] = NoTask

ReopenedOnlyBeforeStart == [][ReopensOnlyUnstarted]_vars

\* Every run leaves the unfinished statuses some day, whatever happens to
\* its worker, its chord or its last database update.
RunsSettle ==
  \A r \in Row : status[r] \in Unfinished ~> status[r] \notin Unfinished

----------------------------------------------------------------------------
(* Why the safety properties hold: the inductive invariant.                *)

\* What a worker's program counter says of its locals.
WorkersConsistent ==
  \A w \in Worker :
    /\ pc[w] = "idle" => wtask[w] = NoTask /\ elapsed[w] = 0
    /\ pc[w] # "idle" => wtask[w] \in Task
    /\ pc[w] \in {"idle", "received"} <=> wrow[w] = NoRow
    /\ wrow[w] # NoRow => wrow[w] < nextId

RowsHeldOnce ==
  \A v, w \in Worker : v # w /\ wrow[v] = wrow[w] => wrow[w] = NoRow

\* Ids not handed out yet occur nowhere; a row that is gone has no values.
UnusedRows ==
  \A r \in Row :
    /\ r >= nextId => /\ ~Exists(r)
                      /\ r \notin chord \cup staleFound
                      /\ outcome[r] = "none"
                      /\ \A t \in Task : r \notin executed[t]
    /\ ~Exists(r) => celeryTaskId[r] = NoTask
                  /\ queuedAge[r] = 0 /\ startedAge[r] = 0

\* A run whose dispatcher has not reached mark_started.
CreatedRunsFresh ==
  \A w \in Worker :
    pc[w] = "created" =>
      /\ status[wrow[w]] \in {"pending", "cancelled", "absent"}
      /\ celeryTaskId[wrow[w]] = NoTask
      /\ \A t \in Task : wrow[w] \notin executed[t]

ClaimsUnique ==
  \A q, r \in Row :
    celeryTaskId[q] = celeryTaskId[r] /\ celeryTaskId[q] # NoTask => q = r

ExecutionsClaimed ==
  \A t \in Task : \A r \in executed[t] : Exists(r) => celeryTaskId[r] = t

\* What has been achieved for the run a worker holds.
OutcomesTracked ==
  \A w \in Worker :
    /\ pc[w] \in {"created", "executing"} =>
         /\ outcome[wrow[w]] = "none"
         /\ wrow[w] \notin chord
    /\ pc[w] = "succeeded" => outcome[wrow[w]] = "success"
    /\ pc[w] \in {"succeeded", "failed"} => wrow[w] \notin chord

\* A run is no older than its dispatcher.
HeldRunsYoung ==
  \A w \in Worker :
    wrow[w] # NoRow /\ Exists(wrow[w]) =>
      queuedAge[wrow[w]] <= elapsed[w] /\ startedAge[wrow[w]] <= elapsed[w]

IInv ==
  /\ TypeOK /\ WorkersConsistent /\ RowsHeldOnce /\ UnusedRows
  /\ CreatedRunsFresh /\ ClaimsUnique /\ ExecutionsClaimed
  /\ OutcomesTracked /\ HeldRunsYoung
  /\ CompletedMeansDone /\ StaleSparesLiveRuns

----------------------------------------------------------------------------
\* The table is what decides whether a message may be executed: seen from the
\* rows that carry its task id, each dispatch follows JobClaims.
claim == [t \in Task |-> Claims(t)]
C == INSTANCE JobClaims
       WITH Task <- Task, Row <- Row, claim <- claim, executed <- executed
ImplementsClaims == C!Spec

\* "Ensure tasks survive worker crashes" (celery_app.py): when the broker and
\* the workers are through with a message whose only trouble was a lost
\* worker, its job has run to its end.
SurvivesWorkerCrash ==
  \A t \in published :
    t \notin queued \cup HeldTasks
      => \E r \in executed[t] : outcome[r] # "none" \/ r \in chord
=============================================================================
