----------------------------- MODULE TaskLaunch -----------------------------
(***************************************************************************)
(* Tasks that an endpoint or a periodic task launches itself, beside the   *)
(* dispatcher, and the job run that shows them in the history.  There are  *)
(* two ways to tie them.  A "handed" task is given the id of a run created *)
(* before it (cache loaders, CSV export).  The others look their run up by *)
(* task id when they end (CSV imports, device updates, onboarding, checks):*)
(* their run is created after the message was published.  Either way       *)
(* mark_started comes last, in a race with the task.                       *)
(***************************************************************************)
EXTENDS JobRuns

CONSTANTS
  Handed,            \* the launches of the first kind
  NoRow,             \* no job run
  Faults,            \* what may go wrong in this instance
  MaxFaults          \* bound: faults of a behaviour

FaultKind == {"launcher", "crash", "killed", "dberror"}

ASSUME LaunchAssumption ==
  /\ Handed \subseteq Task
  /\ NoRow \notin Row
  /\ Faults \subseteq FaultKind /\ MaxFaults \in Nat

VARIABLES
  lpc,               \* "open" until the launcher of a task has returned
  row,               \* the run a launcher has created
  tpc,               \* where each task is
  result,            \* what the task's work came to in this delivery
  found,             \* the run a task is about to mark
  staleFound,        \* rows a running stale check is going to fail
  faults,            \* faults so far
  succeeded,         \* history: tasks whose work has come to a good end
  excused            \* history: tasks that returned early, met a fault, or
                     \* whose launcher was late

launchVars == <<lpc, row>>
taskVars == <<tpc, result, found>>
historyVars == <<succeeded, excused>>
vars == <<tableVars, launchVars, taskVars, staleFound, faults, historyVars>>

Active == {"working", "ended", "marking", "marked"}

TypeOK ==
  /\ TableTypeOK
  /\ lpc \in [Task -> {"open", "over"}]
  /\ row \in [Task -> Row \cup {NoRow}]
  /\ tpc \in [Task -> {"unsent", "queued", "over"} \cup Active]
  /\ result \in [Task -> {"none", "success", "failure"}]
  /\ found \in [Task -> Row \cup {NoRow}]
  /\ staleFound \subseteq Row
  /\ faults \in 0..MaxFaults
  /\ succeeded \subseteq Task /\ excused \subseteq Task

Init ==
  /\ TableInit
  /\ lpc = [t \in Task |-> "open"]
  /\ row = [t \in Task |-> NoRow]
  /\ tpc = [t \in Task |-> "unsent"]
  /\ result = [t \in Task |-> "none"]
  /\ found = [t \in Task |-> NoRow]
  /\ staleFound = {} /\ faults = 0
  /\ succeeded = {} /\ excused = {}

Fault(kind, t) ==
  /\ kind \in Faults /\ faults < MaxFaults
  /\ faults' = faults + 1
  /\ excused' = excused \cup {t}

----------------------------------------------------------------------------
(* The launcher.                                                           *)

CreateRun(t) ==
  /\ lpc[t] = "open" /\ row[t] = NoRow
  /\ t \notin Handed => tpc[t] # "unsent"
  /\ InsertPending
  /\ row' = [row EXCEPT ![t] = nextId]
  /\ UNCHANGED <<lpc, taskVars, staleFound, faults, historyVars>>

\* delay or apply_async.
Send(t) ==
  /\ lpc[t] = "open" /\ tpc[t] = "unsent"
  /\ t \in Handed => row[t] # NoRow
  /\ tpc' = [tpc EXCEPT ![t] = "queued"]
  /\ UNCHANGED <<tableVars, launchVars, result, found, staleFound, faults,
                 historyVars>>

\* mark_started with the id of the message that is already on its way.
LinkRun(t) ==
  /\ lpc[t] = "open" /\ tpc[t] # "unsent" /\ row[t] # NoRow
  /\ MarkStarted(row[t], t)
  /\ lpc' = [lpc EXCEPT ![t] = "over"]
  /\ excused' = IF tpc[t] \in {"marked", "over"} THEN excused \cup {t}
                                                ELSE excused
  /\ UNCHANGED <<row, taskVars, staleFound, faults, succeeded>>

\* The database or the broker refuses, or the backend is stopped.
LaunchFails(t) ==
  /\ lpc[t] = "open"
  /\ Fault("launcher", t)
  /\ lpc' = [lpc EXCEPT ![t] = "over"]
  /\ UNCHANGED <<tableVars, row, taskVars, staleFound, succeeded>>

----------------------------------------------------------------------------
(* The task.                                                               *)

Start(t) ==
  /\ tpc[t] = "queued"
  /\ tpc' = [tpc EXCEPT ![t] = "working"]
  /\ UNCHANGED <<tableVars, launchVars, result, found, staleFound, faults,
                 historyVars>>

\* The work is done, or has raised.
EndWork(t) ==
  /\ tpc[t] = "working"
  /\ tpc' = [tpc EXCEPT ![t] = "ended"]
  /\ \/ /\ result' = [result EXCEPT ![t] = "success"]
        /\ succeeded' = succeeded \cup {t}
     \/ /\ result' = [result EXCEPT ![t] = "failure"]
        /\ UNCHANGED succeeded
  /\ UNCHANGED <<tableVars, launchVars, found, staleFound, faults, excused>>

\* A task of either kind that finds nothing to do, or whose input or query is
\* no good, returns early and marks nothing; get_client_data never does.
ReturnEarly(t) ==
  /\ tpc[t] = "working"
  /\ tpc' = [tpc EXCEPT ![t] = "marked"]
  /\ result' = [result EXCEPT ![t] = "failure"]
  /\ excused' = excused \cup {t}
  /\ UNCHANGED <<tableVars, launchVars, found, staleFound, faults, succeeded>>

\* Mutant: the newest run that is going on is taken for the task's own.
NewestRun(t) ==
  IF t \in Handed THEN {row[t]}
  ELSE {r \in Row : /\ status[r] = "running"
                    /\ \A q \in Row : status[q] = "running" => q <= r}

\* get_job_run_by_celery_id, or the id in the task's arguments.
OwnRun(t) == IF t \in Handed THEN {row[t]} ELSE Claims(t)

FindRun(t) ==
  /\ tpc[t] = "ended"
  /\ IF OwnRun(t) = {}
     THEN /\ tpc' = [tpc EXCEPT ![t] = "marked"]
          /\ UNCHANGED found
     ELSE /\ tpc' = [tpc EXCEPT ![t] = "marking"]
          /\ \E r \in OwnRun(t) : found' = [found EXCEPT ![t] = r]
  /\ UNCHANGED <<tableVars, launchVars, result, staleFound, faults,
                 historyVars>>

\* Mutant: the handler of a failed task marks nothing.
MarkSuccessOnly(t) ==
  /\ tpc[t] = "marking"
  /\ tpc' = [tpc EXCEPT ![t] = "marked"]
  /\ IF result[t] = "success" THEN MarkFinished(found[t], "completed")
                              ELSE UNCHANGED tableVars
  /\ UNCHANGED <<launchVars, result, found, staleFound, faults, historyVars>>

\* Mutant: the task's own word for its result is stored as the status.
MarkResult(t) ==
  /\ tpc[t] = "marking"
  /\ tpc' = [tpc EXCEPT ![t] = "marked"]
  /\ MarkFinished(found[t], result[t])
  /\ UNCHANGED <<launchVars, result, found, staleFound, faults, historyVars>>

\* mark_completed or mark_failed.
MarkRun(t) ==
  /\ tpc[t] = "marking"
  /\ tpc' = [tpc EXCEPT ![t] = "marked"]
  /\ MarkFinished(found[t],
                  IF result[t] = "success" THEN "completed" ELSE "failed")
  /\ UNCHANGED <<launchVars, result, found, staleFound, faults, historyVars>>

\* The database fails; the task logs it and returns.  In a handed task the
\* exception handler may still manage to mark the run failed.
MarkFails(t) ==
  /\ tpc[t] \in {"ended", "marking"}
  /\ Fault("dberror", t)
  /\ tpc' = [tpc EXCEPT ![t] = "marked"]
  /\ \/ UNCHANGED tableVars
     \/ t \in Handed /\ tpc[t] = "marking" /\ MarkFinished(found[t], "failed")
  /\ UNCHANGED <<launchVars, result, found, staleFound, succeeded>>

\* The task has returned: its message is acknowledged.
Acknowledge(t) ==
  /\ tpc[t] = "marked"
  /\ tpc' = [tpc EXCEPT ![t] = "over"]
  /\ UNCHANGED <<tableVars, launchVars, result, found, staleFound, faults,
                 historyVars>>

\* The worker is lost and the message requeued: the task starts over.
WorkerLost(t) ==
  /\ tpc[t] \in Active
  /\ Fault("crash", t)
  /\ tpc' = [tpc EXCEPT ![t] = "queued"]
  /\ result' = [result EXCEPT ![t] = "none"]
  /\ found' = [found EXCEPT ![t] = NoRow]
  /\ UNCHANGED <<tableVars, launchVars, staleFound, succeeded>>

\* The time limit.
TaskKilled(t) ==
  /\ tpc[t] \in Active
  /\ Fault("killed", t)
  /\ tpc' = [tpc EXCEPT ![t] = "over"]
  /\ UNCHANGED <<tableVars, launchVars, result, found, staleFound, succeeded>>

----------------------------------------------------------------------------
(* check_stale_jobs, and time.  Active tasks whose worker does not answer   *)
(* and queued tasks that are not prefetched are missing from the reply.     *)

StaleScan ==
  /\ staleFound = {}
  /\ \E active \in SUBSET {t \in Task : tpc[t] \in Active \cup {"queued"}} :
       staleFound' = StaleRunning(active) \cup StalePending
  /\ staleFound' # {}
  /\ UNCHANGED <<tableVars, launchVars, taskVars, faults, historyVars>>

StaleMark(r) ==
  /\ r \in staleFound
  /\ staleFound' = staleFound \ {r}
  /\ MarkFinished(r, "failed")
  /\ UNCHANGED <<launchVars, taskVars, faults, historyVars>>

Tick ==
  /\ AgeRows
  /\ UNCHANGED <<nextId, status, celeryTaskId, launchVars, taskVars,
                 staleFound, faults, historyVars>>

----------------------------------------------------------------------------
LaunchStep(t) == CreateRun(t) \/ Send(t) \/ LinkRun(t)

TaskStep(t) ==
  \/ Start(t) \/ EndWork(t) \/ ReturnEarly(t)
  \/ FindRun(t) \/ MarkRun(t) \/ Acknowledge(t)

FaultStep(t) ==
  LaunchFails(t) \/ MarkFails(t) \/ WorkerLost(t) \/ TaskKilled(t)

Next ==
  \/ \E t \in Task : LaunchStep(t) \/ TaskStep(t) \/ FaultStep(t)
  \/ StaleScan
  \/ \E r \in Row : StaleMark(r)
  \/ Tick

Spec == Init /\ [][Next]_vars

\* Launchers return, workers run what is queued, beat runs the stale check
\* and time passes.
Fairness ==
  /\ \A t \in Task : WF_vars(LaunchStep(t)) /\ WF_vars(TaskStep(t))
  /\ WF_vars(StaleScan)
  /\ \A r \in Row : WF_vars(StaleMark(r))
  /\ WF_vars(Tick)

FairSpec == Spec /\ Fairness

----------------------------------------------------------------------------
(* Properties.                                                             *)

\* A run shows "completed" only if the very task it was created for has come
\* to a good end: no task marks the run of another launch.
CompletedByOwnTask ==
  \A t \in Task :
    row[t] # NoRow /\ status[row[t]] = "completed" => t \in succeeded

\* The only runs left unfinished behind a task that is over are those whose
\* launcher was late with mark_started, whose task (handed its run or looking
\* it up) returned early, or which met a fault: in every other order of the
\* launch and the task the run is marked.  ("The cache task itself is
\* responsible", says dispatch_cache_task of the marking.)
UnfinishedExplained ==
  \A t \in Task :
    /\ lpc[t] = "over" /\ tpc[t] = "over"
    /\ row[t] # NoRow /\ status[row[t]] \in Unfinished
    => t \in excused

\* Even those are not left behind: the stale check settles them in the end.
LaunchedRunsSettle ==
  \A r \in Row : status[r] \in Unfinished ~> status[r] \notin Unfinished
=============================================================================
