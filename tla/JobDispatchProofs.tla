------------------------- MODULE JobDispatchProofs -------------------------
(***************************************************************************)
(* IInv of JobDispatch is inductive, for any set of messages and workers,  *)
(* any limits with the time limit the smallest, and any combination of     *)
(* events; and what follows from it.                                       *)
(***************************************************************************)
EXTENDS JobDispatch, TLAPS

\* The parts of the type invariant, by the group of variables they speak of.
BrokerTypeOK ==
  /\ published \subseteq Task
  /\ queued \subseteq Task
  /\ redeliveries \in [Task -> 0..MaxRedeliveries]
  /\ revoked \in [Worker -> SUBSET Task]

\* The largest age is a natural number.
LEMMA MaxAgeType == MaxAge \in Nat /\ MaxAge >= 1
BY TableAssumption DEF MaxAge, Larger

\* Initially nothing has happened, so every part of the invariant holds.
LEMMA InitIInv == Init => IInv
<1> SUFFICES ASSUME Init PROVE IInv
  OBVIOUS
<1> USE DEF Init, TableInit
<1>1. TypeOK
  BY TableAssumption, DispatchAssumption, MaxAgeType
  DEF TypeOK, TableTypeOK, Status, Unfinished, Finished, PC, Row
<1>2. WorkersConsistent /\ RowsHeldOnce
  BY DEF WorkersConsistent, RowsHeldOnce
<1>3. UnusedRows /\ CreatedRunsFresh /\ ClaimsUnique
  BY DEF UnusedRows, CreatedRunsFresh, ClaimsUnique, Exists
<1>4. ExecutionsClaimed /\ OutcomesTracked /\ HeldRunsYoung
  BY DEF ExecutionsClaimed, OutcomesTracked, HeldRunsYoung
<1>5. CompletedMeansDone /\ StaleSparesLiveRuns
  BY DEF CompletedMeansDone, StaleSparesLiveRuns
<1> QED
  BY <1>1, <1>2, <1>3, <1>4, <1>5 DEF IInv

----------------------------------------------------------------------------
\* A step of the broker, or a request that is only accepted, keeps the
\* invariant: it changes no row and no worker.
LEMMA IdleStep ==
  ASSUME IInv, BrokerTypeOK', requests' \subseteq Row \X {"cancel", "delete"},
         UNCHANGED <<tableVars, workerVars, chord, staleFound, historyVars>>
  PROVE  IInv'
<1> USE DEF IInv, tableVars, workerVars, historyVars
<1>1. TypeOK'
  BY DEF TypeOK, TableTypeOK, BrokerTypeOK
<1>2. WorkersConsistent' /\ RowsHeldOnce'
  BY DEF WorkersConsistent, RowsHeldOnce
<1>3. UnusedRows' /\ CreatedRunsFresh' /\ ClaimsUnique'
  BY DEF UnusedRows, CreatedRunsFresh, ClaimsUnique, Exists
<1>4. ExecutionsClaimed' /\ OutcomesTracked' /\ HeldRunsYoung'
  BY DEF ExecutionsClaimed, OutcomesTracked, HeldRunsYoung, Exists
<1>5. CompletedMeansDone' /\ StaleSparesLiveRuns'
  BY DEF CompletedMeansDone, StaleSparesLiveRuns, HeldRows
<1> QED
  BY <1>1, <1>2, <1>3, <1>4, <1>5

\* A worker that gives its message up keeps the invariant, whatever becomes
\* of the message.
LEMMA LeaveOnly ==
  ASSUME IInv, NEW w \in Worker, Leave(w), BrokerTypeOK',
         UNCHANGED <<tableVars, chord, userVars, historyVars>>
  PROVE  IInv'
<1> USE DEF IInv, tableVars, userVars, historyVars, Leave
<1>1. TypeOK'
  <2>1. TypeOK
    OBVIOUS
  <2>2. pc' \in [Worker -> PC] /\ wtask' \in [Worker -> Task \cup {NoTask}]
    BY <2>1 DEF TypeOK, PC
  <2>3. wrow' \in [Worker -> Row \cup {NoRow}]
    BY <2>1 DEF TypeOK
  <2>4. elapsed' \in [Worker -> 0..JobTimeLimit]
    BY <2>1, DispatchAssumption DEF TypeOK
  <2> QED
    BY <2>1, <2>2, <2>3, <2>4 DEF TypeOK, TableTypeOK, BrokerTypeOK
<1>2. WorkersConsistent' /\ RowsHeldOnce'
  BY DEF WorkersConsistent, RowsHeldOnce, TypeOK
<1>3. UnusedRows' /\ ClaimsUnique'
  BY DEF UnusedRows, ClaimsUnique, Exists
<1>4. CreatedRunsFresh' /\ OutcomesTracked'
  BY DEF CreatedRunsFresh, OutcomesTracked, TypeOK
<1>5. ExecutionsClaimed' /\ HeldRunsYoung'
  BY DEF ExecutionsClaimed, HeldRunsYoung, Exists, TypeOK
<1>6. CompletedMeansDone' /\ StaleSparesLiveRuns'
  BY DEF CompletedMeansDone, StaleSparesLiveRuns, HeldRows, TypeOK
<1> QED
  BY <1>1, <1>2, <1>3, <1>4, <1>5, <1>6

\* Deleting rows keeps the invariant: a row that is gone claims nothing.
LEMMA DeleteOnly ==
  ASSUME IInv, NEW S \in SUBSET Row, Delete(S),
         UNCHANGED <<brokerVars, workerVars, chord, staleFound, historyVars>>,
         requests' \subseteq requests
  PROVE  IInv'
<1> USE DEF IInv, brokerVars, workerVars, historyVars, Delete, SetStatus
<1>1. TypeOK'
  BY MaxAgeType DEF TypeOK, TableTypeOK, Status
<1>2. WorkersConsistent' /\ RowsHeldOnce'
  BY DEF WorkersConsistent, RowsHeldOnce
<1>3. UnusedRows' /\ ClaimsUnique'
  BY DEF UnusedRows, ClaimsUnique, Exists, TypeOK, TableTypeOK
<1>4. CreatedRunsFresh'
  BY DEF CreatedRunsFresh, WorkersConsistent, TypeOK, TableTypeOK, Exists
<1>5. OutcomesTracked'
  BY DEF OutcomesTracked
<1>6. ExecutionsClaimed'
  BY DEF ExecutionsClaimed, Exists, TypeOK, TableTypeOK
<1>7. HeldRunsYoung'
  BY DEF HeldRunsYoung, Exists, TypeOK, TableTypeOK
<1>8. CompletedMeansDone' /\ StaleSparesLiveRuns'
  BY DEF CompletedMeansDone, StaleSparesLiveRuns, HeldRows, Exists, TypeOK,
         TableTypeOK
<1> QED
  BY <1>1, <1>2, <1>3, <1>4, <1>5, <1>6, <1>7, <1>8

\* Writing a final status over a row keeps the invariant when "completed" is
\* only written over finished work, and when no run that has yet to start is
\* given another status than "cancelled".
LEMMA FinishOnly ==
  ASSUME IInv, NEW r \in Row, NEW s \in Finished, MarkFinished(r, s),
         s = "completed" => outcome[r] = "success",
         \A w \in Worker : pc[w] = "created" /\ wrow[w] = r => s = "cancelled",
         UNCHANGED <<brokerVars, workerVars, chord, historyVars>>,
         requests' \subseteq requests, staleFound' \subseteq staleFound
  PROVE  IInv'
<1> USE DEF IInv, brokerVars, workerVars, historyVars, MarkFinished, SetStatus
<1>1. TypeOK'
  BY DEF TypeOK, TableTypeOK, Status
<1>2. WorkersConsistent' /\ RowsHeldOnce'
  BY DEF WorkersConsistent, RowsHeldOnce
<1>3. UnusedRows' /\ ClaimsUnique'
  BY DEF UnusedRows, ClaimsUnique, Exists, TypeOK, TableTypeOK, Finished
<1>4. CreatedRunsFresh'
  BY DEF CreatedRunsFresh, WorkersConsistent, TypeOK, TableTypeOK, Exists
<1>5. OutcomesTracked'
  BY DEF OutcomesTracked
<1>6. ExecutionsClaimed' /\ HeldRunsYoung'
  BY DEF ExecutionsClaimed, HeldRunsYoung, Exists, TypeOK, TableTypeOK,
         Finished
<1>7. CompletedMeansDone' /\ StaleSparesLiveRuns'
  BY DEF CompletedMeansDone, StaleSparesLiveRuns, HeldRows, TypeOK,
         TableTypeOK
<1> QED
  BY <1>1, <1>2, <1>3, <1>4, <1>5, <1>6, <1>7

----------------------------------------------------------------------------
\* The dispatcher's own steps.

\* The next id occurs nowhere yet.
LEMMA NextRowUnused ==
  ASSUME IInv, nextId \in Row
  PROVE  /\ nextId \in Nat /\ nextId # NoRow /\ ~Exists(nextId)
         /\ outcome[nextId] = "none" /\ nextId \notin chord \cup staleFound
         /\ \A t \in Task : nextId \notin executed[t]
         /\ celeryTaskId[nextId] = NoTask
         /\ queuedAge[nextId] = 0 /\ startedAge[nextId] = 0
<1>1. nextId \in Nat /\ nextId # NoRow
  BY TableAssumption, DispatchAssumption DEF Row
<1>2. nextId >= nextId
  BY <1>1
<1>3. UnusedRows
  BY DEF IInv
<1>4. /\ ~Exists(nextId)
      /\ outcome[nextId] = "none" /\ nextId \notin chord \cup staleFound
      /\ \A t \in Task : nextId \notin executed[t]
  BY <1>2, <1>3 DEF UnusedRows
<1> QED
  BY <1>1, <1>3, <1>4 DEF UnusedRows

\* A new row is fresh.
LEMMA CreateJobRunIInv ==
  ASSUME IInv, NEW w \in Worker, CreateJobRun(w)
  PROVE  IInv'
<1> DEFINE r == nextId
<1> USE DEF IInv, CreateJobRun, InsertPending, brokerVars, userVars,
            historyVars
<1>1. /\ r \in Row /\ r \in Nat /\ r # NoRow /\ TypeOK
      /\ status' = [status EXCEPT ![r] = "pending"]
      /\ wrow' = [wrow EXCEPT ![w] = r] /\ wrow[w] = NoRow
      /\ ~Exists(r) /\ celeryTaskId[r] = NoTask /\ outcome[r] = "none"
      /\ r \notin chord \cup staleFound
      /\ \A t \in Task : r \notin executed[t]
  BY NextRowUnused DEF WorkersConsistent
<1>2. \A v \in Worker : wrow[v] # r
  BY <1>1, TableAssumption DEF WorkersConsistent, TypeOK, Row
<1>3. TypeOK'
  <2>1. TableTypeOK'
    BY <1>1, TableAssumption DEF TypeOK, TableTypeOK, Status, Unfinished, Row
  <2>2. pc' \in [Worker -> PC] /\ wrow' \in [Worker -> Row \cup {NoRow}]
    BY <1>1 DEF TypeOK, PC
  <2> QED
    BY <1>1, <2>1, <2>2 DEF TypeOK
<1>4. WorkersConsistent'
  BY <1>1, TableAssumption DEF WorkersConsistent, TypeOK, Row
<1>5. RowsHeldOnce'
  BY <1>1, <1>2 DEF RowsHeldOnce, TypeOK
<1>6. UnusedRows' /\ ClaimsUnique'
  BY <1>1, TableAssumption
  DEF UnusedRows, ClaimsUnique, Exists, TypeOK, TableTypeOK, Row
<1>7. CreatedRunsFresh'
  BY <1>1, <1>2 DEF CreatedRunsFresh, WorkersConsistent, TypeOK, TableTypeOK
<1>8. ExecutionsClaimed'
  BY <1>1 DEF ExecutionsClaimed, Exists, TypeOK, TableTypeOK
<1>9. OutcomesTracked'
  BY <1>1, <1>2 DEF OutcomesTracked, TypeOK
<1>10. HeldRunsYoung'
  <2>1. queuedAge'[r] = 0 /\ startedAge'[r] = 0 /\ elapsed'[w] >= 0
    BY <1>1, NextRowUnused, DispatchAssumption DEF TypeOK
  <2>2. \A v \in Worker : v # w => wrow'[v] = wrow[v] /\ wrow[v] # r
    BY <1>1, <1>2 DEF TypeOK
  <2>3. wrow'[w] = r
    BY <1>1 DEF TypeOK
  <2> QED
    BY <1>1, <2>1, <2>2, <2>3 DEF HeldRunsYoung, Exists, TypeOK, TableTypeOK
<1>11. CompletedMeansDone' /\ StaleSparesLiveRuns'
  BY <1>1 DEF CompletedMeansDone, StaleSparesLiveRuns, HeldRows, TypeOK,
              TableTypeOK
<1> QED
  BY <1>3, <1>4, <1>5, <1>6, <1>7, <1>8, <1>9, <1>10, <1>11

\* mark_started claims the task id only while no other row has it.
LEMMA StartJobIInv ==
  ASSUME IInv, NEW w \in Worker, StartJob(w)
  PROVE  IInv'
<1> DEFINE r == wrow[w]
           t == wtask[w]
<1> USE DEF IInv, StartJob, MarkStarted, brokerVars, userVars
<1>1. /\ TypeOK /\ pc[w] = "created" /\ r \in Row /\ t \in Task
      /\ r < nextId /\ t # NoTask
      /\ celeryTaskId[r] = NoTask /\ outcome[r] = "none" /\ r \notin chord
  BY TableAssumption
  DEF TypeOK, WorkersConsistent, CreatedRunsFresh, OutcomesTracked
<1>2. \A v \in Worker : v # w => wrow[v] # r
  BY <1>1, DispatchAssumption DEF RowsHeldOnce
<1>3. Exists(r) => \A q \in Row : Exists(q) /\ q # r => celeryTaskId[q] # t
  BY <1>1 DEF UniqueViolation, Claims
<1>4. TypeOK'
  <2>1. TableTypeOK'
    BY <1>1, MaxAgeType
    DEF TypeOK, TableTypeOK, SetStatus, Status, Unfinished
  <2>2. pc' \in [Worker -> PC] /\ executed' \in [Task -> SUBSET Row]
    BY <1>1 DEF TypeOK, PC
  <2> QED
    BY <1>1, <2>1, <2>2 DEF TypeOK
<1>5. WorkersConsistent' /\ RowsHeldOnce'
  BY <1>1 DEF WorkersConsistent, RowsHeldOnce, TypeOK
<1>6. UnusedRows'
  BY <1>1, TableAssumption
  DEF UnusedRows, Exists, SetStatus, TypeOK, TableTypeOK, Row
<1>7. ClaimsUnique'
  BY <1>1, <1>3 DEF ClaimsUnique, UnusedRows, TypeOK, TableTypeOK
<1>8. CreatedRunsFresh'
  BY <1>1, <1>2
  DEF CreatedRunsFresh, WorkersConsistent, SetStatus, TypeOK, TableTypeOK
<1>9. ExecutionsClaimed'
  BY <1>1 DEF ExecutionsClaimed, CreatedRunsFresh, Exists, SetStatus, TypeOK,
              TableTypeOK
<1>10. OutcomesTracked'
  BY <1>1 DEF OutcomesTracked, TypeOK
<1>11. HeldRunsYoung'
  BY <1>1 DEF HeldRunsYoung, Exists, SetStatus, TypeOK, TableTypeOK
<1>12. CompletedMeansDone' /\ StaleSparesLiveRuns'
  BY <1>1 DEF CompletedMeansDone, StaleSparesLiveRuns, HeldRows, SetStatus,
              TypeOK, TableTypeOK
<1> QED
  BY <1>4, <1>5, <1>6, <1>7, <1>8, <1>9, <1>10, <1>11, <1>12

\* A message taken from the queue brings a task id and no row.
LEMMA ReceiveIInv ==
  ASSUME IInv, NEW w \in Worker, NEW t \in Task, Receive(w, t)
  PROVE  IInv'
<1> USE DEF IInv, Receive, tableVars, userVars, historyVars
<1>1. TypeOK /\ wrow[w] = NoRow /\ t # NoTask
  BY TableAssumption DEF WorkersConsistent
<1>2. TypeOK'
  BY <1>1 DEF TypeOK, TableTypeOK, PC
<1>3. WorkersConsistent' /\ RowsHeldOnce'
  BY <1>1 DEF WorkersConsistent, RowsHeldOnce, TypeOK
<1>4. UnusedRows' /\ ClaimsUnique' /\ ExecutionsClaimed'
  BY <1>1 DEF UnusedRows, ClaimsUnique, ExecutionsClaimed, Exists
<1>5. CreatedRunsFresh' /\ OutcomesTracked'
  BY <1>1 DEF CreatedRunsFresh, OutcomesTracked, TypeOK
<1>6. HeldRunsYoung' /\ CompletedMeansDone' /\ StaleSparesLiveRuns'
  BY <1>1 DEF HeldRunsYoung, Exists, CompletedMeansDone, StaleSparesLiveRuns,
              HeldRows
<1> QED
  BY <1>2, <1>3, <1>4, <1>5, <1>6

\* The steps of a started run that leave the table alone.
LEMMA ExecutionIInv ==
  ASSUME IInv, NEW w \in Worker,
         \/ StartRefused(w) \/ ExecuteJob(w)
         \/ LaunchChord(w) \/ CompletionRefused(w)
  PROVE  IInv'
<1> DEFINE r == wrow[w]
<1> USE DEF IInv, StartRefused, ExecuteJob, LaunchChord, CompletionRefused,
            tableVars, brokerVars, userVars, historyVars
<1>1. /\ TypeOK /\ r \in Row /\ r < nextId /\ r \notin chord
      /\ pc[w] \in {"created", "executing", "succeeded"}
      /\ pc[w] # "succeeded" => outcome[r] = "none"
      /\ \A v \in Worker : v # w => wrow[v] # r
  BY DispatchAssumption
  DEF TypeOK, WorkersConsistent, OutcomesTracked, RowsHeldOnce
<1>2. /\ chord' \subseteq chord \cup {r}
      /\ \A q \in Row : q # r => outcome'[q] = outcome[q]
      /\ \E x \in {"launched", "succeeded", "failed"} :
           /\ pc' = [pc EXCEPT ![w] = x]
           /\ x = "succeeded" => outcome'[r] = "success"
           /\ x # "launched" => chord' = chord
  BY <1>1 DEF TypeOK
<1>3. TypeOK'
  <2>1. CASE StartRefused(w) \/ CompletionRefused(w)
    BY <1>1, <2>1 DEF TypeOK, TableTypeOK, PC
  <2>2. CASE ExecuteJob(w)
    BY <1>1, <2>2 DEF TypeOK, TableTypeOK, PC
  <2>3. CASE LaunchChord(w)
    BY <1>1, <2>3 DEF TypeOK, TableTypeOK, PC
  <2> QED
    BY <2>1, <2>2, <2>3
<1>4. WorkersConsistent' /\ RowsHeldOnce'
  BY <1>1, <1>2 DEF WorkersConsistent, RowsHeldOnce, TypeOK
<1>5. UnusedRows'
  BY <1>1, <1>2, TableAssumption
  DEF UnusedRows, Exists, TypeOK, TableTypeOK, Row
<1>6. ClaimsUnique' /\ ExecutionsClaimed'
  BY <1>1 DEF ClaimsUnique, ExecutionsClaimed, Exists
<1>7. CreatedRunsFresh'
  BY <1>1, <1>2 DEF CreatedRunsFresh, TypeOK
<1>8. OutcomesTracked'
  BY <1>1, <1>2 DEF OutcomesTracked, WorkersConsistent, TypeOK
<1>9. HeldRunsYoung' /\ StaleSparesLiveRuns'
  BY <1>1 DEF HeldRunsYoung, Exists, StaleSparesLiveRuns, HeldRows
<1>10. CompletedMeansDone'
  BY <1>1 DEF CompletedMeansDone, TypeOK
<1> QED
  BY <1>3, <1>4, <1>5, <1>6, <1>7, <1>8, <1>9, <1>10

\* The dispatcher's last update, which is made on a run that has begun.
LEMMA RecordIInv ==
  ASSUME IInv, NEW w \in Worker, RecordSuccess(w) \/ RecordFailure(w)
  PROVE  IInv'
<1> DEFINE r == wrow[w]
<1> USE DEF IInv, RecordSuccess, RecordFailure, MarkFinished, SetStatus,
            Leave, brokerVars, userVars, historyVars
<1>1. /\ TypeOK /\ r \in Row
      /\ pc[w] \in {"succeeded", "failed"}
      /\ pc[w] = "succeeded" => outcome[r] = "success"
      /\ \A v \in Worker : v # w => wrow[v] # r
  BY DispatchAssumption
  DEF TypeOK, WorkersConsistent, OutcomesTracked, RowsHeldOnce
<1>2. PICK s \in {"completed", "failed"} :
        /\ status' = SetStatus({r}, s)
        /\ s = "completed" => outcome[r] = "success"
  BY <1>1
<1>3. TypeOK'
  <2>1. TableTypeOK'
    BY <1>1, <1>2 DEF TypeOK, TableTypeOK, Status, Finished
  <2>2. pc' \in [Worker -> PC] /\ wrow' \in [Worker -> Row \cup {NoRow}]
    BY <1>1 DEF TypeOK, PC
  <2>3. elapsed' \in [Worker -> 0..JobTimeLimit]
    BY <1>1, DispatchAssumption DEF TypeOK
  <2> QED
    BY <1>1, <2>1, <2>2, <2>3 DEF TypeOK
<1>4. WorkersConsistent' /\ RowsHeldOnce'
  BY <1>1 DEF WorkersConsistent, RowsHeldOnce, TypeOK
<1>5. UnusedRows' /\ ClaimsUnique' /\ ExecutionsClaimed'
  BY <1>1, <1>2 DEF UnusedRows, ClaimsUnique, ExecutionsClaimed, Exists,
                    TypeOK, TableTypeOK
<1>6. CreatedRunsFresh'
  <2>1. \A q \in Row : q # r => status'[q] = status[q]
    BY <1>1, <1>2 DEF TypeOK, TableTypeOK
  <2>2. \A v \in Worker :
          pc'[v] = "created" =>
            /\ v # w /\ pc[v] = "created" /\ wrow'[v] = wrow[v]
            /\ wrow[v] \in Row /\ wrow[v] # r
    BY <1>1, DispatchAssumption DEF WorkersConsistent, TypeOK
  <2>3. UNCHANGED <<celeryTaskId, executed>>
    OBVIOUS
  <2> QED
    BY <2>1, <2>2, <2>3 DEF CreatedRunsFresh
<1>7. OutcomesTracked'
  BY <1>1 DEF OutcomesTracked, TypeOK
<1>8. HeldRunsYoung' /\ StaleSparesLiveRuns'
  BY <1>1, <1>2 DEF HeldRunsYoung, Exists, StaleSparesLiveRuns, HeldRows,
                    TypeOK, TableTypeOK
<1>9. CompletedMeansDone'
  BY <1>1, <1>2 DEF CompletedMeansDone, TypeOK, TableTypeOK
<1> QED
  BY <1>3, <1>4, <1>5, <1>6, <1>7, <1>8, <1>9

----------------------------------------------------------------------------
\* Everyone else's steps.

\* The chord of a backup ends.
LEMMA ChordIInv ==
  ASSUME IInv, NEW r \in Row, FinalizeBackup(r) \/ ChordLost(r)
  PROVE  IInv'
<1> USE DEF IInv, FinalizeBackup, ChordLost, MarkFinished, SetStatus,
            tableVars, brokerVars, workerVars, userVars, historyVars
<1>1. TypeOK /\ r \in chord /\ chord' = chord \ {r}
  OBVIOUS
<1>2. \A w \in Worker :
        pc[w] \in {"created", "executing", "succeeded", "failed"}
          => wrow[w] # r
  BY <1>1 DEF OutcomesTracked
<1>3. TypeOK'
  BY <1>1 DEF TypeOK, TableTypeOK, Status, Finished
<1>4. WorkersConsistent' /\ RowsHeldOnce'
  BY <1>1 DEF WorkersConsistent, RowsHeldOnce
<1>5. UnusedRows' /\ ClaimsUnique' /\ ExecutionsClaimed'
  BY <1>1 DEF UnusedRows, ClaimsUnique, ExecutionsClaimed, Exists, TypeOK,
              TableTypeOK
<1>6. CreatedRunsFresh'
  <2>1. \A q \in Row : q # r => status'[q] = status[q]
    BY <1>1 DEF TypeOK, TableTypeOK
  <2>2. /\ UNCHANGED <<pc, wrow, celeryTaskId, executed>>
        /\ \A w \in Worker : pc[w] = "created" => wrow[w] \in Row
    BY <1>1, DispatchAssumption DEF WorkersConsistent, TypeOK
  <2> QED
    BY <1>2, <2>1, <2>2 DEF CreatedRunsFresh
<1>7. OutcomesTracked'
  BY <1>1, <1>2 DEF OutcomesTracked, WorkersConsistent, TypeOK
<1>8. HeldRunsYoung'
  BY <1>1 DEF HeldRunsYoung, Exists, TypeOK, TableTypeOK
<1>9. StaleSparesLiveRuns' /\ CompletedMeansDone'
  BY <1>1 DEF StaleSparesLiveRuns, HeldRows, CompletedMeansDone, TypeOK,
              TableTypeOK
<1> QED
  BY <1>3, <1>4, <1>5, <1>6, <1>7, <1>8, <1>9

\* A stale check finds none of the runs that workers hold: each is at most
\* as old as its worker's task, and the time limit is below both limits.
LEMMA StaleScanIInv ==
  ASSUME IInv, StaleScan
  PROVE  IInv'
<1> USE DEF IInv, StaleScan, tableVars, brokerVars, workerVars, historyVars
<1>1. TypeOK
  OBVIOUS
<1>2. \A r \in staleFound' :
        /\ r \in Row /\ Exists(r)
        /\ queuedAge[r] > JobTimeLimit \/ startedAge[r] > JobTimeLimit
  BY <1>1, TimeLimitAssumption, TableAssumption, DispatchAssumption
  DEF StaleRunning, StalePending, Exists, TypeOK, TableTypeOK, MaxAge, Larger
<1>3. ASSUME NEW w \in Worker, wrow[w] \in staleFound'
      PROVE  FALSE
  <2>1. /\ wrow[w] # NoRow /\ Exists(wrow[w])
        /\ \/ queuedAge[wrow[w]] > JobTimeLimit
           \/ startedAge[wrow[w]] > JobTimeLimit
    BY <1>2, <1>3, DispatchAssumption
  <2>2. queuedAge[wrow[w]] <= elapsed[w] /\ startedAge[wrow[w]] <= elapsed[w]
    BY <2>1 DEF HeldRunsYoung
  <2>3. elapsed[w] \in Nat /\ elapsed[w] <= JobTimeLimit
    BY <1>1, DispatchAssumption DEF TypeOK
  <2>4. queuedAge[wrow[w]] \in Nat /\ startedAge[wrow[w]] \in Nat
    <3>1. wrow[w] \in Row
      BY <1>2, <1>3
    <3>2. queuedAge[wrow[w]] \in 0..MaxAge /\ startedAge[wrow[w]] \in 0..MaxAge
      BY <1>1, <3>1 DEF TypeOK, TableTypeOK
    <3> QED
      BY <3>2, MaxAgeType
  <2> QED
    BY <2>1, <2>2, <2>3, <2>4, DispatchAssumption
<1>4. StaleSparesLiveRuns'
  BY <1>3 DEF StaleSparesLiveRuns, HeldRows
<1>5. TypeOK'
  BY <1>1, <1>2 DEF TypeOK, TableTypeOK
<1>6. UnusedRows'
  BY <1>1, <1>2 DEF UnusedRows, Exists
<1>7. WorkersConsistent' /\ RowsHeldOnce' /\ CreatedRunsFresh'
  BY DEF WorkersConsistent, RowsHeldOnce, CreatedRunsFresh
<1>8. ClaimsUnique' /\ ExecutionsClaimed' /\ OutcomesTracked'
  BY DEF ClaimsUnique, ExecutionsClaimed, OutcomesTracked, Exists
<1>9. HeldRunsYoung' /\ CompletedMeansDone'
  BY DEF HeldRunsYoung, CompletedMeansDone, Exists
<1> QED
  BY <1>4, <1>5, <1>6, <1>7, <1>8, <1>9

\* An hour makes a run and its dispatcher older alike.
LEMMA TickIInv ==
  ASSUME IInv, Tick
  PROVE  IInv'
<1> USE DEF IInv, Tick, AgeRows, brokerVars, userVars, historyVars
<1>1. TypeOK
  OBVIOUS
<1>2. TypeOK'
  <2>1. /\ queuedAge' \in [Row -> 0..MaxAge]
        /\ startedAge' \in [Row -> 0..MaxAge]
    BY <1>1, MaxAgeType DEF TypeOK, TableTypeOK, Older
  <2>2. elapsed' \in [Worker -> 0..JobTimeLimit]
    BY <1>1, DispatchAssumption DEF TypeOK
  <2> QED
    BY <1>1, <2>1, <2>2 DEF TypeOK, TableTypeOK
<1>3. WorkersConsistent' /\ RowsHeldOnce'
  BY DEF WorkersConsistent, RowsHeldOnce, Busy
<1>4. UnusedRows' /\ CreatedRunsFresh'
  BY DEF UnusedRows, CreatedRunsFresh, Exists
<1>5. ClaimsUnique' /\ ExecutionsClaimed' /\ OutcomesTracked'
  BY DEF ClaimsUnique, ExecutionsClaimed, OutcomesTracked, Exists
<1>6. HeldRunsYoung'
  <2> SUFFICES ASSUME NEW w \in Worker, wrow[w] # NoRow, Exists(wrow[w])
               PROVE  /\ queuedAge'[wrow[w]] <= elapsed'[w]
                      /\ startedAge'[wrow[w]] <= elapsed'[w]
    BY DEF HeldRunsYoung, Exists
  <2>1. wrow[w] \in Row /\ Busy(w)
    BY <1>1 DEF WorkersConsistent, TypeOK, Busy
  <2>2. queuedAge[wrow[w]] <= elapsed[w] /\ startedAge[wrow[w]] <= elapsed[w]
    BY DEF HeldRunsYoung
  <2>3. elapsed'[w] = elapsed[w] + 1
    BY <2>1
  <2>4. \A a \in 0..MaxAge : Older(a) \in Nat /\ Older(a) <= a + 1
    BY MaxAgeType DEF Older
  <2>5. /\ queuedAge[wrow[w]] \in 0..MaxAge
        /\ startedAge[wrow[w]] \in 0..MaxAge
        /\ elapsed[w] \in Nat
    BY <1>1, <2>1, DispatchAssumption DEF TypeOK, TableTypeOK
  <2>6. /\ queuedAge'[wrow[w]] \in {queuedAge[wrow[w]], Older(queuedAge[wrow[w]])}
        /\ startedAge'[wrow[w]] \in
             {startedAge[wrow[w]], Older(startedAge[wrow[w]])}
    BY <2>1
  <2> QED
    BY <2>2, <2>3, <2>4, <2>5, <2>6, MaxAgeType
<1>7. CompletedMeansDone' /\ StaleSparesLiveRuns'
  BY DEF CompletedMeansDone, StaleSparesLiveRuns, HeldRows
<1> QED
  BY <1>2, <1>3, <1>4, <1>5, <1>6, <1>7

----------------------------------------------------------------------------
\* Every step keeps the invariant.
LEMMA NextIInv == IInv /\ [Next]_vars => IInv'
<1> SUFFICES ASSUME IInv, [Next]_vars
             PROVE  IInv'
  OBVIOUS
<1> USE DEF tableVars, brokerVars, workerVars, userVars, historyVars
<1>1. TypeOK /\ WorkersConsistent /\ BrokerTypeOK
  BY DEF IInv, TypeOK, BrokerTypeOK
<1>2. CASE UNCHANGED vars
  BY <1>1, <1>2, IdleStep DEF vars, BrokerTypeOK, TypeOK
<1>3. CASE BrokerStep
  <2>1. ASSUME NEW t \in Task, Publish(t)
        PROVE  IInv'
    BY <1>1, <2>1, IdleStep DEF Publish, BrokerTypeOK, TypeOK
  <2>2. ASSUME NEW t \in Task, Redeliver(t)
        PROVE  IInv'
    <3>1. BrokerTypeOK'
      BY <1>1, <2>2, DispatchAssumption DEF Redeliver, Requeue, BrokerTypeOK
    <3> QED
      BY <1>1, <2>2, <3>1, IdleStep DEF Redeliver, TypeOK
  <2>3. ASSUME NEW w \in Worker, NEW t \in Task, Receive(w, t)
        PROVE  IInv'
    BY <2>3, ReceiveIInv
  <2>4. ASSUME NEW w \in Worker, NEW t \in Task, Discard(w, t)
        PROVE  IInv'
    BY <1>1, <2>4, IdleStep DEF Discard, BrokerTypeOK, TypeOK
  <2> QED
    BY <1>3, <2>1, <2>2, <2>3, <2>4 DEF BrokerStep
<1>4. ASSUME NEW w \in Worker, WorkerStep(w)
      PROVE  IInv'
  <2>1. CASE FailBeforeRow(w) \/ ReturnRunning(w) \/ RecordNothing(w)
             \/ TimeLimit(w) \/ Terminate(w)
    <3>1. /\ Leave(w)
          /\ UNCHANGED <<tableVars, brokerVars, chord, userVars, historyVars>>
      BY <2>1 DEF FailBeforeRow, ReturnRunning, RecordNothing, TimeLimit,
                  Terminate
    <3>2. BrokerTypeOK'
      BY <1>1, <3>1 DEF BrokerTypeOK
    <3> QED
      BY <3>1, <3>2, LeaveOnly
  <2>2. CASE CreateJobRun(w)
    BY <2>2, CreateJobRunIInv
  <2>3. CASE StartJob(w)
    BY <2>3, StartJobIInv
  <2>4. CASE \/ StartRefused(w) \/ ExecuteJob(w)
             \/ LaunchChord(w) \/ CompletionRefused(w)
    BY <2>4, ExecutionIInv
  <2>5. CASE RecordSuccess(w) \/ RecordFailure(w)
    BY <2>5, RecordIInv
  <2> QED
    BY <1>4, <2>1, <2>2, <2>3, <2>4, <2>5 DEF WorkerStep
<1>5. ASSUME NEW w \in Worker, WorkerLost(w)
      PROVE  IInv'
  <2>1. wtask[w] \in Task
    BY <1>1, <1>5 DEF WorkerLost, Busy, WorkersConsistent
  <2>2. BrokerTypeOK'
    BY <1>1, <1>5, <2>1, DispatchAssumption
    DEF WorkerLost, Requeue, BrokerTypeOK
  <2> QED
    BY <1>5, <2>2, LeaveOnly DEF WorkerLost
<1>6. ASSUME NEW r \in Row, RowStep(r)
      PROVE  IInv'
  <2>1. CASE FinalizeBackup(r) \/ ChordLost(r)
    BY <2>1, ChordIInv
  <2>2. CASE CancelRequest(r)
    <3>1. CancelRequest(r) /\ TypeOK
      BY <1>1, <2>2
    <3>2. BrokerTypeOK'
      BY <3>1 DEF CancelRequest, BrokerTypeOK, TypeOK, TableTypeOK
    <3>3. requests' \subseteq Row \X {"cancel", "delete"}
      BY <3>1 DEF CancelRequest, TypeOK
    <3> QED
      BY <3>1, <3>2, <3>3, IdleStep DEF CancelRequest
  <2>3. CASE DeleteRequest(r)
    <3>1. requests' \subseteq Row \X {"cancel", "delete"}
      BY <1>1, <2>3 DEF DeleteRequest, TypeOK
    <3> QED
      BY <1>1, <2>3, <3>1, IdleStep DEF DeleteRequest, BrokerTypeOK
  <2>4. CASE CancelCommit(r)
    BY <2>4, FinishOnly DEF CancelCommit, Finished
  <2>5. CASE StaleMark(r)
    <3>1. \A w \in Worker : wrow[w] # r
      BY <2>5, DispatchAssumption
      DEF StaleMark, IInv, StaleSparesLiveRuns, HeldRows
    <3> QED
      BY <2>5, <3>1, FinishOnly DEF StaleMark, Finished
  <2>6. CASE DeleteCommit(r)
    BY <2>6, DeleteOnly DEF DeleteCommit
  <2> QED
    BY <1>6, <2>1, <2>2, <2>3, <2>4, <2>5, <2>6 DEF RowStep
<1>7. CASE ClearFiltered \/ ClearAll \/ CleanupOldRuns \/ CleanupByDays
  <2>1. \E S \in SUBSET Row : Delete(S)
    BY <1>7 DEF ClearFiltered, ClearAll, CleanupOldRuns, CleanupByDays,
                FinishedRows, OldRows
  <2> QED
    BY <1>7, <2>1, DeleteOnly
    DEF ClearFiltered, ClearAll, CleanupOldRuns, CleanupByDays
<1>8. CASE StaleScan
  BY <1>8, StaleScanIInv
<1>9. CASE Tick
  BY <1>9, TickIInv
<1> QED
  BY <1>2, <1>3, <1>4, <1>5, <1>6, <1>7, <1>8, <1>9 DEF Next

\* The invariant holds in every reachable state.
THEOREM Invariant == Spec => []IInv
<1>1. Init => IInv
  BY InitIInv
<1>2. IInv /\ [Next]_vars => IInv'
  BY NextIInv
<1> QED
  BY <1>1, <1>2, PTL DEF Spec

\* Every variable of the dispatch model keeps its type.
THEOREM TypeCorrect == Spec => []TypeOK
<1>1. IInv => TypeOK
  BY DEF IInv
<1> QED
  BY <1>1, Invariant, PTL

\* One message, however often it is delivered and wherever its workers die,
\* is executed under at most one of the rows that still exist: ids claimed by
\* executions (ExecutionsClaimed) are claimed once (ClaimsUnique).
THEOREM ExecutesOnce == Spec => []ExecutedOncePerRow
<1>1. IInv => ExecutedOncePerRow
  <2> SUFFICES ASSUME IInv, NEW t \in Task, NEW r1 \in executed[t],
                      NEW r2 \in executed[t], Exists(r1), Exists(r2)
               PROVE  r1 = r2
    BY DEF ExecutedOncePerRow
  <2>1. r1 \in Row /\ r2 \in Row /\ t # NoTask
    BY TableAssumption DEF IInv, TypeOK
  <2>2. celeryTaskId[r1] = t /\ celeryTaskId[r2] = t
    BY DEF IInv, ExecutionsClaimed
  <2> QED
    BY <2>1, <2>2 DEF IInv, ClaimsUnique
<1> QED
  BY <1>1, Invariant, PTL

\* A completed run has finished its work.
THEOREM CompletionIsTrue == Spec => []CompletedMeansDone
<1>1. IInv => CompletedMeansDone
  BY DEF IInv
<1> QED
  BY <1>1, Invariant, PTL

\* The stale check never marks a run that a worker still holds.
THEOREM StaleCheckIsSafe == Spec => []StaleSparesLiveRuns
<1>1. IInv => StaleSparesLiveRuns
  BY DEF IInv
<1> QED
  BY <1>1, Invariant, PTL

----------------------------------------------------------------------------
\* The steps that make a row unfinished: a new one, and mark_started.
LEMMA StatusSteps ==
  ASSUME IInv, [Next]_vars,
         ~ \E w \in Worker : CreateJobRun(w) \/ StartJob(w)
  PROVE  \A r \in Row : status'[r] \in Unfinished => status'[r] = status[r]
<1> USE DEF tableVars, brokerVars, workerVars, userVars, historyVars, vars
<1>1. status \in [Row -> Status]
  BY DEF IInv, TypeOK, TableTypeOK
<1>2. CASE UNCHANGED status
  BY <1>2
<1>3. CASE \E S \in SUBSET Row, s \in Finished \cup {"absent"} :
             status' = SetStatus(S, s)
  BY <1>1, <1>3 DEF SetStatus, Finished, Unfinished
<1>4. ASSUME NEW w \in Worker, WorkerStep(w)
      PROVE  \/ UNCHANGED status
             \/ \E S \in SUBSET Row, s \in Finished \cup {"absent"} :
                  status' = SetStatus(S, s)
  <2>1. CASE RecordSuccess(w) \/ RecordFailure(w)
    <3>1. wrow[w] \in Row
      BY <2>1, DispatchAssumption
      DEF IInv, TypeOK, WorkersConsistent, RecordSuccess, RecordFailure
    <3> QED
      BY <2>1, <3>1 DEF RecordSuccess, RecordFailure, MarkFinished, Finished
  <2> QED
    BY <1>4, <2>1
    DEF WorkerStep, FailBeforeRow, StartRefused, ExecuteJob, LaunchChord,
        ReturnRunning, CompletionRefused, RecordNothing, TimeLimit, Terminate
<1>5. ASSUME NEW r \in Row, RowStep(r)
      PROVE  \/ UNCHANGED status
             \/ \E S \in SUBSET Row, s \in Finished \cup {"absent"} :
                  status' = SetStatus(S, s)
  BY <1>5
  DEF RowStep, FinalizeBackup, ChordLost, CancelRequest, CancelCommit,
      DeleteRequest, DeleteCommit, StaleMark, MarkFinished, Delete, Finished
<1>6. CASE ClearFiltered \/ ClearAll \/ CleanupOldRuns \/ CleanupByDays
  <2>1. \E S \in SUBSET Row : status' = SetStatus(S, "absent")
    BY <1>6 DEF ClearFiltered, ClearAll, CleanupOldRuns, CleanupByDays,
                FinishedRows, OldRows, Delete
  <2> QED
    BY <1>3, <2>1
<1>7. CASE BrokerStep \/ StaleScan \/ Tick \/ UNCHANGED vars
           \/ \E w \in Worker : WorkerLost(w)
  BY <1>2, <1>7
  DEF BrokerStep, Publish, Redeliver, Receive, Discard, StaleScan, Tick,
      WorkerLost
<1> QED
  BY <1>2, <1>3, <1>4, <1>5, <1>6, <1>7 DEF Next

\* A finished run is reopened only by the mark_started of its own dispatcher,
\* and only when it was cancelled before that.
THEOREM ReopenedEarlyOnly == Spec => ReopenedOnlyBeforeStart
<1>1. ASSUME IInv, [Next]_vars
      PROVE  ReopensOnlyUnstarted
  <2> SUFFICES ASSUME NEW r \in Row, status[r] \in Finished,
                      status'[r] \in Unfinished
               PROVE  status[r] = "cancelled" /\ celeryTaskId[r] = NoTask
    BY DEF ReopensOnlyUnstarted
  <2>1. status \in [Row -> Status] /\ status'[r] # status[r]
    BY <1>1 DEF IInv, TypeOK, TableTypeOK, Finished, Unfinished
  <2>2. PICK w \in Worker : CreateJobRun(w) \/ StartJob(w)
    BY <1>1, <2>1, StatusSteps
  <2>3. CASE CreateJobRun(w)
    <3>1. r = nextId
      BY <2>1, <2>3 DEF CreateJobRun, InsertPending
    <3>2. ~Exists(r)
      BY <1>1, <3>1, NextRowUnused
    <3> QED
      BY <3>2 DEF Exists, Finished
  <2>4. CASE StartJob(w)
    <3>1. r = wrow[w] /\ pc[w] = "created"
      BY <2>1, <2>4 DEF StartJob, MarkStarted, SetStatus
    <3> QED
      BY <1>1, <3>1 DEF IInv, CreatedRunsFresh, Finished
  <2> QED
    BY <2>2, <2>3, <2>4
<1> QED
  BY <1>1, Invariant, PTL DEF Spec, ReopenedOnlyBeforeStart
=============================================================================
