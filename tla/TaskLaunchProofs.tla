-------------------------- MODULE TaskLaunchProofs --------------------------
(***************************************************************************)
(* The launch protocol, for any number of launches of both kinds, any      *)
(* faults and any limits of the stale check.                               *)
(***************************************************************************)
EXTENDS TaskLaunch, TLAPS

\* Rows are handed out in order, and none is deleted.
RowsInOrder ==
  /\ \A r \in Row : Exists(r) <=> r < nextId
  /\ \A t \in Task : row[t] # NoRow => row[t] < nextId

\* Every launch has a row of its own, and no other row carries its task id.
RowsOwned ==
  /\ \A t, u \in Task : row[t] = row[u] /\ row[t] # NoRow => t = u
  /\ \A r \in Row : Exists(r) => \E t \in Task : row[t] = r
  /\ \A r \in Row : \A t \in Task : celeryTaskId[r] = t => row[t] = r

\* A launcher that has returned without a fault has linked its row.
LinkedUnlessExcused ==
  \A t \in Task :
    lpc[t] = "over" /\ t \notin excused
      => row[t] # NoRow /\ celeryTaskId[row[t]] = t

\* What a task knows of its row and of its result.
TasksKnow ==
  \A t \in Task :
    /\ tpc[t] = "marking" => found[t] = row[t] /\ row[t] # NoRow
    /\ tpc[t] \in {"ended", "marking"} => result[t] # "none"
    /\ result[t] = "success" => t \in succeeded
    /\ t \in Handed /\ tpc[t] # "unsent" => row[t] # NoRow

\* Behind a task that has marked its run, the run is finished or excused.
MarkedIsFinished ==
  \A t \in Task :
    tpc[t] \in {"marked", "over"} /\ lpc[t] = "over" /\ t \notin excused
      => status[row[t]] \in Finished

IInv ==
  /\ TypeOK
  /\ RowsInOrder
  /\ RowsOwned
  /\ LinkedUnlessExcused
  /\ TasksKnow
  /\ MarkedIsFinished
  /\ CompletedByOwnTask

LEMMA MaxAgeType == MaxAge \in Nat
BY TableAssumption DEF MaxAge, Larger

LEMMA InitIInv == Init => IInv
<1> SUFFICES ASSUME Init PROVE IInv
  OBVIOUS
<1> USE TableAssumption, LaunchAssumption DEF Init, TableInit
<1>1. TypeOK
  BY MaxAgeType DEF TypeOK, TableTypeOK, Status, Row
<1>2. RowsInOrder /\ RowsOwned
  BY DEF RowsInOrder, RowsOwned, Exists, Row
<1>3. LinkedUnlessExcused /\ TasksKnow /\ MarkedIsFinished /\ CompletedByOwnTask
  BY DEF LinkedUnlessExcused, TasksKnow, MarkedIsFinished, CompletedByOwnTask
<1> QED
  BY <1>1, <1>2, <1>3 DEF IInv

----------------------------------------------------------------------------
\* A step of one task that leaves the table and the launchers alone keeps the
\* invariant when the task does not claim more than it knows.
LEMMA TaskOnlyStep ==
  ASSUME IInv, NEW t \in Task,
         TypeOK',
         \A u \in Task \ {t} : tpc'[u] = tpc[u] /\ result'[u] = result[u]
                                /\ found'[u] = found[u],
         UNCHANGED <<tableVars, launchVars>>,
         succeeded \subseteq succeeded', excused \subseteq excused',
         tpc'[t] = "marking" => found'[t] = row[t] /\ row[t] # NoRow,
         tpc'[t] \in {"ended", "marking"} => result'[t] # "none",
         result'[t] = "success" => t \in succeeded',
         tpc'[t] # "unsent" /\ t \in Handed => row[t] # NoRow,
         tpc'[t] \in {"marked", "over"} /\ lpc[t] = "over" /\ t \notin excused'
           => status[row[t]] \in Finished
  PROVE  IInv'
<1>1. RowsInOrder' /\ RowsOwned'
  BY DEF IInv, RowsInOrder, RowsOwned, Exists, tableVars, launchVars
<1>2. LinkedUnlessExcused'
  BY DEF IInv, LinkedUnlessExcused, tableVars, launchVars
<1>3. TasksKnow'
  BY DEF IInv, TasksKnow, launchVars
<1>4. MarkedIsFinished'
  BY DEF IInv, MarkedIsFinished, tableVars, launchVars
<1>5. CompletedByOwnTask'
  BY DEF IInv, CompletedByOwnTask, tableVars, launchVars
<1> QED
  BY <1>1, <1>2, <1>3, <1>4, <1>5 DEF IInv

\* A step that only finishes a row keeps the invariant, if "completed" is true
\* of the launch it belongs to.
LEMMA FinishOnly ==
  ASSUME IInv, NEW r \in Row, NEW s \in {"completed", "failed"}, MarkFinished(r, s),
         s = "completed" => \A t \in Task : row[t] = r => t \in succeeded,
         TypeOK',
         UNCHANGED <<launchVars, succeeded>>, excused \subseteq excused',
         UNCHANGED <<result, found>>,
         \A t \in Task : tpc'[t] = tpc[t] \/ (tpc'[t] = "marked" /\ row[t] = r)
  PROVE  IInv'
<1> USE DEF MarkFinished, launchVars
<1>1. \A q \in Row : /\ status'[q] = (IF q = r /\ Exists(r) THEN s ELSE status[q])
                     /\ Exists(q)' <=> Exists(q)
  BY DEF SetStatus, Exists
<1>2. RowsInOrder' /\ RowsOwned'
  BY <1>1 DEF IInv, RowsInOrder, RowsOwned
<1>3. LinkedUnlessExcused' /\ TasksKnow'
  <2>1. LinkedUnlessExcused'
    BY DEF IInv, LinkedUnlessExcused
  <2>2. r # NoRow
    BY LaunchAssumption
  <2>3. TasksKnow'
    BY <2>2 DEF IInv, TasksKnow
  <2> QED
    BY <2>1, <2>3
<1>4. \A t \in Task : row[t] # NoRow => row[t] \in Row /\ Exists(row[t])
  BY DEF IInv, TypeOK, RowsInOrder
<1>5. MarkedIsFinished'
  <2> SUFFICES ASSUME NEW t \in Task, tpc'[t] \in {"marked", "over"},
                      lpc[t] = "over", t \notin excused
               PROVE  status'[row[t]] \in Finished
    BY DEF MarkedIsFinished
  <2>1. row[t] \in Row /\ Exists(row[t])
    BY <1>4 DEF IInv, LinkedUnlessExcused
  <2>2. CASE row[t] = r
    BY <1>1, <2>1, <2>2 DEF Finished
  <2>3. CASE row[t] # r
    BY <1>1, <2>1, <2>3 DEF IInv, MarkedIsFinished
  <2> QED
    BY <2>2, <2>3
<1>6. CompletedByOwnTask'
  BY <1>1, <1>4 DEF IInv, CompletedByOwnTask
<1> QED
  BY <1>2, <1>3, <1>5, <1>6 DEF IInv
----------------------------------------------------------------------------
\* The launcher.
LEMMA CreateRunStep ==
  ASSUME IInv, NEW t \in Task, CreateRun(t)
  PROVE  IInv'
<1> USE DEF CreateRun, InsertPending, taskVars, historyVars
<1>1. /\ nextId \in Row /\ nextId' = nextId + 1 /\ row[t] = NoRow
      /\ nextId # NoRow /\ nextId \in Nat
      /\ status[nextId] = "absent"
      /\ status' = [status EXCEPT ![nextId] = "pending"]
      /\ row' = [row EXCEPT ![t] = nextId]
  BY LaunchAssumption DEF IInv, RowsInOrder, Exists, Row
<1>2. TypeOK'
  BY <1>1, TableAssumption DEF IInv, TypeOK, TableTypeOK, Row, Status, Unfinished
<1>3. \A r \in Row : Exists(r)' <=> (Exists(r) \/ r = nextId)
  BY <1>1 DEF IInv, TypeOK, TableTypeOK, Exists
<1>4. RowsInOrder'
  <2>1. \A r \in Row : r \in Nat
    BY TableAssumption DEF Row
  <2>2. \A r \in Row : Exists(r)' <=> r < nextId'
    BY <1>1, <1>3, <2>1 DEF IInv, RowsInOrder
  <2>3. \A u \in Task : row'[u] # NoRow => row'[u] < nextId'
    <3>1. \A u \in Task : row[u] # NoRow => row[u] \in Nat /\ row[u] < nextId
      BY <2>1 DEF IInv, TypeOK, RowsInOrder
    <3>2. \A u \in Task : row'[u] = IF u = t THEN nextId ELSE row[u]
      BY <1>1 DEF IInv, TypeOK
    <3>3. nextId < nextId'
      BY <1>1
    <3> QED
      BY <1>1, <3>1, <3>2, <3>3
  <2> QED
    BY <2>2, <2>3 DEF RowsInOrder
<1>5. RowsOwned'
  <2>1. \A u \in Task : row[u] # nextId
    BY <1>1 DEF IInv, TypeOK, RowsInOrder
  <2>2. \A u, v \in Task : row'[u] = row'[v] /\ row'[u] # NoRow => u = v
    BY <1>1, <2>1 DEF IInv, TypeOK, RowsOwned
  <2>3. \A r \in Row : Exists(r)' => \E u \in Task : row'[u] = r
    <3> SUFFICES ASSUME NEW r \in Row, Exists(r)' PROVE \E u \in Task : row'[u] = r
      OBVIOUS
    <3>1. CASE r = nextId
      BY <1>1, <3>1 DEF IInv, TypeOK
    <3>2. CASE r # nextId
      <4>1. PICK u \in Task : row[u] = r
        BY <1>3, <3>2 DEF IInv, RowsOwned
      <4>2. u # t
        BY <1>1, <4>1, LaunchAssumption
      <4> QED
        BY <1>1, <4>1, <4>2 DEF IInv, TypeOK
    <3> QED
      BY <3>1, <3>2
  <2>4. \A r \in Row : \A u \in Task : celeryTaskId'[r] = u => row'[u] = r
    <3>1. \A r \in Row : \A u \in Task : celeryTaskId[r] = u => u # t
      BY <1>1, LaunchAssumption DEF IInv, RowsOwned
    <3> QED
      BY <1>1, <3>1 DEF IInv, TypeOK, RowsOwned
  <2> QED
    BY <2>2, <2>3, <2>4 DEF RowsOwned
<1>6. \A u \in Task \ {t} : row'[u] = row[u]
  BY DEF IInv, TypeOK
<1>7. LinkedUnlessExcused' /\ TasksKnow'
  <2>1. LinkedUnlessExcused'
    BY <1>1, <1>6 DEF IInv, LinkedUnlessExcused
  <2>2. TasksKnow'
    BY <1>1, <1>6 DEF IInv, TypeOK, TasksKnow
  <2> QED
    BY <2>1, <2>2
<1>8. \A u \in Task : row[u] # NoRow => row[u] \in Row /\ row[u] # nextId
  BY <1>1 DEF IInv, TypeOK, RowsInOrder
<1>9. MarkedIsFinished' /\ CompletedByOwnTask'
  <2>1. \A u \in Task : row[u] # NoRow => status'[row[u]] = status[row[u]]
    BY <1>1, <1>8 DEF IInv, TypeOK, TableTypeOK
  <2>2. MarkedIsFinished'
    BY <1>6, <2>1 DEF IInv, LinkedUnlessExcused, MarkedIsFinished
  <2>3. status'[nextId] = "pending" /\ row'[t] = nextId
    BY <1>1 DEF IInv, TypeOK, TableTypeOK
  <2>4. CompletedByOwnTask'
    BY <1>6, <2>1, <2>3 DEF IInv, CompletedByOwnTask
  <2> QED
    BY <2>2, <2>4
<1> QED
  BY <1>2, <1>4, <1>5, <1>7, <1>9 DEF IInv

LEMMA LinkRunStep ==
  ASSUME IInv, NEW t \in Task, LinkRun(t)
  PROVE  IInv'
<1> USE DEF LinkRun, taskVars
<1> DEFINE r == row[t]
<1>1. /\ r \in Row /\ Exists(r) /\ lpc[t] = "open" /\ tpc[t] # "unsent"
      /\ status' = [q \in Row |-> IF q = r THEN "running" ELSE status[q]]
      /\ celeryTaskId' = [celeryTaskId EXCEPT ![r] = t]
      /\ startedAge' = [startedAge EXCEPT ![r] = 0]
      /\ UNCHANGED <<nextId, queuedAge>>
  BY DEF IInv, TypeOK, RowsInOrder, MarkStarted, SetStatus
<1>2. TypeOK'
  <2>1. TableTypeOK'
    BY <1>1, MaxAgeType DEF IInv, TypeOK, TableTypeOK, Status, Unfinished
  <2> QED
    BY <2>1 DEF IInv, TypeOK
<1>3. \A q \in Row : Exists(q)' <=> Exists(q)
  BY <1>1 DEF Exists
<1>4. RowsInOrder' /\ RowsOwned'
  <2>1. RowsInOrder'
    BY <1>1, <1>3 DEF IInv, RowsInOrder
  <2>2. \A q \in Row : \A u \in Task : celeryTaskId'[q] = u => row[u] = q
    BY <1>1 DEF IInv, TypeOK, TableTypeOK, RowsOwned
  <2> QED
    BY <1>3, <2>1, <2>2 DEF IInv, RowsOwned
<1>5. \A u \in Task \ {t} : lpc'[u] = lpc[u] /\ (row[u] # NoRow => row[u] # r)
  BY DEF IInv, TypeOK, RowsOwned
<1>6. LinkedUnlessExcused'
  <2>1. row[t] # NoRow /\ celeryTaskId'[row[t]] = t
    BY <1>1 DEF IInv, TypeOK, TableTypeOK
  <2>2. ASSUME NEW u \in Task \ {t}, lpc'[u] = "over", u \notin excused'
        PROVE  row[u] # NoRow /\ celeryTaskId'[row[u]] = u
    <3>1. lpc[u] = "over" /\ u \notin excused
      BY <1>5, <2>2
    <3>2. row[u] # NoRow /\ celeryTaskId[row[u]] = u
      BY <3>1 DEF IInv, LinkedUnlessExcused
    <3>3. row[u] # r /\ row[u] \in Row
      BY <1>5, <3>2 DEF IInv, TypeOK
    <3> QED
      BY <1>1, <3>2, <3>3 DEF IInv, TypeOK, TableTypeOK
  <2> QED
    BY <2>1, <2>2 DEF LinkedUnlessExcused
<1>7. TasksKnow'
  BY DEF IInv, TasksKnow
<1>8. MarkedIsFinished'
  <2> SUFFICES ASSUME NEW u \in Task, tpc[u] \in {"marked", "over"},
                      lpc'[u] = "over", u \notin excused'
               PROVE  status'[row[u]] \in Finished
    BY DEF MarkedIsFinished
  <2>1. u # t /\ u \notin excused
    OBVIOUS
  <2>2. row[u] # NoRow /\ row[u] # r /\ row[u] \in Row /\ lpc[u] = "over"
    BY <1>5, <2>1 DEF IInv, TypeOK, LinkedUnlessExcused
  <2> QED
    BY <1>1, <2>1, <2>2 DEF IInv, MarkedIsFinished
<1>9. CompletedByOwnTask'
  <2> SUFFICES ASSUME NEW u \in Task, row[u] # NoRow, status'[row[u]] = "completed"
               PROVE  u \in succeeded
    BY DEF CompletedByOwnTask
  <2>1. row[u] \in Row
    BY DEF IInv, TypeOK
  <2> QED
    BY <1>1, <2>1 DEF IInv, CompletedByOwnTask
<1> QED
  BY <1>2, <1>4, <1>6, <1>7, <1>8, <1>9 DEF IInv

LEMMA OtherLaunchSteps ==
  ASSUME IInv, NEW t \in Task, Send(t) \/ LaunchFails(t)
  PROVE  IInv'
<1> USE DEF Fault, historyVars
<1>1. CASE Send(t)
  <2> USE <1>1 DEF Send
  <2>1. TypeOK'
    BY DEF IInv, TypeOK, tableVars, launchVars, TableTypeOK
  <2>2. tpc'[t] = "queued" /\ (t \in Handed => row[t] # NoRow)
        /\ \A u \in Task \ {t} : tpc'[u] = tpc[u]
    BY DEF IInv, TypeOK
  <2>3. result[t] = "success" => t \in succeeded
    BY DEF IInv, TasksKnow
  <2> QED
    BY <2>1, <2>2, <2>3, TaskOnlyStep DEF Active
<1>2. CASE LaunchFails(t)
  <2> USE <1>2 DEF LaunchFails
  <2>1. TypeOK'
    <3>1. lpc' \in [Task -> {"open", "over"}]
      BY DEF IInv, TypeOK
    <3>2. faults' \in 0..MaxFaults /\ excused' \subseteq Task
      BY LaunchAssumption DEF IInv, TypeOK
    <3>3. TableTypeOK' /\ UNCHANGED <<row, taskVars, staleFound, succeeded>>
      BY DEF IInv, TypeOK, TableTypeOK, tableVars
    <3> QED
      BY <3>1, <3>2, <3>3 DEF IInv, TypeOK, taskVars
  <2>2. \A u \in Task : lpc'[u] = "over" /\ u \notin excused' => lpc[u] = "over" /\ u \notin excused
    BY DEF IInv, TypeOK
  <2>3. RowsInOrder' /\ RowsOwned' /\ TasksKnow' /\ CompletedByOwnTask'
    BY DEF IInv, RowsInOrder, RowsOwned, Exists, TasksKnow, CompletedByOwnTask,
           tableVars, taskVars
  <2>4. LinkedUnlessExcused' /\ MarkedIsFinished'
    BY <2>2 DEF IInv, LinkedUnlessExcused, MarkedIsFinished, tableVars, taskVars
  <2> QED
    BY <2>1, <2>3, <2>4 DEF IInv
<1> QED
  BY <1>1, <1>2

----------------------------------------------------------------------------
\* The task, up to its mark.
LEMMA WorkSteps ==
  ASSUME IInv, NEW t \in Task,
         \/ Start(t) \/ EndWork(t) \/ ReturnEarly(t) \/ Acknowledge(t)
         \/ WorkerLost(t) \/ TaskKilled(t)
  PROVE  IInv'
<1> USE DEF Fault, historyVars
<1>1. TypeOK'
  <2>1. tpc' \in [Task -> {"unsent", "queued", "over"} \cup Active]
    BY DEF IInv, TypeOK, Active, Start, EndWork, ReturnEarly, Acknowledge,
           WorkerLost, TaskKilled
  <2>2. result' \in [Task -> {"none", "success", "failure"}]
    BY DEF IInv, TypeOK, Start, EndWork, ReturnEarly, Acknowledge, WorkerLost,
           TaskKilled
  <2>3. found' \in [Task -> Row \cup {NoRow}]
    BY DEF IInv, TypeOK, Start, EndWork, ReturnEarly, Acknowledge, WorkerLost,
           TaskKilled
  <2>4. succeeded' \subseteq Task /\ excused' \subseteq Task /\ faults' \in 0..MaxFaults
    BY LaunchAssumption
    DEF IInv, TypeOK, Start, EndWork, ReturnEarly, Acknowledge, WorkerLost,
        TaskKilled
  <2>5. TableTypeOK' /\ UNCHANGED <<launchVars, staleFound>>
    BY DEF IInv, TypeOK, TableTypeOK, tableVars, Start, EndWork, ReturnEarly,
           Acknowledge, WorkerLost, TaskKilled
  <2> QED
    BY <2>1, <2>2, <2>3, <2>4, <2>5 DEF IInv, TypeOK, launchVars
<1>2. /\ UNCHANGED <<tableVars, launchVars>>
      /\ succeeded \subseteq succeeded' /\ excused \subseteq excused'
      /\ tpc[t] # "unsent"
      /\ \A u \in Task \ {t} : tpc'[u] = tpc[u] /\ result'[u] = result[u]
                              /\ found'[u] = found[u]
  BY DEF IInv, TypeOK, Active, Start, EndWork, ReturnEarly, Acknowledge,
         WorkerLost, TaskKilled
<1>3. t \in Handed => row[t] # NoRow
  BY <1>2 DEF IInv, TasksKnow
<1>4. /\ tpc'[t] # "marking"
      /\ tpc'[t] = "ended" => result'[t] # "none"
      /\ result'[t] = "success" => t \in succeeded'
  BY DEF IInv, TypeOK, TasksKnow, Start, EndWork, ReturnEarly, Acknowledge,
         WorkerLost, TaskKilled
<1>5. tpc'[t] \in {"marked", "over"} /\ t \notin excused'
        => tpc[t] = "marked" /\ t \notin excused
  BY <1>2
  DEF IInv, TypeOK, Start, EndWork, ReturnEarly, Acknowledge, WorkerLost,
      TaskKilled
<1>6. tpc'[t] \in {"marked", "over"} /\ lpc[t] = "over" /\ t \notin excused'
        => status[row[t]] \in Finished
  BY <1>5 DEF IInv, MarkedIsFinished
<1> QED
  BY <1>1, <1>2, <1>3, <1>4, <1>6, TaskOnlyStep

\* A task finds its own run, if its launcher has linked it.
LEMMA FindRunStep ==
  ASSUME IInv, NEW t \in Task, FindRun(t)
  PROVE  IInv'
<1> USE DEF FindRun, historyVars
<1>1. OwnRun(t) \subseteq {row[t]} /\ (OwnRun(t) # {} => row[t] \in Row)
  <2>1. CASE t \in Handed
    BY <2>1 DEF OwnRun, IInv, TasksKnow, TypeOK
  <2>2. CASE t \notin Handed
    BY <2>2 DEF OwnRun, Claims, IInv, RowsOwned
  <2> QED
    BY <2>1, <2>2
<1>2. NoRow \notin Row
  BY LaunchAssumption
<1>3. OwnRun(t) = {} => lpc[t] = "open" \/ t \in excused
  <2> SUFFICES ASSUME OwnRun(t) = {}, lpc[t] # "open", t \notin excused
               PROVE  FALSE
    OBVIOUS
  <2>1. row[t] \in Row /\ celeryTaskId[row[t]] = t
    BY DEF IInv, TypeOK, LinkedUnlessExcused
  <2>2. Exists(row[t])
    BY <1>2, <2>1 DEF IInv, RowsInOrder
  <2> QED
    BY <2>1, <2>2 DEF OwnRun, Claims
<1>4. /\ tpc' \in [Task -> {"unsent", "queued", "over"} \cup Active]
      /\ found' \in [Task -> Row \cup {NoRow}]
  BY <1>1 DEF IInv, TypeOK, Active
<1>5. TypeOK'
  BY <1>4 DEF IInv, TypeOK, TableTypeOK, tableVars, launchVars
<1>6. \A u \in Task \ {t} : tpc'[u] = tpc[u] /\ found'[u] = found[u]
  BY DEF IInv, TypeOK
<1>7. /\ tpc'[t] \in {"marked", "marking"} /\ tpc[t] = "ended"
      /\ tpc'[t] = "marking" => found'[t] = row[t] /\ row[t] # NoRow
      /\ tpc'[t] = "marked" => OwnRun(t) = {}
  BY <1>1, <1>2 DEF IInv, TypeOK
<1>8. /\ result[t] # "none" /\ (result[t] = "success" => t \in succeeded)
      /\ t \in Handed => row[t] # NoRow
  BY <1>7 DEF IInv, TasksKnow
<1> QED
  BY <1>3, <1>5, <1>6, <1>7, <1>8, TaskOnlyStep DEF launchVars, tableVars

\* A row that is finished keeps its types.
LEMMA FinishTypes ==
  ASSUME TableTypeOK, NEW r \in Row, NEW s \in {"completed", "failed"},
         MarkFinished(r, s)
  PROVE  TableTypeOK'
BY DEF TableTypeOK, MarkFinished, SetStatus, Status, Finished

LEMMA MarkSteps ==
  ASSUME IInv, NEW t \in Task, MarkRun(t) \/ MarkFails(t)
  PROVE  IInv'
<1>1. CASE MarkRun(t)
  <2> USE <1>1 DEF MarkRun, historyVars
  <2>1. found[t] = row[t] /\ row[t] \in Row /\ (result[t] = "success" => t \in succeeded)
    BY DEF IInv, TypeOK, TasksKnow
  <2>2. PICK s \in {"completed", "failed"} :
          MarkFinished(row[t], s) /\ (s = "completed" => t \in succeeded)
    BY <2>1
  <2>3. s = "completed" => \A u \in Task : row[u] = row[t] => u \in succeeded
    <3>1. row[t] # NoRow
      BY <2>1, LaunchAssumption
    <3> QED
      BY <2>2, <3>1 DEF IInv, RowsOwned
  <2>4. tpc' \in [Task -> {"unsent", "queued", "over"} \cup Active]
        /\ \A u \in Task : tpc'[u] = tpc[u] \/ (tpc'[u] = "marked" /\ row[u] = row[t])
    BY DEF IInv, TypeOK, Active
  <2>5. TypeOK'
    BY <2>1, <2>2, <2>4, FinishTypes DEF IInv, TypeOK, launchVars
  <2> QED
    BY <2>1, <2>2, <2>3, <2>4, <2>5, FinishOnly
<1>2. CASE MarkFails(t)
  <2> USE <1>2 DEF MarkFails, Fault
  <2>1. /\ tpc' \in [Task -> {"unsent", "queued", "over"} \cup Active]
        /\ tpc'[t] = "marked" /\ \A u \in Task \ {t} : tpc'[u] = tpc[u]
        /\ tpc[t] \in {"ended", "marking"}
    BY DEF IInv, TypeOK, Active
  <2>2. faults' \in 0..MaxFaults
    BY LaunchAssumption DEF IInv, TypeOK
  <2>3. excused' = excused \cup {t}
        /\ UNCHANGED <<launchVars, result, found, staleFound, succeeded>>
    OBVIOUS
  <2>4. CASE UNCHANGED tableVars
    <3>1. TypeOK'
      BY <2>1, <2>2, <2>3, <2>4 DEF IInv, TypeOK, TableTypeOK, tableVars, launchVars
    <3>2. /\ result[t] = "success" => t \in succeeded
          /\ t \in Handed => row[t] # NoRow
      BY <2>1 DEF IInv, TasksKnow
    <3> QED
      BY <2>1, <2>3, <2>4, <3>1, <3>2, TaskOnlyStep
  <2>5. CASE tpc[t] = "marking" /\ MarkFinished(found[t], "failed")
    <3>1. found[t] = row[t] /\ row[t] \in Row
      BY <2>5 DEF IInv, TypeOK, TasksKnow
    <3>2. TypeOK'
      BY <2>1, <2>2, <2>3, <2>5, <3>1, FinishTypes DEF IInv, TypeOK, launchVars
    <3>3. \A u \in Task : tpc'[u] = tpc[u] \/ (tpc'[u] = "marked" /\ row[u] = row[t])
      BY <2>1
    <3> QED
      BY <2>3, <2>5, <3>1, <3>2, <3>3, FinishOnly
  <2> QED
    BY <2>4, <2>5
<1> QED
  BY <1>1, <1>2

----------------------------------------------------------------------------
\* The stale check, and time.
LEMMA StaleSteps ==
  ASSUME IInv, StaleScan \/ (\E r \in Row : StaleMark(r)) \/ Tick
  PROVE  IInv'
<1> USE DEF taskVars, historyVars
<1>1. CASE StaleScan
  <2>1. staleFound' \subseteq Row
    BY <1>1 DEF StaleScan, StaleRunning, StalePending
  <2>2. UNCHANGED <<tableVars, launchVars, taskVars, faults, historyVars>>
    BY <1>1 DEF StaleScan
  <2> QED
    BY <2>1, <2>2
    DEF IInv, TypeOK, TableTypeOK, RowsInOrder, RowsOwned, LinkedUnlessExcused,
        TasksKnow, MarkedIsFinished, CompletedByOwnTask, Exists, tableVars,
        launchVars
<1>2. ASSUME NEW r \in Row, StaleMark(r) PROVE IInv'
  <2> USE <1>2 DEF StaleMark
  <2>1. TypeOK'
    BY FinishTypes DEF IInv, TypeOK, launchVars
  <2> QED
    BY <2>1, FinishOnly DEF launchVars
<1>3. CASE Tick
  <2> USE <1>3 DEF Tick, AgeRows
  <2>1. \A a \in 0..MaxAge : Older(a) \in 0..MaxAge
    BY MaxAgeType DEF Older
  <2>2. TypeOK'
    BY <2>1 DEF IInv, TypeOK, TableTypeOK, launchVars
  <2> QED
    BY <2>2
    DEF IInv, RowsInOrder, RowsOwned, LinkedUnlessExcused,
        TasksKnow, MarkedIsFinished, CompletedByOwnTask, Exists, launchVars
<1> QED
  BY <1>1, <1>2, <1>3

LEMMA StepIInv == IInv /\ [Next]_vars => IInv'
<1> SUFFICES ASSUME IInv, [Next]_vars PROVE IInv'
  OBVIOUS
<1>1. ASSUME NEW t \in Task, LaunchStep(t) \/ TaskStep(t) \/ FaultStep(t)
      PROVE  IInv'
  BY <1>1, CreateRunStep, LinkRunStep, OtherLaunchSteps, WorkSteps, FindRunStep,
     MarkSteps
  DEF LaunchStep, TaskStep, FaultStep
<1>2. CASE UNCHANGED vars
  BY <1>2
  DEF IInv, TypeOK, TableTypeOK, RowsInOrder, RowsOwned, LinkedUnlessExcused,
      TasksKnow, MarkedIsFinished, CompletedByOwnTask, Exists, vars, tableVars,
      launchVars, taskVars, historyVars
<1> QED
  BY <1>1, <1>2, StaleSteps DEF Next

----------------------------------------------------------------------------
\* The inductive invariant: every launch owns one row, and what its task knows
\* of that row and of its own result is true.
THEOREM Invariant == Spec => []IInv
<1> QED
  BY InitIInv, StepIInv, PTL DEF Spec

\* Type correctness of the table, the launchers and the tasks.
THEOREM TypeCorrect == Spec => []TypeOK
<1>1. IInv => TypeOK
  BY DEF IInv
<1> QED
  BY <1>1, Invariant, PTL

\* No task completes the run of another launch.
THEOREM CompletedByOwn == Spec => []CompletedByOwnTask
<1>1. IInv => CompletedByOwnTask
  BY DEF IInv
<1> QED
  BY <1>1, Invariant, PTL

\* A run left unfinished has one of the known causes.
THEOREM LeftoversExplained == Spec => []UnfinishedExplained
<1>1. IInv => UnfinishedExplained
  BY DEF IInv, MarkedIsFinished, UnfinishedExplained, Unfinished, Finished
<1> QED
  BY <1>1, Invariant, PTL
=============================================================================
