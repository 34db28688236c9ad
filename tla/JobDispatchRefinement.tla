----------------------- MODULE JobDispatchRefinement -----------------------
(***************************************************************************)
(* JobDispatch implements JobClaims: seen from the rows that carry a task  *)
(* id, whatever brokers, workers, users and clean-ups do, a message is     *)
(* executed on a claim nobody else holds.                                  *)
(***************************************************************************)
EXTENDS JobDispatchProofs

\* What matters of a step to the claims: which rows exist, and with which id.
SameClaims == UNCHANGED celeryTaskId /\ \A r \in Row : Exists(r)' <=> Exists(r)

\* Steps that keep ids and rows do not change a claim.
LEMMA ClaimsStutter == SameClaims => UNCHANGED claim
BY DEF SameClaims, claim, Claims, Exists

\* Writing a status over existing rows keeps ids and rows.
LEMMA FinishKeepsClaims ==
  ASSUME TypeOK, NEW r \in Row, NEW s \in Finished, MarkFinished(r, s)
  PROVE  SameClaims
BY DEF SameClaims, MarkFinished, SetStatus, Exists, Finished, TypeOK,
       TableTypeOK

\* A row that is inserted carries no id.
LEMMA InsertKeepsClaims ==
  ASSUME IInv, InsertPending
  PROVE  UNCHANGED claim
<1>1. /\ nextId \in Row /\ ~Exists(nextId)
      /\ celeryTaskId[nextId] = NoTask /\ celeryTaskId' = celeryTaskId
      /\ \A r \in Row : r # nextId => (Exists(r)' <=> Exists(r))
  BY TableAssumption
  DEF IInv, TypeOK, TableTypeOK, UnusedRows, InsertPending, Exists, Row
<1>2. ASSUME NEW t \in Task
      PROVE  Claims(t)' = Claims(t)
  BY <1>1, TableAssumption DEF Claims
<1> QED
  BY <1>2 DEF claim

\* Deleting rows releases the claims of their ids and leaves the others.
LEMMA DeleteReleases ==
  ASSUME IInv, NEW S \in SUBSET Row, Delete(S), UNCHANGED executed
  PROVE  \E T \in SUBSET Task : C!Release(T)
<1> DEFINE T == {t \in Task : Claims(t) \cap S # {}}
<1>1. \A r \in Row : Exists(r)' <=> Exists(r) /\ r \notin S
  BY DEF IInv, TypeOK, TableTypeOK, Delete, SetStatus, Exists
<1>2. \A r \in Row : r \notin S => celeryTaskId'[r] = celeryTaskId[r]
  BY DEF Delete
<1>3. ASSUME NEW t \in Task
      PROVE  Claims(t)' = IF t \in T THEN {} ELSE Claims(t)
  <2>1. Claims(t)' = Claims(t) \ S
    BY <1>1, <1>2 DEF Claims
  <2>2. \A q, r \in Claims(t) : q = r
    BY TableAssumption DEF IInv, ClaimsUnique, Claims
  <2> QED
    BY <2>1, <2>2
<1>4. claim' = [t \in Task |-> IF t \in T THEN {} ELSE claim[t]]
  BY <1>3 DEF claim
<1> QED
  BY <1>4 DEF C!Release

\* mark_started and the entry into the executor are one claim, or one
\* execution without a row when the row was deleted meanwhile.
LEMMA StartExecutes ==
  ASSUME IInv, NEW w \in Worker, StartJob(w)
  PROVE  \E t \in Task, r \in Row :
           C!Execute(t, r) \/ C!ExecuteWithoutRow(t, r)
<1> DEFINE r == wrow[w]
           t == wtask[w]
<1>1. /\ TypeOK /\ r \in Row /\ t \in Task /\ t # NoTask
      /\ celeryTaskId[r] = NoTask
      /\ C!Fresh(r)
      /\ ~UniqueViolation(r, t)
      /\ executed' = [executed EXCEPT ![t] = @ \cup {r}]
  BY TableAssumption, DispatchAssumption
  DEF IInv, TypeOK, WorkersConsistent, CreatedRunsFresh, StartJob, MarkStarted,
      C!Fresh
<1>2. \A q \in Row : Exists(q)' <=> Exists(q)
  BY <1>1 DEF StartJob, MarkStarted, SetStatus, Exists, TypeOK, TableTypeOK
<1>3. celeryTaskId' = [celeryTaskId EXCEPT ![r] = IF Exists(r) THEN t ELSE @]
  BY <1>1 DEF StartJob, MarkStarted
<1>4. CASE Exists(r)
  <2>1. Claims(t) = {}
    BY <1>1, <1>4 DEF UniqueViolation, Claims
  <2>2. ASSUME NEW u \in Task
        PROVE  Claims(u)' = IF u = t THEN {r} ELSE Claims(u)
    <3>1. celeryTaskId \in [Row -> Task \cup {NoTask}]
      BY <1>1 DEF TypeOK, TableTypeOK
    <3>2. CASE u = t
      BY <1>1, <1>2, <1>3, <1>4, <2>1, <3>1, <3>2 DEF Claims
    <3>3. CASE u # t
      BY <1>1, <1>2, <1>3, <1>4, <3>1, <3>3, TableAssumption DEF Claims
    <3> QED
      BY <3>2, <3>3
  <2>3. claim[t] = {} /\ claim' = [claim EXCEPT ![t] = {r}]
    BY <1>1, <2>1, <2>2 DEF claim
  <2>4. C!Execute(t, r)
    BY <1>1, <2>3 DEF C!Execute
  <2> QED
    BY <1>1, <2>4
<1>5. CASE ~Exists(r)
  <2>1. UNCHANGED claim
    BY <1>1, <1>2, <1>3, <1>5, ClaimsStutter
    DEF SameClaims, TypeOK, TableTypeOK
  <2>2. C!ExecuteWithoutRow(t, r)
    BY <1>1, <2>1 DEF C!ExecuteWithoutRow
  <2> QED
    BY <1>1, <2>2
<1> QED
  BY <1>4, <1>5

\* Every step of the dispatch model is a step of JobClaims or changes nothing
\* JobClaims speaks of.
LEMMA StepRefines ==
  ASSUME IInv, [Next]_vars
  PROVE  [C!Next]_<<claim, executed>>
<1> USE DEF tableVars, brokerVars, workerVars, userVars, historyVars, vars
<1>1. TypeOK
  BY DEF IInv
<1>2. CASE SameClaims /\ UNCHANGED executed
  BY <1>2, ClaimsStutter
<1>3. CASE \E S \in SUBSET Row : Delete(S) /\ UNCHANGED executed
  BY <1>3, DeleteReleases DEF C!Next
<1>4. ASSUME NEW w \in Worker, WorkerStep(w)
      PROVE  [C!Next]_<<claim, executed>>
  <2>1. CASE CreateJobRun(w)
    BY <2>1, InsertKeepsClaims DEF CreateJobRun
  <2>2. CASE StartJob(w)
    BY <2>2, StartExecutes DEF C!Next
  <2>3. CASE RecordSuccess(w) \/ RecordFailure(w)
    <3>1. wrow[w] \in Row
      BY <1>1, <2>3, DispatchAssumption
      DEF IInv, TypeOK, WorkersConsistent, RecordSuccess, RecordFailure
    <3>2. SameClaims
      BY <1>1, <2>3, <3>1, FinishKeepsClaims
      DEF RecordSuccess, RecordFailure, Finished
    <3> QED
      BY <1>2, <2>3, <3>2 DEF RecordSuccess, RecordFailure
  <2>4. CASE UNCHANGED tableVars /\ UNCHANGED executed
    BY <1>2, <2>4 DEF SameClaims, Exists
  <2> QED
    BY <1>4, <2>1, <2>2, <2>3, <2>4
    DEF WorkerStep, FailBeforeRow, StartRefused, ExecuteJob, LaunchChord,
        ReturnRunning, CompletionRefused, RecordNothing, TimeLimit, Terminate
<1>5. ASSUME NEW r \in Row, RowStep(r)
      PROVE  [C!Next]_<<claim, executed>>
  <2>1. CASE FinalizeBackup(r) \/ CancelCommit(r) \/ StaleMark(r)
    <3>1. SameClaims
      BY <1>1, <2>1, FinishKeepsClaims
      DEF FinalizeBackup, CancelCommit, StaleMark, Finished
    <3> QED
      BY <1>2, <2>1, <3>1 DEF FinalizeBackup, CancelCommit, StaleMark
  <2>2. CASE DeleteCommit(r)
    BY <1>3, <2>2 DEF DeleteCommit
  <2>3. CASE UNCHANGED tableVars /\ UNCHANGED executed
    BY <1>2, <2>3 DEF SameClaims, Exists
  <2> QED
    BY <1>5, <2>1, <2>2, <2>3
    DEF RowStep, ChordLost, CancelRequest, DeleteRequest
<1>6. CASE ClearFiltered \/ ClearAll \/ CleanupOldRuns \/ CleanupByDays
  <2>1. \E S \in SUBSET Row : Delete(S)
    BY <1>6 DEF ClearFiltered, ClearAll, CleanupOldRuns, CleanupByDays,
                FinishedRows, OldRows
  <2> QED
    BY <1>3, <1>6, <2>1
    DEF ClearFiltered, ClearAll, CleanupOldRuns, CleanupByDays
<1>7. CASE BrokerStep \/ StaleScan \/ Tick \/ UNCHANGED vars
           \/ \E w \in Worker : WorkerLost(w)
  BY <1>2, <1>7
  DEF BrokerStep, Publish, Redeliver, Receive, Discard, StaleScan, Tick,
      WorkerLost, SameClaims, Exists
<1> QED
  BY <1>4, <1>5, <1>6, <1>7 DEF Next

\* JobDispatch implements JobClaims under the mapping of claim to Claims.
THEOREM Implements == Spec => ImplementsClaims
<1>1. Init => C!Init
  BY DEF Init, TableInit, C!Init, claim, Claims, Exists
<1>2. IInv /\ [Next]_vars => [C!Next]_<<claim, executed>>
  BY StepRefines
<1> QED
  BY <1>1, <1>2, Invariant, PTL DEF Spec, ImplementsClaims, C!Spec, C!claimVars
=============================================================================
