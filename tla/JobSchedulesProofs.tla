------------------------- MODULE JobSchedulesProofs -------------------------
(***************************************************************************)
(* For any schedules, period, time and number of faults: type correctness  *)
(* of the schedules; when checks do not overlap, that no slot is skipped   *)
(* and, if only the broker fails, that each is dispatched once; and when   *)
(* no two edits of a schedule overlap, that no recurring schedule stops.   *)
(***************************************************************************)
EXTENDS JobSchedules, TLAPS

\* The slots of a period begin after the current minute, and no later than a
\* period after it.
LEMMA NextRunLater ==
  ASSUME NEW k \in Kind, NEW t \in Nat
  PROVE  /\ k = "once" => NextRun(k, t) = NoTime
         /\ k # "once" => NextRun(k, t) \in (t + 1)..(t + Period)
<1> USE ScheduleAssumption DEF NextRun, Kind
<1>1. /\ t \div Period \in Nat
      /\ (t \div Period) * Period <= t
      /\ t < (t \div Period) * Period + Period
  <2>1. Period \in Nat /\ Period > 0
    OBVIOUS
  <2> QED
    BY <2>1, SMTT(30)
<1>2. (t \div Period + 1) * Period = (t \div Period) * Period + Period
  BY <1>1, SMTT(30)
<1>3. CASE k = "aligned"
  <2>1. NextRun(k, t) = (t \div Period) * Period + Period
    BY <1>2, <1>3
  <2>2. (t \div Period) * Period \in Nat
    BY <1>1, SMTT(30)
  <2> DEFINE m == (t \div Period) * Period
  <2> HIDE DEF m
  <2>3. m \in Nat /\ m <= t /\ t < m + Period /\ NextRun(k, t) = m + Period
    BY <1>1, <2>1, <2>2 DEF m
  <2>4. m + Period \in (t + 1)..(t + Period)
    BY <2>3
  <2> QED
    BY <1>3, <2>3, <2>4
<1>4. CASE k = "interval"
  <2>1. t + Period \in (t + 1)..(t + Period)
    OBVIOUS
  <2> QED
    BY <1>4, <2>1
<1>5. CASE k = "once"
  BY <1>5
<1> QED
  BY <1>3, <1>4, <1>5

\* A computed run is a slot.
LEMMA RunType ==
  ASSUME NEW k \in Kind, NEW t \in 0..MaxTime
  PROVE  NextRun(k, t) \in Slot \cup {NoTime}
<1>1. t \in Nat /\ MaxTime \in Nat /\ Period \in Nat
  BY ScheduleAssumption
<1>2. CASE k = "once"
  BY <1>1, <1>2, NextRunLater
<1>3. CASE k # "once"
  <2>1. NextRun(k, t) \in (t + 1)..(t + Period)
    BY <1>1, <1>3, NextRunLater
  <2>2. (t + 1)..(t + Period) \subseteq Slot
    BY <1>1 DEF Slot
  <2> QED
    BY <2>1, <2>2
<1> QED
  BY <1>2, <1>3

----------------------------------------------------------------------------
\* Type correctness, by the step.
LEMMA InitTypeOK == Init => TypeOK
<1> SUFFICES ASSUME Init PROVE TypeOK
  OBVIOUS
<1> USE ScheduleAssumption DEF Init
<1>1. 0 \in 0..MaxTime
  OBVIOUS
<1>2. nextRun \in [Schedule -> Slot \cup {NoTime}]
  <2>1. \A s \in Schedule : NextRun(kind[s], 0) \in Slot \cup {NoTime}
    BY <1>1, RunType
  <2>2. \A s \in Schedule, a \in BOOLEAN : InitialRun(kind[s], a, 0) \in Slot \cup {NoTime}
    BY <2>1 DEF InitialRun
  <2>3. PICK U \in SUBSET Unslotted :
          nextRun = [s \in Schedule |-> InitialRun(kind[s], active[s] /\ s \notin U, 0)]
    OBVIOUS
  <2>4. \A s \in Schedule : (active[s] /\ s \notin U) \in BOOLEAN
    OBVIOUS
  <2> QED
    BY <2>2, <2>3, <2>4
<1>3. dispatched \in [Schedule -> [Slot -> 0..2]]
  BY SMT DEF Slot
<1>4. due \in [Checker -> [Schedule -> Slot \cup {NoTime}]]
  BY DEF NoneDue
<1> QED
  BY <1>1, <1>2, <1>3, <1>4 DEF TypeOK

LEMMA CheckTypeOK ==
  ASSUME TypeOK, NEW c \in Checker, CheckStep(c) \/ CheckFault(c)
  PROVE  TypeOK'
<1> USE DEF TypeOK, Fault
<1>1. CASE BeginCheck(c)
  BY <1>1 DEF BeginCheck, tableVars
<1>2. CASE ReadSchedule(c)
  <2>1. at[c] \in present => NextRun(kind[at[c]], now) \in Slot \cup {NoTime}
    BY RunType
  <2>2. computed' \in [Checker -> Slot \cup {NoTime}]
    BY <1>2, <2>1 DEF ReadSchedule
  <2>3. /\ cpc' \in [Checker -> {"idle", "checking", "dispatched", "computed"}]
        /\ at' \in [Checker -> Schedule \cup {NoSchedule}]
    BY <1>2 DEF ReadSchedule
  <2> QED
    BY <1>2, <2>2, <2>3 DEF ReadSchedule, tableVars
<1>3. CASE WriteNextRun(c)
  <2>1. nextRun' \in [Schedule -> Slot \cup {NoTime}]
    BY <1>3 DEF WriteNextRun, PutNextRun
  <2> QED
    BY <1>3, <2>1 DEF WriteNextRun, NextSchedule
<1>4. CASE EndCheck(c)
  BY <1>4 DEF EndCheck, tableVars
<1>5. ASSUME NEW s \in Schedule, DispatchDue(c, s) PROVE TypeOK'
  <2>1. due[c][s] \in Slot
    BY <1>5 DEF DispatchDue
  <2>2. dispatched[s][due[c][s]] \in 0..2
    BY <2>1
  <2>3. PICK n \in 0..2 : dispatched' = [dispatched EXCEPT ![s][due[c][s]] = n]
    <3> DEFINE n == dispatched[s][due[c][s]]
    <3>1. (IF n < 2 THEN n + 1 ELSE n) \in 0..2
      BY <2>2
    <3>2. dispatched' = [dispatched EXCEPT ![s][due[c][s]] = IF n < 2 THEN n + 1 ELSE n]
      BY <1>5 DEF DispatchDue
    <3> QED
      BY <3>1, <3>2
  <2>4. dispatched' \in [Schedule -> [Slot -> 0..2]]
    BY <2>1, <2>3
  <2>5. due' \in [Checker -> [Schedule -> Slot \cup {NoTime}]]
    BY <1>5 DEF DispatchDue
  <2> QED
    BY <1>5, <2>4, <2>5 DEF DispatchDue, tableVars
<1>6. ASSUME NEW s \in Schedule, SkipDue(c, s) \/ DispatchFails(c, s) PROVE TypeOK'
  <2>1. due' \in [Checker -> [Schedule -> Slot \cup {NoTime}]]
    <3>1. due' = [due EXCEPT ![c][s] = NoTime]
      BY <1>6 DEF SkipDue, DispatchFails
    <3> QED
      BY <3>1
  <2>2. faults' \in 0..MaxFaults
    BY <1>6, ScheduleAssumption DEF SkipDue, DispatchFails
  <2> QED
    BY <1>6, <2>1, <2>2 DEF SkipDue, DispatchFails, tableVars
<1>7. CASE UpdateFails(c) \/ CheckLost(c)
  <2>1. faults' \in 0..MaxFaults
    BY <1>7, ScheduleAssumption DEF UpdateFails, CheckLost
  <2>2. /\ cpc' \in [Checker -> {"idle", "checking", "dispatched", "computed"}]
        /\ at' \in [Checker -> Schedule \cup {NoSchedule}]
        /\ computed' \in [Checker -> Slot \cup {NoTime}]
    BY <1>7 DEF UpdateFails, CheckLost, NextSchedule
  <2>3. due' \in [Checker -> [Schedule -> Slot \cup {NoTime}]]
    <3>1. NoneDue \in [Schedule -> Slot \cup {NoTime}]
      BY DEF NoneDue
    <3>2. due' = due \/ due' = [due EXCEPT ![c] = NoneDue]
      BY <1>7 DEF UpdateFails, CheckLost
    <3> QED
      BY <3>1, <3>2
  <2> QED
    BY <1>7, <2>1, <2>2, <2>3 DEF UpdateFails, CheckLost, tableVars
<1> QED
  BY <1>1, <1>2, <1>3, <1>4, <1>5, <1>6, <1>7 DEF CheckStep, CheckFault

LEMMA UserTypeOK ==
  ASSUME TypeOK,
         \/ Tick \/ RecalculateBegin
         \/ \E e \in Editor : EditStep(e)
         \/ \E s \in Schedule : DeleteSchedule(s)
         \/ \E s \in Schedule, t \in Slot : RecalculateWrite(s, t)
  PROVE  TypeOK'
<1> USE DEF TypeOK, tableVars, checkVars
<1>1. \A s \in Schedule, k \in Kind, a \in BOOLEAN :
        InitialRun(k, a, now) \in Slot \cup {NoTime}
  BY RunType DEF InitialRun
<1>2. CASE Tick
  BY <1>2, ScheduleAssumption DEF Tick
<1>3. CASE RecalculateBegin
  <2>1. \A s \in Schedule : NextRun(kind[s], now) # NoTime => NextRun(kind[s], now) \in Slot
    BY RunType
  <2>2. recalc' \subseteq Schedule \X Slot
    BY <1>3, <2>1 DEF RecalculateBegin
  <2> QED
    BY <1>3, <2>2 DEF RecalculateBegin
<1>4. \A s \in Schedule, ch \in Change :
        NewKind(s, ch) \in Kind /\ NewActive(s, ch) \in BOOLEAN
  BY DEF NewKind, NewActive, Change
<1>5. ASSUME NEW e \in Editor, NEW s \in Schedule, NEW ch \in Change, EditRead(e, s, ch)
      PROVE  TypeOK'
  <2>1. MergedRun(s, ch) \in Slot \cup {NoTime}
    BY <1>1, <1>4 DEF MergedRun
  <2>2. edit' \in [Editor -> Edit \cup {NoEdit}]
    BY <1>5, <2>1 DEF EditRead, Edit
  <2> QED
    BY <1>5, <2>2 DEF EditRead
<1>6. ASSUME NEW e \in Editor, EditCommit(e) PROVE TypeOK'
  <2>1. edit[e] \in Edit
    BY <1>6 DEF EditCommit
  <2> DEFINE s == edit[e].schedule
             ch == edit[e].change
  <2>2. s \in Schedule /\ ch \in Change /\ edit[e].run \in Slot \cup {NoTime}
    BY <2>1 DEF Edit
  <2>3. NewKind(s, ch) \in Kind /\ NewActive(s, ch) \in BOOLEAN
    BY <1>4, <2>2
  <2>4. /\ kind' \in [Schedule -> Kind]
        /\ nextRun' \in [Schedule -> Slot \cup {NoTime}]
    BY <1>6, <2>2, <2>3 DEF EditCommit
  <2>5. active' \in [Schedule -> BOOLEAN]
    BY <1>6, <2>2, <2>3 DEF EditCommit
  <2>6. edit' \in [Editor -> Edit \cup {NoEdit}]
    BY <1>6 DEF EditCommit
  <2> QED
    BY <1>6, <2>4, <2>5, <2>6 DEF EditCommit
<1>7. ASSUME NEW s \in Schedule, DeleteSchedule(s) PROVE TypeOK'
  BY <1>7 DEF DeleteSchedule
<1>8. ASSUME NEW s \in Schedule, NEW t \in Slot, RecalculateWrite(s, t) PROVE TypeOK'
  <2>1. nextRun' \in [Schedule -> Slot \cup {NoTime}]
    BY <1>8 DEF RecalculateWrite, PutNextRun
  <2> QED
    BY <1>8, <2>1 DEF RecalculateWrite
<1> QED
  BY <1>2, <1>3, <1>5, <1>6, <1>7, <1>8 DEF EditStep

\* Type correctness: in particular every computed next_run is a slot.
THEOREM TypeCorrect == Spec => []TypeOK
<1>1. TypeOK /\ [Next]_vars => TypeOK'
  <2> SUFFICES ASSUME TypeOK, [Next]_vars PROVE TypeOK'
    OBVIOUS
  <2>1. CASE UNCHANGED vars
    BY <2>1 DEF TypeOK, vars, tableVars, checkVars
  <2> QED
    BY <2>1, CheckTypeOK, UserTypeOK DEF Next
<1> QED
  BY <1>1, InitTypeOK, PTL DEF Spec
----------------------------------------------------------------------------
(* No slot is skipped. *)

\* The setting: nobody edits, and no check starts while another is under way.
\* Workers may be lost, and broker and database may fail.
Alone ==
  /\ Editor = {}
  /\ \A c, d \in Checker : c = d

\* A deleted schedule has no slot, and one that runs once never has.
SlotsOfPresent ==
  \A s \in Schedule :
    /\ active[s] => s \in present
    /\ s \notin present \/ kind[s] = "once" => nextRun[s] = NoTime

\* A starting backend writes one slot, to a schedule that has none.
RecalcRight ==
  \A s \in Schedule, t \in Slot :
    <<s, t>> \in recalc =>
      /\ kind[s] # "once" /\ nextRun[s] = NoTime
      /\ \A u \in Slot : <<s, u>> \in recalc => u = t

\* The schedule a check is busy with is at a slot that was dispatched, and moves
\* on to a later one.
Handling(c, s) == cpc[c] \in {"dispatched", "computed"} /\ at[c] = s

HandlingRight ==
  \A c \in Checker :
    cpc[c] \in {"dispatched", "computed"} =>
      /\ at[c] \in Schedule /\ kind[at[c]] # "once" /\ due[c][at[c]] = NoTime
      /\ at[c] \in present => /\ nextRun[at[c]] \in Slot /\ nextRun[at[c]] <= now
                             /\ dispatched[at[c]][nextRun[at[c]]] > 0
      /\ cpc[c] = "computed" =>
           /\ computed[c] \in Slot
           /\ at[c] \in present => computed[c] > nextRun[at[c]]

\* What a check has found due is the slot of the schedule still.
DueRight ==
  \A c \in Checker, s \in Schedule :
    due[c][s] # NoTime =>
      /\ cpc[c] # "idle" /\ kind[s] # "once" /\ due[c][s] <= now
      /\ s \in present => nextRun[s] = due[c][s]

AInv == TypeOK /\ SlotsOfPresent /\ RecalcRight /\ HandlingRight /\ DueRight

LEMMA InitAInv == Init => AInv
<1> SUFFICES ASSUME Init PROVE AInv
  OBVIOUS
<1>1. TypeOK
  BY InitTypeOK
<1>2. \A s \in Schedule : kind[s] = "once" => nextRun[s] = NoTime
  BY DEF Init, InitialRun, NextRun
<1>3. SlotsOfPresent /\ RecalcRight /\ HandlingRight /\ DueRight
  BY <1>2 DEF Init, NoneDue, SlotsOfPresent, RecalcRight, HandlingRight, DueRight
<1> QED
  BY <1>1, <1>3 DEF AInv

\* A check finds what is due.
LEMMA BeginCheckA ==
  ASSUME Alone, AInv, NEW c \in Checker, BeginCheck(c), TypeOK'
  PROVE  AInv'
<1> USE DEF BeginCheck, tableVars
<1>1. \A d \in Checker : d = c
  BY DEF Alone
<1>2. cpc'[c] = "checking"
      /\ \A s \in Schedule : due'[c][s] = IF Due(s) THEN nextRun[s] ELSE NoTime
  BY DEF AInv, TypeOK
<1>3. SlotsOfPresent' /\ RecalcRight'
  BY DEF AInv, SlotsOfPresent, RecalcRight
<1>4. HandlingRight'
  BY <1>1, <1>2 DEF HandlingRight
<1>5. DueRight'
  <2> SUFFICES ASSUME NEW s \in Schedule, due'[c][s] # NoTime
               PROVE  /\ kind[s] # "once" /\ due'[c][s] <= now
                      /\ s \in present => nextRun[s] = due'[c][s]
    BY <1>1, <1>2 DEF DueRight
  <2>1. Due(s) /\ due'[c][s] = nextRun[s]
    BY <1>2
  <2> QED
    BY <2>1 DEF AInv, SlotsOfPresent, Due
<1> QED
  BY <1>3, <1>4, <1>5 DEF AInv

\* A check gives a due slot up: the broker refused it, or its template is gone.
LEMMA DropDueA ==
  ASSUME AInv, NEW c \in Checker, NEW s \in Schedule,
         SkipDue(c, s) \/ DispatchFails(c, s), TypeOK'
  PROVE  AInv'
<1>1. /\ due' = [due EXCEPT ![c][s] = NoTime]
      /\ UNCHANGED <<now, tableVars, cpc, at, computed, recalc, dispatched>>
  BY DEF SkipDue, DispatchFails
<1>2. \A d \in Checker, x \in Schedule : due'[d][x] # NoTime => due'[d][x] = due[d][x]
  BY <1>1 DEF AInv, TypeOK
<1>3. SlotsOfPresent' /\ RecalcRight'
  BY <1>1 DEF AInv, SlotsOfPresent, RecalcRight, tableVars
<1>4. HandlingRight'
  BY <1>1, <1>2 DEF AInv, HandlingRight, tableVars
<1>5. DueRight'
  BY <1>1, <1>2 DEF AInv, DueRight, tableVars
<1> QED
  BY <1>3, <1>4, <1>5 DEF AInv

\* What a dispatch does to the counts.
LEMMA DispatchCounts ==
  ASSUME TypeOK, NEW c \in Checker, NEW s \in Schedule, DispatchDue(c, s)
  PROVE  /\ due[c][s] \in Slot
         /\ dispatched'[s][due[c][s]] > 0
         /\ dispatched[s][due[c][s]] = 0 => dispatched'[s][due[c][s]] = 1
         /\ \A x \in Schedule, u \in Slot :
              ~(x = s /\ u = due[c][s]) => dispatched'[x][u] = dispatched[x][u]
<1> DEFINE t == due[c][s]
           n == IF dispatched[s][t] < 2 THEN dispatched[s][t] + 1 ELSE dispatched[s][t]
<1>1. t \in Slot /\ dispatched[s][t] \in 0..2
  BY DEF DispatchDue, TypeOK
<1>2. n > 0 /\ (dispatched[s][t] = 0 => n = 1)
  BY <1>1
<1>3. dispatched' = [dispatched EXCEPT ![s][t] = n]
  BY DEF DispatchDue
<1> HIDE DEF n
<1> QED
  BY <1>1, <1>2, <1>3 DEF TypeOK

\* A slot is dispatched while the schedule is at it.
LEMMA DispatchDueA ==
  ASSUME Alone, AInv, NEW c \in Checker, NEW s \in Schedule, DispatchDue(c, s),
         TypeOK'
  PROVE  AInv'
<1> USE DEF DispatchDue, tableVars
<1> DEFINE t == due[c][s]
<1>1. \A d \in Checker : d = c
  BY DEF Alone
<1>2. /\ t \in Slot /\ t <= now /\ kind[s] # "once"
      /\ s \in present => nextRun[s] = t
  BY DEF AInv, TypeOK, DueRight
<1>3. /\ cpc'[c] = "dispatched" /\ at'[c] = s /\ due'[c][s] = NoTime
      /\ \A x \in Schedule \ {s} : due'[c][x] = due[c][x]
  BY DEF AInv, TypeOK
<1>4. dispatched'[s][t] > 0
  BY DispatchCounts DEF AInv
<1> HIDE DEF t
<1>5. SlotsOfPresent' /\ RecalcRight'
  BY DEF AInv, SlotsOfPresent, RecalcRight
<1>6. HandlingRight'
  BY <1>1, <1>2, <1>3, <1>4 DEF HandlingRight
<1>7. DueRight'
  BY <1>1, <1>3 DEF AInv, DueRight
<1> QED
  BY <1>5, <1>6, <1>7 DEF AInv

\* The schedule is read again, and its next run is later.
LEMMA ReadScheduleA ==
  ASSUME Alone, AInv, NEW c \in Checker, ReadSchedule(c), TypeOK'
  PROVE  AInv'
<1> USE DEF ReadSchedule, tableVars
<1>1. \A d \in Checker : d = c
  BY DEF Alone
<1>2. /\ cpc[c] = "dispatched" /\ at[c] \in Schedule /\ kind[at[c]] # "once"
      /\ at[c] \in present => nextRun[at[c]] \in Slot /\ nextRun[at[c]] <= now
  BY DEF AInv, HandlingRight
<1>3. SlotsOfPresent' /\ RecalcRight'
  BY DEF AInv, SlotsOfPresent, RecalcRight
<1>4. DueRight'
  BY <1>1, <1>2 DEF AInv, TypeOK, DueRight
<1>5. CASE at[c] \in present
  <2> DEFINE n == NextRun(kind[at[c]], now)
  <2>1. now \in Nat /\ kind[at[c]] \in Kind
    BY <1>2, ScheduleAssumption DEF AInv, TypeOK
  <2>2. n \in Slot /\ n > nextRun[at[c]]
    <3>1. n \in (now + 1)..(now + Period)
      BY <1>2, <2>1, NextRunLater
    <3>2. now \in 0..MaxTime
      BY DEF AInv, TypeOK
    <3>3. n \in Slot /\ n > now
      BY <3>1, <3>2, ScheduleAssumption DEF Slot
    <3>4. nextRun[at[c]] \in Nat
      BY <1>2, <1>5, ScheduleAssumption DEF Slot
    <3> QED
      BY <1>2, <1>5, <2>1, <3>1, <3>3, <3>4, ScheduleAssumption
  <2>3. /\ cpc'[c] = "computed" /\ computed'[c] = n /\ at'[c] = at[c]
    BY <1>5 DEF AInv, TypeOK
  <2> HIDE DEF n
  <2>4. HandlingRight'
    BY <1>1, <1>2, <2>2, <2>3 DEF AInv, HandlingRight
  <2> QED
    BY <1>3, <1>4, <2>4 DEF AInv
<1>6. CASE at[c] \notin present
  <2>1. cpc'[c] = "checking"
    BY <1>6 DEF AInv, TypeOK
  <2>2. HandlingRight'
    BY <1>1, <2>1 DEF HandlingRight
  <2> QED
    BY <1>3, <1>4, <2>2 DEF AInv
<1> QED
  BY <1>5, <1>6

\* What a write of next_run does: the schedule moves on.
LEMMA WriteAdvances ==
  ASSUME AInv, NEW c \in Checker, WriteNextRun(c)
  PROVE  /\ cpc[c] = "computed" /\ at[c] \in Schedule /\ kind[at[c]] # "once"
         /\ due[c][at[c]] = NoTime
         /\ computed[c] \in Slot /\ computed[c] # NoTime
         /\ at[c] \in present => /\ nextRun[at[c]] \in Slot /\ nextRun[at[c]] # NoTime
                                /\ computed[c] > nextRun[at[c]]
         /\ cpc'[c] = "checking"
         /\ \A x \in Schedule :
              nextRun'[x] = IF x = at[c] /\ x \in present THEN computed[c] ELSE nextRun[x]
<1>1. /\ cpc[c] = "computed" /\ at[c] \in Schedule /\ kind[at[c]] # "once"
      /\ due[c][at[c]] = NoTime
      /\ computed[c] \in Slot /\ computed[c] # NoTime
      /\ at[c] \in present => /\ nextRun[at[c]] \in Slot /\ nextRun[at[c]] # NoTime
                             /\ computed[c] > nextRun[at[c]]
  BY ScheduleAssumption DEF WriteNextRun, AInv, HandlingRight, Slot
<1>2. cpc'[c] = "checking"
  BY DEF WriteNextRun, NextSchedule, AInv, TypeOK
<1>3. \A x \in Schedule :
        nextRun'[x] = IF x = at[c] /\ x \in present THEN computed[c] ELSE nextRun[x]
  BY <1>1 DEF WriteNextRun, AInv, TypeOK, PutNextRun
<1> QED
  BY <1>1, <1>2, <1>3

LEMMA WriteNextRunA ==
  ASSUME Alone, AInv, NEW c \in Checker, WriteNextRun(c), TypeOK'
  PROVE  AInv'
<1>1. \A d \in Checker : d = c
  BY DEF Alone
<1>2. UNCHANGED <<now, present, active, kind, due, recalc, dispatched>>
  BY DEF WriteNextRun
<1>3. SlotsOfPresent'
  BY <1>2, WriteAdvances DEF AInv, SlotsOfPresent
<1>4. RecalcRight'
  BY <1>2, WriteAdvances DEF AInv, RecalcRight
<1>5. HandlingRight'
  BY <1>1, WriteAdvances DEF HandlingRight
<1>6. DueRight'
  BY <1>1, <1>2, WriteAdvances DEF AInv, DueRight
<1> QED
  BY <1>3, <1>4, <1>5, <1>6 DEF AInv

\* A check ends, is lost, or goes on to the next schedule without an update.
LEMMA LeaveA ==
  ASSUME Alone, AInv, NEW c \in Checker, EndCheck(c) \/ UpdateFails(c) \/ CheckLost(c),
         TypeOK'
  PROVE  AInv'
<1>1. \A d \in Checker : d = c
  BY DEF Alone
<1>2. /\ cpc'[c] \in {"idle", "checking"}
      /\ UNCHANGED <<now, tableVars, recalc, dispatched>>
      /\ \A s \in Schedule : due'[c][s] = due[c][s] \/ due'[c][s] = NoTime
      /\ cpc'[c] = "idle" => \A s \in Schedule : due'[c][s] = NoTime
  BY DEF EndCheck, UpdateFails, CheckLost, NextSchedule, NoneDue, AInv, TypeOK
<1>3. SlotsOfPresent' /\ RecalcRight'
  BY <1>2 DEF AInv, SlotsOfPresent, RecalcRight, tableVars
<1>4. HandlingRight'
  BY <1>1, <1>2 DEF HandlingRight
<1>5. DueRight'
  BY <1>1, <1>2 DEF AInv, DueRight, tableVars
<1> QED
  BY <1>3, <1>4, <1>5 DEF AInv

\* Time passes: what was due stays due.
LEMMA TickA ==
  ASSUME AInv, Tick, TypeOK'
  PROVE  AInv'
<1> USE DEF Tick, tableVars, checkVars
<1>1. now \in Nat /\ now' = now + 1
  BY ScheduleAssumption DEF AInv, TypeOK
<1>2. SlotsOfPresent' /\ RecalcRight'
  BY DEF AInv, SlotsOfPresent, RecalcRight
<1>3. HandlingRight'
  <2> SUFFICES ASSUME NEW c \in Checker, cpc[c] \in {"dispatched", "computed"},
                      at[c] \in present
               PROVE  nextRun[at[c]] <= now'
    BY DEF AInv, HandlingRight
  <2>1. nextRun[at[c]] \in Nat /\ nextRun[at[c]] <= now
    BY ScheduleAssumption DEF AInv, HandlingRight, Slot
  <2> QED
    BY <1>1, <2>1
<1>4. DueRight'
  <2> SUFFICES ASSUME NEW c \in Checker, NEW s \in Schedule, due[c][s] # NoTime
               PROVE  due[c][s] <= now'
    BY DEF AInv, DueRight
  <2>1. due[c][s] \in Nat /\ due[c][s] <= now
    BY ScheduleAssumption DEF AInv, DueRight, TypeOK, Slot
  <2> QED
    BY <1>1, <2>1
<1> QED
  BY <1>2, <1>3, <1>4 DEF AInv

\* A deleted schedule has no slot to be served.
LEMMA DeleteA ==
  ASSUME AInv, NEW s \in Schedule, DeleteSchedule(s), TypeOK'
  PROVE  AInv'
<1> USE DEF DeleteSchedule, checkVars
<1>1. /\ present' = present \ {s}
      /\ \A x \in Schedule : active'[x] = (x # s /\ active[x])
      /\ \A x \in Schedule : nextRun'[x] = IF x = s THEN NoTime ELSE nextRun[x]
  BY DEF AInv, TypeOK
<1>2. SlotsOfPresent'
  BY <1>1 DEF AInv, SlotsOfPresent
<1>3. RecalcRight'
  BY <1>1 DEF AInv, RecalcRight
<1>4. HandlingRight'
  BY <1>1 DEF AInv, HandlingRight
<1>5. DueRight'
  BY <1>1 DEF AInv, DueRight
<1> QED
  BY <1>2, <1>3, <1>4, <1>5 DEF AInv

\* A starting backend computes slots for the schedules that have none.
LEMMA RecalculateBeginA ==
  ASSUME AInv, RecalculateBegin, TypeOK'
  PROVE  AInv'
<1> USE DEF RecalculateBegin, tableVars, checkVars
<1>1. RecalcRight'
  <2> SUFFICES ASSUME NEW s \in Schedule, NEW t \in Slot, <<s, t>> \in recalc'
               PROVE  /\ kind[s] # "once" /\ nextRun[s] = NoTime
                      /\ \A u \in Slot : <<s, u>> \in recalc' => u = t
    BY DEF RecalcRight
  <2>1. \A u \in Slot : <<s, u>> \in recalc' =>
          u = NextRun(kind[s], now) /\ nextRun[s] = NoTime /\ NextRun(kind[s], now) # NoTime
    OBVIOUS
  <2>2. kind[s] # "once"
    BY <2>1 DEF NextRun
  <2> QED
    BY <2>1, <2>2
<1>2. SlotsOfPresent' /\ HandlingRight' /\ DueRight'
  BY DEF AInv, SlotsOfPresent, HandlingRight, DueRight
<1> QED
  BY <1>1, <1>2 DEF AInv

\* It writes to a schedule that no check is busy with, or that is gone.
LEMMA RecalculateWriteA ==
  ASSUME AInv, NEW s \in Schedule, NEW t \in Slot, RecalculateWrite(s, t), TypeOK'
  PROVE  AInv'
<1> USE DEF RecalculateWrite, checkVars
<1>1. /\ kind[s] # "once" /\ nextRun[s] = NoTime /\ t # NoTime
      /\ \A u \in Slot : <<s, u>> \notin recalc'
      /\ recalc' \subseteq recalc
  BY ScheduleAssumption DEF AInv, RecalcRight, Slot
<1>2. \A x \in Schedule :
        nextRun'[x] = IF x = s /\ s \in present THEN t ELSE nextRun[x]
  BY <1>1 DEF AInv, TypeOK, PutNextRun
<1>3. SlotsOfPresent'
  BY <1>1, <1>2 DEF AInv, SlotsOfPresent
<1>4. RecalcRight'
  BY <1>1, <1>2 DEF AInv, RecalcRight
<1>5. \A c \in Checker : cpc[c] \in {"dispatched", "computed"} /\ at[c] = s => s \notin present
  BY <1>1, ScheduleAssumption DEF AInv, HandlingRight, Slot
<1>6. HandlingRight'
  BY <1>2, <1>5 DEF AInv, HandlingRight
<1>7. DueRight'
  BY <1>1, <1>2 DEF AInv, DueRight
<1> QED
  BY <1>3, <1>4, <1>6, <1>7 DEF AInv

LEMMA StepAInv ==
  ASSUME Alone, AInv, [Next]_vars
  PROVE  AInv'
<1>1. CASE UNCHANGED vars
  BY <1>1 DEF vars, tableVars, checkVars, AInv, TypeOK, SlotsOfPresent, RecalcRight,
              HandlingRight, DueRight
<1>2. CASE Next
  <2>1. TypeOK'
    BY <1>2, CheckTypeOK, UserTypeOK DEF Next, AInv
  <2>2. ASSUME NEW c \in Checker, CheckStep(c) PROVE AInv'
    BY <2>1, <2>2, BeginCheckA, ReadScheduleA, WriteNextRunA, LeaveA, DispatchDueA,
       DropDueA DEF CheckStep
  <2>3. ASSUME NEW c \in Checker, CheckFault(c) PROVE AInv'
    BY <2>1, <2>3, LeaveA, DropDueA DEF CheckFault
  <2>4. ASSUME NEW s \in Schedule, DeleteSchedule(s) PROVE AInv'
    BY <2>1, <2>4, DeleteA
  <2>5. ASSUME NEW s \in Schedule, NEW t \in Slot, RecalculateWrite(s, t) PROVE AInv'
    BY <2>1, <2>5, RecalculateWriteA
  <2>6. ~\E e \in Editor : EditStep(e)
    BY DEF Alone
  <2> QED
    BY <1>2, <2>1, <2>2, <2>3, <2>4, <2>5, <2>6, TickA, RecalculateBeginA DEF Next
<1> QED
  BY <1>1, <1>2

\* When checks do not overlap and nobody edits, no slot is skipped, whatever else
\* fails: a due schedule leaves a slot only when it has been dispatched.
THEOREM NoneSkipped == ASSUME Alone PROVE Spec => ServedBeforeAdvance
<1> DEFINE Left == \A s \in Schedule :
                     Due(s) /\ s \in present' /\ nextRun'[s] # nextRun[s]
                       => dispatched[s][nextRun[s]] > 0
<1>1. AInv /\ [Next]_vars => AInv'
  BY StepAInv
<1>2. ASSUME AInv, [Next]_vars PROVE [Left]_vars
  <2> SUFFICES ASSUME NEW s \in Schedule, Next,
                      Due(s), s \in present', nextRun'[s] # nextRun[s]
               PROVE  dispatched[s][nextRun[s]] > 0
    BY <1>2
  <2>1. nextRun[s] # NoTime
    BY DEF Due
  <2>2. ASSUME NEW c \in Checker, WriteNextRun(c) PROVE dispatched[s][nextRun[s]] > 0
    <3>1. s = at[c] /\ cpc[c] = "computed" /\ at[c] \in present
      BY <1>2, <2>2, WriteAdvances
    <3> QED
      BY <3>1, <1>2 DEF AInv, HandlingRight
  <2>3. ASSUME NEW x \in Schedule, NEW t \in Slot, RecalculateWrite(x, t) PROVE FALSE
    <3>1. x = s
      BY <1>2, <2>3 DEF RecalculateWrite, PutNextRun, AInv, TypeOK
    <3> QED
      BY <1>2, <2>1, <2>3, <3>1 DEF RecalculateWrite, AInv, RecalcRight
  <2>4. ASSUME NEW x \in Schedule, DeleteSchedule(x) PROVE FALSE
    BY <1>2, <2>4 DEF DeleteSchedule, AInv, TypeOK
  <2>5. ASSUME NEW c \in Checker, CheckStep(c) \/ CheckFault(c), ~WriteNextRun(c)
        PROVE  FALSE
    BY <2>5 DEF CheckStep, CheckFault, BeginCheck, ReadSchedule, EndCheck, DispatchDue,
                SkipDue, UpdateFails, CheckLost, DispatchFails, tableVars
  <2> QED
    BY <2>2, <2>3, <2>4, <2>5 DEF Next, Alone, Tick, RecalculateBegin, tableVars
<1> QED
  BY <1>1, <1>2, InitAInv, PTL DEF Spec, ServedBeforeAdvance

----------------------------------------------------------------------------
(* A slot is dispatched once. *)

\* The setting: only the broker may fail, besides.
Serial == Alone /\ Faults \subseteq {"broker"}

\* What a check has found due has not been dispatched.
DueUnserved ==
  \A c \in Checker, s \in Schedule : due[c][s] # NoTime => dispatched[s][due[c][s]] = 0

\* What was dispatched lies behind the schedule, or is being handled.
ServedBehind ==
  \A s \in Schedule, t \in Slot :
    dispatched[s][t] # 0 /\ s \in present =>
      /\ nextRun[s] # NoTime
      /\ \/ t < nextRun[s]
         \/ t = nextRun[s] /\ \E c \in Checker : Handling(c, s)

SInv == AInv /\ DueUnserved /\ ServedBehind /\ DispatchedOncePerSlot

\* Steps that dispatch nothing, leave every schedule its slot and none that is
\* being handled.
LEMMA QuietS ==
  ASSUME SInv, AInv', UNCHANGED <<nextRun, dispatched>>, present' \subseteq present,
         \A c \in Checker, s \in Schedule :
           /\ due'[c][s] # NoTime => due'[c][s] = due[c][s]
           /\ Handling(c, s) /\ s \in present' => Handling(c, s)'
  PROVE  SInv'
  BY DEF SInv, DueUnserved, ServedBehind, DispatchedOncePerSlot

\* A check finds what is due, and none of it was dispatched.
LEMMA BeginCheckS ==
  ASSUME Alone, SInv, NEW c \in Checker, BeginCheck(c), AInv'
  PROVE  SInv'
<1> USE DEF BeginCheck, tableVars
<1>1. \A d \in Checker : d = c
  BY DEF Alone
<1>2. /\ \A d \in Checker, s \in Schedule : ~Handling(d, s)
      /\ \A s \in Schedule : due'[c][s] = IF Due(s) THEN nextRun[s] ELSE NoTime
  BY <1>1 DEF SInv, AInv, TypeOK, Handling
<1>3. ServedBehind' /\ DispatchedOncePerSlot'
  BY <1>2 DEF SInv, ServedBehind, DispatchedOncePerSlot
<1>4. DueUnserved'
  <2> SUFFICES ASSUME NEW s \in Schedule, Due(s) PROVE dispatched[s][nextRun[s]] = 0
    BY <1>1, <1>2 DEF DueUnserved
  <2>1. nextRun[s] \in Slot /\ ~(nextRun[s] < nextRun[s]) /\ s \in present
    BY ScheduleAssumption DEF SInv, AInv, TypeOK, SlotsOfPresent, Due, Slot
  <2> QED
    BY <1>2, <2>1 DEF SInv, ServedBehind
<1> QED
  BY <1>3, <1>4 DEF SInv

\* A slot is dispatched for the first time.
LEMMA DispatchDueS ==
  ASSUME Alone, SInv, NEW c \in Checker, NEW s \in Schedule, DispatchDue(c, s), AInv'
  PROVE  SInv'
<1> DEFINE t == due[c][s]
<1>1. /\ dispatched[s][t] = 0 => dispatched'[s][t] = 1
      /\ \A x \in Schedule, u \in Slot :
           ~(x = s /\ u = t) => dispatched'[x][u] = dispatched[x][u]
  BY DispatchCounts DEF SInv, AInv
<1> USE DEF DispatchDue, tableVars
<1>2. \A d \in Checker : d = c
  BY DEF Alone
<1>3. /\ cpc[c] = "checking" /\ t \in Slot /\ t # NoTime
      /\ s \in present => nextRun[s] = t
      /\ dispatched[s][t] = 0
  BY DEF SInv, AInv, TypeOK, DueRight, DueUnserved
<1>4. /\ cpc'[c] = "dispatched" /\ at'[c] = s /\ due'[c][s] = NoTime
      /\ \A x \in Schedule \ {s} : due'[c][x] = due[c][x]
  BY DEF SInv, AInv, TypeOK
<1>5. /\ dispatched'[s][t] = 1
      /\ \A x \in Schedule, u \in Slot :
           ~(x = s /\ u = t) => dispatched'[x][u] = dispatched[x][u]
  BY <1>1, <1>3
<1> HIDE DEF t
<1>6. DueUnserved'
  <2> SUFFICES ASSUME NEW x \in Schedule, due'[c][x] # NoTime
               PROVE  dispatched'[x][due'[c][x]] = 0
    BY <1>2 DEF DueUnserved
  <2>1. x # s /\ due'[c][x] = due[c][x] /\ due[c][x] \in Slot
    BY <1>4 DEF SInv, AInv, TypeOK
  <2> QED
    BY <1>5, <2>1 DEF SInv, DueUnserved
<1>7. ServedBehind'
  <2> SUFFICES ASSUME NEW x \in Schedule, NEW u \in Slot,
                      dispatched'[x][u] # 0, x \in present
               PROVE  /\ nextRun[x] # NoTime
                      /\ u < nextRun[x] \/ (u = nextRun[x] /\ Handling(c, x)')
    BY DEF ServedBehind, Handling
  <2>1. CASE x = s /\ u = t
    BY <1>3, <1>4, <2>1 DEF Handling
  <2>2. CASE ~(x = s /\ u = t)
    <3>1. dispatched[x][u] # 0
      BY <1>5, <2>2
    <3>2. ~Handling(c, x)
      BY <1>3 DEF Handling
    <3> QED
      BY <1>2, <3>1, <3>2 DEF SInv, ServedBehind
  <2> QED
    BY <2>1, <2>2
<1>8. DispatchedOncePerSlot'
  BY <1>5 DEF SInv, DispatchedOncePerSlot
<1> QED
  BY <1>6, <1>7, <1>8 DEF SInv

\* The schedule moves on past the slot that was dispatched.
LEMMA WriteNextRunS ==
  ASSUME Alone, SInv, NEW c \in Checker, WriteNextRun(c), AInv'
  PROVE  SInv'
<1>1. UNCHANGED <<present, due, dispatched>>
  BY DEF WriteNextRun
<1>2. DueUnserved' /\ DispatchedOncePerSlot'
  BY <1>1 DEF SInv, DueUnserved, DispatchedOncePerSlot
<1>3. ServedBehind'
  <2> SUFFICES ASSUME NEW x \in Schedule, NEW u \in Slot,
                      dispatched[x][u] # 0, x \in present
               PROVE  nextRun'[x] # NoTime /\ u < nextRun'[x]
    BY <1>1 DEF ServedBehind
  <2>1. /\ nextRun[x] # NoTime
        /\ u < nextRun[x] \/ (u = nextRun[x] /\ Handling(c, x))
    BY DEF Alone, SInv, ServedBehind
  <2>2. CASE x = at[c]
    <3>1. /\ nextRun[x] \in Slot /\ computed[c] \in Slot /\ computed[c] # NoTime
          /\ computed[c] > nextRun[x] /\ nextRun'[x] = computed[c]
      BY <2>2, WriteAdvances DEF SInv
    <3>2. u \in Nat /\ nextRun[x] \in Nat /\ computed[c] \in Nat
      BY <3>1, ScheduleAssumption DEF Slot
    <3> QED
      BY <2>1, <3>1, <3>2
  <2>3. CASE x # at[c]
    BY <2>1, <2>3, WriteAdvances DEF Handling, SInv
  <2> QED
    BY <2>2, <2>3
<1> QED
  BY <1>2, <1>3 DEF SInv

\* A deleted schedule has no slot to be served.
LEMMA DeleteS ==
  ASSUME SInv, NEW s \in Schedule, DeleteSchedule(s), AInv'
  PROVE  SInv'
<1> USE DEF DeleteSchedule, checkVars
<1>1. \A x \in Schedule : nextRun'[x] = IF x = s THEN NoTime ELSE nextRun[x]
  BY DEF SInv, AInv, TypeOK
<1> QED
  BY <1>1 DEF SInv, DueUnserved, ServedBehind, DispatchedOncePerSlot, Handling

\* A starting backend writes to a schedule that was never served, or is gone.
LEMMA RecalculateWriteS ==
  ASSUME SInv, NEW s \in Schedule, NEW t \in Slot, RecalculateWrite(s, t), AInv'
  PROVE  SInv'
<1> USE DEF RecalculateWrite, checkVars
<1>1. nextRun[s] = NoTime
  BY DEF SInv, AInv, RecalcRight
<1>2. \A x \in Schedule : x # s => nextRun'[x] = nextRun[x]
  BY DEF SInv, AInv, TypeOK, PutNextRun
<1>3. s \in present => \A u \in Slot : dispatched[s][u] = 0
  BY <1>1 DEF SInv, ServedBehind
<1> QED
  BY <1>2, <1>3 DEF SInv, DueUnserved, ServedBehind, DispatchedOncePerSlot, Handling

LEMMA StepSInv ==
  ASSUME Serial, SInv, [Next]_vars
  PROVE  SInv'
<1>1. AInv'
  BY StepAInv DEF Serial, SInv
<1>2. CASE UNCHANGED vars
  BY <1>1, <1>2 DEF vars, tableVars, checkVars, SInv, DueUnserved, ServedBehind,
     Handling, DispatchedOncePerSlot
<1>3. CASE Next
  <2>1. ASSUME NEW c \in Checker, CheckStep(c) PROVE SInv'
    <3>1. \A d \in Checker : d = c
      BY DEF Serial, Alone
    <3>2. CASE ReadSchedule(c) \/ EndCheck(c)
      BY <1>1, <3>1, <3>2, QuietS
      DEF ReadSchedule, EndCheck, tableVars, Handling, SInv, AInv, TypeOK
    <3>3. ASSUME NEW s \in Schedule, SkipDue(c, s) PROVE SInv'
      BY <1>1, <3>3, QuietS DEF SkipDue, tableVars, Handling, SInv, AInv, TypeOK
    <3> QED
      BY <1>1, <2>1, <3>2, <3>3, BeginCheckS, WriteNextRunS, DispatchDueS
      DEF CheckStep, Serial
  <2>2. ASSUME NEW c \in Checker, CheckFault(c) PROVE SInv'
    <3>1. PICK s \in Schedule : DispatchFails(c, s)
      BY <2>2 DEF CheckFault, UpdateFails, CheckLost, Fault, Serial
    <3> QED
      BY <1>1, <3>1, QuietS DEF DispatchFails, tableVars, Handling, SInv, AInv, TypeOK
  <2>3. CASE Tick \/ RecalculateBegin
    BY <1>1, <2>3, QuietS DEF Tick, RecalculateBegin, tableVars, checkVars, Handling
  <2>4. ASSUME NEW s \in Schedule, DeleteSchedule(s) PROVE SInv'
    BY <1>1, <2>4, DeleteS
  <2>5. ASSUME NEW s \in Schedule, NEW t \in Slot, RecalculateWrite(s, t) PROVE SInv'
    BY <1>1, <2>5, RecalculateWriteS
  <2>6. ~\E e \in Editor : EditStep(e)
    BY DEF Serial, Alone
  <2> QED
    BY <1>3, <2>1, <2>2, <2>3, <2>4, <2>5, <2>6 DEF Next
<1> QED
  BY <1>2, <1>3

\* When checks do not overlap, nobody edits and only the broker fails, every slot
\* is dispatched at most once, however often the broker refuses a message and the
\* backend restarts.
THEOREM DispatchedOnce == ASSUME Serial PROVE Spec => []DispatchedOncePerSlot
<1>1. SInv /\ [Next]_vars => SInv'
  BY StepSInv
<1>2. SInv => DispatchedOncePerSlot
  BY DEF SInv
<1>3. Init => DueUnserved /\ ServedBehind /\ DispatchedOncePerSlot
  BY DEF Init, NoneDue, DueUnserved, ServedBehind, DispatchedOncePerSlot
<1>4. Init => SInv
  BY <1>3, InitAInv DEF SInv
<1> QED
  BY <1>1, <1>2, <1>4, PTL DEF Spec

----------------------------------------------------------------------------
(* A recurring schedule keeps its slot. *)

\* The setting: no two edits of one schedule are under way at once.
EditsApart ==
  \A e, f \in Editor :
    e # f /\ edit[e] # NoEdit /\ edit[f] # NoEdit => edit[e].schedule # edit[f].schedule

\* An edit under way puts no slot away but of a schedule it makes, or knows to
\* be, inactive or not recurring.
EditsRight ==
  \A e \in Editor :
    LET s == edit[e].schedule  ch == edit[e].change IN
    edit[e] # NoEdit /\ s \in present /\ edit[e].run = NoTime =>
      ~NewActive(s, ch) \/ NewKind(s, ch) = "once"

EInv == TypeOK /\ EditsRight

\* The schedule an editor has read.
LEMMA EditType ==
  ASSUME TypeOK, NEW e \in Editor, edit[e] # NoEdit
  PROVE  /\ edit[e].schedule \in Schedule /\ edit[e].change \in Change
         /\ edit[e].run \in Slot \cup {NoTime}
  BY DEF TypeOK, Edit

LEMMA CommitEdits ==
  ASSUME TypeOK, NEW e \in Editor, EditCommit(e), NEW s \in Schedule
  PROVE  LET ch == edit[e].change IN
         IF s = edit[e].schedule /\ s \in present
         THEN /\ kind'[s] = NewKind(s, ch) /\ active'[s] = NewActive(s, ch)
              /\ nextRun'[s] = edit[e].run
         ELSE kind'[s] = kind[s] /\ active'[s] = active[s] /\ nextRun'[s] = nextRun[s]
  BY EditType DEF EditCommit, TypeOK

LEMMA StepEInv ==
  ASSUME EInv, EditsApart, [Next]_vars
  PROVE  EInv'
<1> USE DEF EInv
<1>1. ASSUME UNCHANGED <<edit, kind, active>>, present' \subseteq present
      PROVE  EditsRight'
  BY <1>1 DEF EditsRight, NewKind, NewActive
<1>2. CASE UNCHANGED vars
  <2>1. TypeOK'
    BY <1>2 DEF vars, tableVars, checkVars, TypeOK
  <2> QED
    BY <1>1, <1>2, <2>1 DEF vars, tableVars
<1>3. CASE Next
  <2>1. TypeOK'
    BY <1>3, CheckTypeOK, UserTypeOK DEF Next
  <2>2. ASSUME NEW c \in Checker, CheckStep(c) \/ CheckFault(c) PROVE EditsRight'
    BY <1>1, <2>2
    DEF CheckStep, CheckFault, BeginCheck, ReadSchedule, WriteNextRun, EndCheck,
        DispatchDue, SkipDue, UpdateFails, CheckLost, DispatchFails, tableVars
  <2>3. /\ Tick \/ RecalculateBegin => EditsRight'
        /\ \A s \in Schedule, t \in Slot : RecalculateWrite(s, t) => EditsRight'
    BY <1>1 DEF Tick, RecalculateBegin, RecalculateWrite, tableVars
  <2>4. ASSUME NEW x \in Schedule, DeleteSchedule(x) PROVE EditsRight'
    <3>1. \A s \in Schedule : s \in present' => s \in present /\ active'[s] = active[s]
      BY <2>4 DEF DeleteSchedule, TypeOK
    <3> QED
      BY <2>4, <3>1, EditType DEF DeleteSchedule, EditsRight, NewKind, NewActive
  <2>5. ASSUME NEW e \in Editor, NEW s \in Schedule, NEW ch \in Change, EditRead(e, s, ch)
        PROVE  EditsRight'
    <3>1. /\ UNCHANGED <<present, active, kind>>
          /\ edit'[e] = [schedule |-> s, change |-> ch, run |-> MergedRun(s, ch)]
          /\ \A f \in Editor : f # e => edit'[f] = edit[f]
      BY <2>5 DEF EditRead, tableVars, TypeOK
    <3>2. MergedRun(s, ch) = NoTime => ~NewActive(s, ch) \/ NewKind(s, ch) = "once"
      <4>1. NewKind(s, ch) \in Kind /\ now \in Nat
        BY ScheduleAssumption DEF TypeOK, NewKind, Change
      <4>2. NewKind(s, ch) # "once" => NextRun(NewKind(s, ch), now) # NoTime
        <5>1. (now + 1)..(now + Period) \subseteq Nat
          BY <4>1, ScheduleAssumption
        <5> QED
          BY <4>1, <5>1, NextRunLater, ScheduleAssumption
      <4> QED
        BY <4>2 DEF MergedRun, InitialRun
    <3> QED
      BY <3>1, <3>2 DEF EditsRight, NewKind, NewActive
  <2>6. ASSUME NEW e \in Editor, EditCommit(e) PROVE EditsRight'
    <3>1. /\ UNCHANGED present /\ edit'[e] = NoEdit /\ edit[e] # NoEdit
          /\ \A f \in Editor : f # e => edit'[f] = edit[f]
      BY <2>6 DEF EditCommit, TypeOK
    <3>2. ASSUME NEW f \in Editor, edit'[f] # NoEdit
          PROVE  /\ edit'[f] = edit[f] /\ edit[f].schedule \in Schedule
                 /\ kind'[edit[f].schedule] = kind[edit[f].schedule]
                 /\ active'[edit[f].schedule] = active[edit[f].schedule]
      <4>1. f # e /\ edit'[f] = edit[f]
        BY <3>1, <3>2
      <4>2. edit[f].schedule \in Schedule /\ edit[f].schedule # edit[e].schedule
        BY <3>1, <3>2, <4>1, EditType DEF EditsApart
      <4> QED
        BY <2>6, <4>1, <4>2, CommitEdits
    <3> QED
      BY <3>1, <3>2 DEF EditsRight, NewKind, NewActive
  <2> QED
    BY <1>3, <2>1, <2>2, <2>3, <2>4, <2>5, <2>6 DEF Next, EditStep
<1> QED
  BY <1>2, <1>3

\* As long as no two edits of one schedule overlap, no sequence of edits, checks,
\* faults and restarts takes the slot of an active schedule that recurs.
THEOREM RecurringNeverStop == Spec /\ []EditsApart => RecurringKeepSlot
<1> DEFINE Keep == \A s \in Schedule : HasSlot(s) => HasSlot(s)'
<1>1. Init => EInv
  BY InitTypeOK DEF Init, EInv, EditsRight
<1>2. EInv /\ EditsApart /\ [Next]_vars => EInv'
  BY StepEInv
<1>3. EInv /\ [Next]_vars => [Keep]_vars
  <2> SUFFICES ASSUME EInv, Next, NEW s \in Schedule, HasSlot(s) PROVE HasSlot(s)'
    OBVIOUS
  <2> USE DEF EInv
  <2>1. ASSUME NEW x, NEW run, PutNextRun(x, run), UNCHANGED <<active, kind>>
        PROVE  HasSlot(s)'
    <3>1. nextRun'[s] = nextRun[s] \/ nextRun'[s] # NoTime
      BY <2>1 DEF PutNextRun, TypeOK
    <3> QED
      BY <2>1, <3>1 DEF HasSlot
  <2>2. UNCHANGED tableVars => HasSlot(s)'
    BY DEF HasSlot, tableVars
  <2>3. ASSUME NEW c \in Checker, CheckStep(c) \/ CheckFault(c) PROVE HasSlot(s)'
    BY <2>1, <2>2, <2>3
    DEF CheckStep, CheckFault, BeginCheck, ReadSchedule, WriteNextRun, EndCheck,
        DispatchDue, SkipDue, UpdateFails, CheckLost, DispatchFails
  <2>4. ASSUME NEW e \in Editor, EditCommit(e) PROVE HasSlot(s)'
    <3>1. edit[e] # NoEdit
      BY <2>4 DEF EditCommit
    <3>2. CASE s = edit[e].schedule /\ s \in present
      BY <2>4, <3>1, <3>2, CommitEdits DEF EditsRight, HasSlot
    <3>3. CASE ~(s = edit[e].schedule /\ s \in present)
      BY <2>4, <3>3, CommitEdits DEF HasSlot
    <3> QED
      BY <3>2, <3>3
  <2>5. ASSUME NEW x \in Schedule, DeleteSchedule(x) PROVE HasSlot(s)'
    BY <2>5 DEF DeleteSchedule, TypeOK, HasSlot
  <2> QED
    BY <2>1, <2>2, <2>3, <2>4, <2>5
    DEF Next, EditStep, EditRead, Tick, RecalculateBegin, RecalculateWrite
<1> QED
  BY <1>1, <1>2, <1>3, PTL DEF Spec, RecurringKeepSlot
=============================================================================
