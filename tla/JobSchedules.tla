---------------------------- MODULE JobSchedules ----------------------------
(***************************************************************************)
(* Job schedules and the periodic check that dispatches the due ones       *)
(* (services/jobs/job_schedule_service.py, tasks/scheduling/               *)
(* schedule_checker.py).  Beat starts a check every minute and nothing     *)
(* keeps two checks apart; users edit the schedules meanwhile, and a       *)
(* starting backend gives the active schedules without next_run one.       *)
(*                                                                         *)
(* A slot is a value of column next_run.  Reading a schedule and writing   *)
(* it are separate transactions, so they are separate actions here.        *)
(***************************************************************************)
EXTENDS Naturals

CONSTANTS
  Schedule,
  Checker,           \* checks that may be under way at once
  Editor,            \* schedule edits that may be under way at once
  Period,            \* minutes between the slots of a recurring schedule
  NoTime,            \* the NULL of column next_run
  NoSchedule,        \* a checker between two schedules, an idle editor
  Unslotted,         \* schedules that may start without a next_run
  Faults,            \* what may go wrong in this instance
  MaxTime,           \* bound: minutes of a behaviour
  MaxFaults          \* bound: faults of a behaviour

FaultKind == {"crash", "broker", "database"}

ASSUME ScheduleAssumption ==
  /\ Period \in Nat \ {0}
  /\ MaxTime \in Nat /\ MaxFaults \in Nat
  /\ NoTime \notin Nat
  /\ NoSchedule \notin Schedule /\ Unslotted \subseteq Schedule
  /\ Faults \subseteq FaultKind

VARIABLES
  now,               \* the minute
  present,           \* the schedules that are not deleted
  active,            \* column is_active
  kind,              \* columns schedule_type, cron_expression, ...
  nextRun,           \* column next_run
  cpc,               \* where each check is
  due,               \* the due slots a check has found and not handled yet
  at,                \* the schedule a check is busy with
  computed,          \* the next_run it has computed
  edit,              \* what each editor has read and is about to write
  recalc,            \* what a starting backend is about to write
  faults,            \* faults so far
  dispatched         \* history: dispatches of each slot, 2 for "several"

tableVars == <<present, active, kind, nextRun>>
checkVars == <<cpc, due, at, computed>>
vars == <<now, tableVars, checkVars, edit, recalc, faults, dispatched>>

Slot == 0..(MaxTime + Period)

\* "aligned": hourly, daily and cron schedules, due at points of the clock;
\* "interval": interval, weekly and monthly ones, a period after the last
\* check; "once": type "now" or an unreadable cron expression.
Kind == {"aligned", "interval", "once"}

\* Mutant: the current point counts as the next one.
NextRunNotLater(k, t) ==
  CASE k = "aligned" -> (t \div Period) * Period
    [] k = "interval" -> t + Period
    [] k = "once" -> NoTime

\* Mutant: the next point is passed over.
NextRunSkipsOne(k, t) ==
  CASE k = "aligned" -> (t \div Period + 2) * Period
    [] k = "interval" -> t + Period
    [] k = "once" -> NoTime

\* calculate_next_run.
NextRun(k, t) ==
  CASE k = "aligned" -> (t \div Period + 1) * Period
    [] k = "interval" -> t + Period
    [] k = "once" -> NoTime

\* next_run as create and update compute it from the merged columns.
InitialRun(k, a, t) == IF a THEN NextRun(k, t) ELSE NoTime

NoEdit == [schedule |-> NoSchedule]
Change == [kind : Kind \cup {"keep"}, active : {"on", "off", "keep"}]
Edit == [schedule : Schedule, change : Change, run : Slot \cup {NoTime}]

TypeOK ==
  /\ now \in 0..MaxTime
  /\ present \subseteq Schedule
  /\ active \in [Schedule -> BOOLEAN]
  /\ kind \in [Schedule -> Kind]
  /\ nextRun \in [Schedule -> Slot \cup {NoTime}]
  /\ cpc \in [Checker -> {"idle", "checking", "dispatched", "computed"}]
  /\ due \in [Checker -> [Schedule -> Slot \cup {NoTime}]]
  /\ at \in [Checker -> Schedule \cup {NoSchedule}]
  /\ computed \in [Checker -> Slot \cup {NoTime}]
  /\ edit \in [Editor -> Edit \cup {NoEdit}]
  /\ recalc \subseteq Schedule \X Slot
  /\ faults \in 0..MaxFaults
  /\ dispatched \in [Schedule -> [Slot -> 0..2]]

NoneDue == [s \in Schedule |-> NoTime]

\* Every schedule has just been created, except that Unslotted ones may have
\* lost their next_run to two overlapping edits.
Init ==
  /\ now = 0
  /\ present = Schedule
  /\ active \in [Schedule -> BOOLEAN]
  /\ kind \in [Schedule -> Kind]
  /\ \E U \in SUBSET Unslotted :
       nextRun = [s \in Schedule |-> InitialRun(kind[s],
                                               active[s] /\ s \notin U, 0)]
  /\ cpc = [c \in Checker |-> "idle"]
  /\ due = [c \in Checker |-> NoneDue]
  /\ at = [c \in Checker |-> NoSchedule]
  /\ computed = [c \in Checker |-> NoTime]
  /\ edit = [e \in Editor |-> NoEdit]
  /\ recalc = {}
  /\ faults = 0
  /\ dispatched = [s \in Schedule |-> [t \in Slot |-> 0]]

Tick ==
  /\ now < MaxTime
  /\ now' = now + 1
  /\ UNCHANGED <<tableVars, checkVars, edit, recalc, faults, dispatched>>

----------------------------------------------------------------------------
(* check_job_schedules_task.                                               *)

Due(s) == active[s] /\ nextRun[s] # NoTime /\ nextRun[s] <= now

\* Mutant: only the schedules due this very minute are handled.
BeginCheckOnTime(c) ==
  /\ cpc[c] = "idle"
  /\ \E s \in Schedule : Due(s) /\ nextRun[s] = now
  /\ cpc' = [cpc EXCEPT ![c] = "checking"]
  /\ due' = [due EXCEPT ![c] =
               [s \in Schedule |-> IF Due(s) /\ nextRun[s] = now THEN nextRun[s]
                                                               ELSE NoTime]]
  /\ UNCHANGED <<now, tableVars, at, computed, edit, recalc, faults,
                 dispatched>>

\* The active schedules are listed once; the due ones will be handled.
BeginCheck(c) ==
  /\ cpc[c] = "idle"
  /\ \E s \in Schedule : Due(s)
  /\ cpc' = [cpc EXCEPT ![c] = "checking"]
  /\ due' = [due EXCEPT ![c] = [s \in Schedule |-> IF Due(s) THEN nextRun[s]
                                                           ELSE NoTime]]
  /\ UNCHANGED <<now, tableVars, at, computed, edit, recalc, faults,
                 dispatched>>

\* dispatch_job.delay.
DispatchDue(c, s) ==
  /\ cpc[c] = "checking" /\ due[c][s] # NoTime
  /\ dispatched' = [dispatched EXCEPT ![s][due[c][s]] = IF @ < 2 THEN @ + 1
                                                                 ELSE @]
  /\ due' = [due EXCEPT ![c][s] = NoTime]
  /\ at' = [at EXCEPT ![c] = s]
  /\ cpc' = [cpc EXCEPT ![c] = "dispatched"]
  /\ UNCHANGED <<now, tableVars, computed, edit, recalc, faults>>

\* The template is gone, and its schedules with it.
SkipDue(c, s) ==
  /\ cpc[c] = "checking" /\ due[c][s] # NoTime
  /\ s \notin present
  /\ due' = [due EXCEPT ![c][s] = NoTime]
  /\ UNCHANGED <<now, tableVars, cpc, at, computed, edit, recalc, faults,
                 dispatched>>

Fault(f) == f \in Faults /\ faults < MaxFaults /\ faults' = faults + 1

\* Mutant: next_run moves on although the dispatch failed.
DispatchFailsAdvances(c, s) ==
  /\ cpc[c] = "checking" /\ due[c][s] # NoTime
  /\ Fault("broker")
  /\ due' = [due EXCEPT ![c][s] = NoTime]
  /\ at' = [at EXCEPT ![c] = s]
  /\ cpc' = [cpc EXCEPT ![c] = "dispatched"]
  /\ UNCHANGED <<now, tableVars, computed, edit, recalc, dispatched>>

\* The broker refuses the message: the schedule stays as it is.
DispatchFails(c, s) ==
  /\ cpc[c] = "checking" /\ due[c][s] # NoTime
  /\ Fault("broker")
  /\ due' = [due EXCEPT ![c][s] = NoTime]
  /\ UNCHANGED <<now, tableVars, cpc, at, computed, edit, recalc, dispatched>>

\* calculate_and_update_next_run reads the schedule again ...
ReadSchedule(c) ==
  /\ cpc[c] = "dispatched"
  /\ IF at[c] \in present
     THEN /\ computed' = [computed EXCEPT ![c] = NextRun(kind[at[c]], now)]
          /\ cpc' = [cpc EXCEPT ![c] = "computed"]
          /\ UNCHANGED at
     ELSE /\ cpc' = [cpc EXCEPT ![c] = "checking"]
          /\ at' = [at EXCEPT ![c] = NoSchedule]
          /\ UNCHANGED computed
  /\ UNCHANGED <<now, tableVars, due, edit, recalc, faults, dispatched>>

\* update_job_run_times, here and in a starting backend: no value, no column.
PutNextRun(s, run) ==
  nextRun' = [nextRun EXCEPT ![s] =
                IF s \in present /\ run # NoTime THEN run ELSE @]

NextSchedule(c) ==
  /\ cpc' = [cpc EXCEPT ![c] = "checking"]
  /\ at' = [at EXCEPT ![c] = NoSchedule]
  /\ computed' = [computed EXCEPT ![c] = NoTime]

\* ... and writes its next_run, whether it is still active or not.
WriteNextRun(c) ==
  /\ cpc[c] = "computed"
  /\ PutNextRun(at[c], computed[c])
  /\ NextSchedule(c)
  /\ UNCHANGED <<now, present, active, kind, due, edit, recalc, faults,
                 dispatched>>

\* The database fails after the dispatch; the check goes on.
UpdateFails(c) ==
  /\ cpc[c] \in {"dispatched", "computed"}
  /\ Fault("database")
  /\ NextSchedule(c)
  /\ UNCHANGED <<now, tableVars, due, edit, recalc, dispatched>>

EndCheck(c) ==
  /\ cpc[c] = "checking" /\ due[c] = NoneDue
  /\ cpc' = [cpc EXCEPT ![c] = "idle"]
  /\ UNCHANGED <<now, tableVars, due, at, computed, edit, recalc, faults,
                 dispatched>>

\* The worker is lost.  The check it ran starts over, or the next one comes.
CheckLost(c) ==
  /\ cpc[c] # "idle"
  /\ Fault("crash")
  /\ cpc' = [cpc EXCEPT ![c] = "idle"]
  /\ due' = [due EXCEPT ![c] = NoneDue]
  /\ at' = [at EXCEPT ![c] = NoSchedule]
  /\ computed' = [computed EXCEPT ![c] = NoTime]
  /\ UNCHANGED <<now, tableVars, edit, recalc, dispatched>>

----------------------------------------------------------------------------
(* The schedule endpoints, and a starting backend.                         *)

NewKind(s, ch) == IF ch.kind = "keep" THEN kind[s] ELSE ch.kind
NewActive(s, ch) == IF ch.active = "keep" THEN active[s] ELSE ch.active = "on"

\* Mutant: only a change of the recurrence has next_run computed.
ScheduleChangeOnly(s, ch) ==
  IF ch.kind = "keep"
  THEN IF NewActive(s, ch) THEN nextRun[s] ELSE NoTime
  ELSE InitialRun(NewKind(s, ch), NewActive(s, ch), now)

MergedRun(s, ch) == InitialRun(NewKind(s, ch), NewActive(s, ch), now)

\* update_job_schedule reads the schedule and merges the changes into it ...
EditRead(e, s, ch) ==
  /\ edit[e] = NoEdit
  /\ s \in present
  /\ ch.kind # "keep" \/ ch.active # "keep"
  /\ edit' = [edit EXCEPT ![e] =
                [schedule |-> s, change |-> ch, run |-> MergedRun(s, ch)]]
  /\ UNCHANGED <<now, tableVars, checkVars, recalc, faults, dispatched>>

\* ... and writes the changed columns and next_run.
EditCommit(e) ==
  /\ edit[e] # NoEdit
  /\ LET s == edit[e].schedule
         ch == edit[e].change
     IN  IF s \in present
         THEN /\ kind' = [kind EXCEPT ![s] = NewKind(s, ch)]
              /\ active' = [active EXCEPT ![s] = NewActive(s, ch)]
              /\ nextRun' = [nextRun EXCEPT ![s] = edit[e].run]
         ELSE UNCHANGED <<kind, active, nextRun>>
  /\ edit' = [edit EXCEPT ![e] = NoEdit]
  /\ UNCHANGED <<now, present, checkVars, recalc, faults, dispatched>>

DeleteSchedule(s) ==
  /\ s \in present
  /\ present' = present \ {s}
  /\ active' = [active EXCEPT ![s] = FALSE]
  /\ nextRun' = [nextRun EXCEPT ![s] = NoTime]
  /\ UNCHANGED <<now, kind, checkVars, edit, recalc, faults, dispatched>>

\* initialize_schedule_next_runs.
RecalculateBegin ==
  /\ recalc = {}
  /\ recalc' = {<<s, NextRun(kind[s], now)>> :
                  s \in {x \in Schedule : /\ active[x] /\ nextRun[x] = NoTime
                                          /\ NextRun(kind[x], now) # NoTime}}
  /\ recalc' # {}
  /\ UNCHANGED <<now, tableVars, checkVars, edit, faults, dispatched>>

RecalculateWrite(s, t) ==
  /\ <<s, t>> \in recalc
  /\ recalc' = recalc \ {<<s, t>>}
  /\ PutNextRun(s, t)
  /\ UNCHANGED <<now, present, active, kind, checkVars, edit, faults,
                 dispatched>>

----------------------------------------------------------------------------
CheckStep(c) ==
  \/ BeginCheck(c) \/ ReadSchedule(c) \/ WriteNextRun(c) \/ EndCheck(c)
  \/ \E s \in Schedule : DispatchDue(c, s) \/ SkipDue(c, s)

CheckFault(c) ==
  \/ UpdateFails(c) \/ CheckLost(c)
  \/ \E s \in Schedule : DispatchFails(c, s)

EditStep(e) ==
  \/ \E s \in Schedule, ch \in Change : EditRead(e, s, ch)
  \/ EditCommit(e)

Next ==
  \/ Tick
  \/ \E c \in Checker : CheckStep(c) \/ CheckFault(c)
  \/ \E e \in Editor : EditStep(e)
  \/ \E s \in Schedule : DeleteSchedule(s)
  \/ RecalculateBegin
  \/ \E s \in Schedule, t \in Slot : RecalculateWrite(s, t)

Spec == Init /\ [][Next]_vars

\* Beat keeps starting checks, workers run them, and time passes.
Fairness == WF_vars(Tick) /\ \A c \in Checker : WF_vars(CheckStep(c))

FairSpec == Spec /\ Fairness

----------------------------------------------------------------------------
(* Properties.                                                             *)

\* A slot is dispatched once.
DispatchedOncePerSlot ==
  \A s \in Schedule, t \in Slot : dispatched[s][t] <= 1

\* No slot is skipped: a schedule that is due moves on to another slot only
\* when the slot it leaves has been dispatched, or when it is deleted.
ServedBeforeAdvance ==
  [][\A s \in Schedule :
       Due(s) /\ s \in present' /\ nextRun'[s] # nextRun[s]
         => dispatched[s][nextRun[s]] > 0]_vars

\* An active schedule that recurs has a next_run: no sequence of edits, checks
\* and restarts makes it silently stop.
HasSlot(s) == active[s] /\ kind[s] # "once" => nextRun[s] # NoTime

RecurringKeepSlot ==
  [][\A s \in Schedule : HasSlot(s) => HasSlot(s)']_vars

\* A due schedule is dispatched, unless a user changes it or deletes it first.
DueIsServed ==
  \A s \in Schedule, t \in Slot :
    (Due(s) /\ nextRun[s] = t) ~> (dispatched[s][t] > 0 \/ nextRun[s] # t
                                                        \/ ~active[s])
=============================================================================
