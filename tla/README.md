# TLA+ models of Cockpit-NG

Formal models of Cockpit-NG where several actors meet: how background jobs are
scheduled, dispatched, recorded and settled; how configuration backups share a
Git clone; how remote agents are commanded and shown; how the Netmiko page runs
commands on devices; and how the tabs of a browser share one session. The models
are translated from the source. Paths below are relative to `src/backend`,
`web/` stands for `src/frontend/src`, and `scripts/` for `src/scripts`.
`PROJECT.json` maps every definition to the lines it stands for.

## 1. The system

Cockpit-NG is a network-management dashboard: a Next.js client with its own
server, a FastAPI backend over PostgreSQL, Celery workers with Redis as broker,
and agents on other hosts that are reached through Redis. Its parts:

| component | state it keeps | operations | talks to |
|---|---|---|---|
| job run history (`core/models/jobs.py`, `repositories/jobs`) | table `job_runs`: status, UNIQUE `celery_task_id`, queue and start times | insert, `mark_*`, deletes | everything that runs jobs |
| job dispatcher (`tasks/scheduling/job_dispatcher.py`) | the local `job_run` of a task | `dispatch_job`: insert, `mark_started`, execute, mark | table, executors |
| Celery broker and workers (`celery_app.py`) | queue, unacknowledged messages, revoked ids | deliver, requeue, kill at the time limit | dispatcher |
| parallel backup (`tasks/execution/backup_executor.py`, `tasks/backup_tasks.py`) | a chord of device tasks | launch, callback `finalize_backup_task` | table, Git, Nautobot |
| job run endpoints (`routers/jobs/runs.py`) | none; a request between check and write | cancel, delete, clear, clean up, run now | table, broker |
| periodic maintenance (`tasks/periodic_tasks.py`) | a snapshot while it runs | stale-job check, clean-up, cache launches | table, workers |
| job schedules (`services/jobs/job_schedule_service.py`) | table `job_schedules`: `is_active`, recurrence, `next_run` | create, update, delete, compute `next_run` | checker, users |
| schedule checker (`tasks/scheduling/schedule_checker.py`) | the list it read | every minute: dispatch what is due, advance it | schedules, broker |
| task launchers (`routers/jobs/*.py`, `dispatch_cache_task`) | a run and a task id | create run, publish, `mark_started` | table, broker |
| Git clone and backups (`services/git`, `services/nautobot/configs`, `routers/git`) | a working copy on disk, no lock | open or clone, pull, write, stage, commit, push; sync, remove and sync | remote, devices, operators |
| Cockpit agents (`services/cockpit_agent`, `scripts/cockpit_agent_git`) and the Agents page | command table, agent key with a time to live, subscriptions | send, wait, execute, respond, heartbeat, poll | Redis publish/subscribe |
| Netmiko page and services (`web/components/features/network/automation/netmiko`, `services/network/automation`) | hook state; per-request registry of cancelled sessions | execute, cancel, show results | devices, Nautobot |
| web-client session (`web/lib/auth-store.ts`, `web/hooks`, `web/app/api/auth`, `web/proxy.ts`) | one cookie per browser, one store per tab | login, hydrate, refresh, call, logout | backend |
| CheckMK sync, Nautobot services, inventory, templates, settings, backend authentication, other pages | their own tables, or none | requests | REST services |

Components meet in five places: the `job_runs` table (written by dispatchers,
launchers, tasks, endpoints and periodic tasks, without row locks or status
guards); the broker (at-least-once delivery: late acknowledgement and requeueing
of a lost worker's tasks); the schedules table (written by users and the
checker); the clone (written by every job that uses its repository, and by
operators); and the cookie (set and deleted by the answers to any tab).

What is hard about it: a message may be delivered twice, also while the first
delivery is still running; every check of a row and the write that follows are
two transactions; the workers' memory is lost in a crash and the table is not;
`mark_started` of a launcher races with the task it launched; the stale check
acts on a snapshot and on the answers of those workers that answer; a commit
stages whatever lies in the clone, and a commit whose push failed stays behind;
who is not subscribed to a Redis channel never sees a message; the answer to a
request sets the cookie when it arrives, between the requests of another tab.
The correctness of each component is a statement about these orders:

* table and dispatcher: a message is not executed under two rows; "completed" is
  never a lie; a finished run is not reopened; every run is settled some day;
* stale check: it never fails a run whose dispatcher is alive;
* schedules: a slot is served once and none is skipped; a recurring schedule does
  not silently stop; what is due is dispatched;
* launchers: a task marks its own run only; an unmarked run has a known cause;
* Git: what a backup reports as pushed is on the remote, the remote only grows,
  a backup that succeeded without its files has a known cause;
* agents: a success is never a lie, no command is executed twice or unrecorded,
  every request returns, the page comes to show who is there;
* Netmiko: one execution at a time, shown results are final, waiting ends;
* session: no good session is thrown away, no tab stays on the dashboard with
  nobody signed in, and every tab comes to follow the cookie it cannot see.

## 2. Modules

| module | models | theorems |
|---|---|---|
| `JobRuns` | the `job_runs` table, its operations and selections | |
| `JobDispatch` (extends `JobRuns`) | broker, workers, `dispatch_job`, chord, endpoints, periodic tasks | `JobDispatchProofs` |
| `JobClaims` | abstract: the row that carries a task id is the claim on its execution | `JobDispatchRefinement` |
| `JobSchedules` | schedules, checker, editors, start-up initialisation | `JobSchedulesProofs` |
| `TaskLaunch` (extends `JobRuns`) | launchers and the tasks that mark their run themselves | `TaskLaunchProofs` |
| `BackupGit` | clone, remote, backup jobs, operator | `BackupGitProofs` |
| `RemoteHistory` | abstract: a history that only grows, and the reports of jobs | `BackupGitProofs` |
| `AgentCommands` | Agents page, command requests, agent, heartbeat, Redis | `AgentCommandsProofs` |
| `RemoteCalls` | abstract: calls that are recorded, executed at most once, and answered with what is known of them | `AgentCommandsProofs` |
| `NetmikoSessions` | page, execution and cancellation requests, device pool | `NetmikoProofs` |
| `DeviceBatches` | abstract: batches whose outcomes are never revised, one awaited and shown at a time | `NetmikoProofs` |
| `AuthSession` | cookie, tabs, requests and answers | `AuthSessionProofs` |
| `MC...` | one instance module per component, for TLC | |

**JobRuns.** `status`, `celeryTaskId`, `queuedAge` and `startedAge` are columns;
`nextId` is the id sequence, which never returns an id twice. A row is "absent"
before its INSERT and after its DELETE, and an UPDATE of an absent row does
nothing, as in `BaseRepository.update`. `mark_started` fails when another row has
the task id (`UniqueViolation`); no other update looks at anything. Time is kept
as ages in hours that stop one beyond the largest limit, because the code only
compares them with limits.

**JobDispatch.** A worker's `pc` is its position in `dispatch_job`, `wrow` the
local `job_run`, `wtask` the unacknowledged message. One action per step that
another actor can see: insert, `mark_started` (with the entry into the executor),
the executor's outcome, the final update (with the acknowledgement). The
exception handler is `RecordFailure` after `StartRefused` or
`CompletionRefused`, and `RecordNothing` is the case in which its own update
fails. Endpoints are two actions each
(`CancelRequest`, `CancelCommit`), because they read and write in separate
transactions. A stale check is a scan, which sees any subset of the workers
answer, and one mark per row found. `executed` and `outcome` are history.

**JobSchedules.** A slot is a value of `next_run`. `calculate_next_run` has three
classes: aligned to the clock (hourly, daily, cron), a period after the last check
(interval, weekly, monthly), and none ("now", unreadable cron). A check lists the
schedules once and then handles each due one in three steps (dispatch, read,
write); `update_job_run_times` never writes NULL. An edit reads and merges, then
writes the columns it changes. Deleting a schedule keeps the identity unused.

**TaskLaunch.** `Handed` tasks carry the id of a run created before them (cache
loaders, CSV export); the others find their run by task id when they end. The
launcher's steps come in the order of each pattern, `mark_started` last. A task
ends, finds its run, marks it and is acknowledged; it may be killed, or lost and
delivered again. A task of either kind may return early and leave its run
unmarked (`ReturnEarly`): `cache_all_devices_task`, and of those that look their
run up `check_ip_task`, `update_devices_from_csv_task` and
`update_ip_addresses_from_csv_task`, when their input or query is no good or
there is nothing to do. `excused` is a history variable naming the tasks for which
something went wrong. The history endpoints are not repeated here; their effects
on rows are in `JobDispatch`.

**BackupGit.** A configuration is its version, a tree gives each file's version,
a branch is the sequence of its trees. `files`, `index` and `local` are the
working directory, Git's index and the branch of the clone; a clone is "partial"
between the removal of the old directory and the end of `git clone`. A job goes
through `open_or_clone`, pull (whose failure is a warning), one retrieve and
write per device (one after the other, or in any order in a chord), stage,
commit and push as separate steps, each of which may fail. `disturbed` is
history: the jobs whose written files were replaced by others. Operators sync, or
remove and sync, at any time; others push to the remote. A push that fails may
have been taken by the remote all the same. A valid clone whose address is no
longer the configured one is removed and cloned afresh; the new address leads to
the same history. A worker killed in a clone may leave a repository without a
commit (`Unborn`), which a pull fills, which the next job refuses or replaces, and
in which a job that is already past its opening makes a first commit of its own.
A device that fails may have written its running configuration before.

What a pull does to branches that have diverged depends on Git. The model assumes
the Git of the images: both Dockerfiles install Debian's on `python:3.14.5-slim`
(`docker/Dockerfile.all-in-one:29`, `docker/Dockerfile.basic:25`), which is later
than 2.33 and fails such a pull unless `pull.rebase` or `pull.ff` says how to
reconcile, and nothing in the repository sets either. Under an older Git, or a
host configuration that sets one, a pull would merge, and `DivergedUntilReplaced`
would not hold; its mutant is that pull.

**AgentCommands.** `request` is the position of each command's HTTP request,
`waits` says whether it waits for the response, `row` its status in
`cockpit_agent_commands`, `mail` what its subscription has received. The agent's
loop is `agent`: fresh, registered, listening, idle after an error, stopping;
`inbox` is its subscription, emptied by every interruption. A heartbeat thread
that an error leaves behind is an orphan. `key` and `ttl` are the agent's hash:
`mark_offline` may write it without a time to live, and a last heartbeat may
follow it. Registration and heartbeat write the key and its expiry in two calls
(`scripts/cockpit_agent_git/agent.py:104`, `heartbeat.py:60`): `MarkOnline` may be
cut short between them, which leaves a new key without a time to live. A request
may be refused because the agent is offline, its secret is missing or its row
cannot be written (`CannotSend`). Publishing may fail after Redis took the
message.

**NetmikoSessions.** The page's hook state (`currentSessionId`, `isCancelling`,
`shown`), one request per execution and one per cancellation, the state of every
device in every session, and a registry of cancelled sessions per service, since
`build_netmiko_service` makes a service for each request. Commands use a pool of
`Workers` threads; templates, and their dry runs, go device by device; the sync
mode renders everything at once and hands it to a job. A device's state ends as
what its entry in the results says, or as "omitted" if it has none: commands leave
out a device without an address (`netmiko.py:169`), a template reports it as
failed, and a dry run, which renders and connects to nothing, as successful
(`netmiko.py:499`). An answer may be lost and the page may
be left while the execution goes on (`abandoned`).

**AuthSession.** A request carries the cookie of the moment it is sent, and the
cookie that an answer sets is applied when the answer is handled. Each tab has
its route (`page`, `isLoading`, `leaving`), its store (`user`,
`isAuthenticated`), the session manager's `isRefreshing`, and one request of
each kind. `Answer*` are the routes of the client's server and the backend
behind them; the others are the hooks and stores that deal with answers. `current`
is history: whether a call was sent with the token the cookie still holds.

## 3. Runs

| run | instance | question | distinct states |
|---|---|---|---|
| `dispatch_safety` | 1 message, 2 workers, 2 rows, 1 redelivery, every event | safety, inductive invariant, refinement of `JobClaims` | 455,000 |
| `dispatch_live` | the same with all faults and cancels, fair | every run settles | 28,000 |
| `dispatch_crash` | a lost worker only | violated: `SurvivesWorkerCrash` | |
| `schedules_serial` | 2 schedules, 1 check at a time, broker fault | served once, none skipped | 3,300 |
| `schedules_edits` | 1 schedule, 1 check, 1 editor, any fault, fair | keeps a slot, due is served | 100,000 |
| `schedules_overlap` | 2 checks at once | violated: `DispatchedOncePerSlot` | |
| `launch_both` | one handed and one looked-up task, 1 fault, fair | own run only, unfinished runs explained and settled | 222,000 |
| `backup_git` | 2 jobs (1 chord), 2 devices, 2 versions, 1 push by others, devices symmetric | pushed is kept, success explained, refinement of `RemoteHistory`, divergence stays | 1,757,000 |
| `agent_commands` | 2 commands, 1 forgotten heartbeat, fair | no false success, executed once, history true, refinement of `RemoteCalls`, requests return, page follows | 334,000 |
| `netmiko_page` | 2 executions of 4 modes, 2 devices, 1 with an address, 2 threads, fair | one at a time, results final, cancelling is current, refinement of `DeviceBatches`, waiting ends | 157,000 |
| `netmiko_cancel` | the same with 1 thread | violated: `CancelStopsWaiting` | |
| `auth_session` | 2 tabs, 1 user, 1 request before users act, fair | guard, dashboard has a user, good session kept, tabs follow the cookie | 92,000 |

Deadlock is checked in `agent_commands` and `auth_session`, where something is
always enabled. It is off in the others: the bounds on messages, rows, minutes,
faults, jobs and sessions let a behaviour come to a legitimate end.

**Bounds.** One message with two deliveries and two workers is the smallest
instance in which two executions of a message meet; `MaxRows = 2` gives each its
row, and a third delivery would repeat the second. Messages share nothing but the
table, where they have different rows, so a second message adds no new conflict;
the proofs hold for any number. Hours are scaled to their order (time limit 1,
pending 1, running 2 of the real 1 h, 1 h, 2 h), with `Retention` (24 h and more
in the code) at 2. `dispatch_live` shortens the running limit to 1, which only
lets the stale check act sooner; `launch_both` uses 0 for both limits for the
same reason, since it has no property about ages. `schedules_serial` needs two
schedules for one to fail while the other is served, and two periods of two
minutes for a slot to be left and the next to be reached. `schedules_edits` needs
one of everything: its properties are about one schedule. `MaxFaults = 1` puts a
fault at every point of a behaviour; faults that keep coming excuse every
liveness property.

In `backup_git` two jobs are enough for one to stage, commit or replace what the
other wrote, two devices for a backup to fail in part and for a chord to finish
out of order, two versions for one to overwrite the other, and one push of others
for the branches to diverge. In `agent_commands` two commands let a response reach
the wrong waiter, and the agent may start, stop, die and lose Redis without bound;
`MaxOrphans` only limits how many heartbeats it forgets. `netmiko_page` has a
device that cannot be reached, of which each mode makes something else, and a
second execution that may begin while an abandoned one goes on. Its devices of one
execution are never two at once with a connection: that takes a third device
(1,070,000 states), and no property relates the connected devices of an execution
to each other; the proofs hold for any number of devices and threads.
`auth_session` has two tabs, so that answers of one overtake the requests of the
other; `MaxOut = 1` limits when *users* act (a login may join the hydration of its
page), while refreshes, hydrations and the logouts that code posts are added
without limit. One user suffices for the questions asked there: the tokens that
matter are told apart by `current` and by the cookie's validity, and the proofs of
the safety properties are for any number of users.

**Fairness.** None is assumed of users, operators, faults, the network, other
pushers, chords or redeliveries. Assumed are:

* `JobDispatch`, `TaskLaunch`: weak fairness of each worker's own steps (a Celery
  worker takes messages and runs them), of the stale check and its marks (beat
  starts it every ten minutes) and of time. Workers may be lost at any time, but
  only `MaxRedeliveries` or `MaxFaults` times;
* `JobSchedules`: weak fairness of the check's steps (beat, every minute) and of
  time;
* `AgentCommands`: weak fairness of the page's polling, of each request (a wait
  has a limit), of the agent's own loop, of its heartbeat and of a key's expiry;
* `NetmikoSessions`: weak fairness of each execution (connections time out) and
  of an answer's arrival;
* `AuthSession`: weak fairness of the refresh interval and of what a tab does with
  answers and timers; strong fairness of the answers to refreshes, which says
  that not every one of infinitely many refreshes fails. It is needed because a
  refresh that fails is sent again, and one that fails for ever proves nothing;
* `BackupGit`: none, it has safety properties only.

**Disagreements found.** Three runs check what a comment or docstring says and
fail: requeueing does not make dispatched jobs survive a crash, because the UNIQUE
task id stops the second delivery (`celery_app.py:97`); overlapping checks
dispatch a slot twice (`schedule_checker.py:25`); an answered cancellation of a
Netmiko execution stops no waiting device, because every request has a registry of
its own (`routers/network/automation/netmiko.py:280` and
`service_factory.py:425`). A fourth is shown by a property that holds: a rejected
push tells the user to pull "to merge remote changes"
(`services/git/service.py:414`), and no pull merges (`DivergedUntilReplaced`,
under the Git assumed above), so the advice fails in the case it is given for. Two
more are known and have no run of their own: a cancelled pending run may be
reopened (`routers/jobs/runs.py:546`), as far as `ReopenedOnlyBeforeStart` allows,
and a cache task may leave its run unmarked (`periodic_tasks.py:159`), one of the
causes in `UnfinishedExplained`. And an agent that is killed between the two calls
that write its key stays on the page as online, which `PageFollowsAgent` names as
its one exception (`StuckOnline`). `PROJECT.json` has the details, and under
`hazards` what in this code is hard to test with what covers it.

## 4. Proofs

All theorems hold for all values of the constants that satisfy the assumptions of
the modules they are about; those assumptions are the types of the constants, and
`TimeLimitAssumption` of `JobDispatch`.

| module | theorems (property) |
|---|---|
| `JobDispatchProofs` | `Invariant` (`IInv`), `TypeCorrect`, `ExecutesOnce` (`ExecutedOncePerRow`), `CompletionIsTrue` (`CompletedMeansDone`), `StaleCheckIsSafe` (`StaleSparesLiveRuns`), `ReopenedEarlyOnly` (`ReopenedOnlyBeforeStart`, an action property) |
| `JobDispatchRefinement` | `Implements`: `Spec => ImplementsClaims` |
| `JobSchedulesProofs` | `TypeCorrect`; under `Alone`: `NoneSkipped` (`ServedBeforeAdvance`, an action property); under `Serial`: `DispatchedOnce` (`DispatchedOncePerSlot`); as long as `EditsApart`: `RecurringNeverStop` (`RecurringKeepSlot`) |
| `TaskLaunchProofs` | `TypeCorrect`, `CompletedByOwn` (`CompletedByOwnTask`), `LeftoversExplained` (`UnfinishedExplained`) |
| `BackupGitProofs` | `TypeCorrect`, `PushKeeps` (`PushedIsKept`), `SuccessIsExplained` (`SuccessExplained`), `DivergedStays` (`DivergedUntilReplaced`, an action property), `Implements`: `Spec => ImplementsHistory` |
| `AgentCommandsProofs` | `TypeCorrect`, `SuccessIsTrue` (`SuccessWasExecuted`), `OnceAndRecorded` (`ExecutedOnceAndRecorded`), `HistoryIsTrue` (`PendingExplained`), `Implements`: `Spec => ImplementsCalls` |
| `NetmikoProofs` | `TypeCorrect`, `OneAtATime` (`OneSessionAtATime`), `ResultsAreFinal` (`ShownResultsFinal`), `CancellingIsCurrent` (`CancellingThisSession`), `Implements`: `Spec => ImplementsBatches` |
| `AuthSessionProofs` | `TypeCorrect`, `GuardIsRight` (`GuardTracksRefresh`), `NobodyStays` (`DashboardHasUser`), `SessionKept` (`GoodSessionKept`, an action property) |

There is one lemma per action, or group of actions that touch the same state, and
under it one step per conjunct the action can disturb.

**JobDispatch.** `ExecutedOncePerRow` is not inductive: a worker between
insert and `mark_started` could hold a row that is already executed. The
strengthening says what the program counter means (`WorkersConsistent`), that a
row has one holder (`RowsHeldOnce`) and rows not handed out are untouched
(`UnusedRows`), that a created run has neither a task id nor an execution
(`CreatedRunsFresh`), and that a task id identifies the row (`ClaimsUnique`) under
which the task was executed as long as it exists (`ExecutionsClaimed`). For
`CompletedMeansDone` it tracks the outcome of the run a worker holds, which no
chord shares (`OutcomesTracked`). For `StaleSparesLiveRuns` it bounds the ages of
a held run by the time its worker has been at work (`HeldRunsYoung`): the time
limit bounds that time, and the stale limits are no smaller. That is
`TimeLimitAssumption`; it holds with equality for the pending limit. TLC checks
`IInv` itself in `dispatch_safety`.

The refinement maps a task's claim to the existing rows that carry its id. Each
step is then a claim (`StartJob` with its row), an execution without a row (its
row was deleted), a release (a delete), or a stutter; the UNIQUE column is what
makes the claim exclusive. With an index over unfinished rows only, TLC refutes
the refinement (a mutant in `PROJECT.json`).

**JobSchedules.** Three settings, each as wide as its theorem allows. `NoneSkipped`
is stated under `Alone`: at most one checker and no editor, but any crash and any
failure of broker and database. With two checks at once it is false: the later one
dispatches the old slot once more and computes `next_run` past the slot the other
has just written. Its invariant (`AInv`) relates the check's list to the table: a
listed slot is the schedule's `next_run` still (`DueRight`), a schedule being
handled is at a slot that was dispatched and moves to a later one
(`HandlingRight`), and a starting backend writes one slot only, to a schedule
without any (`RecalcRight`). `DispatchedOnce` is stated under `Serial`, which is
`Alone` with no fault but a broker that refuses a message: after a crash between
dispatch and advance the slot is dispatched again, which is the price of never
losing it. It adds that a listed slot is unserved (`DueUnserved`) and a served one
lies behind `next_run` or is being handled (`ServedBehind`).

`RecurringNeverStop` has the hypothesis `[]EditsApart`: no two edits of one schedule
are under way at once. Any number of checks and editors and all faults are
allowed. The invariant is that an edit under way takes a slot away only from a
schedule it leaves inactive or without recurrence (`EditsRight`); it is the
hypothesis that makes what an edit has read still true when it writes. Two
editors of one schedule break it, one activating while the other changes the
recurrence, until the backend starts again.

**TaskLaunch.** Rows are handed out in order and each belongs to one launch
(`RowsInOrder`, `RowsOwned`); the row of a task carries its id unless its launch
is excused (`LinkedUnlessExcused`); a task that has looked its run up knows its
own (`TasksKnow`); a marked row is finished (`MarkedIsFinished`).

**BackupGit.** For `PushedIsKept`, follow a version from the device: while a job
is undisturbed, what it has written is in the working files (`FilesKept`), after
its stage in the index or already committed (`StagedKept`), after its commit in
the history of the clone (`CommittedKept`), and a push makes that the history of
the remote. A version is never "no file" (`Versions`), so a pull that fills an
unborn clone overwrites nothing of it. Other jobs may stage and commit the same
files earlier, which is why each part says "here or further on".

`SuccessIsExplained` asks who is to blame when a backup succeeded and its files
are not on the remote. Its property is sharp: for an undisturbed backup that found
nothing to commit, it names another job that was disturbed, was rejected, died, or
has yet to push. The invariant is about the case in which no job at all was
disturbed, rejected or lost (`NoneLost`): then whatever the clone has and the
remote has not is about to be pushed (`LocalAccounted`), and the files of an
unchanged backup are on the remote or in such commits (`UnchangedAccounted`). A
backup that found its clone empty wrote nothing (`EmptyHasNothing`). When
`NoneLost` ends, the job that ended it is the explanation, for good.

A fork stays a fork because both branches
only grow while the clone is not replaced. The refinement of `RemoteHistory` maps
the remote to the history; it rests on a push being a fast-forward.

**AgentCommands.** A command not yet sent is nowhere (`UnsentUntouched`); the
inbox holds distinct commands never executed (`InboxFresh`), the one in hand is
counted when it is finished (`BusyCounted`), and a response in a mailbox has a
result behind it (`ResultsKnown`). `SuccessWasExecuted` follows because a request
takes only the response to its own command.

The refinement of `RemoteCalls` maps the command's row, its result at the agent and
the answer of its request. It says more than the three invariants: a row changes
once only, together with the answer; nothing is executed that was refused for an
absent agent; and what was told stays. It needs that a request that waits has a
pending row (`WaitingIsPending`), and that a command has a result only if it
was executed (`ResultsExecuted`). Its mutant is a request that takes a late answer
after it gave up.

**NetmikoSessions.** An open execution is the one the page waits for or is
abandoned (`OpenIsWatched`); the devices of an answered execution are decided,
each as its mode says, and only devices with an address are connected to
(`DevicesInOrder`); what is shown was answered (`ShownIsAnswered`).

The refinement of `DeviceBatches` maps a device's final state to its outcome and
keeps the page's own two variables. It adds to the invariants what they cannot
say, as they look at one state: an outcome is never revised, and an execution the
page has lost sight of is never shown in place of a later one. It needs that
devices of executions not begun are untouched (`UnaskedIdle`) and that the sync
mode decides all devices at once or none (`SyncAtOnce`). Its mutant is a page that
takes the results of any execution that was answered.

**AuthSession.** The guard is equivalent to an outstanding refresh because every
way out of it, answers and new documents alike, resets both. `SessionKept` needs
that a denied refresh or hydration carried no token and that a denied call whose
token is still current was denied because that token had expired (`RequestsFit`).
`NobodyStays` needs that a tab that is authenticated has a user
(`SignedInHasUser`), which is why an answer with a session must name one.

**Model-checked only.** Liveness (`RunsSettle`, `DueIsServed`,
`LaunchedRunsSettle`, `ExecutionEnds`, `RequestsReturn`, `PageFollowsAgent`,
`FollowsSession`), which needs fairness and ENABLED. Every safety property of a
passing run is stated by a theorem.

## 5. Not modelled

* The 500-run limit of the stale check, and more than one message at a time in
  TLC's instances of the dispatcher.
* Database errors inside the stale check itself: it gives up and the next check,
  ten minutes later, finds the same runs.
* What executors do inside, apart from the backups.
* Calendar arithmetic of `calculate_next_run`, and schedules that are created
  while a behaviour is under way: every schedule exists from the start.
* Tasks that create and mark their own run in sequence (scans, comparisons).
* Git: branch switching, fetch, diffs and file browsing; repositories used for
  templates and inventories; files that a device's configuration path no longer
  names. The two executors differ in whether a push that failed fails the job,
  which `Succeeded` has.
* Agents: the agents other than the Git agent, which are copies of its loop and
  heartbeat with executors of their own; what commands do on their host; and
  signatures (a message that is refused is a message dropped).
* Netmiko: what a command prints; the job that the sync mode starts.
* Session: the exchange with an OIDC provider, permissions; and a navigation inside
  the client that the edge redirects to the login page while a fetch of the
  dashboard is out, which drops the layout and its guard with it.
* The cache loader's check and set of a last-run time (launching a cache refresh
  twice is harmless), and the CheckMK synchronisation dialog; both are listed as
  hazards without a property.
* Backend authentication, RBAC, CheckMK and Nautobot services, inventory,
  templates, settings: stateless translation, single transactions or I/O. The
  reasons are listed per component in `PROJECT.json`.
* The other pages of the client are forms and tables that re-read the server's
  state after each change. Together with the vendored bundles (Monaco editor,
  Swagger UI, ReDoc), which are most of the repository's script lines, they have
  no protocol to model, so the mapped lines are a small share of all script lines.

## 6. What could come next

1. `RunTimes`: `calculate_next_run` over a small calendar, against a reference
   definition of the next point in time (29th to 31st, daylight saving).
2. The composition of `JobSchedules` with `JobDispatch`: from a due slot to a
   settled run.
3. An abstract specification of the session, with a cookie that only logins,
   renewals and logouts change, and the schedules as an abstract service of slots.
4. The CheckMK synchronisation dialog, and templates and inventories as further
   users of a clone.
