# A TLA+ model of Cerebrum

Cerebrum is an identity-management framework: a PostgreSQL database of persons,
accounts, groups and organisational units, with servers, daemons and batch jobs
around it that import from source systems and export to target systems. It is
written in Python. Most of it maps objects to rows under SQL constraints, or
formats files. Its hard part is what happens *around* the database: long-lived
processes that pass work to each other through tables, queues and brokers, with
no locks but the ones they make themselves out of SQL and files.

This directory models that part: TLA+ modules translated from the source, TLC
configurations that check them on small instances, and proofs that TLAPS checks
for every instance. `PROJECT.json` maps each definition to the lines it models.

## Inventory

| Component | State | Operations | Interacts with | What is hard |
|---|---|---|---|---|
| Event log (`modules/EventLog.py`) | `event_log` rows: `taken_time`, `failed`, `tstamp` | write, lock, release, remove, reset, collect | written in `CLDatabase.commit`; read by event daemons; changed by bofhd | locks that record no owner |
| Event daemons (`modules/event`, `servers/event`) | queues of a manager process, a run switch, what each process has in hand | listen, collect, consume, start, stop | event log, PostgreSQL notifications, target systems | concurrency, lost notifications, crashes, restarts |
| Event commands (`event/bofhd_event_cmds.py`) | none | unlock, force, delete | event log | act on rows that are being handled |
| Event publisher (`modules/event_publisher`) | `events` rows | turns changes into messages | change log, event daemon processes, AMQP | merging of changes, retries |
| Task queue (`modules/tasks`) | `task_queue` rows: `nbf`, `attempts`, `payload` | push, pop, merge, retry, report | consumers, processors, bofhd | read-then-write pushes, three transactions per task |
| Task consumers and handlers (`consumers`, `modules/greg`, `modules/no/dfo`, `contrib/*/…process-tasks.py`) | message or task in hand | consume, process | broker, source system, task queue | redelivery, stale data |
| AMQP (`modules/amqp`) | connection, channel | connect, consume, publish | broker | reconnection, callbacks |
| Job runner (`modules/job_runner`, `servers/job_runner`) | job queues, running processes, `job_ran` | schedule, start, reap, reload, socket commands | everything that cron would run | a signal handler and a socket thread that share lists with the main loop |
| bofhd requests (`modules/bofhd_requests`) | `bofhd_request` rows | add, delay, delete, process | bofhd, nightly jobs | conflicts, several processors |
| Change log and database (`CLDatabase.py`, `ChangeLog.py`, `modules/CLHandler.py`, `database/`) | buffered changes, `change_log`, `change_handler_data` | log, commit, rollback, confirm | everything that writes | commit and rollback with side effects |
| Core entities (`Entity`, `Person`, `Account`, `Group`, `OU`) | rows | populate, write, delete | change log | constraints over several tables |
| bofhd (`modules/bofhd`, `servers/bofhd`) | sessions, authorisation rows | XML-RPC calls | core entities | sessions across threads |
| Extensions: e-mail, POSIX, DNS, host policy, traits, consent, quota, guests, expiry | rows | as for core entities | core entities | id allocation |
| AD, Exchange and CIM synchronisation, LDAP, LMS and other exports | none of their own | compare, export | target systems | I/O |
| REST, SOAP, audit, configuration, logging, site-specific scripts | none, or write-only | — | core entities | — |

For each of these, what would make it correct:

* **Event log and daemons.** One event is handled by one worker at a time; it is
  handled at most once unless somebody breaks its lock; it does not disappear
  unhandled; it does not wait for ever; a lock that was left behind on purpose
  stays until an operator acts; what used up its retries stays put.
* **Task queue.** No change that the source announced is forgotten, whatever the
  order in which consumers, processor and operator touch its row; it is imported
  in the end or given up after `max_attempts`; what was given up is not taken up
  again by the processor.
* **Job runner.** A job that is due, or was forced, runs; not twice at a time; not
  before what it was queued behind; not beside a job that excludes it; a lost signal
  delays it and no more. Its schedule fires when a crontab would.
* **bofhd requests.** A request stays until it is carried out or withdrawn; conflicting
  requests are not both pending; two processors do not carry out the same one; none is
  left behind for ever.
* **Change log.** Entries and changes are visible together, exactly if their
  transaction committed; a handler that confirms changes skips none, repeats none that
  it has confirmed, and gets to each in the end.

## Modules

| Module | Models | Kind |
|---|---|---|
| `EventDaemon` | event log, listener, collector, workers, queues, operator, life of the daemon | component |
| `EventLedger` | what the event daemon promises to those who write events | abstract specification |
| `EventDaemonHistory` | `EventDaemon` with a history variable | for a question about retries |
| `EventDaemonProofs` | — | theorems about `EventDaemon` |
| `TaskQueue` | task table, consumers, processor, operator | component |
| `TaskLedger` | what the task queue promises for one key | abstract specification |
| `TaskQueueProofs` | — | theorems about `TaskQueue` |
| `JobRunner` | main loop, command socket, children, lock files, restarts of the job runner | component |
| `JobRunnerProofs` | — | theorems about `JobRunner` |
| `JobTimes` | when a job is due: `times.py`, `Action.next_delta` | algorithm |
| `JobTimesProofs` | — | theorems about `JobTimes` |
| `Requests` | request table, commands, processors, their lock files | component |
| `RequestLedger` | what the request table promises to those who leave a request in it | abstract specification |
| `RequestsProofs` | — | theorems about `Requests` |
| `Changes` | change log, transactions that write it, a change handler that reads it | component |
| `ChangesProofs` | — | theorems about `Changes` |
| `MC…` | — | instances for TLC |

How they fit together: `Changes` is what every program does when it commits. The
event log is written at the same commit, so that `EventDaemon` starts where a commit
of `Changes` ends (`WriteLog`). The job runner starts the jobs that read the change
log, process tasks and carry out requests: `Changes`, `TaskQueue` and `Requests` assume
of it only that a job which ended is started again, which is what `EventuallyRun` of
`JobRunner` is about. `JobRunner` in turn takes from `JobTimes` only that a job becomes
due at some time.

### EventDaemon

One target system. The table is `written` (events ever committed), `table`
(events with a row), and for each row `taken` (`taken_time`), `failed` and `aged`
(`tstamp`). Time is reduced to the comparisons the code makes: `taken_time` is
`"null"`, `"recent"` or `"expired"` (older than `failed_delay`), and a row is
`aged` once it is older than `unpropagated_delay`.

* `WriteLog` is the INSERT at commit with the trigger's `pg_notify`; the
  notification reaches the listener only if its session LISTENs at that moment.
* The **listener** is `DBListener.process`: subscribe, wait and poll, then for each
  notification read the row and push an item to each of its queues. A full queue
  blocks it in the middle of that. If the row is gone, `get_event` raises and the
  process ends (`ListenerNotFound`).
* The **collector** is `EventLogCollector.process`: one query (`Unprocessed`), then a
  push for each row, in any order since the query has none.
* A **worker** is `DBConsumer.handle`: get an item, lock the row in a transaction of
  its own (`Lockable` is the `WHERE` clause), handle the event, remove the row. On
  `EventExecutionException` and `EventHandlerNotImplemented` it releases the row
  with `failed + 1`; on any other exception it keeps the lock.
* `ProducerQueues` models the constructor's `self.queues = fan_out_queues or []`
  and the `append` after it: the list is shared by all producers, so that the main
  queue is on it once for each.
* The **operator** unlocks, forces and deletes at any time.
* `Start`, `Stop` and `Down` are `ProcessHandler`: the joins at the end are bounded by
  a timeout and the processes are daemon processes, which end with a main process that
  exits, so that a worker may die anywhere. `UnlockEvents` is `--unlock-events` of
  `event_publisher`.
* **Failures**: any process, the listener's connection, or the host, at any step.
* A main process that is **killed** (`MainKilled`: a SIGTERM, which it does not handle,
  or a SIGKILL) tells nobody. Its workers are in `orphans` from then on and take the
  same steps as before, beside those of the next `Start`, which knows nothing of them:
  with `--unlock-events` it frees the rows they have in hand. What they are fed by, the
  queues, listener and collector of the killed daemon, is reduced to `stray`, the number
  of copies of each event that may still come off those queues (`OrphanGet`,
  `OrphanCollect`, and `WriteLog` for its notifications). Members of `Workers` that are
  not orphans are the next daemon's, of which there must be one, so that orphans and new
  workers together are no more than `Workers`.

With `IncludeTaken` and `UnlockEvents` the module stands for the Exchange and CIM
daemons (`event_log`) and for the event publisher's daemon (`events`).

`EventLedger` knows only where an event is (`absent`, `pending`, `claimed`, `done`),
how often it was delivered, how often a claim on it was revoked from outside, and
whether it was `discarded` from outside. An event is retired only when it was delivered;
one that goes without it must show up in `discarded`, which the mapping takes from what
the operator has deleted.
`EventDaemon!Ledger` is the refinement mapping: it reads the table and the
histories and nothing of the processes.

### TaskQueue

One queue with its sub-queues. A row is its `attempts`, whether its `nbf` has been
reached, and its payload. `version[k]` counts the changes of a key in the source
system; each sends a message. `seen[k]` is the latest change an import has seen.

* A **consumer** is `TaskHandler` of `consume-tasks`: get the stored task and merge,
  then `sql_push`, which reads the row again and then inserts or updates it, then
  acknowledge. `Pushed` is the set of rows a push can leave: an INSERT fails when
  there is a row by now, an UPDATE when there is none any more, and an UPDATE
  writes only the columns that differ from what was read. A failed push ends the
  process, and the broker delivers the message again.
* The **processor** is `QueueProcessor`: `select_tasks` reads a list, and each task is
  popped by its key, handled, and pushed again if that failed, in three
  transactions. `Fetch` and `ImportDone` are the handler, which looks its key up in
  the source (`DataInPayload = FALSE`) or acts on the payload (`TRUE`).
* `NextRead` and `NextWrite` are the task for a later date that
  `EmployeeTasks.handle_task` queues.
* There is one processor: cron or the job runner starts it and does not start it
  again while it runs.

`TaskLedger` knows of one key how many changes there were, the last one imported, the
last one dropped, and whether the last change is `announced`, `queued` or `settled`.
`TaskQueue!Ledger(k)` is the mapping: `Stage(k)` is `queued` where a row, or a task in
hand, is sure to see the change (`Secured`), `announced` while there is only a message,
and `lost`, which the ledger does not have, where there is neither.

### JobRunner

`known`, `runq`, `forced`, `running`, `started` are the fields of `JobQueue`; `due` and
`fresh` are what `next_delta` and `max_freq` make of `last_run`, and `ran` is the table
`job_ran`. `pc` is where `run_job_loop` is. A child is `forked`, has `checked` the lock
file, has it `locked`, `runs`, or has ended and is to be reaped.

* A **round of the main loop** is: `LoopTop`, reap (`Reap` and its exceptions, from a
  snapshot of the running jobs), the forced queue by index while jobs are taken out of
  it (`RunForced`), `get_next_job_time` (`FillStart`, `FillJob`, `FillVisit`, `FillAdd`,
  `FillDone`), the copy of the queue (`CopyQueue`), one step for each job on it
  (`ProcessJob`, `ProcessHeldBack`, `ProcessPaused`), reap again, and `Sleep`.
* `insert_job` is recursive. It is shared by the main loop and the socket thread, which
  may interleave, so that each thread has a `stack` of the visits and the appends still
  to come, and the set `_already_checked`.
* `FillDone` assigns the list that was built in place of the old one. What the socket
  thread still inserts goes to the old list, so that its stack is dropped; its signal
  at the end can only wake the loop early, which the timer does as well.
* `HasQueuedPrerequisite` is the recursion over pre- and post-jobs as a closure (`Reach`).
  Where the recursion runs into a cycle over post-jobs and no job on it is queued or
  running, it does not end (`Endless`), and the main loop dies of it.
* A **child** checks and writes its lock file in two steps (`ChildCheck`, `ChildLock`).
  `raced` remembers the jobs of which two children were between the two.
* `Root` are the jobs that run as another user (with `sudo`, as a comment at
  `__init__.py:147` expects). The runner may not signal them: `acquire` takes any
  `OSError` of `os.kill(pid, 0)` for a dead process, so that the lock of such a job counts
  as free (`LockFree`), and `kill_running_jobs` passes over it (`Signallable`).
* **Signals** end a pause and are lost otherwise (`Signalled`); `Sleep` starts the timer.
* Wherever the code looks up a job that a reload has removed, the main loop ends with
  an exception (`ReapUnknown`, `ReapForgotten`, `ForcedUnknown`, `CountUnknown`,
  `ProcessUnknown`, `FillUnknown`, and `ProcessDone` for a `delta` without a value).
  `Gone` is what remains: children run on (`Orphans`), and the next `Start` finds their
  lock files.
* `Reloaded` is one step. In the code the socket thread resets `last_run` first and reads
  `job_ran` a moment later, so that the main loop may see a job as due in between; here a
  reload makes jobs due or not in one go.

### JobTimes

`Round` is the body of the loop in `Time.next_time`, on a clock of weekday, hour and
minute; `NextTime` repeats it at most `Tries` times, from `Start(prev)` on. The lengths of week, day, hour and
minute are constants, so that a whole scaled week can be enumerated. `Fires` is the
reference: a crontab matches at that second.

### Requests

`table` is `bofhd_request` for one entity: conflicts are between requests of one entity,
and processors treat all alike. Time is reduced to whether `run_at` has passed.

* `AddCheck` and `AddCommit` are `add_request` up to the INSERT, and the INSERT with the
  commit of the command: between them other commands commit. `misc_change_request`
  is the same with a request that it deletes. Requests are numbered as they become
  visible; the code takes the id from a sequence just before the INSERT, so that two
  commands may commit out of that order. Nothing compares ids but for equality.
* A **processor** lists the requests of an operation, checks one, gives its old lock
  back (`LOCK_UN`, then `Unlink` by name), opens the file of the new one, and locks it.
  Lock files have inodes, since `flock` locks the inode and `os.unlink` removes the
  name: two processors may have different files of the same name. A file that cannot be
  opened or locked for another reason is passed over (`LockFails`).
* The handler returns true, returns false or raises; a processor may be killed. When it
  returns false, the request of a `Delayed` operation is put off, which raises if it is
  gone; that of any other is left as it is. `opOf` remembers the operation of a request
  whose row is gone.

`RequestLedger` knows of a request whether it is `absent`, `pending`, `done` or
`withdrawn`, and how often it was carried out. The mapping reads the table and the
histories, and nothing of commands, processors and files.

### Changes

`LogChange` buffers, `WriteLog` takes an id and inserts a row (one round of its loop),
`Commit` makes rows and changes visible, `Rollback` drops both. Rows become visible
in the order of the commits and not of the ids. A session of the job is `GetEvents`,
`ReadGap` for each range, `Handle` or `HandleFails` for each event in any order, and
`Finish`; `CommitConfirmations` in between is what the AD quick sync does after each
event. `NewRanges` is `commit_confirmations`: instead of the iteration with `groupby` it
says which pairs of ids the loop appends.

## Runs

| Run | Instance | Shows |
|---|---|---|
| `event_safe` | one event, two workers, queue of 1, one failure (which may be the main process alone), one command, two starts with `--unlock-events`, one stray copy | `ExclusiveHandling`, `AtMostOncePerUnlock`, `NoLostEvent`, `ExhaustedStaysExhausted`, `StuckStaysStuck`, `LockInv`, and that the daemon implements `EventLedger` |
| `event_live_loss` | one event, two workers, queue of 1, one failure | `EventuallySettled` when a notification, the listener, a worker or the main process is lost |
| `event_tried` | two queues, fan-out | an event is given up unhandled (finding) |
| `task_safe` | one key, two consumers, one failure, one command | `NoLostChange`, `GivenUpForGood`, the invariant `ImportInv` of the proofs, and that each key goes through the stages of a `TaskLedger` |
| `task_live` | one key in two sub-queues, next tasks, one failure | `EventuallyImported` |
| `task_payload` | data in the payload | an updated payload is dropped (finding) |
| `job_safe` | a job with a service as its post-job that runs as another user, each excluding the other, two configurations, two children, two commands or restarts | `NotTwice`, `NoGhost`, `NoConflict`, `OwedInv`, `PrerequisitesDone` |
| `job_live` | a chain of three jobs, one of them without a call, one command or restart, a timer that may fire before the pause | `KeepsMaxParallel`, `EventuallyRun` |
| `job_times` | a week of 3 days of 2 hours of 3 minutes of 2 seconds, all settings with at most two values of a kind | `FindsFirstFiring`, `DueFromFiringOn` |
| `requests` | one operation, two commands, two processors, two requests, two failures (also of a lock file), one change or cancellation | `EachAccountedFor`, `ConflictsOnlyRaced`, `LockInv`, `ExclusiveUnlessTorn`, `RepeatsBounded`, `EventuallySettled`, and that the table implements `RequestLedger` |
| `changes` | two writers, three changes, four ids, one failure, one removed entry | `EntriesMatchChanges`, `CoveredIsHandled`, `ConfirmedForGood`, `NotHandledAgain`, `EventuallyConfirmed` |
| `cl_skip` | the same | an entry that is committed late is skipped (finding) |

Each run but the three findings also checks the type invariant of its module, where
it does not only ask for liveness.

**Bounds.** One event is enough for the lock protocol, since no statement of the code
touches two rows except those that treat them alike (the collector's query,
`event_force_all`, `--unlock-events`). Two workers are the fewest that can conflict, and
two copies of an item arise from the listener and the collector. Queues of length 1
make both producers block. One stray copy of an event (`MaxStray`) lets a worker that
was left behind get it again after it came back, as often as its collector finds it.
For tasks, two consumers and the processor are all the
kinds of writers there are, twice the kind that can conflict with itself;
`MaxAttempts` 2 has a retry and a last attempt; two changes are the fewest in which a
later one can overtake an earlier one.

For the job runner, two children are the fewest that can race for a lock file or
exclude each other, and two events are enough for a command that meets a restart, a
forced job beside a scheduled one, or the same job forced twice. One of the two jobs
runs as another user, so that both kinds of lock file are there. The scaled week has
every wrap (minute, hour, day, week) and settings before, at and after each; the ten
rounds are those of the code, and a week of `MaxWait` covers a job that fires once a
week. For requests, two commands and two processors are the fewest that can race; two
requests let a processor give one lock back and take another, and `MaxPerPass` 1 is
used up by the first. For changes, three entries are the fewest in which a range has a
hole with something confirmed on each side, and the fourth id is for one that was
rolled back. Counters (`MaxOps`, `MaxFaults`, `MaxStarts`, `MaxEvents`, `MaxChanges`,
`MaxRequests`, `MaxId`) bound what comes from outside. The proofs hold for every value of
these bounds. The largest runs are `job_safe` and `event_safe` with about two million
distinct states each (2.2 and 1.65), then `requests` with 420,000 and `job_live` with 190,000.

**Deadlock** is not checked: each of these systems may rest, with everything done or
given up and the bounds on the environment used up.

**Fairness.** `EventDaemon!Fairness`: time passes (`TstampAges`), and a process that
can take a step does so in the end; a handler returns or raises. The operating
system and PostgreSQL give this to each process on its own. No fairness is assumed
of writers, operators, failures, starts and stops, nor of `TakenTimeAges`.
`EventuallySettled` is conditional on a live collector and a live worker for each
queue, since the code restarts neither. `TaskQueue!Fairness`: time passes, the
broker delivers and redelivers, cron runs the processor again; nothing is assumed
of changes, crashes and the operator, nor that an import succeeds.
`JobRunner!Fairness`: the main loop, the socket thread and each child go on, the timer
fires, and a job ends (`max_duration` sees to it); nothing is assumed of commands,
kills and starts. `EventuallyRun` speaks of a runner that is up, not paused and not
about to quit, and in which no jobs have raced for a lock file. It says that a job is
*run* (it has a child, or is a service that is there already), not only that it leaves
its queue, and names what can keep it from that: the list to which `RUNJOB` has added it
is replaced (`OverwritesInsertion`), or the timer has fired before the pause, after which
the loop waits for another signal (`timer = "fired"` in `Working`). `Requests!FairSpec`:
a processor that can go on does, and processors are started again (cron); what was
delayed becomes due; handlers fail only so often. `Changes!FairSpec`: the job is run
again and a run comes to an end; nothing is assumed of writers.

## Findings

* With fan-out, workers that do not implement an event use up its retries
  (`event_tried`).
* Where the data is in the payload, an update between `select_tasks` and `pop_task` is
  lost (`task_payload`).
* A change whose entry is committed after one with a greater id was confirmed is
  never returned to that change handler (`cl_skip`). `CoveredIsHandled` shows that this
  is the only way in which an event is skipped.

Seen on the way and not given a run:

* Events. `failed_delay` never applies, because `release_event` clears the column by
  which it is measured (`EventLog.py:222`). `EventLogListener._build_event` lets
  `NotFoundError` end the listener while the daemon runs on (`evhandlers.py:404`);
  events then wait for the collector. `lock_event` does not look at `failed_limit`, so
  that a copy queued earlier can fail once more than the limit. A main process that is
  killed leaves its workers at work; a restart with `--unlock-events` frees the rows they
  have in hand, and two workers then handle one event (`event_publisher.py:56`,
  `evhandlers.py:156`). `ExclusiveHandling` counts this in `early`, and shows that it takes
  this or an `event_unlock`.
* Tasks. A retry task overwrites the fresh task of a message that came in between, with
  its attempts (`queue_processor.py:161`). Exactly one abandoned task in a sub-queue is
  not reported (`queue_handler.py:118`, `count > 1`). A task that was put off after it had
  been selected is handled early; the next task of `EmployeeTasks` can put off a task
  that a message has made due.
* Job runner. What `RUNJOB` inserts with dependencies is lost if `get_next_job_time`
  replaces the list meanwhile (`queue.py:336`), though it was answered "Added … to queue
  with dependencies" (`socket_ipc.py:219`). The same command before the first round
  leaves `delta` without a value, which ends the loop (`__init__.py:278`). After a race
  for a lock file `_cleanup` fails to remove it, and the job is taken to be running for
  ever. The lock file of a job that runs as another user does not protect it
  (`job_actions.py:188`): a forced run starts beside the one under way, or beside one that
  a crashed runner has left, and the `_cleanup` of the second to end fails in the same
  way. The jobs of a crashed runner are not among the running jobs of the next one, which
  may start a job beside one that excludes it (`queue.py:384`). A reload that removes a running job ends the loop (`__init__.py:113`,
  `call` is `None`), although `job_done` provides for it (`queue.py:275`). With a short
  `delta` the timer may fire before `signal.pause()`, and the loop then sleeps until a
  child or a command wakes it. An `AssertRunning` job that runs already and was started
  before stays in the queue and holds back what depends on it. A cycle over post-jobs
  is not found by `check_cycles` (`job_actions.py:451`); with C a post-job of
  B and B a pre-job of C, `has_queued_prerequisite` for a job behind B recurses until Python gives up,
  and the runner ends (`queue.py:192`). After a timeout of the socket
  `run_daemon` starts a second runner beside the first, without the master lock
  (`job_runner.py:140`).
* Schedules. A `Time` with minutes and weekdays but no hours fires outside of its
  weekdays (after Sunday 23:45 at Monday 00:30 for `wday=[6]`), and one with hours only
  fires at the minute of the last run; `times.py:89` says "Emulate time part of
  crontab(5), None=*". This is why `FindsFirstFiring` is about settings that are `Exact`.
  A `Time` with nothing given raises `ValueError`, and so may one with `max_freq` when
  that reaches across the end of a week (`times.py:141`). `delta_to_leave` returns `None`
  where it does not apply, which Python 3 does not compare with 0.
* Requests. Two processors can carry out one request, after one has removed the lock
  file that the other had opened (`process_requests.py:133` knows of a race and takes it
  to be harmless); `ExclusiveUnlessTorn` shows that there is no other way. The second of
  two unlinks fails and ends a processor. Two commands at the same time can leave two
  requests of one operation, though "there can only be one of each op"
  (`request.py:69`). The conflicts are not symmetric. `misc_change_request` can add a
  request again that was completed meanwhile. A handler that raises keeps the requests
  behind its own from being reached in that pass, and failing requests use up
  `max_requests`. `MoveStudentProcessor` takes no lock.
* Changes. `values.next()` in `commit_confirmations` is Python 2 only.

## Proofs

`EventDaemonProofs` holds for all sets of events, workers and queues, all
capacities and all bounds, from `ConstantsAssumption` alone (the set of workers is
finite, the main queue is a queue, and so on).

* `TypeCorrect`: `Spec => []TypeOK`. `TypeOK` is inductive; the lemmas go through the
  actions of one process at a time, and `UnchangedTypes` carries the parts that a step
  leaves alone.
* `LockInvariant`: `Spec => []LockInv`. None of the safety properties is inductive:
  that a worker may lock a row whose `taken_time` is NULL without a second one being at
  work depends on how the row came to be NULL. `LockInv` counts. `Claims(e)` is 1 while
  the row is taken or gone and 0 while it is free. The workers between lock and
  return number at most `Claims(e) + early[e]` (`HolderBudget`); the completed handlings
  and those still under way number at most `Claims(e) + unlocks[e]` (`EffectBudget`).
  Locking moves the claim from 0 to 1 and adds one holder; releasing does the
  reverse; an unlock, by the operator or by a start with `--unlock-events`, lowers the
  claim and raises the history, `early` too where it hits a holder, such as a worker that
  a killed main process has left behind; a crash only lowers the count of holders, and a
  killed main process leaves it as it is. `RemovedAfterEffect` says a worker about to remove
  the row has completed a handling, which gives `NoLostEvent`.
* `Exclusive`, `AtMostOnce`, `NothingLost` follow from `LockInv`; `StuckUntilOperator` and
  `ExhaustedUntilOperator` (`ExhaustedStaysExhausted`) are case analyses on the actions.
  The latter is about an event of which no copy is queued or in hand, in this daemon or
  in one that was killed: `lock_event` does not look at the limit, and a copy can be
  tried once more.
* `Refinement`: `Spec => ImplementsLedger`. `LedgerStep` shows that each step is a step of
  `EventLedger` or leaves its variables alone; `EffectBudget` supplies the guards of
  `Deliver` and `GiveBack`, and `RemovedAfterEffect` that of `Retire`.

`TaskQueueProofs` holds for all keys, sub-queues, consumers and bounds, from
`TaskConstants` alone.

* `TypeCorrect`: `Spec => []TypeOK`. `TypeOK` says that a consumer at work has a message
  in hand that the broker keeps, which is inductive only together with `HandsApart`: an
  acknowledgement must not take the message of another consumer away.
* `AbandonedStaysAbandoned`: `Spec => GivenUpForGood`. The processor works from a list
  that it read earlier, so that the property needs `GiveUpInv`: a task on the list, or in
  hand, has not been given up since, and no task is both. `PushedRow` says what a push
  can leave behind, whatever it had read.
* `NothingForgotten`: `Spec => []NoLostChange` where `DataInPayload` is `FALSE` (with
  `TRUE` it does not hold: see `task_payload`). `NoLostChange` is not inductive, since a
  consumer leaves a row alone, and acknowledges its message, because of what it has
  read before. `ImportInv` adds that whatever such a consumer relies on is `Secured`,
  and `SecuredStays` that what is secured stays so: a row that is popped is in hand, a
  task in hand is imported or put back, and if putting it back fails then because
  somebody else has put a row there. `Secured` is stronger than what `NoLostChange` asks
  for at one point: a processor that is about to UPDATE a row can find it removed, so
  that there the row itself must be the reason.
* `Refinement`: `Spec => ImplementsLedger`, also where `DataInPayload` is `FALSE`. `ImportInv`
  excludes the stage `lost`; `StageStep`, from `SecuredStays`, that a step takes a change
  back from `queued` to `announced`. `NotAhead` adds what the guard of `Import` needs: what
  the processor has fetched, has seen or has dropped is not newer than the source.

`JobRunnerProofs` holds for all jobs, configurations, limits and numbers of children,
from `JobConstants` alone.

* `TypeCorrect`: `Spec => []TypeOK`, one lemma for each of the actions' groups, and
  frames for the variables that a step leaves alone.
* `RunsOnce` (`NotTwice`) and `NoGhosts` (`NoGhost`) rest on `LockFilesCorrect`: a process
  that has written the lock file of its job is the one that the file names until it is
  reaped (`LockHeld`), and no other is past the check (`OneHolder`), where no race has
  taken place and the job does not run as another user (`RootJobs`: only the jobs of
  `Root` have such children). `NotTwice` alone is not inductive: that the file is still
  there when a second child checks it depends on nobody else having removed it. That the
  schedule starts no job twice holds of those too, and not because of the lock files but
  because a running job is held back (`ScheduledOnce`).
* `ConflictsKeptApart` (`NoConflict`, over all children that live, with those of a runner
  that is gone excepted by name) follows from `ScheduledApart`, which speaks of the
  running jobs; that and `ParallelJobsBounded` (`KeepsMaxParallel`) are inductive.
  `RunningEffects` says how a step may change the running jobs.
* `OwedJobsKept` (`OwedInv`) and `PrerequisitesFirst` (`PrerequisitesDone`): `QueueInv` adds
  to `OwedInv` that the same holds of the list that `get_next_job_time` is building
  (`WorkOwed`), and that what a job waits for is among what `has_queued_prerequisite`
  looks at (`OwedBefore`). A job that is started has none of those queued or running.

`RequestsProofs` holds for all operations, conflicts, commands, processors and bounds,
from `RequestsAssumption` alone (among others, that processors are finitely many).

* `TypeCorrect`, and `AccountedFor` (`EachAccountedFor`), which is inductive.
* `ConflictsRaced`: `SeenInv` adds what holds between the check and the INSERT: of the
  requests that a command has seen, those still there do not stand in its way.
* `LockInvariant` (`LockInv`): the processor that works has its inode locked, nobody has
  it locked while it wants another, and an open file is the one of that name unless
  the name was removed while it was open. `Exclusive` (`ExclusiveUnlessTorn`) follows.
* `Repeats` (`RepeatsBounded`): the property bounds the completions of a request by the
  number of processors and is not inductive. `RepeatInv` counts: a request still in the
  table has not been completed, and its completions and the processors that have it in
  hand are together no more than there are processors. A completion takes the request
  out of one hand, and after the first nobody can take it up any more.
* `Refinement`: `Spec => ImplementsLedger`. Each step is one of `RequestLedger` or leaves
  its variables alone; `RepeatInv` gives the guards of `Complete` and `Repeat`.

`JobTimesProofs` holds for every length of week, day, hour and minute and for all
settings, from `JobTimesAssumption`: there are at least four tries (the code has ten), no
list of times is empty, and so on. As in the run, what the search finds is claimed
for settings that are `Exact`.

* `TypeCorrect`: `Spec => []TypeOK`.
* `FirstFiringFound` (`FindsFirstFiring`): what `next_time` returns is the first second after
  the last run at which a crontab fires. The invariant of its loop, `Reached`, says that
  the clock is past the start and that nothing fires before it. `RoundFinds` shows that a
  round that ends the loop ends it at a firing; `RoundDay`, `RoundHour` and `RoundMin` that
  any other moves the clock on over seconds at which nothing fires. `RoundOutcome` says
  what is right afterwards: after the minute has been moved it fits, then the hour, then
  the day (`AfterMinute`, `AfterHour`, `AfterDay`), so that the fourth round ends the loop
  (`FourTurns`). The code's ten tries are thus more than are ever used. This takes no
  induction over the rounds; where one over times was needed, the least counterexample is
  taken instead (`LeastNatural`, from the library's `WFMin`).
* `DueAfterFiring` (`DueFromFiringOn`): `next_delta` tells that a job is due exactly from
  the first such firing of any of its times on, unless its `notwhen` applies.

`ChangesProofs` holds for all writers, changes and bounds, from `ChangesAssumption` alone.

* `TypeCorrect`, and `EntriesCorrect` (`EntriesMatchChanges`): `IdsInv` (an id is in one
  row), `DirtyInv` (a transaction has its changes to itself) and `MessageInv` (each of
  them has one message or one row) make it inductive.
* `OnlyHandledCovered` (`CoveredIsHandled`): `RangeShape` and `NewWellFormed` say what
  `NewRanges` returns, without induction over ids but by least and greatest elements
  (`HasLeast`, `HasGreatest`). `ReadInv` says that `get_events` has sent everything owed
  up to its last point that no range covers; with `CoveredUpTo` the new ranges then
  cover only what is confirmed or was covered.
* `ConfirmationsKept` (`ConfirmedForGood`) and `ConfirmedNotRepeated` (`NotHandledAgain`):
  `OldStayCovered` and `MoreCovered`, and `KeepInv` for a session that commits more than
  once.

Only model-checked: liveness (`EventuallySettled` of both modules,
`EventuallyImported`, `EventuallyRun`, `EventuallyConfirmed`), which the prover does not
reach. Every other property of a run that passes is a theorem.

## Not modelled

The repository has some 300,000 lines. The modules above cover those of its parts in
which several processes or threads share state, or in which an algorithm is hard to
test: about 15,000 lines with what surrounds them. The rest has no state machine to
check, which is why most of it stays out, and why the share of the whole that is
mapped is small:

* **Commands of bofhd and of the sites** (`bofhd_uio_cmds.py`, `bofhd_email.py`,
  `bofhd_virthome_cmds.py`, `bofhd_tsd_cmds.py` and others, far more than a third of the
  code): each checks its arguments and an authorisation, and writes rows in one
  transaction. What it can get wrong is the rule for one kind of row, which a model
  would repeat and not check.
* **Core entities and extensions** (`Entity`, `Account`, `Group`, `Email`, `PosixUser`,
  DNS, traits, quota): objects that are mapped to rows, under constraints that the
  database enforces.
* **Imports and exports** (AD, LDAP, LMS, student and staff systems, the scripts under
  `contrib`): one process that reads everything, compares and writes; dominated by
  formats and I/O.
* **Protocol code** (`winrm.py`, XML-RPC, REST and SOAP, AMQP): talks to peers that are
  not in the repository.
* **Event publisher's messages**: the conversion of changes to SCIM messages.

Within the modelled parts:

* What handlers, imports, jobs and requests do: outcomes only.
* Dry-run mode; `--limit` of the processors.
* Several target systems in one table: they do not share rows.
* The order of notifications of one commit beyond that of the sequence.
* Event daemon: which of its queues a worker that was left behind reads, and how many
  more workers than `Workers` there are with it.
* Job runner: a second runner beside the first; the moment within a reload between the
  reset of `last_run` and the reading of `job_ran`; the health monitor; commands that
  only show something; a pid that is used again while a lock file names it.
* Schedules: `When.freq`, `Time.max_freq`, changes between summer and winter time.
* Requests: `MoveStudentProcessor`, listing, `bofh_move_give`.
* Changes: `update_log_event`, `skip_change`, ranges that an operator sets
  (`--force-last-id`), two jobs under one key (`ADSync.py:640` forbids it).

## Plan

1. `EventDaemon`, `EventLedger`, `TaskQueue`, their runs and proofs. *Done.*
2. `JobRunner`, `JobTimes`, `Requests`, `Changes`, their runs and proofs. *Done.*
3. `JobTimesProofs`; `RequestLedger` and `TaskLedger`, and that `Requests` and `TaskQueue`
   implement them. *Done.*
4. Abstract specifications that `JobRunner` (a job is idle, queued or running) and
   `Changes` (an entry is pending or confirmed) implement.
5. The sessions of bofhd, and the allocation of POSIX ids, if they turn out to have
   more than one row's worth of state.
