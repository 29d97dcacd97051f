----------------------------- MODULE JobRunner -----------------------------
(***************************************************************************)
(* job_runner, the scheduler that runs Cerebrum's batch jobs: the main     *)
(* loop with its two queues, the thread that takes commands from a socket, *)
(* the children that the main loop forks, and the lock files by which they *)
(* keep a job from running twice.                                          *)
(*                                                                         *)
(* The main loop sleeps in signal.pause() until a timer thread, a child    *)
(* that ends or a command sends it a signal; a signal that comes before    *)
(* the pause is lost.  The socket thread changes the same lists without a  *)
(* lock.  Between two statements of one thread the other may run: a step   *)
(* is what one thread does up to the next place where that can be noticed. *)
(*                                                                         *)
(* Time is abstracted to which jobs are due and which have run within      *)
(* their max_freq.  A pid is not used again while a lock file names it.    *)
(***************************************************************************)
EXTENDS SequencesExt

CONSTANTS
    Jobs,           \* the names of all jobs
    Kind,           \* "wait" (System), "nowait" (AssertRunning), "none"
    Pre, Post,      \* the jobs before and after a job, as sequences
    Timed, Repeated,\* jobs with a time-based, a frequency-based When
    MultiOk,        \* jobs that may be queued more than once
    Limited,        \* jobs with a max_freq
    Nonconcurrent,  \* the jobs that hold a job back while they run
    Root,           \* jobs that the command runs as another user (sudo)
    Configs,        \* sets of jobs that a configuration can define
    MaxParallel,    \* JOB_RUNNER_MAX_PARALELL_JOBS
    ShortDelta,     \* the next job can be due before the main loop pauses
    Procs,          \* pids, and a bound: children at a time
    MaxEvents       \* bound: commands, and starts after the first

\* What Jobs.validate and Jobs.check_cycles assure of a configuration.
ASSUME JobConstants ==
    /\ Jobs # {}
    /\ Kind \in [Jobs -> {"wait", "nowait", "none"}]
    /\ Pre \in [Jobs -> Seq(Jobs)]
    /\ Post \in [Jobs -> Seq(Jobs)]
    /\ Timed \cup Repeated \cup MultiOk \cup Limited \cup Root \subseteq Jobs
    /\ Nonconcurrent \in [Jobs -> SUBSET Jobs]
    /\ Configs \subseteq SUBSET Jobs
    /\ \A c \in Configs : \A j \in c :
          ToSet(Pre[j]) \cup ToSet(Post[j]) \subseteq c
    /\ MaxParallel \in Nat
    /\ ShortDelta \in BOOLEAN
    /\ IsFiniteSet(Procs) /\ "none" \notin Procs /\ "stale" \notin Procs
    /\ MaxEvents \in Nat

VARIABLES
    \* JobQueue
    known,      \* the keys of _known_jobs
    runq,       \* _run_queue
    forced,     \* _forced_run_queue
    running,    \* the pids in _running_jobs
    started,    \* the keys of _started_at: jobs that are not waited for
    due,        \* next_delta <= 0
    fresh,      \* last_run less than max_freq ago
    ran,        \* the rows of job_ran: jobs of which the time matters
    \* run_job_loop
    pc,
    todo,       \* children to look at: <<pid, the job has a call>>
    again,      \* did_wait or completed_nowait_job
    idx,        \* the index of the loop over the forced queue
    append,     \* the argument of get_next_job_time
    scan,       \* jobs that it has still to look at
    work,       \* the queue that it builds
    batch,      \* the copy of the run queue that is being processed
    delta,      \* delta has a value
    timer,      \* timer_wait: "off", "on", "fired"
    paused,     \* queue_paused_at > 0
    quit,       \* _should_quit
    \* insert_job, by thread
    stack, checked,
    \* the children and their files
    proc,
    lock,       \* the lock file: "none", "stale", or the pid in it
    files,      \* run_dir with stdout.log and stderr.log exists
    \* history
    owed,       \* what a queued job waits for, since it was queued
    workOwed,   \* ... in the queue being built
    raced,      \* jobs of which two children checked the lock at a time
    events

jobVars == <<known, runq, forced, started, ran, running, due, fresh, owed>>
loopVars == <<todo, again, idx, append, scan, work, batch, delta, workOwed>>
sleepVars == <<pc, timer>>
commandVars == <<paused, quit, stack, checked, events>>
childVars == <<proc, lock, files, raced>>
vars == <<jobVars, loopVars, sleepVars, commandVars, childVars>>

Threads == {"main", "socket"}
Item == {"visit", "add"} \X Jobs
Live == {"forked", "checked", "locked", "runs"}
Reaping == {"reap1", "reap2", "reap3", "reap4"}

\* root: the process belongs to another user, and os.kill fails with EPERM
Child == [st : Live \cup {"none", "ok", "failed"}, job : Jobs, forced : BOOLEAN,
          root : BOOLEAN]
NoChild == [st |-> "none", job |-> CHOOSE j \in Jobs : TRUE, forced |-> FALSE,
            root |-> FALSE]

\* last_run is read for jobs with a When or a max_freq, and the keys of _started_at when
\* a job that is not waited for is done.
Clocked == Timed \cup Repeated \cup Limited
NotWaitedFor == {j \in Jobs : Kind[j] = "nowait"}

Event == events < MaxEvents /\ events' = events + 1

Known(j) == j \in known
Queued(j) == j \in ToSet(runq)
RunningJobs == {proc[p].job : p \in running}

-----------------------------------------------------------------------------
(* Order of jobs.                                                            *)

Neighbours(j) == ToSet(Pre[j]) \cup ToSet(Post[j])

\* Everything that has_queued_prerequisite comes to from a set of jobs.
Reach(S) == {k \in Jobs : \A T \in SUBSET Jobs :
                (S \subseteq T /\ \A x \in T : Neighbours(x) \subseteq T) => k \in T}

PreReach == [j \in Jobs |-> Reach(ToSet(Pre[j]))]

\* check_cycles looks at the pre-jobs only: B before C and C after B is a cycle of
\* has_queued_prerequisite.
Cyclic == {k \in Jobs : k \in Reach(Neighbours(k))}

\* The jobs that a job has to wait for while they are queued or run.
Before == [j \in Jobs |-> PreReach[j] \cup {m \in Jobs : j \in ToSet(Post[m])}]

\* Mutant: a job that is queued and could not be started is not waited for
HasRunningPrerequisite(j) == \E k \in Before[j] \cup {j} : k \in RunningJobs

HasQueuedPrerequisite(j) ==
    \/ j \in RunningJobs
    \/ \E k \in Before[j] : Queued(k) \/ k \in RunningJobs

\* Mutant: only jobs that are waited for are looked at
HasConflictingWaitJobs(j) ==
    \E p \in running : /\ Kind[proc[p].job] = "wait"
                        /\ proc[p].job \in Nonconcurrent[j]

HasConflictingJobsRunning(j) == RunningJobs \cap Nonconcurrent[j] # {}

NumRunning == Cardinality({p \in running : Kind[proc[p].job] = "wait"})

-----------------------------------------------------------------------------
(* The main loop ends: by an exception that nobody catches, or by a signal.  *)

\* The memory of the process is gone; its children live on, and those that have ended
\* are reaped by init.
Gone ==
    /\ runq' = <<>> /\ forced' = <<>> /\ running' = {} /\ started' = {}
    /\ todo' = {} /\ again' = FALSE /\ idx' = 1 /\ append' = FALSE
    /\ scan' = {} /\ work' = <<>> /\ batch' = <<>> /\ delta' = FALSE
    /\ timer' = "off" /\ paused' = FALSE /\ quit' = FALSE
    /\ stack' = [t \in Threads |-> <<>>]
    /\ checked' = [t \in Threads |-> {}]
    /\ owed' = [j \in Jobs |-> {}] /\ workOwed' = [j \in Jobs |-> {}]
    /\ proc' = [p \in Procs |-> IF proc[p].st \in Live THEN proc[p] ELSE NoChild]
    /\ lock' = [j \in Jobs |->
                  IF lock[j] \in Procs /\ proc[lock[j]].st \notin Live
                  THEN "stale" ELSE lock[j]]
    /\ UNCHANGED <<known, ran, due, fresh, files, raced>>

Dies == pc' = "dead" /\ Gone /\ UNCHANGED events

Killed ==
    /\ pc \notin {"down", "dead"}
    /\ pc' = "down"
    /\ Gone
    /\ UNCHANGED events

\* _add_known_job forgets when a job has run; job_ran has it, if it has run.  The
\* window between the two, in which the main loop may run, is left out.
Reloaded(new) ==
    /\ known' = new
    /\ due' = ((new \cap Repeated) \ ran) \cup (due \cap ran)
    /\ fresh' = ((new \cap Timed \cap Limited) \ ran) \cup (fresh \cap ran)

\* run_daemon.  Another server does not start while this one answers.
Start ==
    /\ pc \in {"down", "dead"}
    /\ Event
    /\ \E c \in Configs : Reloaded(c)
    /\ pc' = "loop"
    /\ UNCHANGED <<runq, forced, started, ran, running, owed, loopVars, timer, paused,
                   quit, stack, checked, childVars>>

-----------------------------------------------------------------------------
(* Signals.                                                                  *)

\* A signal reaches the main thread: it ends a pause, and does nothing otherwise.
Signalled ==
    /\ pc' = IF pc = "pause" THEN "loop" ELSE pc
    /\ timer' = IF pc = "pause" THEN "off" ELSE timer

\* wake_runner_signal in the timer thread
TimerFires ==
    /\ pc = "pause" /\ timer = "on"
    /\ Signalled
    /\ UNCHANGED <<jobVars, loopVars, commandVars, childVars>>

-----------------------------------------------------------------------------
(* The children: System.execute after the fork.                              *)

\* There is no lock file, or os.kill of the pid in it fails: there is no such process,
\* or it belongs to another user.
LockFree(j) == lock[j] \in Procs => proc[lock[j]].root

\* Mutant: the lock file is only looked at, not the process in it
ChildCheckIgnoresLock(p) ==
    /\ proc[p].st = "forked"
    /\ proc' = [proc EXCEPT ![p].st = "checked"]
    /\ UNCHANGED <<jobVars, loopVars, sleepVars, commandVars, lock, files, raced>>

\* lockfile.acquire looks for a lock file of a living process, ...
ChildCheck(p) ==
    LET j == proc[p].job
    IN  /\ proc[p].st = "forked"
        /\ LockFree(j)
        /\ proc' = [proc EXCEPT ![p].st = "checked"]
        /\ raced' = IF \E q \in Procs : proc[q].st = "checked" /\ proc[q].job = j
                    THEN raced \cup {j} ELSE raced
        /\ UNCHANGED <<jobVars, loopVars, sleepVars, commandVars, lock, files>>

\* Mutant: the name of the job is written, not the pid
ChildLockName(p) ==
    /\ proc[p].st = "checked"
    /\ proc' = [proc EXCEPT ![p].st = "locked"]
    /\ lock' = [lock EXCEPT ![proc[p].job] = proc[p].job]
    /\ UNCHANGED <<jobVars, loopVars, sleepVars, commandVars, files, raced>>

\* ... and writes its own.
ChildLock(p) ==
    /\ proc[p].st = "checked"
    /\ proc' = [proc EXCEPT ![p].st = "locked"]
    /\ lock' = [lock EXCEPT ![proc[p].job] = p]
    /\ UNCHANGED <<jobVars, loopVars, sleepVars, commandVars, files, raced>>

ChildExec(p) ==
    /\ proc[p].st = "locked"
    /\ proc' = [proc EXCEPT ![p].st = "runs", ![p].root = proc[p].job \in Root]
    /\ files' = [files EXCEPT ![proc[p].job] = TRUE]
    /\ UNCHANGED <<jobVars, loopVars, sleepVars, commandVars, lock, raced>>

\* The process ends.  The runner gets a SIGCHLD for a child of its own.
Ends(p, result) ==
    /\ IF p \in running
       THEN /\ proc' = [proc EXCEPT ![p].st = result]
            /\ Signalled
            /\ UNCHANGED lock
       ELSE /\ proc' = [proc EXCEPT ![p] = NoChild]
            /\ lock' = [j \in Jobs |-> IF lock[j] = p THEN "stale" ELSE lock[j]]
            /\ UNCHANGED sleepVars
    /\ UNCHANGED <<jobVars, loopVars, commandVars, files, raced>>

\* LockExists
ChildLockExists(p) ==
    /\ proc[p].st = "forked"
    /\ ~LockFree(proc[p].job)
    /\ Ends(p, "failed")

\* The job succeeds, or fails, or could not be executed.
ChildEnds(p) ==
    \/ proc[p].st = "runs" /\ Ends(p, "ok")
    \/ proc[p].st \in {"locked", "runs"} /\ Ends(p, "failed")

-----------------------------------------------------------------------------
(* handle_completed_jobs                                                     *)

Snapshot == {<<p, Known(proc[p].job)>> : p \in running}

LoopTop ==
    /\ pc = "loop"
    /\ pc' = IF quit THEN "term" ELSE "reap1"
    /\ todo' = IF quit THEN {} ELSE Snapshot
    /\ UNCHANGED <<jobVars, again, idx, append, scan, work, batch, delta, workOwed,
                   timer, commandVars, childVars>>

\* job_done sets last_run, unless the process of an AssertRunning job has ended.
LastRunNow(j) ==
    /\ due' = due \ {j}
    /\ fresh' = IF j \in Limited THEN fresh \cup {j} ELSE fresh
    /\ ran' = ran \cup ({j} \cap Clocked)

\* A job that is done is not waited for any more.
Delivered(o, k) == [j \in Jobs |-> o[j] \ {k}]

\* job['call'] is None: the job was not known any more.
ReapUnknown(p) ==
    /\ pc \in Reaping
    /\ <<p, FALSE>> \in todo
    /\ Dies

\* The job has run for longer than max_duration and gets a SIGTERM, which is not
\* allowed if it belongs to another user.
ReapOverrun(p) ==
    /\ pc \in Reaping
    /\ <<p, TRUE>> \in todo
    /\ proc[p].st = "runs" /\ Known(proc[p].job)
    /\ again' = (again \/ ~proc[p].root)
    /\ \/ UNCHANGED proc
       \/ ~proc[p].root /\ proc' = [proc EXCEPT ![p].st = "failed"]
    /\ todo' = todo \ {<<p, TRUE>>}
    /\ UNCHANGED <<jobVars, idx, append, scan, work, batch, delta, workOwed, sleepVars,
                   commandVars, lock, files, raced>>

\* get_known_job of a job that runs and is not known any more
ReapForgotten(p) ==
    /\ pc \in Reaping
    /\ <<p, TRUE>> \in todo
    /\ proc[p].st \in Live /\ ~Known(proc[p].job)
    /\ Dies

\* Mutant: the lock file is removed after a failure, too
ReapReleases(p) ==
    LET j == proc[p].job
        missing == lock[j] = "none"
    IN  /\ pc \in Reaping
        /\ <<p, TRUE>> \in todo
        /\ proc[p].st \in {"ok", "failed"}
        /\ todo' = todo \ {<<p, TRUE>>}
        /\ lock' = [lock EXCEPT ![j] = "none"]
        /\ files' = IF missing THEN files ELSE [files EXCEPT ![j] = FALSE]
        /\ running' = IF missing THEN running ELSE running \ {p}
        /\ proc' = [proc EXCEPT ![p] = IF missing THEN [@ EXCEPT !.st = "none"] ELSE NoChild]
        /\ again' = TRUE
        /\ owed' = IF missing THEN owed ELSE Delivered(owed, j)
        /\ UNCHANGED <<known, runq, forced, started, ran, due, fresh, idx, append, scan,
                       work, batch, delta, workOwed, sleepVars, commandVars, raced>>

\* cond_wait removes the lock file of a job that went well, whoever wrote it.
\* After a failure the directory gets another name and the lock file stays.
Reap(p) ==
    LET j == proc[p].job
        clean == proc[p].st = "ok" /\ files[j]
        missing == clean /\ lock[j] = "none"    \* os.unlink fails
    IN  /\ pc \in Reaping
        /\ <<p, TRUE>> \in todo
        /\ proc[p].st \in {"ok", "failed"}
        /\ todo' = todo \ {<<p, TRUE>>}
        /\ lock' = IF clean THEN [lock EXCEPT ![j] = "none"]
                   ELSE IF lock[j] = p THEN [lock EXCEPT ![j] = "stale"] ELSE lock
        /\ files' = IF missing THEN files ELSE [files EXCEPT ![j] = FALSE]
        /\ running' = IF missing THEN running ELSE running \ {p}
        /\ proc' = [proc EXCEPT ![p] = IF missing THEN [@ EXCEPT !.st = "none"] ELSE NoChild]
        /\ again' = IF missing THEN again ELSE TRUE
        /\ IF ~missing /\ Known(j) /\ Kind[j] = "wait" THEN LastRunNow(j)
           ELSE UNCHANGED <<ran, due, fresh>>
        /\ owed' = IF missing THEN owed ELSE Delivered(owed, j)
        /\ UNCHANGED <<known, runq, forced, started, idx, append, scan, work, batch,
                       delta, workOwed, sleepVars, commandVars, raced>>

\* waitpid has nothing to say of a child that runs, and fails for one that was reaped
\* before.
NothingToReap(p) == proc[p].st = "none" \/ (proc[p].st \in Live /\ Known(proc[p].job))

Reaped ==
    /\ pc \in {"reap1", "reap2", "reap3"}
    /\ \A x \in todo : x[2] /\ NothingToReap(x[1])
    /\ todo' = {}
    /\ pc' = CASE pc = "reap1" -> "forced"
               [] pc = "reap2" -> IF again THEN "loop" ELSE "sleep"
               [] pc = "reap3" -> "kill"
    /\ again' = FALSE
    /\ UNCHANGED <<jobVars, idx, append, scan, work, batch, delta, workOwed, timer,
                   commandVars, childVars>>

-----------------------------------------------------------------------------
(* process_queue                                                             *)

FreePids == {p \in Procs \ running : proc[p].st = "none"}

\* Mutant: a job that cannot be set up leaves its queue
ProcessedLeaves(j, force) ==
    LET launch == Kind[j] # "none" /\ LockFree(j)
        done == Kind[j] # "wait"
    IN  /\ IF launch
           THEN \E p \in FreePids :
                   /\ proc' = [proc EXCEPT ![p] = [st |-> "forked", job |-> j,
                                      forced |-> force, root |-> FALSE]]
                   /\ running' = running \cup {p}
                   /\ started' = started \cup ({j} \cap NotWaitedFor)
           ELSE UNCHANGED <<started, running, proc>>
        /\ runq' = IF force THEN runq ELSE RemoveFirst(runq, j)
        /\ forced' = IF force THEN RemoveFirst(forced, j) ELSE forced
        /\ IF done THEN LastRunNow(j) ELSE UNCHANGED <<ran, due, fresh>>
        /\ owed' = IF done /\ ~launch THEN Delivered(owed, j) ELSE owed

\* The call is set up and executed, if there is one; a job that is not waited for
\* is done at once.  It leaves its queue when it is started, or when it is done and
\* was never started.
Processed(j, force) ==
    LET launch == Kind[j] # "none" /\ LockFree(j)
        done == Kind[j] # "wait"
        leaves == launch \/ (done /\ j \notin started)
    IN  /\ IF launch
           THEN \E p \in FreePids :
                   /\ proc' = [proc EXCEPT ![p] = [st |-> "forked", job |-> j,
                                      forced |-> force, root |-> FALSE]]
                   /\ running' = running \cup {p}
                   /\ started' = started \cup ({j} \cap NotWaitedFor)
           ELSE UNCHANGED <<started, running, proc>>
        /\ runq' = IF leaves /\ ~force THEN RemoveFirst(runq, j) ELSE runq
        /\ forced' = IF leaves /\ force THEN RemoveFirst(forced, j) ELSE forced
        /\ IF done THEN LastRunNow(j) ELSE UNCHANGED <<ran, due, fresh>>
        /\ owed' = IF done /\ ~launch THEN Delivered(owed, j) ELSE owed

\* The forced queue is walked by index while jobs are taken out of it.
RunForced ==
    /\ pc = "forced"
    /\ idx <= Len(forced)
    /\ Known(forced[idx])
    /\ Processed(forced[idx], TRUE)
    /\ idx' = idx + 1
    /\ UNCHANGED <<known, todo, again, append, scan, work, batch, delta, workOwed,
                   sleepVars, commandVars, lock, files, raced>>

ForcedUnknown ==
    /\ pc = "forced"
    /\ idx <= Len(forced)
    /\ ~Known(forced[idx])
    /\ Dies

\* num_running is counted and the queue is copied.
CopyQueue ==
    /\ pc = "count"
    /\ RunningJobs \subseteq known
    /\ batch' = runq
    /\ pc' = "process"
    /\ UNCHANGED <<jobVars, todo, again, idx, append, scan, work, delta, workOwed,
                   timer, commandVars, childVars>>

CountUnknown == pc = "count" /\ ~(RunningJobs \subseteq known) /\ Dies

InProcess == pc = "process" /\ batch # <<>>

\* The search for jobs that have j as a post-job comes to one that is not known.
Stumbles(j) ==
    /\ j \notin RunningJobs
    /\ \A k \in PreReach[j] : ~Queued(k) /\ k \notin RunningJobs
    /\ ~((ToSet(runq) \cup RunningJobs) \subseteq known)

\* The search through pre-jobs, and the pre- and post-jobs of those, can come to a
\* cycle of which no job ends it: it recurses until Python gives up.  If there is
\* a job that does, which it comes to first is the order of the lists.
Endless(j) ==
    /\ j \notin RunningJobs
    /\ \E k \in Cyclic \cap PreReach[j] : ~Queued(k) /\ k \notin RunningJobs

SearchEnds(j) == ~Stumbles(j) /\ ~Endless(j)

\* Mutant: one too many
TooManyOrOne(j) == Kind[j] = "wait" /\ NumRunning > MaxParallel

TooMany(j) == Kind[j] = "wait" /\ NumRunning >= MaxParallel

HeldBack(j) ==
    \/ TooMany(j)
    \/ HasQueuedPrerequisite(j)
    \/ HasConflictingJobsRunning(j)

ProcessPaused ==
    /\ InProcess
    /\ paused /\ Known(Head(batch))
    /\ batch' = <<>>
    /\ UNCHANGED <<jobVars, todo, again, idx, append, scan, work, delta, workOwed,
                   sleepVars, commandVars, childVars>>

ProcessHeldBack ==
    /\ InProcess
    /\ ~paused /\ Known(Head(batch))
    /\ HeldBack(Head(batch))
    /\ batch' = Tail(batch)
    /\ UNCHANGED <<jobVars, todo, again, idx, append, scan, work, delta, workOwed,
                   sleepVars, commandVars, childVars>>

ProcessJob ==
    LET j == Head(batch)
    IN  /\ InProcess
        /\ ~paused /\ Known(j)
        /\ ~HeldBack(j) /\ SearchEnds(j)
        /\ Processed(j, FALSE)
        /\ batch' = Tail(batch)
        /\ again' = (again \/ Kind[j] # "wait")
        /\ UNCHANGED <<known, todo, idx, append, scan, work, delta, workOwed, sleepVars,
                       commandVars, lock, files, raced>>

ProcessUnknown ==
    LET j == Head(batch)
    IN  /\ InProcess
        /\ \/ ~Known(j)
           \/ Known(j) /\ ~paused /\ ~TooMany(j) /\ ~SearchEnds(j)
        /\ Dies

\* delta may have no value yet.
ProcessDone ==
    /\ pc = "process" /\ batch = <<>>
    /\ IF delta
       THEN /\ pc' = "reap2"
            /\ todo' = Snapshot
            /\ UNCHANGED <<jobVars, again, idx, append, scan, work, batch, delta,
                           workOwed, timer, commandVars, childVars>>
       ELSE Dies

-----------------------------------------------------------------------------
(* get_next_job_time and insert_job                                          *)

\* A job that is running, or not to run yet, or queued already is not inserted, and
\* its pre- and post-jobs are not looked at.
NotInserted(t, list, j) ==
    \/ j \in checked[t]
    \/ j \in ToSet(list) /\ j \notin MultiOk
    \/ j \in fresh
    \/ j \in RunningJobs

Visits(s) == [i \in 1..Len(s) |-> <<"visit", s[i]>>]

Top(t) == Head(stack[t])[2]
IsNext(t, what) == stack[t] # <<>> /\ Head(stack[t])[1] = what

Continue(t, rest, seen) ==
    /\ stack' = [stack EXCEPT ![t] = rest]
    /\ checked' = [checked EXCEPT ![t] = IF rest = <<>> THEN {} ELSE seen]

\* insert_job up to the first append: the calls and the append that are still to come
\* go on the stack.
Visit(t, list) ==
    LET j == Top(t)
    IN  /\ IsNext(t, "visit")
        /\ Known(j)
        /\ Continue(t,
              IF NotInserted(t, list, j) THEN Tail(stack[t])
              ELSE Visits(Pre[j]) \o <<<<"add", j>>>> \o Visits(Post[j]) \o Tail(stack[t]),
              checked[t] \cup {j})

Add(t) == IsNext(t, "add") /\ Continue(t, Tail(stack[t]), checked[t])

\* What j has to wait for when it is appended to a queue.
Owes(j, list) == Before[j] \cap (ToSet(list) \cup RunningJobs)

\* current_time is set: jobs have become due, and max_freq has passed for others.
FillStart ==
    /\ pc = "forced"
    /\ idx > Len(forced) /\ idx' = 1
    /\ \E now \in SUBSET (Timed \cup Repeated) : due' = due \cup now
    /\ fresh' \in SUBSET fresh
    /\ scan' = known
    /\ append' = (runq # <<>>)
    /\ work' = runq
    /\ workOwed' = owed
    /\ delta' = (delta \/ runq = <<>>)
    /\ pc' = "fill"
    /\ UNCHANGED <<known, runq, forced, started, ran, running, owed, todo, again, batch,
                   timer, commandVars, childVars>>

\* The next name of the keys that were read; a due job is inserted.
FillJob(j) ==
    /\ pc = "fill" /\ stack["main"] = <<>>
    /\ j \in scan /\ Known(j)
    /\ scan' = scan \ {j}
    /\ stack' = IF j \notin due \/ (append /\ Queued(j)) THEN stack
                ELSE [stack EXCEPT !["main"] = <<<<"visit", j>>>>]
    /\ UNCHANGED <<jobVars, todo, again, idx, append, work, batch, delta, workOwed,
                   sleepVars, paused, quit, checked, events, childVars>>

FillUnknown ==
    /\ pc = "fill"
    /\ \/ stack["main"] = <<>> /\ ~(scan \subseteq known)
       \/ IsNext("main", "visit") /\ ~Known(Top("main"))
    /\ Dies

FillVisit ==
    /\ pc = "fill"
    /\ Visit("main", work)
    /\ UNCHANGED <<jobVars, loopVars, sleepVars, paused, quit, events, childVars>>

FillAdd ==
    /\ pc = "fill"
    /\ Add("main")
    /\ work' = Append(work, Top("main"))
    /\ workOwed' = [workOwed EXCEPT ![Top("main")] = Owes(Top("main"), work)]
    /\ UNCHANGED <<jobVars, todo, again, idx, append, scan, batch, delta, sleepVars,
                   paused, quit, events, childVars>>

\* The new list takes the place of the old one.  What the socket thread has added to
\* that one meanwhile, and what it still will, is lost.
FillDone ==
    /\ pc = "fill" /\ stack["main"] = <<>> /\ scan = {}
    /\ runq' = work /\ work' = <<>>
    /\ owed' = workOwed /\ workOwed' = [j \in Jobs |-> {}]
    /\ stack' = [stack EXCEPT !["socket"] = <<>>]
    /\ checked' = [checked EXCEPT !["socket"] = {}]
    /\ append' = FALSE
    /\ pc' = "count"
    /\ UNCHANGED <<known, forced, started, ran, running, due, fresh, todo, again, idx,
                   scan, batch, delta, timer, paused, quit, events, childVars>>

-----------------------------------------------------------------------------
(* The end of a round, and of the loop.                                      *)

\* Mutant: the timer is not started again
SleepUntilSignalled ==
    /\ pc = "sleep"
    /\ pc' = "pause"
    /\ UNCHANGED <<jobVars, loopVars, timer, commandVars, childVars>>

\* signal_sleep, and signal.pause().  The timer may fire in between.
Sleep ==
    /\ pc = "sleep"
    /\ timer' \in (IF ShortDelta THEN {"on", "fired"} ELSE {"on"})
    /\ pc' = "pause"
    /\ UNCHANGED <<jobVars, loopVars, commandVars, childVars>>

\* kill_running_jobs: of the jobs that may be signalled those in S end
Signallable == {p \in running : ~proc[p].root}

KillRunning(S, next) ==
    /\ proc' = [p \in Procs |-> IF p \in S /\ proc[p].st \in Live
                                THEN [proc[p] EXCEPT !.st = "failed"] ELSE proc[p]]
    /\ todo' = Snapshot
    /\ pc' = next
    /\ UNCHANGED <<jobVars, again, idx, append, scan, work, batch, delta, workOwed,
                   timer, commandVars, lock, files, raced>>

Terminate == pc = "term" /\ \E S \in SUBSET Signallable : KillRunning(S, "reap3")
Kill == pc = "kill" /\ KillRunning(Signallable, "reap4")

Exit ==
    /\ pc = "reap4"
    /\ \A x \in todo : x[2] /\ NothingToReap(x[1])
    /\ pc' = "down"
    /\ Gone
    /\ UNCHANGED events

-----------------------------------------------------------------------------
(* The socket thread.                                                        *)

Command ==
    /\ stack["socket"] = <<>>
    /\ pc \notin {"down", "dead"}
    /\ Event
    /\ UNCHANGED <<running, loopVars, childVars>>

\* RUNJOB without dependencies
RunJob(j) ==
    /\ Command /\ Known(j)
    /\ forced' = Append(forced, j)
    /\ Signalled
    /\ UNCHANGED <<known, runq, started, ran, due, fresh, owed, paused, quit, stack,
                   checked>>

\* RUNJOB with dependencies
RunJobWithDeps(j) ==
    /\ Command /\ Known(j)
    /\ stack' = [stack EXCEPT !["socket"] = <<<<"visit", j>>>>]
    /\ UNCHANGED <<known, runq, forced, started, ran, due, fresh, owed, sleepVars,
                   paused, quit, checked>>

\* The thread wakes the main loop when it has inserted everything.
SignalAfterwards ==
    IF stack'["socket"] = <<>> THEN Signalled ELSE UNCHANGED sleepVars

SocketVisit ==
    /\ Visit("socket", runq)
    /\ SignalAfterwards
    /\ UNCHANGED <<jobVars, loopVars, paused, quit, events, childVars>>

SocketAdd ==
    /\ Add("socket")
    /\ runq' = Append(runq, Top("socket"))
    /\ owed' = [owed EXCEPT ![Top("socket")] = Owes(Top("socket"), runq)]
    /\ SignalAfterwards
    /\ UNCHANGED <<known, forced, started, ran, running, due, fresh, loopVars, paused,
                   quit, events, childVars>>

Reload ==
    /\ Command
    /\ \E c \in Configs : Reloaded(c)
    /\ Signalled
    /\ UNCHANGED <<runq, forced, started, ran, owed, paused, quit, stack, checked>>

PauseQueue ==
    /\ Command
    /\ paused' = TRUE
    /\ UNCHANGED <<known, runq, forced, started, ran, due, fresh, owed, sleepVars, quit,
                   stack, checked>>

Resume ==
    /\ Command
    /\ paused' = FALSE
    /\ Signalled
    /\ UNCHANGED <<known, runq, forced, started, ran, due, fresh, owed, quit, stack,
                   checked>>

\* QUIT, and KILL, which pauses the queue first
Quit ==
    /\ Command
    /\ paused' \in {paused, TRUE}
    /\ quit' = TRUE
    /\ Signalled
    /\ UNCHANGED <<known, runq, forced, started, ran, due, fresh, owed, stack, checked>>

-----------------------------------------------------------------------------

Init ==
    /\ known \in Configs
    /\ runq = <<>> /\ forced = <<>>
    /\ running = {} /\ started = {}
    /\ due = known \cap Repeated
    /\ fresh = known \cap Timed \cap Limited
    /\ ran = {}
    /\ pc = "loop"
    /\ todo = {} /\ again = FALSE /\ idx = 1
    /\ append = FALSE /\ scan = {} /\ work = <<>> /\ batch = <<>>
    /\ delta = FALSE
    /\ timer = "off"
    /\ paused = FALSE /\ quit = FALSE
    /\ stack = [t \in Threads |-> <<>>]
    /\ checked = [t \in Threads |-> {}]
    /\ proc = [p \in Procs |-> NoChild]
    /\ lock = [j \in Jobs |-> "none"]
    /\ files = [j \in Jobs |-> FALSE]
    /\ owed = [j \in Jobs |-> {}] /\ workOwed = [j \in Jobs |-> {}]
    /\ raced = {}
    /\ events = 0

Main ==
    \/ LoopTop \/ Reaped \/ RunForced \/ ForcedUnknown
    \/ FillStart \/ FillUnknown \/ FillVisit \/ FillAdd \/ FillDone
    \/ CopyQueue \/ CountUnknown
    \/ ProcessPaused \/ ProcessHeldBack \/ ProcessJob \/ ProcessUnknown \/ ProcessDone
    \/ Sleep \/ Terminate \/ Kill \/ Exit
    \/ \E j \in Jobs : FillJob(j)
    \/ \E p \in Procs : ReapUnknown(p) \/ ReapForgotten(p) \/ Reap(p)

Socket == SocketVisit \/ SocketAdd

Operator ==
    \/ \E j \in Jobs : RunJob(j) \/ RunJobWithDeps(j)
    \/ Reload \/ PauseQueue \/ Resume \/ Quit

ChildStep(p) ==
    ChildCheck(p) \/ ChildLock(p) \/ ChildExec(p) \/ ChildLockExists(p) \/ ChildEnds(p)

Next ==
    \/ Main \/ Socket \/ Operator \/ TimerFires
    \/ \E p \in Procs : ChildStep(p) \/ ReapOverrun(p)
    \/ Killed \/ Start

Spec == Init /\ [][Next]_vars

\* Threads and processes that can go on do so, and a timer fires.  A job ends, or gets
\* a SIGTERM when max_duration has passed.
Fairness ==
    /\ WF_vars(Main)
    /\ WF_vars(Socket)
    /\ WF_vars(TimerFires)
    /\ \A p \in Procs : WF_vars(ChildStep(p))

FairSpec == Spec /\ Fairness

-----------------------------------------------------------------------------
(* Properties.                                                               *)

JobType ==
    /\ known \in SUBSET Jobs
    /\ runq \in Seq(Jobs) /\ forced \in Seq(Jobs)
    /\ started \in SUBSET Jobs /\ ran \in SUBSET Jobs
    /\ running \in SUBSET Procs
    /\ due \in SUBSET Jobs /\ fresh \in SUBSET Jobs
    /\ owed \in [Jobs -> SUBSET Jobs]

LoopType ==
    /\ todo \in SUBSET (Procs \X BOOLEAN)
    /\ again \in BOOLEAN /\ idx \in Nat \ {0}
    /\ append \in BOOLEAN /\ scan \in SUBSET Jobs
    /\ work \in Seq(Jobs) /\ batch \in Seq(Jobs)
    /\ delta \in BOOLEAN
    /\ workOwed \in [Jobs -> SUBSET Jobs]

SleepType ==
    /\ pc \in Reaping \cup {"loop", "forced", "fill", "count", "process", "sleep",
                            "pause", "term", "kill", "down", "dead"}
    /\ timer \in {"off", "on", "fired"}

CommandType ==
    /\ paused \in BOOLEAN /\ quit \in BOOLEAN
    /\ stack \in [Threads -> Seq(Item)]
    /\ checked \in [Threads -> SUBSET Jobs]
    /\ events \in Nat

ChildType ==
    /\ proc \in [Procs -> Child]
    /\ lock \in [Jobs -> Procs \cup {"none", "stale"}]
    /\ files \in [Jobs -> BOOLEAN]
    /\ raced \in SUBSET Jobs

TypeOK == JobType /\ LoopType /\ SleepType /\ CommandType /\ ChildType

At(p, j) == proc[p].job = j /\ proc[p].st \in {"checked", "locked", "runs"}

Scheduled(p) == p \in running /\ ~proc[p].forced

\* The lock files keep a job from running twice at a time, forced or not, across
\* restarts of the runner, unless two children have looked for the lock file before
\* either of them had written it, or the job runs as another user: its lock counts as
\* free.  What the schedule starts, it starts once at a time whatever the lock files
\* say, as long as the runner lives.
NotTwice ==
    /\ \A j \in Jobs : \/ j \in raced \cup Root
                       \/ \A p, q \in Procs : At(p, j) /\ At(q, j) => p = q
    /\ \A p, q \in running :
          Scheduled(p) /\ Scheduled(q) /\ proc[p].job = proc[q].job => p = q

\* A job that has ended is not taken to be running for ever: cond_wait finds the lock
\* file that it removes, except after such a race or for a job of another user.
NoGhost == \A p \in running : proc[p].st # "none" \/ proc[p].job \in raced \cup Root

\* Scheduled jobs keep to JOB_RUNNER_MAX_PARALELL_JOBS; only forced jobs, and what a
\* runner that is gone has left, exceed it.
KeepsMaxParallel ==
    Cardinality({p \in running : Scheduled(p) /\ Kind[proc[p].job] = "wait"})
       <= MaxParallel

\* The children of a runner that is gone: a child of this one is in _running_jobs
\* until it has been reaped.
Orphans == {p \in Procs : proc[p].st # "none"} \ running

\* Of two jobs that exclude each other one is scheduled only when the other has been
\* reaped, services that are not waited for included.  Two run side by side only if
\* one of them was forced, or was left by a runner that is gone: _running_jobs of the
\* next one does not have it.
NoConflict ==
    \A p, q \in Procs :
        ( /\ p # q
          /\ proc[p].st # "none" /\ proc[q].st # "none"
          /\ ~proc[p].forced /\ ~proc[q].forced
          /\ proc[p].job \in Nonconcurrent[proc[q].job]
          /\ proc[q].job \in Nonconcurrent[proc[p].job] )
        => p \in Orphans \/ q \in Orphans

\* What a job waits for since it was queued is still queued, or running.
OwedInv == \A j \in Jobs : owed[j] \subseteq ToSet(runq) \cup RunningJobs

\* A job off the queue is started only when every pre-job that was queued or running
\* when it was queued, and every job that it comes after, is done.
PrerequisitesDone ==
    [][\A p \in Procs :
          (p \notin running /\ p \in running' /\ ~proc'[p].forced)
             => owed[proc'[p].job] = {}]_vars

\* The main loop goes on.  It need not where the timer has fired before the pause,
\* until the next signal.
Working ==
    /\ pc \notin {"down", "dead"} /\ ~quit /\ ~paused /\ raced = {}
    /\ timer # "fired"

\* j has a child; or it is a service whose process is there; or it has no call, for
\* which to be run is to leave the list.
IsRun(j, list) ==
    \/ j \in RunningJobs
    \/ Kind[j] = "nowait" /\ ~LockFree(j)
    \/ Kind[j] = "none" /\ j \notin ToSet(list)

\* get_next_job_time is about to replace a list to which RUNJOB has added j meanwhile.
OverwritesInsertion(j) ==
    /\ pc = "fill" /\ stack["main"] = <<>> /\ scan = {}
    /\ Queued(j) /\ j \notin ToSet(work)

\* A job that was forced, or is queued, or is due, is run in the end while the runner
\* works, even if the SIGCHLD of another job was lost.  Two things can keep it from
\* that, and nothing else: a queue that is replaced under the socket thread, and the
\* timer's own signal when it comes before the pause.
EventuallyRun ==
    /\ \A j \in Jobs :
          /\ (Working /\ j \in ToSet(forced)) ~> (~Working \/ IsRun(j, forced))
          /\ (Working /\ Queued(j))
                ~> (~Working \/ IsRun(j, runq) \/ OverwritesInsertion(j))
    /\ \A j \in Timed \cup Repeated :
          (Working /\ j \in due \cap known) ~> (~Working \/ j \notin due \cap known)
=============================================================================
