---------------------------- MODULE EventDaemon ----------------------------
(***************************************************************************)
(* The event daemon of Cerebrum, for one target system: the event_log      *)
(* table, the processes that feed its rows to a shared queue (a LISTENer   *)
(* on the Postgres notifications and a periodic collector), the worker     *)
(* processes that take events off the queue, the bofhd operator who        *)
(* unlocks, forces and deletes events, and the life of the daemon itself.  *)
(*                                                                         *)
(* A row is "taken" by a conditional UPDATE, in a transaction of its own,  *)
(* before it is handled, and deleted or given back in another one after.   *)
(* Nothing records who took it, so nothing but this protocol keeps two     *)
(* workers from handling one event, and a worker that dies leaves its row  *)
(* taken.  Queue items are only hints: they may be duplicated or lost.     *)
(*                                                                         *)
(* Time is abstracted to the three comparisons the code makes: whether a   *)
(* row is older than unpropagated_delay, whether its taken_time is older   *)
(* than failed_delay, and whether run_interval has passed.                 *)
(***************************************************************************)
EXTENDS Naturals, Sequences, FiniteSets

CONSTANTS
    Events,         \* event ids of one target system, in event_log_seq order or not
    NoEvent,        \* no event in hand
    Workers,        \* the DBConsumer processes
    Queues,         \* the queues of the manager process
    Main,           \* `queue`, the queue the producers and most workers share
    FanOut,         \* `fan_out_queues`, a sequence of additional queues
    Producers,      \* how many producers the daemon constructs
    Capacity,       \* maxsize of each queue
    QueueOf,        \* the queue each worker reads
    Handlers,       \* the queues whose workers have a callback for the event
    FailLimit,      \* failed_limit of the collector's configuration
    IncludeTaken,   \* include_taken: TRUE for event_log, FALSE for events
    UnlockEvents,   \* --unlock-events: release every lock when the daemon starts
    MaxStarts,      \* bound: how many times the daemon is started
    MaxOps,         \* bound: how many operator commands are given
    MaxFaults,      \* bound: how many processes, connections and hosts fail
    MaxStray        \* bound: copies of an event in the queues of a killed daemon

ASSUME ConstantsAssumption ==
    /\ NoEvent \notin Events
    /\ IsFiniteSet(Workers)
    /\ Main \in Queues
    /\ FanOut \in Seq(Queues)
    /\ Producers \in Nat \ {0}
    /\ Capacity \in [Queues -> Nat \ {0}]
    /\ QueueOf \in [Workers -> Queues]
    /\ Handlers \in [Events -> SUBSET Queues]
    /\ FailLimit \in Nat \ {0}
    /\ IncludeTaken \in BOOLEAN
    /\ UnlockEvents \in BOOLEAN
    /\ MaxStarts \in Nat
    /\ MaxOps \in Nat
    /\ MaxFaults \in Nat
    /\ MaxStray \in Nat \ {0}

VARIABLES
    \* the event_log table
    written,    \* events ever committed
    table,      \* events with a row now
    taken,      \* taken_time: NULL, within failed_delay, or before it
    failed,     \* the failed column
    aged,       \* events whose tstamp is older than unpropagated_delay
    \* the daemon
    phase,      \* the main process: "down", "up" (running = 1), "stopping"
    starts,     \* how often it was started
    orphans,    \* worker processes whose main process was killed under them
    stray,      \* how many copies of each event are on the way to them
    queue,      \* contents of each queue
    \* the listener
    session,    \* its connection: "open" once it has LISTENed, or "closed"
    notifies,   \* notifications that wait on that connection
    lpc, lcur, li,
    \* the collector
    crows,      \* fetched rows it has still to push
    cpc, ccur, ci,
    \* the workers
    wpc, wcur,
    \* the operator, and history
    ops,        \* commands given so far
    faults,     \* failures so far
    effects,    \* how often handle_event completed
    unlocks,    \* how often a taken row was given back without its holder
    early,      \* ... while a holder of it was still at work
    deleted     \* events deleted by the operator

dbVars == <<written, table, taken, failed, aged>>
daemonVars == <<phase, starts, orphans, stray>>
listenerVars == <<session, notifies, lpc, lcur, li>>
collectorVars == <<crows, cpc, ccur, ci>>
workerVars == <<wpc, wcur>>
historyVars == <<effects, unlocks, early, deleted>>
vars == <<dbVars, daemonVars, queue, listenerVars, collectorVars,
          workerVars, ops, faults, historyVars>>

Taken == {"null", "recent", "expired"}
HolderPCs == {"handle", "remove", "release"}
LivePCs == {"get", "lock"} \cup HolderPCs

\* Workers that are past lock_event with e and not yet back in their loop.
Holders(e) == {c \in Workers : wcur[c] = e /\ wpc[c] \in HolderPCs}

\* The orphans that are still alive: their run switch stays on, and their manager,
\* listener and collector live on with them.
LeftBehind == {c \in orphans : wpc[c] \in LivePCs}

\* A failure that the code does not cause itself.
Fault == faults < MaxFaults /\ faults' = faults + 1

-----------------------------------------------------------------------------
(* Writing: EventLog.write_log inside CLDatabase.commit, and the trigger.    *)

\* A transaction that inserts the row of e commits; the trigger's notification
\* reaches the listener if its session LISTENs, and that of a daemon left behind.
\* One row at a time: a commit of several rows is several such steps with nothing
\* between them.
WriteLog(e) ==
    /\ e \notin written
    /\ written' = written \cup {e}
    /\ table' = table \cup {e}
    /\ notifies' = IF session = "open" THEN Append(notifies, e) ELSE notifies
    /\ stray' = IF LeftBehind = {} THEN stray ELSE [stray EXCEPT ![e] = 1]
    /\ UNCHANGED <<taken, failed, aged, phase, starts, orphans, queue, session,
                   lpc, lcur, li, collectorVars, workerVars, ops, faults,
                   historyVars>>

\* DELETE: the row and its columns are gone; nothing if there is no such row.
DeleteRow(e) ==
    /\ table' = table \ {e}
    /\ taken' = [taken EXCEPT ![e] = "null"]
    /\ failed' = [failed EXCEPT ![e] = 0]
    /\ aged' = aged \ {e}
    /\ UNCHANGED written

\* unpropagated_delay passes since the row's tstamp.
TstampAges(e) ==
    /\ e \in table \ aged
    /\ aged' = aged \cup {e}
    /\ UNCHANGED <<written, table, taken, failed, daemonVars, queue,
                   listenerVars, collectorVars, workerVars, ops, faults, historyVars>>

\* failed_delay passes since the row's taken_time.
TakenTimeAges(e) ==
    /\ e \in table
    /\ taken[e] = "recent"
    /\ taken' = [taken EXCEPT ![e] = "expired"]
    /\ UNCHANGED <<written, table, failed, aged, daemonVars, queue,
                   listenerVars, collectorVars, workerVars, ops, faults, historyVars>>

-----------------------------------------------------------------------------
(* Queues.                                                                   *)

\* The queues a producer puts an item on, in order.  The producers are given
\* one and the same fan_out_queues list, and each constructor appends `queue` to
\* it; an empty list is replaced by a fresh one in each constructor.
ProducerQueues ==
    IF FanOut = <<>> THEN <<Main>>
    ELSE FanOut \o [i \in 1..Producers |-> Main]

\* put blocks while the queue is full
HasRoom(q) == Len(queue[q]) < Capacity[q]

-----------------------------------------------------------------------------
(* DBListener / EventLogListener.                                            *)

\* Connect and LISTEN; a poll of a lost connection leads here as well.
ListenerSubscribe ==
    /\ lpc = "wait"
    /\ session = "closed"
    /\ phase = "up"
    /\ session' = "open"
    /\ notifies' = <<>>
    /\ UNCHANGED <<dbVars, daemonVars, queue, lpc, lcur, li, collectorVars,
                   workerVars, ops, faults, historyVars>>

\* select returns, poll collects the notifications.
ListenerPoll ==
    /\ lpc = "wait"
    /\ session = "open"
    /\ notifies # <<>>
    /\ lpc' = "loop"
    /\ UNCHANGED <<dbVars, daemonVars, queue, session, notifies, lcur, li,
                   collectorVars, workerVars, ops, faults, historyVars>>

\* Pop one notification and read its row.
ListenerTake ==
    /\ lpc = "loop"
    /\ notifies # <<>>
    /\ Head(notifies) \in table
    /\ lpc' = "push"
    /\ lcur' = Head(notifies)
    /\ li' = 1
    /\ notifies' = Tail(notifies)
    /\ UNCHANGED <<dbVars, daemonVars, queue, session, collectorVars,
                   workerVars, ops, faults, historyVars>>

\* The process ends and its connection with it.
ListenerEnds(pc) ==
    /\ lpc' = pc
    /\ session' = "closed"
    /\ notifies' = <<>>
    /\ lcur' = NoEvent
    /\ li' = 1

\* The row is gone: get_event raises NotFoundError, which nothing catches.
ListenerNotFound ==
    /\ lpc = "loop"
    /\ notifies # <<>>
    /\ Head(notifies) \notin table
    /\ ListenerEnds("dead")
    /\ UNCHANGED <<dbVars, daemonVars, queue, collectorVars, workerVars,
                   ops, faults, historyVars>>

\* A database error in get_event, an unknown one in subscribe, or a kill.
ListenerCrash ==
    /\ Fault
    /\ lpc \in {"wait", "loop", "push"}
    /\ ListenerEnds("dead")
    /\ UNCHANGED <<dbVars, daemonVars, queue, collectorVars, workerVars,
                   ops, historyVars>>

\* Put the item on the next of the producer's queues.
ListenerPut ==
    LET q == ProducerQueues[li]
        last == li = Len(ProducerQueues)
    IN  /\ lpc = "push"
        /\ HasRoom(q)
        /\ queue' = [queue EXCEPT ![q] = Append(@, lcur)]
        /\ li' = IF last THEN 1 ELSE li + 1
        /\ lpc' = IF last THEN "loop" ELSE lpc
        /\ lcur' = IF last THEN NoEvent ELSE lcur
        /\ UNCHANGED <<dbVars, daemonVars, session, notifies,
                       collectorVars, workerVars, ops, faults, historyVars>>

\* No notification is left: back to the head of the loop in main().
ListenerLoop ==
    /\ lpc = "loop"
    /\ notifies = <<>>
    /\ IF phase = "up"
         THEN /\ lpc' = "wait"
              /\ UNCHANGED <<session, notifies, lcur, li>>
         ELSE ListenerEnds("off")
    /\ UNCHANGED <<dbVars, daemonVars, queue, collectorVars, workerVars,
                   ops, faults, historyVars>>

\* wait() times out and the run switch is off.
ListenerExit ==
    /\ lpc = "wait"
    /\ phase = "stopping"
    /\ ListenerEnds("off")
    /\ UNCHANGED <<dbVars, daemonVars, queue, collectorVars, workerVars,
                   ops, faults, historyVars>>

\* The connection breaks.  What was not polled is lost; in the middle of a batch
\* some first part of the notifications has been polled and is still processed.
ConnectionLost ==
    /\ Fault
    /\ session = "open"
    /\ session' = "closed"
    /\ \E k \in 0..Len(notifies) :
          /\ lpc = "wait" => k = 0
          /\ notifies' = SubSeq(notifies, 1, k)
    /\ UNCHANGED <<dbVars, daemonVars, queue, lpc, lcur, li, collectorVars,
                   workerVars, ops, historyVars>>

-----------------------------------------------------------------------------
(* EventLogCollector / EventCollector.                                       *)

\* Mutant: the query leaves out `failed < :fail_limit`.
UnprocessedNoLimit ==
    {e \in table : /\ taken[e] = "expired" \/ e \in aged
                   /\ IncludeTaken \/ taken[e] = "null"}

\* Mutant: the query leaves out the rows that were never taken.
UnprocessedTakenOnly ==
    {e \in table : /\ failed[e] < FailLimit
                   /\ taken[e] = "expired"
                   /\ IncludeTaken \/ taken[e] = "null"}

\* The rows get_unprocessed_events selects.
Unprocessed ==
    {e \in table : /\ failed[e] < FailLimit
                   /\ taken[e] = "expired" \/ e \in aged
                   /\ IncludeTaken \/ taken[e] = "null"}

\* run_interval has passed: fetch all the rows.
CollectorQuery ==
    /\ cpc = "sleep"
    /\ phase = "up"
    /\ Unprocessed # {}
    /\ crows' = Unprocessed
    /\ cpc' = "next"
    /\ UNCHANGED <<dbVars, daemonVars, queue, listenerVars, ccur, ci,
                   workerVars, ops, faults, historyVars>>

\* The query has no ORDER BY.
CollectorNext ==
    /\ cpc = "next"
    /\ \E e \in crows :
          /\ ccur' = e
          /\ crows' = crows \ {e}
    /\ ci' = 1
    /\ cpc' = "push"
    /\ UNCHANGED <<dbVars, daemonVars, queue, listenerVars, workerVars,
                   ops, faults, historyVars>>

CollectorPut ==
    LET q == ProducerQueues[ci]
        last == ci = Len(ProducerQueues)
    IN  /\ cpc = "push"
        /\ HasRoom(q)
        /\ queue' = [queue EXCEPT ![q] = Append(@, ccur)]
        /\ ci' = IF last THEN 1 ELSE ci + 1
        /\ ccur' = IF last THEN NoEvent ELSE ccur
        /\ cpc' = IF ~last THEN cpc
                  ELSE IF crows = {} THEN "sleep" ELSE "next"
        /\ UNCHANGED <<dbVars, daemonVars, crows, listenerVars, workerVars,
                       ops, faults, historyVars>>

CollectorExit ==
    /\ cpc = "sleep"
    /\ phase = "stopping"
    /\ cpc' = "off"
    /\ UNCHANGED <<dbVars, daemonVars, queue, listenerVars, crows, ccur, ci,
                   workerVars, ops, faults, historyVars>>

\* The database cannot be reached, which nothing catches, or a kill.
CollectorCrash ==
    /\ Fault
    /\ cpc \in {"sleep", "next", "push"}
    /\ cpc' = "dead"
    /\ crows' = {}
    /\ ccur' = NoEvent
    /\ ci' = 1
    /\ UNCHANGED <<dbVars, daemonVars, queue, listenerVars, workerVars, ops,
                   historyVars>>

-----------------------------------------------------------------------------
(* DBConsumer / EventLogConsumer / EventConsumer.                            *)

\* The run switch of a worker's daemon: the manager of a killed one keeps it on.
Running(c) == phase = "up" \/ c \in orphans

\* Mutant: the event stays in hand.
WorkerReturnsHolding(c) ==
    /\ wpc' = [wpc EXCEPT ![c] = IF Running(c) THEN "get" ELSE "off"]
    /\ UNCHANGED wcur

\* handle() returns to the loop of main(), which looks at the run switch.
WorkerReturns(c) ==
    /\ wpc' = [wpc EXCEPT ![c] = IF Running(c) THEN "get" ELSE "off"]
    /\ wcur' = [wcur EXCEPT ![c] = NoEvent]

WorkerGet(c) ==
    LET q == QueueOf[c]
    IN  /\ wpc[c] = "get"
        /\ c \notin orphans
        /\ queue[q] # <<>>
        /\ wcur' = [wcur EXCEPT ![c] = Head(queue[q])]
        /\ queue' = [queue EXCEPT ![q] = Tail(@)]
        /\ wpc' = [wpc EXCEPT ![c] = "lock"]
        /\ UNCHANGED <<dbVars, daemonVars, listenerVars, collectorVars, ops, faults,
                       historyVars>>

\* get() times out and the run switch is off.
WorkerExit(c) ==
    /\ wpc[c] = "get"
    /\ c \notin orphans
    /\ phase = "stopping"
    /\ wpc' = [wpc EXCEPT ![c] = "off"]
    /\ UNCHANGED <<dbVars, daemonVars, queue, listenerVars, collectorVars,
                   wcur, ops, faults, historyVars>>

\* Mutant: the UPDATE leaves out `taken_time IS NULL`.
LockableTaken(e) == e \in table

\* Mutant: the UPDATE breaks a lock that is older than failed_delay.
LockableExpired(e) == e \in table /\ taken[e] # "recent"

\* UPDATE ... WHERE event_id = :event_id AND taken_time IS NULL finds the row.
Lockable(e) == e \in table /\ taken[e] = "null"

WorkerLock(c) ==
    /\ wpc[c] = "lock"
    /\ Lockable(wcur[c])
    /\ taken' = [taken EXCEPT ![wcur[c]] = "recent"]
    /\ wpc' = [wpc EXCEPT ![c] = "handle"]
    /\ UNCHANGED <<written, table, failed, aged, daemonVars, queue,
                   listenerVars, collectorVars, wcur, ops, faults, historyVars>>

\* Somebody else has the event, or it is gone: the item is dropped.
WorkerLockFails(c) ==
    /\ wpc[c] = "lock"
    /\ ~Lockable(wcur[c])
    /\ WorkerReturns(c)
    /\ UNCHANGED <<dbVars, daemonVars, queue, listenerVars, collectorVars,
                   ops, faults, historyVars>>

Implements(c, e) == QueueOf[c] \in Handlers[e]

\* handle_event returns.
WorkerHandles(c) ==
    /\ wpc[c] = "handle"
    /\ Implements(c, wcur[c])
    /\ effects' = [effects EXCEPT ![wcur[c]] = @ + 1]
    /\ wpc' = [wpc EXCEPT ![c] = "remove"]
    /\ UNCHANGED <<dbVars, daemonVars, queue, listenerVars, collectorVars,
                   wcur, ops, faults, unlocks, early, deleted>>

\* Mutant: the exception does not keep handle() from removing the event.
WorkerFailsOpen(c) ==
    /\ wpc[c] = "handle"
    /\ wpc' = [wpc EXCEPT ![c] = "remove"]
    /\ UNCHANGED <<dbVars, daemonVars, queue, listenerVars, collectorVars,
                   wcur, ops, faults, historyVars>>

\* handle_event raises EventExecutionException, or EventHandlerNotImplemented,
\* as it must where no callback is registered.
WorkerFails(c) ==
    /\ wpc[c] = "handle"
    /\ wpc' = [wpc EXCEPT ![c] = "release"]
    /\ UNCHANGED <<dbVars, daemonVars, queue, listenerVars, collectorVars,
                   wcur, ops, faults, historyVars>>

\* Mutant: any exception, that of __remove_event too, releases the event.
WorkerErrorReleases(c) ==
    /\ wpc[c] \in {"handle", "remove"}
    /\ wpc' = [wpc EXCEPT ![c] = "release"]
    /\ UNCHANGED <<dbVars, daemonVars, queue, listenerVars, collectorVars,
                   wcur, ops, faults, historyVars>>

\* Any other exception, in handle_event or in the database call of
\* __remove_event: it is logged and the lock is kept.
WorkerError(c) ==
    /\ \/ wpc[c] = "handle" /\ Implements(c, wcur[c])
       \/ wpc[c] = "remove"
    /\ WorkerReturns(c)
    /\ UNCHANGED <<dbVars, daemonVars, queue, listenerVars, collectorVars,
                   ops, faults, historyVars>>

\* remove_event; that the row may be gone already makes no difference.
WorkerRemove(c) ==
    /\ wpc[c] = "remove"
    /\ DeleteRow(wcur[c])
    /\ WorkerReturns(c)
    /\ UNCHANGED <<daemonVars, queue, listenerVars, collectorVars, ops,
                   faults, historyVars>>

\* UPDATE taken_time = NULL, failed = failed + 1: by id only.
WorkerRelease(c) ==
    LET e == wcur[c]
    IN  /\ wpc[c] = "release"
        /\ taken' = IF e \in table THEN [taken EXCEPT ![e] = "null"] ELSE taken
        /\ failed' = IF e \in table THEN [failed EXCEPT ![e] = @ + 1] ELSE failed
        /\ WorkerReturns(c)
        /\ UNCHANGED <<written, table, aged, daemonVars, queue,
                       listenerVars, collectorVars, ops, faults, historyVars>>

\* The process dies: killed, or by an exception that handle() does not catch
\* (all of those of __lock_event and __release_event).  The row stays as it is.
WorkerCrash(c) ==
    /\ Fault
    /\ wpc[c] \in LivePCs
    /\ wpc' = [wpc EXCEPT ![c] = "dead"]
    /\ wcur' = [wcur EXCEPT ![c] = NoEvent]
    /\ UNCHANGED <<dbVars, daemonVars, queue, listenerVars, collectorVars,
                   ops, historyVars>>

-----------------------------------------------------------------------------
(* The operator: bofhd_event_cmds.                                           *)

Command == ops < MaxOps /\ ops' = ops + 1 /\ UNCHANGED faults

\* event unlock, and each event of event unlock_where
OperatorUnlock(e) ==
    /\ Command
    /\ e \in table
    /\ taken' = [taken EXCEPT ![e] = "null"]
    /\ unlocks' = IF taken[e] = "null" THEN unlocks
                  ELSE [unlocks EXCEPT ![e] = @ + 1]
    /\ early' = IF taken[e] = "null" \/ Holders(e) = {} THEN early
                ELSE [early EXCEPT ![e] = @ + 1]
    /\ UNCHANGED <<written, table, failed, aged, daemonVars, queue,
                   listenerVars, collectorVars, workerVars, effects, deleted>>

\* event force
OperatorForce(e) ==
    /\ Command
    /\ e \in table
    /\ failed' = [failed EXCEPT ![e] = 0]
    /\ UNCHANGED <<written, table, taken, aged, daemonVars, queue,
                   listenerVars, collectorVars, workerVars, historyVars>>

\* event force_all
OperatorForceAll ==
    /\ Command
    /\ failed' = [e \in Events |-> IF e \in table THEN 0 ELSE failed[e]]
    /\ UNCHANGED <<written, table, taken, aged, daemonVars, queue,
                   listenerVars, collectorVars, workerVars, historyVars>>

\* event delete, and each event of event delete_where
OperatorDelete(e) ==
    /\ Command
    /\ e \in table
    /\ DeleteRow(e)
    /\ deleted' = deleted \cup {e}
    /\ UNCHANGED <<daemonVars, queue, listenerVars, collectorVars,
                   workerVars, effects, unlocks, early>>

-----------------------------------------------------------------------------
(* The daemon: ProcessHandler and the servers/event scripts.                 *)

\* The workers of kept live on.  Everything else that lives in the processes of
\* the daemon, or of the one that is started, is in its first state.
FreshProcesses(l, k, w, kept) ==
    /\ lpc' = l /\ cpc' = k
    /\ wpc' = [c \in Workers |-> IF c \in kept THEN wpc[c] ELSE w]
    /\ wcur' = [c \in Workers |-> IF c \in kept THEN wcur[c] ELSE NoEvent]
    /\ orphans' = kept
    /\ session' = "closed" /\ notifies' = <<>>
    /\ lcur' = NoEvent /\ li' = 1
    /\ crows' = {} /\ ccur' = NoEvent /\ ci' = 1
    /\ queue' = [q \in Queues |-> <<>>]

\* The locks that --unlock-events gives back when the daemon starts: every taken
\* row, also one that a worker of a killed daemon still has.
UnlockedAtStart == {e \in table : UnlockEvents /\ taken[e] # "null"}

\* Nothing looks for processes of an earlier daemon; the members of Workers that
\* are not such processes are the new one's, which has at least one.
Start ==
    /\ phase = "down"
    /\ LeftBehind # Workers
    /\ starts < MaxStarts
    /\ phase' = "up"
    /\ starts' = starts + 1
    /\ FreshProcesses("wait", "sleep", "get", LeftBehind)
    /\ taken' = [e \in Events |->
                    IF e \in UnlockedAtStart THEN "null" ELSE taken[e]]
    /\ unlocks' = [e \in Events |->
                    IF e \in UnlockedAtStart THEN unlocks[e] + 1 ELSE unlocks[e]]
    /\ early' = [e \in Events |->
                    IF e \in UnlockedAtStart /\ Holders(e) # {}
                      THEN early[e] + 1 ELSE early[e]]
    /\ UNCHANGED <<written, table, failed, aged, stray, ops, faults, effects, deleted>>

\* The main process gets a signal it handles and clears the run switch.
Stop ==
    /\ phase = "up"
    /\ phase' = "stopping"
    /\ UNCHANGED <<dbVars, starts, orphans, stray, queue, listenerVars,
                   collectorVars, workerVars, ops, faults, historyVars>>

\* The joins are over and the main process exits.  Each join waits at most
\* join_timeout, so that a process may still be at work; it is a daemon process,
\* which multiprocessing ends when its parent exits, and so is the manager.
Down ==
    /\ phase = "stopping"
    /\ phase' = "down"
    /\ FreshProcesses("off", "off", "off", LeftBehind)
    /\ UNCHANGED <<dbVars, starts, stray, ops, faults, historyVars>>

\* The events of which the daemon has a copy anywhere but in a worker's hands.
Copies ==
    {e \in Events : \/ e \in {notifies[i] : i \in 1..Len(notifies)}
                    \/ \E q \in Queues : e \in {queue[q][i] : i \in 1..Len(queue[q])}
                    \/ e \in crows \cup {lcur, ccur}}

\* The main process is ended by a signal it does not handle: none of its children
\* is told or ended.  (One that was stopping has cleared the switch, and its
\* workers end after the event they have; here they may go on.)
MainKilled ==
    /\ Fault
    /\ phase # "down"
    /\ phase' = "down"
    /\ FreshProcesses("off", "off", "off", {c \in Workers : wpc[c] \in LivePCs})
    /\ stray' \in [Events -> 0..MaxStray]
    /\ \A e \in Events :
          stray'[e] > 0 <=> e \in Copies \/ (LeftBehind # {} /\ stray[e] > 0)
    /\ UNCHANGED <<dbVars, starts, ops, historyVars>>

\* The host fails, and every process on it.
HostFails ==
    /\ Fault
    /\ phase # "down" \/ LeftBehind # {}
    /\ phase' = "down"
    /\ FreshProcesses("off", "off", "off", {})
    /\ stray' = [e \in Events |-> 0]
    /\ UNCHANGED <<dbVars, starts, ops, historyVars>>

-----------------------------------------------------------------------------
(* What is left of a killed daemon: its workers take the steps above, with   *)
(* the queues, listener and collector it had.  Those are abstracted to how   *)
(* many copies of each event may still come off its queues, in any order.    *)

\* get() of the queue the orphan had.
OrphanGet(c) ==
    /\ c \in orphans
    /\ wpc[c] = "get"
    /\ \E e \in Events :
          /\ stray[e] > 0
          /\ stray' = [stray EXCEPT ![e] = @ - 1]
          /\ wcur' = [wcur EXCEPT ![c] = e]
    /\ wpc' = [wpc EXCEPT ![c] = "lock"]
    /\ UNCHANGED <<dbVars, phase, starts, orphans, queue, listenerVars,
                   collectorVars, ops, faults, historyVars>>

\* Somebody finds the idle process and ends it, or its manager (at work it ends
\* like any worker, in WorkerCrash).  Nothing comes of its queues after the last.
OrphanEnds(c) ==
    /\ c \in orphans
    /\ wpc[c] = "get"
    /\ wpc' = [wpc EXCEPT ![c] = "off"]
    /\ orphans' = orphans \ {c}
    /\ stray' = IF orphans = {c} THEN [e \in Events |-> 0] ELSE stray
    /\ UNCHANGED <<dbVars, phase, starts, queue, listenerVars, collectorVars, wcur,
                   ops, faults, historyVars>>

\* Its collector runs the same query.
OrphanCollect(e) ==
    /\ LeftBehind # {}
    /\ e \in Unprocessed
    /\ stray[e] < MaxStray
    /\ stray' = [stray EXCEPT ![e] = @ + 1]
    /\ UNCHANGED <<dbVars, phase, starts, orphans, queue, listenerVars,
                   collectorVars, workerVars, ops, faults, historyVars>>

-----------------------------------------------------------------------------
Init ==
    /\ written = {} /\ table = {} /\ aged = {}
    /\ taken = [e \in Events |-> "null"]
    /\ failed = [e \in Events |-> 0]
    /\ phase = "down" /\ starts = 0 /\ orphans = {}
    /\ stray = [e \in Events |-> 0]
    /\ queue = [q \in Queues |-> <<>>]
    /\ session = "closed" /\ notifies = <<>>
    /\ lpc = "off" /\ lcur = NoEvent /\ li = 1
    /\ cpc = "off" /\ crows = {} /\ ccur = NoEvent /\ ci = 1
    /\ wpc = [c \in Workers |-> "off"]
    /\ wcur = [c \in Workers |-> NoEvent]
    /\ ops = 0 /\ faults = 0
    /\ effects = [e \in Events |-> 0]
    /\ unlocks = [e \in Events |-> 0]
    /\ early = [e \in Events |-> 0]
    /\ deleted = {}

Database == \E e \in Events : WriteLog(e) \/ TstampAges(e) \/ TakenTimeAges(e)

Listener ==
    \/ ListenerSubscribe \/ ListenerPoll \/ ListenerTake \/ ListenerNotFound
    \/ ListenerPut \/ ListenerLoop \/ ListenerExit

Collector == CollectorQuery \/ CollectorNext \/ CollectorPut \/ CollectorExit

Worker(c) ==
    \/ WorkerGet(c) \/ WorkerExit(c) \/ WorkerLock(c) \/ WorkerLockFails(c)
    \/ WorkerHandles(c) \/ WorkerFails(c) \/ WorkerError(c)
    \/ WorkerRemove(c) \/ WorkerRelease(c)

Failure ==
    \/ ConnectionLost \/ ListenerCrash \/ CollectorCrash \/ MainKilled \/ HostFails
    \/ \E c \in Workers : WorkerCrash(c)

Operator ==
    \/ OperatorForceAll
    \/ \E e \in Events :
          OperatorUnlock(e) \/ OperatorForce(e) \/ OperatorDelete(e)

Daemon == Start \/ Stop \/ Down

Orphaned ==
    \/ \E c \in Workers : OrphanGet(c) \/ OrphanEnds(c)
    \/ \E e \in Events : OrphanCollect(e)

Next ==
    \/ Database \/ Listener \/ Collector \/ (\E c \in Workers : Worker(c))
    \/ Failure \/ Operator \/ Daemon \/ Orphaned

\* Time passes, processes that can go on do so, a handler returns or raises.
Fairness ==
    /\ \A e \in Events : WF_vars(TstampAges(e))
    /\ WF_vars(Listener)
    /\ WF_vars(Collector)
    /\ \A c \in Workers : WF_vars(Worker(c))

Spec == Init /\ [][Next]_vars

FairSpec == Spec /\ Fairness

-----------------------------------------------------------------------------
(* Properties.                                                               *)

TableType ==
    /\ written \in SUBSET Events
    /\ table \in SUBSET written
    /\ taken \in [Events -> Taken]
    /\ failed \in [Events -> Nat]
    /\ aged \in SUBSET Events

DaemonType ==
    /\ phase \in {"down", "up", "stopping"}
    /\ starts \in 0..MaxStarts
    /\ orphans \in SUBSET Workers
    /\ stray \in [Events -> 0..MaxStray]
    /\ queue \in [Queues -> Seq(Events)]
    /\ ops \in 0..MaxOps
    /\ faults \in 0..MaxFaults

ListenerType ==
    /\ session \in {"open", "closed"}
    /\ notifies \in Seq(Events)
    /\ lpc \in {"off", "wait", "loop", "push", "dead"}
    /\ lcur \in Events \cup {NoEvent}
    /\ li \in 1..Len(ProducerQueues)
    /\ lpc = "push" => lcur \in Events

CollectorType ==
    /\ crows \in SUBSET Events
    /\ cpc \in {"off", "sleep", "next", "push", "dead"}
    /\ ccur \in Events \cup {NoEvent}
    /\ ci \in 1..Len(ProducerQueues)
    /\ cpc = "push" => ccur \in Events

WorkerType ==
    /\ wpc \in [Workers -> {"off", "dead"} \cup LivePCs]
    /\ wcur \in [Workers -> Events \cup {NoEvent}]
    /\ \A c \in Workers :
          wcur[c] \in Events <=> wpc[c] \in {"lock"} \cup HolderPCs

HistoryType ==
    /\ effects \in [Events -> Nat]
    /\ unlocks \in [Events -> Nat]
    /\ early \in [Events -> Nat]
    /\ deleted \in SUBSET Events

\* Every variable stays in its range, a process has an event in hand exactly in
\* the states where the code does, and only committed events have rows.
TypeOK ==
    /\ TableType
    /\ DaemonType
    /\ ListenerType
    /\ CollectorType
    /\ WorkerType
    /\ HistoryType

\* An event is handled by one worker at a time, however many copies of it are
\* queued, whoever crashes, and also beside the workers that a killed main process
\* has left behind.  Two things are excepted, and nothing else: event_unlock, and a
\* start with --unlock-events while a worker left behind still has the event.  Each
\* time one of them hits an event that is being handled, one more worker may come
\* to handle it at the same time.
ExclusiveHandling ==
    \A e \in Events : Cardinality(Holders(e)) <= 1 + early[e]

\* handle_event completes at most once for an event, and at most once more for
\* each time its lock was given back by event_unlock or --unlock-events: not by
\* retries, copies, late notifications, crashes, or a restart that finds its
\* row still taken.
AtMostOncePerUnlock ==
    \A e \in Events : effects[e] <= 1 + unlocks[e]

\* A committed event leaves the table only after a handle_event for it has
\* completed, or by event_delete.
NoLostEvent ==
    \A e \in written \ table : effects[e] > 0 \/ e \in deleted

\* What the table says of an event.
StatusOf(e) ==
    IF e \notin written THEN "absent"
    ELSE IF e \notin table THEN "done"
    ELSE IF taken[e] = "null" THEN "pending" ELSE "claimed"

\* One claim can be out on an event that is not pending.
Claims(e) == IF StatusOf(e) \in {"claimed", "done"} THEN 1 ELSE 0

\* The holders that have not yet finished handle_event, or will give the row back.
Active(e) ==
    {c \in Workers : wcur[c] = e /\ wpc[c] \in {"handle", "release"}}

HolderBudget(e) == Cardinality(Holders(e)) <= Claims(e) + early[e]

EffectBudget(e) == effects[e] + Cardinality(Active(e)) <= Claims(e) + unlocks[e]

RowsOnly == \A e \in Events \ table : taken[e] = "null"

RemovedAfterEffect == \A c \in Workers : wpc[c] = "remove" => effects[wcur[c]] > 0

\* Why the properties above hold: each holder accounts for the row's one claim or
\* for an early unlock, and so does each completed or pending handling for the
\* claim or for an unlock.  Whoever gives a row back without being its last
\* claimant spends one of these.  It spans daemons: a killed one's workers count.
LockInv ==
    /\ \A e \in Events : HolderBudget(e) /\ EffectBudget(e)
    /\ RowsOnly
    /\ RemovedAfterEffect
    /\ NoLostEvent

\* A row that is taken and that no worker has in hand.
Stuck(e) == e \in table /\ taken[e] # "null" /\ Holders(e) = {}

\* "Manual intervention is therefore REQUIRED!": a lock that an unhandled error
\* or a dead worker has left behind is not broken by any worker, collector or plain
\* restart; only event_unlock, --unlock-events and event_delete end it.
StuckStaysStuck ==
    [][\A e \in Events :
          Stuck(e) => Stuck(e)' \/ unlocks'[e] > unlocks[e] \/ e \in deleted']_vars

InSeq(e, s) == \E i \in 1..Len(s) : s[i] = e

\* An event at its failed_limit, with no copy of it anywhere in the daemon or in
\* what a killed one has left behind.
Exhausted(e) ==
    /\ e \in table
    /\ failed[e] >= FailLimit
    /\ ~InSeq(e, notifies)
    /\ \A q \in Queues : ~InSeq(e, queue[q])
    /\ e # lcur /\ e # ccur /\ e \notin crows
    /\ \A c \in Workers : e # wcur[c]
    /\ LeftBehind # {} => stray[e] = 0

\* An event that has used up its failed_limit, once its queued copies are gone,
\* stays where it is until event_force, event_force_all or event_delete: no
\* later collection, restart or reconnection brings it back.
ExhaustedStaysExhausted ==
    [][\A e \in Events :
          Exhausted(e) => Exhausted(e)' \/ failed'[e] = 0 \/ e \in deleted']_vars

\* Every queue is read by a live worker and the collector is there.
Healthy ==
    /\ phase = "up"
    /\ cpc \notin {"off", "dead"}
    /\ \A q \in Queues :
          \E c \in Workers : c \notin orphans /\ QueueOf[c] = q /\ wpc[c] \in LivePCs

\* An event that is committed does not wait for ever while the collector and a
\* worker of each queue live, even if its notification was lost or the listener
\* is dead: it is removed, or has used up its retries, or its lock is stuck.
EventuallySettled ==
    \A e \in Events :
        e \in table ~> \/ e \notin table \/ failed[e] >= FailLimit
                       \/ Stuck(e) \/ ~Healthy

-----------------------------------------------------------------------------
(* The daemon implements EventLedger.                                        *)

Ledger == INSTANCE EventLedger WITH
    status <- [e \in Events |-> StatusOf(e)],
    delivered <- effects,
    revoked <- unlocks,
    discarded <- deleted

\* Seen from outside, through the table alone, the daemon is an EventLedger:
\* whatever the queues, the notifications, the crashes and the restarts do, a
\* claim is taken on a pending event only, is given back only undelivered, and
\* an event leaves the table undelivered only when the operator discards it.
ImplementsLedger == Ledger!Spec
=============================================================================
