----------------------------- MODULE TaskQueue -----------------------------
(***************************************************************************)
(* One queue of the task_queue table: the consumers that turn messages     *)
(* from a broker into tasks, the processor that cron runs over the tasks   *)
(* that are due, and the bofhd operator.                                   *)
(*                                                                         *)
(* A task says that something is to be imported again for a key.  Whoever  *)
(* pushes a task first reads the row and then inserts or updates it, and   *)
(* the processor works from a list it has read before, in three            *)
(* transactions for each task: it removes the row, handles the task, and   *)
(* puts a retry task back if that failed.  Consumers push in between.      *)
(*                                                                         *)
(* Time is abstracted to whether a row's nbf has been reached; an nbf that *)
(* a consumer holds does not age.  The database is at the isolation level  *)
(* "read committed": an INSERT or an UPDATE and the COMMIT after it are    *)
(* one step.                                                               *)
(***************************************************************************)
EXTENDS Naturals, FiniteSets

CONSTANTS
    Keys,           \* the key column: a person, an employee, ...
    Subs,           \* the sub column: sub-queues
    Regular,        \* the sub-queue "" of regular tasks
    Consumers,      \* processes that push tasks for messages
    NoMessage,      \* no message in hand
    Deliveries,     \* <<sub, nbf>> of the tasks that messages ask for
    MaxAttempts,    \* max_attempts of the handler
    DataInPayload,  \* the handler acts on the payload, or looks its key up
    NextTasks,      \* the handler may queue a task for a later date
    MaxChanges,     \* bound: changes of each key
    MaxOps,         \* bound: operator commands
    MaxFaults       \* bound: crashes

ASSUME TaskConstants ==
    /\ Keys # {}
    /\ Regular \in Subs
    /\ Deliveries \subseteq Subs \X {"due", "later"}
    /\ MaxAttempts \in Nat \ {0}
    /\ DataInPayload \in BOOLEAN
    /\ NextTasks \in BOOLEAN
    /\ MaxChanges \in Nat
    /\ MaxOps \in Nat
    /\ MaxFaults \in Nat

VARIABLES
    row,        \* the table, by sub-queue and key
    messages,   \* messages of the broker that are not acknowledged
    \* the consumers
    cpc, hand,
    new,        \* the task to push
    cprev,      \* what sql_push has read
    \* the processor
    ppc,
    todo,       \* tasks of select_tasks not yet processed
    cur,        \* the task in hand
    got,        \* the version of its data that the handler has read
    pprev,      \* what sql_push has read
    \* history
    version,    \* changes of each key so far
    seen,       \* ... the last one that was imported
    waived,     \* ... the last one whose task a crash or the operator dropped
    ops, faults

tableVars == <<row, messages>>
consumerVars == <<cpc, hand, new, cprev>>
processorVars == <<ppc, todo, cur, got, pprev>>
historyVars == <<version, seen, waived>>
vars == <<tableVars, consumerVars, processorVars, historyVars, ops, faults>>

Tasks == Subs \X Keys
KeyOf(t) == t[2]

Row == [attempts : Nat, nbf : {"none", "due", "later"}, payload : Nat]
Message == [task : Tasks, nbf : {"due", "later"}, version : Nat]
Snapshot == [task : Tasks, attempts : Nat, payload : Nat]

\* No row.  A payload of 0 stands for none, or for one that is the same in
\* every task of a key.
NoRow == [attempts |-> 0, nbf |-> "none", payload |-> 0]
Present(r) == r.nbf # "none"
Abandoned(r) == Present(r) /\ r.attempts >= MaxAttempts

\* What the processor has in hand between two tasks.
NoTask == [task |-> <<Regular, CHOOSE k \in Keys : TRUE>>,
           attempts |-> 0, payload |-> 0]

Fault == faults < MaxFaults /\ faults' = faults + 1

-----------------------------------------------------------------------------
(* task_queue.sql_push                                                       *)

\* nothing to update, as far as the model can tell; reason and nbf may differ
NothingToUpdate(prev, vals) ==
    /\ vals.attempts = prev.attempts
    /\ vals.nbf = prev.nbf
    /\ vals.payload \in {0, prev.payload}

\* The row an UPDATE leaves behind.  It writes the columns that differ from what
\* was read before (a nbf that is not told apart from it may be written or not).
Updated(r, prev, vals) ==
    {[attempts |-> IF vals.attempts = prev.attempts THEN r.attempts
                                                    ELSE vals.attempts,
      nbf |-> n,
      payload |-> IF vals.payload \in {0, prev.payload} THEN r.payload
                                                        ELSE vals.payload] :
        n \in {vals.nbf} \cup (IF vals.nbf = prev.nbf THEN {r.nbf} ELSE {})}

\* The rows that a push may leave in place of r.  An INSERT fails if there is a
\* row by now, an UPDATE if there is none any more.
Pushed(r, prev, vals) ==
    IF ~Present(prev) THEN IF Present(r) THEN {} ELSE {vals}
    ELSE (IF Present(r) THEN Updated(r, prev, vals) ELSE {})
            \cup (IF NothingToUpdate(prev, vals) THEN {r} ELSE {})

Conflict(r, prev) == Present(r) # Present(prev)

-----------------------------------------------------------------------------
(* The world outside, and time.                                              *)

\* Something changes for k, and the source sends a message about it.
Change(k) ==
    /\ version[k] < MaxChanges
    /\ version' = [version EXCEPT ![k] = @ + 1]
    /\ \E d \in Deliveries :
          messages' = messages \cup
              {[task |-> <<d[1], k>>, nbf |-> d[2], version |-> version[k] + 1]}
    /\ UNCHANGED <<row, consumerVars, processorVars, seen, waived,
                   ops, faults>>

\* A row's nbf is reached.
BecomesDue(t) ==
    /\ row[t].nbf = "later"
    /\ row' = [row EXCEPT ![t].nbf = "due"]
    /\ UNCHANGED <<messages, consumerVars, processorVars, historyVars, ops, faults>>

-----------------------------------------------------------------------------
(* consume-tasks: TaskHandler.                                               *)

Receive(c) ==
    /\ cpc[c] = "idle"
    /\ \E m \in messages :
          /\ \A d \in Consumers : hand[d] # m
          /\ hand' = [hand EXCEPT ![c] = m]
    /\ cpc' = [cpc EXCEPT ![c] = "get"]
    /\ UNCHANGED <<tableVars, new, cprev, processorVars, historyVars, ops, faults>>

\* merge_tasks: of two nbf the earlier one, and no attempts.  A payload is made
\* from what the source says when the message is handled.
Merged(m, old) ==
    [attempts |-> 0,
     nbf |-> IF old.nbf = "due" THEN "due" ELSE m.nbf,
     payload |-> IF DataInPayload THEN version[KeyOf(m.task)] ELSE 0]

\* get_task and merge_tasks
GetTask(c) ==
    /\ cpc[c] = "get"
    /\ new' = [new EXCEPT ![c] = Merged(hand[c], row[hand[c].task])]
    /\ cpc' = [cpc EXCEPT ![c] = "read"]
    /\ UNCHANGED <<tableVars, hand, cprev, processorVars, historyVars, ops, faults>>

\* sql_push reads the row again.
PushRead(c) ==
    /\ cpc[c] = "read"
    /\ cprev' = [cprev EXCEPT ![c] = row[hand[c].task]]
    /\ cpc' = [cpc EXCEPT ![c] = "write"]
    /\ UNCHANGED <<tableVars, hand, new, processorVars, historyVars, ops, faults>>

PushWrite(c) ==
    LET t == hand[c].task
    IN  /\ cpc[c] = "write"
        /\ \E r \in Pushed(row[t], cprev[c], new[c]) :
              /\ row' = [row EXCEPT ![t] = r]
        /\ cpc' = [cpc EXCEPT ![c] = "ack"]
        /\ UNCHANGED <<messages, hand, new, cprev, processorVars, version,
                       seen, waived, ops, faults>>

\* on_ok
Ack(c) ==
    /\ cpc[c] = "ack"
    /\ messages' = messages \ {hand[c]}
    /\ cpc' = [cpc EXCEPT ![c] = "idle"]
    /\ hand' = [hand EXCEPT ![c] = NoMessage]
    /\ new' = [new EXCEPT ![c] = NoRow]
    /\ cprev' = [cprev EXCEPT ![c] = NoRow]
    /\ UNCHANGED <<row, processorVars, historyVars, ops, faults>>

\* Mutant: messages are delivered with auto_ack.
RedeliverNever(c) ==
    /\ messages' = messages \ {hand[c]}
    /\ cpc' = [cpc EXCEPT ![c] = "idle"]
    /\ hand' = [hand EXCEPT ![c] = NoMessage]
    /\ new' = [new EXCEPT ![c] = NoRow]
    /\ cprev' = [cprev EXCEPT ![c] = NoRow]
    /\ UNCHANGED <<row, processorVars, historyVars, ops>>

\* The message is still the broker's, which delivers it again.
Redeliver(c) ==
    /\ cpc' = [cpc EXCEPT ![c] = "idle"]
    /\ hand' = [hand EXCEPT ![c] = NoMessage]
    /\ new' = [new EXCEPT ![c] = NoRow]
    /\ cprev' = [cprev EXCEPT ![c] = NoRow]
    /\ UNCHANGED <<tableVars, processorVars, historyVars, ops>>

\* The INSERT or the UPDATE raises: on_error, and the process ends.
PushFails(c) ==
    /\ cpc[c] = "write"
    /\ Conflict(row[hand[c].task], cprev[c])
    /\ Redeliver(c)
    /\ UNCHANGED faults

\* The process or its connection to the broker is lost.
ConsumerCrash(c) ==
    /\ Fault
    /\ cpc[c] # "idle"
    /\ Redeliver(c)

-----------------------------------------------------------------------------
(* QueueProcessor                                                            *)

\* Mutant: the query leaves out `attempts < :max`.
SelectedAll == {t \in Tasks : row[t].nbf = "due"}

\* The rows that sql_search finds for the handler's queue.
Selected ==
    {t \in Tasks : row[t].nbf = "due" /\ row[t].attempts < MaxAttempts}

\* A run starts, without --limit: select_tasks.
SelectTasks ==
    /\ ppc = "off"
    /\ todo' = {[task |-> t, attempts |-> row[t].attempts,
                 payload |-> row[t].payload] : t \in Selected}
    /\ ppc' = "next"
    /\ UNCHANGED <<tableVars, consumerVars, cur, got, pprev,
                   historyVars, ops, faults>>

\* process_task: pop_task, by sub-queue and key alone; what the popped row holds
\* is not looked at.
PopTask ==
    /\ ppc = "next"
    /\ \E s \in todo :
          /\ Present(row[s.task])
          /\ row' = [row EXCEPT ![s.task] = NoRow]
          /\ todo' = todo \ {s}
          /\ cur' = s
    /\ ppc' = "fetch"
    /\ UNCHANGED <<messages, consumerVars, got, pprev, version,
                   seen, waived, ops, faults>>

\* The task is gone: log an error and go on.
TaskGone ==
    /\ ppc = "next"
    /\ \E s \in todo :
          /\ ~Present(row[s.task])
          /\ todo' = todo \ {s}
    /\ UNCHANGED <<tableVars, consumerVars, ppc, cur, got, pprev,
                   historyVars, ops, faults>>

\* The handler gets hold of the data.
Fetch ==
    /\ ppc = "fetch"
    /\ got' = IF DataInPayload THEN cur.payload ELSE version[KeyOf(cur.task)]
    /\ ppc' = "import"
    /\ UNCHANGED <<tableVars, consumerVars, todo, cur, pprev,
                   historyVars, ops, faults>>

\* The transaction of the handler commits.
Imports ==
    seen' = [seen EXCEPT ![KeyOf(cur.task)] = IF got > @ THEN got ELSE @]

\* process_task is done with the task.
TaskDone ==
    /\ ppc' = "next"
    /\ cur' = NoTask
    /\ got' = 0
    /\ pprev' = NoRow

ImportDone ==
    /\ ppc = "import"
    /\ Imports
    /\ TaskDone
    /\ UNCHANGED <<tableVars, consumerVars, todo, version,
                   waived, ops, faults>>

\* The data says that there is something to do at a later date, in delay_sub
\* (unset) of the queue.
NextTask == <<Regular, KeyOf(cur.task)>>

NextRead ==
    /\ NextTasks
    /\ ppc = "import"
    /\ pprev' = row[NextTask]
    /\ ppc' = "nextwrite"
    /\ UNCHANGED <<tableVars, consumerVars, todo, cur, got,
                   historyVars, ops, faults>>

\* The next task sets no attempts: an INSERT takes the default, an UPDATE leaves
\* them alone.
NextWrite ==
    /\ ppc = "nextwrite"
    /\ \E r \in Pushed(row[NextTask], pprev,
                       [attempts |-> pprev.attempts, nbf |-> "later",
                        payload |-> cur.payload]) :
          row' = [row EXCEPT ![NextTask] = r]
    /\ Imports
    /\ TaskDone
    /\ UNCHANGED <<messages, consumerVars, todo, version,
                   waived, ops, faults>>

\* Mutant: a task that fails is not queued again.
ImportFailsSilently ==
    /\ ppc \in {"import", "nextwrite"}
    /\ TaskDone
    /\ UNCHANGED <<tableVars, consumerVars, todo, historyVars,
                   ops, faults>>

\* The handler raises, or its transaction cannot commit, or the push of the next
\* task fails: the transaction is rolled back.
ImportFails ==
    /\ ppc \in {"import", "nextwrite"}
    /\ ppc' = "retry"
    /\ got' = 0
    /\ pprev' = NoRow
    /\ UNCHANGED <<tableVars, consumerVars, todo, cur, historyVars,
                   ops, faults>>

RetryRead ==
    /\ ppc = "retry"
    /\ pprev' = row[cur.task]
    /\ ppc' = "retrywrite"
    /\ UNCHANGED <<tableVars, consumerVars, todo, cur, got,
                   historyVars, ops, faults>>

\* Mutant: the attempts are copied.
RetryTaskUncounted ==
    [attempts |-> cur.attempts, nbf |-> "later", payload |-> cur.payload]

\* get_retry_task: made of the task as it was selected.
RetryTask ==
    [attempts |-> cur.attempts + 1, nbf |-> "later", payload |-> cur.payload]

\* The reason of a retry task is never the one in the table, so that there is
\* always something to update.
RetryWrite ==
    /\ ppc = "retrywrite"
    /\ Present(row[cur.task]) = Present(pprev)
    /\ \E r \in Pushed(row[cur.task], pprev, RetryTask) :
          row' = [row EXCEPT ![cur.task] = r]
    /\ TaskDone
    /\ UNCHANGED <<messages, consumerVars, todo, historyVars,
                   ops, faults>>

\* The processor ends.
ProcessorEnds ==
    /\ ppc' = "off"
    /\ todo' = {}
    /\ cur' = NoTask
    /\ got' = 0
    /\ pprev' = NoRow

\* The push of the retry task fails, which ends the run.
RetryFails ==
    /\ ppc = "retrywrite"
    /\ Conflict(row[cur.task], pprev)
    /\ ProcessorEnds
    /\ UNCHANGED <<tableVars, consumerVars, historyVars, ops, faults>>

\* The list is done, and the run ends (with warnings about abandoned tasks).
Report ==
    /\ ppc = "next"
    /\ todo = {}
    /\ ProcessorEnds
    /\ UNCHANGED <<tableVars, consumerVars, historyVars, ops, faults>>

\* Killed, or the database is lost.  A task in hand is gone with it.
ProcessorCrash ==
    /\ Fault
    /\ ppc # "off"
    /\ ProcessorEnds
    /\ waived' = IF ppc = "next" THEN waived
                 ELSE [waived EXCEPT ![KeyOf(cur.task)] = version[KeyOf(cur.task)]]
    /\ UNCHANGED <<tableVars, consumerVars, version, seen,
                   ops>>

-----------------------------------------------------------------------------
(* The operator: bofhd_task_cmds.                                            *)

Command == ops < MaxOps /\ ops' = ops + 1 /\ UNCHANGED faults

\* task add; of a task that is in the queue, whatever its state, it says so.
TaskAdd(t) ==
    /\ Command
    /\ ~Present(row[t])
    /\ row' = [row EXCEPT ![t] = [NoRow EXCEPT !.nbf = "due"]]
    /\ UNCHANGED <<messages, consumerVars, processorVars, historyVars>>

\* task remove
TaskRemove(t) ==
    /\ Command
    /\ Present(row[t])
    /\ row' = [row EXCEPT ![t] = NoRow]
    /\ waived' = [waived EXCEPT ![KeyOf(t)] = version[KeyOf(t)]]
    /\ UNCHANGED <<messages, consumerVars, processorVars, version, seen>>

-----------------------------------------------------------------------------
Init ==
    /\ row = [t \in Tasks |-> NoRow]
    /\ messages = {}
    /\ cpc = [c \in Consumers |-> "idle"]
    /\ hand = [c \in Consumers |-> NoMessage]
    /\ new = [c \in Consumers |-> NoRow]
    /\ cprev = [c \in Consumers |-> NoRow]
    /\ ppc = "off" /\ todo = {} /\ cur = NoTask /\ got = 0
    /\ pprev = NoRow
    /\ version = [k \in Keys |-> 0]
    /\ seen = [k \in Keys |-> 0]
    /\ waived = [k \in Keys |-> 0]
    /\ ops = 0 /\ faults = 0

Consumer(c) ==
    Receive(c) \/ GetTask(c) \/ PushRead(c) \/ PushWrite(c) \/ PushFails(c) \/ Ack(c)

Processor ==
    \/ SelectTasks \/ PopTask \/ TaskGone \/ Fetch \/ ImportDone \/ NextRead
    \/ NextWrite \/ ImportFails \/ RetryRead \/ RetryWrite \/ RetryFails \/ Report

Next ==
    \/ \E k \in Keys : Change(k)
    \/ \E t \in Tasks : BecomesDue(t) \/ TaskAdd(t) \/ TaskRemove(t)
    \/ \E c \in Consumers : Consumer(c) \/ ConsumerCrash(c)
    \/ Processor \/ ProcessorCrash

\* Time passes, the broker delivers, and cron runs the processor again.
Fairness ==
    /\ \A t \in Tasks : WF_vars(BecomesDue(t))
    /\ \A c \in Consumers : WF_vars(Consumer(c))
    /\ WF_vars(Processor)

Spec == Init /\ [][Next]_vars
FairSpec == Spec /\ Fairness

-----------------------------------------------------------------------------
(* Properties.                                                               *)

BusyPCs == {"fetch", "import", "nextwrite", "retry", "retrywrite"}

TableType ==
    /\ row \in [Tasks -> Row]
    /\ \A t \in Tasks : row[t].attempts <= MaxAttempts
    /\ messages \in SUBSET Message

ConsumerType ==
    /\ cpc \in [Consumers -> {"idle", "get", "read", "write", "ack"}]
    /\ hand \in [Consumers -> Message \cup {NoMessage}]
    /\ \A c \in Consumers : cpc[c] # "idle" => hand[c] \in messages
    /\ new \in [Consumers -> Row]
    /\ \A c \in Consumers : new[c].attempts = 0
    /\ cprev \in [Consumers -> Row]

ProcessorType ==
    /\ ppc \in {"off", "next"} \cup BusyPCs
    /\ todo \in SUBSET Snapshot
    /\ \A s \in todo : s.attempts < MaxAttempts
    /\ cur \in Snapshot
    /\ cur.attempts < MaxAttempts
    /\ got \in Nat
    /\ pprev \in Row
    /\ pprev.attempts <= MaxAttempts

HistoryType ==
    /\ version \in [Keys -> Nat]
    /\ seen \in [Keys -> Nat]
    /\ waived \in [Keys -> Nat]
    /\ ops \in 0..MaxOps
    /\ faults \in 0..MaxFaults

\* Every variable stays in its range; no attempts are counted beyond
\* max_attempts, and a consumer at work has a message in hand that the broker
\* still keeps.
TypeOK ==
    /\ TableType
    /\ ConsumerType
    /\ ProcessorType
    /\ HistoryType

\* A row from which version v or a later one of the data will be imported.
Carries(r, v) == Present(r) /\ (DataInPayload => r.payload >= v)

\* The processor will import version v or a later one of k, or put it back.
InProcess(k, v) ==
    /\ ppc \in BusyPCs
    /\ KeyOf(cur.task) = k
    /\ ppc \in {"import", "nextwrite"} => got >= v
    /\ DataInPayload => cur.payload >= v

\* Version v of k has been imported, or is going to be, without any message.
Taken(k, v) ==
    \/ seen[k] >= v
    \/ waived[k] >= v
    \/ \E s \in Subs : Carries(row[<<s, k>>], v)
    \/ InProcess(k, v)

\* No change is forgotten: until it has been imported, there is a message, a row
\* or a task in hand that will see it, unless a crash or task_remove has dropped
\* its task.  Not the window between removing a row and putting it back, nor a
\* push that finds a row and leaves it alone while it is being popped, nor a
\* push that fails loses it.
NoLostChange ==
    \A k \in Keys :
        \/ Taken(k, version[k])
        \/ \E m \in messages : KeyOf(m.task) = k /\ m.version = version[k]

\* Taken for good: the processor, if it has the task in hand, will not come to
\* put it back over a row that has been removed since it looked.
Secured(k, v) ==
    \/ seen[k] >= v
    \/ waived[k] >= v
    \/ \E s \in Subs : Carries(row[<<s, k>>], v)
    \/ InProcess(k, v) /\ (ppc = "retrywrite" => ~Present(pprev))

\* Consumers have different messages in hand, and tasks to push for them.
HandsApart ==
    /\ \A c, d \in Consumers :
          c # d /\ cpc[c] # "idle" /\ cpc[d] # "idle" => hand[c] # hand[d]
    /\ \A c \in Consumers : cpc[c] \in {"read", "write"} => Present(new[c])

\* A message is sent after the change it is about.
NoForesight == \A m \in messages : m.version <= version[KeyOf(m.task)]

\* A consumer that has found a row, or left one, need not care what becomes of it.
SecuredByPush ==
    \A c \in Consumers :
        \/ cpc[c] = "ack"
        \/ cpc[c] = "write" /\ Present(cprev[c])
        => Secured(KeyOf(hand[c].task), hand[c].version)

\* Why no change is forgotten, where the handler looks its key up: what has been
\* secured stays secured (by then the row may have been popped, handled, put back
\* and popped again), so that a consumer may leave a row alone because of what it
\* read some time ago.
ImportInv ==
    /\ HandsApart
    /\ NoForesight
    /\ SecuredByPush
    /\ \A k \in Keys :
          \/ Secured(k, version[k])
          \/ \E m \in messages : KeyOf(m.task) = k /\ m.version = version[k]

\* A task that has been given up is left alone by the processor: only a new
\* message or the operator brings it back.
GivenUpForGood ==
    [][\A t \in Tasks :
          Abandoned(row[t]) => \/ Abandoned(row'[t])
                               \/ Present(row'[t]) /\ row'[t].attempts = 0
                               \/ ops' > ops]_vars

\* Each change is imported, if need be in a later run, or its task is given up
\* after max_attempts failures, or dropped by a crash or by task_remove.
EventuallyImported ==
    \A k \in Keys, v \in 1..MaxChanges :
        version[k] = v ~> \/ seen[k] >= v
                          \/ waived[k] >= v
                          \/ \E s \in Subs : Abandoned(row[<<s, k>>])

-----------------------------------------------------------------------------
(* The queue implements a TaskLedger for each key.                           *)

\* Where the last change of k is.
Stage(k) ==
    IF seen[k] >= version[k] \/ waived[k] >= version[k] THEN "settled"
    ELSE IF Secured(k, version[k]) THEN "queued"
    ELSE IF \E m \in messages : KeyOf(m.task) = k /\ m.version = version[k]
         THEN "announced" ELSE "lost"

Ledger(k) == INSTANCE TaskLedger WITH
    changes <- version[k], imported <- seen[k], dropped <- waived[k], stage <- Stage(k)

\* Where the handler looks its key up, whoever sees only the source, the imports and
\* what is dropped sees a TaskLedger: a change is announced, queued and settled in this
\* order, never lost in between; imports never go back, and see nothing before it
\* has happened.
ImplementsLedger ==
    /\ \A k \in Keys : Ledger(k)!Init
    /\ [][\A k \in Keys : [Ledger(k)!Next]_(Ledger(k)!vars)]_vars
=============================================================================
