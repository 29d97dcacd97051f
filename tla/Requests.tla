------------------------------ MODULE Requests ------------------------------
(* bofhd requests: operations that commands and scripts leave in the table   *)
(* bofhd_request, to be carried out later by process_bofhd_requests.py.      *)
(*                                                                           *)
(* Commands add, change and cancel requests (request.py,                     *)
(* bofhd_requests_cmds.py).  Several processors may run at the same time     *)
(* (process_requests.py): each lists the requests that are due, checks one,  *)
(* takes its lock file and calls the handler of its operation.  The lock is  *)
(* flock on a file named after the request; it is kept until the processor   *)
(* wants the next one, and the file is removed after it was released.        *)
(*                                                                           *)
(* The requests here are about one entity: only those can conflict, and      *)
(* processors treat all alike.                                               *)
EXTENDS Integers, FiniteSets

CONSTANTS
    Ops,            \* operations
    ConflictsOf,    \* BofhdRequests.get_conflicts: operations in its way
    Delayed,        \* operations whose handler is registered with a delay
    Adders,         \* bofhd sessions and scripts
    Procs,          \* processors
    NoOp,           \* no request in the making
    Inodes,         \* numbers for lock files, enough to have a new one
    MaxRequests,    \* bound: values taken from request_id_seq
    MaxPerPass,     \* max_requests
    MaxFaults,      \* bound: failures of handlers, lock files and processors
    MaxOps          \* bound: requests cancelled or changed

ASSUME RequestsAssumption ==
    /\ ConflictsOf \in [Ops -> SUBSET Ops]
    /\ Delayed \subseteq Ops
    /\ NoOp \notin Ops
    /\ IsFiniteSet(Procs)
    /\ Inodes \subseteq Nat \ {0}
    /\ MaxRequests \in Nat
    /\ MaxPerPass \in Nat
    /\ MaxFaults \in Nat
    /\ MaxOps \in Nat

VARIABLES
    table,          \* bofhd_request: rows [op, due] by request_id
    seq,            \* last value of request_id_seq
    adding,         \* per adder: the operation of the request in the making
    replaces,       \* per adder: the request that it replaces, or 0
    seen,           \* per adder: requests there were when it looked for conflicts
    pc,             \* per processor: where it is
    ops,            \* per processor: operations of this pass still to come
    todo,           \* per processor: requests of the operation it has listed
    cur,            \* per processor: the request in hand, or 0
    budget,         \* per processor: max_requests
    fd,             \* per processor: RequestLockHandler.lockfd: inode, or 0
    lockreq,        \* per processor: RequestLockHandler.reqid
    locked,         \* per processor: it has the flock on fd
    file,           \* per request: the inode that its lock file is, or 0
    finished,       \* history: requests that a processor has completed
    withdrawn,      \* history: requests that were cancelled or replaced
    times,          \* history: how often a request was completed
    opOf,           \* history: its operation, in every row that was read of it
    raced,          \* history: pairs added without one having seen the other
    torn,           \* history: requests whose lock file was removed while open
    faults, cmds    \* counters for the bounds

tableVars == <<table, seq>>
adderVars == <<adding, replaces, seen, raced>>
passVars == <<ops, todo, cur, budget>>
lockVars == <<fd, lockreq, locked, file, torn>>
historyVars == <<finished, withdrawn, times, opOf>>
vars == <<tableVars, adderVars, pc, passVars, lockVars, historyVars, faults, cmds>>

Ids == 1 .. MaxRequests

-----------------------------------------------------------------------------
(* Commands.                                                                 *)

\* Mutant: an operation does not conflict with itself.
ConflictingOthers(op, others) ==
    {r \in others : table[r].op \in ConflictsOf[op] \ {op}}

\* add_request: the requests that stand in the way of a new one.
Conflicting(op, others) == {r \in others : table[r].op \in ConflictsOf[op]}

\* add_request, up to the INSERT; for misc_change_request the request old has
\* been deleted before, in the same transaction.  A command that fails after this
\* leaves nothing behind.
AddCheck(a, op, old) ==
    /\ adding[a] = NoOp
    /\ seq < MaxRequests
    /\ old # 0 => old \in DOMAIN table /\ table[old].op = op /\ cmds < MaxOps
    /\ Conflicting(op, DOMAIN table \ {old}) = {}
    /\ adding' = [adding EXCEPT ![a] = op]
    /\ replaces' = [replaces EXCEPT ![a] = old]
    /\ seen' = [seen EXCEPT ![a] = DOMAIN table]
    /\ cmds' = IF old = 0 THEN cmds ELSE cmds + 1
    /\ UNCHANGED <<tableVars, raced, pc, passVars, lockVars, historyVars, faults>>

\* The INSERT and the commit of the command.  The request that is replaced may
\* have been completed since: then there was nothing to delete, and the new one
\* is added all the same.  Requests are numbered here as they become visible; their
\* request_ids are taken a little earlier and nothing reads an order from them.
AddCommit(a, due) ==
    LET new == seq + 1
        rest == DOMAIN table \ {replaces[a]}
    IN  /\ adding[a] # NoOp
        /\ seq < MaxRequests
        /\ seq' = new
        /\ table' = [r \in rest \union {new} |->
                       IF r = new THEN [op |-> adding[a], due |-> due] ELSE table[r]]
        /\ withdrawn' = withdrawn \union (DOMAIN table \intersect {replaces[a]})
        /\ opOf' = [opOf EXCEPT ![new] = adding[a]]
        /\ raced' = raced \union {<<r, new>> : r \in rest \ seen[a]}
        /\ adding' = [adding EXCEPT ![a] = NoOp]
        /\ replaces' = [replaces EXCEPT ![a] = 0]
        /\ seen' = [seen EXCEPT ![a] = {}]
        /\ UNCHANGED <<pc, passVars, lockVars, finished, times, faults, cmds>>

Without(f, r) == [x \in DOMAIN f \ {r} |-> f[x]]

\* misc_cancel_request, whoever may have the request in hand.
Cancel(r) ==
    /\ cmds < MaxOps
    /\ cmds' = cmds + 1
    /\ r \in DOMAIN table
    /\ table' = Without(table, r)
    /\ withdrawn' = withdrawn \union {r}
    /\ UNCHANGED <<seq, adderVars, pc, passVars, lockVars, finished, times, opOf,
                   faults>>

\* Time passes until run_at.
BecomesDue(r) ==
    /\ r \in DOMAIN table
    /\ ~table[r].due
    /\ table' = [table EXCEPT ![r].due = TRUE]
    /\ UNCHANGED <<seq, adderVars, pc, passVars, lockVars, historyVars, faults, cmds>>

-----------------------------------------------------------------------------
(* Processors: RequestProcessor.process_requests and RequestLockHandler.     *)

\* get_requests(operation=op, only_runnable=True).
List(p, op) ==
    /\ pc[p] = "next"
    /\ todo[p] = {}
    /\ op \in ops[p]
    /\ ops' = [ops EXCEPT ![p] = @ \ {op}]
    /\ todo' = [todo EXCEPT ![p] =
                  {r \in DOMAIN table : table[r].op = op /\ table[r].due}]
    /\ UNCHANGED <<tableVars, adderVars, pc, cur, budget, lockVars, historyVars,
                   faults, cmds>>

\* The loop over the requests of an operation is left: max_runtime has passed, or
\* it is no time for batch moves.
CutShort(p) ==
    /\ pc[p] = "next"
    /\ todo[p] # {}
    /\ faults < MaxFaults
    /\ faults' = faults + 1
    /\ todo' = [todo EXCEPT ![p] = {}]
    /\ UNCHANGED <<tableVars, adderVars, pc, ops, cur, budget, lockVars,
                   historyVars, cmds>>

\* is_valid_request, before the lock of the request is taken; then grab releases
\* the lock that the processor has.
Check(p, r) ==
    /\ pc[p] = "next"
    /\ r \in todo[p]
    /\ todo' = [todo EXCEPT ![p] = @ \ {r}]
    /\ \/ /\ r \in DOMAIN table
          /\ cur' = [cur EXCEPT ![p] = r]
          /\ pc' = [pc EXCEPT ![p] = IF fd[p] # 0 THEN "unlink" ELSE "open"]
          /\ locked' = [locked EXCEPT ![p] = FALSE]
       \/ /\ r \notin DOMAIN table
          /\ UNCHANGED <<cur, pc, locked>>
    /\ UNCHANGED <<tableVars, adderVars, ops, budget, fd, lockreq, file, torn,
                   historyVars, faults, cmds>>

\* A process ends, and the next one may start: the kernel has closed its files,
\* the lock file stays.
Ended(p) ==
    /\ pc' = [pc EXCEPT ![p] = "next"]
    /\ ops' = [ops EXCEPT ![p] = Ops]
    /\ todo' = [todo EXCEPT ![p] = {}]
    /\ cur' = [cur EXCEPT ![p] = 0]
    /\ budget' = [budget EXCEPT ![p] = MaxPerPass]
    /\ fd' = [fd EXCEPT ![p] = 0]
    /\ lockreq' = [lockreq EXCEPT ![p] = 0]
    /\ locked' = [locked EXCEPT ![p] = FALSE]

\* The pass is over: closing() gives the last lock back, first LOCK_UN.
Finish(p) ==
    /\ pc[p] = "next"
    /\ todo[p] = {}
    /\ ops[p] = {}
    /\ \/ /\ fd[p] # 0
          /\ pc' = [pc EXCEPT ![p] = "unlink"]
          /\ locked' = [locked EXCEPT ![p] = FALSE]
          /\ UNCHANGED <<passVars, fd, lockreq>>
       \/ fd[p] = 0 /\ Ended(p)
    /\ UNCHANGED <<tableVars, adderVars, file, torn, historyVars, faults, cmds>>

\* An exception leaves process_requests: closing() closes the lock, LOCK_UN first.
Raises(p) ==
    /\ pc' = [pc EXCEPT ![p] = "unlink"]
    /\ locked' = [locked EXCEPT ![p] = FALSE]
    /\ ops' = [ops EXCEPT ![p] = {}]
    /\ todo' = [todo EXCEPT ![p] = {}]
    /\ cur' = [cur EXCEPT ![p] = 0]
    /\ UNCHANGED <<budget, fd, lockreq>>

\* close: the lock file is removed, by its name.  Where another processor has
\* done so in the meantime, OSError ends the pass, or the process.
Unlink(p) ==
    LET r == lockreq[p]
    IN  /\ pc[p] = "unlink"
        /\ file' = [file EXCEPT ![r] = 0]
        /\ torn' = IF \E q \in Procs \ {p} :
                         lockreq[q] = r /\ fd[q] = file[r]
                   THEN torn \union {r} ELSE torn
        /\ \/ /\ cur[p] # 0
              /\ file[r] # 0
              /\ pc' = [pc EXCEPT ![p] = "open"]
              /\ fd' = [fd EXCEPT ![p] = 0]
              /\ lockreq' = [lockreq EXCEPT ![p] = 0]
              /\ UNCHANGED <<passVars, locked>>
           \/ cur[p] # 0 /\ file[r] = 0 /\ Raises(p)
           \/ cur[p] = 0 /\ Ended(p)
        /\ UNCHANGED <<tableVars, adderVars, historyVars, faults, cmds>>

\* The inodes of request r that are in use: its lock file, or open somewhere.
InUse(r) == {file[r]} \union {fd[q] : q \in {x \in Procs : lockreq[x] = r}}

\* Mutant: the name of the lock is not brought up to date.
OpenOldName(p) ==
    LET r == cur[p]
    IN  /\ pc[p] = "open"
        /\ pc' = [pc EXCEPT ![p] = "grab"]
        /\ \E i \in Inodes :
              /\ IF file[r] # 0
                 THEN i = file[r]
                 ELSE i \notin InUse(r) /\ \A j \in Inodes \ InUse(r) : i =< j
              /\ fd' = [fd EXCEPT ![p] = i]
              /\ file' = [file EXCEPT ![r] = i]
        /\ UNCHANGED <<tableVars, adderVars, passVars, lockreq, locked, torn,
                       historyVars, faults, cmds>>

\* grab: open(..., "wb") makes the file when there is none by that name.
Open(p) ==
    LET r == cur[p]
    IN  /\ pc[p] = "open"
        /\ pc' = [pc EXCEPT ![p] = "grab"]
        /\ \E i \in Inodes :
              /\ IF file[r] # 0
                 THEN i = file[r]
                 ELSE i \notin InUse(r) /\ \A j \in Inodes \ InUse(r) : i =< j
              /\ fd' = [fd EXCEPT ![p] = i]
              /\ file' = [file EXCEPT ![r] = i]
        /\ lockreq' = [lockreq EXCEPT ![p] = r]
        /\ UNCHANGED <<tableVars, adderVars, passVars, locked, torn, historyVars,
                       faults, cmds>>

\* Mutant: the lock is shared.
LockFreeAlways(p) == TRUE

\* flock with LOCK_EX and LOCK_NB succeeds: nobody has this inode locked.
LockFree(p) ==
    \A q \in Procs \ {p} : ~(lockreq[q] = lockreq[p] /\ fd[q] = fd[p] /\ locked[q])

\* Mutant: the budget is used up one request too early.
GrabOneLess(p) ==
    /\ pc[p] = "grab"
    /\ LockFree(p)
    /\ locked' = [locked EXCEPT ![p] = TRUE]
    /\ \/ /\ budget[p] =< 1
          /\ pc' = [pc EXCEPT ![p] = "next"]
          /\ todo' = [todo EXCEPT ![p] = {}]
          /\ cur' = [cur EXCEPT ![p] = 0]
          /\ UNCHANGED budget
       \/ /\ budget[p] > 1
          /\ pc' = [pc EXCEPT ![p] = "working"]
          /\ budget' = [budget EXCEPT ![p] = @ - 1]
          /\ UNCHANGED <<todo, cur>>
    /\ UNCHANGED <<tableVars, adderVars, ops, fd, lockreq, file, torn, historyVars,
                   faults, cmds>>

\* grab succeeds.  A processor that may do no more leaves the loop, with the lock.
Grab(p) ==
    /\ pc[p] = "grab"
    /\ LockFree(p)
    /\ locked' = [locked EXCEPT ![p] = TRUE]
    /\ \/ /\ budget[p] = 0
          /\ pc' = [pc EXCEPT ![p] = "next"]
          /\ todo' = [todo EXCEPT ![p] = {}]
          /\ cur' = [cur EXCEPT ![p] = 0]
          /\ UNCHANGED budget
       \/ /\ budget[p] > 0
          /\ pc' = [pc EXCEPT ![p] = "working"]
          /\ budget' = [budget EXCEPT ![p] = @ - 1]
          /\ UNCHANGED <<todo, cur>>
    /\ UNCHANGED <<tableVars, adderVars, ops, fd, lockreq, file, torn, historyVars,
                   faults, cmds>>

\* grab fails: another processor has the lock, and the request is left to it.
GrabFails(p) ==
    /\ pc[p] = "grab"
    /\ ~LockFree(p)
    /\ pc' = [pc EXCEPT ![p] = "next"]
    /\ cur' = [cur EXCEPT ![p] = 0]
    /\ fd' = [fd EXCEPT ![p] = 0]
    /\ lockreq' = [lockreq EXCEPT ![p] = 0]
    /\ UNCHANGED <<tableVars, adderVars, ops, todo, budget, locked, file, torn,
                   historyVars, faults, cmds>>

\* grab fails for another reason, at open or at flock: the request is left for now.
LockFails(p) ==
    /\ pc[p] \in {"open", "grab"}
    /\ faults < MaxFaults
    /\ faults' = faults + 1
    /\ pc' = [pc EXCEPT ![p] = "next"]
    /\ cur' = [cur EXCEPT ![p] = 0]
    /\ fd' = [fd EXCEPT ![p] = 0]
    /\ lockreq' = [lockreq EXCEPT ![p] = 0]
    /\ UNCHANGED <<tableVars, adderVars, ops, todo, budget, locked, file, torn,
                   historyVars, cmds>>

\* Mutant: the request is not deleted.
HandlerSucceedsKeepsRow(p) ==
    LET r == cur[p]
    IN  /\ pc[p] = "working"
        /\ pc' = [pc EXCEPT ![p] = "next"]
        /\ finished' = finished \union {r}
        /\ times' = [times EXCEPT ![r] = @ + 1]
        /\ cur' = [cur EXCEPT ![p] = 0]
        /\ UNCHANGED <<tableVars, adderVars, ops, todo, budget, lockVars, withdrawn,
                       opOf, faults, cmds>>

\* The handler returns True; delete_request and commit: the row, if it is there
\* still, goes with the changes that the handler has made.
HandlerSucceeds(p) ==
    LET r == cur[p]
    IN  /\ pc[p] = "working"
        /\ pc' = [pc EXCEPT ![p] = "next"]
        /\ table' = Without(table, r)
        /\ finished' = IF r \in withdrawn THEN finished ELSE finished \union {r}
        /\ times' = [times EXCEPT ![r] = @ + 1]
        /\ cur' = [cur EXCEPT ![p] = 0]
        /\ UNCHANGED <<seq, adderVars, ops, todo, budget, lockVars, withdrawn,
                       opOf, faults, cmds>>

\* Mutant: the request is deleted whatever the handler returns.
HandlerFailsDeletes(p) ==
    /\ pc[p] = "working"
    /\ faults < MaxFaults
    /\ faults' = faults + 1
    /\ table' = Without(table, cur[p])
    /\ pc' = [pc EXCEPT ![p] = "next"]
    /\ cur' = [cur EXCEPT ![p] = 0]
    /\ UNCHANGED <<seq, adderVars, ops, todo, budget, lockVars, historyVars, cmds>>

\* The handler returns False: rollback and, for some operations, delay_request,
\* whose NotFoundError ends the processor when the row is gone.
HandlerFails(p) ==
    LET r == cur[p]
        delay == opOf[r] \in Delayed
        there == r \in DOMAIN table
    IN  /\ pc[p] = "working"
        /\ faults < MaxFaults
        /\ faults' = faults + 1
        /\ table' = IF delay /\ there THEN [table EXCEPT ![r].due = FALSE] ELSE table
        /\ IF delay /\ ~there
           THEN Raises(p)
           ELSE /\ pc' = [pc EXCEPT ![p] = "next"]
                /\ cur' = [cur EXCEPT ![p] = 0]
                /\ UNCHANGED <<ops, todo, budget, fd, lockreq, locked>>
        /\ UNCHANGED <<seq, adderVars, file, torn, historyVars, cmds>>

\* The handler raises an exception, which nothing catches.
HandlerRaises(p) ==
    /\ pc[p] = "working"
    /\ faults < MaxFaults
    /\ faults' = faults + 1
    /\ Raises(p)
    /\ UNCHANGED <<tableVars, adderVars, file, torn, historyVars, cmds>>

\* The processor is killed, or its machine fails.
Dies(p) ==
    /\ ops[p] # Ops
    /\ faults < MaxFaults
    /\ faults' = faults + 1
    /\ Ended(p)
    /\ UNCHANGED <<tableVars, adderVars, file, torn, historyVars, cmds>>

-----------------------------------------------------------------------------
Init ==
    /\ table = [r \in {} |-> 0]
    /\ seq = 0
    /\ adding = [a \in Adders |-> NoOp]
    /\ replaces = [a \in Adders |-> 0]
    /\ seen = [a \in Adders |-> {}]
    /\ pc = [p \in Procs |-> "next"]
    /\ ops = [p \in Procs |-> Ops]
    /\ todo = [p \in Procs |-> {}]
    /\ cur = [p \in Procs |-> 0]
    /\ budget = [p \in Procs |-> MaxPerPass]
    /\ fd = [p \in Procs |-> 0]
    /\ lockreq = [p \in Procs |-> 0]
    /\ locked = [p \in Procs |-> FALSE]
    /\ file = [r \in Ids |-> 0]
    /\ finished = {}
    /\ withdrawn = {}
    /\ times = [r \in Ids |-> 0]
    /\ opOf = [r \in Ids |-> NoOp]
    /\ raced = {}
    /\ torn = {}
    /\ faults = 0
    /\ cmds = 0

Commands ==
    \/ \E a \in Adders :
          \/ \E op \in Ops, old \in {0} \union DOMAIN table : AddCheck(a, op, old)
          \/ \E due \in BOOLEAN : AddCommit(a, due)
    \/ \E r \in DOMAIN table : Cancel(r)

\* A processor goes on, without a fault.
Works(p) ==
    \/ \E op \in ops[p] : List(p, op)
    \/ \E r \in todo[p] : Check(p, r)
    \/ Finish(p)
    \/ Unlink(p) \/ Open(p) \/ Grab(p) \/ GrabFails(p)
    \/ HandlerSucceeds(p)

Next ==
    \/ Commands
    \/ \E r \in DOMAIN table : BecomesDue(r)
    \/ \E p \in Procs :
          \/ Works(p) \/ CutShort(p) \/ LockFails(p)
          \/ HandlerFails(p) \/ HandlerRaises(p) \/ Dies(p)

Spec == Init /\ [][Next]_vars

\* Processors are started again and again and go on while nothing fails; what is
\* delayed becomes due.
FairSpec ==
    /\ Spec
    /\ \A p \in Procs : WF_vars(Works(p))
    /\ WF_vars(\E r \in DOMAIN table : BecomesDue(r))

-----------------------------------------------------------------------------
(* Properties.                                                               *)

Rows == [op : Ops, due : BOOLEAN]
Busy == {"open", "grab", "working"}

TableType ==
    /\ seq \in 0 .. MaxRequests
    /\ DOMAIN table \subseteq 1 .. seq
    /\ \A r \in DOMAIN table : table[r] \in Rows

AdderType ==
    /\ adding \in [Adders -> Ops \union {NoOp}]
    /\ replaces \in [Adders -> 0 .. seq]
    /\ seen \in [Adders -> SUBSET (1 .. seq)]
    /\ raced \subseteq (1 .. seq) \X (1 .. seq)

PassType ==
    /\ pc \in [Procs -> {"next", "unlink"} \union Busy]
    /\ ops \in [Procs -> SUBSET Ops]
    /\ todo \in [Procs -> SUBSET (1 .. seq)]
    /\ cur \in [Procs -> 0 .. seq]
    /\ budget \in [Procs -> 0 .. MaxPerPass]

LockType ==
    /\ fd \in [Procs -> Inodes \union {0}]
    /\ lockreq \in [Procs -> 0 .. seq]
    /\ locked \in [Procs -> BOOLEAN]
    /\ file \in [Ids -> Inodes \union {0}]
    /\ torn \subseteq 1 .. seq

\* What a processor has in hand at each of its steps.
InHand ==
    \A p \in Procs :
        /\ pc[p] \in Busy => cur[p] # 0
        /\ pc[p] \in {"grab", "unlink", "working"} => fd[p] # 0
        /\ pc[p] \in {"grab", "working"} => lockreq[p] = cur[p]
        /\ fd[p] = 0 <=> lockreq[p] = 0

HistoryType ==
    /\ finished \subseteq 1 .. seq
    /\ withdrawn \subseteq 1 .. seq
    /\ times \in [Ids -> Nat]
    /\ opOf \in [Ids -> Ops \union {NoOp}]
    /\ faults \in 0 .. MaxFaults
    /\ cmds \in 0 .. MaxOps

\* Every variable has its type, and a processor has a request in hand, and its
\* lock file open, where the code has them.
TypeOK ==
    TableType /\ AdderType /\ PassType /\ LockType /\ InHand /\ HistoryType

\* A request is in the table until a processor has completed it or a command has
\* withdrawn it, and never comes back: whatever fails or is killed on the way,
\* and though several processors may have it in hand.
EachAccountedFor ==
    DOMAIN table = (1 .. seq) \ (finished \union withdrawn)

\* add_request: a request is pending together with an earlier one that it
\* conflicts with only if the two were added at the same time, each before it
\* could see the other.
ConflictsOnlyRaced ==
    \A r, s \in DOMAIN table :
        r < s /\ table[r].op \in ConflictsOf[table[s].op] => <<r, s>> \in raced

\* RequestLockHandler: two processors have the same request in work at the same
\* time only after its lock file was removed while one had it open: by a processor
\* that had released the lock just before.
ExclusiveUnlessTorn ==
    \A p, q \in Procs :
        /\ p # q
        /\ pc[p] = "working" /\ pc[q] = "working"
        /\ cur[p] = cur[q]
        => cur[p] \in torn

\* Why that is so: a lock file is locked once, by none that wants another or has
\* given it back, and is the one by that name unless it was removed while open.
LockInv ==
    /\ \A p \in Procs :
          /\ pc[p] = "working" => locked[p]
          /\ pc[p] \in {"open", "grab", "unlink"} => ~locked[p]
          /\ fd[p] # 0 /\ lockreq[p] \notin torn => fd[p] = file[lockreq[p]]
    /\ \A p, q \in Procs :
          locked[p] /\ locked[q] /\ lockreq[p] = lockreq[q] /\ fd[p] = fd[q] => p = q

\* However stale the lists and checks of the processors are, a request is
\* completed no more often than there are processors.
RepeatsBounded == \A r \in Ids : times[r] =< Cardinality(Procs)

\* Every request is completed or withdrawn in the end, if handlers and processors
\* fail only so often: none is stuck behind a lock file or a lost turn.
EventuallySettled == \A r \in Ids : r \in DOMAIN table ~> r \notin DOMAIN table

-----------------------------------------------------------------------------
(* The table and its processors implement RequestLedger.                     *)

\* What has become of a request.
StatusOf(r) ==
    IF r > seq THEN "absent"
    ELSE IF r \in DOMAIN table THEN "pending"
    ELSE IF r \in withdrawn THEN "withdrawn" ELSE "done"

Ledger == INSTANCE RequestLedger WITH
    Limit <- Cardinality(Procs),
    status <- [r \in Ids |-> StatusOf(r)],
    completed <- times

\* Seen from outside the requests are a RequestLedger: whatever fails, is killed
\* or repeated, a request ends with the first completion of its handler or with
\* a command, is replaced by another in one step, and does not come back; what
\* is completed after that is bounded by the number of processors.
ImplementsLedger == Ledger!Spec
=============================================================================
