------------------------------ MODULE Changes ------------------------------
(* The change log and its readers.                                           *)
(*                                                                           *)
(* Every process that changes the database logs its changes.  ChangeLog      *)
(* keeps them in memory, and CLDatabase.commit gives each an id from the     *)
(* sequence change_log_seq and writes it to the table change_log in the      *)
(* transaction of the change itself.  A job that carries changes to another  *)
(* system reads the log through CLHandler, which remembers under a key, as   *)
(* ranges of ids in change_handler_data, what the job has confirmed.         *)
(*                                                                           *)
(* Transactions are read committed (database/postgres.py): a row is seen by  *)
(* queries that start after its commit, whatever its id.                     *)
EXTENDS Integers, FiniteSets, Sequences

CONSTANTS
    Writers,        \* connections that make changes (bofhd, scripts)
    Changes,        \* the changes that may be made
    Watched,        \* those whose type the job asks get_events for
    MaxId,          \* bound: values taken from change_log_seq
    MaxFaults,      \* bound: rollbacks, failed events and failures of the job
    MaxOps          \* bound: entries removed by db_clean.py

ASSUME ChangesAssumption ==
    /\ Watched \subseteq Changes
    /\ IsFiniteSet(Changes)
    /\ MaxId \in Nat
    /\ MaxFaults \in Nat
    /\ MaxOps \in Nat

VARIABLES
    log,            \* change_log: committed rows [id, change]
    seq,            \* last value of change_log_seq
    applied,        \* changes that are committed to the database
    dirty,          \* per connection: changes of its open transaction
    messages,       \* per connection: ChangeLog.messages
    rows,           \* per connection: rows written and not committed
    table,          \* change_handler_data of the key: rows [first, last]
    session,        \* "idle", "reading" or "handling"
    prev,           \* CLHandler._prev_ranges
    unread,         \* ranges of prev behind which get_events has to look yet
    sent,           \* CLHandler._sent_events
    confirmed,      \* CLHandler._confirmed_events
    left,           \* events the job has yet to handle
    handled,        \* history: ids of the entries that the job has handled
    late,           \* history: ids that were committed after a greater one
    high,           \* history: the greatest id that has been visible
    faults, ops     \* counters for the bounds

logVars == <<log, seq, applied, late, high>>
writerVars == <<dirty, messages, rows>>
jobVars == <<session, prev, unread, sent, confirmed, left>>
vars == <<logVars, writerVars, table, jobVars, handled, faults, ops>>

Ids == 1 .. MaxId
Entries == [id : Ids, change : Changes]
Ranges == [first : -1 .. MaxId + 1, last : -1 .. MaxId]

-----------------------------------------------------------------------------
(* Writers: ChangeLog and CLDatabase.                                        *)

\* log_change: a change is made in the open transaction, and its entry is kept
\* in memory.
LogChange(w, c) ==
    /\ rows[w] = {}
    /\ c \notin applied
    /\ \A v \in Writers : c \notin dirty[v]
    /\ dirty' = [dirty EXCEPT ![w] = @ \union {c}]
    /\ messages' = [messages EXCEPT ![w] = Append(@, c)]
    /\ UNCHANGED <<logVars, rows, table, jobVars, handled, faults, ops>>

\* CLDatabase.commit starts with write_log: one round of its loop, nextval and
\* INSERT.
WriteLog(w) ==
    /\ messages[w] # <<>>
    /\ seq < MaxId
    /\ seq' = seq + 1
    /\ rows' = [rows EXCEPT ![w] =
                  @ \union {[id |-> seq + 1, change |-> Head(messages[w])]}]
    /\ messages' = [messages EXCEPT ![w] = Tail(@)]
    /\ UNCHANGED <<log, applied, late, high, dirty, table, jobVars,
                   handled, faults, ops>>

\* The ids that a connection has given to its rows.
IdsOf(R) == {e.id : e \in R}

\* The commit of the driver: changes and entries become visible together.
Commit(w) ==
    /\ rows[w] # {}
    /\ messages[w] = <<>>
    /\ log' = log \union rows[w]
    /\ applied' = applied \union dirty[w]
    /\ late' = late \union {i \in IdsOf(rows[w]) : i < high}
    /\ \E m \in IdsOf(rows[w]) \union {high} :
          /\ \A i \in IdsOf(rows[w]) \union {high} : i =< m
          /\ high' = m
    /\ dirty' = [dirty EXCEPT ![w] = {}]
    /\ rows' = [rows EXCEPT ![w] = {}]
    /\ UNCHANGED <<seq, messages, table, jobVars, handled, faults, ops>>

\* Mutant: the entries in memory outlive the rollback.
RollbackKeepsLog(w) ==
    /\ dirty[w] # {}
    /\ faults < MaxFaults
    /\ faults' = faults + 1
    /\ dirty' = [dirty EXCEPT ![w] = {}]
    /\ rows' = [rows EXCEPT ![w] = {}]
    /\ UNCHANGED <<logVars, messages, table, jobVars, handled, ops>>

\* CLDatabase.rollback, on its own or after an error in commit (unpublish_log
\* does nothing here); the end of the process does the same.  The ids that the
\* transaction has taken from the sequence are never used.
Rollback(w) ==
    /\ dirty[w] # {}
    /\ faults < MaxFaults
    /\ faults' = faults + 1
    /\ dirty' = [dirty EXCEPT ![w] = {}]
    /\ messages' = [messages EXCEPT ![w] = <<>>]
    /\ rows' = [rows EXCEPT ![w] = {}]
    /\ UNCHANGED <<logVars, table, jobVars, handled, ops>>

\* remove_log_event, which db_clean.py calls for entries that it need not keep.
RemoveLogEvent(e) ==
    /\ ops < MaxOps
    /\ ops' = ops + 1
    /\ log' = log \ {e}
    /\ UNCHANGED <<seq, applied, late, high, writerVars, table, jobVars, handled,
                   faults>>

-----------------------------------------------------------------------------
(* The job: CLHandler.                                                       *)

Ends(R) == {r.first : r \in R} \union {r.last : r \in R}
Covered(R) == UNION {r.first .. r.last : r \in R}

\* get_events, up to the loop: the ranges of the key, or one before every id.
GetEvents ==
    /\ session = "idle"
    /\ session' = "reading"
    /\ prev' = IF table = {} THEN {[first |-> -1, last |-> -1]} ELSE table
    /\ unread' = prev'
    /\ sent' = {}
    /\ confirmed' = {}
    /\ UNCHANGED <<logVars, writerVars, table, left, handled, faults, ops>>

\* Mutant: the last id of a range is read again.
BehindInclusive(R, r, i) ==
    /\ i >= r.last
    /\ \A n \in R : n.first > r.first => i < n.first

\* Whether id i lies behind range r of R and before the next one.
Behind(R, r, i) ==
    /\ i > r.last
    /\ \A n \in R : n.first > r.first => i < n.first

\* get_log_events for what lies behind one range, in the order of the ranges.
ReadGap(r) ==
    /\ session = "reading"
    /\ r \in unread
    /\ \A n \in unread : r.first =< n.first
    /\ sent' = sent \union
          {e.id : e \in {x \in log : x.change \in Watched /\ Behind(prev, r, x.id)}}
    /\ unread' = unread \ {r}
    /\ session' = IF unread' = {} THEN "handling" ELSE "reading"
    /\ left' = IF unread' = {} THEN sent' ELSE {}
    /\ UNCHANGED <<logVars, writerVars, table, prev, confirmed, handled, faults, ops>>

\* Mutant: an event that is confirmed stays in hand.
HandleKeeps(i) ==
    /\ session = "handling"
    /\ i \in left
    /\ confirmed' = confirmed \union {i}
    /\ handled' = handled \union {i}
    /\ UNCHANGED <<logVars, writerVars, table, session, prev, unread, sent, left,
                   faults, ops>>

\* The job handles an event and confirms it (confirm_event).  Jobs take the
\* events from the oldest, from the newest or by person.
Handle(i) ==
    /\ session = "handling"
    /\ i \in left
    /\ left' = left \ {i}
    /\ confirmed' = confirmed \union {i}
    /\ handled' = handled \union {i}
    /\ UNCHANGED <<logVars, writerVars, table, session, prev, unread, sent,
                   faults, ops>>

\* The job cannot handle an event, and leaves it for a later session.
HandleFails(i) ==
    /\ session = "handling"
    /\ i \in left
    /\ faults < MaxFaults
    /\ faults' = faults + 1
    /\ left' = left \ {i}
    /\ UNCHANGED <<logVars, writerVars, table, session, prev, unread, sent,
                   confirmed, handled, ops>>

(* commit_confirmations works on points, the events sent and the ends of the  *)
(* old ranges; those not confirmed are the events X to be sent again.        *)

\* Whether x begins a group (groupby) of events in X: the point before it is none.
BeginsGroup(points, X, x) ==
    /\ x \in X
    /\ \E c \in points \ X : c < x /\ \A p \in points : p < x => p =< c

\* Whether n is the start of the range that ends before x, or at x: one more than
\* the last event of X before it, or -1.
StartFor(X, x, n) ==
    /\ n \in {-1} \union {y + 1 : y \in X}
    /\ n =< x
    /\ \A y \in X : y < x => y < n

\* Whether t is the last of some ids.
IsLast(T, t) == t \in T /\ \A u \in T : u =< t

\* The ranges that end before a group of events in X.
InnerRanges(points, X) ==
    {r \in Ranges : /\ BeginsGroup(points, X, r.last + 1)
                    /\ StartFor(X, r.last + 1, r.first)}

\* Mutant: no range behind the last group of unconfirmed events.
LastRangeNever(points, X) == {}

\* Mutant: the last range ends with the last event sent, confirmed or not.
LastRangeToLastSent(points, X) ==
    {r \in Ranges : IsLast(points, r.last) /\ StartFor(X, r.last, r.first)}

\* The range behind the last group, unless there is nothing but the group.
LastRange(points, X) ==
    {r \in Ranges : /\ IsLast(points, r.last)
                    /\ r.last \notin X
                    /\ StartFor(X, r.last, r.first)}

\* Mutant: the ends of the old ranges are no points.
NewRangesOfEventsOnly(P, S, C) ==
    LET points == S \union {-1}
        X == S \ C
    IN  InnerRanges(points, X) \union LastRange(points, X)

\* commit_confirmations: the ranges, from the old ones P, the events sent S and
\* those confirmed C.  (The ends of old ranges are confirmed, so that the last
\* point, when it is not in X, is the greatest of prev and _confirmed_events.)
NewRanges(P, S, C) ==
    LET points == S \union Ends(P)
        X == S \ (C \union Ends(P))
    IN  InnerRanges(points, X) \union LastRange(points, X)

\* commit_confirmations and _update_ranges: DELETE, INSERT and commit, unless
\* the ranges are those of before.
UpdateRanges ==
    LET ranges == NewRanges(prev, sent, confirmed)
    IN  table' = IF ranges = prev THEN table ELSE ranges

\* Some jobs commit their confirmations after each event as well.
CommitConfirmations ==
    /\ session = "handling"
    /\ left # {}
    /\ confirmed # {}
    /\ UpdateRanges
    /\ UNCHANGED <<logVars, writerVars, jobVars, handled, faults, ops>>

IdleJob ==
    /\ session' = "idle"
    /\ prev' = {}
    /\ unread' = {}
    /\ sent' = {}
    /\ confirmed' = {}
    /\ left' = {}

\* The job ends with commit_confirmations, and starts over when it is scheduled.
Finish ==
    /\ session = "handling"
    /\ left = {}
    /\ UpdateRanges
    /\ IdleJob
    /\ UNCHANGED <<logVars, writerVars, handled, faults, ops>>

\* The job fails: what it has confirmed and not committed it will see again.
JobDies ==
    /\ session # "idle"
    /\ faults < MaxFaults
    /\ faults' = faults + 1
    /\ IdleJob
    /\ UNCHANGED <<logVars, writerVars, table, handled, ops>>

-----------------------------------------------------------------------------
Init ==
    /\ log = {}
    /\ seq = 0
    /\ applied = {}
    /\ dirty = [w \in Writers |-> {}]
    /\ messages = [w \in Writers |-> <<>>]
    /\ rows = [w \in Writers |-> {}]
    /\ table = {}
    /\ session = "idle"
    /\ prev = {} /\ unread = {} /\ sent = {} /\ confirmed = {} /\ left = {}
    /\ handled = {} /\ late = {} /\ high = 0
    /\ faults = 0 /\ ops = 0

WriterNext ==
    \E w \in Writers :
        \/ \E c \in Changes : LogChange(w, c)
        \/ WriteLog(w) \/ Commit(w) \/ Rollback(w)

JobWorks ==
    \/ GetEvents
    \/ \E r \in unread : ReadGap(r)
    \/ \E i \in left : Handle(i)
    \/ Finish

Next ==
    \/ WriterNext
    \/ \E e \in log : RemoveLogEvent(e)
    \/ JobWorks
    \/ \E i \in left : HandleFails(i)
    \/ CommitConfirmations
    \/ JobDies

Spec == Init /\ [][Next]_vars

\* The job is run again and again (by the job runner), and a run comes to an
\* end; nothing is assumed of the writers.
FairSpec == Spec /\ WF_vars(JobWorks)

-----------------------------------------------------------------------------
(* Properties.                                                               *)

LogType ==
    /\ log \subseteq Entries
    /\ seq \in 0 .. MaxId
    /\ applied \subseteq Changes
    /\ late \subseteq Ids
    /\ high \in 0 .. MaxId

WriterType ==
    /\ dirty \in [Writers -> SUBSET Changes]
    /\ messages \in [Writers -> Seq(Changes)]
    /\ rows \in [Writers -> SUBSET Entries]

JobType ==
    /\ table \subseteq Ranges
    /\ session \in {"idle", "reading", "handling"}
    /\ prev \subseteq Ranges
    /\ unread \subseteq prev
    /\ sent \subseteq Ids
    /\ confirmed \subseteq sent
    /\ left \subseteq sent \ confirmed
    /\ session # "handling" => left = {} /\ confirmed = {}

CounterType ==
    /\ handled \subseteq Ids
    /\ faults \in 0 .. MaxFaults
    /\ ops \in 0 .. MaxOps

\* Every variable has its type; events are in hand only while they are handled,
\* if they were sent and are not confirmed.
TypeOK == LogType /\ WriterType /\ JobType /\ CounterType

\* CLDatabase: however transactions end, each entry in change_log is of a change
\* that is committed, no change has two entries, and a change without an entry is
\* one whose entry was removed.
EntriesMatchChanges ==
    /\ \A e \in log : e.change \in applied
    /\ \A e, f \in log : e.change = f.change \/ e.id = f.id => e = f
    /\ ops = 0 => \A c \in applied : \E e \in log : e.change = c

\* CLHandler: what the ranges of the key cover, and what will therefore never be
\* returned again, the job has handled; except what was committed after an entry
\* with a greater id (see NoEventSkipped).  Holes, failed events, runs that die
\* and rolled back ids make no difference.
CoveredIsHandled ==
    \A e \in log : e.change \in Watched /\ e.id \in Covered(table) \ late
                      => e.id \in handled

\* The same without the exception, as get_events promises ("all new events").
NoEventSkipped ==
    \A e \in log : e.change \in Watched /\ e.id \in Covered(table)
                      => e.id \in handled

\* An id that the ranges cover stays covered: no commit of confirmations gives up
\* those of an earlier session.
ConfirmedForGood == [][Covered(table) \subseteq Covered(table')]_vars

\* An event is handled again only if its confirmation was not committed.
NotHandledAgain ==
    [][\A i \in confirmed' \ confirmed : i \notin Covered(table)]_vars

\* Every watched change whose entry was committed in order is confirmed in the
\* end, or its entry removed, though writers go on and runs of the job fail.
EventuallyConfirmed ==
    \A c \in Watched :
        (\E e \in log : e.change = c /\ e.id \notin late)
            ~> (\A e \in log : e.change = c => e.id \in Covered(table))
=============================================================================
