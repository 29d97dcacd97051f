-------------------------- MODULE TaskQueueProofs --------------------------
(* Theorems about TaskQueue, for all keys, sub-queues, consumers and bounds. *)
EXTENDS TaskQueue, TLAPS

-----------------------------------------------------------------------------
(* Helpers.                                                                  *)

LEMMA TasksType ==
    /\ \A t \in Tasks : KeyOf(t) \in Keys
    /\ \A s \in Subs, k \in Keys : <<s, k>> \in Tasks /\ KeyOf(<<s, k>>) = k
BY DEF Tasks, KeyOf

LEMMA NoRowType == NoRow \in Row /\ NoRow.attempts = 0 /\ ~Present(NoRow)
BY DEF NoRow, Row, Present

LEMMA NoTaskType == NoTask \in Snapshot /\ NoTask.attempts = 0
<1>1. (CHOOSE k \in Keys : TRUE) \in Keys
  BY TaskConstants DEF TaskConstants
<1> QED
  BY <1>1, TaskConstants DEF TaskConstants, NoTask, Snapshot, Tasks

\* What a push leaves behind: sql_push never removes a row, and after an INSERT,
\* or when its reading was right, there is one.
LEMMA PushedRow ==
    ASSUME NEW r \in Row, NEW prev \in Row, NEW v \in Row, Present(v),
           NEW q \in Pushed(r, prev, v)
    PROVE  /\ q \in Row
           /\ Present(r) => Present(q)
           /\ ~Present(prev) => q = v
           /\ q = r \/ Present(q)
           /\ q.attempts \in {r.attempts, v.attempts}
           /\ Present(prev) /\ v.attempts = prev.attempts => q.attempts = r.attempts
<1>1. CASE ~Present(prev)
  BY <1>1 DEF Pushed
<1>2. CASE Present(prev) /\ q = r
  BY <1>2
<1>3. CASE Present(prev) /\ q # r
  <2>1. Present(r) /\ q \in Updated(r, prev, v)
    BY <1>3 DEF Pushed
  <2> QED
    BY <1>3, <2>1 DEF Updated, Row, Present
<1> QED
  BY <1>1, <1>2, <1>3

-----------------------------------------------------------------------------
(* Type correctness.                                                         *)

LEMMA InitType == Init => TypeOK /\ HandsApart
<1> SUFFICES ASSUME Init PROVE TypeOK /\ HandsApart
  OBVIOUS
<1>1. TableType
  BY NoRowType, TaskConstants DEF Init, TableType, TaskConstants
<1>2. ConsumerType /\ HandsApart
  BY NoRowType DEF Init, ConsumerType, HandsApart
<1>3. ProcessorType
  BY NoRowType, NoTaskType, TaskConstants DEF Init, ProcessorType, TaskConstants
<1>4. HistoryType
  BY TaskConstants DEF Init, HistoryType, TaskConstants
<1> QED
  BY <1>1, <1>2, <1>3, <1>4 DEF TypeOK

LEMMA UnchangedTypes ==
    /\ TableType /\ UNCHANGED tableVars => TableType'
    /\ ConsumerType /\ HandsApart /\ UNCHANGED <<messages, consumerVars>>
         => ConsumerType' /\ HandsApart'
    /\ ProcessorType /\ UNCHANGED processorVars => ProcessorType'
    /\ HistoryType /\ UNCHANGED <<historyVars, ops, faults>> => HistoryType'
<1>1. TableType /\ UNCHANGED tableVars => TableType'
  BY DEF TableType, tableVars
<1>2. ConsumerType /\ HandsApart /\ UNCHANGED <<messages, consumerVars>>
         => ConsumerType' /\ HandsApart'
  BY DEF ConsumerType, HandsApart, consumerVars
<1>3. ProcessorType /\ UNCHANGED processorVars => ProcessorType'
  BY DEF ProcessorType, processorVars
<1>4. HistoryType /\ UNCHANGED <<historyVars, ops, faults>> => HistoryType'
  BY DEF HistoryType, historyVars
<1> QED
  BY <1>1, <1>2, <1>3, <1>4

\* The world outside, time, and the operator.
LEMMA OutsideType ==
    ASSUME TypeOK, HandsApart,
           \/ \E k \in Keys : Change(k)
           \/ \E t \in Tasks : BecomesDue(t) \/ TaskAdd(t) \/ TaskRemove(t)
    PROVE  TypeOK' /\ HandsApart'
<1>1. ASSUME NEW k \in Keys, Change(k)
      PROVE  TypeOK' /\ HandsApart'
  <2> USE <1>1 DEF TypeOK
  <2>1. PICK d \in Deliveries :
          messages' = messages \cup
              {[task |-> <<d[1], k>>, nbf |-> d[2], version |-> version[k] + 1]}
    BY DEF Change
  <2>2. [task |-> <<d[1], k>>, nbf |-> d[2], version |-> version[k] + 1] \in Message
    BY <2>1, TasksType, TaskConstants DEF TaskConstants, Message, HistoryType
  <2>3. TableType'
    BY <2>1, <2>2 DEF Change, TableType
  <2>4. ConsumerType' /\ HandsApart'
    BY <2>1 DEF Change, ConsumerType, HandsApart, consumerVars
  <2>5. HistoryType'
    BY DEF Change, HistoryType
  <2> QED
    BY <2>3, <2>4, <2>5, UnchangedTypes DEF Change
<1>2. ASSUME NEW t \in Tasks, BecomesDue(t)
      PROVE  TypeOK' /\ HandsApart'
  <2> USE <1>2 DEF TypeOK
  <2>1. TableType'
    BY DEF BecomesDue, TableType, Row
  <2> QED
    BY <2>1, UnchangedTypes DEF BecomesDue
<1>3. ASSUME NEW t \in Tasks, TaskAdd(t) \/ TaskRemove(t)
      PROVE  TypeOK' /\ HandsApart'
  <2> USE <1>3 DEF TypeOK
  <2>1. TableType'
    BY NoRowType, TaskConstants DEF TaskAdd, TaskRemove, TableType, Row, NoRow, TaskConstants
  <2>2. HistoryType'
    BY TasksType, TaskConstants
       DEF TaskAdd, TaskRemove, Command, HistoryType, historyVars, TaskConstants
  <2> QED
    BY <2>1, <2>2, UnchangedTypes DEF TaskAdd, TaskRemove
<1> QED
  BY <1>1, <1>2, <1>3

LEMMA RedeliverType ==
    ASSUME TypeOK, HandsApart, NEW c \in Consumers, Redeliver(c)
    PROVE  ConsumerType' /\ HandsApart'
<1>1. ConsumerType'
  BY NoRowType DEF Redeliver, TypeOK, ConsumerType, tableVars
<1>2. HandsApart'
  BY NoRowType DEF Redeliver, TypeOK, ConsumerType, HandsApart
<1> QED
  BY <1>1, <1>2

LEMMA ConsumerStepType ==
    ASSUME TypeOK, HandsApart, NEW c \in Consumers, Consumer(c) \/ ConsumerCrash(c)
    PROVE  TypeOK' /\ HandsApart'
<1> USE DEF TypeOK
<1>1. CASE Receive(c)
  <2>1. ConsumerType' /\ HandsApart'
    BY <1>1 DEF Receive, ConsumerType, HandsApart, TableType, tableVars
  <2> QED
    BY <1>1, <2>1, UnchangedTypes DEF Receive, tableVars
<1>2. CASE GetTask(c)
  <2>1. hand[c] \in Message /\ row[hand[c].task] \in Row /\ KeyOf(hand[c].task) \in Keys
    BY <1>2, TasksType DEF GetTask, ConsumerType, TableType, Message
  <2>2. /\ Merged(hand[c], row[hand[c].task]) \in Row
        /\ Merged(hand[c], row[hand[c].task]).attempts = 0
        /\ Present(Merged(hand[c], row[hand[c].task]))
    BY <2>1 DEF Merged, Row, Message, Present, HistoryType
  <2>3. ConsumerType' /\ HandsApart'
    BY <1>2, <2>2 DEF GetTask, ConsumerType, HandsApart, tableVars
  <2> QED
    BY <1>2, <2>3, UnchangedTypes DEF GetTask
<1>3. CASE PushRead(c)
  <2>1. row[hand[c].task] \in Row
    BY <1>3 DEF PushRead, ConsumerType, TableType, Message
  <2>2. ConsumerType' /\ HandsApart'
    BY <1>3, <2>1 DEF PushRead, ConsumerType, HandsApart, tableVars
  <2> QED
    BY <1>3, <2>2, UnchangedTypes DEF PushRead
<1>4. CASE PushWrite(c)
  <2>1. hand[c].task \in Tasks
    BY <1>4 DEF PushWrite, ConsumerType, TableType, Message
  <2>2. PICK r \in Pushed(row[hand[c].task], cprev[c], new[c]) :
          /\ row' = [row EXCEPT ![hand[c].task] = r]
    BY <1>4 DEF PushWrite
  <2>3. r \in Row /\ r.attempts \in {row[hand[c].task].attempts, new[c].attempts}
    BY <1>4, <2>1, PushedRow DEF PushWrite, ConsumerType, TableType, HandsApart
  <2>4. TableType'
    BY <1>4, <2>1, <2>2, <2>3, TaskConstants
       DEF PushWrite, TableType, ConsumerType, TaskConstants
  <2>5. ConsumerType' /\ HandsApart'
    BY <1>4 DEF PushWrite, ConsumerType, HandsApart
  <2>6. HistoryType'
    BY <1>4, <2>1, <2>2 DEF PushWrite, HistoryType
  <2> QED
    BY <1>4, <2>4, <2>5, <2>6, UnchangedTypes DEF PushWrite
<1>5. CASE PushFails(c)
  BY <1>5, RedeliverType, UnchangedTypes DEF PushFails, Redeliver
<1>6. CASE Ack(c)
  <2>1. TableType'
    BY <1>6 DEF Ack, TableType
  <2>2. ConsumerType' /\ HandsApart'
    BY <1>6, NoRowType DEF Ack, ConsumerType, HandsApart
  <2> QED
    BY <1>6, <2>1, <2>2, UnchangedTypes DEF Ack
<1>7. CASE ConsumerCrash(c)
  <2>1. HistoryType'
    BY <1>7, TaskConstants
       DEF ConsumerCrash, Fault, Redeliver, HistoryType, historyVars, TaskConstants
  <2> QED
    BY <1>7, <2>1, RedeliverType, UnchangedTypes DEF ConsumerCrash, Redeliver
<1> QED
  BY <1>1, <1>2, <1>3, <1>4, <1>5, <1>6, <1>7 DEF Consumer

\* The row that the push of a next task may leave.
NextRow == [attempts |-> pprev.attempts, nbf |-> "later", payload |-> cur.payload]

LEMMA CurrentType ==
    ASSUME TypeOK
    PROVE  /\ cur.task \in Tasks /\ KeyOf(cur.task) \in Keys
           /\ NextTask \in Tasks /\ KeyOf(NextTask) = KeyOf(cur.task)
           /\ NextRow \in Row /\ Present(NextRow)
           /\ RetryTask \in Row /\ Present(RetryTask)
           /\ RetryTask.attempts <= MaxAttempts
<1>1. cur.task \in Tasks /\ KeyOf(cur.task) \in Keys
  BY TasksType DEF TypeOK, ProcessorType, Snapshot
<1>2. NextTask \in Tasks /\ KeyOf(NextTask) = KeyOf(cur.task)
  BY <1>1, TasksType, TaskConstants DEF NextTask, TaskConstants
<1>3. NextRow \in Row /\ Present(NextRow)
  BY DEF NextRow, TypeOK, ProcessorType, Snapshot, Row, Present
<1>4. /\ RetryTask \in Row /\ Present(RetryTask)
      /\ RetryTask.attempts <= MaxAttempts
  BY TaskConstants DEF RetryTask, TypeOK, ProcessorType, Snapshot, Row, Present, TaskConstants
<1> QED
  BY <1>1, <1>2, <1>3, <1>4

LEMMA DoneType ==
    TypeOK /\ TaskDone /\ todo' = todo => ProcessorType'
BY NoRowType, NoTaskType, TaskConstants
   DEF TypeOK, ProcessorType, TaskDone, TaskConstants

LEMMA EndsType ==
    TypeOK /\ ProcessorEnds => ProcessorType'
BY NoRowType, NoTaskType, TaskConstants
   DEF TypeOK, ProcessorType, ProcessorEnds, TaskConstants

LEMMA ImportsType == TypeOK /\ Imports => seen' \in [Keys -> Nat]
BY CurrentType DEF TypeOK, ProcessorType, HistoryType, Imports

LEMMA ProcessorStepType ==
    ASSUME TypeOK, HandsApart, Processor \/ ProcessorCrash
    PROVE  TypeOK' /\ HandsApart'
<1> USE DEF TypeOK
<1>1. CASE SelectTasks
  <2>1. \A t \in Selected : /\ t \in Tasks /\ row[t] \in Row
                            /\ row[t].attempts < MaxAttempts
    BY DEF Selected, TableType
  <2>2. ProcessorType'
    BY <1>1, <2>1 DEF SelectTasks, ProcessorType, Snapshot, Row
  <2> QED
    BY <1>1, <2>2, UnchangedTypes DEF SelectTasks, tableVars
<1>2. CASE PopTask
  <2>1. PICK s \in todo :
          /\ row' = [row EXCEPT ![s.task] = NoRow]
          /\ todo' = todo \ {s}
          /\ cur' = s
    BY <1>2 DEF PopTask
  <2>5. UNCHANGED messages
    BY <1>2 DEF PopTask
  <2>6. s.task \in Tasks
    BY <2>1 DEF ProcessorType, Snapshot
  <2>2. TableType'
    BY <2>1, <2>5, <2>6, NoRowType, TaskConstants DEF TableType, TaskConstants
  <2>3. ProcessorType'
    BY <1>2, <2>1 DEF PopTask, ProcessorType, BusyPCs
  <2>4. HistoryType'
    BY <1>2, <2>1 DEF PopTask, HistoryType
  <2> QED
    BY <1>2, <2>2, <2>3, <2>4, UnchangedTypes DEF PopTask
<1>3. CASE TaskGone
  <2>1. ProcessorType'
    BY <1>3 DEF TaskGone, ProcessorType
  <2> QED
    BY <1>3, <2>1, UnchangedTypes DEF TaskGone, tableVars
<1>4. CASE Fetch
  <2>1. ProcessorType'
    BY <1>4, CurrentType DEF Fetch, ProcessorType, HistoryType, Snapshot, BusyPCs
  <2> QED
    BY <1>4, <2>1, UnchangedTypes DEF Fetch, tableVars
<1>5. CASE ImportDone
  <2>1. HistoryType'
    BY <1>5, ImportsType DEF ImportDone, HistoryType
  <2>2. ProcessorType'
    BY <1>5, DoneType DEF ImportDone
  <2> QED
    BY <1>5, <2>1, <2>2, UnchangedTypes DEF ImportDone, tableVars
<1>6. CASE NextRead
  <2>1. ProcessorType'
    BY <1>6, CurrentType DEF NextRead, ProcessorType, TableType, BusyPCs
  <2> QED
    BY <1>6, <2>1, UnchangedTypes DEF NextRead, tableVars
<1>7. CASE NextWrite
  <2>1. PICK r \in Pushed(row[NextTask], pprev, NextRow) :
          row' = [row EXCEPT ![NextTask] = r]
    BY <1>7 DEF NextWrite, NextRow
  <2>2. r \in Row /\ r.attempts \in {row[NextTask].attempts, NextRow.attempts}
    BY <2>1, CurrentType, PushedRow DEF ProcessorType, TableType
  <2>3. TableType'
    BY <1>7, <2>1, <2>2, CurrentType, TaskConstants
       DEF NextWrite, NextRow, ProcessorType, TableType, TaskConstants
  <2>4. HistoryType'
    BY <1>7, ImportsType DEF NextWrite, HistoryType
  <2>5. ProcessorType'
    BY <1>7, DoneType DEF NextWrite
  <2> QED
    BY <1>7, <2>3, <2>4, <2>5, UnchangedTypes DEF NextWrite
<1>8. CASE ImportFails
  <2>1. ProcessorType'
    BY <1>8, NoRowType, TaskConstants DEF ImportFails, ProcessorType, BusyPCs, TaskConstants
  <2> QED
    BY <1>8, <2>1, UnchangedTypes DEF ImportFails, tableVars
<1>9. CASE RetryRead
  <2>1. ProcessorType'
    BY <1>9, CurrentType DEF RetryRead, ProcessorType, TableType, BusyPCs
  <2> QED
    BY <1>9, <2>1, UnchangedTypes DEF RetryRead, tableVars
<1>10. CASE RetryWrite
  <2>1. PICK r \in Pushed(row[cur.task], pprev, RetryTask) :
          row' = [row EXCEPT ![cur.task] = r]
    BY <1>10 DEF RetryWrite
  <2>2. r \in Row /\ r.attempts \in {row[cur.task].attempts, RetryTask.attempts}
    BY <2>1, CurrentType, PushedRow DEF ProcessorType, TableType
  <2>3. TableType'
    BY <1>10, <2>1, <2>2, CurrentType DEF RetryWrite, TableType
  <2>4. ProcessorType'
    BY <1>10, DoneType DEF RetryWrite
  <2> QED
    BY <1>10, <2>3, <2>4, UnchangedTypes DEF RetryWrite
<1>11. CASE RetryFails
  <2>1. ProcessorType'
    BY <1>11, EndsType DEF RetryFails, ProcessorType
  <2> QED
    BY <1>11, <2>1, UnchangedTypes DEF RetryFails, tableVars
<1>12. CASE Report
  <2>1. ProcessorType'
    BY <1>12, EndsType DEF Report, ProcessorType
  <2> QED
    BY <1>12, <2>1, UnchangedTypes DEF Report, tableVars
<1>13. CASE ProcessorCrash
  <2>1. ProcessorType'
    BY <1>13, EndsType DEF ProcessorCrash, ProcessorType
  <2>2. HistoryType'
    BY <1>13, CurrentType, TaskConstants
       DEF ProcessorCrash, Fault, HistoryType, TaskConstants
  <2> QED
    BY <1>13, <2>1, <2>2, UnchangedTypes DEF ProcessorCrash, tableVars
<1> QED
  BY <1>1, <1>2, <1>3, <1>4, <1>5, <1>6, <1>7, <1>8, <1>9, <1>10, <1>11, <1>12,
     <1>13 DEF Processor

LEMMA TypeStep ==
    TypeOK /\ HandsApart /\ [Next]_vars => TypeOK' /\ HandsApart'
<1>1. CASE UNCHANGED vars
  BY <1>1, UnchangedTypes DEF TypeOK, vars, tableVars
<1> QED
  BY <1>1, OutsideType, ConsumerStepType, ProcessorStepType DEF Next

\* Every variable of TaskQueue keeps its range; in particular, no task is tried
\* more than max_attempts times, whoever else writes to its row.
THEOREM TypeCorrect == Spec => []TypeOK
<1>1. Spec => [](TypeOK /\ HandsApart)
  BY InitType, TypeStep, PTL DEF Spec
<1> QED
  BY <1>1, PTL

-----------------------------------------------------------------------------
(* What has been given up stays so.                                          *)

\* Why a task that was given up is left alone: a task on the processor's list, or
\* in its hand, has not been given up meanwhile, although consumers and next tasks
\* write to its row, and although a row that was removed may have come back.
GiveUpInv ==
    /\ \A t \in Tasks : ~Present(row[t]) => row[t].attempts = 0
    /\ ~Present(pprev) => pprev.attempts = 0
    /\ \A s \in todo : ~Abandoned(row[s.task])
    /\ \A s, u \in todo : s.task = u.task => s = u
    /\ ppc \in BusyPCs => /\ ~Abandoned(row[cur.task])
                          /\ \A s \in todo : s.task # cur.task

LEMMA InitGiveUp == Init => GiveUpInv
BY NoRowType DEF Init, GiveUpInv, BusyPCs

\* Steps that leave the table alone, and of the processor at most end something.
LEMMA GiveUpFrame ==
    ASSUME GiveUpInv, row' = row,
           \/ processorVars' = processorVars
           \/ TaskDone /\ todo' = todo
           \/ ProcessorEnds
    PROVE  GiveUpInv'
BY NoRowType DEF GiveUpInv, processorVars, TaskDone, ProcessorEnds, BusyPCs, Present, Abandoned

\* Steps that write a row without giving up its task.
LEMMA GiveUpRow ==
    ASSUME TypeOK, GiveUpInv, NEW t \in Tasks, NEW r \in Row,
           row' = [row EXCEPT ![t] = r],
           Present(r) \/ r.attempts = 0,
           Abandoned(r) => Abandoned(row[t]),
           \/ processorVars' = processorVars
           \/ TaskDone /\ todo' = todo
    PROVE  GiveUpInv'
<1>1. \A u \in Tasks : Abandoned(row'[u]) => Abandoned(row[u])
  BY DEF TypeOK, TableType
<1>2. /\ \A s \in todo : s.task \in Tasks
      /\ cur.task \in Tasks
  BY DEF TypeOK, ProcessorType, Snapshot
<1>3. \A u \in Tasks : ~Present(row'[u]) => row'[u].attempts = 0
  BY DEF TypeOK, TableType, GiveUpInv
<1>4. ~Present(pprev') => pprev'.attempts = 0
  BY NoRowType DEF GiveUpInv, processorVars, TaskDone, Present
<1>5. todo' = todo /\ (ppc' \in BusyPCs => ppc \in BusyPCs /\ cur' = cur)
  BY DEF processorVars, TaskDone, BusyPCs
<1>6. \A s \in todo' : ~Abandoned(row'[s.task])
  BY <1>1, <1>2, <1>5 DEF GiveUpInv
<1>7. \A s, u \in todo' : s.task = u.task => s = u
  BY <1>5 DEF GiveUpInv
<1>8. ppc' \in BusyPCs => /\ ~Abandoned(row'[cur'.task])
                         /\ \A s \in todo' : s.task # cur'.task
  BY <1>1, <1>2, <1>5 DEF GiveUpInv
<1> QED
  BY <1>3, <1>4, <1>6, <1>7, <1>8 DEF GiveUpInv, Present, Abandoned

\* A row that one of these steps leaves is not given up, unless it was before.
LEMMA PushedByConsumer ==
    ASSUME TypeOK, HandsApart, NEW c \in Consumers, PushWrite(c)
    PROVE  \E r \in Row :
              /\ row' = [row EXCEPT ![hand[c].task] = r]
              /\ hand[c].task \in Tasks
              /\ r = row[hand[c].task] \/ Present(r)
              /\ r.attempts \in {0, row[hand[c].task].attempts}
<1>1. hand[c].task \in Tasks
  BY DEF PushWrite, TypeOK, ConsumerType, TableType, Message
<1>2. PICK r \in Pushed(row[hand[c].task], cprev[c], new[c]) :
          row' = [row EXCEPT ![hand[c].task] = r]
  BY DEF PushWrite
<1>3. /\ r \in Row
      /\ r = row[hand[c].task] \/ Present(r)
      /\ r.attempts \in {0, row[hand[c].task].attempts}
  BY <1>1, PushedRow DEF PushWrite, TypeOK, ConsumerType, TableType, HandsApart
<1> QED
  BY <1>1, <1>2, <1>3

LEMMA PushedForNext ==
    ASSUME TypeOK, GiveUpInv, NextWrite
    PROVE  \E r \in Row :
              /\ row' = [row EXCEPT ![NextTask] = r]
              /\ r = row[NextTask] \/ Present(r)
              /\ r.attempts \in {0, row[NextTask].attempts}
<1>1. PICK r \in Pushed(row[NextTask], pprev, NextRow) :
          row' = [row EXCEPT ![NextTask] = r]
  BY DEF NextWrite, NextRow
<1>2. NextRow.attempts = pprev.attempts
  BY DEF NextRow
<1>3. /\ r \in Row
      /\ r = row[NextTask] \/ Present(r)
      /\ ~Present(pprev) => r = NextRow
      /\ Present(pprev) => r.attempts = row[NextTask].attempts
  BY <1>2, CurrentType, PushedRow DEF TypeOK, ProcessorType, TableType
<1> QED
  BY <1>1, <1>2, <1>3 DEF GiveUpInv

LEMMA GiveUpStep ==
    TypeOK /\ HandsApart /\ GiveUpInv /\ [Next]_vars => GiveUpInv'
<1> SUFFICES ASSUME TypeOK, HandsApart, GiveUpInv, [Next]_vars PROVE GiveUpInv'
  OBVIOUS
<1>1. ASSUME NEW k \in Keys, Change(k) PROVE GiveUpInv'
  BY <1>1, GiveUpFrame DEF Change
<1>2. ASSUME NEW t \in Tasks, BecomesDue(t) PROVE GiveUpInv'
  <2>1. [row[t] EXCEPT !.nbf = "due"] \in Row /\ row[t] \in Row
    BY <1>2 DEF TypeOK, TableType, Row
  <2>2. row' = [row EXCEPT ![t] = [row[t] EXCEPT !.nbf = "due"]]
    BY <1>2 DEF BecomesDue, TypeOK, TableType
  <2>3. /\ Present([row[t] EXCEPT !.nbf = "due"])
        /\ Abandoned([row[t] EXCEPT !.nbf = "due"]) => Abandoned(row[t])
    BY <1>2, <2>1 DEF BecomesDue, Present, Abandoned, Row
  <2>4. processorVars' = processorVars
    BY <1>2 DEF BecomesDue
  <2> QED
    BY <2>1, <2>2, <2>3, <2>4, GiveUpRow
<1>3. ASSUME NEW t \in Tasks, TaskAdd(t) PROVE GiveUpInv'
  <2>1. /\ [NoRow EXCEPT !.nbf = "due"] \in Row
        /\ Present([NoRow EXCEPT !.nbf = "due"])
        /\ ~Abandoned([NoRow EXCEPT !.nbf = "due"])
    BY TaskConstants DEF NoRow, Row, Present, Abandoned, TaskConstants
  <2>2. /\ row' = [row EXCEPT ![t] = [NoRow EXCEPT !.nbf = "due"]]
        /\ processorVars' = processorVars
    BY <1>3 DEF TaskAdd
  <2> QED
    BY <2>1, <2>2, GiveUpRow
<1>4. ASSUME NEW t \in Tasks, TaskRemove(t) PROVE GiveUpInv'
  <2>1. row' = [row EXCEPT ![t] = NoRow] /\ processorVars' = processorVars
    BY <1>4 DEF TaskRemove
  <2>2. ~Abandoned(NoRow)
    BY NoRowType DEF Abandoned
  <2> QED
    BY <2>1, <2>2, NoRowType, GiveUpRow
<1>5. ASSUME NEW c \in Consumers, Consumer(c) \/ ConsumerCrash(c) PROVE GiveUpInv'
  <2>1. CASE PushWrite(c)
    <3>1. PICK r \in Row :
              /\ row' = [row EXCEPT ![hand[c].task] = r]
              /\ hand[c].task \in Tasks
              /\ r = row[hand[c].task] \/ Present(r)
              /\ r.attempts \in {0, row[hand[c].task].attempts}
      BY <2>1, PushedByConsumer
    <3>2. Present(r) \/ r.attempts = 0
      BY <3>1 DEF GiveUpInv
    <3>3. Abandoned(r) => Abandoned(row[hand[c].task])
      BY <3>1, TaskConstants DEF GiveUpInv, Abandoned, TaskConstants
    <3>4. processorVars' = processorVars
      BY <2>1 DEF PushWrite
    <3> QED
      BY <3>1, <3>2, <3>3, <3>4, GiveUpRow
  <2>2. CASE ~PushWrite(c)
    <3>1. row' = row /\ processorVars' = processorVars
      BY <1>5, <2>2
         DEF Consumer, ConsumerCrash, Receive, GetTask, PushRead, PushFails, Ack,
             Redeliver, tableVars
    <3> QED
      BY <3>1, GiveUpFrame
  <2> QED
    BY <2>1, <2>2
<1>6. CASE Processor \/ ProcessorCrash
  <2>1. CASE SelectTasks
    <3>1. \A s \in todo' :
            /\ s.task \in Selected
            /\ s = [task |-> s.task, attempts |-> row[s.task].attempts,
                    payload |-> row[s.task].payload]
      BY <2>1 DEF SelectTasks
    <3>2. \A t \in Selected : ~Abandoned(row[t])
      BY TaskConstants DEF Selected, Abandoned, TypeOK, TableType, Row, TaskConstants
    <3>3. row' = row /\ pprev' = pprev /\ ppc' = "next"
      BY <2>1 DEF SelectTasks, tableVars
    <3>4. \A s, u \in todo' : s.task = u.task => s = u
      BY <3>1
    <3> QED
      BY <3>1, <3>2, <3>3, <3>4 DEF GiveUpInv, BusyPCs
  <2>2. CASE PopTask
    <3>1. PICK s \in todo :
          /\ row' = [row EXCEPT ![s.task] = NoRow]
          /\ todo' = todo \ {s}
          /\ cur' = s
      BY <2>2 DEF PopTask
    <3>2. pprev' = pprev
      BY <2>2 DEF PopTask
    <3>3. \A u \in todo : u.task \in Tasks
      BY DEF TypeOK, ProcessorType, Snapshot
    <3>4. \A t \in Tasks : row'[t] = row[t] \/ row'[t] = NoRow
      BY <3>1 DEF TypeOK, TableType
    <3>5. ~Abandoned(NoRow)
      BY NoRowType DEF Abandoned
    <3> QED
      BY <3>1, <3>2, <3>3, <3>4, <3>5, NoRowType DEF GiveUpInv
  <2>3. CASE TaskGone
    BY <2>3 DEF TaskGone, GiveUpInv, tableVars, BusyPCs
  <2>4. CASE Fetch \/ ImportFails
    BY <2>4, NoRowType DEF Fetch, ImportFails, GiveUpInv, tableVars, BusyPCs
  <2>5. CASE NextRead \/ RetryRead
    BY <2>5, CurrentType DEF NextRead, RetryRead, GiveUpInv, tableVars, BusyPCs
  <2>6. CASE NextWrite
    <3>1. PICK r \in Row :
              /\ row' = [row EXCEPT ![NextTask] = r]
              /\ r = row[NextTask] \/ Present(r)
              /\ r.attempts \in {0, row[NextTask].attempts}
      BY <2>6, PushedForNext
    <3>2. Present(r) \/ r.attempts = 0
      BY <3>1, CurrentType DEF GiveUpInv
    <3>3. Abandoned(r) => Abandoned(row[NextTask])
      BY <3>1, CurrentType, TaskConstants DEF GiveUpInv, Abandoned, TaskConstants
    <3> QED
      BY <2>6, <3>1, <3>2, <3>3, CurrentType, GiveUpRow DEF NextWrite
  <2>7. CASE RetryWrite
    <3>1. PICK r \in Pushed(row[cur.task], pprev, RetryTask) :
              row' = [row EXCEPT ![cur.task] = r]
      BY <2>7 DEF RetryWrite
    <3>2. r = row[cur.task] \/ Present(r)
      BY <3>1, CurrentType, PushedRow DEF TypeOK, ProcessorType, TableType
    <3>3. /\ todo' = todo /\ pprev' = NoRow /\ ppc' = "next" /\ ppc \in BusyPCs
      BY <2>7 DEF RetryWrite, TaskDone, BusyPCs
    <3>4. \A u \in todo : u.task \in Tasks /\ row'[u.task] = row[u.task]
      BY <3>1, <3>3 DEF GiveUpInv, TypeOK, ProcessorType, TableType, Snapshot
    <3>5. \A u \in Tasks : ~Present(row'[u]) => row'[u].attempts = 0
      BY <3>1, <3>2, CurrentType DEF GiveUpInv, TypeOK, TableType
    <3> QED
      BY <3>3, <3>4, <3>5, NoRowType DEF GiveUpInv, BusyPCs
  <2>8. CASE ImportDone \/ RetryFails \/ Report \/ ProcessorCrash
    BY <2>8, GiveUpFrame DEF ImportDone, RetryFails, Report, ProcessorCrash, tableVars
  <2> QED
    BY <1>6, <2>1, <2>2, <2>3, <2>4, <2>5, <2>6, <2>7, <2>8 DEF Processor
<1>7. CASE UNCHANGED vars
  BY <1>7, GiveUpFrame DEF vars, tableVars
<1> QED
  BY <1>1, <1>2, <1>3, <1>4, <1>5, <1>6, <1>7 DEF Next

LEMMA QueueInvariant == Spec => [](TypeOK /\ HandsApart /\ GiveUpInv)
BY InitType, InitGiveUp, TypeStep, GiveUpStep, PTL DEF Spec

\* What a step may do to the row of a task that has been given up.
LEMMA GivenUpStep ==
    ASSUME TypeOK, HandsApart, GiveUpInv, [Next]_vars,
           NEW t \in Tasks, Abandoned(row[t])
    PROVE  \/ Abandoned(row'[t])
           \/ Present(row'[t]) /\ row'[t].attempts = 0
           \/ ops' > ops
<1>1. ASSUME NEW u \in Tasks, BecomesDue(u) PROVE Abandoned(row'[t])
  BY <1>1 DEF BecomesDue, TypeOK, TableType, Row, Abandoned, Present
<1>2. ASSUME NEW u \in Tasks, TaskAdd(u) \/ TaskRemove(u) PROVE ops' > ops
  BY <1>2 DEF TaskAdd, TaskRemove, Command, TypeOK, HistoryType
<1>3. ASSUME NEW c \in Consumers, PushWrite(c)
      PROVE  Abandoned(row'[t]) \/ (Present(row'[t]) /\ row'[t].attempts = 0)
  <2>1. PICK r \in Row :
            /\ row' = [row EXCEPT ![hand[c].task] = r]
            /\ hand[c].task \in Tasks
            /\ r = row[hand[c].task] \/ Present(r)
            /\ r.attempts \in {0, row[hand[c].task].attempts}
    BY <1>3, PushedByConsumer
  <2>2. row'[t] = row[t] \/ (row'[t] = r /\ t = hand[c].task)
    BY <2>1 DEF TypeOK, TableType
  <2> QED
    BY <2>1, <2>2 DEF Abandoned
<1>4. CASE NextWrite
  <2>1. PICK r \in Row :
            /\ row' = [row EXCEPT ![NextTask] = r]
            /\ r = row[NextTask] \/ Present(r)
            /\ r.attempts \in {0, row[NextTask].attempts}
    BY <1>4, PushedForNext
  <2>2. row'[t] = row[t] \/ (row'[t] = r /\ t = NextTask)
    BY <2>1, CurrentType DEF TypeOK, TableType
  <2> QED
    BY <2>1, <2>2 DEF Abandoned
<1>5. CASE PopTask
  <2>1. PICK s \in todo : row' = [row EXCEPT ![s.task] = NoRow]
    BY <1>5 DEF PopTask
  <2>2. s.task # t
    BY <2>1 DEF GiveUpInv
  <2> QED
    BY <2>1, <2>2 DEF TypeOK, TableType
<1>6. CASE RetryWrite
  <2>1. cur.task # t
    BY <1>6 DEF RetryWrite, GiveUpInv, BusyPCs
  <2> QED
    BY <1>6, <2>1 DEF RetryWrite, TypeOK, TableType
<1>7. CASE row' = row
  BY <1>7
<1>8. \/ row' = row
      \/ \E u \in Tasks : BecomesDue(u) \/ TaskAdd(u) \/ TaskRemove(u)
      \/ \E c \in Consumers : PushWrite(c)
      \/ NextWrite \/ PopTask \/ RetryWrite
  BY DEF Next, Change, Consumer, ConsumerCrash, Receive, GetTask, PushRead,
         PushFails, Ack, Redeliver, Processor, SelectTasks, TaskGone, Fetch,
         ImportDone, NextRead, ImportFails, RetryRead, RetryFails, Report,
         ProcessorCrash, vars, tableVars
<1> QED
  BY <1>1, <1>2, <1>3, <1>4, <1>5, <1>6, <1>7, <1>8

\* At every moment the processor's list holds only tasks with attempts left, each
\* once, and the task in hand is not on it: a task is not tried again in one run.
THEOREM RunTriesOnce == Spec => []GiveUpInv
BY QueueInvariant, PTL

\* A task with max_attempts failures is left alone by every run of the processor,
\* for any number of keys, consumers and runs: only a message or the operator
\* brings it back.
THEOREM AbandonedStaysAbandoned == Spec => GivenUpForGood
<1>1. TypeOK /\ HandsApart /\ GiveUpInv /\ [Next]_vars =>
        \A t \in Tasks :
          Abandoned(row[t]) => \/ Abandoned(row'[t])
                               \/ Present(row'[t]) /\ row'[t].attempts = 0
                               \/ ops' > ops
  BY GivenUpStep
<1> QED
  BY <1>1, QueueInvariant, PTL DEF Spec, GivenUpForGood

-----------------------------------------------------------------------------
(* No change is forgotten, where the handler looks its key up.               *)

\* A row that is there stays, unless it is popped or removed.
LEMMA RowKept ==
    ASSUME TypeOK, HandsApart, [Next]_vars, NEW t \in Tasks, Present(row[t])
    PROVE  \/ Present(row'[t])
           \/ PopTask /\ cur'.task = t
           \/ TaskRemove(t)
<1>1. ASSUME NEW u \in Tasks, BecomesDue(u) \/ TaskAdd(u) PROVE Present(row'[t])
  BY <1>1 DEF BecomesDue, TaskAdd, TypeOK, TableType, Row, Present
<1>2. ASSUME NEW u \in Tasks, TaskRemove(u) PROVE Present(row'[t]) \/ TaskRemove(t)
  BY <1>2 DEF TaskRemove, TypeOK, TableType
<1>3. ASSUME NEW c \in Consumers, PushWrite(c) PROVE Present(row'[t])
  <2>1. PICK r \in Row :
            /\ row' = [row EXCEPT ![hand[c].task] = r]
            /\ r = row[hand[c].task] \/ Present(r)
    BY <1>3, PushedByConsumer
  <2> QED
    BY <2>1 DEF TypeOK, TableType
<1>4. CASE NextWrite
  <2>1. PICK r \in Pushed(row[NextTask], pprev, NextRow) :
          row' = [row EXCEPT ![NextTask] = r]
    BY <1>4 DEF NextWrite, NextRow
  <2>2. r = row[NextTask] \/ Present(r)
    BY <2>1, CurrentType, PushedRow DEF TypeOK, ProcessorType, TableType
  <2> QED
    BY <2>1, <2>2 DEF TypeOK, TableType
<1>5. CASE PopTask
  <2>1. PICK s \in todo : row' = [row EXCEPT ![s.task] = NoRow] /\ cur' = s
    BY <1>5 DEF PopTask
  <2> QED
    BY <1>5, <2>1 DEF TypeOK, TableType
<1>6. CASE RetryWrite
  <2>1. PICK r \in Pushed(row[cur.task], pprev, RetryTask) :
          row' = [row EXCEPT ![cur.task] = r]
    BY <1>6 DEF RetryWrite
  <2>2. r = row[cur.task] \/ Present(r)
    BY <2>1, CurrentType, PushedRow DEF TypeOK, ProcessorType, TableType
  <2> QED
    BY <2>1, <2>2 DEF TypeOK, TableType
<1>7. CASE row' = row
  BY <1>7
<1>8. \/ row' = row
      \/ \E u \in Tasks : BecomesDue(u) \/ TaskAdd(u) \/ TaskRemove(u)
      \/ \E c \in Consumers : PushWrite(c)
      \/ NextWrite \/ PopTask \/ RetryWrite
  BY DEF Next, Change, Consumer, ConsumerCrash, Receive, GetTask, PushRead,
         PushFails, Ack, Redeliver, Processor, SelectTasks, TaskGone, Fetch,
         ImportDone, NextRead, ImportFails, RetryRead, RetryFails, Report,
         ProcessorCrash, vars, tableVars
<1> QED
  BY <1>1, <1>2, <1>3, <1>4, <1>5, <1>6, <1>7, <1>8

\* What has been imported, or waived, counts for every earlier version as well.
LEMMA HistoryGrows ==
    ASSUME TypeOK, [Next]_vars, NEW k \in Keys
    PROVE  /\ version'[k] \in Nat /\ version'[k] >= version[k]
           /\ seen'[k] \in Nat /\ seen'[k] >= seen[k]
           /\ waived'[k] = waived[k] \/ waived'[k] = version[k]
<1>1. version'[k] \in Nat /\ version'[k] >= version[k]
  <2>1. ASSUME NEW l \in Keys, Change(l)
        PROVE  version'[k] \in Nat /\ version'[k] >= version[k]
    BY <2>1 DEF Change, TypeOK, HistoryType
  <2>2. (\E l \in Keys : Change(l)) \/ version' = version
    BY DEF Next, BecomesDue, TaskAdd, TaskRemove, Consumer, ConsumerCrash, Receive,
           GetTask, PushRead, PushWrite, PushFails, Ack, Redeliver, Processor,
           SelectTasks, PopTask, TaskGone, Fetch, ImportDone, NextRead, NextWrite,
           ImportFails, RetryRead, RetryWrite, RetryFails, Report, ProcessorCrash,
           vars, historyVars
  <2> QED
    BY <2>1, <2>2 DEF TypeOK, HistoryType
<1>2. seen'[k] \in Nat /\ seen'[k] >= seen[k]
  <2>1. CASE Imports
    BY <2>1, CurrentType DEF Imports, TypeOK, HistoryType, ProcessorType
  <2>2. Imports \/ seen' = seen
    BY DEF Next, Change, BecomesDue, TaskAdd, TaskRemove, Consumer, ConsumerCrash,
           Receive, GetTask, PushRead, PushWrite, PushFails, Ack, Redeliver,
           Processor, SelectTasks, PopTask, TaskGone, Fetch, ImportDone, NextRead,
           NextWrite, ImportFails, RetryRead, RetryWrite, RetryFails, Report,
           ProcessorCrash, vars, historyVars
  <2> QED
    BY <2>1, <2>2 DEF TypeOK, HistoryType
<1>3. waived'[k] = waived[k] \/ waived'[k] = version[k]
  <2>1. ASSUME NEW t \in Tasks, TaskRemove(t)
        PROVE  waived'[k] = waived[k] \/ waived'[k] = version[k]
    BY <2>1, TasksType DEF TaskRemove, TypeOK, HistoryType
  <2>2. CASE ProcessorCrash
    BY <2>2, CurrentType DEF ProcessorCrash, TypeOK, HistoryType
  <2>3. (\E t \in Tasks : TaskRemove(t)) \/ ProcessorCrash \/ waived' = waived
    BY DEF Next, Change, BecomesDue, TaskAdd, Consumer, ConsumerCrash,
           Receive, GetTask, PushRead, PushWrite, PushFails, Ack, Redeliver,
           Processor, SelectTasks, PopTask, TaskGone, Fetch, ImportDone, NextRead,
           NextWrite, ImportFails, RetryRead, RetryWrite, RetryFails, Report,
           vars, historyVars
  <2> QED
    BY <2>1, <2>2, <2>3
<1> QED
  BY <1>1, <1>2, <1>3

\* The processor works off a task, or leaves it to somebody else.
LEMMA InHandStays ==
    ASSUME DataInPayload = FALSE, TypeOK, HandsApart, [Next]_vars,
           NEW k \in Keys, NEW v \in Nat, v <= version[k],
           InProcess(k, v), ppc = "retrywrite" => ~Present(pprev)
    PROVE  Secured(k, v)'
<1>1. /\ ppc \in BusyPCs /\ KeyOf(cur.task) = k
      /\ ppc \in {"import", "nextwrite"} => got >= v
      /\ got \in Nat /\ version[k] \in Nat /\ seen \in [Keys -> Nat]
      /\ waived \in [Keys -> Nat]
  BY DEF InProcess, TypeOK, ProcessorType, HistoryType
<1>2. \E s \in Subs : cur.task = <<s, k>>
  BY <1>1, CurrentType DEF Tasks, KeyOf
<1>3. Present(row'[cur.task]) => Secured(k, v)'
  BY <1>2 DEF Secured, Carries
<1>4. CASE Fetch
  BY <1>1, <1>4 DEF Fetch, Secured, InProcess, BusyPCs
<1>5. CASE NextRead \/ ImportFails
  BY <1>1, <1>5 DEF NextRead, ImportFails, Secured, InProcess, BusyPCs
<1>6. CASE ImportDone \/ NextWrite
  <2>1. got >= v /\ seen' = [seen EXCEPT ![k] = IF got > @ THEN got ELSE @]
    BY <1>1, <1>6 DEF ImportDone, NextWrite, Imports
  <2>2. seen'[k] >= v
    BY <1>1, <2>1
  <2> QED
    BY <2>2 DEF Secured
<1>7. CASE RetryRead
  <2>1. CASE Present(row[cur.task])
    BY <1>3, <1>7, <2>1 DEF RetryRead, tableVars
  <2>2. CASE ~Present(row[cur.task])
    BY <1>1, <1>7, <2>2 DEF RetryRead, Secured, InProcess, BusyPCs, Present
  <2> QED
    BY <2>1, <2>2
<1>8. CASE RetryWrite
  <2>1. PICK r \in Pushed(row[cur.task], pprev, RetryTask) :
          row' = [row EXCEPT ![cur.task] = r]
    BY <1>8 DEF RetryWrite
  <2>2. r = RetryTask
    BY <1>8, <2>1, CurrentType, PushedRow
       DEF RetryWrite, TypeOK, ProcessorType, TableType
  <2>3. row'[cur.task] = RetryTask
    BY <2>1, <2>2, CurrentType DEF TypeOK, TableType
  <2> QED
    BY <1>3, <2>3, CurrentType
<1>9. CASE RetryFails
  <2>1. Present(row[cur.task]) /\ row' = row
    BY <1>9 DEF RetryFails, Conflict, Present, tableVars
  <2> QED
    BY <1>3, <2>1
<1>10. CASE ProcessorCrash
  <2>1. waived'[k] = version[k]
    BY <1>1, <1>10 DEF ProcessorCrash, BusyPCs
  <2> QED
    BY <2>1 DEF Secured
<1>11. CASE processorVars' = processorVars
  BY <1>1, <1>11 DEF processorVars, Secured, InProcess
<1>12. \/ Fetch \/ NextRead \/ ImportFails \/ ImportDone \/ NextWrite
       \/ RetryRead \/ RetryWrite \/ RetryFails \/ ProcessorCrash
       \/ processorVars' = processorVars
  BY <1>1
     DEF Next, Change, BecomesDue, TaskAdd, TaskRemove, Consumer, ConsumerCrash,
         Receive, GetTask, PushRead, PushWrite, PushFails, Ack, Redeliver,
         Processor, SelectTasks, PopTask, TaskGone, Report, BusyPCs, vars
<1> QED
  BY <1>4, <1>5, <1>6, <1>7, <1>8, <1>9, <1>10, <1>11, <1>12

\* What has been secured stays secured.
LEMMA SecuredStays ==
    ASSUME DataInPayload = FALSE, TypeOK, HandsApart, [Next]_vars,
           NEW k \in Keys, NEW v \in Nat, v <= version[k], Secured(k, v)
    PROVE  Secured(k, v)'
<1>1. CASE seen[k] >= v
  <2>1. seen'[k] >= v
    BY <1>1, HistoryGrows DEF TypeOK, HistoryType
  <2> QED
    BY <2>1 DEF Secured
<1>2. CASE waived[k] >= v
  <2>1. waived'[k] >= v
    BY <1>2, HistoryGrows DEF TypeOK, HistoryType
  <2> QED
    BY <2>1 DEF Secured
<1>3. ASSUME NEW s \in Subs, Carries(row[<<s, k>>], v)
      PROVE  Secured(k, v)'
  <2>1. Present(row[<<s, k>>]) /\ <<s, k>> \in Tasks /\ KeyOf(<<s, k>>) = k
    BY <1>3, TasksType DEF Carries
  <2>2. CASE Present(row'[<<s, k>>])
    BY <2>2 DEF Secured, Carries
  <2>3. CASE PopTask /\ cur'.task = <<s, k>>
    BY <2>1, <2>3 DEF PopTask, Secured, InProcess, BusyPCs
  <2>4. CASE TaskRemove(<<s, k>>)
    <3>1. waived'[k] = version[k]
      BY <2>1, <2>4 DEF TaskRemove, TypeOK, HistoryType
    <3> QED
      BY <3>1 DEF Secured
  <2> QED
    BY <2>1, <2>2, <2>3, <2>4, RowKept
<1>4. CASE InProcess(k, v) /\ (ppc = "retrywrite" => ~Present(pprev))
  BY <1>4, InHandStays
<1> QED
  BY <1>1, <1>2, <1>3, <1>4 DEF Secured

LEMMA InitImport == DataInPayload = FALSE /\ Init => ImportInv
<1> SUFFICES ASSUME Init PROVE ImportInv
  OBVIOUS
<1>1. HandsApart
  BY InitType
<1>2. NoForesight /\ SecuredByPush
  BY DEF Init, NoForesight, SecuredByPush
<1>3. \A k \in Keys : Secured(k, version[k])
  BY DEF Init, Secured
<1> QED
  BY <1>1, <1>2, <1>3 DEF ImportInv

\* What becomes of the messages.
LEMMA MessageKept ==
    ASSUME TypeOK, [Next]_vars, NEW m \in messages, m \notin messages'
    PROVE  \E c \in Consumers : Ack(c) /\ hand[c] = m
BY DEF Next, Change, BecomesDue, TaskAdd, TaskRemove, Consumer, ConsumerCrash,
       Receive, GetTask, PushRead, PushWrite, PushFails, Ack, Redeliver,
       Processor, SelectTasks, PopTask, TaskGone, Fetch, ImportDone, NextRead,
       NextWrite, ImportFails, RetryRead, RetryWrite, RetryFails, Report,
       ProcessorCrash, vars, tableVars

LEMMA NoForesightStep ==
    ASSUME TypeOK, NoForesight, [Next]_vars
    PROVE  NoForesight'
<1>1. ASSUME NEW m \in messages PROVE m.version <= version'[KeyOf(m.task)]
  <2>1. KeyOf(m.task) \in Keys /\ m.version \in Nat
    BY <1>1, TasksType DEF TypeOK, TableType, Message
  <2>2. version[KeyOf(m.task)] \in Nat
    BY <2>1 DEF TypeOK, HistoryType
  <2> QED
    BY <1>1, <2>1, <2>2, HistoryGrows DEF NoForesight
<1>2. ASSUME NEW k \in Keys, Change(k), NEW m \in messages', m \notin messages
      PROVE  m.version <= version'[KeyOf(m.task)]
  <2>1. PICK d \in Deliveries :
          m = [task |-> <<d[1], k>>, nbf |-> d[2], version |-> version[k] + 1]
    BY <1>2 DEF Change
  <2>2. KeyOf(m.task) = k /\ m.version = version[k] + 1
    BY <2>1 DEF KeyOf
  <2>3. version'[k] = version[k] + 1 /\ version[k] \in Nat
    BY <1>2 DEF Change, TypeOK, HistoryType
  <2> QED
    BY <2>2, <2>3
<1>3. (\E k \in Keys : Change(k)) \/ messages' \subseteq messages
  BY DEF Next, BecomesDue, TaskAdd, TaskRemove, Consumer, ConsumerCrash,
         Receive, GetTask, PushRead, PushWrite, PushFails, Ack, Redeliver,
         Processor, SelectTasks, PopTask, TaskGone, Fetch, ImportDone, NextRead,
         NextWrite, ImportFails, RetryRead, RetryWrite, RetryFails, Report,
         ProcessorCrash, vars, tableVars
<1> QED
  BY <1>1, <1>2, <1>3 DEF NoForesight

\* The message that a consumer at work has in hand.
LEMMA HandType ==
    ASSUME TypeOK, NoForesight, NEW c \in Consumers, cpc[c] # "idle"
    PROVE  /\ hand[c] \in messages /\ hand[c].task \in Tasks
           /\ KeyOf(hand[c].task) \in Keys /\ hand[c].version \in Nat
           /\ hand[c].version <= version[KeyOf(hand[c].task)]
<1>1. hand[c] \in messages /\ hand[c] \in Message
  BY DEF TypeOK, ConsumerType, TableType
<1> QED
  BY <1>1, TasksType DEF Message, NoForesight

LEMMA SecuredByPushStep ==
    ASSUME DataInPayload = FALSE, TypeOK, ImportInv, [Next]_vars
    PROVE  SecuredByPush'
<1> USE DEF ImportInv
<1> SUFFICES ASSUME NEW c \in Consumers,
                    \/ cpc'[c] = "ack"
                    \/ cpc'[c] = "write" /\ Present(cprev'[c])
             PROVE  Secured(KeyOf(hand[c].task), hand[c].version)'
  BY DEF SecuredByPush, Present
<1>1. /\ cpc[c] # "idle" /\ hand'[c] = hand[c]
      /\ \/ cpc'[c] = cpc[c] /\ cprev'[c] = cprev[c]
         \/ PushRead(c)
         \/ PushWrite(c)
  BY DEF TypeOK, ConsumerType, Next, Change, BecomesDue, TaskAdd, TaskRemove,
         Consumer, ConsumerCrash, Receive, GetTask, PushRead, PushWrite, PushFails,
         Ack, Redeliver, Processor, SelectTasks, PopTask, TaskGone, Fetch,
         ImportDone, NextRead, NextWrite, ImportFails, RetryRead, RetryWrite,
         RetryFails, Report, ProcessorCrash, vars, consumerVars
<1>2. PICK k \in Keys, v \in Nat :
        k = KeyOf(hand[c].task) /\ v = hand[c].version /\ v <= version[k]
  BY <1>1, HandType
<1> SUFFICES Secured(k, v)'
  BY <1>1, <1>2 DEF Secured, InProcess, KeyOf
<1>3. PICK s \in Subs : hand[c].task = <<s, k>>
  BY <1>1, <1>2, HandType DEF Tasks, KeyOf
<1>4. CASE cpc'[c] = cpc[c] /\ cprev'[c] = cprev[c]
  <2>1. Secured(k, v)
    BY <1>2, <1>4 DEF SecuredByPush, Present
  <2> QED
    BY <1>2, <2>1, SecuredStays
<1>5. CASE PushRead(c)
  <2>1. Present(row[hand[c].task])
    BY <1>5 DEF PushRead, TypeOK, ConsumerType, Present
  <2>2. row' = row
    BY <1>5 DEF PushRead, tableVars
  <2> QED
    BY <1>3, <2>1, <2>2 DEF Secured, Carries
<1>6. CASE PushWrite(c)
  <2>1. CASE Present(cprev[c])
    <3>1. Secured(k, v)
      BY <1>2, <1>6, <2>1 DEF PushWrite, SecuredByPush
    <3> QED
      BY <1>2, <3>1, SecuredStays
  <2>2. CASE ~Present(cprev[c])
    <3>1. hand[c].task \in Tasks
      BY <1>1, HandType
    <3>2. PICK r \in Pushed(row[hand[c].task], cprev[c], new[c]) :
            row' = [row EXCEPT ![hand[c].task] = r]
      BY <1>6 DEF PushWrite
    <3>3. r = new[c] /\ Present(new[c])
      BY <1>6, <2>2, <3>1, <3>2, PushedRow
         DEF PushWrite, TypeOK, ConsumerType, TableType, HandsApart
    <3>4. Present(row'[hand[c].task])
      BY <3>1, <3>2, <3>3 DEF TypeOK, TableType
    <3> QED
      BY <1>3, <3>4 DEF Secured, Carries
  <2> QED
    BY <2>1, <2>2
<1> QED
  BY <1>1, <1>4, <1>5, <1>6

LEMMA ImportStep ==
    DataInPayload = FALSE /\ TypeOK /\ ImportInv /\ [Next]_vars => ImportInv'
<1> SUFFICES ASSUME DataInPayload = FALSE, TypeOK, ImportInv, [Next]_vars
             PROVE  ImportInv'
  OBVIOUS
<1> USE DEF ImportInv
<1>1. HandsApart'
  BY TypeStep
<1>2. NoForesight'
  BY NoForesightStep
<1>3. SecuredByPush'
  BY SecuredByPushStep
<1>4. ASSUME NEW k \in Keys
      PROVE  \/ Secured(k, version[k])'
             \/ \E m \in messages' : KeyOf(m.task) = k /\ m.version = version'[k]
  <2>1. CASE Change(k)
    <3>1. PICK d \in Deliveries :
            [task |-> <<d[1], k>>, nbf |-> d[2], version |-> version[k] + 1]
               \in messages'
      BY <2>1 DEF Change
    <3>2. version'[k] = version[k] + 1
      BY <2>1 DEF Change, TypeOK, HistoryType
    <3> QED
      BY <3>1, <3>2 DEF KeyOf
  <2>2. CASE ~Change(k)
    <3>1. version'[k] = version[k]
      BY <2>2
         DEF TypeOK, HistoryType, Next, Change, BecomesDue, TaskAdd, TaskRemove,
             Consumer, ConsumerCrash, Receive, GetTask, PushRead, PushWrite,
             PushFails, Ack, Redeliver, Processor, SelectTasks, PopTask, TaskGone,
             Fetch, ImportDone, NextRead, NextWrite, ImportFails, RetryRead,
             RetryWrite, RetryFails, Report, ProcessorCrash, vars, historyVars
    <3>2. PICK v \in Nat : v = version[k] /\ v <= version[k]
      BY DEF TypeOK, HistoryType
    <3>3. CASE Secured(k, v)
      <4>1. Secured(k, v)'
        BY <3>2, <3>3, SecuredStays
      <4> QED
        BY <3>1, <3>2, <4>1 DEF Secured, InProcess
    <3>4. ASSUME NEW m \in messages, KeyOf(m.task) = k, m.version = v, m \notin messages'
          PROVE  Secured(k, v)
      <4>1. PICK c \in Consumers : Ack(c) /\ hand[c] = m
        BY <3>4, MessageKept
      <4> QED
        BY <3>4, <4>1 DEF Ack, SecuredByPush
    <3> QED
      BY <3>1, <3>2, <3>3, <3>4
  <2> QED
    BY <2>1, <2>2
<1> QED
  BY <1>1, <1>2, <1>3, <1>4

\* Where the handler looks its key up, each change that is not yet imported has a
\* message, a row or a task in hand that will see it: the inductive invariant.
THEOREM ImportInvariant ==
    ASSUME DataInPayload = FALSE
    PROVE  Spec => []ImportInv
<1>1. Init => TypeOK /\ ImportInv
  BY InitType, InitImport
<1>2. TypeOK /\ ImportInv /\ [Next]_vars => TypeOK' /\ ImportInv'
  BY TypeStep, ImportStep DEF ImportInv
<1> QED
  BY <1>1, <1>2, PTL DEF Spec

\* So no change is forgotten, for any number of consumers, keys and sub-queues:
\* until it is imported it is waited for, unless a crash or the operator drops it.
THEOREM NothingForgotten ==
    ASSUME DataInPayload = FALSE
    PROVE  Spec => []NoLostChange
<1>1. ImportInv => NoLostChange
  BY DEF ImportInv, Secured, NoLostChange, Taken
<1> QED
  BY <1>1, ImportInvariant, PTL

-----------------------------------------------------------------------------
(* The queue implements a TaskLedger for each key.                           *)

\* Nothing is imported, read or dropped before it has happened.
NotAhead ==
    /\ \A k \in Keys : seen[k] <= version[k] /\ waived[k] <= version[k]
    /\ ppc \in {"import", "nextwrite"} => got <= version[KeyOf(cur.task)]

\* A step adds to one of the histories at most.
LEMMA HistorySteps ==
    ASSUME TypeOK, [Next]_vars
    PROVE  \/ (\E k \in Keys : Change(k)) /\ UNCHANGED <<seen, waived>>
           \/ /\ Imports /\ ppc \in {"import", "nextwrite"}
              /\ UNCHANGED <<version, waived>>
           \/ UNCHANGED <<version, seen>>
BY DEF Next, Change, BecomesDue, TaskAdd, TaskRemove, Consumer, ConsumerCrash,
       Receive, GetTask, PushRead, PushWrite, PushFails, Ack, Redeliver,
       Processor, SelectTasks, PopTask, TaskGone, Fetch, ImportDone, NextRead,
       NextWrite, ImportFails, RetryRead, RetryWrite, RetryFails, Report,
       ProcessorCrash, vars, historyVars

LEMMA NotAheadStep ==
    ASSUME DataInPayload = FALSE, TypeOK, NotAhead, [Next]_vars
    PROVE  NotAhead'
<1>0. /\ version \in [Keys -> Nat] /\ seen \in [Keys -> Nat] /\ waived \in [Keys -> Nat]
      /\ got \in Nat /\ KeyOf(cur.task) \in Keys
  BY CurrentType DEF TypeOK, HistoryType, ProcessorType
<1>1. ASSUME NEW k \in Keys PROVE seen'[k] <= version'[k] /\ waived'[k] <= version'[k]
  <2>1. /\ version'[k] \in Nat /\ version'[k] >= version[k]
        /\ seen'[k] \in Nat
        /\ waived'[k] = waived[k] \/ waived'[k] = version[k]
    BY HistoryGrows
  <2>2. seen'[k] = seen[k] \/ seen'[k] <= version[k]
    BY <1>0, HistorySteps DEF Imports, NotAhead
  <2> QED
    BY <1>0, <2>1, <2>2 DEF NotAhead
<1>2. ASSUME ppc' \in {"import", "nextwrite"}
      PROVE  got' <= version'[KeyOf(cur'.task)]
  <2>1. CASE Fetch
    BY <1>0, <2>1 DEF Fetch, historyVars
  <2>2. CASE cur' = cur /\ got' = got /\ ppc \in {"import", "nextwrite"}
    <3>1. version'[KeyOf(cur.task)] \in Nat
          /\ version'[KeyOf(cur.task)] >= version[KeyOf(cur.task)]
      BY <1>0, HistoryGrows
    <3> QED
      BY <1>0, <2>2, <3>1 DEF NotAhead
  <2> QED
    BY <1>2, <2>1, <2>2
       DEF Next, Change, BecomesDue, TaskAdd, TaskRemove, Consumer, ConsumerCrash,
           Receive, GetTask, PushRead, PushWrite, PushFails, Ack, Redeliver,
           Processor, SelectTasks, PopTask, TaskGone, ImportDone, NextRead,
           NextWrite, ImportFails, RetryRead, RetryWrite, RetryFails, Report,
           ProcessorCrash, TaskDone, ProcessorEnds, vars, processorVars
<1> QED
  BY <1>1, <1>2 DEF NotAhead

\* The stages of a key while it does not change.
LEMMA StageStep ==
    ASSUME DataInPayload = FALSE, TypeOK, ImportInv, ImportInv', [Next]_vars,
           NEW k \in Keys, version'[k] = version[k]
    PROVE  /\ Stage(k)' = "settled" <=> \/ seen'[k] >= version[k]
                                        \/ waived'[k] >= version[k]
           /\ Stage(k) = "settled" <=> seen[k] >= version[k] \/ waived[k] >= version[k]
           /\ \/ Stage(k)' = "settled"
              \/ Stage(k)' = Stage(k)
              \/ Stage(k) = "announced" /\ Stage(k)' = "queued"
              \/ Stage(k) = "settled"
<1>1. PICK v \in Nat : v = version[k] /\ v <= version[k]
  BY DEF TypeOK, HistoryType
<1>2. Secured(k, v) => Secured(k, v)'
  BY <1>1, SecuredStays DEF ImportInv
<1>3. Secured(k, v)' => Secured(k, version[k])'
  BY <1>1 DEF Secured, InProcess
<1>4. \/ Secured(k, version[k])
      \/ \E m \in messages : KeyOf(m.task) = k /\ m.version = version[k]
  BY DEF ImportInv
<1>5. \/ Secured(k, version[k])'
      \/ \E m \in messages' : KeyOf(m.task) = k /\ m.version = version'[k]
  BY DEF ImportInv
<1>6. /\ Stage(k)' = "settled" <=> seen'[k] >= version[k] \/ waived'[k] >= version[k]
      /\ Stage(k) = "settled" <=> seen[k] >= version[k] \/ waived[k] >= version[k]
  BY DEF Stage
<1>7. /\ Secured(k, version[k]) => Stage(k) \in {"settled", "queued"}
      /\ Secured(k, version[k])' => Stage(k)' \in {"settled", "queued"}
  BY DEF Stage
<1>8. /\ ~Secured(k, version[k]) => Stage(k) \in {"settled", "announced"}
      /\ ~Secured(k, version[k])' => Stage(k)' \in {"settled", "announced"}
  BY <1>4, <1>5 DEF Stage
<1>9. Secured(k, version[k]) => Secured(k, version[k])'
  BY <1>1, <1>2, <1>3
<1> QED
  BY <1>6, <1>7, <1>8, <1>9

LEMMA LedgerStep ==
    ASSUME DataInPayload = FALSE, TypeOK, TypeOK', ImportInv, ImportInv', NotAhead,
           [Next]_vars, NEW k \in Keys
    PROVE  [Ledger(k)!Next]_(Ledger(k)!vars)
<1>0. /\ version[k] \in Nat /\ seen[k] \in Nat /\ waived[k] \in Nat
      /\ got \in Nat /\ KeyOf(cur.task) \in Keys
      /\ seen \in [Keys -> Nat] /\ version \in [Keys -> Nat]
  BY CurrentType DEF TypeOK, HistoryType, ProcessorType
<1>1. CASE (\E l \in Keys : Change(l)) /\ UNCHANGED <<seen, waived>> /\ version'[k] # version[k]
  <2>1. version'[k] = version[k] + 1
    BY <1>0, <1>1 DEF Change
  <2>2. ~(seen'[k] >= version'[k]) /\ ~(waived'[k] >= version'[k])
    BY <1>0, <1>1, <2>1 DEF NotAhead
  <2>3. \/ Secured(k, version[k])'
        \/ \E m \in messages' : KeyOf(m.task) = k /\ m.version = version'[k]
    BY DEF ImportInv
  <2>4. Stage(k)' \in {"announced", "queued"}
    BY <2>2, <2>3 DEF Stage
  <2> QED
    BY <1>1, <2>1, <2>4 DEF Ledger!Next, Ledger!Announce
<1>2. CASE Imports /\ ppc \in {"import", "nextwrite"} /\ UNCHANGED <<version, waived>>
  <2>1. seen'[k] = seen[k]
        \/ (seen'[k] = got /\ got > seen[k] /\ got <= version[k])
    BY <1>0, <1>2 DEF Imports, NotAhead
  <2>2. version'[k] = version[k] /\ waived'[k] = waived[k]
    BY <1>2
  <2>3. CASE seen'[k] = seen[k]
    <3>1. Stage(k)' = Stage(k) \/ (Stage(k) = "announced" /\ Stage(k)' = "queued")
      BY <2>2, <2>3, StageStep
    <3> QED
      BY <2>2, <2>3, <3>1 DEF Ledger!Next, Ledger!Queue, Ledger!vars
  <2>4. CASE seen'[k] = got /\ got > seen[k] /\ got <= version[k]
    <3>1. seen'[k] \in seen[k] + 1 .. version[k]
      BY <1>0, <2>4
    <3>2. CASE seen'[k] = version[k]
      <4>0. seen'[k] >= version[k]
        BY <1>0, <3>2
      <4>1. Stage(k)' = "settled"
        BY <2>2, <4>0, StageStep
      <4> QED
        BY <2>2, <3>1, <3>2, <4>1 DEF Ledger!Next, Ledger!Import
    <3>3. CASE seen'[k] # version[k]
      <4>1. ~(seen'[k] >= version[k]) /\ ~(seen[k] >= version[k])
        BY <1>0, <2>4, <3>3
      <4>2. Stage(k)' = Stage(k) \/ (Stage(k) = "announced" /\ Stage(k)' = "queued")
        BY <2>2, <4>1, StageStep
      <4> QED
        BY <2>2, <3>1, <3>3, <4>2 DEF Ledger!Next, Ledger!Import
    <3> QED
      BY <3>2, <3>3
  <2> QED
    BY <2>1, <2>3, <2>4
<1>3. CASE seen'[k] = seen[k] /\ version'[k] = version[k]
  <2>1. CASE waived'[k] = waived[k]
    <3>1. Stage(k)' = Stage(k) \/ (Stage(k) = "announced" /\ Stage(k)' = "queued")
      BY <1>3, <2>1, StageStep
    <3> QED
      BY <1>3, <2>1, <3>1 DEF Ledger!Next, Ledger!Queue, Ledger!vars
  <2>2. CASE waived'[k] # waived[k]
    <3>1. waived'[k] = version[k]
      BY <2>2, HistoryGrows
    <3>2. waived'[k] >= version[k]
      BY <1>0, <3>1
    <3>3. Stage(k)' = "settled"
      BY <1>3, <3>2, StageStep
    <3> QED
      BY <1>3, <3>1, <3>3 DEF Ledger!Next, Ledger!Drop
  <2> QED
    BY <2>1, <2>2
<1> QED
  BY <1>1, <1>2, <1>3, HistorySteps

\* Where the handler looks its key up, and for any number of consumers, sub-queues and
\* keys, each key goes through the stages of a TaskLedger: the pop, the import and the
\* retry in separate transactions, crashes of consumers and stale reads of a row never
\* take a change back to where it was before, or lose it.
THEOREM Refinement ==
    ASSUME DataInPayload = FALSE
    PROVE  Spec => ImplementsLedger
<1>1. Init => NotAhead
  BY DEF Init, NotAhead
<1>2. TypeOK /\ NotAhead /\ [Next]_vars => NotAhead'
  BY NotAheadStep
<1>3. Init => \A k \in Keys : Ledger(k)!Init
  BY DEF Init, Stage, Ledger!Init
<1>4. TypeOK /\ TypeOK' /\ ImportInv /\ ImportInv' /\ NotAhead /\ [Next]_vars =>
        [\A k \in Keys : [Ledger(k)!Next]_(Ledger(k)!vars)]_vars
  BY LedgerStep
<1>5. Spec => []TypeOK
  BY TypeCorrect
<1> QED
  BY <1>1, <1>2, <1>3, <1>4, <1>5, ImportInvariant, PTL DEF Spec, ImplementsLedger
=============================================================================
