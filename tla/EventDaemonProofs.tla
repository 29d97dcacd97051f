------------------------- MODULE EventDaemonProofs -------------------------
(* Proofs about EventDaemon, for every value of its constants.               *)
EXTENDS EventDaemon, FiniteSetTheorems, TLAPS

-----------------------------------------------------------------------------
(* Type correctness.                                                         *)

\* A producer has at least one queue, and the positions li and ci run over
\* queues of the daemon.
LEMMA ProducerQueuesType ==
    /\ Len(ProducerQueues) \in Nat \ {0}
    /\ \A i \in 1..Len(ProducerQueues) : ProducerQueues[i] \in Queues
<1>1. CASE FanOut = <<>>
    BY <1>1, ConstantsAssumption DEF ProducerQueues
<1>2. CASE FanOut # <<>>
    <2> DEFINE M == [i \in 1..Producers |-> Main]
    <2>1. M \in Seq(Queues) /\ Len(M) = Producers
        BY ConstantsAssumption
    <2>2. FanOut \o M \in Seq(Queues) /\ Len(FanOut \o M) = Len(FanOut) + Producers
        BY <2>1, ConstantsAssumption
    <2>3. ProducerQueues = FanOut \o M
        BY <1>2 DEF ProducerQueues
    <2> QED
        BY <2>2, <2>3, ConstantsAssumption
<1> QED
    BY <1>1, <1>2

LEMMA InitType == Init => TypeOK
<1> SUFFICES ASSUME Init PROVE TypeOK
    OBVIOUS
<1> USE DEF Init
<1>1. TableType
    BY DEF TableType, Taken
<1>2. DaemonType
    BY ConstantsAssumption DEF DaemonType
<1>3. ListenerType
    BY ProducerQueuesType DEF ListenerType
<1>4. CollectorType
    BY ProducerQueuesType DEF CollectorType
<1>5. WorkerType
    BY ConstantsAssumption DEF WorkerType, LivePCs, HolderPCs
<1>6. HistoryType
    BY DEF HistoryType
<1> QED
    BY <1>1, <1>2, <1>3, <1>4, <1>5, <1>6 DEF TypeOK

\* A step that leaves the variables of a part alone leaves its type alone.
LEMMA UnchangedTypes ==
    /\ TableType /\ UNCHANGED dbVars => TableType'
    /\ DaemonType /\ UNCHANGED <<daemonVars, queue, ops, faults>> => DaemonType'
    /\ ListenerType /\ UNCHANGED listenerVars => ListenerType'
    /\ CollectorType /\ UNCHANGED collectorVars => CollectorType'
    /\ WorkerType /\ UNCHANGED workerVars => WorkerType'
    /\ HistoryType /\ UNCHANGED historyVars => HistoryType'
<1>1. TableType /\ UNCHANGED dbVars => TableType'
    BY DEF TableType, dbVars
<1>2. DaemonType /\ UNCHANGED <<daemonVars, queue, ops, faults>> => DaemonType'
    BY DEF DaemonType, daemonVars
<1>3. ListenerType /\ UNCHANGED listenerVars => ListenerType'
    BY DEF ListenerType, listenerVars
<1>4. CollectorType /\ UNCHANGED collectorVars => CollectorType'
    BY DEF CollectorType, collectorVars
<1>5. WorkerType /\ UNCHANGED workerVars => WorkerType'
    BY DEF WorkerType, workerVars
<1>6. HistoryType /\ UNCHANGED historyVars => HistoryType'
    BY DEF HistoryType, historyVars
<1> QED
    BY <1>1, <1>2, <1>3, <1>4, <1>5, <1>6

\* The steps of the table.
LEMMA DatabaseType == TypeOK /\ Database => TypeOK'
<1> SUFFICES ASSUME TypeOK, Database PROVE TypeOK'
    OBVIOUS
<1> USE DEF TypeOK, dbVars, daemonVars, listenerVars, collectorVars, workerVars, historyVars
<1>1. ASSUME NEW e \in Events, WriteLog(e) PROVE TypeOK'
    <2> USE <1>1 DEF WriteLog
    <2>1. TableType'
        BY DEF TableType, Taken
    <2>2. ListenerType'
        BY DEF ListenerType
    <2>3. DaemonType'
        BY ConstantsAssumption DEF DaemonType
    <2> QED
        BY <2>1, <2>2, <2>3, UnchangedTypes
        DEF TypeOK, dbVars, daemonVars, listenerVars, collectorVars, workerVars, historyVars
<1>2. ASSUME NEW e \in Events, TstampAges(e) PROVE TypeOK'
    <2> USE <1>2 DEF TstampAges
    <2>1. TableType'
        BY DEF TableType, Taken
    <2> QED
        BY <2>1, UnchangedTypes
        DEF TypeOK, dbVars, daemonVars, listenerVars, collectorVars, workerVars, historyVars
<1>3. ASSUME NEW e \in Events, TakenTimeAges(e) PROVE TypeOK'
    <2> USE <1>3 DEF TakenTimeAges
    <2>1. TableType'
        BY DEF TableType, Taken
    <2> QED
        BY <2>1, UnchangedTypes
        DEF TypeOK, dbVars, daemonVars, listenerVars, collectorVars, workerVars, historyVars
<1> QED
    BY <1>1, <1>2, <1>3 DEF Database

\* The steps of the listener.
LEMMA ListenerStepType == TypeOK /\ Listener => TypeOK'
<1> SUFFICES ASSUME TypeOK, Listener PROVE TypeOK'
    OBVIOUS
<1> USE DEF TypeOK, dbVars, daemonVars, listenerVars, collectorVars, workerVars, historyVars
<1>1. ASSUME ListenerSubscribe PROVE TypeOK'
    <2> USE <1>1 DEF ListenerSubscribe
    <2>1. ListenerType'
        BY DEF ListenerType
    <2> QED
        BY <2>1, UnchangedTypes
        DEF TypeOK, dbVars, daemonVars, listenerVars, collectorVars, workerVars, historyVars
<1>2. ASSUME ListenerPoll PROVE TypeOK'
    <2> USE <1>2 DEF ListenerPoll
    <2>1. ListenerType'
        BY DEF ListenerType
    <2> QED
        BY <2>1, UnchangedTypes
        DEF TypeOK, dbVars, daemonVars, listenerVars, collectorVars, workerVars, historyVars
<1>3. ASSUME ListenerTake PROVE TypeOK'
    <2> USE <1>3 DEF ListenerTake
    <2>1. ListenerType'
        BY ProducerQueuesType DEF ListenerType
    <2> QED
        BY <2>1, UnchangedTypes
        DEF TypeOK, dbVars, daemonVars, listenerVars, collectorVars, workerVars, historyVars
<1>4. ASSUME ListenerNotFound PROVE TypeOK'
    <2> USE <1>4 DEF ListenerNotFound, ListenerEnds
    <2>1. ListenerType'
        BY ProducerQueuesType DEF ListenerType
    <2> QED
        BY <2>1, UnchangedTypes
        DEF TypeOK, dbVars, daemonVars, listenerVars, collectorVars, workerVars, historyVars
<1>5. ASSUME ListenerPut PROVE TypeOK'
    <2> USE <1>5 DEF ListenerPut
    <2>1. DaemonType'
        BY ProducerQueuesType, ConstantsAssumption DEF DaemonType, ListenerType
    <2>2. ListenerType'
        BY ProducerQueuesType DEF ListenerType
    <2> QED
        BY <2>1, <2>2, UnchangedTypes
        DEF TypeOK, dbVars, daemonVars, listenerVars, collectorVars, workerVars, historyVars
<1>6. ASSUME ListenerLoop PROVE TypeOK'
    <2> USE <1>6 DEF ListenerLoop, ListenerEnds
    <2>1. ListenerType'
        <3>1. CASE phase = "up"
            BY <3>1 DEF ListenerType
        <3>2. CASE phase # "up"
            BY <3>2, ProducerQueuesType DEF ListenerType
        <3> QED
            BY <3>1, <3>2
    <2> QED
        BY <2>1, UnchangedTypes
        DEF TypeOK, dbVars, daemonVars, listenerVars, collectorVars, workerVars, historyVars
<1>7. ASSUME ListenerExit PROVE TypeOK'
    <2> USE <1>7 DEF ListenerExit, ListenerEnds
    <2>1. ListenerType'
        BY ProducerQueuesType DEF ListenerType
    <2> QED
        BY <2>1, UnchangedTypes
        DEF TypeOK, dbVars, daemonVars, listenerVars, collectorVars, workerVars, historyVars
<1> QED
    BY <1>1, <1>2, <1>3, <1>4, <1>5, <1>6, <1>7 DEF Listener

\* The steps of the collector.
LEMMA CollectorStepType == TypeOK /\ Collector => TypeOK'
<1> SUFFICES ASSUME TypeOK, Collector PROVE TypeOK'
    OBVIOUS
<1> USE DEF TypeOK, dbVars, daemonVars, listenerVars, collectorVars, workerVars, historyVars
<1>1. ASSUME CollectorQuery PROVE TypeOK'
    <2> USE <1>1 DEF CollectorQuery, Unprocessed
    <2>1. CollectorType'
        BY DEF CollectorType, TableType
    <2> QED
        BY <2>1, UnchangedTypes
        DEF TypeOK, dbVars, daemonVars, listenerVars, collectorVars, workerVars, historyVars
<1>2. ASSUME CollectorNext PROVE TypeOK'
    <2> USE <1>2 DEF CollectorNext
    <2>1. CollectorType'
        BY ProducerQueuesType DEF CollectorType
    <2> QED
        BY <2>1, UnchangedTypes
        DEF TypeOK, dbVars, daemonVars, listenerVars, collectorVars, workerVars, historyVars
<1>3. ASSUME CollectorPut PROVE TypeOK'
    <2> USE <1>3 DEF CollectorPut
    <2>1. DaemonType'
        BY ProducerQueuesType, ConstantsAssumption DEF DaemonType, CollectorType
    <2>2. CollectorType'
        BY ProducerQueuesType DEF CollectorType
    <2> QED
        BY <2>1, <2>2, UnchangedTypes
        DEF TypeOK, dbVars, daemonVars, listenerVars, collectorVars, workerVars, historyVars
<1>4. ASSUME CollectorExit PROVE TypeOK'
    <2> USE <1>4 DEF CollectorExit
    <2>1. CollectorType'
        BY DEF CollectorType
    <2> QED
        BY <2>1, UnchangedTypes
        DEF TypeOK, dbVars, daemonVars, listenerVars, collectorVars, workerVars, historyVars
<1> QED
    BY <1>1, <1>2, <1>3, <1>4 DEF Collector

\* The steps of a worker.
LEMMA WorkerStepType ==
    ASSUME TypeOK, NEW c \in Workers, Worker(c) PROVE TypeOK'
<1> USE DEF TypeOK, dbVars, daemonVars, listenerVars, collectorVars, workerVars, historyVars
<1>1. ASSUME WorkerGet(c) PROVE TypeOK'
    <2> USE <1>1 DEF WorkerGet
    <2>1. DaemonType'
        BY ConstantsAssumption DEF DaemonType
    <2>2. WorkerType'
        <3>1. Head(queue[QueueOf[c]]) \in Events
            <4>1. QueueOf[c] \in Queues
                BY ConstantsAssumption
            <4>2. queue[QueueOf[c]] \in Seq(Events)
                BY <4>1 DEF DaemonType
            <4> QED
                BY <4>2
        <3> QED
            BY <3>1, ConstantsAssumption DEF WorkerType, LivePCs, HolderPCs
    <2> QED
        BY <2>1, <2>2, UnchangedTypes
        DEF TypeOK, dbVars, daemonVars, listenerVars, collectorVars, workerVars, historyVars
<1>2. ASSUME WorkerExit(c) PROVE TypeOK'
    <2> USE <1>2 DEF WorkerExit
    <2>1. WorkerType'
        BY ConstantsAssumption DEF WorkerType, LivePCs, HolderPCs
    <2> QED
        BY <2>1, UnchangedTypes
        DEF TypeOK, dbVars, daemonVars, listenerVars, collectorVars, workerVars, historyVars
<1>3. ASSUME WorkerLock(c) PROVE TypeOK'
    <2> USE <1>3 DEF WorkerLock, Lockable
    <2>1. TableType'
        BY DEF TableType, Taken, WorkerType, HolderPCs
    <2>2. WorkerType'
        BY ConstantsAssumption DEF WorkerType, LivePCs, HolderPCs
    <2> QED
        BY <2>1, <2>2, UnchangedTypes
        DEF TypeOK, dbVars, daemonVars, listenerVars, collectorVars, workerVars, historyVars
<1>4. ASSUME WorkerLockFails(c) PROVE TypeOK'
    <2> USE <1>4 DEF WorkerLockFails, WorkerReturns, Running
    <2>1. WorkerType'
        BY ConstantsAssumption DEF WorkerType, LivePCs, HolderPCs
    <2> QED
        BY <2>1, UnchangedTypes
        DEF TypeOK, dbVars, daemonVars, listenerVars, collectorVars, workerVars, historyVars
<1>5. ASSUME WorkerHandles(c) PROVE TypeOK'
    <2> USE <1>5 DEF WorkerHandles
    <2>1. WorkerType'
        BY ConstantsAssumption DEF WorkerType, LivePCs, HolderPCs
    <2>2. HistoryType'
        BY DEF HistoryType, WorkerType, HolderPCs
    <2> QED
        BY <2>1, <2>2, UnchangedTypes
        DEF TypeOK, dbVars, daemonVars, listenerVars, collectorVars, workerVars, historyVars
<1>6. ASSUME WorkerFails(c) PROVE TypeOK'
    <2> USE <1>6 DEF WorkerFails
    <2>1. WorkerType'
        BY ConstantsAssumption DEF WorkerType, LivePCs, HolderPCs
    <2> QED
        BY <2>1, UnchangedTypes
        DEF TypeOK, dbVars, daemonVars, listenerVars, collectorVars, workerVars, historyVars
<1>7. ASSUME WorkerError(c) PROVE TypeOK'
    <2> USE <1>7 DEF WorkerError, WorkerReturns, Running
    <2>1. WorkerType'
        BY ConstantsAssumption DEF WorkerType, LivePCs, HolderPCs
    <2> QED
        BY <2>1, UnchangedTypes
        DEF TypeOK, dbVars, daemonVars, listenerVars, collectorVars, workerVars, historyVars
<1>8. ASSUME WorkerRemove(c) PROVE TypeOK'
    <2> USE <1>8 DEF WorkerRemove, DeleteRow, WorkerReturns, Running
    <2>1. TableType'
        BY DEF TableType, Taken
    <2>2. WorkerType'
        BY ConstantsAssumption DEF WorkerType, LivePCs, HolderPCs
    <2> QED
        BY <2>1, <2>2, UnchangedTypes
        DEF TypeOK, dbVars, daemonVars, listenerVars, collectorVars, workerVars, historyVars
<1>9. ASSUME WorkerRelease(c) PROVE TypeOK'
    <2> USE <1>9 DEF WorkerRelease, WorkerReturns, Running
    <2>1. TableType'
        BY DEF TableType, Taken
    <2>2. WorkerType'
        BY ConstantsAssumption DEF WorkerType, LivePCs, HolderPCs
    <2> QED
        BY <2>1, <2>2, UnchangedTypes
        DEF TypeOK, dbVars, daemonVars, listenerVars, collectorVars, workerVars, historyVars
<1> QED
    BY <1>1, <1>2, <1>3, <1>4, <1>5, <1>6, <1>7, <1>8, <1>9 DEF Worker

\* The life of the daemon.
LEMMA DaemonStepType == TypeOK /\ (Daemon \/ MainKilled \/ HostFails) => TypeOK'
<1> SUFFICES ASSUME TypeOK, Daemon \/ MainKilled \/ HostFails PROVE TypeOK'
    OBVIOUS
<1> USE DEF TypeOK, dbVars, daemonVars, listenerVars, collectorVars, workerVars, historyVars
<1>0. ASSUME NEW l \in {"off", "wait"}, NEW k \in {"off", "sleep"}, NEW w \in {"off", "get"},
             NEW kept \in SUBSET Workers, FreshProcesses(l, k, w, kept)
      PROVE  /\ ListenerType' /\ CollectorType' /\ WorkerType'
             /\ queue' \in [Queues -> Seq(Events)] /\ orphans' \in SUBSET Workers
    <2> USE <1>0 DEF FreshProcesses
    <2>1. ListenerType'
        BY ProducerQueuesType DEF ListenerType
    <2>2. CollectorType'
        BY ProducerQueuesType DEF CollectorType
    <2>3. WorkerType'
        BY ConstantsAssumption DEF WorkerType, LivePCs, HolderPCs
    <2> QED
        BY <2>1, <2>2, <2>3
<1>00. LeftBehind \in SUBSET Workers
    BY DEF LeftBehind, DaemonType
<1>1. ASSUME Start PROVE TypeOK'
    <2> USE <1>1 DEF Start
    <2>1. TableType'
        BY DEF TableType, Taken
    <2>2. /\ ListenerType' /\ CollectorType' /\ WorkerType'
          /\ queue' \in [Queues -> Seq(Events)] /\ orphans' \in SUBSET Workers
        BY <1>0, <1>00
    <2>3. DaemonType'
        BY <2>2, ConstantsAssumption DEF DaemonType
    <2>4. HistoryType'
        BY DEF HistoryType
    <2> QED
        BY <2>1, <2>2, <2>3, <2>4 DEF TypeOK
<1>2. ASSUME Stop PROVE TypeOK'
    <2> USE <1>2 DEF Stop
    <2>1. DaemonType'
        BY DEF DaemonType
    <2> QED
        BY <2>1, UnchangedTypes
        DEF TypeOK, dbVars, daemonVars, listenerVars, collectorVars, workerVars, historyVars
<1>3. ASSUME Down PROVE TypeOK'
    <2> USE <1>3 DEF Down
    <2>1. /\ ListenerType' /\ CollectorType' /\ WorkerType'
          /\ queue' \in [Queues -> Seq(Events)] /\ orphans' \in SUBSET Workers
        BY <1>0, <1>00
    <2>2. DaemonType'
        BY <2>1, ConstantsAssumption DEF DaemonType
    <2> QED
        BY <2>1, <2>2, UnchangedTypes
        DEF TypeOK, dbVars, daemonVars, listenerVars, collectorVars, workerVars, historyVars
<1>4. ASSUME MainKilled PROVE TypeOK'
    <2> USE <1>4 DEF MainKilled, Fault
    <2>1. /\ ListenerType' /\ CollectorType' /\ WorkerType'
          /\ queue' \in [Queues -> Seq(Events)] /\ orphans' \in SUBSET Workers
        BY <1>0, <1>00
    <2>2. DaemonType'
        BY <2>1, ConstantsAssumption DEF DaemonType
    <2> QED
        BY <2>1, <2>2, UnchangedTypes
        DEF TypeOK, dbVars, daemonVars, listenerVars, collectorVars, workerVars, historyVars
<1>5. ASSUME HostFails PROVE TypeOK'
    <2> USE <1>5 DEF HostFails, Fault
    <2>1. /\ ListenerType' /\ CollectorType' /\ WorkerType'
          /\ queue' \in [Queues -> Seq(Events)] /\ orphans' \in SUBSET Workers
        BY <1>0, <1>00
    <2>2. DaemonType'
        BY <2>1, ConstantsAssumption DEF DaemonType
    <2> QED
        BY <2>1, <2>2, UnchangedTypes
        DEF TypeOK, dbVars, daemonVars, listenerVars, collectorVars, workerVars, historyVars
<1> QED
    BY <1>1, <1>2, <1>3, <1>4, <1>5 DEF Daemon

\* Failures.
LEMMA FailureType == TypeOK /\ Failure => TypeOK'
<1> SUFFICES ASSUME TypeOK, Failure PROVE TypeOK'
    OBVIOUS
<1> USE DEF TypeOK, dbVars, daemonVars, listenerVars, collectorVars, workerVars, historyVars
<1>1. ASSUME ConnectionLost PROVE TypeOK'
    <2> USE <1>1 DEF ConnectionLost, Fault
    <2>1. DaemonType'
        BY ConstantsAssumption DEF DaemonType
    <2>2. ListenerType'
        BY DEF ListenerType
    <2> QED
        BY <2>1, <2>2, UnchangedTypes
        DEF TypeOK, dbVars, daemonVars, listenerVars, collectorVars, workerVars, historyVars
<1>2. ASSUME ListenerCrash PROVE TypeOK'
    <2> USE <1>2 DEF ListenerCrash, ListenerEnds, Fault
    <2>1. DaemonType'
        BY ConstantsAssumption DEF DaemonType
    <2>2. ListenerType'
        BY ProducerQueuesType DEF ListenerType
    <2> QED
        BY <2>1, <2>2, UnchangedTypes
        DEF TypeOK, dbVars, daemonVars, listenerVars, collectorVars, workerVars, historyVars
<1>3. ASSUME CollectorCrash PROVE TypeOK'
    <2> USE <1>3 DEF CollectorCrash, Fault
    <2>1. DaemonType'
        BY ConstantsAssumption DEF DaemonType
    <2>2. CollectorType'
        BY ProducerQueuesType DEF CollectorType
    <2> QED
        BY <2>1, <2>2, UnchangedTypes
        DEF TypeOK, dbVars, daemonVars, listenerVars, collectorVars, workerVars, historyVars
<1>4. ASSUME NEW c \in Workers, WorkerCrash(c) PROVE TypeOK'
    <2> USE <1>4 DEF WorkerCrash, Fault
    <2>1. DaemonType'
        BY ConstantsAssumption DEF DaemonType
    <2>2. WorkerType'
        BY ConstantsAssumption DEF WorkerType, LivePCs, HolderPCs
    <2> QED
        BY <2>1, <2>2, UnchangedTypes
        DEF TypeOK, dbVars, daemonVars, listenerVars, collectorVars, workerVars, historyVars
<1> QED
    BY <1>1, <1>2, <1>3, <1>4, DaemonStepType DEF Failure

\* The steps of the operator.
LEMMA OperatorType == TypeOK /\ Operator => TypeOK'
<1> SUFFICES ASSUME TypeOK, Operator PROVE TypeOK'
    OBVIOUS
<1> USE DEF TypeOK, dbVars, daemonVars, listenerVars, collectorVars, workerVars, historyVars
<1>1. ASSUME NEW e \in Events, OperatorUnlock(e) PROVE TypeOK'
    <2> USE <1>1 DEF OperatorUnlock, Command
    <2>1. TableType'
        BY DEF TableType, Taken
    <2>2. DaemonType'
        BY ConstantsAssumption DEF DaemonType
    <2>3. HistoryType'
        BY DEF HistoryType
    <2> QED
        BY <2>1, <2>2, <2>3, UnchangedTypes
        DEF TypeOK, dbVars, daemonVars, listenerVars, collectorVars, workerVars, historyVars
<1>2. ASSUME NEW e \in Events, OperatorForce(e) PROVE TypeOK'
    <2> USE <1>2 DEF OperatorForce, Command
    <2>1. TableType'
        BY DEF TableType, Taken
    <2>2. DaemonType'
        BY ConstantsAssumption DEF DaemonType
    <2> QED
        BY <2>1, <2>2, UnchangedTypes
        DEF TypeOK, dbVars, daemonVars, listenerVars, collectorVars, workerVars, historyVars
<1>3. ASSUME OperatorForceAll PROVE TypeOK'
    <2> USE <1>3 DEF OperatorForceAll, Command
    <2>1. TableType'
        BY DEF TableType, Taken
    <2>2. DaemonType'
        BY ConstantsAssumption DEF DaemonType
    <2> QED
        BY <2>1, <2>2, UnchangedTypes
        DEF TypeOK, dbVars, daemonVars, listenerVars, collectorVars, workerVars, historyVars
<1>4. ASSUME NEW e \in Events, OperatorDelete(e) PROVE TypeOK'
    <2> USE <1>4 DEF OperatorDelete, DeleteRow, Command
    <2>1. TableType'
        BY DEF TableType, Taken
    <2>2. DaemonType'
        BY ConstantsAssumption DEF DaemonType
    <2>3. HistoryType'
        BY DEF HistoryType
    <2> QED
        BY <2>1, <2>2, <2>3, UnchangedTypes
        DEF TypeOK, dbVars, daemonVars, listenerVars, collectorVars, workerVars, historyVars
<1> QED
    BY <1>1, <1>2, <1>3, <1>4 DEF Operator

\* What a killed daemon has left behind.
LEMMA OrphanedType == TypeOK /\ Orphaned => TypeOK'
<1> SUFFICES ASSUME TypeOK, Orphaned PROVE TypeOK'
    OBVIOUS
<1> USE DEF TypeOK, dbVars, daemonVars, listenerVars, collectorVars, workerVars, historyVars
<1>1. ASSUME NEW c \in Workers, OrphanGet(c) PROVE TypeOK'
    <2> USE <1>1 DEF OrphanGet
    <2>1. DaemonType'
        BY ConstantsAssumption DEF DaemonType
    <2>2. WorkerType'
        BY ConstantsAssumption DEF WorkerType, LivePCs, HolderPCs
    <2> QED
        BY <2>1, <2>2, UnchangedTypes
        DEF TypeOK, dbVars, daemonVars, listenerVars, collectorVars, workerVars, historyVars
<1>2. ASSUME NEW c \in Workers, OrphanEnds(c) PROVE TypeOK'
    <2> USE <1>2 DEF OrphanEnds
    <2>1. DaemonType'
        BY ConstantsAssumption DEF DaemonType
    <2>2. WorkerType'
        BY ConstantsAssumption DEF WorkerType, LivePCs, HolderPCs
    <2> QED
        BY <2>1, <2>2, UnchangedTypes
        DEF TypeOK, dbVars, daemonVars, listenerVars, collectorVars, workerVars, historyVars
<1>3. ASSUME NEW e \in Events, OrphanCollect(e) PROVE TypeOK'
    <2> USE <1>3 DEF OrphanCollect
    <2>1. DaemonType'
        BY ConstantsAssumption DEF DaemonType
    <2> QED
        BY <2>1, UnchangedTypes
        DEF TypeOK, dbVars, daemonVars, listenerVars, collectorVars, workerVars, historyVars
<1> QED
    BY <1>1, <1>2, <1>3 DEF Orphaned

\* Every step preserves the types.
LEMMA TypeStep == TypeOK /\ [Next]_vars => TypeOK'
<1> SUFFICES ASSUME TypeOK, [Next]_vars PROVE TypeOK'
    OBVIOUS
<1>1. CASE UNCHANGED vars
    BY <1>1, UnchangedTypes DEF TypeOK, vars
<1> QED
    BY <1>1, DatabaseType, ListenerStepType, CollectorStepType, WorkerStepType,
       FailureType, OperatorType, DaemonStepType, OrphanedType DEF Next

\* In every behaviour of the daemon all variables keep to their types: a process
\* has an event in hand exactly where the code does, only committed events have
\* rows, and the counters of starts, commands and failures keep to their bounds.
THEOREM TypeCorrect == Spec => []TypeOK
<1>1. Init => TypeOK
    BY InitType
<1>2. TypeOK /\ [Next]_vars => TypeOK'
    BY TypeStep
<1> QED
    BY <1>1, <1>2, PTL DEF Spec

-----------------------------------------------------------------------------
(* The lock protocol.                                                        *)

\* How the number of workers in a set changes with one worker.
LEMMA CountWorkers ==
    ASSUME NEW S \in SUBSET Workers, NEW c \in Workers
    PROVE  /\ Cardinality(S) \in Nat
           /\ Cardinality(S \cup {c}) \in Nat
           /\ Cardinality(S \cup {c}) <= Cardinality(S) + 1
           /\ Cardinality(S \ {c}) \in Nat
           /\ Cardinality(S \ {c}) <= Cardinality(S)
           /\ c \in S => Cardinality(S \ {c}) = Cardinality(S) - 1
<1>1. IsFiniteSet(S)
    BY FS_Subset, ConstantsAssumption
<1>2. Cardinality(S) \in Nat
    BY <1>1, FS_CardinalityType
<1>3. Cardinality(S \cup {c}) = IF c \in S THEN Cardinality(S) ELSE Cardinality(S) + 1
    BY <1>1, FS_AddElement
<1>4. Cardinality(S \ {c}) = IF c \in S THEN Cardinality(S) - 1 ELSE Cardinality(S)
    BY <1>1, FS_RemoveElement
<1>5. IsFiniteSet(S \ {c})
    BY <1>1, FS_RemoveElement
<1>6. Cardinality(S \ {c}) \in Nat
    BY <1>5, FS_CardinalityType
<1> QED
    BY <1>2, <1>3, <1>4, <1>6

\* The counts of the invariant are natural numbers.
LEMMA CountsType ==
    ASSUME TypeOK, NEW e \in Events
    PROVE  /\ Holders(e) \in SUBSET Workers
           /\ Active(e) \in SUBSET Holders(e)
           /\ Cardinality(Holders(e)) \in Nat
           /\ Cardinality(Active(e)) \in Nat
           /\ Claims(e) \in 0..1
           /\ effects[e] \in Nat /\ unlocks[e] \in Nat /\ early[e] \in Nat
<1>1. Holders(e) \in SUBSET Workers /\ Active(e) \in SUBSET Holders(e)
    BY DEF Holders, Active, HolderPCs
<1>2. IsFiniteSet(Holders(e)) /\ IsFiniteSet(Active(e))
    BY <1>1, FS_Subset, ConstantsAssumption
<1>3. Cardinality(Holders(e)) \in Nat /\ Cardinality(Active(e)) \in Nat
    BY <1>2, FS_CardinalityType
<1>4. Claims(e) \in 0..1
    BY DEF Claims
<1>5. effects[e] \in Nat /\ unlocks[e] \in Nat /\ early[e] \in Nat
    BY DEF TypeOK, HistoryType
<1> QED
    BY <1>1, <1>3, <1>4, <1>5

\* A worker that leaves the handling states, or moves outside them, is taken out
\* of the sets of holders, whatever it has in hand afterwards.
LEMMA Leaving ==
    ASSUME TypeOK, NEW c \in Workers, NEW e \in Events,
           wpc'[c] \notin HolderPCs,
           \A d \in Workers \ {c} : wpc'[d] = wpc[d] /\ wcur'[d] = wcur[d]
    PROVE  /\ Holders(e)' = Holders(e) \ {c}
           /\ Active(e)' = Active(e) \ {c}
    BY DEF Holders, Active, TypeOK, WorkerType, HolderPCs

\* The variables the invariant is about.
lockVars == <<written, table, taken, workerVars, historyVars>>

LEMMA InitLock == Init => LockInv
<1> SUFFICES ASSUME Init PROVE LockInv
    OBVIOUS
<1>1. ASSUME NEW e \in Events PROVE HolderBudget(e) /\ EffectBudget(e)
    <2>1. Holders(e) = {} /\ Active(e) = {}
        BY DEF Init, Holders, Active, HolderPCs
    <2>2. Claims(e) = 0
        BY DEF Init, Claims, StatusOf
    <2> QED
        BY <2>1, <2>2, FS_EmptySet DEF Init, HolderBudget, EffectBudget
<1>2. RowsOnly /\ RemovedAfterEffect /\ NoLostEvent
    BY DEF Init, RowsOnly, RemovedAfterEffect, NoLostEvent
<1> QED
    BY <1>1, <1>2 DEF LockInv

LEMMA LockFrame == LockInv /\ UNCHANGED lockVars => LockInv'
<1> SUFFICES ASSUME LockInv, UNCHANGED lockVars PROVE LockInv'
    OBVIOUS
<1> USE DEF lockVars, workerVars, historyVars
<1>1. ASSUME NEW e \in Events PROVE HolderBudget(e)' /\ EffectBudget(e)'
    <2>1. Holders(e)' = Holders(e) /\ Active(e)' = Active(e) /\ Claims(e)' = Claims(e)
        BY DEF Holders, Active, Claims, StatusOf
    <2> QED
        BY <2>1 DEF LockInv, HolderBudget, EffectBudget
<1>2. RowsOnly' /\ RemovedAfterEffect' /\ NoLostEvent'
    BY DEF LockInv, RowsOnly, RemovedAfterEffect, NoLostEvent
<1> QED
    BY <1>1, <1>2 DEF LockInv

\* The steps of a worker.
LEMMA WorkerLockInv ==
    ASSUME TypeOK, LockInv, NEW c \in Workers,
           Worker(c) \/ WorkerCrash(c) \/ OrphanGet(c) \/ OrphanEnds(c)
    PROVE  LockInv'
<1> USE DEF TypeOK, listenerVars, collectorVars, historyVars
<1> DEFINE x == wcur[c]
<1>1. ASSUME wpc[c] \in {"lock"} \cup HolderPCs PROVE x \in Events
    BY <1>1 DEF WorkerType
\* a worker that comes or goes without touching a row or a count
<1>2. ASSUME NEW pc \in {"get", "off", "lock", "dead"}, NEW y,
             wpc' = [wpc EXCEPT ![c] = pc], wcur' = [wcur EXCEPT ![c] = y],
             UNCHANGED <<dbVars, historyVars>>
      PROVE  LockInv'
    <2>1. ASSUME NEW e \in Events PROVE HolderBudget(e)' /\ EffectBudget(e)'
        <3>1. Holders(e)' = Holders(e) \ {c} /\ Active(e)' = Active(e) \ {c}
            <4>1. /\ wpc'[c] \notin HolderPCs
                  /\ \A d \in Workers \ {c} : wpc'[d] = wpc[d] /\ wcur'[d] = wcur[d]
                BY <1>2 DEF HolderPCs, WorkerType
            <4> QED
                BY <4>1, Leaving
        <3>2. Claims(e)' = Claims(e)
            BY <1>2 DEF Claims, StatusOf, dbVars
        <3>3. /\ Cardinality(Holders(e) \ {c}) <= Cardinality(Holders(e))
              /\ Cardinality(Active(e) \ {c}) <= Cardinality(Active(e))
              /\ Cardinality(Holders(e) \ {c}) \in Nat
              /\ Cardinality(Active(e) \ {c}) \in Nat
            BY CountsType, CountWorkers
        <3>4. HolderBudget(e) /\ EffectBudget(e)
            BY DEF LockInv
        <3> QED
            BY <1>2, <3>1, <3>2, <3>3, <3>4, CountsType
            DEF HolderBudget, EffectBudget
    <2>2. RowsOnly' /\ NoLostEvent'
        BY <1>2 DEF LockInv, RowsOnly, NoLostEvent, dbVars
    <2>3. RemovedAfterEffect'
        BY <1>2 DEF LockInv, RemovedAfterEffect, WorkerType
    <2> QED
        BY <2>1, <2>2, <2>3 DEF LockInv
<1>3. CASE WorkerGet(c)
    BY <1>2, <1>3 DEF WorkerGet
<1>4. CASE WorkerExit(c)
    <2>1. wcur' = [wcur EXCEPT ![c] = wcur[c]]
        BY <1>4 DEF WorkerExit, WorkerType
    <2> QED
        BY <1>2, <1>4, <2>1 DEF WorkerExit
<1>5. CASE WorkerLockFails(c)
    BY <1>2, <1>5 DEF WorkerLockFails, WorkerReturns
<1>6. CASE WorkerError(c)
    BY <1>2, <1>6 DEF WorkerError, WorkerReturns
<1>7. CASE WorkerCrash(c)
    BY <1>2, <1>7 DEF WorkerCrash
<1>13. CASE OrphanGet(c)
    BY <1>2, <1>13 DEF OrphanGet
<1>14. CASE OrphanEnds(c)
    <2>1. wcur' = [wcur EXCEPT ![c] = wcur[c]]
        BY <1>14 DEF OrphanEnds, WorkerType
    <2> QED
        BY <1>2, <1>14, <2>1 DEF OrphanEnds
<1>8. CASE WorkerLock(c)
    <2> USE <1>8 DEF WorkerLock
    <2>1. x \in Events /\ x \in table /\ taken[x] = "null" /\ x \in written
        BY <1>1 DEF Lockable, TableType
    <2>2. ASSUME NEW e \in Events PROVE HolderBudget(e)' /\ EffectBudget(e)'
        <3>1. CASE e = x
            <4>1. Holders(e)' = Holders(e) \cup {c} /\ Active(e)' = Active(e) \cup {c}
                BY <3>1 DEF Holders, Active, HolderPCs, WorkerType
            <4>2. Claims(e) = 0 /\ Claims(e)' = 1
                BY <2>1, <3>1 DEF Claims, StatusOf, TableType
            <4>3. /\ Cardinality(Holders(e) \cup {c}) <= Cardinality(Holders(e)) + 1
                  /\ Cardinality(Active(e) \cup {c}) <= Cardinality(Active(e)) + 1
                  /\ Cardinality(Holders(e) \cup {c}) \in Nat
                  /\ Cardinality(Active(e) \cup {c}) \in Nat
                BY CountsType, CountWorkers
            <4>4. HolderBudget(e) /\ EffectBudget(e)
                BY DEF LockInv
            <4> QED
                BY <4>1, <4>2, <4>3, <4>4, CountsType DEF HolderBudget, EffectBudget
        <3>2. CASE e # x
            <4>1. Holders(e)' = Holders(e) /\ Active(e)' = Active(e)
                BY <3>2 DEF Holders, Active, HolderPCs, WorkerType
            <4>2. Claims(e)' = Claims(e)
                BY <2>1, <3>2 DEF Claims, StatusOf, TableType
            <4> QED
                BY <4>1, <4>2 DEF LockInv, HolderBudget, EffectBudget
        <3> QED
            BY <3>1, <3>2
    <2>3. RowsOnly' /\ NoLostEvent'
        BY <2>1 DEF LockInv, RowsOnly, NoLostEvent, TableType
    <2>4. RemovedAfterEffect'
        BY DEF LockInv, RemovedAfterEffect, WorkerType
    <2> QED
        BY <2>2, <2>3, <2>4 DEF LockInv
<1>9. CASE WorkerFails(c)
    <2> USE <1>9 DEF WorkerFails
    <2>1. ASSUME NEW e \in Events PROVE HolderBudget(e)' /\ EffectBudget(e)'
        <3>1. Holders(e)' = Holders(e) /\ Active(e)' = Active(e)
            BY DEF Holders, Active, HolderPCs, WorkerType
        <3>2. Claims(e)' = Claims(e)
            BY DEF Claims, StatusOf, dbVars
        <3> QED
            BY <3>1, <3>2 DEF LockInv, HolderBudget, EffectBudget
    <2>2. RowsOnly' /\ NoLostEvent'
        BY DEF LockInv, RowsOnly, NoLostEvent, dbVars
    <2>3. RemovedAfterEffect'
        BY DEF LockInv, RemovedAfterEffect, WorkerType
    <2> QED
        BY <2>1, <2>2, <2>3 DEF LockInv
<1>10. CASE WorkerHandles(c)
    <2> USE <1>10 DEF WorkerHandles
    <2>1. x \in Events
        BY <1>1 DEF HolderPCs
    <2>2. ASSUME NEW e \in Events PROVE HolderBudget(e)' /\ EffectBudget(e)'
        <3>1. Holders(e)' = Holders(e)
            BY DEF Holders, HolderPCs, WorkerType
        <3>2. Claims(e)' = Claims(e)
            BY DEF Claims, StatusOf, dbVars
        <3>3. CASE e = x
            <4>1. c \in Active(e) /\ Active(e)' = Active(e) \ {c}
                BY <3>3 DEF Active, WorkerType
            <4>2. Cardinality(Active(e) \ {c}) = Cardinality(Active(e)) - 1
                BY <4>1, CountsType, CountWorkers
            <4>3. effects'[e] = effects[e] + 1
                BY <3>3, <2>1 DEF HistoryType
            <4> QED
                BY <3>1, <3>2, <4>1, <4>2, <4>3, CountsType
                DEF LockInv, HolderBudget, EffectBudget
        <3>4. CASE e # x
            <4>1. Active(e)' = Active(e) /\ effects'[e] = effects[e]
                BY <3>4, <2>1 DEF Active, WorkerType, HistoryType
            <4> QED
                BY <3>1, <3>2, <4>1 DEF LockInv, HolderBudget, EffectBudget
        <3> QED
            BY <3>3, <3>4
    <2>3. RowsOnly'
        BY DEF LockInv, RowsOnly, dbVars
    <2>4. RemovedAfterEffect' /\ NoLostEvent'
        <3>1. effects'[x] > 0
            BY <2>1 DEF HistoryType
        <3>2. \A e \in Events : effects[e] > 0 => effects'[e] > 0
            BY <2>1 DEF HistoryType
        <3>3. \A d \in Workers : wpc[d] = "remove" => wcur[d] \in Events
            BY DEF WorkerType, HolderPCs
        <3>4. NoLostEvent'
            BY <3>2 DEF LockInv, NoLostEvent, dbVars, TableType
        <3> QED
            BY <3>1, <3>2, <3>3, <3>4 DEF LockInv, RemovedAfterEffect, WorkerType
    <2> QED
        BY <2>2, <2>3, <2>4 DEF LockInv
<1>11. CASE WorkerRemove(c)
    <2> USE <1>11 DEF WorkerRemove, DeleteRow, WorkerReturns
    <2>0. /\ wpc'[c] \notin HolderPCs
          /\ \A d \in Workers \ {c} : wpc'[d] = wpc[d] /\ wcur'[d] = wcur[d]
        BY DEF HolderPCs, WorkerType
    <2>1. x \in Events /\ effects[x] > 0
        BY <1>1 DEF HolderPCs, LockInv, RemovedAfterEffect
    <2>2. ASSUME NEW e \in Events PROVE HolderBudget(e)' /\ EffectBudget(e)'
        <3>1. Holders(e)' = Holders(e) \ {c} /\ Active(e)' = Active(e) \ {c}
            BY <2>0, Leaving
        <3>2. Claims(e)' \in 0..1 /\ Claims(e) <= Claims(e)'
            BY <2>1 DEF Claims, StatusOf, TableType
        <3>3. /\ Cardinality(Holders(e) \ {c}) <= Cardinality(Holders(e))
              /\ Cardinality(Active(e) \ {c}) <= Cardinality(Active(e))
              /\ Cardinality(Holders(e) \ {c}) \in Nat
              /\ Cardinality(Active(e) \ {c}) \in Nat
            BY CountsType, CountWorkers
        <3>4. HolderBudget(e) /\ EffectBudget(e)
            BY DEF LockInv
        <3> QED
            BY <3>1, <3>2, <3>3, <3>4, CountsType DEF HolderBudget, EffectBudget
    <2>3. RowsOnly'
        BY <2>1 DEF LockInv, RowsOnly, TableType
    <2>4. RemovedAfterEffect' /\ NoLostEvent'
        BY <2>1 DEF LockInv, RemovedAfterEffect, NoLostEvent, WorkerType, TableType
    <2> QED
        BY <2>2, <2>3, <2>4 DEF LockInv
<1>12. CASE WorkerRelease(c)
    <2> USE <1>12 DEF WorkerRelease, WorkerReturns
    <2>0. /\ wpc'[c] \notin HolderPCs
          /\ \A d \in Workers \ {c} : wpc'[d] = wpc[d] /\ wcur'[d] = wcur[d]
        BY DEF HolderPCs, WorkerType
    <2>1. x \in Events
        BY <1>1 DEF HolderPCs
    <2>2. ASSUME NEW e \in Events PROVE HolderBudget(e)' /\ EffectBudget(e)'
        <3>1. Holders(e)' = Holders(e) \ {c} /\ Active(e)' = Active(e) \ {c}
            BY <2>0, Leaving
        <3>2. CASE e = x
            <4>1. c \in Holders(e) /\ c \in Active(e)
                BY <3>2 DEF Holders, Active, HolderPCs
            <4>2. /\ Cardinality(Holders(e) \ {c}) = Cardinality(Holders(e)) - 1
                  /\ Cardinality(Active(e) \ {c}) = Cardinality(Active(e)) - 1
                BY <4>1, CountsType, CountWorkers
            <4>3. Claims(e)' \in 0..1 /\ Claims(e) - 1 <= Claims(e)'
                BY DEF Claims
            <4>4. HolderBudget(e) /\ EffectBudget(e)
                BY DEF LockInv
            <4> QED
                BY <3>1, <4>2, <4>3, <4>4, CountsType DEF HolderBudget, EffectBudget
        <3>3. CASE e # x
            <4>1. c \notin Holders(e) /\ c \notin Active(e)
                BY <3>3 DEF Holders, Active
            <4>2. Claims(e)' = Claims(e)
                BY <3>3, <2>1 DEF Claims, StatusOf, TableType
            <4>3. Holders(e) \ {c} = Holders(e) /\ Active(e) \ {c} = Active(e)
                BY <4>1
            <4> QED
                BY <3>1, <4>2, <4>3 DEF LockInv, HolderBudget, EffectBudget
        <3> QED
            BY <3>2, <3>3
    <2>3. RowsOnly'
        BY <2>1 DEF LockInv, RowsOnly, TableType
    <2>4. RemovedAfterEffect' /\ NoLostEvent'
        BY DEF LockInv, RemovedAfterEffect, NoLostEvent, WorkerType
    <2> QED
        BY <2>2, <2>3, <2>4 DEF LockInv
<1> QED
    BY <1>3, <1>4, <1>5, <1>6, <1>7, <1>8, <1>9, <1>10, <1>11, <1>12, <1>13, <1>14
    DEF Worker

\* The steps of the database and of the operator that the invariant can notice.
LEMMA RowLockInv ==
    ASSUME TypeOK, LockInv, NEW x \in Events,
           \/ WriteLog(x) \/ TakenTimeAges(x)
           \/ OperatorUnlock(x) \/ OperatorDelete(x)
    PROVE  LockInv'
<1> USE DEF TypeOK, workerVars, historyVars
<1>1. ASSUME NEW e \in Events
      PROVE  Holders(e)' = Holders(e) /\ Active(e)' = Active(e)
    BY DEF Holders, Active, WriteLog, TakenTimeAges, OperatorUnlock, OperatorDelete
<1>2. ASSUME NEW e \in Events PROVE HolderBudget(e) /\ EffectBudget(e)
    BY DEF LockInv
<1>3. CASE WriteLog(x)
    <2> USE <1>3 DEF WriteLog
    <2>1. ASSUME NEW e \in Events PROVE Claims(e)' = Claims(e)
        BY DEF Claims, StatusOf, LockInv, RowsOnly, TableType
    <2>2. ASSUME NEW e \in Events PROVE HolderBudget(e)' /\ EffectBudget(e)'
        BY <1>1, <1>2, <2>1 DEF HolderBudget, EffectBudget
    <2>3. RowsOnly' /\ RemovedAfterEffect' /\ NoLostEvent'
        BY DEF LockInv, RowsOnly, RemovedAfterEffect, NoLostEvent
    <2> QED
        BY <2>2, <2>3 DEF LockInv
<1>4. CASE TakenTimeAges(x)
    <2> USE <1>4 DEF TakenTimeAges
    <2>1. ASSUME NEW e \in Events PROVE Claims(e)' = Claims(e)
        BY DEF Claims, StatusOf, TableType
    <2>2. ASSUME NEW e \in Events PROVE HolderBudget(e)' /\ EffectBudget(e)'
        BY <1>1, <1>2, <2>1 DEF HolderBudget, EffectBudget
    <2>3. RowsOnly' /\ RemovedAfterEffect' /\ NoLostEvent'
        BY DEF LockInv, RowsOnly, RemovedAfterEffect, NoLostEvent, TableType
    <2> QED
        BY <2>2, <2>3 DEF LockInv
<1>5. CASE OperatorUnlock(x)
    <2> USE <1>5 DEF OperatorUnlock
    <2>1. ASSUME NEW e \in Events PROVE HolderBudget(e)' /\ EffectBudget(e)'
        <3>1. CASE e # x \/ taken[x] = "null"
            <4>1. Claims(e)' = Claims(e) /\ early'[e] = early[e] /\ unlocks'[e] = unlocks[e]
                BY <3>1 DEF Claims, StatusOf, TableType, HistoryType
            <4> QED
                BY <1>1, <1>2, <4>1 DEF HolderBudget, EffectBudget
        <3>2. CASE e = x /\ taken[x] # "null"
            <4>1. Claims(e) = 1 /\ Claims(e)' = 0 /\ unlocks'[e] = unlocks[e] + 1
                BY <3>2 DEF Claims, StatusOf, TableType, HistoryType
            <4>2. EffectBudget(e)'
                BY <1>1, <1>2, <4>1, CountsType DEF EffectBudget
            <4>3. HolderBudget(e)'
                <5>1. CASE Holders(e) = {}
                    <6>1. Cardinality(Holders(e)) = 0 /\ early'[e] = early[e]
                        BY <3>2, <5>1, FS_EmptySet DEF HistoryType
                    <6> QED
                        BY <1>1, <4>1, <6>1, CountsType DEF HolderBudget
                <5>2. CASE Holders(e) # {}
                    <6>1. early'[e] = early[e] + 1
                        BY <3>2, <5>2 DEF HistoryType
                    <6> QED
                        BY <1>1, <1>2, <4>1, <6>1, CountsType DEF HolderBudget
                <5> QED
                    BY <5>1, <5>2
            <4> QED
                BY <4>2, <4>3
        <3> QED
            BY <3>1, <3>2
    <2>2. RowsOnly' /\ RemovedAfterEffect' /\ NoLostEvent'
        BY DEF LockInv, RowsOnly, RemovedAfterEffect, NoLostEvent, TableType
    <2> QED
        BY <2>1, <2>2 DEF LockInv
<1>6. CASE OperatorDelete(x)
    <2> USE <1>6 DEF OperatorDelete, DeleteRow
    <2>1. ASSUME NEW e \in Events PROVE Claims(e)' \in 0..1 /\ Claims(e) <= Claims(e)'
        BY DEF Claims, StatusOf, TableType
    <2>2. ASSUME NEW e \in Events PROVE HolderBudget(e)' /\ EffectBudget(e)'
        BY <1>1, <1>2, <2>1, CountsType DEF HolderBudget, EffectBudget
    <2>3. RowsOnly' /\ RemovedAfterEffect' /\ NoLostEvent'
        BY DEF LockInv, RowsOnly, RemovedAfterEffect, NoLostEvent, TableType
    <2> QED
        BY <2>2, <2>3 DEF LockInv
<1> QED
    BY <1>3, <1>4, <1>5, <1>6

\* Starting and losing the daemon: a worker goes on with what it has or has
\* nothing, and each lock that is given back under a worker is counted.
LEMMA DaemonLockInv ==
    ASSUME TypeOK, LockInv, Start \/ Down \/ MainKilled \/ HostFails
    PROVE  LockInv'
<1> USE DEF TypeOK, historyVars, dbVars
<1>1. PICK w \in {"off", "get"}, kept \in SUBSET Workers :
         /\ wpc' = [c \in Workers |-> IF c \in kept THEN wpc[c] ELSE w]
         /\ wcur' = [c \in Workers |-> IF c \in kept THEN wcur[c] ELSE NoEvent]
    <2>1. LeftBehind \in SUBSET Workers
        BY DEF LeftBehind, DaemonType
    <2> QED
        BY <2>1 DEF Start, Down, MainKilled, HostFails, FreshProcesses
<1>2. ASSUME NEW e \in Events
      PROVE  /\ Holders(e)' \in SUBSET Holders(e)
             /\ Active(e)' \in SUBSET Active(e)
    BY <1>1 DEF Holders, Active, HolderPCs
<1>3. ASSUME NEW e \in Events
      PROVE  /\ Cardinality(Holders(e)') \in Nat
             /\ Cardinality(Holders(e)') <= Cardinality(Holders(e))
             /\ Cardinality(Active(e)') \in Nat
             /\ Cardinality(Active(e)') <= Cardinality(Active(e))
    <2>1. IsFiniteSet(Holders(e)) /\ IsFiniteSet(Active(e))
        BY CountsType, FS_Subset, ConstantsAssumption
    <2>2. IsFiniteSet(Holders(e)') /\ IsFiniteSet(Active(e)')
        BY <1>2, <2>1, FS_Subset
    <2>3. /\ Cardinality(Holders(e)') <= Cardinality(Holders(e))
          /\ Cardinality(Active(e)') <= Cardinality(Active(e))
        BY <1>2, <2>1, FS_Subset
    <2> QED
        BY <2>2, <2>3, FS_CardinalityType
<1>4. ASSUME NEW e \in Events PROVE HolderBudget(e)' /\ EffectBudget(e)'
    <2>1. HolderBudget(e) /\ EffectBudget(e)
        BY DEF LockInv
    <2>2. /\ effects'[e] = effects[e] /\ written' = written /\ table' = table
          /\ Claims(e)' \in 0..1
        BY DEF Start, Down, MainKilled, HostFails, Claims
    <2>3. CASE /\ taken'[e] = taken[e] /\ unlocks'[e] = unlocks[e]
               /\ early'[e] = early[e]
        <3>1. Claims(e)' = Claims(e)
            BY <2>2, <2>3 DEF Claims, StatusOf
        <3> QED
            BY <1>3, <2>1, <2>2, <2>3, <3>1, CountsType DEF HolderBudget, EffectBudget
    <2>4. CASE /\ unlocks'[e] = unlocks[e] + 1
               /\ early'[e] = IF Holders(e) # {} THEN early[e] + 1 ELSE early[e]
        <3>1. EffectBudget(e)'
            BY <1>3, <2>1, <2>2, <2>4, CountsType DEF EffectBudget
        <3>2. CASE Holders(e) # {}
            <4>1. HolderBudget(e)'
                BY <1>3, <2>1, <2>2, <2>4, <3>2, CountsType DEF HolderBudget
            <4> QED
                BY <3>1, <4>1
        <3>3. CASE Holders(e) = {}
            <4>1. Cardinality(Holders(e)') = 0 /\ early'[e] = early[e]
                BY <1>2, <2>4, <3>3, FS_EmptySet
            <4>2. HolderBudget(e)'
                BY <2>2, <4>1, CountsType DEF HolderBudget
            <4> QED
                BY <3>1, <4>2
        <3> QED
            BY <3>2, <3>3
    <2>5. \/ taken'[e] = taken[e] /\ unlocks'[e] = unlocks[e] /\ early'[e] = early[e]
          \/ /\ unlocks'[e] = unlocks[e] + 1
             /\ early'[e] = IF Holders(e) # {} THEN early[e] + 1 ELSE early[e]
        BY DEF Start, Down, MainKilled, HostFails
    <2> QED
        BY <2>3, <2>4, <2>5
<1>5. RowsOnly' /\ NoLostEvent'
    BY DEF Start, Down, MainKilled, HostFails, UnlockedAtStart, LockInv, RowsOnly,
           NoLostEvent, TableType
<1>6. RemovedAfterEffect'
    <2>1. effects' = effects
        BY DEF Start, Down, MainKilled, HostFails
    <2> QED
        BY <1>1, <2>1 DEF LockInv, RemovedAfterEffect
<1> QED
    BY <1>4, <1>5, <1>6 DEF LockInv

LEMMA LockStep == TypeOK /\ LockInv /\ [Next]_vars => LockInv'
<1> SUFFICES ASSUME TypeOK, LockInv, [Next]_vars PROVE LockInv'
    OBVIOUS
<1>1. ASSUME UNCHANGED lockVars PROVE LockInv'
    BY <1>1, LockFrame
<1> USE DEF lockVars, dbVars
<1>2. CASE UNCHANGED vars
    BY <1>1, <1>2 DEF vars
<1>3. CASE Database
    BY <1>1, <1>3, RowLockInv DEF Database, TstampAges
<1>4. CASE Listener
    BY <1>1, <1>4 DEF Listener, ListenerSubscribe, ListenerPoll, ListenerTake,
        ListenerNotFound, ListenerPut, ListenerLoop, ListenerExit
<1>5. CASE Collector
    BY <1>1, <1>5 DEF Collector, CollectorQuery, CollectorNext, CollectorPut,
        CollectorExit
<1>6. CASE \E c \in Workers : Worker(c)
    BY <1>6, WorkerLockInv
<1>7. CASE Failure
    BY <1>1, <1>7, WorkerLockInv, DaemonLockInv
    DEF Failure, ConnectionLost, ListenerCrash, CollectorCrash
<1>8. CASE Operator
    BY <1>1, <1>8, RowLockInv DEF Operator, OperatorForce, OperatorForceAll
<1>9. CASE Daemon
    BY <1>1, <1>9, DaemonLockInv DEF Daemon, Stop
<1>10. CASE Orphaned
    BY <1>1, <1>10, WorkerLockInv DEF Orphaned, OrphanCollect
<1> QED
    BY <1>2, <1>3, <1>4, <1>5, <1>6, <1>7, <1>8, <1>9, <1>10 DEF Next

\* The lock protocol keeps its invariant, whatever the number of workers, events,
\* queues, copies, commands, failures and restarts, and with any of the workers of
\* killed daemons still at work.
THEOREM LockInvariant == Spec => []LockInv
<1>1. Init => LockInv
    BY InitLock
<1>2. TypeOK /\ LockInv /\ [Next]_vars => LockInv'
    BY LockStep
<1> QED
    BY <1>1, <1>2, TypeCorrect, PTL DEF Spec

\* lock_event keeps every event to one worker at a time, those of killed daemons
\* included, except for as many more as event_unlock or a start with
\* --unlock-events has hit it while it was being handled.
THEOREM Exclusive == Spec => []ExclusiveHandling
<1>1. TypeOK /\ LockInv => ExclusiveHandling
    <2> SUFFICES ASSUME TypeOK, LockInv, NEW e \in Events
                 PROVE  Cardinality(Holders(e)) <= 1 + early[e]
        BY DEF ExclusiveHandling
    <2> QED
        BY CountsType DEF LockInv, HolderBudget
<1> QED
    BY <1>1, TypeCorrect, LockInvariant, PTL

\* handle_event completes at most once for each event, and once more for each
\* time its lock is given back by the operator or by --unlock-events.
THEOREM AtMostOnce == Spec => []AtMostOncePerUnlock
<1>1. TypeOK /\ LockInv => AtMostOncePerUnlock
    <2> SUFFICES ASSUME TypeOK, LockInv, NEW e \in Events
                 PROVE  effects[e] <= 1 + unlocks[e]
        BY DEF AtMostOncePerUnlock
    <2> QED
        BY CountsType DEF LockInv, EffectBudget
<1> QED
    BY <1>1, TypeCorrect, LockInvariant, PTL

\* No committed event leaves the table unhandled, but for event_delete.
THEOREM NothingLost == Spec => []NoLostEvent
<1>1. LockInv => NoLostEvent
    BY DEF LockInv
<1> QED
    BY <1>1, LockInvariant, PTL

-----------------------------------------------------------------------------
(* What a stuck lock may do.                                                 *)

LEMMA StuckStep ==
    ASSUME TypeOK, [Next]_vars, NEW e \in Events, Stuck(e)
    PROVE  Stuck(e)' \/ unlocks'[e] > unlocks[e] \/ e \in deleted'
<1> USE DEF TypeOK, historyVars, workerVars, dbVars
<1>1. e \in table /\ taken[e] # "null" /\ Holders(e) = {}
    BY DEF Stuck
<1>2. ASSUME UNCHANGED <<table, taken, workerVars>> PROVE Stuck(e)'
    BY <1>1, <1>2 DEF Stuck, Holders
<1>3. ASSUME NEW x \in Events,
             WriteLog(x) \/ TakenTimeAges(x) \/ OperatorUnlock(x) \/ OperatorDelete(x)
      PROVE  Stuck(e)' \/ unlocks'[e] > unlocks[e] \/ e \in deleted'
    <2>1. Holders(e)' = {}
        BY <1>1, <1>3
        DEF Holders, WriteLog, TakenTimeAges, OperatorUnlock, OperatorDelete
    <2>2. CASE WriteLog(x) \/ TakenTimeAges(x)
        BY <1>1, <2>1, <2>2 DEF Stuck, WriteLog, TakenTimeAges, TableType
    <2>3. CASE OperatorUnlock(x)
        BY <1>1, <2>1, <2>3 DEF Stuck, OperatorUnlock, TableType, HistoryType
    <2>4. CASE OperatorDelete(x)
        BY <1>1, <2>1, <2>4 DEF Stuck, OperatorDelete, DeleteRow, TableType
    <2> QED
        BY <1>3, <2>2, <2>3, <2>4
<1>4. ASSUME NEW c \in Workers,
             Worker(c) \/ WorkerCrash(c) \/ OrphanGet(c) \/ OrphanEnds(c)
      PROVE  Stuck(e)'
    <2> USE <1>4
    <2>1. wcur[c] # e \/ wpc[c] \notin HolderPCs
        BY <1>1 DEF Holders
    <2>2. ASSUME NEW pc, pc \notin HolderPCs \/ wcur[c] # e,
                 wpc' = [wpc EXCEPT ![c] = pc], wcur' = wcur
          PROVE  Holders(e)' = {}
        BY <1>1, <2>2 DEF Holders, WorkerType
    <2>3. ASSUME NEW pc, NEW y, pc \notin HolderPCs,
                 wpc' = [wpc EXCEPT ![c] = pc], wcur' = [wcur EXCEPT ![c] = y]
          PROVE  Holders(e)' = {}
        BY <1>1, <2>3 DEF Holders, WorkerType
    <2>4. Holders(e)' = {}
        <3> USE DEF HolderPCs
        <3>1. CASE WorkerLock(c)
            <4>1. wcur[c] # e
                BY <1>1, <3>1 DEF WorkerLock, Lockable
            <4> QED
                BY <2>2, <3>1, <4>1 DEF WorkerLock
        <3>2. CASE WorkerHandles(c)
            BY <2>1, <2>2, <3>2 DEF WorkerHandles
        <3>3. CASE WorkerFails(c)
            BY <2>1, <2>2, <3>3 DEF WorkerFails
        <3>4. CASE WorkerExit(c)
            BY <2>2, <3>4 DEF WorkerExit
        <3>5. CASE WorkerGet(c)
            BY <2>3, <3>5 DEF WorkerGet
        <3>6. CASE WorkerCrash(c)
            BY <2>3, <3>6 DEF WorkerCrash
        <3>8. CASE OrphanGet(c)
            BY <2>3, <3>8 DEF OrphanGet
        <3>9. CASE OrphanEnds(c)
            BY <2>2, <3>9 DEF OrphanEnds
        <3>7. CASE \/ WorkerLockFails(c) \/ WorkerError(c)
                   \/ WorkerRemove(c) \/ WorkerRelease(c)
            <4>1. WorkerReturns(c)
                BY <3>7 DEF WorkerLockFails, WorkerError, WorkerRemove, WorkerRelease
            <4>2. CASE Running(c)
                <5>1. wpc' = [wpc EXCEPT ![c] = "get"]
                    BY <4>1, <4>2 DEF WorkerReturns
                <5> QED
                    BY <2>3, <4>1, <5>1 DEF WorkerReturns
            <4>3. CASE ~Running(c)
                <5>1. wpc' = [wpc EXCEPT ![c] = "off"]
                    BY <4>1, <4>3 DEF WorkerReturns
                <5> QED
                    BY <2>3, <4>1, <5>1 DEF WorkerReturns
            <4> QED
                BY <4>2, <4>3
        <3> QED
            BY <3>1, <3>2, <3>3, <3>4, <3>5, <3>6, <3>7, <3>8, <3>9 DEF Worker
    <2>5. e \in table' /\ taken'[e] # "null"
        <3>1. CASE WorkerLock(c)
            BY <1>1, <3>1 DEF WorkerLock, TableType
        <3>2. CASE WorkerRemove(c)
            BY <1>1, <2>1, <3>2 DEF WorkerRemove, DeleteRow, TableType, HolderPCs
        <3>3. CASE WorkerRelease(c)
            BY <1>1, <2>1, <3>3 DEF WorkerRelease, TableType, HolderPCs
        <3>4. CASE UNCHANGED dbVars
            BY <1>1, <3>4
        <3> QED
            BY <3>1, <3>2, <3>3, <3>4
            DEF Worker, WorkerGet, WorkerExit, WorkerLockFails, WorkerHandles,
                WorkerFails, WorkerError, WorkerCrash, OrphanGet, OrphanEnds
    <2> QED
        BY <2>4, <2>5 DEF Stuck
<1>5. ASSUME Start \/ Down \/ MainKilled \/ HostFails
      PROVE  Stuck(e)' \/ unlocks'[e] > unlocks[e]
    <2>1. Holders(e)' = {}
        BY <1>1, <1>5
        DEF Start, Down, MainKilled, HostFails, FreshProcesses, Holders, HolderPCs
    <2>2. \/ e \in table' /\ taken'[e] # "null"
          \/ unlocks'[e] > unlocks[e]
        BY <1>1, <1>5
        DEF Start, Down, MainKilled, HostFails, UnlockedAtStart, TableType, HistoryType
    <2> QED
        BY <2>1, <2>2 DEF Stuck
<1>6. CASE UNCHANGED vars
    BY <1>2, <1>6 DEF vars
<1>7. CASE Database
    BY <1>2, <1>3, <1>7 DEF Database, TstampAges
<1>8. CASE Listener
    BY <1>2, <1>8 DEF Listener, ListenerSubscribe, ListenerPoll, ListenerTake,
        ListenerNotFound, ListenerPut, ListenerLoop, ListenerExit
<1>9. CASE Collector
    BY <1>2, <1>9 DEF Collector, CollectorQuery, CollectorNext, CollectorPut,
        CollectorExit
<1>10. CASE \E c \in Workers : Worker(c)
    BY <1>4, <1>10
<1>11. CASE Failure
    BY <1>2, <1>4, <1>5, <1>11
    DEF Failure, ConnectionLost, ListenerCrash, CollectorCrash
<1>12. CASE Operator
    BY <1>2, <1>3, <1>12 DEF Operator, OperatorForce, OperatorForceAll
<1>13. CASE Daemon
    BY <1>2, <1>5, <1>13 DEF Daemon, Stop
<1>14. CASE Orphaned
    BY <1>2, <1>4, <1>14 DEF Orphaned, OrphanCollect
<1> QED
    BY <1>6, <1>7, <1>8, <1>9, <1>10, <1>11, <1>12, <1>13, <1>14 DEF Next

\* A lock left behind by an unhandled error or a dead worker is ended by an
\* operator (or by a start with --unlock-events), and by nothing else.
THEOREM StuckUntilOperator == Spec => StuckStaysStuck
<1>1. TypeOK /\ [Next]_vars =>
        [\A e \in Events :
            Stuck(e) => Stuck(e)' \/ unlocks'[e] > unlocks[e] \/ e \in deleted']_vars
    BY StuckStep
<1> QED
    BY <1>1, TypeCorrect, PTL DEF Spec, StuckStaysStuck

-----------------------------------------------------------------------------
(* What an exhausted event may do.                                           *)

\* What is not in a sequence is not in what becomes of it: emptied, cut, without
\* its first element or with another one at its end.
LEMMA NotInSeq ==
    ASSUME NEW S, NEW s \in Seq(S), NEW e, ~InSeq(e, s)
    PROVE  /\ ~InSeq(e, <<>>)
           /\ \A x \in S : x # e => ~InSeq(e, Append(s, x))
           /\ s # <<>> => Head(s) # e /\ ~InSeq(e, Tail(s))
           /\ \A k \in 0..Len(s) : ~InSeq(e, SubSeq(s, 1, k))
<1>1. ~InSeq(e, <<>>)
    BY DEF InSeq
<1>2. ASSUME NEW x \in S, x # e PROVE ~InSeq(e, Append(s, x))
    BY <1>2 DEF InSeq
<1>3. ASSUME s # <<>> PROVE Head(s) # e /\ ~InSeq(e, Tail(s))
    BY <1>3 DEF InSeq
<1>4. ASSUME NEW k \in 0..Len(s) PROVE ~InSeq(e, SubSeq(s, 1, k))
    <2>1. Len(SubSeq(s, 1, k)) = k /\ \A i \in 1..k : SubSeq(s, 1, k)[i] = s[i]
        OBVIOUS
    <2> QED
        BY <2>1 DEF InSeq
<1> QED
    BY <1>1, <1>2, <1>3, <1>4

LEMMA ExhaustedStep ==
    ASSUME TypeOK, [Next]_vars, NEW e \in Events, Exhausted(e)
    PROVE  Exhausted(e)' \/ failed'[e] = 0 \/ e \in deleted'
<1> USE DEF TypeOK, historyVars, workerVars, dbVars, daemonVars, listenerVars,
        collectorVars
<1> DEFINE AtLimit == e \in table /\ failed[e] >= FailLimit
           NotNotified == ~InSeq(e, notifies) /\ e # lcur
           NotQueued == \A q \in Queues : ~InSeq(e, queue[q])
           NotCollected == e # ccur /\ e \notin crows
           NotInHand == \A c \in Workers : e # wcur[c]
           NotStray == LeftBehind # {} => stray[e] = 0
<1>1. AtLimit /\ NotNotified /\ NotQueued /\ NotCollected /\ NotInHand /\ NotStray
    BY DEF Exhausted
<1>2. ASSUME AtLimit', NotNotified', NotQueued', NotCollected', NotInHand', NotStray'
      PROVE  Exhausted(e)'
    BY <1>2 DEF Exhausted
<1>3. /\ UNCHANGED <<table, failed>> => AtLimit'
      /\ UNCHANGED listenerVars => NotNotified'
      /\ UNCHANGED queue => NotQueued'
      /\ UNCHANGED collectorVars => NotCollected'
      /\ UNCHANGED workerVars => NotInHand'
      /\ UNCHANGED <<orphans, workerVars>> /\ stray'[e] = stray[e] => NotStray'
    BY <1>1 DEF LeftBehind
<1>4. ASSUME NEW q \in Queues, NEW x \in Events, x # e,
             queue' = [queue EXCEPT ![q] = Append(@, x)]
      PROVE  NotQueued'
    <2>1. ASSUME NEW r \in Queues PROVE ~InSeq(e, queue'[r])
        <3>1. queue[r] \in Seq(Events) /\ ~InSeq(e, queue[r])
            BY <1>1 DEF DaemonType
        <3>2. queue'[r] = IF r = q THEN Append(queue[r], x) ELSE queue[r]
            BY <1>4 DEF DaemonType
        <3> QED
            BY <1>4, <3>1, <3>2, NotInSeq
    <2> QED
        BY <2>1
<1>5. notifies \in Seq(Events) /\ ~InSeq(e, notifies) /\ e # NoEvent /\ ~InSeq(e, <<>>)
    <2>1. notifies \in Seq(Events) /\ ~InSeq(e, notifies) /\ e # NoEvent
        BY <1>1, ConstantsAssumption DEF ListenerType
    <2> QED
        BY <2>1, NotInSeq
<1>6. ASSUME NEW x \in Events, WriteLog(x) PROVE Exhausted(e)'
    <2>1. x # e
        BY <1>1, <1>6 DEF WriteLog, TableType
    <2>2. NotNotified'
        <3>1. ~InSeq(e, Append(notifies, x))
            BY <1>5, <2>1, NotInSeq
        <3> QED
            BY <1>1, <1>6, <3>1 DEF WriteLog
    <2>3. AtLimit'
        BY <1>1, <1>6 DEF WriteLog
    <2>4. stray'[e] = stray[e]
        BY <1>6, <2>1 DEF WriteLog, DaemonType
    <2> QED
        BY <1>2, <1>3, <1>6, <2>2, <2>3, <2>4 DEF WriteLog
<1>7. ASSUME Listener PROVE Exhausted(e)'
    <2>1. CASE ListenerSubscribe
        BY <1>1, <1>2, <1>3, <1>5, <2>1 DEF ListenerSubscribe
    <2>2. CASE ListenerPoll
        BY <1>1, <1>2, <1>3, <2>2 DEF ListenerPoll
    <2>3. CASE ListenerTake
        <3>1. Head(notifies) # e /\ ~InSeq(e, Tail(notifies))
            BY <1>5, <2>3, NotInSeq DEF ListenerTake
        <3> QED
            BY <1>2, <1>3, <2>3, <3>1 DEF ListenerTake
    <2>4. CASE ListenerPut
        <3>1. ProducerQueues[li] \in Queues /\ lcur \in Events
            BY <2>4, ProducerQueuesType DEF ListenerPut, ListenerType
        <3>2. NotQueued'
            BY <1>1, <1>4, <2>4, <3>1 DEF ListenerPut
        <3> QED
            BY <1>1, <1>2, <1>3, <1>5, <2>4, <3>2 DEF ListenerPut
    <2>5. CASE ListenerNotFound \/ ListenerLoop \/ ListenerExit
        <3>1. NotNotified'
            BY <1>1, <1>5, <2>5
            DEF ListenerNotFound, ListenerLoop, ListenerExit, ListenerEnds
        <3> QED
            BY <1>2, <1>3, <2>5, <3>1 DEF ListenerNotFound, ListenerLoop, ListenerExit
    <2> QED
        BY <1>7, <2>1, <2>2, <2>3, <2>4, <2>5 DEF Listener
<1>8. ASSUME Collector PROVE Exhausted(e)'
    <2>1. CASE CollectorQuery
        <3>1. e \notin Unprocessed
            BY <1>1, ConstantsAssumption DEF Unprocessed, TableType
        <3> QED
            BY <1>1, <1>2, <1>3, <2>1, <3>1 DEF CollectorQuery
    <2>2. CASE CollectorNext
        BY <1>1, <1>2, <1>3, <2>2 DEF CollectorNext
    <2>3. CASE CollectorPut
        <3>1. ProducerQueues[ci] \in Queues /\ ccur \in Events
            BY <2>3, ProducerQueuesType DEF CollectorPut, CollectorType
        <3>2. NotQueued'
            BY <1>1, <1>4, <2>3, <3>1 DEF CollectorPut
        <3> QED
            BY <1>1, <1>2, <1>3, <1>5, <2>3, <3>2 DEF CollectorPut
    <2>4. CASE CollectorExit
        BY <1>1, <1>2, <1>3, <2>4 DEF CollectorExit
    <2> QED
        BY <1>8, <2>1, <2>2, <2>3, <2>4 DEF Collector
<1>9. ASSUME NEW c \in Workers,
             Worker(c) \/ WorkerCrash(c) \/ OrphanGet(c) \/ OrphanEnds(c)
      PROVE  Exhausted(e)'
    <2>1. wcur[c] # e
        BY <1>1
    <2>2. NotInHand'
        <3>1. CASE WorkerGet(c)
            <4>1. ~InSeq(e, queue[QueueOf[c]]) /\ queue[QueueOf[c]] \in Seq(Events)
                BY <1>1, ConstantsAssumption DEF DaemonType
            <4>2. Head(queue[QueueOf[c]]) # e
                BY <3>1, <4>1, NotInSeq DEF WorkerGet
            <4> QED
                BY <1>1, <3>1, <4>2 DEF WorkerGet, WorkerType
        <3>4. CASE OrphanGet(c)
            <4>1. PICK x \in Events : stray[x] > 0 /\ wcur' = [wcur EXCEPT ![c] = x]
                BY <3>4 DEF OrphanGet
            <4>2. LeftBehind # {}
                BY <3>4 DEF OrphanGet, LeftBehind, LivePCs
            <4>3. x # e
                BY <1>1, <4>1, <4>2 DEF DaemonType
            <4> QED
                BY <1>1, <4>1, <4>3 DEF WorkerType
        <3>2. CASE UNCHANGED wcur
            BY <1>1, <3>2
        <3>3. CASE wcur' = [wcur EXCEPT ![c] = NoEvent]
            BY <1>1, <1>5, <3>3 DEF WorkerType
        <3> QED
            BY <1>9, <3>1, <3>2, <3>3, <3>4
            DEF Worker, WorkerExit, WorkerLock, WorkerLockFails, WorkerHandles,
                WorkerFails, WorkerError, WorkerRemove, WorkerRelease, WorkerCrash,
                WorkerReturns, OrphanEnds
    <2>3. NotQueued'
        <3>1. CASE WorkerGet(c)
            <4>1. ASSUME NEW r \in Queues PROVE ~InSeq(e, queue'[r])
                <5>1. queue[r] \in Seq(Events) /\ ~InSeq(e, queue[r])
                    BY <1>1 DEF DaemonType
                <5>2. queue'[r] = queue[r] \/ (queue[r] # <<>> /\ queue'[r] = Tail(queue[r]))
                    BY <3>1 DEF WorkerGet, DaemonType
                <5> QED
                    BY <5>1, <5>2, NotInSeq
            <4> QED
                BY <4>1
        <3>2. CASE UNCHANGED queue
            BY <1>3, <3>2
        <3> QED
            BY <1>9, <3>1, <3>2
            DEF Worker, WorkerExit, WorkerLock, WorkerLockFails, WorkerHandles,
                WorkerFails, WorkerError, WorkerRemove, WorkerRelease, WorkerCrash,
                OrphanGet, OrphanEnds
    <2>4. AtLimit'
        <3>1. CASE WorkerRemove(c)
            BY <1>1, <2>1, <3>1 DEF WorkerRemove, DeleteRow, TableType
        <3>2. CASE WorkerRelease(c)
            BY <1>1, <2>1, <3>2 DEF WorkerRelease, TableType
        <3>3. CASE UNCHANGED <<table, failed>>
            BY <1>3, <3>3
        <3> QED
            BY <1>9, <3>1, <3>2, <3>3
            DEF Worker, WorkerGet, WorkerExit, WorkerLock, WorkerLockFails,
                WorkerHandles, WorkerFails, WorkerError, WorkerCrash,
                OrphanGet, OrphanEnds
    <2>5. UNCHANGED listenerVars /\ UNCHANGED collectorVars
        BY <1>9
        DEF Worker, WorkerGet, WorkerExit, WorkerLock, WorkerLockFails, WorkerHandles,
            WorkerFails, WorkerError, WorkerRemove, WorkerRelease, WorkerCrash,
            OrphanGet, OrphanEnds
    <2>6. NotStray'
        <3>1. \A d \in Workers : wpc'[d] \in LivePCs => wpc[d] \in LivePCs
            BY <1>9
            DEF Worker, WorkerGet, WorkerExit, WorkerLock, WorkerLockFails,
                WorkerHandles, WorkerFails, WorkerError, WorkerRemove, WorkerRelease,
                WorkerCrash, WorkerReturns, OrphanGet, OrphanEnds, WorkerType,
                LivePCs, HolderPCs
        <3>2. orphans' \in SUBSET orphans
            BY <1>9
            DEF Worker, WorkerGet, WorkerExit, WorkerLock, WorkerLockFails,
                WorkerHandles, WorkerFails, WorkerError, WorkerRemove, WorkerRelease,
                WorkerCrash, OrphanGet, OrphanEnds
        <3>3. LeftBehind' \in SUBSET LeftBehind
            BY <3>1, <3>2 DEF LeftBehind, DaemonType
        <3>4. stray[e] = 0 => stray'[e] = 0
            BY <1>9
            DEF Worker, WorkerGet, WorkerExit, WorkerLock, WorkerLockFails,
                WorkerHandles, WorkerFails, WorkerError, WorkerRemove, WorkerRelease,
                WorkerCrash, OrphanGet, OrphanEnds, DaemonType
        <3> QED
            BY <1>1, <3>3, <3>4
    <2> QED
        BY <1>2, <1>3, <2>2, <2>3, <2>4, <2>5, <2>6
<1>15. ASSUME Start \/ Down \/ MainKilled \/ HostFails PROVE Exhausted(e)'
    <2>1. NotNotified' /\ NotQueued' /\ NotCollected' /\ NotInHand'
        BY <1>1, <1>5, <1>15 DEF Start, Down, MainKilled, HostFails, FreshProcesses
    <2>2. UNCHANGED <<table, failed>>
        BY <1>15 DEF Start, Down, MainKilled, HostFails
    <2>3. NotStray'
        <3>1. CASE Start \/ Down
            <4>1. orphans' = LeftBehind /\ stray' = stray
                BY <3>1 DEF Start, Down, FreshProcesses
            <4>2. LeftBehind' \in SUBSET LeftBehind
                BY <4>1 DEF LeftBehind
            <4> QED
                BY <1>1, <4>1, <4>2
        <3>2. CASE MainKilled
            <4>1. e \notin Copies
                <5>1. e \notin {notifies[i] : i \in 1..Len(notifies)}
                    BY <1>1 DEF InSeq
                <5>2. \A q \in Queues : e \notin {queue[q][i] : i \in 1..Len(queue[q])}
                    BY <1>1 DEF InSeq
                <5> QED
                    BY <1>1, <5>1, <5>2 DEF Copies
            <4>2. ~(stray'[e] > 0)
                BY <1>1, <3>2, <4>1 DEF MainKilled, DaemonType
            <4>3. stray'[e] \in 0..MaxStray
                BY <3>2 DEF MainKilled
            <4> QED
                BY <4>2, <4>3, ConstantsAssumption
        <3>3. CASE HostFails
            BY <3>3 DEF HostFails
        <3> QED
            BY <1>15, <3>1, <3>2, <3>3
    <2> QED
        BY <1>2, <1>3, <2>1, <2>2, <2>3
<1>16. ASSUME NEW x \in Events, OrphanCollect(x) PROVE Exhausted(e)'
    <2>1. x # e
        BY <1>1, <1>16, ConstantsAssumption DEF OrphanCollect, Unprocessed, TableType
    <2>2. stray'[e] = stray[e]
        BY <1>16, <2>1 DEF OrphanCollect, DaemonType
    <2> QED
        BY <1>2, <1>3, <1>16, <2>2 DEF OrphanCollect
<1>10. ASSUME Failure PROVE Exhausted(e)'
    <2>1. CASE ConnectionLost
        <3>1. PICK k \in 0..Len(notifies) : notifies' = SubSeq(notifies, 1, k)
            BY <2>1 DEF ConnectionLost
        <3>2. ~InSeq(e, notifies')
            BY <1>5, <3>1, NotInSeq
        <3> QED
            BY <1>1, <1>2, <1>3, <2>1, <3>2 DEF ConnectionLost
    <2>2. CASE ListenerCrash
        BY <1>1, <1>2, <1>3, <1>5, <2>2 DEF ListenerCrash, ListenerEnds
    <2>3. CASE CollectorCrash
        BY <1>1, <1>2, <1>3, <1>5, <2>3 DEF CollectorCrash
    <2> QED
        BY <1>9, <1>10, <1>15, <2>1, <2>2, <2>3 DEF Failure
<1>11. ASSUME Operator PROVE Exhausted(e)' \/ failed'[e] = 0 \/ e \in deleted'
    <2>1. AtLimit' \/ failed'[e] = 0 \/ e \in deleted'
        BY <1>1, <1>11
        DEF Operator, OperatorForceAll, OperatorForce, OperatorUnlock, OperatorDelete,
            DeleteRow, TableType
    <2>2. UNCHANGED <<queue, daemonVars, listenerVars, collectorVars, workerVars>>
        BY <1>11
        DEF Operator, OperatorForceAll, OperatorForce, OperatorUnlock, OperatorDelete
    <2> QED
        BY <1>2, <1>3, <2>1, <2>2
<1>12. ASSUME Daemon PROVE Exhausted(e)'
    <2>1. CASE Stop
        BY <1>1, <1>2, <1>3, <2>1 DEF Stop
    <2> QED
        BY <1>12, <1>15, <2>1 DEF Daemon
<1>13. CASE UNCHANGED vars
    BY <1>1, <1>2, <1>3, <1>13 DEF vars
<1>14. CASE Database
    <2>1. ASSUME NEW x \in Events, TstampAges(x) \/ TakenTimeAges(x) PROVE Exhausted(e)'
        BY <1>1, <1>2, <1>3, <2>1 DEF TstampAges, TakenTimeAges
    <2> QED
        BY <1>6, <1>14, <2>1 DEF Database
<1>17. CASE Orphaned
    BY <1>9, <1>16, <1>17 DEF Orphaned
<1> QED
    BY <1>7, <1>8, <1>9, <1>10, <1>11, <1>12, <1>13, <1>14, <1>17 DEF Next

\* An event that has used up its retries and of which no copy is left in the daemon
\* is brought back by the force commands only, or is deleted: by no notification,
\* collection, restart or late worker.
THEOREM ExhaustedUntilOperator == Spec => ExhaustedStaysExhausted
<1>1. TypeOK /\ [Next]_vars =>
        [\A e \in Events :
            Exhausted(e) => Exhausted(e)' \/ failed'[e] = 0 \/ e \in deleted']_vars
    BY ExhaustedStep
<1> QED
    BY <1>1, TypeCorrect, PTL DEF Spec, ExhaustedStaysExhausted

-----------------------------------------------------------------------------
(* The daemon implements EventLedger.                                        *)

\* A step in which the table says of x what it did not say before, and of the
\* other events what it did, is an assignment to the ledger's status of x.
LEMMA StatusChange ==
    ASSUME NEW x \in Events, NEW v,
           StatusOf(x)' = v,
           \A e \in Events \ {x} : StatusOf(e)' = StatusOf(e)
    PROVE  [e \in Events |-> StatusOf(e)]'
              = [[e \in Events |-> StatusOf(e)] EXCEPT ![x] = v]
    OBVIOUS

\* A step that leaves the written and present rows and their taken columns alone
\* leaves the status of every event alone.
LEMMA StatusSame ==
    ASSUME \A e \in Events : StatusOf(e)' = StatusOf(e)
    PROVE  [e \in Events |-> StatusOf(e)]' = [e \in Events |-> StatusOf(e)]
    OBVIOUS

LEMMA LedgerStep ==
    ASSUME TypeOK, LockInv, [Next]_vars
    PROVE  [Ledger!Next]_(Ledger!vars)
<1> USE DEF TypeOK, historyVars, workerVars, dbVars
<1> DEFINE status == [e \in Events |-> StatusOf(e)]
<1>1. ASSUME UNCHANGED <<written, table, taken, effects, unlocks, deleted>>
      PROVE  UNCHANGED Ledger!vars
    <2>1. \A e \in Events : StatusOf(e)' = StatusOf(e)
        BY <1>1 DEF StatusOf
    <2> QED
        BY <1>1, <2>1, StatusSame DEF Ledger!vars
<1>2. CASE UNCHANGED vars
    BY <1>1, <1>2 DEF vars
<1>3. ASSUME NEW x \in Events, WriteLog(x) PROVE Ledger!Post(x)
    <2>1. StatusOf(x) = "absent" /\ StatusOf(x)' = "pending"
        BY <1>3 DEF WriteLog, StatusOf, LockInv, RowsOnly, TableType
    <2>2. \A e \in Events \ {x} : StatusOf(e)' = StatusOf(e)
        BY <1>3 DEF WriteLog, StatusOf
    <2> QED
        BY <1>3, <2>1, <2>2, StatusChange DEF Ledger!Post, WriteLog
<1>4. ASSUME NEW x \in Events, TakenTimeAges(x) PROVE UNCHANGED Ledger!vars
    <2>1. \A e \in Events : StatusOf(e)' = StatusOf(e)
        BY <1>4 DEF TakenTimeAges, StatusOf, TableType
    <2> QED
        BY <1>4, <2>1, StatusSame DEF Ledger!vars, TakenTimeAges
<1>5. ASSUME NEW c \in Workers, Worker(c)
      PROVE  [Ledger!Next]_(Ledger!vars)
    <2> PICK x : x = wcur[c]
        OBVIOUS
    <2>1. ASSUME wpc[c] \in {"lock"} \cup HolderPCs PROVE x \in Events
        BY <2>1 DEF WorkerType
    <2>2. CASE WorkerLock(c)
        <3>1. x \in Events /\ StatusOf(x) = "pending" /\ StatusOf(x)' = "claimed"
            BY <2>1, <2>2 DEF WorkerLock, Lockable, StatusOf, TableType
        <3>2. \A e \in Events \ {x} : StatusOf(e)' = StatusOf(e)
            BY <2>2 DEF WorkerLock, StatusOf, TableType
        <3>3. Ledger!Claim(x)
            BY <2>2, <3>1, <3>2, StatusChange DEF Ledger!Claim, WorkerLock
        <3> QED
            BY <3>1, <3>3 DEF Ledger!Next
    <2>3. CASE WorkerHandles(c)
        <3>1. x \in Events /\ c \in Active(x)
            BY <2>1, <2>3 DEF WorkerHandles, Active, HolderPCs
        <3>2. effects[x] + 1 <= Claims(x) + unlocks[x]
            <4>1. Cardinality(Active(x)) >= 1
                <5>1. Cardinality(Active(x) \ {c}) \in Nat
                    BY <3>1, CountsType, CountWorkers
                <5>2. Cardinality(Active(x) \ {c}) = Cardinality(Active(x)) - 1
                    BY <3>1, CountsType, CountWorkers
                <5> QED
                    BY <3>1, <5>1, <5>2, CountsType
            <4> QED
                BY <3>1, <4>1, CountsType DEF LockInv, EffectBudget
        <3>3. effects[x] <= unlocks[x]
            BY <3>1, <3>2, CountsType
        <3>4. StatusOf(x) \in {"claimed", "done"} \/ unlocks[x] > 0
            BY <3>1, <3>2, CountsType DEF Claims
        <3>5. status' = status
            BY <2>3, StatusSame DEF WorkerHandles, StatusOf
        <3>6. Ledger!Deliver(x)
            BY <2>3, <3>1, <3>3, <3>4, <3>5 DEF Ledger!Deliver, WorkerHandles
        <3> QED
            BY <3>1, <3>6 DEF Ledger!Next
    <2>4. CASE WorkerRemove(c)
        <3>1. x \in Events /\ effects[x] > 0
            BY <2>1, <2>4 DEF WorkerRemove, HolderPCs, LockInv, RemovedAfterEffect
        <3>2. \A e \in Events \ {x} : StatusOf(e)' = StatusOf(e)
            BY <2>4, <3>1 DEF WorkerRemove, DeleteRow, StatusOf, TableType
        <3>3. CASE x \in table
            <4>1. StatusOf(x) \in {"pending", "claimed"} /\ StatusOf(x)' = "done"
                BY <2>4, <3>1, <3>3 DEF WorkerRemove, DeleteRow, StatusOf, TableType
            <4>2. Ledger!Retire(x)
                BY <2>4, <3>1, <3>2, <4>1, StatusChange DEF Ledger!Retire, WorkerRemove
            <4> QED
                BY <3>1, <4>2 DEF Ledger!Next
        <3>4. CASE x \notin table
            <4>1. StatusOf(x)' = StatusOf(x)
                BY <2>4, <3>4 DEF WorkerRemove, DeleteRow, StatusOf
            <4>2. status' = status
                BY <3>2, <4>1, StatusSame
            <4> QED
                BY <2>4, <4>2 DEF Ledger!vars, WorkerRemove
        <3> QED
            BY <3>3, <3>4
    <2>5. CASE WorkerRelease(c)
        <3>1. x \in Events /\ c \in Active(x)
            BY <2>1, <2>5 DEF WorkerRelease, HolderPCs, Active
        <3>2. \A e \in Events \ {x} : StatusOf(e)' = StatusOf(e)
            BY <2>5, <3>1 DEF WorkerRelease, StatusOf, TableType
        <3>3. CASE StatusOf(x) = "claimed"
            <4>1. x \in table /\ StatusOf(x)' = "pending" /\ Claims(x) = 1
                BY <2>5, <3>1, <3>3 DEF WorkerRelease, StatusOf, Claims, TableType
            <4>2. Cardinality(Active(x)) >= 1
                <5>1. Cardinality(Active(x) \ {c}) \in Nat
                    BY <3>1, CountsType, CountWorkers
                <5>2. Cardinality(Active(x) \ {c}) = Cardinality(Active(x)) - 1
                    BY <3>1, CountsType, CountWorkers
                <5> QED
                    BY <3>1, <5>1, <5>2, CountsType
            <4>3. effects[x] <= unlocks[x]
                BY <3>1, <4>1, <4>2, CountsType DEF LockInv, EffectBudget
            <4>4. Ledger!GiveBack(x)
                BY <2>5, <3>1, <3>2, <3>3, <4>1, <4>3, StatusChange
                DEF Ledger!GiveBack, WorkerRelease
            <4> QED
                BY <3>1, <4>4 DEF Ledger!Next
        <3>4. CASE StatusOf(x) # "claimed"
            <4>1. StatusOf(x)' = StatusOf(x)
                BY <2>5, <3>1, <3>4 DEF WorkerRelease, StatusOf, TableType
            <4>2. status' = status
                BY <3>2, <4>1, StatusSame
            <4> QED
                BY <2>5, <4>2 DEF Ledger!vars, WorkerRelease
        <3> QED
            BY <3>3, <3>4
    <2> QED
        BY <1>1, <1>5, <2>2, <2>3, <2>4, <2>5
        DEF Worker, WorkerGet, WorkerExit, WorkerLockFails, WorkerFails, WorkerError
<1>6. ASSUME NEW x \in Events, OperatorUnlock(x)
      PROVE  [Ledger!Next]_(Ledger!vars)
    <2>1. CASE taken[x] = "null"
        <3>1. taken' = taken /\ unlocks' = unlocks
            BY <1>6, <2>1 DEF OperatorUnlock, TableType
        <3> QED
            BY <1>1, <1>6, <3>1 DEF OperatorUnlock
    <2>2. CASE taken[x] # "null"
        <3>1. StatusOf(x) = "claimed" /\ StatusOf(x)' = "pending"
            BY <1>6, <2>2 DEF OperatorUnlock, StatusOf, TableType
        <3>2. \A e \in Events \ {x} : StatusOf(e)' = StatusOf(e)
            BY <1>6 DEF OperatorUnlock, StatusOf, TableType
        <3>3. status' = [e \in Events |-> IF e \in {x} THEN "pending" ELSE status[e]]
            BY <3>1, <3>2
        <3>4. unlocks' = [e \in Events |->
                             IF e \in {x} THEN unlocks[e] + 1 ELSE unlocks[e]]
            BY <1>6, <2>2 DEF OperatorUnlock, HistoryType
        <3>5. Ledger!Revoke({x})
            BY <1>6, <3>1, <3>3, <3>4 DEF Ledger!Revoke, OperatorUnlock
        <3> QED
            BY <3>5 DEF Ledger!Next
    <2> QED
        BY <2>1, <2>2
<1>7. ASSUME NEW x \in Events, OperatorDelete(x) PROVE Ledger!Discard(x)
    <2>1. StatusOf(x) \in {"pending", "claimed"} /\ StatusOf(x)' = "done"
        BY <1>7 DEF OperatorDelete, DeleteRow, StatusOf, TableType
    <2>2. \A e \in Events \ {x} : StatusOf(e)' = StatusOf(e)
        BY <1>7 DEF OperatorDelete, DeleteRow, StatusOf, TableType
    <2> QED
        BY <1>7, <2>1, <2>2, StatusChange DEF Ledger!Discard, OperatorDelete
<1>8. CASE Start
    <2> DEFINE S == UnlockedAtStart
    <2>1. S \in SUBSET Events /\ \A e \in S : StatusOf(e) = "claimed"
        BY DEF UnlockedAtStart, StatusOf, TableType
    <2>2. \A e \in Events :
             StatusOf(e)' = IF e \in S THEN "pending" ELSE StatusOf(e)
        BY <1>8 DEF Start, UnlockedAtStart, StatusOf, TableType
    <2>3. status' = [e \in Events |-> IF e \in S THEN "pending" ELSE status[e]]
        BY <2>2
    <2>4. Ledger!Revoke(S)
        BY <1>8, <2>1, <2>3 DEF Ledger!Revoke, Start
    <2> QED
        BY <2>1, <2>4 DEF Ledger!Next
<1>9. CASE Database
    <2> SUFFICES ASSUME NEW e \in Events,
                        WriteLog(e) \/ TstampAges(e) \/ TakenTimeAges(e)
                 PROVE  [Ledger!Next]_(Ledger!vars)
        BY <1>9 DEF Database
    <2>1. CASE WriteLog(e)
        BY <1>3, <2>1 DEF Ledger!Next
    <2>2. CASE TstampAges(e)
        BY <1>1, <2>2 DEF TstampAges
    <2>3. CASE TakenTimeAges(e)
        BY <1>4, <2>3
    <2> QED
        BY <2>1, <2>2, <2>3
<1>10. CASE Listener
    BY <1>1, <1>10 DEF Listener, ListenerSubscribe, ListenerPoll, ListenerTake,
        ListenerNotFound, ListenerPut, ListenerLoop, ListenerExit
<1>11. CASE Collector
    BY <1>1, <1>11 DEF Collector, CollectorQuery, CollectorNext, CollectorPut,
        CollectorExit
<1>12. CASE Failure
    BY <1>1, <1>12
    DEF Failure, ConnectionLost, ListenerCrash, CollectorCrash, WorkerCrash, MainKilled,
        HostFails
<1>13. CASE Operator
    BY <1>1, <1>6, <1>7, <1>13
    DEF Operator, OperatorForce, OperatorForceAll, Ledger!Next
<1>14. CASE Daemon
    BY <1>1, <1>8, <1>14 DEF Daemon, Stop, Down
<1>15. CASE Orphaned
    BY <1>1, <1>15 DEF Orphaned, OrphanGet, OrphanEnds, OrphanCollect
<1> QED
    BY <1>2, <1>5, <1>9, <1>10, <1>11, <1>12, <1>13, <1>14, <1>15 DEF Next

\* Through the table the daemon is seen to implement EventLedger: in particular an
\* event leaves it undelivered only by the operator's delete.
THEOREM Refinement == Spec => ImplementsLedger
<1>1. Init => Ledger!Init
    BY DEF Init, Ledger!Init, StatusOf
<1>2. TypeOK /\ LockInv /\ [Next]_vars => [Ledger!Next]_(Ledger!vars)
    BY LedgerStep
<1> QED
    BY <1>1, <1>2, TypeCorrect, LockInvariant, PTL DEF Spec, ImplementsLedger, Ledger!Spec
=============================================================================
