-------------------------- MODULE JobRunnerProofs --------------------------
(* Theorems about JobRunner, for all jobs, configurations, pids and bounds.  *)
EXTENDS JobRunner, SequenceTheorems, FiniteSetTheorems, WellFoundedInduction, TLAPS

-----------------------------------------------------------------------------
(* Sequences.                                                                *)

\* FiniteSetsExt!Min, where there is something to choose from.
LEMMA LeastElement ==
    ASSUME NEW I \in SUBSET Nat, I # {}
    PROVE  Min(I) \in I
<1>1. \A x, y \in Nat : <<y, x>> \in OpToRel(<, Nat) <=> y < x
  BY DEF OpToRel
<1>2. \E x \in I : \A y \in I : ~(<<y, x>> \in OpToRel(<, Nat))
  BY WFMin, NatLessThanWellFounded
<1>3. \E x \in I : \A y \in I : ~(y < x)
  BY <1>1, <1>2
<1>4. \E x \in I : \A y \in I : x =< y
  BY <1>3
<1> QED
  BY <1>4 DEF Min

\* list.remove: at most the one element is gone.
LEMMA RemoveFirstIsSeq ==
    ASSUME NEW S, NEW s \in Seq(S), NEW e
    PROVE  /\ RemoveFirst(s, e) \in Seq(S)
           /\ ToSet(RemoveFirst(s, e)) \subseteq ToSet(s)
           /\ ToSet(s) \subseteq ToSet(RemoveFirst(s, e)) \cup {e}
<1>1. CASE ~ \E i \in 1..Len(s) : s[i] = e
  BY <1>1 DEF RemoveFirst
<1>2. CASE \E i \in 1..Len(s) : s[i] = e
  <2> DEFINE I == {i \in 1..Len(s) : s[i] = e}
             n == SelectInSeq(s, LAMBDA v: v = e)
  <2>0. n = Min(I) /\ I # {} /\ I \in SUBSET Nat
    BY <1>2 DEF SelectInSeq
  <2>1. n \in 1..Len(s) /\ s[n] = e
    <3>1. Min(I) \in I
      BY <2>0, LeastElement
    <3> QED
      BY <2>0, <3>1
  <2>2. RemoveFirst(s,e) = SubSeq(s, 1, n-1) \o SubSeq(s, n+1, Len(s))
    BY <1>2 DEF RemoveFirst, RemoveAt
  <2> HIDE DEF n
  <2> DEFINE a == SubSeq(s, 1, n-1)
             b == SubSeq(s, n+1, Len(s))
  <2>3. a \in Seq(S) /\ Len(a) = n - 1 /\ \A i \in 1..(n-1) : a[i] = s[i]
    BY <2>1, SubSeqProperties
  <2>4. b \in Seq(S) /\ Len(b) = Len(s) - n /\ \A i \in 1..(Len(s) - n) : b[i] = s[n+i]
    BY <2>1, SubSeqProperties
  <2> HIDE DEF a, b
  <2>5. /\ a \o b \in Seq(S) /\ Len(a \o b) = Len(a) + Len(b)
        /\ \A i \in 1..Len(a) + Len(b) :
              (a \o b)[i] = IF i <= Len(a) THEN a[i] ELSE b[i - Len(a)]
    BY <2>3, <2>4, ConcatProperties
  <2>6. PICK r \in Seq(S) :
           /\ r = RemoveFirst(s, e)
           /\ Len(r) = Len(s) - 1
           /\ \A i \in 1..Len(s) - 1 : r[i] = IF i < n THEN s[i] ELSE s[i + 1]
    <3>1. a \o b = RemoveFirst(s, e)
      BY <2>2 DEF a, b
    <3>2. Len(a \o b) = Len(s) - 1
      BY <2>1, <2>3, <2>4, <2>5
    <3>3. ASSUME NEW i \in 1..Len(s) - 1
          PROVE  (a \o b)[i] = IF i < n THEN s[i] ELSE s[i + 1]
      <4>1. CASE i < n
        BY <4>1, <2>1, <2>3, <2>4, <2>5
      <4>2. CASE ~(i < n)
        <5>1. i - Len(a) \in 1..Len(s) - n /\ ~(i <= Len(a)) /\ i \in 1..Len(a) + Len(b)
          BY <4>2, <2>1, <2>3, <2>4
        <5>2. (a \o b)[i] = b[i - Len(a)]
          BY <5>1, <2>5
        <5>3. b[i - Len(a)] = s[n + (i - Len(a))] /\ n + (i - Len(a)) = i + 1
          BY <5>1, <2>1, <2>3, <2>4
        <5> QED
          BY <5>2, <5>3, <4>2
      <4> QED
        BY <4>1, <4>2
    <3> QED
      BY <3>1, <3>2, <3>3, <2>5
  <2>7. ASSUME NEW i \in DOMAIN r PROVE r[i] \in ToSet(s)
    <3>1. i \in 1..Len(s) - 1 /\ (r[i] = s[i] \/ r[i] = s[i + 1])
      BY <2>6
    <3>2. i \in DOMAIN s /\ i + 1 \in DOMAIN s
      BY <3>1
    <3> QED
      BY <3>1, <3>2 DEF ToSet
  <2>8. ASSUME NEW i \in DOMAIN s, i # n PROVE s[i] \in ToSet(r)
    <3>1. CASE i < n
      BY <3>1, <2>1, <2>6, <2>8 DEF ToSet
    <3>2. CASE i > n
      <4>1. (i - 1) \in DOMAIN r /\ r[i - 1] = s[i]
        BY <3>2, <2>1, <2>6
      <4> QED
        BY <4>1 DEF ToSet
    <3> QED
      BY <3>1, <3>2, <2>1, <2>8
  <2>9. ToSet(r) \subseteq ToSet(s) /\ ToSet(s) \subseteq ToSet(r) \cup {e}
    BY <2>1, <2>7, <2>8 DEF ToSet
  <2> QED
    BY <2>6, <2>9
<1> QED
  BY <1>1, <1>2

\* list.append
LEMMA AppendedSet ==
    ASSUME NEW S, NEW s \in Seq(S), NEW e \in S
    PROVE  Append(s, e) \in Seq(S) /\ ToSet(Append(s, e)) = ToSet(s) \cup {e}
<1>1. Append(s, e) \in Seq(S) /\ Len(Append(s,e)) = Len(s)+1 /\ Append(s,e)[Len(s)+1] = e
   /\ \A i \in 1..Len(s) : Append(s,e)[i] = s[i]
  BY AppendProperties
<1>2. ToSet(Append(s, e)) \subseteq ToSet(s) \cup {e}
  BY <1>1 DEF ToSet
<1>3. ToSet(s) \subseteq ToSet(Append(s, e)) /\ e \in ToSet(Append(s, e))
  BY <1>1 DEF ToSet
<1> QED
  BY <1>1, <1>2, <1>3

LEMMA TailInSeq ==
    ASSUME NEW S, NEW s \in Seq(S), s # <<>>
    PROVE  Tail(s) \in Seq(S) /\ Head(s) \in S
BY HeadTailProperties

LEMMA ToSetType ==
    ASSUME NEW S, NEW s \in Seq(S)
    PROVE  ToSet(s) \subseteq S
BY DEF ToSet

LEMMA VisitsType ==
    ASSUME NEW s \in Seq(Jobs)
    PROVE  Visits(s) \in Seq(Item)
BY DEF Visits, Item

-----------------------------------------------------------------------------
(* Type correctness.                                                         *)

LEMMA NoChildType == NoChild \in Child
<1>1. (CHOOSE j \in Jobs : TRUE) \in Jobs
  BY JobConstants DEF JobConstants
<1> QED
  BY <1>1 DEF NoChild, Child, Live

LEMMA InitType == Init => TypeOK
<1> SUFFICES ASSUME Init PROVE TypeOK
  OBVIOUS
<1>1. JobType
  BY JobConstants DEF Init, JobType, JobConstants
<1>2. LoopType /\ SleepType
  <2>1. again \in BOOLEAN /\ append \in BOOLEAN /\ delta \in BOOLEAN
    BY DEF Init
  <2>2. workOwed \in [Jobs -> SUBSET Jobs]
    BY DEF Init
  <2>3. /\ todo \in SUBSET (Procs \X BOOLEAN) /\ idx \in Nat \ {0}
        /\ scan \in SUBSET Jobs /\ work \in Seq(Jobs) /\ batch \in Seq(Jobs)
    BY DEF Init
  <2> QED
    BY <2>1, <2>2, <2>3 DEF Init, LoopType, SleepType
<1>3. CommandType
  <2>1. paused \in BOOLEAN /\ quit \in BOOLEAN
    BY DEF Init
  <2>2. /\ stack \in [Threads -> Seq(Item)] /\ checked \in [Threads -> SUBSET Jobs]
        /\ events \in Nat
    BY DEF Init
  <2> QED
    BY <2>1, <2>2 DEF CommandType
<1>4. ChildType
  BY NoChildType DEF Init, ChildType
<1> QED
  BY <1>1, <1>2, <1>3, <1>4 DEF TypeOK

LEMMA GoneType ==
    ASSUME TypeOK, Gone
    PROVE  /\ JobType' /\ LoopType' /\ ChildType'
           /\ timer' = "off" /\ paused' = FALSE /\ quit' = FALSE
           /\ stack' \in [Threads -> Seq(Item)]
           /\ checked' \in [Threads -> SUBSET Jobs]
<1> USE DEF TypeOK, Gone
<1>1. JobType'
  BY DEF JobType
<1>2. LoopType'
  <2>1. again' \in BOOLEAN /\ append' \in BOOLEAN /\ delta' \in BOOLEAN
    OBVIOUS
  <2>2. workOwed' \in [Jobs -> SUBSET Jobs]
    OBVIOUS
  <2>3. /\ todo' \in SUBSET (Procs \X BOOLEAN) /\ idx' \in Nat \ {0}
        /\ scan' \in SUBSET Jobs /\ work' \in Seq(Jobs) /\ batch' \in Seq(Jobs)
    OBVIOUS
  <2> QED
    BY <2>1, <2>2, <2>3 DEF LoopType
<1>3. ChildType'
  BY NoChildType DEF ChildType
<1> QED
  BY <1>1, <1>2, <1>3

LEMMA DiesType == ASSUME TypeOK, Dies PROVE TypeOK'
BY GoneType DEF Dies, TypeOK, SleepType, CommandType

LEMMA SignalledType == ASSUME SleepType, Signalled PROVE SleepType'
BY DEF SleepType, Signalled, Reaping

LEMMA ReloadedType ==
    ASSUME TypeOK, NEW c \in Configs, Reloaded(c)
    PROVE  /\ known' \in SUBSET Jobs /\ due' \in SUBSET Jobs
           /\ fresh' \in SUBSET Jobs
BY JobConstants DEF JobConstants, Reloaded, TypeOK, JobType

LEMMA SnapshotType == ASSUME TypeOK PROVE Snapshot \in SUBSET (Procs \X BOOLEAN)
<1>1. ASSUME NEW p \in running PROVE <<p, Known(proc[p].job)>> \in Procs \X BOOLEAN
  <2>1. Known(proc[p].job) \in BOOLEAN
    BY DEF Known
  <2>2. p \in Procs
    BY DEF TypeOK, JobType
  <2> QED
    BY <2>1, <2>2
<1> QED
  BY <1>1 DEF Snapshot

LEMMA ChildOf == ASSUME TypeOK, NEW p \in Procs
                 PROVE  proc[p].job \in Jobs /\ proc[p].st \in Live \cup {"none", "ok", "failed"}
BY DEF TypeOK, ChildType, Child

LEMMA EndsType ==
    ASSUME TypeOK, NEW p \in Procs, NEW r \in {"ok", "failed"}, Ends(p, r)
    PROVE  TypeOK'
<1> USE DEF TypeOK
<1>0. UNCHANGED <<jobVars, loopVars, commandVars, files, raced>>
  BY DEF Ends
<1>1. JobType' /\ LoopType' /\ CommandType'
  BY <1>0 DEF jobVars, loopVars, commandVars, JobType, LoopType, CommandType
<1>2. SleepType'
  BY SignalledType DEF Ends, sleepVars, SleepType
<1>3. proc' \in [Procs -> Child]
  BY NoChildType DEF Ends, ChildType, Child
<1>4. lock' \in [Jobs -> Procs \cup {"none", "stale"}]
  BY DEF Ends, ChildType
<1> QED
  BY <1>0, <1>1, <1>2, <1>3, <1>4 DEF ChildType

LEMMA LastRunType ==
    ASSUME TypeOK, NEW j \in Jobs, LastRunNow(j)
    PROVE  /\ due' \in SUBSET Jobs /\ fresh' \in SUBSET Jobs /\ ran' \in SUBSET Jobs
BY DEF LastRunNow, TypeOK, JobType

LEMMA ProcessedType ==
    ASSUME TypeOK, NEW j \in Jobs, NEW f \in BOOLEAN, Processed(j, f)
    PROVE  /\ proc' \in [Procs -> Child] /\ running' \in SUBSET Procs
           /\ started' \in SUBSET Jobs
           /\ runq' \in Seq(Jobs) /\ forced' \in Seq(Jobs)
           /\ due' \in SUBSET Jobs /\ fresh' \in SUBSET Jobs /\ ran' \in SUBSET Jobs
           /\ owed' \in [Jobs -> SUBSET Jobs]
<1> USE DEF TypeOK, JobType, ChildType
<1>1. /\ proc' \in [Procs -> Child] /\ running' \in SUBSET Procs
      /\ started' \in SUBSET Jobs
  <2>1. CASE UNCHANGED <<started, running, proc>>
    BY <2>1
  <2>2. ASSUME NEW p \in FreePids,
               proc' = [proc EXCEPT ![p] =
                       [st |-> "forked", job |-> j, forced |-> f, root |-> FALSE]],
               running' = running \cup {p},
               started' = started \cup ({j} \cap NotWaitedFor)
        PROVE  /\ proc' \in [Procs -> Child] /\ running' \in SUBSET Procs
               /\ started' \in SUBSET Jobs
    <3>1. [st |-> "forked", job |-> j, forced |-> f, root |-> FALSE] \in Child
      BY DEF Child, Live
    <3> QED
      BY <2>2, <3>1 DEF FreePids
  <2> QED
    BY <2>1, <2>2 DEF Processed
<1>2. runq' \in Seq(Jobs) /\ forced' \in Seq(Jobs)
  BY RemoveFirstIsSeq DEF Processed
<1>3. due' \in SUBSET Jobs /\ fresh' \in SUBSET Jobs /\ ran' \in SUBSET Jobs
  BY LastRunType DEF Processed
<1>4. owed' \in [Jobs -> SUBSET Jobs]
  BY DEF Processed, Delivered
<1> QED
  BY <1>1, <1>2, <1>3, <1>4

LEMMA ContinueType ==
    ASSUME TypeOK, NEW t \in Threads, NEW rest \in Seq(Item), NEW seen \in SUBSET Jobs,
           Continue(t, rest, seen)
    PROVE  /\ stack' \in [Threads -> Seq(Item)]
           /\ checked' \in [Threads -> SUBSET Jobs]
BY DEF Continue, TypeOK, CommandType

LEMMA TopType ==
    ASSUME TypeOK, NEW t \in Threads, NEW w, IsNext(t, w)
    PROVE  Top(t) \in Jobs /\ Tail(stack[t]) \in Seq(Item)
<1>1. stack[t] \in Seq(Item) /\ stack[t] # <<>>
  BY DEF TypeOK, CommandType, IsNext
<1>2. Head(stack[t]) \in Item /\ Tail(stack[t]) \in Seq(Item)
  BY <1>1, TailInSeq
<1> QED
  BY <1>2 DEF Top, Item

LEMMA VisitType ==
    ASSUME TypeOK, NEW t \in Threads, NEW list, Visit(t, list)
    PROVE  /\ stack' \in [Threads -> Seq(Item)]
           /\ checked' \in [Threads -> SUBSET Jobs]
<1> DEFINE j == Top(t)
           rest == IF NotInserted(t, list, j) THEN Tail(stack[t])
                   ELSE Visits(Pre[j]) \o <<<<"add", j>>>> \o Visits(Post[j]) \o Tail(stack[t])
           seen == checked[t] \cup {j}
<1>1. j \in Jobs /\ Tail(stack[t]) \in Seq(Item)
  BY TopType DEF Visit
<1>2. Visits(Pre[j]) \in Seq(Item) /\ Visits(Post[j]) \in Seq(Item)
  BY <1>1, VisitsType, JobConstants DEF JobConstants
<1>3. <<<<"add", j>>>> \in Seq(Item)
  BY <1>1 DEF Item
<1>4. rest \in Seq(Item) /\ seen \in SUBSET Jobs
  BY <1>1, <1>2, <1>3 DEF TypeOK, CommandType
<1>5. Continue(t, rest, seen)
  BY DEF Visit
<1> QED
  BY <1>4, <1>5, ContinueType

LEMMA AddType ==
    ASSUME TypeOK, NEW t \in Threads, Add(t)
    PROVE  /\ stack' \in [Threads -> Seq(Item)]
           /\ checked' \in [Threads -> SUBSET Jobs]
           /\ Top(t) \in Jobs
<1>1. Top(t) \in Jobs /\ Tail(stack[t]) \in Seq(Item)
  BY TopType DEF Add
<1>2. checked[t] \in SUBSET Jobs
  BY DEF TypeOK, CommandType
<1> QED
  BY <1>1, <1>2, ContinueType DEF Add

LEMMA BeforeType == ASSUME NEW j \in Jobs PROVE Before[j] \subseteq Jobs
BY DEF Before, PreReach, Reach
LEMMA Frames ==
    /\ JobType /\ UNCHANGED jobVars => JobType'
    /\ LoopType /\ UNCHANGED loopVars => LoopType'
    /\ SleepType /\ UNCHANGED sleepVars => SleepType'
    /\ CommandType /\ UNCHANGED commandVars => CommandType'
    /\ ChildType /\ UNCHANGED childVars => ChildType'
<1>1. JobType /\ UNCHANGED jobVars => JobType'
  BY DEF JobType, jobVars
<1>2. LoopType /\ UNCHANGED loopVars => LoopType'
  BY DEF LoopType, loopVars
<1>3. SleepType /\ UNCHANGED sleepVars => SleepType'
  BY DEF SleepType, sleepVars
<1>4. CommandType /\ UNCHANGED commandVars => CommandType'
  BY DEF CommandType, commandVars
<1>5. ChildType /\ UNCHANGED childVars => ChildType'
  BY DEF ChildType, childVars
<1> QED
  BY <1>1, <1>2, <1>3, <1>4, <1>5

LEMMA ChildCheckType ==
    ASSUME TypeOK, NEW p \in Procs, ChildCheck(p) PROVE TypeOK'
<1>1. JobType' /\ LoopType' /\ SleepType' /\ CommandType'
  BY Frames DEF TypeOK, ChildCheck
<1>2. ChildType'
  BY ChildOf DEF TypeOK, ChildType, Child, Live, ChildCheck
<1> QED
  BY <1>1, <1>2 DEF TypeOK

LEMMA ChildLockType ==
    ASSUME TypeOK, NEW p \in Procs, ChildLock(p) PROVE TypeOK'
<1>1. JobType' /\ LoopType' /\ SleepType' /\ CommandType'
  BY Frames DEF TypeOK, ChildLock
<1>2. ChildType'
  BY ChildOf DEF TypeOK, ChildType, Child, Live, ChildLock
<1> QED
  BY <1>1, <1>2 DEF TypeOK

LEMMA RootType == ASSUME NEW j PROVE (j \in Root) \in BOOLEAN
OBVIOUS

LEMMA ChildExecType ==
    ASSUME TypeOK, NEW p \in Procs, ChildExec(p) PROVE TypeOK'
<1>1. JobType' /\ LoopType' /\ SleepType' /\ CommandType'
  BY Frames DEF TypeOK, ChildExec
<1>2. ChildType'
  BY ChildOf, RootType DEF TypeOK, ChildType, Child, Live, ChildExec
<1> QED
  BY <1>1, <1>2 DEF TypeOK

LEMMA TimerFiresType ==
    ASSUME TypeOK, TimerFires PROVE TypeOK'
<1>1. JobType' /\ LoopType' /\ CommandType' /\ ChildType'
  BY Frames DEF TypeOK, TimerFires
<1>2. SleepType'
  BY SignalledType DEF TypeOK, TimerFires
<1> QED
  BY <1>1, <1>2 DEF TypeOK

LEMMA LoopTopType ==
    ASSUME TypeOK, LoopTop PROVE TypeOK'
<1>1. JobType' /\ CommandType' /\ ChildType'
  BY Frames DEF TypeOK, LoopTop
<1>2. LoopType'
  BY SnapshotType DEF TypeOK, LoopType, LoopTop
<1>3. SleepType'
  BY DEF TypeOK, SleepType, LoopTop, sleepVars, Reaping
<1> QED
  BY <1>1, <1>2, <1>3 DEF TypeOK

LEMMA ReapOverrunType ==
    ASSUME TypeOK, NEW p \in Procs, ReapOverrun(p) PROVE TypeOK'
<1>1. JobType' /\ SleepType' /\ CommandType'
  BY Frames DEF TypeOK, ReapOverrun
<1>2. LoopType'
  BY DEF TypeOK, LoopType, ReapOverrun
<1>3. ChildType'
  BY ChildOf DEF TypeOK, ChildType, Child, ReapOverrun
<1> QED
  BY <1>1, <1>2, <1>3 DEF TypeOK

LEMMA ReapType ==
    ASSUME TypeOK, NEW p \in Procs, Reap(p) PROVE TypeOK'
<1>1. SleepType' /\ CommandType'
  BY Frames DEF TypeOK, Reap
<1>2. JobType'
  BY ChildOf, LastRunType DEF TypeOK, JobType, Reap, Delivered
<1>3. LoopType'
  BY DEF TypeOK, LoopType, Reap
<1>4. ChildType'
  BY ChildOf, NoChildType DEF TypeOK, ChildType, Child, Reap
<1> QED
  BY <1>1, <1>2, <1>3, <1>4 DEF TypeOK

LEMMA ReapedType ==
    ASSUME TypeOK, Reaped PROVE TypeOK'
<1>1. JobType' /\ CommandType' /\ ChildType'
  BY Frames DEF TypeOK, Reaped
<1>2. LoopType'
  BY DEF TypeOK, LoopType, Reaped
<1>3. SleepType'
  BY DEF TypeOK, SleepType, Reaped, sleepVars, Reaping
<1> QED
  BY <1>1, <1>2, <1>3 DEF TypeOK

LEMMA RunForcedType ==
    ASSUME TypeOK, RunForced PROVE TypeOK'
<1>1. SleepType' /\ CommandType'
  BY Frames DEF TypeOK, RunForced
<1>2. JobType'
  <2>1. forced[idx] \in Jobs
    BY ElementOfSeq DEF TypeOK, JobType, LoopType, RunForced
  <2>2. JobType'
    BY <2>1, ProcessedType DEF TypeOK, JobType, RunForced
  <2> QED
    BY <2>1, <2>2 DEF JobType
<1>3. LoopType'
  BY DEF TypeOK, LoopType, RunForced
<1>4. ChildType'
  <2>1. forced[idx] \in Jobs
    BY ElementOfSeq DEF TypeOK, JobType, LoopType, RunForced
  <2>2. ChildType'
    BY <2>1, ProcessedType DEF TypeOK, ChildType, RunForced
  <2> QED
    BY <2>1, <2>2 DEF ChildType
<1> QED
  BY <1>1, <1>2, <1>3, <1>4 DEF TypeOK

LEMMA CopyQueueType ==
    ASSUME TypeOK, CopyQueue PROVE TypeOK'
<1>1. JobType' /\ CommandType' /\ ChildType'
  BY Frames DEF TypeOK, CopyQueue
<1>2. LoopType'
  BY DEF TypeOK, JobType, LoopType, CopyQueue
<1>3. SleepType'
  BY DEF TypeOK, SleepType, CopyQueue, sleepVars, Reaping
<1> QED
  BY <1>1, <1>2, <1>3 DEF TypeOK

LEMMA ProcessPausedType ==
    ASSUME TypeOK, ProcessPaused PROVE TypeOK'
<1>1. JobType' /\ SleepType' /\ CommandType' /\ ChildType'
  BY Frames DEF TypeOK, ProcessPaused
<1>2. LoopType'
  BY DEF TypeOK, LoopType, ProcessPaused
<1> QED
  BY <1>1, <1>2 DEF TypeOK

LEMMA ProcessHeldBackType ==
    ASSUME TypeOK, ProcessHeldBack PROVE TypeOK'
<1>1. JobType' /\ SleepType' /\ CommandType' /\ ChildType'
  BY Frames DEF TypeOK, ProcessHeldBack
<1>2. LoopType'
  BY TailInSeq DEF TypeOK, LoopType, ProcessHeldBack, InProcess
<1> QED
  BY <1>1, <1>2 DEF TypeOK

LEMMA ProcessJobType ==
    ASSUME TypeOK, ProcessJob PROVE TypeOK'
<1>1. SleepType' /\ CommandType'
  BY Frames DEF TypeOK, ProcessJob
<1>2. JobType'
  BY TailInSeq, ProcessedType DEF TypeOK, JobType, LoopType, ProcessJob, InProcess
<1>3. LoopType'
  BY TailInSeq DEF TypeOK, LoopType, ProcessJob, InProcess
<1>4. ChildType'
  BY TailInSeq, ProcessedType DEF TypeOK, ChildType, LoopType, ProcessJob, InProcess
<1> QED
  BY <1>1, <1>2, <1>3, <1>4 DEF TypeOK

LEMMA ProcessDoneType ==
    ASSUME TypeOK, ProcessDone PROVE TypeOK'
<1>1. CASE Dies
  BY <1>1, DiesType
<1>2. CASE ~Dies
  <2>1. JobType' /\ CommandType' /\ ChildType'
    BY <1>2, Frames DEF TypeOK, ProcessDone
  <2>2. LoopType' /\ SleepType'
    BY <1>2, SnapshotType DEF TypeOK, LoopType, SleepType, ProcessDone, Reaping
  <2> QED
    BY <2>1, <2>2 DEF TypeOK
<1> QED
  BY <1>1, <1>2

LEMMA FillStartType ==
    ASSUME TypeOK, FillStart PROVE TypeOK'
<1>1. CommandType' /\ ChildType'
  BY Frames DEF TypeOK, FillStart
<1>2. JobType'
  BY JobConstants DEF JobConstants, TypeOK, JobType, FillStart
<1>3. LoopType'
  BY DEF TypeOK, JobType, LoopType, FillStart
<1>4. SleepType'
  BY DEF TypeOK, SleepType, FillStart, sleepVars, Reaping
<1> QED
  BY <1>1, <1>2, <1>3, <1>4 DEF TypeOK

LEMMA FillJobType ==
    ASSUME TypeOK, NEW j \in Jobs, FillJob(j) PROVE TypeOK'
<1>1. JobType' /\ SleepType' /\ ChildType'
  BY Frames DEF TypeOK, FillJob
<1>2. LoopType'
  BY DEF TypeOK, LoopType, FillJob
<1>3. CommandType'
  <2>1. <<<<"visit", j>>>> \in Seq(Item)
    BY DEF Item
  <2>2. stack' \in [Threads -> Seq(Item)]
    BY <2>1 DEF TypeOK, CommandType, FillJob
  <2>3. /\ paused' \in BOOLEAN /\ quit' \in BOOLEAN
        /\ checked' \in [Threads -> SUBSET Jobs] /\ events' \in Nat
    BY DEF TypeOK, CommandType, FillJob
  <2> QED
    BY <2>1, <2>2, <2>3 DEF CommandType
<1> QED
  BY <1>1, <1>2, <1>3 DEF TypeOK

LEMMA FillVisitType ==
    ASSUME TypeOK, FillVisit PROVE TypeOK'
<1>1. JobType' /\ LoopType' /\ SleepType' /\ ChildType'
  BY Frames DEF TypeOK, FillVisit
<1>2. CommandType'
  BY VisitType DEF TypeOK, CommandType, Threads, FillVisit
<1> QED
  BY <1>1, <1>2 DEF TypeOK

LEMMA FillAddType ==
    ASSUME TypeOK, FillAdd PROVE TypeOK'
<1>1. JobType' /\ SleepType' /\ ChildType'
  BY Frames DEF TypeOK, FillAdd
<1>2. LoopType'
  BY AddType, BeforeType, AppendedSet DEF TypeOK, LoopType, Threads, Owes, FillAdd
<1>3. CommandType'
  BY AddType DEF TypeOK, CommandType, Threads, FillAdd
<1> QED
  BY <1>1, <1>2, <1>3 DEF TypeOK

LEMMA FillDoneType ==
    ASSUME TypeOK, FillDone PROVE TypeOK'
<1>1. ChildType'
  BY Frames DEF TypeOK, FillDone
<1>2. JobType'
  BY DEF TypeOK, JobType, LoopType, FillDone
<1>3. LoopType'
  <2>1. append' \in BOOLEAN /\ again' \in BOOLEAN /\ delta' \in BOOLEAN
    BY DEF TypeOK, LoopType, FillDone
  <2>2. work' \in Seq(Jobs) /\ workOwed' \in [Jobs -> SUBSET Jobs]
    BY DEF FillDone
  <2>3. /\ todo' \in SUBSET (Procs \X BOOLEAN) /\ idx' \in Nat \ {0}
        /\ scan' \in SUBSET Jobs /\ batch' \in Seq(Jobs)
    BY DEF TypeOK, LoopType, FillDone
  <2> QED
    BY <2>1, <2>2, <2>3 DEF LoopType
<1>4. SleepType'
  BY DEF TypeOK, SleepType, FillDone, sleepVars, Reaping
<1>5. CommandType'
  <2>1. <<>> \in Seq(Item) /\ {} \in SUBSET Jobs
    OBVIOUS
  <2>2. stack' \in [Threads -> Seq(Item)]
    BY <2>1 DEF TypeOK, CommandType, FillDone
  <2>3. checked' \in [Threads -> SUBSET Jobs]
    BY <2>1 DEF TypeOK, CommandType, FillDone
  <2>4. paused' \in BOOLEAN /\ quit' \in BOOLEAN /\ events' \in Nat
    BY DEF TypeOK, CommandType, FillDone
  <2> QED
    BY <2>1, <2>2, <2>3, <2>4 DEF CommandType
<1> QED
  BY <1>1, <1>2, <1>3, <1>4, <1>5 DEF TypeOK

LEMMA SleepStepType ==
    ASSUME TypeOK, Sleep PROVE TypeOK'
<1>1. JobType' /\ LoopType' /\ CommandType' /\ ChildType'
  BY Frames DEF TypeOK, Sleep
<1>2. SleepType'
  BY DEF TypeOK, SleepType, Sleep
<1> QED
  BY <1>1, <1>2 DEF TypeOK

LEMMA KillRunningType ==
    ASSUME TypeOK, NEW S, NEW next \in {"reap3", "reap4"},
           KillRunning(S, next) PROVE TypeOK'
<1>1. JobType' /\ CommandType'
  BY Frames DEF TypeOK, KillRunning
<1>2. LoopType'
  BY SnapshotType DEF TypeOK, LoopType, KillRunning
<1>3. SleepType'
  BY DEF TypeOK, SleepType, Reaping, KillRunning
<1>4. ChildType'
  BY DEF TypeOK, ChildType, Child, KillRunning
<1> QED
  BY <1>1, <1>2, <1>3, <1>4 DEF TypeOK

LEMMA RunJobType ==
    ASSUME TypeOK, NEW j \in Jobs, RunJob(j) PROVE TypeOK'
<1>1. LoopType' /\ ChildType'
  BY Frames DEF TypeOK, RunJob, Command
<1>2. JobType'
  BY AppendedSet DEF TypeOK, JobType, RunJob, Command
<1>3. SleepType'
  BY SignalledType DEF TypeOK, RunJob
<1>4. CommandType'
  BY DEF TypeOK, CommandType, RunJob, Command, Event
<1> QED
  BY <1>1, <1>2, <1>3, <1>4 DEF TypeOK

LEMMA RunJobWithDepsType ==
    ASSUME TypeOK, NEW j \in Jobs, RunJobWithDeps(j) PROVE TypeOK'
<1>1. LoopType' /\ SleepType' /\ ChildType'
  BY Frames DEF TypeOK, RunJobWithDeps, Command
<1>2. JobType'
  BY DEF TypeOK, JobType, RunJobWithDeps, Command
<1>3. CommandType'
  <2>1. <<<<"visit", j>>>> \in Seq(Item)
    BY DEF Item
  <2>2. stack' \in [Threads -> Seq(Item)]
    BY <2>1 DEF TypeOK, CommandType, RunJobWithDeps
  <2>3. /\ paused' \in BOOLEAN /\ quit' \in BOOLEAN
        /\ checked' \in [Threads -> SUBSET Jobs] /\ events' \in Nat
    BY DEF TypeOK, CommandType, RunJobWithDeps, Command, Event
  <2> QED
    BY <2>1, <2>2, <2>3 DEF CommandType
<1> QED
  BY <1>1, <1>2, <1>3 DEF TypeOK

LEMMA SocketVisitType ==
    ASSUME TypeOK, SocketVisit PROVE TypeOK'
<1>1. JobType' /\ LoopType' /\ ChildType'
  BY Frames DEF TypeOK, SocketVisit
<1>2. SleepType'
  BY Frames, SignalledType DEF TypeOK, SocketVisit, SignalAfterwards
<1>3. CommandType'
  BY VisitType DEF TypeOK, CommandType, Threads, SocketVisit
<1> QED
  BY <1>1, <1>2, <1>3 DEF TypeOK

LEMMA SocketAddType ==
    ASSUME TypeOK, SocketAdd PROVE TypeOK'
<1>1. LoopType' /\ ChildType'
  BY Frames DEF TypeOK, SocketAdd
<1>2. JobType'
  BY AddType, BeforeType, AppendedSet DEF TypeOK, JobType, Threads, Owes, SocketAdd
<1>3. SleepType'
  BY Frames, SignalledType DEF TypeOK, SocketAdd, SignalAfterwards
<1>4. CommandType'
  BY AddType DEF TypeOK, CommandType, Threads, SocketAdd
<1> QED
  BY <1>1, <1>2, <1>3, <1>4 DEF TypeOK

LEMMA ReloadType ==
    ASSUME TypeOK, Reload PROVE TypeOK'
<1>1. LoopType' /\ ChildType'
  BY Frames DEF TypeOK, Reload, Command
<1>2. JobType'
  BY ReloadedType DEF TypeOK, JobType, Reload, Command
<1>3. SleepType'
  BY SignalledType DEF TypeOK, Reload
<1>4. CommandType'
  BY DEF TypeOK, CommandType, Reload, Command, Event
<1> QED
  BY <1>1, <1>2, <1>3, <1>4 DEF TypeOK

LEMMA PauseQueueType ==
    ASSUME TypeOK, PauseQueue PROVE TypeOK'
<1>1. LoopType' /\ SleepType' /\ ChildType'
  BY Frames DEF TypeOK, PauseQueue, Command
<1>2. JobType'
  BY DEF TypeOK, JobType, PauseQueue, Command
<1>3. CommandType'
  BY DEF TypeOK, CommandType, PauseQueue, Command, Event
<1> QED
  BY <1>1, <1>2, <1>3 DEF TypeOK

LEMMA ResumeType ==
    ASSUME TypeOK, Resume PROVE TypeOK'
<1>1. LoopType' /\ ChildType'
  BY Frames DEF TypeOK, Resume, Command
<1>2. JobType'
  BY DEF TypeOK, JobType, Resume, Command
<1>3. SleepType'
  BY SignalledType DEF TypeOK, Resume
<1>4. CommandType'
  <2>1. paused' \in BOOLEAN /\ quit' \in BOOLEAN
    BY DEF TypeOK, CommandType, Resume, Command
  <2>2. /\ stack' \in [Threads -> Seq(Item)] /\ checked' \in [Threads -> SUBSET Jobs]
        /\ events' \in Nat
    BY DEF TypeOK, CommandType, Resume, Command, Event
  <2> QED
    BY <2>1, <2>2 DEF CommandType
<1> QED
  BY <1>1, <1>2, <1>3, <1>4 DEF TypeOK

LEMMA QuitType ==
    ASSUME TypeOK, Quit PROVE TypeOK'
<1>1. LoopType' /\ ChildType'
  BY Frames DEF TypeOK, Quit, Command
<1>2. JobType'
  BY DEF TypeOK, JobType, Quit, Command
<1>3. SleepType'
  BY SignalledType DEF TypeOK, Quit
<1>4. CommandType'
  <2>1. paused' \in BOOLEAN /\ quit' \in BOOLEAN
    BY DEF TypeOK, CommandType, Quit, Command
  <2>2. /\ stack' \in [Threads -> Seq(Item)] /\ checked' \in [Threads -> SUBSET Jobs]
        /\ events' \in Nat
    BY DEF TypeOK, CommandType, Quit, Command, Event
  <2> QED
    BY <2>1, <2>2 DEF CommandType
<1> QED
  BY <1>1, <1>2, <1>3, <1>4 DEF TypeOK

LEMMA StartType ==
    ASSUME TypeOK, Start PROVE TypeOK'
<1>1. LoopType' /\ ChildType'
  BY Frames DEF TypeOK, Start
<1>2. JobType'
  BY ReloadedType DEF TypeOK, JobType, Start
<1>3. SleepType'
  BY DEF TypeOK, SleepType, Start
<1>4. CommandType'
  BY DEF TypeOK, CommandType, Start, Event
<1> QED
  BY <1>1, <1>2, <1>3, <1>4 DEF TypeOK

LEMMA GoneAwayType ==
    ASSUME TypeOK, Killed \/ Exit PROVE TypeOK'
BY GoneType DEF TypeOK, SleepType, CommandType, Killed, Exit

LEMMA NextType == ASSUME TypeOK, [Next]_vars PROVE TypeOK'
<1>1. CASE Main
  <2>1. CASE \/ ForcedUnknown \/ CountUnknown \/ FillUnknown \/ ProcessUnknown
             \/ \E p \in Procs : ReapUnknown(p) \/ ReapForgotten(p)
    BY <2>1, DiesType DEF ForcedUnknown, CountUnknown, FillUnknown, ProcessUnknown,
                          ReapUnknown, ReapForgotten
  <2>2. CASE Terminate \/ Kill
    BY <2>2, KillRunningType DEF Terminate, Kill
  <2> QED
    BY <1>1, <2>1, <2>2, LoopTopType, ReapedType, RunForcedType, FillStartType,
       FillVisitType, FillAddType, FillDoneType, CopyQueueType, ProcessPausedType,
       ProcessHeldBackType, ProcessJobType, ProcessDoneType, FillJobType,
       ReapType, GoneAwayType, SleepStepType DEF Main
<1>2. CASE Socket
  BY <1>2, SocketVisitType, SocketAddType DEF Socket
<1>3. CASE Operator
  BY <1>3, RunJobType, RunJobWithDepsType, ReloadType, PauseQueueType, ResumeType,
     QuitType DEF Operator
<1>4. CASE TimerFires \/ Killed \/ Start
  BY <1>4, TimerFiresType, GoneAwayType, StartType
<1>5. ASSUME NEW p \in Procs, ChildStep(p) \/ ReapOverrun(p) PROVE TypeOK'
  <2>1. CASE ChildLockExists(p) \/ ChildEnds(p)
    BY <2>1, EndsType DEF ChildLockExists, ChildEnds
  <2> QED
    BY <1>5, <2>1, ChildCheckType, ChildLockType, ChildExecType, ReapOverrunType
       DEF ChildStep
<1>6. CASE UNCHANGED vars
  BY <1>6, Frames DEF TypeOK, vars
<1> QED
  BY <1>1, <1>2, <1>3, <1>4, <1>5, <1>6 DEF Next

\* Every variable keeps its type: in particular the queues that two threads write hold
\* jobs only, whatever reloads, deaths and restarts come in between.
THEOREM TypeCorrect == Spec => []TypeOK
<1>1. TypeOK /\ [Next]_vars => TypeOK'
  BY NextType
<1> QED
  BY InitType, <1>1, PTL DEF Spec

-----------------------------------------------------------------------------
(* The lock files.                                                           *)

\* What a step can do to the children, their lock files and _running_jobs.
LEMMA ChildEffects ==
    ASSUME [Next]_vars
    PROVE  \/ UNCHANGED <<running, proc, lock, raced>>
           \/ Gone
           \/ RunForced \/ ProcessJob
           \/ \E S, n : KillRunning(S, n)
           \/ \E p \in Procs : ChildStep(p) \/ ReapOverrun(p) \/ Reap(p)
<1>1. CASE Main
  <2>1. CASE \/ ForcedUnknown \/ CountUnknown \/ FillUnknown \/ ProcessUnknown
             \/ \E p \in Procs : ReapUnknown(p) \/ ReapForgotten(p)
    BY <2>1 DEF Dies, ForcedUnknown, CountUnknown, FillUnknown, ProcessUnknown,
                ReapUnknown, ReapForgotten
  <2>2. CASE LoopTop \/ Reaped \/ FillStart \/ FillVisit \/ FillAdd \/ FillDone
    BY <2>2 DEF LoopTop, Reaped, FillStart, FillVisit, FillAdd, FillDone, jobVars,
                childVars
  <2>3. CASE CopyQueue \/ ProcessPaused \/ ProcessHeldBack \/ ProcessDone \/ Sleep
    BY <2>3 DEF CopyQueue, ProcessPaused, ProcessHeldBack, ProcessDone, Dies, Sleep,
                jobVars, childVars
  <2>4. CASE Terminate \/ Kill \/ Exit
    BY <2>4 DEF Terminate, Kill, Exit
  <2>5. CASE \E j \in Jobs : FillJob(j)
    BY <2>5 DEF FillJob, jobVars, childVars
  <2> QED
    BY <1>1, <2>1, <2>2, <2>3, <2>4, <2>5 DEF Main
<1>2. CASE Socket
  BY <1>2 DEF Socket, SocketVisit, SocketAdd, jobVars, childVars
<1>3. CASE Operator
  BY <1>3 DEF Operator, RunJob, RunJobWithDeps, Reload, PauseQueue, Resume, Quit,
              Command, childVars
<1>4. CASE TimerFires \/ Killed \/ Start
  BY <1>4 DEF TimerFires, Killed, Start, jobVars, childVars
<1>5. CASE UNCHANGED vars
  BY <1>5 DEF vars, jobVars, childVars
<1> QED
  BY <1>1, <1>2, <1>3, <1>4, <1>5 DEF Next

\* A child goes on, or overruns: it stays what it is.
LEMMA ChildGoesOn ==
    ASSUME TypeOK, NEW p \in Procs,
           ChildCheck(p) \/ ChildLock(p) \/ ChildExec(p) \/ ReapOverrun(p)
    PROVE  \A q \in Procs :
              \/ proc'[q] = proc[q]
              \/ /\ q = p
                 /\ proc'[p].st \in {"checked", "locked", "runs", "failed"}
                 /\ proc'[p].job = proc[p].job /\ proc'[p].forced = proc[p].forced
                 /\ proc'[p].root => proc[p].root \/ proc[p].job \in Root
<1>0. proc \in [Procs -> Child]
  BY DEF TypeOK, ChildType
<1>1. CASE proc' = proc
  BY <1>1
<1>2. ASSUME NEW r \in {"checked", "locked", "runs", "failed"},
             proc' = [proc EXCEPT ![p].st = r]
      PROVE  /\ proc'[p].st = r /\ proc'[p].job = proc[p].job
             /\ proc'[p].forced = proc[p].forced /\ proc'[p].root = proc[p].root
             /\ \A q \in Procs : q # p => proc'[q] = proc[q]
  BY <1>2, <1>0 DEF Child
<1>3. CASE ChildExec(p)
  <2>1. proc' = [proc EXCEPT ![p].st = "runs", ![p].root = proc[p].job \in Root]
    BY <1>3 DEF ChildExec
  <2>2. /\ proc'[p].st = "runs" /\ proc'[p].job = proc[p].job
        /\ proc'[p].forced = proc[p].forced
        /\ proc'[p].root = (proc[p].job \in Root)
        /\ \A q \in Procs : q # p => proc'[q] = proc[q]
    BY <2>1, <1>0 DEF Child
  <2> QED
    BY <2>2
<1> QED
  BY <1>1, <1>2, <1>3 DEF ChildCheck, ChildLock, ReapOverrun

\* A process that has written the lock file of its job is the one that it names, until
\* it is reaped, and no other is past the check, where no race has taken place and the
\* job is not one of another user.
Holding == {"locked", "runs", "ok"}

LockHeld ==
    \A p \in Procs :
        (proc[p].st \in Holding /\ proc[p].job \notin raced \cup Root)
           => lock[proc[p].job] = p

OneHolder ==
    \A p, q \in Procs :
        (/\ p # q /\ proc[p].job = proc[q].job /\ proc[p].job \notin raced \cup Root
         /\ proc[p].st \in Holding \cup {"checked"})
           => proc[q].st \notin Holding \cup {"checked"}

RootJobs == \A p \in Procs : proc[p].root => proc[p].job \in Root

LockFilesInv == LockHeld /\ OneHolder /\ RootJobs

LEMMA InitLockFiles == Init => LockFilesInv
BY DEF Init, LockFilesInv, LockHeld, OneHolder, RootJobs, Holding, NoChild

\* The children change one at a time: when others stay as they are, it is enough to
\* look at that one.
LEMMA LockFilesFrame ==
    ASSUME TypeOK, LockFilesInv, raced' = raced, lock' = lock,
           proc' \in [Procs -> Child],
           \A q \in Procs :
              /\ proc'[q].st \in Holding =>
                    proc[q].st \in Holding /\ proc'[q].job = proc[q].job
              /\ proc'[q].st = "checked" =>
                    proc[q].st = "checked" /\ proc'[q].job = proc[q].job
              /\ proc'[q].root => proc'[q].job \in Root
    PROVE  LockFilesInv'
BY DEF LockFilesInv, LockHeld, OneHolder, RootJobs, Holding

LEMMA LockFilesStep == ASSUME TypeOK, LockFilesInv, [Next]_vars PROVE LockFilesInv'
<1>0. TypeOK'
  BY NextType
<1>t. proc \in [Procs -> Child] /\ proc' \in [Procs -> Child]
  BY <1>0 DEF TypeOK, ChildType
<1>1. CASE UNCHANGED <<running, proc, lock, raced>>
  BY <1>1 DEF LockFilesInv, LockHeld, OneHolder, RootJobs
<1>2. CASE Gone
  <2>1. /\ raced' = raced
        /\ \A q \in Procs : \/ proc'[q] = proc[q] /\ proc[q].st \in Live
                            \/ proc'[q] = NoChild
        /\ \A j \in Jobs : \/ lock'[j] = lock[j]
                           \/ lock[j] \in Procs /\ proc[lock[j]].st \notin Live
    BY <1>2, <1>t DEF Gone, TypeOK, ChildType
  <2>n. NoChild.st = "none" /\ NoChild.root = FALSE
    BY DEF NoChild
  <2>2. LockHeld'
    <3> SUFFICES ASSUME NEW q \in Procs, proc'[q].st \in Holding,
                        proc'[q].job \notin raced \cup Root
                 PROVE  lock'[proc'[q].job] = q
      BY <2>1 DEF LockHeld
    <3>1. proc'[q] = proc[q] /\ proc[q].st \in Live /\ proc[q].job \in Jobs
      BY <2>1, <2>n, ChildOf DEF Holding
    <3>2. lock[proc[q].job] = q
      BY <3>1 DEF LockFilesInv, LockHeld
    <3> QED
      BY <3>1, <3>2, <2>1
  <2>3. OneHolder'
    <3> SUFFICES ASSUME NEW q \in Procs, NEW r \in Procs, q # r,
                        proc'[q].job = proc'[r].job,
                        proc'[q].job \notin raced \cup Root,
                        proc'[q].st \in Holding \cup {"checked"},
                        proc'[r].st \in Holding \cup {"checked"}
                 PROVE  FALSE
      BY <2>1 DEF OneHolder
    <3>1. proc'[q] = proc[q] /\ proc'[r] = proc[r]
      BY <2>1, <2>n DEF Holding
    <3> QED
      BY <3>1 DEF LockFilesInv, OneHolder
  <2>4. RootJobs'
    BY <2>1, <2>n DEF LockFilesInv, RootJobs
  <2> QED
    BY <2>2, <2>3, <2>4 DEF LockFilesInv
<1>3. CASE RunForced \/ ProcessJob
  <2>1. raced' = raced /\ lock' = lock
    BY <1>3 DEF RunForced, ProcessJob
  <2>2. PICK j, f : Processed(j, f)
    BY <1>3 DEF RunForced, ProcessJob
  <2>3. \/ proc' = proc
        \/ \E p \in FreePids :
              proc' = [proc EXCEPT ![p] =
                      [st |-> "forked", job |-> j, forced |-> f, root |-> FALSE]]
    BY <2>2 DEF Processed
  <2>4. \A q \in Procs :
           \/ proc'[q] = proc[q]
           \/ proc'[q].st = "forked" /\ ~proc'[q].root
    <3>1. CASE proc' = proc
      BY <3>1
    <3>2. CASE proc' # proc
      <4>1. PICK p \in FreePids : proc' = [proc EXCEPT ![p] =
                      [st |-> "forked", job |-> j, forced |-> f, root |-> FALSE]]
        BY <2>3, <3>2
      <4>2. p \in Procs
        BY DEF FreePids
      <4>3. proc'[p] = [st |-> "forked", job |-> j, forced |-> f, root |-> FALSE]
        BY <4>1, <4>2, <1>t
      <4>4. \A q \in Procs : q # p => proc'[q] = proc[q]
        BY <4>1, <1>t
      <4> QED
        BY <4>3, <4>4
    <3> QED
      BY <3>1, <3>2
  <2> QED
    BY <2>1, <2>4, <1>t, LockFilesFrame DEF Holding, LockFilesInv, RootJobs
<1>4. ASSUME NEW S, NEW n, KillRunning(S, n) PROVE LockFilesInv'
  <2>1. raced' = raced /\ lock' = lock
    BY <1>4 DEF KillRunning
  <2>2. \A q \in Procs : \/ proc'[q] = proc[q]
                         \/ /\ proc'[q].st = "failed" /\ proc'[q].job = proc[q].job
                            /\ proc'[q].root = proc[q].root
    BY <1>4, <1>t DEF KillRunning, Child
  <2> QED
    BY <2>1, <2>2, <1>t, LockFilesFrame DEF Holding, LockFilesInv, RootJobs
<1>5. ASSUME NEW p \in Procs, ChildCheck(p) PROVE LockFilesInv'
  <2>1. /\ proc' = [proc EXCEPT ![p].st = "checked"] /\ lock' = lock
        /\ proc[p].job \in Jobs
        /\ lock[proc[p].job] \in Procs => proc[lock[proc[p].job]].root
    BY <1>5, ChildOf DEF ChildCheck, LockFree
  <2>2. /\ raced \subseteq raced'
        /\ \A q \in Procs : proc[q].st = "checked" /\ proc[q].job = proc[p].job
                             => proc[p].job \in raced'
    BY <1>5 DEF ChildCheck
  <2>3. /\ proc'[p].st = "checked" /\ proc'[p].job = proc[p].job
        /\ \A q \in Procs : q # p => proc'[q] = proc[q]
    BY <2>1, <1>t DEF Child
  <2>4. LockHeld'
    BY <2>1, <2>2, <2>3 DEF LockFilesInv, LockHeld, Holding
  <2>5. ASSUME NEW q \in Procs, q # p, proc[q].job = proc[p].job,
               proc[q].st \in Holding \cup {"checked"}
        PROVE  proc[p].job \in raced' \cup Root
    <3>1. CASE proc[q].st = "checked"
      BY <3>1, <2>2, <2>5
    <3>2. CASE proc[q].st \in Holding
      BY <3>2, <2>1, <2>2, <2>5 DEF LockFilesInv, LockHeld, RootJobs
    <3> QED
      BY <3>1, <3>2, <2>5
  <2>6. OneHolder'
    BY <2>2, <2>3, <2>5 DEF LockFilesInv, OneHolder
  <2>7. RootJobs'
    BY <1>5, ChildGoesOn DEF LockFilesInv, RootJobs
  <2> QED
    BY <2>4, <2>6, <2>7 DEF LockFilesInv
<1>6. ASSUME NEW p \in Procs, ChildLock(p) PROVE LockFilesInv'
  <2>1. /\ raced' = raced /\ proc[p].st = "checked" /\ proc[p].job \in Jobs
        /\ proc' = [proc EXCEPT ![p].st = "locked"]
        /\ lock' = [lock EXCEPT ![proc[p].job] = p]
    BY <1>6, ChildOf DEF ChildLock
  <2>2. /\ proc'[p].st = "locked" /\ proc'[p].job = proc[p].job
        /\ \A q \in Procs : q # p => proc'[q] = proc[q]
    BY <2>1, <1>t DEF Child
  <2>3. lock'[proc[p].job] = p /\ \A j \in Jobs : j # proc[p].job => lock'[j] = lock[j]
    BY <2>1 DEF TypeOK, ChildType
  <2>4. OneHolder'
    BY <2>1, <2>2 DEF LockFilesInv, OneHolder, Holding
  <2>5. LockHeld'
    BY <2>1, <2>2, <2>3, <2>4, ChildOf
       DEF LockFilesInv, LockHeld, OneHolder, Holding
  <2>6. RootJobs'
    BY <1>6, ChildGoesOn DEF LockFilesInv, RootJobs
  <2> QED
    BY <2>4, <2>5, <2>6 DEF LockFilesInv
<1>7. ASSUME NEW p \in Procs, ChildExec(p) \/ ReapOverrun(p) PROVE LockFilesInv'
  <2>1. raced' = raced /\ lock' = lock /\ proc[p].st \in {"locked", "runs"}
    BY <1>7 DEF ChildExec, ReapOverrun
  <2>2. proc' = proc \/ proc'[p].st \in {"runs", "failed"}
    <3>1. CASE ReapOverrun(p)
      BY <3>1, <1>t DEF ReapOverrun, Child
    <3>2. CASE ChildExec(p)
      BY <3>2, <1>t DEF ChildExec, Child
    <3> QED
      BY <3>1, <3>2, <1>7
  <2>3. \A q \in Procs :
           \/ proc'[q] = proc[q]
           \/ /\ q = p /\ proc'[p].job = proc[p].job
              /\ proc'[p].root => proc[p].root \/ proc[p].job \in Root
    BY <1>7, ChildGoesOn
  <2> QED
    BY <2>1, <2>2, <2>3, <1>t, LockFilesFrame DEF Holding, LockFilesInv, RootJobs
<1>8. ASSUME NEW p \in Procs, ChildLockExists(p) \/ ChildEnds(p) PROVE LockFilesInv'
  <2>1. PICK r \in {"ok", "failed"} :
           Ends(p, r) /\ (r = "ok" => proc[p].st = "runs")
    BY <1>8 DEF ChildLockExists, ChildEnds
  <2>2. CASE p \in running
    <3>1. raced' = raced /\ lock' = lock /\ proc' = [proc EXCEPT ![p].st = r]
      BY <2>1, <2>2 DEF Ends
    <3>2. \A q \in Procs : \/ proc'[q] = proc[q]
                           \/ /\ q = p /\ proc'[p].st = r
                              /\ proc'[p].job = proc[p].job /\ proc'[p].root = proc[p].root
      BY <3>1, <1>t DEF Child
    <3> QED
      BY <3>1, <3>2, <2>1, <1>t, LockFilesFrame DEF Holding, LockFilesInv, RootJobs
  <2>3. CASE p \notin running
    <3>1. /\ raced' = raced /\ proc' = [proc EXCEPT ![p] = NoChild]
          /\ lock' = [j \in Jobs |-> IF lock[j] = p THEN "stale" ELSE lock[j]]
      BY <2>1, <2>3 DEF Ends
    <3>2. \A q \in Procs : proc'[q] = proc[q] \/ (q = p /\ proc'[q] = NoChild)
      BY <3>1, <1>t
    <3>3. proc'[p].st = "none" /\ proc'[p].root = FALSE
      BY <3>1, <1>t DEF NoChild
    <3>4. \A j \in Jobs : lock[j] # p => lock'[j] = lock[j]
      BY <3>1
    <3>5. LockHeld'
      BY <3>1, <3>2, <3>3, <3>4, ChildOf DEF LockFilesInv, LockHeld, Holding
    <3>6. OneHolder'
      BY <3>1, <3>2, <3>3 DEF LockFilesInv, OneHolder, Holding
    <3>7. RootJobs'
      BY <3>2, <3>3 DEF LockFilesInv, RootJobs
    <3> QED
      BY <3>5, <3>6, <3>7 DEF LockFilesInv
  <2> QED
    BY <2>2, <2>3
<1>9. ASSUME NEW p \in Procs, Reap(p) PROVE LockFilesInv'
  <2> DEFINE j == proc[p].job
  <2>1. /\ raced' = raced /\ j \in Jobs /\ proc[p].st \in {"ok", "failed"}
        /\ \A k \in Jobs : k # j => lock'[k] = lock[k]
        /\ proc[p].st = "failed" => lock'[j] = lock[j] \/ lock[j] = p
    BY <1>9, ChildOf DEF Reap, TypeOK, ChildType
  <2>2. /\ proc'[p].st = "none"
        /\ \A q \in Procs : q # p => proc'[q] = proc[q]
    BY <1>9, <1>t DEF Reap, NoChild, Child
  <2>3. LockHeld'
    <3> SUFFICES ASSUME NEW q \in Procs, proc'[q].st \in Holding,
                        proc'[q].job \notin raced \cup Root
                 PROVE  lock'[proc'[q].job] = q
      BY <2>1 DEF LockHeld
    <3>1. q # p /\ proc'[q] = proc[q] /\ lock[proc[q].job] = q
      BY <2>2 DEF LockFilesInv, LockHeld, Holding
    <3>2. CASE proc[q].job # j
      BY <3>1, <3>2, <2>1, ChildOf
    <3>3. CASE proc[q].job = j
      <4>1. proc[p].st = "failed"
        BY <3>1, <3>3, <2>1 DEF LockFilesInv, OneHolder, Holding
      <4> QED
        BY <4>1, <3>1, <3>3, <2>1
    <3> QED
      BY <3>2, <3>3
  <2>4. OneHolder'
    BY <2>1, <2>2 DEF LockFilesInv, OneHolder, Holding
  <2>5. RootJobs'
    <3>1. proc'[p].root => proc'[p] = [proc[p] EXCEPT !.st = "none"]
      BY <1>9, <1>t DEF Reap, NoChild
    <3>2. proc'[p].root => proc'[p].job = proc[p].job /\ proc[p].root
      BY <3>1, <1>t DEF Child
    <3> QED
      BY <3>2, <2>2 DEF LockFilesInv, RootJobs
  <2> QED
    BY <2>3, <2>4, <2>5 DEF LockFilesInv
<1> QED
  BY <1>1, <1>2, <1>3, <1>4, <1>5, <1>6, <1>7, <1>8, <1>9, ChildEffects DEF ChildStep

\* The lock files of System.execute and cond_wait name the processes that hold them.
THEOREM LockFilesCorrect == Spec => [](TypeOK /\ LockFilesInv)
<1>1. TypeOK /\ LockFilesInv /\ [Next]_vars => (TypeOK /\ LockFilesInv)'
  BY NextType, LockFilesStep
<1> QED
  BY InitType, InitLockFiles, <1>1, PTL DEF Spec

-----------------------------------------------------------------------------
(* What the lock files are for.                                              *)

\* A ghost, a job without a process, comes from a lock file that is missing when
\* cond_wait wants to remove it.
LEMMA NoGhostStep ==
    ASSUME TypeOK, LockFilesInv, NoGhost, [Next]_vars PROVE NoGhost'
<1>0. TypeOK'
  BY NextType
<1>t. /\ proc \in [Procs -> Child] /\ proc' \in [Procs -> Child]
      /\ running \subseteq Procs /\ running' \subseteq Procs
  BY <1>0 DEF TypeOK, ChildType, JobType
<1>1. CASE UNCHANGED <<running, proc, lock, raced>>
  BY <1>1 DEF NoGhost
<1>2. CASE Gone
  BY <1>2 DEF Gone, NoGhost
<1>3. CASE RunForced \/ ProcessJob
  <2>1. raced' = raced
    BY <1>3 DEF RunForced, ProcessJob
  <2>2. PICK j, f : Processed(j, f)
    BY <1>3 DEF RunForced, ProcessJob
  <2>3. CASE UNCHANGED <<running, proc>>
    BY <2>1, <2>3 DEF NoGhost
  <2>4. ASSUME NEW p \in FreePids, running' = running \cup {p},
               proc' = [proc EXCEPT ![p] =
                       [st |-> "forked", job |-> j, forced |-> f, root |-> FALSE]]
        PROVE  NoGhost'
    <3>1. p \in Procs
      BY DEF FreePids
    <3>2. proc'[p].st = "forked" /\ \A q \in Procs : q # p => proc'[q] = proc[q]
      BY <2>4, <3>1, <1>t
    <3> QED
      BY <3>2, <2>1, <2>4, <1>t DEF NoGhost
  <2> QED
    BY <2>2, <2>3, <2>4 DEF Processed
<1>4. ASSUME NEW S, NEW n, KillRunning(S, n) PROVE NoGhost'
  <2>1. raced' = raced /\ running' = running
    BY <1>4 DEF KillRunning, jobVars
  <2>2. \A q \in Procs : proc'[q] = proc[q] \/ proc'[q].st = "failed"
    BY <1>4, <1>t DEF KillRunning, Child
  <2> QED
    BY <2>1, <2>2, <1>t DEF NoGhost
<1>5. ASSUME NEW p \in Procs,
             ChildCheck(p) \/ ChildLock(p) \/ ChildExec(p) \/ ReapOverrun(p)
      PROVE  NoGhost'
  <2>1. raced \subseteq raced' /\ running' = running
    BY <1>5 DEF ChildCheck, ChildLock, ChildExec, ReapOverrun, jobVars
  <2>2. \A q \in Procs : proc'[q] = proc[q] \/ proc'[q].st # "none"
    BY <1>5, ChildGoesOn
  <2> QED
    BY <2>1, <2>2, <1>t DEF NoGhost
<1>6. ASSUME NEW p \in Procs, ChildLockExists(p) \/ ChildEnds(p) PROVE NoGhost'
  <2>1. PICK r \in {"ok", "failed"} : Ends(p, r)
    BY <1>6 DEF ChildLockExists, ChildEnds
  <2>2. raced' = raced /\ running' = running
    BY <2>1 DEF Ends, jobVars
  <2>3. \A q \in Procs : \/ proc'[q] = proc[q] \/ proc'[q].st # "none"
                         \/ q \notin running
    BY <2>1, <1>t DEF Ends, Child
  <2> QED
    BY <2>2, <2>3, <1>t DEF NoGhost
<1>7. ASSUME NEW p \in Procs, Reap(p) PROVE NoGhost'
  <2> DEFINE j == proc[p].job
             missing == proc[p].st = "ok" /\ files[j] /\ lock[j] = "none"
  <2>1. /\ raced' = raced /\ j \in Jobs
        /\ running' = IF missing THEN running ELSE running \ {p}
        /\ proc' = [proc EXCEPT ![p] = IF missing THEN [@ EXCEPT !.st = "none"]
                                       ELSE NoChild]
    BY <1>7, ChildOf DEF Reap
  <2>2. \A q \in Procs : q # p => proc'[q] = proc[q]
    BY <2>1, <1>t
  <2>3. CASE missing
    <3>1. j \in raced \cup Root
      BY <2>3, JobConstants DEF LockFilesInv, LockHeld, Holding, JobConstants
    <3>2. proc'[p].job = j
      BY <2>1, <2>3, <1>t DEF Child
    <3> QED
      BY <3>1, <3>2, <2>1, <2>2, <2>3, <1>t DEF NoGhost
  <2>4. CASE ~missing
    BY <2>1, <2>2, <2>4, <1>t DEF NoGhost
  <2> QED
    BY <2>3, <2>4
<1> QED
  BY <1>1, <1>2, <1>3, <1>4, <1>5, <1>6, <1>7, ChildEffects DEF ChildStep

\* handle_completed_jobs: without a race at its lock file, a job that has ended leaves
\* _running_jobs, unless it runs as another user and its lock counted as free.
THEOREM NoGhosts == Spec => []NoGhost
<1>1. Init => NoGhost
  BY DEF Init, NoGhost
<1>2. TypeOK /\ LockFilesInv /\ NoGhost /\ [Next]_vars => NoGhost'
  BY NoGhostStep
<1> QED
  BY LockFilesCorrect, <1>1, <1>2, PTL DEF Spec

-----------------------------------------------------------------------------
(* The limits on what runs at a time.                                        *)

\* A job in _running_jobs stays the same job; process_queue alone adds to the list.
LEMMA RunningEffects ==
    ASSUME TypeOK, [Next]_vars
    PROVE  \/ /\ running' \subseteq running
              /\ \A p \in running' : /\ proc'[p].job = proc[p].job
                                     /\ proc'[p].forced = proc[p].forced
           \/ \E j \in Jobs, f \in BOOLEAN, p \in FreePids :
                 /\ (RunForced /\ f = TRUE) \/ (ProcessJob /\ f = FALSE /\ j = Head(batch))
                 /\ running' = running \cup {p}
                 /\ proc' = [proc EXCEPT ![p] =
                            [st |-> "forked", job |-> j, forced |-> f, root |-> FALSE]]
<1> DEFINE Same == /\ running' \subseteq running
                   /\ \A p \in running' : /\ proc'[p].job = proc[p].job
                                          /\ proc'[p].forced = proc[p].forced
           Starts == \E j \in Jobs, f \in BOOLEAN, p \in FreePids :
                        /\ (RunForced /\ f = TRUE) \/ (ProcessJob /\ f = FALSE /\ j = Head(batch))
                        /\ running' = running \cup {p}
                        /\ proc' = [proc EXCEPT ![p] = [st |-> "forked", job |-> j,
                                                        forced |-> f, root |-> FALSE]]
<1>0. /\ proc \in [Procs -> Child] /\ running \subseteq Procs
  BY DEF TypeOK, ChildType, JobType
<1>1. CASE UNCHANGED <<running, proc, lock, raced>>
  BY <1>1
<1>2. CASE Gone
  BY <1>2 DEF Gone
<1>3. CASE RunForced
  <2>0. Processed(forced[idx], TRUE)
    BY <1>3 DEF RunForced
  <2>1. forced[idx] \in Jobs
    BY <1>3, ElementOfSeq DEF TypeOK, JobType, LoopType, RunForced
  <2>2. CASE UNCHANGED <<started, running, proc>>
    BY <2>2
  <2>3. CASE ~UNCHANGED <<started, running, proc>>
    BY <2>0, <2>1, <2>3, <1>3 DEF Processed
  <2> QED
    BY <2>2, <2>3
<1>4. CASE ProcessJob
  <2>1. Head(batch) \in Jobs /\ Processed(Head(batch), FALSE)
    BY <1>4, TailInSeq DEF TypeOK, LoopType, ProcessJob, InProcess
  <2>2. CASE UNCHANGED <<started, running, proc>>
    BY <2>2
  <2>3. CASE ~UNCHANGED <<started, running, proc>>
    BY <2>1, <2>3, <1>4 DEF Processed
  <2> QED
    BY <2>2, <2>3
<1>5. ASSUME NEW S, NEW n, KillRunning(S, n) PROVE Same
  <2>1. running' = running
    BY <1>5 DEF KillRunning, jobVars
  <2> QED
    BY <2>1, <1>5, <1>0 DEF KillRunning, Child
<1>6. ASSUME NEW p \in Procs,
             ChildCheck(p) \/ ChildLock(p) \/ ChildExec(p) \/ ReapOverrun(p)
      PROVE  Same
  <2>1. running' = running
    BY <1>6 DEF ChildCheck, ChildLock, ChildExec, ReapOverrun, jobVars
  <2> QED
    BY <2>1, <1>0, <1>6, ChildGoesOn
<1>7. ASSUME NEW p \in Procs, ChildLockExists(p) \/ ChildEnds(p) PROVE Same
  <2>1. PICK r \in {"ok", "failed"} : Ends(p, r)
    BY <1>7 DEF ChildLockExists, ChildEnds
  <2>2. running' = running
    BY <2>1 DEF Ends, jobVars
  <2> QED
    BY <2>1, <2>2, <1>0 DEF Ends, Child
<1>8. ASSUME NEW p \in Procs, Reap(p) PROVE Same
  <2>1. running' = running \/ running' = running \ {p}
    BY <1>8 DEF Reap
  <2>2. \A q \in Procs : q # p => proc'[q] = proc[q]
    BY <1>8, <1>0 DEF Reap
  <2>3. running' = running \ {p} \/ proc' = [proc EXCEPT ![p] = [@ EXCEPT !.st = "none"]]
    BY <1>8 DEF Reap
  <2> QED
    BY <2>1, <2>2, <2>3, <1>0 DEF Child
<1> QED
  BY <1>1, <1>2, <1>3, <1>4, <1>5, <1>6, <1>7, <1>8, ChildEffects DEF ChildStep

\* The two parts of NotTwice and NoConflict that _running_jobs alone keeps.
ScheduledOnce ==
    \A p, q \in running :
        Scheduled(p) /\ Scheduled(q) /\ proc[p].job = proc[q].job => p = q

ScheduledApart ==
    \A p, q \in running :
        ( /\ p # q /\ Scheduled(p) /\ Scheduled(q)
          /\ proc[p].job \in Nonconcurrent[proc[q].job]
          /\ proc[q].job \in Nonconcurrent[proc[p].job] ) => FALSE

LEMMA ScheduledOnceStep == ASSUME TypeOK, ScheduledOnce, [Next]_vars PROVE ScheduledOnce'
<1>0. /\ proc \in [Procs -> Child] /\ running \subseteq Procs
  BY DEF TypeOK, ChildType, JobType
<1>1. ASSUME running' \subseteq running,
             \A p \in running' : /\ proc'[p].job = proc[p].job
                                /\ proc'[p].forced = proc[p].forced
      PROVE  ScheduledOnce'
  BY <1>1 DEF ScheduledOnce, Scheduled
<1>2. ASSUME NEW j \in Jobs, NEW f \in BOOLEAN, NEW p \in FreePids,
             (RunForced /\ f = TRUE) \/ (ProcessJob /\ f = FALSE /\ j = Head(batch)),
             running' = running \cup {p},
             proc' = [proc EXCEPT ![p] =
                     [st |-> "forked", job |-> j, forced |-> f, root |-> FALSE]]
      PROVE  ScheduledOnce'
  <2>1. /\ p \in Procs /\ p \notin running
        /\ proc'[p].job = j /\ proc'[p].forced = f
        /\ \A q \in running : proc'[q] = proc[q]
    BY <1>0, <1>2 DEF FreePids
  <2>2. CASE f = TRUE
    BY <2>1, <2>2, <1>2 DEF ScheduledOnce, Scheduled
  <2>3. CASE ProcessJob /\ j = Head(batch)
    <3>1. \A q \in running : proc[q].job # j
      BY <2>3 DEF ProcessJob, HeldBack, HasQueuedPrerequisite, RunningJobs
    <3> QED
      BY <3>1, <2>1, <1>2 DEF ScheduledOnce, Scheduled
  <2> QED
    BY <1>2, <2>2, <2>3
<1> QED
  BY <1>1, <1>2, RunningEffects

LEMMA ScheduledApartStep == ASSUME TypeOK, ScheduledApart, [Next]_vars PROVE ScheduledApart'
<1>0. /\ proc \in [Procs -> Child] /\ running \subseteq Procs
  BY DEF TypeOK, ChildType, JobType
<1>1. ASSUME running' \subseteq running,
             \A p \in running' : /\ proc'[p].job = proc[p].job
                                /\ proc'[p].forced = proc[p].forced
      PROVE  ScheduledApart'
  BY <1>1 DEF ScheduledApart, Scheduled
<1>2. ASSUME NEW j \in Jobs, NEW f \in BOOLEAN, NEW p \in FreePids,
             (RunForced /\ f = TRUE) \/ (ProcessJob /\ f = FALSE /\ j = Head(batch)),
             running' = running \cup {p},
             proc' = [proc EXCEPT ![p] =
                     [st |-> "forked", job |-> j, forced |-> f, root |-> FALSE]]
      PROVE  ScheduledApart'
  <2>1. /\ p \in Procs /\ p \notin running
        /\ proc'[p].job = j /\ proc'[p].forced = f
        /\ \A q \in running : proc'[q] = proc[q]
    BY <1>0, <1>2 DEF FreePids
  <2>2. CASE f = TRUE
    BY <2>1, <2>2, <1>2 DEF ScheduledApart, Scheduled
  <2>3. CASE ProcessJob /\ j = Head(batch)
    <3>1. \A q \in running : proc[q].job \notin Nonconcurrent[j]
      BY <2>3 DEF ProcessJob, HeldBack, HasConflictingJobsRunning, RunningJobs
    <3> QED
      BY <3>1, <2>1, <1>2 DEF ScheduledApart, Scheduled
  <2> QED
    BY <1>2, <2>2, <2>3
<1> QED
  BY <1>1, <1>2, RunningEffects

\* System.execute and has_queued_prerequisite: without a race at the lock file, a job
\* that does not run as another user runs once at a time, whether it is scheduled,
\* forced, or left behind by a runner that has died; and any job is scheduled once at
\* a time by one runner.
THEOREM RunsOnce == Spec => []NotTwice
<1>1. Init => ScheduledOnce
  BY DEF Init, ScheduledOnce
<1>2. TypeOK /\ ScheduledOnce /\ [Next]_vars => ScheduledOnce'
  BY ScheduledOnceStep
<1>3. LockFilesInv /\ ScheduledOnce => NotTwice
  BY DEF LockFilesInv, OneHolder, ScheduledOnce, NotTwice, At, Holding
<1> QED
  BY LockFilesCorrect, <1>1, <1>2, <1>3, PTL DEF Spec

\* has_conflicting_jobs_running: of two jobs that exclude each other, and of which
\* neither was forced, one is there only if the other has been reaped, or one of them
\* was left by a runner that is gone.
THEOREM ConflictsKeptApart == Spec => []NoConflict
<1>1. Init => ScheduledApart
  BY DEF Init, ScheduledApart
<1>2. TypeOK /\ ScheduledApart /\ [Next]_vars => ScheduledApart'
  BY ScheduledApartStep
<1>3. ScheduledApart => NoConflict
  BY DEF ScheduledApart, NoConflict, Scheduled, Orphans
<1> QED
  BY TypeCorrect, <1>1, <1>2, <1>3, PTL DEF Spec

LEMMA MaxParallelStep ==
    ASSUME TypeOK, KeepsMaxParallel, [Next]_vars PROVE KeepsMaxParallel'
<1> DEFINE W == {p \in running : Scheduled(p) /\ Kind[proc[p].job] = "wait"}
           R == {p \in running : Kind[proc[p].job] = "wait"}
<1>0. /\ proc \in [Procs -> Child] /\ running \subseteq Procs
      /\ IsFiniteSet(Procs) /\ MaxParallel \in Nat
  BY JobConstants DEF TypeOK, ChildType, JobType, JobConstants
<1>1. /\ IsFiniteSet(W) /\ Cardinality(W) \in Nat /\ Cardinality(W) <= MaxParallel
      /\ IsFiniteSet(R) /\ Cardinality(R) \in Nat /\ Cardinality(W) <= Cardinality(R)
  <2>1. W \subseteq Procs /\ R \subseteq Procs /\ W \subseteq R
    BY <1>0
  <2>2. IsFiniteSet(W) /\ IsFiniteSet(R)
    BY <2>1, <1>0, FS_Subset
  <2> QED
    BY <2>1, <2>2, FS_Subset, FS_CardinalityType DEF KeepsMaxParallel
<1>2. SUFFICES Cardinality(W') <= MaxParallel
  BY DEF KeepsMaxParallel
<1>3. ASSUME W' \subseteq W PROVE Cardinality(W') <= MaxParallel
  <2>1. Cardinality(W') \in Nat /\ Cardinality(W') <= Cardinality(W)
    BY <1>1, <1>3, FS_Subset, FS_CardinalityType
  <2> QED
    BY <2>1, <1>0, <1>1
<1>4. ASSUME running' \subseteq running,
             \A p \in running' : /\ proc'[p].job = proc[p].job
                                /\ proc'[p].forced = proc[p].forced
      PROVE  Cardinality(W') <= MaxParallel
  <2>1. W' \subseteq W
    BY <1>4 DEF Scheduled
  <2> QED
    BY <2>1, <1>3
<1>5. ASSUME NEW j \in Jobs, NEW f \in BOOLEAN, NEW p \in FreePids,
             (RunForced /\ f = TRUE) \/ (ProcessJob /\ f = FALSE /\ j = Head(batch)),
             running' = running \cup {p},
             proc' = [proc EXCEPT ![p] =
                     [st |-> "forked", job |-> j, forced |-> f, root |-> FALSE]]
      PROVE  Cardinality(W') <= MaxParallel
  <2>1. /\ p \in Procs /\ p \notin running
        /\ proc'[p].job = j /\ proc'[p].forced = f
        /\ \A q \in running : proc'[q] = proc[q]
    BY <1>0, <1>5 DEF FreePids
  <2>2. CASE f = TRUE \/ Kind[j] # "wait"
    <3>1. W' \subseteq W
      BY <2>1, <2>2, <1>5 DEF Scheduled
    <3> QED
      BY <3>1, <1>3
  <2>3. CASE ProcessJob /\ j = Head(batch) /\ Kind[j] = "wait"
    <3>1. Cardinality(R) < MaxParallel
      <4>1. ~(NumRunning >= MaxParallel)
        BY <2>3 DEF ProcessJob, HeldBack, TooMany
      <4>2. NumRunning = Cardinality(R)
        BY DEF NumRunning
      <4> QED
        BY <4>1, <4>2, <1>0, <1>1
    <3>2. W' \subseteq W \cup {p}
      BY <2>1, <1>5 DEF Scheduled
    <3>3. IsFiniteSet(W \cup {p}) /\ Cardinality(W \cup {p}) = Cardinality(W) + 1
      <4>1. p \notin W
        BY <2>1
      <4> QED
        BY <4>1, <1>1, FS_AddElement
    <3>4. /\ Cardinality(W') \in Nat /\ Cardinality(W \cup {p}) \in Nat
          /\ Cardinality(W') <= Cardinality(W \cup {p})
      BY <3>2, <3>3, FS_Subset, FS_CardinalityType
    <3> QED
      BY <3>1, <3>3, <3>4, <1>0, <1>1
  <2> QED
    BY <1>5, <2>2, <2>3
<1> QED
  BY <1>4, <1>5, RunningEffects

\* process_queue: the scheduled jobs of a runner that are waited for never exceed
\* JOB_RUNNER_MAX_PARALELL_JOBS, however many are forced beside them.
THEOREM ParallelJobsBounded == Spec => []KeepsMaxParallel
<1>1. Init => KeepsMaxParallel
  <2> SUFFICES ASSUME Init PROVE KeepsMaxParallel
    OBVIOUS
  <2>1. {p \in running : Scheduled(p) /\ Kind[proc[p].job] = "wait"} = {}
    BY DEF Init
  <2>2. Cardinality({}) <= MaxParallel
    <3>1. Cardinality({}) = 0
      BY FS_EmptySet
    <3> QED
      BY <3>1, JobConstants DEF JobConstants
  <2> QED
    BY <2>1, <2>2 DEF KeepsMaxParallel
<1>2. TypeOK /\ KeepsMaxParallel /\ [Next]_vars => KeepsMaxParallel'
  BY MaxParallelStep
<1> QED
  BY TypeCorrect, <1>1, <1>2, PTL DEF Spec

-----------------------------------------------------------------------------
(* Prerequisites.                                                            *)

\* While get_next_job_time builds a new queue, the same holds of it as of the old one.
WorkOwed == pc = "fill" =>
               \A j \in Jobs : workOwed[j] \subseteq ToSet(work) \cup RunningJobs

OwedBefore ==
    \A j \in Jobs : owed[j] \subseteq Before[j] /\ workOwed[j] \subseteq Before[j]

QueueInv == OwedInv /\ WorkOwed /\ OwedBefore

LEMMA InitQueue == Init => QueueInv
BY DEF Init, QueueInv, OwedInv, WorkOwed, OwedBefore

\* A step that leaves the queues, what is owed, and the jobs that run as they are.
Idle == /\ RunningJobs' = RunningJobs
        /\ UNCHANGED <<runq, owed, work, workOwed>>
        /\ pc' = "fill" => pc = "fill"

LEMMA IdleStep == ASSUME QueueInv, Idle PROVE QueueInv'
<1>1. OwedInv'
  BY DEF QueueInv, OwedInv, Idle
<1>2. WorkOwed'
  BY DEF QueueInv, WorkOwed, Idle
<1>3. OwedBefore'
  BY DEF QueueInv, OwedBefore, Idle
<1> QED
  BY <1>1, <1>2, <1>3 DEF QueueInv

LEMMA SameRunning ==
    ASSUME UNCHANGED <<running, proc>>
    PROVE  RunningJobs' = RunningJobs
BY DEF RunningJobs

LEMMA QueueEffects ==
    ASSUME TypeOK, [Next]_vars
    PROVE  \/ Idle \/ Gone
           \/ RunForced \/ ProcessJob
           \/ FillStart \/ FillAdd \/ FillDone \/ SocketAdd
           \/ \E p \in Procs : Reap(p)
<1>0. /\ proc \in [Procs -> Child] /\ running \subseteq Procs
  BY DEF TypeOK, ChildType, JobType
<1>1. CASE Main
  <2>1. CASE \/ ForcedUnknown \/ CountUnknown \/ FillUnknown \/ ProcessUnknown
             \/ \E p \in Procs : ReapUnknown(p) \/ ReapForgotten(p)
    BY <2>1 DEF Dies, ForcedUnknown, CountUnknown, FillUnknown, ProcessUnknown,
                ReapUnknown, ReapForgotten
  <2>2. CASE LoopTop \/ Reaped \/ FillVisit \/ CopyQueue
    BY <2>2, SameRunning DEF LoopTop, Reaped, FillVisit, CopyQueue, jobVars, childVars,
                             loopVars, sleepVars, Idle, Reaping
  <2>3. CASE ProcessPaused \/ ProcessHeldBack \/ ProcessDone \/ Sleep
    BY <2>3, SameRunning DEF ProcessPaused, ProcessHeldBack, ProcessDone, Dies, Sleep,
                             jobVars, childVars, loopVars, sleepVars, Idle
  <2>4. CASE Exit
    BY <2>4 DEF Exit
  <2>5. CASE \E j \in Jobs : FillJob(j)
    BY <2>5, SameRunning DEF FillJob, jobVars, childVars, sleepVars, Idle
  <2>6. ASSUME NEW S, NEW n \in {"reap3", "reap4"}, KillRunning(S, n) PROVE Idle
    <3>1. /\ UNCHANGED <<running, runq, owed, work, workOwed>> /\ pc' # "fill"
      BY <2>6 DEF KillRunning, jobVars
    <3>2. \A p \in Procs : proc'[p].job = proc[p].job
      BY <2>6, <1>0 DEF KillRunning, Child
    <3> QED
      BY <3>1, <3>2, <1>0 DEF Idle, RunningJobs
  <2> QED
    BY <1>1, <2>1, <2>2, <2>3, <2>4, <2>5, <2>6 DEF Main, Terminate, Kill
<1>2. CASE SocketVisit
  BY <1>2, SameRunning DEF SocketVisit, SignalAfterwards, Signalled, jobVars, loopVars,
                           childVars, sleepVars, Idle
<1>3. CASE Operator
  <2>1. UNCHANGED <<running, proc, runq, owed, work, workOwed>>
    BY <1>3 DEF Operator, RunJob, RunJobWithDeps, Reload, PauseQueue, Resume, Quit,
                Command, loopVars, childVars
  <2>2. UNCHANGED pc \/ Signalled
    BY <1>3 DEF Operator, RunJob, RunJobWithDeps, Reload, PauseQueue, Resume, Quit,
                sleepVars
  <2> QED
    BY <2>1, <2>2, SameRunning DEF Idle, Signalled
<1>4. CASE TimerFires \/ Killed \/ Start
  BY <1>4, SameRunning DEF TimerFires, Signalled, Killed, Start, jobVars, loopVars,
                           childVars, Idle
<1>5. CASE UNCHANGED vars
  BY <1>5, SameRunning DEF vars, jobVars, loopVars, childVars, sleepVars, Idle
<1>6. ASSUME NEW p \in Procs, ChildStep(p) \/ ReapOverrun(p) PROVE Idle
  <2>1. UNCHANGED <<running, runq, owed, work, workOwed>>
    BY <1>6 DEF ChildStep, ChildCheck, ChildLock, ChildExec, ChildLockExists, ChildEnds,
                Ends, ReapOverrun, jobVars, loopVars
  <2>2. pc' = "fill" => pc = "fill"
    BY <1>6 DEF ChildStep, ChildCheck, ChildLock, ChildExec, ChildLockExists, ChildEnds,
                Ends, ReapOverrun, sleepVars, Signalled
  <2>3. \A q \in running : proc'[q].job = proc[q].job
    <3>1. CASE ChildLockExists(p) \/ ChildEnds(p)
      <4>1. PICK r \in {"ok", "failed"} : Ends(p, r)
        BY <3>1 DEF ChildLockExists, ChildEnds
      <4> QED
        BY <4>1, <1>0 DEF Ends, Child
    <3>2. CASE ChildCheck(p) \/ ChildLock(p) \/ ChildExec(p) \/ ReapOverrun(p)
      BY <3>2, <1>0, ChildGoesOn
    <3> QED
      BY <1>6, <3>1, <3>2 DEF ChildStep
  <2> QED
    BY <2>1, <2>2, <2>3 DEF Idle, RunningJobs
<1> QED
  BY <1>1, <1>2, <1>3, <1>4, <1>5, <1>6 DEF Next, Socket

\* A job leaves the queue to run, or is done with when it leaves.
LEMMA ProcessedOwes ==
    ASSUME TypeOK, QueueInv, NEW j \in Jobs, NEW f \in BOOLEAN, Processed(j, f),
           workOwed' = workOwed, pc # "fill", pc' = pc
    PROVE  QueueInv'
<1> DEFINE launch == Kind[j] # "none" /\ LockFree(j)
           done == Kind[j] # "wait"
<1>0. /\ proc \in [Procs -> Child] /\ running \subseteq Procs
      /\ runq \in Seq(Jobs) /\ owed \in [Jobs -> SUBSET Jobs]
  BY DEF TypeOK, ChildType, JobType
<1>1. RunningJobs \subseteq RunningJobs' /\ (launch => j \in RunningJobs')
  <2>1. CASE launch
    <3>1. PICK p \in FreePids :
             /\ proc' = [proc EXCEPT ![p] =
                        [st |-> "forked", job |-> j, forced |-> f, root |-> FALSE]]
             /\ running' = running \cup {p}
      BY <2>1 DEF Processed
    <3>2. p \in Procs /\ p \notin running
      BY DEF FreePids
    <3>3. proc'[p].job = j /\ \A q \in running : proc'[q] = proc[q]
      BY <3>1, <3>2, <1>0
    <3> QED
      BY <3>1, <3>3 DEF RunningJobs
  <2>2. CASE ~launch
    BY <2>2, SameRunning DEF Processed
  <2> QED
    BY <2>1, <2>2
<1>2. ToSet(runq) \subseteq ToSet(runq') \cup {j}
  BY <1>0, RemoveFirstIsSeq DEF Processed
<1>3. ~launch /\ ~done => runq' = runq
  BY DEF Processed
<1>4. owed' = IF done /\ ~launch THEN Delivered(owed, j) ELSE owed
  BY DEF Processed
<1>5. ASSUME NEW k \in Jobs
      PROVE  owed'[k] \subseteq ToSet(runq') \cup RunningJobs' /\ owed'[k] \subseteq owed[k]
  <2>1. owed[k] \subseteq ToSet(runq) \cup RunningJobs
    BY DEF QueueInv, OwedInv
  <2>2. CASE done /\ ~launch
    <3>1. owed'[k] = owed[k] \ {j}
      BY <2>2, <1>4 DEF Delivered
    <3> QED
      BY <3>1, <2>1, <1>1, <1>2
  <2>3. CASE ~(done /\ ~launch)
    <3>1. owed'[k] = owed[k]
      BY <2>3, <1>4
    <3> QED
      BY <3>1, <2>1, <2>3, <1>1, <1>2, <1>3
  <2> QED
    BY <2>2, <2>3
<1>6. OwedInv' /\ OwedBefore'
  BY <1>5 DEF QueueInv, OwedInv, OwedBefore
<1>7. WorkOwed'
  BY DEF WorkOwed
<1> QED
  BY <1>6, <1>7 DEF QueueInv

LEMMA QueueStep == ASSUME TypeOK, QueueInv, [Next]_vars PROVE QueueInv'
<1>0. /\ proc \in [Procs -> Child] /\ running \subseteq Procs
      /\ runq \in Seq(Jobs) /\ work \in Seq(Jobs)
      /\ owed \in [Jobs -> SUBSET Jobs] /\ workOwed \in [Jobs -> SUBSET Jobs]
  BY DEF TypeOK, ChildType, JobType, LoopType
<1>1. CASE Gone
  BY <1>1 DEF Gone, QueueInv, OwedInv, WorkOwed, OwedBefore
<1>2. CASE RunForced
  <2>0. Processed(forced[idx], TRUE)
    BY <1>2 DEF RunForced
  <2>1. forced[idx] \in Jobs
    BY <1>2, ElementOfSeq DEF TypeOK, JobType, LoopType, RunForced
  <2>2. workOwed' = workOwed /\ pc # "fill" /\ pc' = pc
    BY <1>2 DEF RunForced, sleepVars
  <2> QED
    BY <2>0, <2>1, <2>2, ProcessedOwes
<1>3. CASE ProcessJob
  <2>0. Processed(Head(batch), FALSE)
    BY <1>3 DEF ProcessJob
  <2>1. Head(batch) \in Jobs
    BY <1>3, TailInSeq DEF TypeOK, LoopType, ProcessJob, InProcess
  <2>2. workOwed' = workOwed /\ pc # "fill" /\ pc' = pc
    BY <1>3 DEF ProcessJob, InProcess, sleepVars
  <2> QED
    BY <2>0, <2>1, <2>2, ProcessedOwes
<1>4. CASE FillStart
  <2>1. /\ UNCHANGED <<runq, owed, running, proc>> /\ work' = runq /\ workOwed' = owed
    BY <1>4 DEF FillStart, childVars
  <2>2. RunningJobs' = RunningJobs
    BY <2>1, SameRunning
  <2> QED
    BY <2>1, <2>2 DEF QueueInv, OwedInv, WorkOwed, OwedBefore
<1>5. CASE FillAdd
  <2>1. /\ UNCHANGED <<runq, owed, running, proc>> /\ pc = "fill" /\ pc' = "fill"
        /\ work' = Append(work, Top("main"))
        /\ workOwed' = [workOwed EXCEPT ![Top("main")] = Owes(Top("main"), work)]
    BY <1>5 DEF FillAdd, jobVars, childVars, sleepVars
  <2>2. RunningJobs' = RunningJobs
    BY <2>1, SameRunning
  <2>3. Top("main") \in Jobs
    BY <1>5, AddType DEF FillAdd, Threads
  <2>4. ToSet(work') = ToSet(work) \cup {Top("main")}
    BY <2>1, <2>3, <1>0, AppendedSet
  <2>5. WorkOwed'
    BY <2>1, <2>2, <2>3, <2>4, <1>0 DEF QueueInv, WorkOwed, Owes
  <2>6. OwedInv' /\ OwedBefore'
    BY <2>1, <2>2, <2>3, <1>0 DEF QueueInv, OwedInv, OwedBefore, Owes
  <2> QED
    BY <2>5, <2>6 DEF QueueInv
<1>6. CASE FillDone
  <2>1. /\ UNCHANGED <<running, proc>> /\ pc = "fill" /\ pc' = "count"
        /\ runq' = work /\ owed' = workOwed /\ workOwed' = [j \in Jobs |-> {}]
    BY <1>6 DEF FillDone, childVars
  <2>2. RunningJobs' = RunningJobs
    BY <2>1, SameRunning
  <2> QED
    BY <2>1, <2>2 DEF QueueInv, OwedInv, WorkOwed, OwedBefore
<1>7. CASE SocketAdd
  <2>1. /\ UNCHANGED <<work, workOwed, running, proc>> /\ (pc' = "fill" => pc = "fill")
        /\ runq' = Append(runq, Top("socket"))
        /\ owed' = [owed EXCEPT ![Top("socket")] = Owes(Top("socket"), runq)]
    BY <1>7 DEF SocketAdd, SignalAfterwards, Signalled, loopVars, childVars, sleepVars
  <2>2. RunningJobs' = RunningJobs
    BY <2>1, SameRunning
  <2>3. Top("socket") \in Jobs
    BY <1>7, AddType DEF SocketAdd, Threads
  <2>4. ToSet(runq') = ToSet(runq) \cup {Top("socket")}
    BY <2>1, <2>3, <1>0, AppendedSet
  <2>5. OwedInv'
    BY <2>1, <2>2, <2>3, <2>4, <1>0 DEF QueueInv, OwedInv, Owes
  <2>6. WorkOwed' /\ OwedBefore'
    BY <2>1, <2>2, <2>3, <1>0 DEF QueueInv, WorkOwed, OwedBefore, Owes
  <2> QED
    BY <2>5, <2>6 DEF QueueInv
<1>8. ASSUME NEW p \in Procs, Reap(p) PROVE QueueInv'
  <2> DEFINE j == proc[p].job
  <2>1. /\ UNCHANGED <<runq, work, workOwed>> /\ pc' # "fill"
        /\ \A q \in Procs : q # p => proc'[q] = proc[q]
    BY <1>8, <1>0 DEF Reap, sleepVars, Reaping
  <2>2. \/ /\ running' = running /\ owed' = owed
           /\ proc' = [proc EXCEPT ![p] = [@ EXCEPT !.st = "none"]]
        \/ running' = running \ {p} /\ owed' = Delivered(owed, j)
    BY <1>8 DEF Reap
  <2>3. CASE /\ running' = running /\ owed' = owed
             /\ proc' = [proc EXCEPT ![p] = [@ EXCEPT !.st = "none"]]
    <3>1. \A q \in running : proc'[q].job = proc[q].job
      BY <2>3, <1>0 DEF Child
    <3>2. RunningJobs' = RunningJobs
      BY <3>1, <2>3 DEF RunningJobs
    <3> QED
      BY <3>2, <2>1, <2>3 DEF QueueInv, OwedInv, WorkOwed, OwedBefore
  <2>4. CASE running' = running \ {p} /\ owed' = Delivered(owed, j)
    <3>1. RunningJobs \subseteq RunningJobs' \cup {j}
      BY <2>1, <2>4, <1>0 DEF RunningJobs
    <3>2. \A k \in Jobs : owed'[k] = owed[k] \ {j}
      BY <2>4 DEF Delivered
    <3> QED
      BY <3>1, <3>2, <2>1 DEF QueueInv, OwedInv, WorkOwed, OwedBefore
  <2> QED
    BY <2>2, <2>3, <2>4
<1> QED
  BY <1>1, <1>2, <1>3, <1>4, <1>5, <1>6, <1>7, <1>8, IdleStep, QueueEffects

LEMMA QueueInvariant == Spec => [](TypeOK /\ QueueInv)
<1>1. TypeOK /\ QueueInv /\ [Next]_vars => QueueInv'
  BY QueueStep
<1> QED
  BY TypeCorrect, InitQueue, <1>1, PTL DEF Spec

\* job_done, job_started, RUNJOB and the list that get_next_job_time puts in the place
\* of another: what a job waits for is never lost from the lists while it is waited for.
THEOREM OwedJobsKept == Spec => []OwedInv
BY QueueInvariant, PTL DEF QueueInv

\* process_queue starts a scheduled job only when everything that it has been waiting
\* for since it was queued is done, also if the list was replaced, a job was forced, or
\* the configuration changed in the meantime.
THEOREM PrerequisitesFirst == Spec => PrerequisitesDone
<1>1. ASSUME TypeOK, QueueInv, [Next]_vars,
             NEW p \in Procs, p \notin running, p \in running', ~proc'[p].forced
      PROVE  owed[proc'[p].job] = {}
  <2>1. PICK j \in Jobs, f \in BOOLEAN, q \in FreePids :
           /\ (RunForced /\ f = TRUE) \/ (ProcessJob /\ f = FALSE /\ j = Head(batch))
           /\ running' = running \cup {q}
           /\ proc' = [proc EXCEPT ![q] =
                      [st |-> "forked", job |-> j, forced |-> f, root |-> FALSE]]
    BY <1>1, RunningEffects
  <2>2. p = q /\ proc'[p] = [st |-> "forked", job |-> j, forced |-> f, root |-> FALSE]
    BY <1>1, <2>1 DEF TypeOK, ChildType
  <2>3. ProcessJob /\ j = Head(batch) /\ proc'[p].job = j
    BY <1>1, <2>1, <2>2
  <2>4. ~HasQueuedPrerequisite(j)
    BY <2>3 DEF ProcessJob, HeldBack
  <2>5. \A k \in Before[j] : k \notin ToSet(runq) /\ k \notin RunningJobs
    BY <2>4 DEF HasQueuedPrerequisite, Queued
  <2>6. owed[j] \subseteq Before[j] /\ owed[j] \subseteq ToSet(runq) \cup RunningJobs
    BY <1>1 DEF QueueInv, OwedInv, OwedBefore
  <2>7. owed[j] = {}
    BY <2>5, <2>6
  <2> QED
    BY <2>3, <2>7
<1>2. TypeOK /\ QueueInv /\ [Next]_vars =>
        [\A p \in Procs :
          (p \notin running /\ p \in running' /\ ~proc'[p].forced)
             => owed[proc'[p].job] = {}]_vars
  BY <1>1
<1> QED
  BY QueueInvariant, <1>2, PTL DEF Spec, PrerequisitesDone
=============================================================================
