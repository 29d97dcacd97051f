--------------------------- MODULE ChangesProofs ---------------------------
(* Proofs about Changes, for any writers, changes, readers' types and bounds.*)
EXTENDS Changes, TLAPS, WellFoundedInduction

-----------------------------------------------------------------------------
(* Types.                                                                    *)

LEMMA InitType == Init => TypeOK
BY ChangesAssumption
   DEF Init, TypeOK, LogType, WriterType, JobType, CounterType, ChangesAssumption

LEMMA TypeStep == TypeOK /\ [Next]_vars => TypeOK'
<1> SUFFICES ASSUME TypeOK, [Next]_vars PROVE TypeOK'
  OBVIOUS
<1>0. LogType /\ WriterType /\ JobType /\ CounterType
  BY DEF TypeOK
<1> USE ChangesAssumption, <1>0 DEF ChangesAssumption
<1>1. ASSUME NEW w \in Writers, NEW c \in Changes, LogChange(w, c)
      PROVE  TypeOK'
  <2>1. LogType'
    BY <1>1 DEF LogChange, LogType, logVars
  <2>2. WriterType'
    BY <1>1 DEF LogChange, WriterType, writerVars
  <2>3. JobType'
    BY <1>1 DEF LogChange, JobType, jobVars
  <2>4. CounterType'
    BY <1>1 DEF LogChange, CounterType
  <2> QED
    BY <2>1, <2>2, <2>3, <2>4 DEF TypeOK
<1>2. ASSUME NEW w \in Writers, WriteLog(w) PROVE TypeOK'
  <2>1. LogType'
    BY <1>2 DEF WriteLog, LogType, logVars, WriterType, Entries, Ids, IdsOf
  <2>2. WriterType'
    BY <1>2 DEF WriteLog, WriterType, writerVars, LogType, Entries, Ids
  <2>3. JobType'
    BY <1>2 DEF WriteLog, JobType, jobVars
  <2>4. CounterType'
    BY <1>2 DEF WriteLog, CounterType
  <2> QED
    BY <2>1, <2>2, <2>3, <2>4 DEF TypeOK
<1>3. ASSUME NEW w \in Writers, Commit(w) PROVE TypeOK'
  <2>1. LogType'
    <3>1. IdsOf(rows[w]) \subseteq Ids /\ rows[w] \subseteq Entries
      BY DEF WriterType, Entries, IdsOf
    <3>2. PICK m \in IdsOf(rows[w]) \union {high} : high' = m
      BY <1>3 DEF Commit
    <3>3. high' \in 0 .. MaxId
      BY <3>1, <3>2 DEF LogType, Ids
    <3>4. late' \subseteq Ids /\ log' \subseteq Entries /\ applied' \subseteq Changes
      BY <1>3, <3>1 DEF Commit, LogType, WriterType
    <3> QED
      BY <1>3, <3>3, <3>4 DEF Commit, LogType
  <2>2. WriterType'
    BY <1>3 DEF Commit, WriterType, writerVars
  <2>3. JobType'
    BY <1>3 DEF Commit, JobType, jobVars
  <2>4. CounterType'
    BY <1>3 DEF Commit, CounterType
  <2> QED
    BY <2>1, <2>2, <2>3, <2>4 DEF TypeOK
<1>4. ASSUME NEW w \in Writers, Rollback(w) PROVE TypeOK'
  <2>1. LogType'
    BY <1>4 DEF Rollback, LogType, logVars
  <2>2. WriterType'
    BY <1>4 DEF Rollback, WriterType, writerVars
  <2>3. JobType'
    BY <1>4 DEF Rollback, JobType, jobVars
  <2>4. CounterType'
    BY <1>4 DEF Rollback, CounterType
  <2> QED
    BY <2>1, <2>2, <2>3, <2>4 DEF TypeOK
<1>5. ASSUME NEW e \in log, RemoveLogEvent(e) PROVE TypeOK'
  <2>1. LogType'
    BY <1>5 DEF RemoveLogEvent, LogType, logVars
  <2>2. WriterType'
    BY <1>5 DEF RemoveLogEvent, WriterType, writerVars
  <2>3. JobType'
    BY <1>5 DEF RemoveLogEvent, JobType, jobVars
  <2>4. CounterType'
    BY <1>5 DEF RemoveLogEvent, CounterType
  <2> QED
    BY <2>1, <2>2, <2>3, <2>4 DEF TypeOK
<1>6. CASE GetEvents
  <2>1. LogType'
    BY <1>6 DEF GetEvents, LogType, logVars
  <2>2. WriterType'
    BY <1>6 DEF GetEvents, WriterType, writerVars
  <2>3. JobType'
    <3>1. prev' \subseteq Ranges /\ unread' = prev' /\ session' = "reading"
      BY <1>6 DEF GetEvents, JobType, Ranges
    <3>2. left' = {} /\ sent' = {} /\ confirmed' = {} /\ table' = table
      BY <1>6 DEF GetEvents, JobType
    <3> QED
      BY <3>1, <3>2 DEF JobType
  <2>4. CounterType'
    BY <1>6 DEF GetEvents, CounterType
  <2> QED
    BY <2>1, <2>2, <2>3, <2>4 DEF TypeOK
<1>7. ASSUME NEW r \in unread, ReadGap(r) PROVE TypeOK'
  <2>1. LogType'
    BY <1>7 DEF ReadGap, LogType, logVars
  <2>2. WriterType'
    BY <1>7 DEF ReadGap, WriterType, writerVars
  <2>3. JobType'
    <3>1. sent' \subseteq Ids /\ sent \subseteq sent'
      BY <1>7 DEF ReadGap, JobType, LogType, Entries
    <3>2. table' = table /\ prev' = prev /\ confirmed' = confirmed /\ unread' \subseteq prev
      BY <1>7 DEF ReadGap, JobType
    <3>3. session' = IF unread' = {} THEN "handling" ELSE "reading"
      BY <1>7 DEF ReadGap
    <3>4. left' = IF unread' = {} THEN sent' ELSE {}
      BY <1>7 DEF ReadGap
    <3>5. confirmed = {}
      BY <1>7 DEF ReadGap, JobType
    <3> QED
      BY <3>1, <3>2, <3>3, <3>4, <3>5 DEF JobType
  <2>4. CounterType'
    BY <1>7 DEF ReadGap, CounterType
  <2> QED
    BY <2>1, <2>2, <2>3, <2>4 DEF TypeOK
<1>8. ASSUME NEW i \in left, Handle(i) PROVE TypeOK'
  <2>1. LogType'
    BY <1>8 DEF Handle, LogType, logVars
  <2>2. WriterType'
    BY <1>8 DEF Handle, WriterType, writerVars
  <2>3. JobType'
    BY <1>8 DEF Handle, JobType, jobVars
  <2>4. CounterType'
    BY <1>8 DEF Handle, CounterType, JobType
  <2> QED
    BY <2>1, <2>2, <2>3, <2>4 DEF TypeOK
<1>9. ASSUME NEW i \in left, HandleFails(i) PROVE TypeOK'
  <2>1. LogType'
    BY <1>9 DEF HandleFails, LogType, logVars
  <2>2. WriterType'
    BY <1>9 DEF HandleFails, WriterType, writerVars
  <2>3. JobType'
    BY <1>9 DEF HandleFails, JobType, jobVars
  <2>4. CounterType'
    BY <1>9 DEF HandleFails, CounterType
  <2> QED
    BY <2>1, <2>2, <2>3, <2>4 DEF TypeOK
<1>10. CASE CommitConfirmations
  <2>1. LogType'
    BY <1>10 DEF CommitConfirmations, LogType, logVars
  <2>2. WriterType'
    BY <1>10 DEF CommitConfirmations, WriterType, writerVars
  <2>3. JobType'
    BY <1>10 DEF CommitConfirmations, UpdateRanges, NewRanges, InnerRanges, LastRange,
       JobType, jobVars
  <2>4. CounterType'
    BY <1>10 DEF CommitConfirmations, CounterType
  <2> QED
    BY <2>1, <2>2, <2>3, <2>4 DEF TypeOK
<1>11. CASE Finish
  <2>1. LogType'
    BY <1>11 DEF Finish, LogType, logVars
  <2>2. WriterType'
    BY <1>11 DEF Finish, WriterType, writerVars
  <2>3. JobType'
    BY <1>11 DEF Finish, UpdateRanges, NewRanges, InnerRanges, LastRange,
       IdleJob, JobType, jobVars
  <2>4. CounterType'
    BY <1>11 DEF Finish, CounterType
  <2> QED
    BY <2>1, <2>2, <2>3, <2>4 DEF TypeOK
<1>12. CASE JobDies
  <2>1. LogType'
    BY <1>12 DEF JobDies, LogType, logVars
  <2>2. WriterType'
    BY <1>12 DEF JobDies, WriterType, writerVars
  <2>3. JobType'
    BY <1>12 DEF JobDies, IdleJob, JobType, jobVars
  <2>4. CounterType'
    BY <1>12 DEF JobDies, CounterType
  <2> QED
    BY <2>1, <2>2, <2>3, <2>4 DEF TypeOK
<1>13. CASE UNCHANGED vars
  BY <1>13 DEF vars, TypeOK, LogType, WriterType, JobType, CounterType, logVars,
     writerVars, jobVars
<1>14. CASE WriterNext
  BY <1>14, <1>1, <1>2, <1>3, <1>4 DEF WriterNext
<1>15. CASE JobWorks
  BY <1>15, <1>6, <1>7, <1>8, <1>11 DEF JobWorks
<1> QED
  BY <1>5, <1>9, <1>10, <1>12, <1>13, <1>14, <1>15 DEF Next

\* Every variable keeps its type.
THEOREM TypeCorrect == Spec => []TypeOK
BY InitType, TypeStep, PTL DEF Spec

-----------------------------------------------------------------------------
(* Least and greatest elements.                                              *)

LEMMA HasLeast ==
    ASSUME NEW T, T \subseteq Nat, T # {}
    PROVE  \E x \in T : \A y \in T : x =< y
<1>1. PICK x \in T : \A y \in T : <<y, x>> \notin OpToRel(<, Nat)
  BY NatLessThanWellFounded, WFMin, Zenon
<1>2. \A y \in T : ~(y < x)
  BY <1>1 DEF OpToRel
<1> QED
  BY <1>2

LEMMA HasGreatest ==
    ASSUME NEW hi \in Int, NEW T, T \subseteq Int, \A x \in T : x =< hi, T # {}
    PROVE  \E x \in T : \A y \in T : y =< x
<1> DEFINE U == {hi - x : x \in T}
<1>1. U \subseteq Nat /\ U # {}
  <2>1. ASSUME NEW x \in T PROVE hi - x \in Nat
    OBVIOUS
  <2> QED
    BY <2>1
<1> HIDE DEF U
<1>2. PICK u \in U : \A v \in U : u =< v
  BY <1>1, HasLeast
<1>3. PICK x \in T : u = hi - x
  BY DEF U
<1>4. \A y \in T : hi - y \in U
  BY DEF U
<1> QED
  BY <1>2, <1>3, <1>4

-----------------------------------------------------------------------------
(* commit_confirmations.                                                     *)

\* The ranges of a key: in order, apart, not empty, and from before every id.
WellFormed(R) ==
    /\ \A r \in R : r.first =< r.last
    /\ \E r \in R : r.first = -1
    /\ \A r, n \in R : r.first = n.first => r = n
    /\ \A r, n \in R : n.first < r.first => n.last < r.first

\* What NewRanges works on.
LEMMA PointsFacts ==
    ASSUME NEW P, P \subseteq Ranges, WellFormed(P), NEW S, S \subseteq Ids
    PROVE  /\ S \union Ends(P) \subseteq -1 .. MaxId
           /\ -1 \in S \union Ends(P)
<1> USE ChangesAssumption DEF ChangesAssumption
<1>1. \A r \in P : /\ r.first \in -1 .. MaxId + 1 /\ r.last \in -1 .. MaxId
                   /\ r.first =< r.last
  BY DEF Ranges, WellFormed
<1>2. Ends(P) \subseteq -1 .. MaxId
  BY <1>1 DEF Ends
<1>3. -1 \in Ends(P)
  BY DEF Ends, WellFormed
<1>4. S \subseteq -1 .. MaxId
  BY DEF Ids
<1> QED
  BY <1>2, <1>3, <1>4

\* The shape of a range: it starts at -1 or behind an event y of X, and ends before
\* the next event of X, or at the last point.
LEMMA RangeShape ==
    ASSUME NEW points, points \subseteq -1 .. MaxId, NEW X, X \subseteq points,
           X \subseteq 1 .. MaxId,
           NEW r \in InnerRanges(points, X) \union LastRange(points, X)
    PROVE  /\ r.first \in Int /\ r.last \in Int
           /\ r.first =< r.last
           /\ r.first = -1 \/ r.first - 1 \in X
           /\ \A y \in X : y =< r.last => y < r.first
           /\ \E t \in points : r.last =< t
           /\ r.last + 1 \in X \/ IsLast(points, r.last)
<1> USE ChangesAssumption DEF ChangesAssumption
<1>1. r \in Ranges
  BY DEF InnerRanges, LastRange
<1>2. r.first \in Int /\ r.last \in Int
  BY <1>1 DEF Ranges
<1>3. CASE r \in InnerRanges(points, X)
  <2>1. r.last + 1 \in X /\ StartFor(X, r.last + 1, r.first)
    BY <1>3 DEF InnerRanges, BeginsGroup
  <2>2. PICK c \in points \ X : /\ c < r.last + 1
                                /\ \A p \in points : p < r.last + 1 => p =< c
    BY <1>3 DEF InnerRanges, BeginsGroup
  <2>3. c \in Int /\ -1 =< c /\ X \subseteq Int
    BY <2>2
  <2>4. r.first =< r.last
    <3>1. CASE r.first = -1
      BY <1>2, <2>2, <2>3, <3>1
    <3>2. ASSUME NEW y \in X, r.first = y + 1 PROVE r.first =< r.last
      <4>1. y =< r.last
        BY <1>2, <2>1, <2>3, <3>2 DEF StartFor
      <4>2. y =< c /\ y # c
        BY <1>2, <2>2, <2>3, <4>1
      <4> QED
        BY <1>2, <2>2, <2>3, <3>2, <4>2
    <3> QED
      BY <2>1, <3>1, <3>2 DEF StartFor
  <2>5. \A y \in X : y =< r.last => y < r.first
    BY <1>2, <2>1, <2>3 DEF StartFor
  <2>6. r.first = -1 \/ r.first - 1 \in X
    BY <2>1, <2>3 DEF StartFor
  <2> QED
    BY <1>2, <2>1, <2>4, <2>5, <2>6
<1>4. CASE r \in LastRange(points, X)
  <2>1. IsLast(points, r.last) /\ r.last \notin X /\ StartFor(X, r.last, r.first)
    BY <1>4 DEF LastRange
  <2>2. \A y \in X : y =< r.last => y < r.first
    <3>1. ASSUME NEW y \in X, y =< r.last PROVE y < r.first
      <4>1. y \in Int /\ y # r.last
        BY <2>1
      <4>2. y < r.last
        BY <1>2, <3>1, <4>1
      <4> QED
        BY <2>1, <4>2 DEF StartFor
    <3> QED
      BY <3>1
  <2>3. r.first = -1 \/ r.first - 1 \in X
    BY <2>1 DEF StartFor
  <2> QED
    BY <1>2, <2>1, <2>2, <2>3 DEF StartFor, IsLast
<1> QED
  BY <1>3, <1>4

\* The new ranges are ranges of a key again, and reach no further than the points.
LEMMA NewWellFormed ==
    ASSUME NEW P, P \subseteq Ranges, WellFormed(P), NEW S, S \subseteq Ids, NEW C
    PROVE  /\ WellFormed(NewRanges(P, S, C))
           /\ \A r \in NewRanges(P, S, C) : \E t \in S \union Ends(P) : r.last =< t
           /\ Covered(NewRanges(P, S, C)) \intersect (S \ (C \union Ends(P))) = {}
<1> DEFINE points == S \union Ends(P)
           X == S \ (C \union Ends(P))
           R == InnerRanges(points, X) \union LastRange(points, X)
<1>1. NewRanges(P, S, C) = R
  BY DEF NewRanges
<1>2. /\ points \subseteq -1 .. MaxId
      /\ -1 \in points
      /\ X \subseteq points
      /\ X \subseteq 1 .. MaxId
  <2>1. points \subseteq -1 .. MaxId /\ -1 \in points
    BY PointsFacts
  <2>2. X \subseteq points /\ X \subseteq 1 .. MaxId
    BY DEF Ids
  <2> QED
    BY <2>1, <2>2
<1> HIDE DEF points, X, R
<1>3. ASSUME NEW r \in R
      PROVE  /\ r.first \in Int /\ r.last \in Int
             /\ r.first =< r.last
             /\ r.first = -1 \/ r.first - 1 \in X
             /\ \A y \in X : y =< r.last => y < r.first
             /\ \E t \in points : r.last =< t
             /\ r.last + 1 \in X \/ IsLast(points, r.last)
  BY <1>2, <1>3, RangeShape DEF R
<1>4. X \subseteq Int /\ points \subseteq Int
  BY <1>2
<1>5. ASSUME NEW r \in R, NEW n \in R, r.first = n.first PROVE ~(r.last < n.last)
  <2> SUFFICES ASSUME r.last < n.last PROVE FALSE
    OBVIOUS
  <2>1. CASE r.last + 1 \in X
    BY <1>3, <1>5, <2>1
  <2>2. CASE IsLast(points, r.last)
    BY <1>3, <1>4, <2>2 DEF IsLast
  <2> QED
    BY <1>3, <2>1, <2>2
<1>6. ASSUME NEW r \in R, NEW n \in R, r.first = n.first PROVE r = n
  <2>1. r.last = n.last
    BY <1>3, <1>5, <1>6
  <2>2. r \in Ranges /\ n \in Ranges
    BY DEF R, InnerRanges, LastRange
  <2> QED
    BY <1>6, <2>1, <2>2 DEF Ranges
<1>7. ASSUME NEW r \in R, NEW n \in R, n.first < r.first PROVE n.last < r.first
  <2>1. n.first \in -1 .. MaxId + 1
    BY DEF R, InnerRanges, LastRange, Ranges
  <2>2. r.first - 1 \in X
    BY <1>3, <1>7, <2>1
  <2>3. r.first - 1 =< n.last => r.first - 1 < n.first
    BY <1>3, <2>2
  <2> QED
    BY <1>3, <1>7, <2>3
<1>8. \E r \in R : r.first = -1
  <2>1. CASE X = {}
    <3>1. PICK t \in points : \A p \in points : p =< t
      <4>1. MaxId \in Int /\ points # {} /\ \A p \in points : p =< MaxId
        BY <1>2, ChangesAssumption DEF ChangesAssumption
      <4> QED
        BY <1>4, <4>1, HasGreatest
    <3>2. [first |-> -1, last |-> t] \in Ranges
      BY <1>2, ChangesAssumption DEF Ranges, ChangesAssumption
    <3>3. [first |-> -1, last |-> t] \in LastRange(points, X)
      BY <1>2, <2>1, <3>1, <3>2 DEF LastRange, IsLast, StartFor
    <3> QED
      BY <3>3 DEF R
  <2>2. CASE X # {}
    <3>1. PICK x \in X : \A y \in X : x =< y
      <4>1. X \subseteq Nat
        BY <1>2
      <4> QED
        BY <2>2, <4>1, HasLeast
    <3> DEFINE before == {p \in points : p < x}
    <3>2. before # {} /\ before \subseteq Int /\ \A p \in before : p =< x
      <4>1. x \in 1 .. MaxId /\ -1 < x
        BY <1>2
      <4>2. -1 \in before
        BY <1>2, <4>1
      <4>3. ASSUME NEW p \in before PROVE p \in Int /\ p =< x
        BY <1>4, <4>1
      <4> QED
        BY <4>2, <4>3
    <3> HIDE DEF before
    <3>3. PICK c \in before : \A p \in before : p =< c
      BY <1>4, <3>2, HasGreatest
    <3>4. c \in points \ X /\ c < x /\ \A p \in points : p < x => p =< c
      BY <1>4, <3>1, <3>3 DEF before
    <3>5. x \in 1 .. MaxId
      BY <1>2
    <3>6. [first |-> -1, last |-> x - 1] \in Ranges
      BY <3>5, ChangesAssumption DEF Ranges, ChangesAssumption
    <3>7. BeginsGroup(points, X, (x - 1) + 1)
      BY <3>4, <3>5 DEF BeginsGroup
    <3>8. StartFor(X, (x - 1) + 1, -1)
      BY <1>4, <3>1, <3>5 DEF StartFor
    <3>9. [first |-> -1, last |-> x - 1] \in InnerRanges(points, X)
      BY <3>6, <3>7, <3>8 DEF InnerRanges
    <3> QED
      BY <3>9 DEF R
  <2> QED
    BY <2>1, <2>2
<1>9. WellFormed(R)
  BY <1>3, <1>6, <1>7, <1>8 DEF WellFormed
<1>10. Covered(R) \intersect X = {}
  <2> SUFFICES ASSUME NEW r \in R, NEW y \in r.first .. r.last, y \in X PROVE FALSE
    BY DEF Covered
  <2> QED
    BY <1>3, <1>4
<1> QED
  BY <1>1, <1>3, <1>9, <1>10 DEF points, X

-----------------------------------------------------------------------------
(* Writers.                                                                  *)

\* An id is in one row, and a row that is not committed yet is none that was seen.
IdsInv ==
    /\ high =< seq
    /\ \A e \in log : e.id =< high
    /\ \A w \in Writers : \A e \in rows[w] :
          e.id =< seq /\ e.id # high /\ \A f \in log : e.id # f.id
    /\ \A v, w \in Writers : \A e \in rows[v], f \in rows[w] :
          e.id = f.id => v = w /\ e = f

\* A transaction has its changes to itself.
DirtyInv ==
    /\ \A w \in Writers : dirty[w] \intersect applied = {}
    /\ \A v, w \in Writers : v # w => dirty[v] \intersect dirty[w] = {}

\* The changes d of a transaction, each with one row of R or one message of m.
MessagesOf(d, R, m) ==
    /\ \A e \in R : e.change \in d
    /\ \A e, f \in R : e.change = f.change => e = f
    /\ \A i \in 1 .. Len(m) : m[i] \in d /\ \A e \in R : e.change # m[i]
    /\ \A i, j \in 1 .. Len(m) : m[i] = m[j] => i = j
    /\ \A c \in d : (\E e \in R : e.change = c) \/ (\E i \in 1 .. Len(m) : m[i] = c)

MessageInv == \A w \in Writers : MessagesOf(dirty[w], rows[w], messages[w])

LEMMA AppendMessage ==
    ASSUME NEW d, NEW R, NEW m \in Seq(Changes), NEW c \in Changes,
           MessagesOf(d, R, m), c \notin d
    PROVE  MessagesOf(d \union {c}, R, Append(m, c))
<1> DEFINE n == Append(m, c)
<1>1. /\ Len(m) \in Nat /\ Len(n) = Len(m) + 1
      /\ n[Len(m) + 1] = c
      /\ \A i \in 1 .. Len(m) : n[i] = m[i]
  OBVIOUS
<1> HIDE DEF n
<1>2. \A i \in 1 .. Len(n) : i \in 1 .. Len(m) \/ i = Len(n)
  BY <1>1
<1>3. ASSUME NEW i \in 1 .. Len(n)
      PROVE  n[i] \in d \union {c} /\ \A e \in R : e.change # n[i]
  BY <1>1, <1>2 DEF MessagesOf
<1>4. ASSUME NEW i \in 1 .. Len(n), NEW j \in 1 .. Len(n), n[i] = n[j] PROVE i = j
  BY <1>1, <1>2, <1>4 DEF MessagesOf
<1>5. ASSUME NEW x \in d \union {c}
      PROVE  (\E e \in R : e.change = x) \/ (\E i \in 1 .. Len(n) : n[i] = x)
  <2>1. CASE x = c
    BY <1>1, <2>1
  <2>2. CASE x \in d
    <3>1. (\E e \in R : e.change = x) \/ (\E i \in 1 .. Len(m) : m[i] = x)
      BY <2>2 DEF MessagesOf
    <3>2. ASSUME NEW i \in 1 .. Len(m), m[i] = x PROVE i \in 1 .. Len(n) /\ n[i] = x
      BY <1>1, <3>2
    <3> QED
      BY <3>1, <3>2
  <2> QED
    BY <2>1, <2>2
<1>6. /\ \A e \in R : e.change \in d \union {c}
      /\ \A e, f \in R : e.change = f.change => e = f
  BY DEF MessagesOf
<1> QED
  BY <1>3, <1>4, <1>5, <1>6 DEF MessagesOf, n

LEMMA WriteMessage ==
    ASSUME NEW d, NEW R, NEW m \in Seq(Changes), m # <<>>, NEW id, MessagesOf(d, R, m)
    PROVE  MessagesOf(d, R \union {[id |-> id, change |-> Head(m)]}, Tail(m))
<1> DEFINE n == Tail(m)
           new == [id |-> id, change |-> Head(m)]
<1>1. /\ Len(m) \in Nat /\ Len(m) > 0 /\ Len(n) = Len(m) - 1
      /\ Head(m) = m[1]
      /\ \A i \in 1 .. Len(n) : n[i] = m[i + 1]
  OBVIOUS
<1>2. new.change = m[1]
  BY <1>1
<1> HIDE DEF n, new
<1>3. ASSUME NEW i \in 1 .. Len(n)
      PROVE  /\ i + 1 \in 1 .. Len(m) /\ n[i] = m[i + 1] /\ n[i] # m[1] /\ n[i] \in d
             /\ \A e \in R : e.change # n[i]
  <2>1. i + 1 \in 1 .. Len(m) /\ n[i] = m[i + 1] /\ 1 \in 1 .. Len(m) /\ i + 1 # 1
    BY <1>1
  <2> QED
    BY <2>1 DEF MessagesOf
<1>4. ASSUME NEW i \in 1 .. Len(n), NEW j \in 1 .. Len(n), n[i] = n[j] PROVE i = j
  <2>1. i + 1 = j + 1
    BY <1>3, <1>4 DEF MessagesOf
  <2> QED
    BY <2>1
<1>5. m[1] \in d /\ \A e \in R : e.change # m[1]
  BY <1>1 DEF MessagesOf
<1>6. \A e, f \in R \union {new} : e.change = f.change => e = f
  BY <1>2, <1>5 DEF MessagesOf
<1>7. ASSUME NEW x \in d
      PROVE  (\E e \in R \union {new} : e.change = x) \/ (\E i \in 1 .. Len(n) : n[i] = x)
  <2>1. (\E e \in R : e.change = x) \/ (\E i \in 1 .. Len(m) : m[i] = x)
    BY DEF MessagesOf
  <2>2. ASSUME NEW i \in 1 .. Len(m), m[i] = x, i # 1
        PROVE  \E j \in 1 .. Len(n) : n[j] = x
    <3>1. i - 1 \in 1 .. Len(n) /\ n[i - 1] = m[(i - 1) + 1] /\ (i - 1) + 1 = i
      BY <1>1, <2>2
    <3> QED
      BY <2>2, <3>1
  <2> QED
    BY <1>2, <2>1, <2>2
<1>8. \A e \in R \union {new} : e.change \in d
  BY <1>2, <1>5 DEF MessagesOf
<1> QED
  BY <1>2, <1>3, <1>4, <1>6, <1>7, <1>8 DEF MessagesOf, n, new

LEMMA IdsStep == TypeOK /\ IdsInv /\ [Next]_vars => IdsInv'
<1> SUFFICES ASSUME TypeOK, IdsInv, [Next]_vars PROVE IdsInv'
  OBVIOUS
<1>1. ASSUME NEW w \in Writers, NEW c \in Changes, LogChange(w, c)
      PROVE  IdsInv'
  BY <1>1 DEF LogChange, IdsInv, logVars
<1>2. ASSUME NEW w \in Writers, WriteLog(w) PROVE IdsInv'
  <2>1. seq' = seq + 1 /\ seq \in Nat /\ high' = high /\ log' = log
    BY <1>2 DEF WriteLog, TypeOK, LogType
  <2>2. ASSUME NEW v \in Writers, NEW e \in rows'[v]
        PROVE  e \in rows[v] \/ (v = w /\ e.id = seq + 1 /\ e.change = Head(messages[w]))
    BY <1>2, <2>2 DEF WriteLog, TypeOK, WriterType
  <2>3. ASSUME NEW v \in Writers, NEW e \in rows[v]
        PROVE  e \in Entries /\ e.id \in Int /\ e.id < seq + 1
    BY <2>1, <2>3 DEF IdsInv, TypeOK, WriterType, Entries, Ids
  <2>4. high \in Int /\ high < seq + 1 /\ \A f \in log : f.id \in Int /\ f.id < seq + 1
    BY <2>1 DEF IdsInv, TypeOK, LogType, Entries, Ids
  <2>5. ASSUME NEW v \in Writers, NEW e \in rows'[v]
        PROVE  e.id =< seq' /\ e.id # high' /\ \A f \in log' : e.id # f.id
    BY <2>1, <2>2, <2>3, <2>4, <2>5 DEF IdsInv
  <2>6. ASSUME NEW u \in Writers, NEW v \in Writers, NEW e \in rows'[u], NEW f \in rows'[v],
               e.id = f.id
        PROVE  u = v /\ e = f
    <3>1. CASE e \in rows[u] /\ f \in rows[v]
      BY <2>6, <3>1 DEF IdsInv
    <3>2. CASE e \notin rows[u] /\ f \notin rows[v]
      <4>1. rows'[w] = rows[w] \union {[id |-> seq + 1, change |-> Head(messages[w])]}
        BY <1>2 DEF WriteLog, TypeOK, WriterType
      <4> QED
        BY <2>2, <3>2, <4>1
    <3>3. CASE e \in rows[u] /\ f \notin rows[v]
      BY <2>1, <2>2, <2>3, <2>6, <3>3
    <3>4. CASE e \notin rows[u] /\ f \in rows[v]
      BY <2>1, <2>2, <2>3, <2>6, <3>4
    <3> QED
      BY <3>1, <3>2, <3>3, <3>4
  <2> QED
    BY <2>1, <2>4, <2>5, <2>6 DEF IdsInv
<1>3. ASSUME NEW w \in Writers, Commit(w) PROVE IdsInv'
  <2>1. seq' = seq /\ log' = log \union rows[w]
    BY <1>3 DEF Commit
  <2>2. PICK m \in IdsOf(rows[w]) \union {high} :
           high' = m /\ \A i \in IdsOf(rows[w]) \union {high} : i =< m
    BY <1>3 DEF Commit
  <2>3. rows'[w] = {} /\ \A v \in Writers \ {w} : rows'[v] = rows[v]
    BY <1>3 DEF Commit, TypeOK, WriterType
  <2>4. \A e \in rows[w] : e.id \in IdsOf(rows[w])
    BY DEF IdsOf
  <2>5. high' =< seq' /\ \A e \in log' : e.id =< high'
    <3>1. high' =< seq
      BY <2>2 DEF IdsOf, IdsInv
    <3>2. ASSUME NEW e \in log PROVE e.id =< high'
      <4>1. e.id =< high /\ high =< high' /\ e.id \in Int /\ high \in Int
        BY <2>2 DEF IdsInv, TypeOK, LogType, Entries, Ids
      <4>2. high' \in Int
        BY <2>2 DEF TypeOK, LogType, WriterType, IdsOf, Entries, Ids
      <4> QED
        BY <4>1, <4>2
    <3> QED
      BY <2>1, <2>2, <2>4, <3>1, <3>2
  <2>6. ASSUME NEW v \in Writers, NEW e \in rows'[v]
        PROVE  e.id =< seq' /\ e.id # high' /\ \A f \in log' : e.id # f.id
    <3>1. v # w /\ e \in rows[v]
      BY <2>3, <2>6
    <3>2. e.id =< seq /\ e.id # high /\ (\A f \in log : e.id # f.id)
      BY <3>1 DEF IdsInv
    <3>3. \A f \in rows[w] : e.id # f.id
      BY <3>1 DEF IdsInv
    <3>4. e.id # high'
      BY <2>2, <3>2, <3>3 DEF IdsOf
    <3> QED
      BY <2>1, <3>2, <3>3, <3>4
  <2>7. ASSUME NEW u \in Writers, NEW v \in Writers, NEW e \in rows'[u], NEW f \in rows'[v],
               e.id = f.id
        PROVE  u = v /\ e = f
    BY <2>3, <2>7 DEF IdsInv
  <2> QED
    BY <2>5, <2>6, <2>7 DEF IdsInv
<1>4. ASSUME NEW w \in Writers, Rollback(w) PROVE IdsInv'
  <2>1. seq' = seq /\ high' = high /\ log' = log
    BY <1>4 DEF Rollback, logVars
  <2>2. \A v \in Writers : rows'[v] \subseteq rows[v]
    BY <1>4 DEF Rollback, TypeOK, WriterType
  <2> QED
    BY <2>1, <2>2 DEF IdsInv
<1>5. ASSUME NEW e \in log, RemoveLogEvent(e) PROVE IdsInv'
  <2>1. seq' = seq /\ high' = high /\ log' \subseteq log /\ rows' = rows
    BY <1>5 DEF RemoveLogEvent, writerVars
  <2> QED
    BY <2>1 DEF IdsInv
<1>6. CASE GetEvents
  BY <1>6 DEF GetEvents, IdsInv, logVars, writerVars
<1>7. ASSUME NEW r \in unread, ReadGap(r) PROVE IdsInv'
  BY <1>7 DEF ReadGap, IdsInv, logVars, writerVars
<1>8. ASSUME NEW i \in left, Handle(i) PROVE IdsInv'
  BY <1>8 DEF Handle, IdsInv, logVars, writerVars
<1>9. ASSUME NEW i \in left, HandleFails(i) PROVE IdsInv'
  BY <1>9 DEF HandleFails, IdsInv, logVars, writerVars
<1>10. CASE CommitConfirmations
  BY <1>10 DEF CommitConfirmations, IdsInv, logVars, writerVars
<1>11. CASE Finish
  BY <1>11 DEF Finish, IdsInv, logVars, writerVars
<1>12. CASE JobDies
  BY <1>12 DEF JobDies, IdsInv, logVars, writerVars
<1>13. CASE UNCHANGED vars
  BY <1>13 DEF vars, IdsInv, logVars, writerVars
<1>14. CASE WriterNext
  BY <1>14, <1>1, <1>2, <1>3, <1>4 DEF WriterNext
<1>15. CASE JobWorks
  BY <1>15, <1>6, <1>7, <1>8, <1>11 DEF JobWorks
<1> QED
  BY <1>5, <1>9, <1>10, <1>12, <1>13, <1>14, <1>15 DEF Next

LEMMA DirtyStep == TypeOK /\ DirtyInv /\ [Next]_vars => DirtyInv'
<1> SUFFICES ASSUME TypeOK, DirtyInv, [Next]_vars PROVE DirtyInv'
  OBVIOUS
<1>1. ASSUME NEW w \in Writers, NEW c \in Changes, LogChange(w, c)
      PROVE  DirtyInv'
  <2>1. applied' = applied /\ dirty'[w] = dirty[w] \union {c}
    BY <1>1 DEF LogChange, logVars, TypeOK, WriterType
  <2>2. \A v \in Writers \ {w} : dirty'[v] = dirty[v]
    BY <1>1 DEF LogChange, TypeOK, WriterType
  <2>3. c \notin applied /\ \A v \in Writers : c \notin dirty[v]
    BY <1>1 DEF LogChange
  <2> QED
    BY <2>1, <2>2, <2>3 DEF DirtyInv
<1>2. ASSUME NEW w \in Writers, WriteLog(w) PROVE DirtyInv'
  BY <1>2 DEF WriteLog, DirtyInv
<1>3. ASSUME NEW w \in Writers, Commit(w) PROVE DirtyInv'
  <2>1. applied' = applied \union dirty[w] /\ dirty'[w] = {}
    BY <1>3 DEF Commit, TypeOK, WriterType
  <2>2. \A v \in Writers \ {w} : dirty'[v] = dirty[v]
    BY <1>3 DEF Commit, TypeOK, WriterType
  <2> QED
    BY <2>1, <2>2 DEF DirtyInv
<1>4. ASSUME NEW w \in Writers, Rollback(w) PROVE DirtyInv'
  <2>1. applied' = applied /\ \A v \in Writers : dirty'[v] \subseteq dirty[v]
    BY <1>4 DEF Rollback, logVars, TypeOK, WriterType
  <2> QED
    BY <2>1 DEF DirtyInv
<1>5. ASSUME NEW e \in log, RemoveLogEvent(e) PROVE DirtyInv'
  BY <1>5 DEF RemoveLogEvent, DirtyInv, writerVars
<1>6. CASE GetEvents
  BY <1>6 DEF GetEvents, DirtyInv, logVars, writerVars
<1>7. ASSUME NEW r \in unread, ReadGap(r) PROVE DirtyInv'
  BY <1>7 DEF ReadGap, DirtyInv, logVars, writerVars
<1>8. ASSUME NEW i \in left, Handle(i) PROVE DirtyInv'
  BY <1>8 DEF Handle, DirtyInv, logVars, writerVars
<1>9. ASSUME NEW i \in left, HandleFails(i) PROVE DirtyInv'
  BY <1>9 DEF HandleFails, DirtyInv, logVars, writerVars
<1>10. CASE CommitConfirmations
  BY <1>10 DEF CommitConfirmations, DirtyInv, logVars, writerVars
<1>11. CASE Finish
  BY <1>11 DEF Finish, DirtyInv, logVars, writerVars
<1>12. CASE JobDies
  BY <1>12 DEF JobDies, DirtyInv, logVars, writerVars
<1>13. CASE UNCHANGED vars
  BY <1>13 DEF vars, DirtyInv, logVars, writerVars
<1>14. CASE WriterNext
  BY <1>14, <1>1, <1>2, <1>3, <1>4 DEF WriterNext
<1>15. CASE JobWorks
  BY <1>15, <1>6, <1>7, <1>8, <1>11 DEF JobWorks
<1> QED
  BY <1>5, <1>9, <1>10, <1>12, <1>13, <1>14, <1>15 DEF Next

LEMMA MessageStep == TypeOK /\ MessageInv /\ [Next]_vars => MessageInv'
<1> SUFFICES ASSUME TypeOK, MessageInv, [Next]_vars PROVE MessageInv'
  OBVIOUS
<1>1. ASSUME NEW w \in Writers, NEW c \in Changes, LogChange(w, c)
      PROVE  MessageInv'
  <2>1. /\ dirty'[w] = dirty[w] \union {c}
        /\ rows'[w] = rows[w] /\ rows[w] = {}
        /\ messages'[w] = Append(messages[w], c)
        /\ c \notin dirty[w]
    BY <1>1 DEF LogChange, TypeOK, WriterType
  <2>2. ASSUME NEW v \in Writers, v # w
        PROVE  dirty'[v] = dirty[v] /\ rows'[v] = rows[v] /\ messages'[v] = messages[v]
    BY <1>1, <2>2 DEF LogChange, TypeOK, WriterType
  <2>3. messages[w] \in Seq(Changes) /\ MessagesOf(dirty[w], rows[w], messages[w])
    BY DEF TypeOK, WriterType, MessageInv
  <2>4. ASSUME NEW v \in Writers PROVE MessagesOf(dirty'[v], rows'[v], messages'[v])
    <3>1. CASE v = w
      <4>1. PICK d, R, m : d = dirty[w] /\ R = rows[w] /\ m = messages[w]
        OBVIOUS
      <4>2. MessagesOf(d \union {c}, R, Append(m, c))
        BY <2>1, <2>3, <4>1, AppendMessage
      <4> QED
        BY <2>1, <3>1, <4>1, <4>2
    <3>2. CASE v # w
      BY <2>2, <3>2 DEF MessageInv
    <3> QED
      BY <3>1, <3>2
  <2> QED
    BY <2>4 DEF MessageInv
<1>2. ASSUME NEW w \in Writers, WriteLog(w) PROVE MessageInv'
  <2>1. /\ dirty'[w] = dirty[w]
        /\ rows'[w] = rows[w] \union {[id |-> seq + 1, change |-> Head(messages[w])]}
        /\ messages'[w] = Tail(messages[w])
        /\ messages[w] # <<>>
    BY <1>2 DEF WriteLog, TypeOK, WriterType
  <2>2. ASSUME NEW v \in Writers, v # w
        PROVE  dirty'[v] = dirty[v] /\ rows'[v] = rows[v] /\ messages'[v] = messages[v]
    BY <1>2, <2>2 DEF WriteLog, TypeOK, WriterType
  <2>3. messages[w] \in Seq(Changes) /\ MessagesOf(dirty[w], rows[w], messages[w])
    BY DEF TypeOK, WriterType, MessageInv
  <2>4. ASSUME NEW v \in Writers PROVE MessagesOf(dirty'[v], rows'[v], messages'[v])
    <3>1. CASE v = w
      <4>1. PICK d, R, m, n : d = dirty[w] /\ R = rows[w] /\ m = messages[w] /\ n = seq + 1
        OBVIOUS
      <4>2. MessagesOf(d, R \union {[id |-> n, change |-> Head(m)]}, Tail(m))
        BY <2>1, <2>3, <4>1, WriteMessage
      <4> QED
        BY <2>1, <3>1, <4>1, <4>2
    <3>2. CASE v # w
      BY <2>2, <3>2 DEF MessageInv
    <3> QED
      BY <3>1, <3>2
  <2> QED
    BY <2>4 DEF MessageInv
<1>3. ASSUME NEW w \in Writers, Commit(w) PROVE MessageInv'
  <2>1. dirty'[w] = {} /\ rows'[w] = {} /\ messages'[w] = <<>>
    BY <1>3 DEF Commit, TypeOK, WriterType
  <2>2. ASSUME NEW v \in Writers, v # w
        PROVE  dirty'[v] = dirty[v] /\ rows'[v] = rows[v] /\ messages'[v] = messages[v]
    BY <1>3, <2>2 DEF Commit, TypeOK, WriterType
  <2>3. ASSUME NEW v \in Writers PROVE MessagesOf(dirty'[v], rows'[v], messages'[v])
    <3>1. CASE v = w
      BY <2>1, <3>1, Len(<<>>) = 0 DEF MessagesOf
    <3>2. CASE v # w
      BY <2>2, <3>2 DEF MessageInv
    <3> QED
      BY <3>1, <3>2
  <2> QED
    BY <2>3 DEF MessageInv
<1>4. ASSUME NEW w \in Writers, Rollback(w) PROVE MessageInv'
  <2>1. dirty'[w] = {} /\ rows'[w] = {} /\ messages'[w] = <<>>
    BY <1>4 DEF Rollback, TypeOK, WriterType
  <2>2. ASSUME NEW v \in Writers, v # w
        PROVE  dirty'[v] = dirty[v] /\ rows'[v] = rows[v] /\ messages'[v] = messages[v]
    BY <1>4, <2>2 DEF Rollback, TypeOK, WriterType
  <2>3. ASSUME NEW v \in Writers PROVE MessagesOf(dirty'[v], rows'[v], messages'[v])
    <3>1. CASE v = w
      BY <2>1, <3>1, Len(<<>>) = 0 DEF MessagesOf
    <3>2. CASE v # w
      BY <2>2, <3>2 DEF MessageInv
    <3> QED
      BY <3>1, <3>2
  <2> QED
    BY <2>3 DEF MessageInv
<1>5. ASSUME NEW e \in log, RemoveLogEvent(e) PROVE MessageInv'
  BY <1>5 DEF RemoveLogEvent, MessageInv, writerVars
<1>6. CASE GetEvents
  BY <1>6 DEF GetEvents, MessageInv, writerVars
<1>7. ASSUME NEW r \in unread, ReadGap(r) PROVE MessageInv'
  BY <1>7 DEF ReadGap, MessageInv, writerVars
<1>8. ASSUME NEW i \in left, Handle(i) PROVE MessageInv'
  BY <1>8 DEF Handle, MessageInv, writerVars
<1>9. ASSUME NEW i \in left, HandleFails(i) PROVE MessageInv'
  BY <1>9 DEF HandleFails, MessageInv, writerVars
<1>10. CASE CommitConfirmations
  BY <1>10 DEF CommitConfirmations, MessageInv, writerVars
<1>11. CASE Finish
  BY <1>11 DEF Finish, MessageInv, writerVars
<1>12. CASE JobDies
  BY <1>12 DEF JobDies, MessageInv, writerVars
<1>13. CASE UNCHANGED vars
  BY <1>13 DEF vars, MessageInv, writerVars
<1>14. CASE WriterNext
  BY <1>14, <1>1, <1>2, <1>3, <1>4 DEF WriterNext
<1>15. CASE JobWorks
  BY <1>15, <1>6, <1>7, <1>8, <1>11 DEF JobWorks
<1> QED
  BY <1>5, <1>9, <1>10, <1>12, <1>13, <1>14, <1>15 DEF Next

LEMMA EntriesStep ==
    TypeOK /\ IdsInv /\ DirtyInv /\ MessageInv /\ EntriesMatchChanges /\ [Next]_vars
        => EntriesMatchChanges'
<1> SUFFICES ASSUME TypeOK, IdsInv, DirtyInv, MessageInv, EntriesMatchChanges,
                    [Next]_vars
             PROVE  EntriesMatchChanges'
  OBVIOUS
<1>1. ASSUME NEW w \in Writers, NEW c \in Changes, LogChange(w, c)
      PROVE  EntriesMatchChanges'
  BY <1>1 DEF LogChange, EntriesMatchChanges, logVars
<1>2. ASSUME NEW w \in Writers, WriteLog(w) PROVE EntriesMatchChanges'
  BY <1>2 DEF WriteLog, EntriesMatchChanges
<1>3. ASSUME NEW w \in Writers, Commit(w) PROVE EntriesMatchChanges'
  <2>1. log' = log \union rows[w] /\ applied' = applied \union dirty[w] /\ ops' = ops
    BY <1>3 DEF Commit
  <2>2. messages[w] = <<>>
    BY <1>3 DEF Commit
  <2>3. MessagesOf(dirty[w], rows[w], messages[w])
    BY DEF MessageInv
  <2>4. \A e \in rows[w] : e.change \in dirty[w]
    BY <2>3 DEF MessagesOf
  <2>5. \A c \in dirty[w] : \E e \in rows[w] : e.change = c
    BY <2>2, <2>3, Len(<<>>) = 0 DEF MessagesOf
  <2>6. \A e \in log : e.change \in applied
    BY DEF EntriesMatchChanges
  <2>7. ASSUME NEW e \in log', NEW f \in log', e.change = f.change \/ e.id = f.id
        PROVE  e = f
    <3>1. CASE e \in log /\ f \in log
      BY <2>7, <3>1 DEF EntriesMatchChanges
    <3>2. CASE e \in rows[w] /\ f \in rows[w]
      BY <2>3, <2>7, <3>2 DEF MessagesOf, IdsInv
    <3>3. CASE e \in log /\ f \in rows[w]
      BY <2>4, <2>6, <2>7, <3>3 DEF IdsInv, DirtyInv
    <3>4. CASE e \in rows[w] /\ f \in log
      BY <2>4, <2>6, <2>7, <3>4 DEF IdsInv, DirtyInv
    <3> QED
      BY <2>1, <3>1, <3>2, <3>3, <3>4
  <2>8. ops' = 0 => \A c \in applied' : \E e \in log' : e.change = c
    BY <2>1, <2>5 DEF EntriesMatchChanges
  <2>9. \A e \in log' : e.change \in applied'
    BY <2>1, <2>4, <2>6
  <2> QED
    BY <2>7, <2>8, <2>9 DEF EntriesMatchChanges
<1>4. ASSUME NEW w \in Writers, Rollback(w) PROVE EntriesMatchChanges'
  BY <1>4 DEF Rollback, EntriesMatchChanges, logVars
<1>5. ASSUME NEW e \in log, RemoveLogEvent(e) PROVE EntriesMatchChanges'
  <2>1. log' \subseteq log /\ applied' = applied /\ ops' = ops + 1 /\ ops \in Nat
    BY <1>5 DEF RemoveLogEvent, TypeOK, CounterType
  <2> QED
    BY <2>1 DEF EntriesMatchChanges
<1>6. CASE GetEvents
  BY <1>6 DEF GetEvents, EntriesMatchChanges, logVars
<1>7. ASSUME NEW r \in unread, ReadGap(r) PROVE EntriesMatchChanges'
  BY <1>7 DEF ReadGap, EntriesMatchChanges, logVars
<1>8. ASSUME NEW i \in left, Handle(i) PROVE EntriesMatchChanges'
  BY <1>8 DEF Handle, EntriesMatchChanges, logVars
<1>9. ASSUME NEW i \in left, HandleFails(i) PROVE EntriesMatchChanges'
  BY <1>9 DEF HandleFails, EntriesMatchChanges, logVars
<1>10. CASE CommitConfirmations
  BY <1>10 DEF CommitConfirmations, EntriesMatchChanges, logVars
<1>11. CASE Finish
  BY <1>11 DEF Finish, EntriesMatchChanges, logVars
<1>12. CASE JobDies
  BY <1>12 DEF JobDies, EntriesMatchChanges, logVars
<1>13. CASE UNCHANGED vars
  BY <1>13 DEF vars, EntriesMatchChanges, logVars
<1>14. CASE WriterNext
  BY <1>14, <1>1, <1>2, <1>3, <1>4 DEF WriterNext
<1>15. CASE JobWorks
  BY <1>15, <1>6, <1>7, <1>8, <1>11 DEF JobWorks
<1> QED
  BY <1>5, <1>9, <1>10, <1>12, <1>13, <1>14, <1>15 DEF Next

LEMMA WritersCorrect == Spec => [](TypeOK /\ IdsInv /\ EntriesMatchChanges)
<1> DEFINE Inv == TypeOK /\ IdsInv /\ DirtyInv /\ MessageInv /\ EntriesMatchChanges
<1>1. Init => IdsInv /\ DirtyInv /\ EntriesMatchChanges
  BY DEF Init, IdsInv, DirtyInv, EntriesMatchChanges
<1>2. Init => MessageInv
  BY Len(<<>>) = 0 DEF Init, MessageInv, MessagesOf
<1>3. Inv /\ [Next]_vars => Inv'
  BY TypeStep, IdsStep, DirtyStep, MessageStep, EntriesStep
<1> QED
  BY <1>1, <1>2, <1>3, InitType, PTL DEF Spec

\* CLDatabase: however transactions end, change_log has one entry for each change
\* that is committed, but for those that were removed, and none for another.
THEOREM EntriesCorrect == Spec => []EntriesMatchChanges
BY WritersCorrect, PTL

-----------------------------------------------------------------------------
(* The job.                                                                  *)

\* An entry that get_events has to return some time: it was committed in order.
Owed(e) == e.change \in Watched /\ e.id \notin late

\* The ranges are well formed, and reach no further than what has been visible.
RangeInv ==
    /\ table = {} \/ WellFormed(table)
    /\ \A r \in table : r.last =< high
    /\ session # "idle" => WellFormed(prev) /\ \A r \in prev : r.last =< high
    /\ \A i \in sent : i =< high

HandledInv ==
    /\ CoveredIsHandled
    /\ session # "idle" =>
          \A e \in log : Owed(e) /\ e.id \in Covered(prev) => e.id \in handled
    /\ confirmed \subseteq handled

\* get_events has looked behind the ranges before those unread: it has sent every
\* entry there, up to the last point, that no range covers; and no other.
ReadInv ==
    session # "idle" =>
        /\ session = "handling" => unread = {}
        /\ \A r \in prev \ unread, n \in unread : r.first < n.first
        /\ \A e \in log :
              /\ Owed(e)
              /\ \A n \in unread : e.id < n.first
              /\ \E x \in sent \union Ends(prev) : e.id =< x
              => e.id \in sent \union Covered(prev)
        /\ sent \intersect Covered(prev) = {}
        /\ session = "reading" => Covered(table) \subseteq Covered(prev)
        /\ session = "handling" => left \intersect Covered(table) = {}

JobInv == RangeInv /\ HandledInv /\ ReadInv

LEMMA CoveredBound ==
    ASSUME NEW R, R \subseteq Ranges, NEW h \in Int, \A r \in R : r.last =< h,
           NEW i \in Covered(R)
    PROVE  i =< h
<1>1. PICK r \in R : i \in r.first .. r.last
  BY DEF Covered
<1>2. r.first \in Int /\ r.last \in Int
  BY DEF Ranges
<1> QED
  BY <1>1, <1>2

LEMMA EndsFacts ==
    ASSUME NEW R, R \subseteq Ranges, WellFormed(R), NEW x \in Ends(R)
    PROVE  /\ x \in Int
           /\ x \in Covered(R)
           /\ \A h \in Int : (\A r \in R : r.last =< h) => x =< h
<1>1. PICK r \in R : x = r.first \/ x = r.last
  BY DEF Ends
<1>2. r.first \in Int /\ r.last \in Int /\ r.first =< r.last
  BY DEF Ranges, WellFormed
<1>3. x \in r.first .. r.last
  BY <1>1, <1>2
<1>4. x \in Covered(R)
  BY <1>3 DEF Covered
<1> QED
  BY <1>2, <1>3, <1>4

\* What a commit makes visible is later than anything before it, or late.
LEMMA CommitFacts ==
    ASSUME TypeOK, IdsInv, NEW w \in Writers, Commit(w)
    PROVE  /\ high =< high' /\ high' \in Int
           /\ \A e \in log' : Owed(e)' => (e \in log /\ Owed(e))
                                          \/ (e.id \in Int /\ e.id > high)
<1>1. PICK m \in IdsOf(rows[w]) \union {high} :
         high' = m /\ \A i \in IdsOf(rows[w]) \union {high} : i =< m
  BY DEF Commit
<1>2. \A e \in rows[w] : e.id \in Int /\ e.id # high /\ e.id \in IdsOf(rows[w])
  BY DEF TypeOK, WriterType, Entries, Ids, IdsInv, IdsOf
<1>3. high \in Int
  BY DEF TypeOK, LogType
<1>4. high =< high' /\ high' \in Int
  BY <1>1, <1>2, <1>3 DEF IdsOf
<1>5. ASSUME NEW e \in log', Owed(e)'
      PROVE  (e \in log /\ Owed(e)) \/ (e.id \in Int /\ e.id > high)
  <2>1. CASE e \in log
    BY <1>5, <2>1 DEF Owed, Commit
  <2>2. CASE e \in rows[w]
    <3>1. ~(e.id < high)
      BY <1>2, <1>5, <2>2 DEF Owed, Commit
    <3> QED
      BY <1>2, <1>3, <2>2, <3>1
  <2> QED
    BY <1>5, <2>1, <2>2 DEF Commit
<1> QED
  BY <1>4, <1>5

\* commit_confirmations covers nothing that is not handled, and no event in hand.
LEMMA UpdateFacts ==
    ASSUME TypeOK, JobInv, session = "handling", UpdateRanges
    PROVE  /\ table' = {} \/ WellFormed(table')
           /\ \A r \in table' : r.last =< high
           /\ \A e \in log : Owed(e) /\ e.id \in Covered(table') => e.id \in handled
           /\ left \intersect Covered(table') = {}
<1>1. CASE table' = table
  BY <1>1 DEF JobInv, RangeInv, HandledInv, CoveredIsHandled, ReadInv, Owed
<1>2. CASE table' = NewRanges(prev, sent, confirmed)
  <2>1. prev \subseteq Ranges /\ WellFormed(prev) /\ sent \subseteq Ids
    BY DEF TypeOK, JobType, JobInv, RangeInv
  <2>2. /\ WellFormed(table')
        /\ \A r \in table' : \E t \in sent \union Ends(prev) : r.last =< t
        /\ Covered(table') \intersect (sent \ (confirmed \union Ends(prev))) = {}
    BY <1>2, <2>1, NewWellFormed
  <2>3. \A r \in table' : r.first \in Int /\ r.last \in Int
    BY <1>2 DEF NewRanges, InnerRanges, LastRange, Ranges
  <2>4. \A x \in sent \union Ends(prev) : x \in Int /\ x =< high
    BY <2>1, EndsFacts DEF TypeOK, LogType, JobInv, RangeInv, Ids
  <2>5. high \in Int
    BY DEF TypeOK, LogType
  <2>6. \A r \in table' : r.last =< high
    BY <2>2, <2>3, <2>4, <2>5
  <2>7. ASSUME NEW e \in log, Owed(e), e.id \in Covered(table') PROVE e.id \in handled
    <3>1. PICK r \in table' : e.id \in r.first .. r.last
      BY <2>7 DEF Covered
    <3>2. PICK t \in sent \union Ends(prev) : r.last =< t
      BY <2>2
    <3>3. e.id =< t
      BY <2>3, <2>4, <3>1, <3>2
    <3>4. e.id \in sent \union Covered(prev)
      BY <2>7, <3>2, <3>3 DEF JobInv, ReadInv
    <3>5. CASE e.id \in Covered(prev)
      BY <2>7, <3>5 DEF JobInv, HandledInv
    <3>6. CASE e.id \in sent /\ e.id \notin Covered(prev)
      <4>1. e.id \notin Ends(prev)
        BY <2>1, <3>6, EndsFacts
      <4>2. e.id \in confirmed
        BY <2>2, <2>7, <3>6, <4>1
      <4> QED
        BY <4>2 DEF JobInv, HandledInv
    <3> QED
      BY <3>4, <3>5, <3>6
  <2>8. ASSUME NEW i \in left PROVE i \notin Covered(table')
    <3>1. i \in sent \ confirmed
      BY DEF TypeOK, JobType
    <3>2. i \notin Ends(prev)
      BY <2>1, <3>1, EndsFacts DEF JobInv, ReadInv
    <3> QED
      BY <2>2, <3>1, <3>2
  <2> QED
    BY <2>2, <2>6, <2>7, <2>8
<1> QED
  BY <1>1, <1>2 DEF UpdateRanges

LEMMA JobStep == TypeOK /\ IdsInv /\ JobInv /\ [Next]_vars => JobInv'
<1> SUFFICES ASSUME TypeOK, IdsInv, JobInv, [Next]_vars PROVE JobInv'
  OBVIOUS
<1>0. RangeInv /\ HandledInv /\ ReadInv
  BY DEF JobInv
<1> USE <1>0
<1>1. ASSUME NEW w \in Writers, NEW c \in Changes, LogChange(w, c)
      PROVE  JobInv'
  <2>1. /\ log' = log /\ late' = late /\ high' = high /\ table' = table
        /\ handled' = handled /\ UNCHANGED jobVars
    BY <1>1 DEF LogChange, logVars
  <2> QED
    BY <2>1 DEF jobVars, JobInv, RangeInv, HandledInv, CoveredIsHandled, ReadInv, Owed
<1>2. ASSUME NEW w \in Writers, WriteLog(w) PROVE JobInv'
  <2>1. /\ log' = log /\ late' = late /\ high' = high /\ table' = table
        /\ handled' = handled /\ UNCHANGED jobVars
    BY <1>2 DEF WriteLog, logVars
  <2> QED
    BY <2>1 DEF jobVars, JobInv, RangeInv, HandledInv, CoveredIsHandled, ReadInv, Owed
<1>3. ASSUME NEW w \in Writers, Commit(w) PROVE JobInv'
  <2>1. table' = table /\ handled' = handled /\ UNCHANGED jobVars
    BY <1>3 DEF Commit
  <2>2. high =< high' /\ high' \in Int
    BY <1>3, CommitFacts
  <2>3. ASSUME NEW e \in log', Owed(e)'
        PROVE  (e \in log /\ Owed(e)) \/ (e.id \in Int /\ e.id > high)
    BY <1>3, <2>3, CommitFacts
  <2>4. RangeInv'
    <3>1. \A r \in table : r.last =< high'
      BY <2>2 DEF RangeInv, TypeOK, JobType, LogType, Ranges
    <3>2. session # "idle" => \A r \in prev : r.last =< high'
      BY <2>2 DEF RangeInv, TypeOK, JobType, LogType, Ranges
    <3>3. \A i \in sent : i =< high'
      BY <2>2 DEF RangeInv, TypeOK, JobType, LogType, Ids
    <3> QED
      BY <2>1, <3>1, <3>2, <3>3 DEF RangeInv, jobVars
  <2>5. HandledInv'
    <3>1. ASSUME NEW e \in log', Owed(e)', e.id \in Covered(table) PROVE e.id \in handled
      <4>1. e.id =< high
        BY <3>1, CoveredBound DEF RangeInv, TypeOK, JobType, LogType
      <4> QED
        BY <2>3, <3>1, <4>1 DEF HandledInv, CoveredIsHandled, Owed, TypeOK, LogType
    <3>2. ASSUME session # "idle", NEW e \in log', Owed(e)', e.id \in Covered(prev)
          PROVE  e.id \in handled
      <4>1. e.id =< high
        BY <3>2, CoveredBound DEF RangeInv, TypeOK, JobType, LogType
      <4> QED
        BY <2>3, <3>2, <4>1 DEF HandledInv, TypeOK, LogType
    <3> QED
      BY <2>1, <3>1, <3>2 DEF HandledInv, CoveredIsHandled, Owed, jobVars
  <2>6. ReadInv'
    <3>1. ASSUME session # "idle", NEW e \in log', Owed(e)',
                 \A m \in unread : e.id < m.first,
                 NEW x \in sent \union Ends(prev), e.id =< x
          PROVE  e.id \in sent \union Covered(prev)
      <4>1. x \in Int /\ x =< high /\ high \in Int
        BY <3>1, EndsFacts DEF RangeInv, TypeOK, JobType, LogType, Ids
      <4>2. e \in log /\ Owed(e)
        BY <2>3, <3>1, <4>1
      <4> QED
        BY <3>1, <4>2 DEF ReadInv
    <3> QED
      BY <2>1, <3>1 DEF ReadInv, jobVars
  <2> QED
    BY <2>4, <2>5, <2>6 DEF JobInv
<1>4. ASSUME NEW w \in Writers, Rollback(w) PROVE JobInv'
  <2>1. /\ log' = log /\ late' = late /\ high' = high /\ table' = table
        /\ handled' = handled /\ UNCHANGED jobVars
    BY <1>4 DEF Rollback, logVars
  <2> QED
    BY <2>1 DEF jobVars, JobInv, RangeInv, HandledInv, CoveredIsHandled, ReadInv, Owed
<1>5. ASSUME NEW e \in log, RemoveLogEvent(e) PROVE JobInv'
  <2>1. /\ log' \subseteq log /\ late' = late /\ high' = high /\ table' = table
        /\ handled' = handled /\ UNCHANGED jobVars
    BY <1>5 DEF RemoveLogEvent
  <2> QED
    BY <2>1 DEF jobVars, JobInv, RangeInv, HandledInv, CoveredIsHandled, ReadInv, Owed
<1>6. CASE GetEvents
  <2>1. /\ log' = log /\ late' = late /\ high' = high /\ table' = table
        /\ handled' = handled /\ session' = "reading" /\ sent' = {} /\ confirmed' = {}
        /\ unread' = prev' /\ left' = {}
    BY <1>6 DEF GetEvents, logVars, TypeOK, JobType
  <2>2. CASE table = {}
    <3>1. prev' = {[first |-> -1, last |-> -1]}
      BY <1>6, <2>2 DEF GetEvents
    <3>2. WellFormed(prev') /\ \A r \in prev' : r.last = -1 /\ r.first = -1
      BY <3>1 DEF WellFormed
    <3>3. Covered(prev') = {-1} /\ Ends(prev') = {-1} /\ Covered(table) = {}
      BY <2>2, <3>1 DEF Covered, Ends
    <3>4. high \in Nat /\ \A e \in log : e.id \in Ids
      BY DEF TypeOK, LogType, Entries
    <3>5. RangeInv'
      BY <2>1, <2>2, <3>2, <3>4 DEF RangeInv
    <3>6. HandledInv'
      BY <2>1, <2>2, <3>3, <3>4 DEF HandledInv, CoveredIsHandled, Owed, Ids
    <3>7. ReadInv'
      BY <2>1, <3>3, <3>4 DEF ReadInv, Ids
    <3> QED
      BY <3>5, <3>6, <3>7 DEF JobInv
  <2>3. CASE table # {}
    <3>1. prev' = table /\ WellFormed(table)
      BY <1>6, <2>3 DEF GetEvents, RangeInv
    <3>2. RangeInv'
      BY <2>1, <3>1 DEF RangeInv
    <3>3. HandledInv'
      BY <2>1, <3>1 DEF HandledInv, CoveredIsHandled, Owed
    <3>4. PICK r \in table : r.first = -1
      BY <3>1 DEF WellFormed
    <3>5. \A e \in log : ~(e.id < -1)
      BY DEF TypeOK, LogType, Entries, Ids
    <3>6. ReadInv'
      BY <2>1, <3>1, <3>4, <3>5 DEF ReadInv
    <3> QED
      BY <3>2, <3>3, <3>6 DEF JobInv
  <2> QED
    BY <2>2, <2>3
<1>7. ASSUME NEW r \in unread, ReadGap(r) PROVE JobInv'
  <2>1. /\ log' = log /\ late' = late /\ high' = high /\ table' = table
        /\ handled' = handled /\ prev' = prev /\ confirmed' = confirmed
        /\ session = "reading" /\ session' \in {"reading", "handling"}
        /\ unread' = unread \ {r}
        /\ r \in prev /\ \A m \in unread : r.first =< m.first
    BY <1>7 DEF ReadGap, logVars, TypeOK, JobType
  <2>2. sent' = sent \union
           {e.id : e \in {x \in log : x.change \in Watched /\ Behind(prev, r, x.id)}}
    BY <1>7 DEF ReadGap
  <2>3. session' = "handling" => unread' = {}
    BY <1>7 DEF ReadGap
  <2>4. left' \subseteq sent'
    BY <1>7 DEF ReadGap
  <2>5. WellFormed(prev) /\ prev \subseteq Ranges /\ unread \subseteq prev
    BY <2>1 DEF RangeInv, TypeOK, JobType
  <2>6. \A m \in prev : m.first \in Int /\ m.last \in Int
    BY <2>5 DEF Ranges
  <2>7. \A e \in log : e.id \in Int /\ e.id =< high
    BY DEF TypeOK, LogType, Entries, Ids, IdsInv
  <2>8. RangeInv'
    BY <2>1, <2>2, <2>7 DEF RangeInv
  <2>9. HandledInv'
    BY <2>1 DEF HandledInv, CoveredIsHandled, Owed
  <2>10. ASSUME NEW m \in prev \ unread', NEW k \in unread' PROVE m.first < k.first
    <3>1. CASE m \in unread
      <4>1. m = r /\ r.first =< k.first /\ k # r /\ k \in prev
        BY <2>1, <2>5, <3>1
      <4>2. r.first # k.first
        BY <2>1, <2>5, <4>1 DEF WellFormed
      <4> QED
        BY <2>6, <4>1, <4>2
    <3>2. CASE m \notin unread
      BY <2>1, <3>2 DEF ReadInv
    <3> QED
      BY <3>1, <3>2
  <2>11. ASSUME NEW e \in log, Owed(e), \A m \in unread' : e.id < m.first,
                NEW x \in sent' \union Ends(prev), e.id =< x
         PROVE  e.id \in sent' \union Covered(prev)
    <3>1. CASE e.id < r.first
      <4>1. \A m \in unread : e.id < m.first
        BY <2>1, <2>5, <2>6, <2>7, <3>1
      <4>2. r.first \in Ends(prev) /\ e.id =< r.first
        BY <2>1, <2>6, <2>7, <3>1 DEF Ends
      <4>3. e.id \in sent \union Covered(prev)
        BY <2>1, <2>11, <4>1, <4>2 DEF ReadInv
      <4> QED
        BY <2>2, <4>3
    <3>2. CASE e.id \in r.first .. r.last
      BY <2>1, <3>2 DEF Covered
    <3>3. CASE e.id > r.last
      <4>1. ASSUME NEW m \in prev, m.first > r.first PROVE e.id < m.first
        <5>1. m \in unread
          BY <1>7, <2>1, <2>5, <2>6, <4>1 DEF ReadInv
        <5> QED
          BY <2>1, <2>6, <2>11, <4>1, <5>1
      <4>2. Behind(prev, r, e.id)
        BY <3>3, <4>1 DEF Behind
      <4> QED
        BY <2>2, <2>11, <4>2 DEF Owed
    <3> QED
      BY <2>1, <2>6, <2>7, <3>1, <3>2, <3>3
  <2>12. ASSUME NEW i \in sent' PROVE i \notin Covered(prev)
    <3>1. CASE i \in sent
      BY <2>1, <3>1 DEF ReadInv
    <3>2. CASE i \notin sent
      <4>1. PICK e \in log : e.id = i /\ Behind(prev, r, e.id)
        BY <2>2, <2>12, <3>2
      <4>2. ASSUME NEW m \in prev, i \in m.first .. m.last PROVE FALSE
        <5>1. CASE m.first > r.first
          BY <2>6, <2>7, <4>1, <4>2, <5>1 DEF Behind
        <5>2. CASE m.first = r.first
          <6>1. m = r
            BY <2>1, <2>5, <5>2 DEF WellFormed
          <6> QED
            BY <2>1, <2>6, <2>7, <4>1, <4>2, <6>1 DEF Behind
        <5>3. CASE m.first < r.first
          <6>1. m.last < r.first /\ r.first =< r.last
            BY <2>1, <2>5, <5>3 DEF WellFormed
          <6> QED
            BY <2>1, <2>6, <2>7, <4>1, <4>2, <6>1 DEF Behind
        <5> QED
          BY <2>1, <2>6, <5>1, <5>2, <5>3
      <4> QED
        BY <4>2 DEF Covered
    <3> QED
      BY <3>1, <3>2
  <2>13. ReadInv'
    <3>1. Covered(table) \subseteq Covered(prev)
      BY <2>1 DEF ReadInv
    <3> QED
      BY <2>1, <2>3, <2>4, <2>10, <2>11, <2>12, <3>1 DEF ReadInv, Owed
  <2> QED
    BY <2>8, <2>9, <2>13 DEF JobInv
<1>8. ASSUME NEW i \in left, Handle(i) PROVE JobInv'
  <2>1. /\ UNCHANGED <<log, late, high, table, session, prev, unread, sent>>
        /\ left' \subseteq left
        /\ confirmed' = confirmed \union {i} /\ handled' = handled \union {i}
    BY <1>8 DEF Handle, logVars
  <2> QED
    BY <2>1 DEF JobInv, RangeInv, HandledInv, CoveredIsHandled, ReadInv, Owed
<1>9. ASSUME NEW i \in left, HandleFails(i) PROVE JobInv'
  <2>1. /\ UNCHANGED <<log, late, high, table, session, prev, unread, sent>>
        /\ left' \subseteq left
        /\ confirmed' = confirmed /\ handled' = handled
    BY <1>9 DEF HandleFails, logVars
  <2> QED
    BY <2>1 DEF JobInv, RangeInv, HandledInv, CoveredIsHandled, ReadInv, Owed
<1>10. CASE CommitConfirmations
  <2>1. /\ UNCHANGED <<log, late, high, session, prev, unread, sent, confirmed, left>>
        /\ handled' = handled /\ session = "handling" /\ UpdateRanges
    BY <1>10 DEF CommitConfirmations, logVars, jobVars
  <2>2. /\ table' = {} \/ WellFormed(table')
        /\ \A r \in table' : r.last =< high
        /\ \A e \in log : Owed(e) /\ e.id \in Covered(table') => e.id \in handled
        /\ left \intersect Covered(table') = {}
    BY <2>1, UpdateFacts
  <2>3. RangeInv'
    BY <2>1, <2>2 DEF RangeInv
  <2>4. HandledInv'
    BY <2>1, <2>2 DEF HandledInv, CoveredIsHandled, Owed
  <2>5. ReadInv'
    BY <2>1, <2>2 DEF ReadInv, Owed
  <2> QED
    BY <2>3, <2>4, <2>5 DEF JobInv
<1>11. CASE Finish
  <2>1. /\ UNCHANGED <<log, late, high, handled>> /\ session' = "idle"
        /\ sent' = {} /\ confirmed' = {} /\ session = "handling" /\ UpdateRanges
    BY <1>11 DEF Finish, IdleJob, logVars
  <2>2. /\ table' = {} \/ WellFormed(table')
        /\ \A r \in table' : r.last =< high
        /\ \A e \in log : Owed(e) /\ e.id \in Covered(table') => e.id \in handled
    BY <2>1, UpdateFacts
  <2>3. RangeInv'
    BY <2>1, <2>2 DEF RangeInv
  <2>4. HandledInv'
    BY <2>1, <2>2 DEF HandledInv, CoveredIsHandled, Owed
  <2> QED
    BY <2>1, <2>3, <2>4 DEF JobInv, ReadInv
<1>12. CASE JobDies
  <2>1. /\ UNCHANGED <<log, late, high, table, handled>> /\ session' = "idle"
        /\ sent' = {} /\ confirmed' = {}
    BY <1>12 DEF JobDies, IdleJob, logVars
  <2> QED
    BY <2>1 DEF JobInv, RangeInv, HandledInv, CoveredIsHandled, ReadInv, Owed
<1>13. CASE UNCHANGED vars
  BY <1>13 DEF vars, logVars, jobVars, JobInv, RangeInv, HandledInv, CoveredIsHandled,
     ReadInv, Owed
<1>14. CASE WriterNext
  BY <1>14, <1>1, <1>2, <1>3, <1>4 DEF WriterNext
<1>15. CASE JobWorks
  BY <1>15, <1>6, <1>7, <1>8, <1>11 DEF JobWorks
<1> QED
  BY <1>5, <1>9, <1>10, <1>12, <1>13, <1>14, <1>15 DEF Next

LEMMA JobCorrect == Spec => []JobInv
<1>1. Init => JobInv
  BY DEF Init, JobInv, RangeInv, HandledInv, CoveredIsHandled, ReadInv
<1> QED
  BY <1>1, WritersCorrect, JobStep, PTL DEF Spec

\* CLHandler: what the ranges of the key cover the job has handled, except what was
\* committed after an entry with a greater id, whatever fails on the way.
THEOREM OnlyHandledCovered == Spec => []CoveredIsHandled
<1>1. JobInv => CoveredIsHandled
  BY DEF JobInv, HandledInv
<1> QED
  BY <1>1, JobCorrect, PTL

\* An event is handled again only if its confirmation was not committed.
THEOREM ConfirmedNotRepeated == Spec => NotHandledAgain
<1> DEFINE A == \A i \in confirmed' \ confirmed : i \notin Covered(table)
<1>1. TypeOK /\ JobInv /\ [Next]_vars => [A]_vars
  <2> SUFFICES ASSUME TypeOK, JobInv, Next, NEW x \in confirmed' \ confirmed
               PROVE  x \notin Covered(table)
    OBVIOUS
  <2>1. ASSUME NEW i \in left, Handle(i) PROVE x \notin Covered(table)
    <3>1. x = i /\ session = "handling"
      BY <2>1 DEF Handle
    <3> QED
      BY <3>1 DEF JobInv, ReadInv
  <2>2. CASE WriterNext
    BY <2>2 DEF WriterNext, LogChange, WriteLog, Commit, Rollback, jobVars
  <2>3. CASE JobWorks
    BY <2>1, <2>3 DEF JobWorks, GetEvents, ReadGap, Finish, IdleJob
  <2> QED
    BY <2>2, <2>3 DEF Next, RemoveLogEvent, HandleFails, CommitConfirmations, JobDies,
       IdleJob, jobVars
<1> QED
  BY <1>1, TypeCorrect, JobCorrect, PTL DEF Spec, NotHandledAgain

-----------------------------------------------------------------------------
(* Confirmations are for good.                                               *)

\* An id before an event x of X that begins a group, with none of X between, is
\* covered by the range that ends before x; likewise up to the last point t.
LEMMA CoveredUpTo ==
    ASSUME NEW points, points \subseteq -1 .. MaxId, NEW X, X \subseteq points,
           X \subseteq 1 .. MaxId, NEW i \in Int, -1 =< i, i \notin X,
           NEW z \in -1 .. MaxId, i =< z, \A y \in X : ~(i < y /\ y < z),
           \/ i < z /\ BeginsGroup(points, X, z)
           \/ IsLast(points, z) /\ z \notin X
    PROVE  i \in Covered(InnerRanges(points, X) \union LastRange(points, X))
<1> USE ChangesAssumption DEF ChangesAssumption
<1> DEFINE below == {y \in X : y < i}
<1>1. PICK f \in {-1} \union {y + 1 : y \in X} :
         /\ f =< i /\ f \in -1 .. MaxId + 1
         /\ \A y \in X : y < i => y < f
  <2>1. CASE below = {}
    BY <2>1
  <2>2. CASE below # {}
    <3>1. below \subseteq Int /\ \A y \in below : y =< i
      <4>1. ASSUME NEW y \in below PROVE y \in Int /\ y =< i
        OBVIOUS
      <4> QED
        BY <4>1
    <3> HIDE DEF below
    <3>2. PICK y \in below : \A x \in below : x =< y
      BY <2>2, <3>1, HasGreatest
    <3>3. y \in X /\ y < i /\ y \in 1 .. MaxId /\ \A x \in X : x < i => x =< y
      BY <3>2 DEF below
    <3>4. y + 1 =< i /\ y + 1 \in -1 .. MaxId + 1 /\ \A x \in X : x < i => x < y + 1
      BY <3>3
    <3> QED
      BY <3>3, <3>4
  <2> QED
    BY <2>1, <2>2
<1>2. StartFor(X, z, f)
  <2>1. ASSUME NEW y \in X, y < z PROVE y < f
    BY <1>1, <2>1
  <2> QED
    BY <1>1, <2>1 DEF StartFor
<1>3. CASE i < z /\ BeginsGroup(points, X, z)
  <2>1. [first |-> f, last |-> z - 1] \in Ranges /\ (z - 1) + 1 = z
    BY <1>1, <1>3 DEF Ranges
  <2>2. [first |-> f, last |-> z - 1] \in InnerRanges(points, X)
    BY <1>2, <1>3, <2>1 DEF InnerRanges
  <2>3. i \in f .. (z - 1)
    BY <1>1, <1>3
  <2> QED
    BY <2>2, <2>3 DEF Covered
<1>4. CASE IsLast(points, z) /\ z \notin X
  <2>1. [first |-> f, last |-> z] \in Ranges
    BY <1>1 DEF Ranges
  <2>2. [first |-> f, last |-> z] \in LastRange(points, X)
    BY <1>2, <1>4, <2>1 DEF LastRange
  <2>3. i \in f .. z
    BY <1>1
  <2> QED
    BY <2>2, <2>3 DEF Covered
<1> QED
  BY <1>3, <1>4

\* So is an id before a point b that is confirmed, with none of X between.
LEMMA CoveredBefore ==
    ASSUME NEW points, points \subseteq -1 .. MaxId, NEW X, X \subseteq points,
           X \subseteq 1 .. MaxId, NEW i \in Int, -1 =< i, i \notin X,
           NEW b \in points \ X, i =< b, \A y \in X : ~(i < y /\ y < b)
    PROVE  i \in Covered(InnerRanges(points, X) \union LastRange(points, X))
<1> USE ChangesAssumption DEF ChangesAssumption
<1> DEFINE above == {y \in X : i < y}
<1>1. X \subseteq Int /\ points \subseteq Int /\ b \in Int
  OBVIOUS
<1>2. CASE above = {}
  <2>1. MaxId \in Int /\ points # {} /\ \A p \in points : p =< MaxId
    OBVIOUS
  <2>2. PICK t \in points : \A p \in points : p =< t
    BY <1>1, <2>1, HasGreatest
  <2>3. i =< t /\ t \notin X /\ \A y \in X : ~(i < y /\ y < t)
    BY <1>1, <1>2, <2>2
  <2>4. t \in -1 .. MaxId /\ IsLast(points, t)
    BY <2>2 DEF IsLast
  <2> QED
    BY <2>3, <2>4, CoveredUpTo
<1>3. CASE above # {}
  <2>1. above \subseteq Nat
    <3>1. ASSUME NEW y \in above PROVE y \in Nat
      OBVIOUS
    <3> QED
      BY <3>1
  <2> HIDE DEF above
  <2>2. PICK x \in above : \A y \in above : x =< y
    BY <1>3, <2>1, HasLeast
  <2>3. x \in X /\ i < x /\ \A y \in X : ~(i < y /\ y < x)
    BY <1>1, <2>2 DEF above
  <2>4. b < x
    BY <1>1, <2>3
  <2> DEFINE before == {p \in points : p < x}
  <2>5. b \in before /\ before \subseteq Int /\ \A p \in before : p =< x
    <3>1. ASSUME NEW p \in before PROVE p \in Int /\ p =< x
      BY <1>1, <2>3
    <3> QED
      BY <2>4, <3>1
  <2> HIDE DEF before
  <2>6. PICK c \in before : \A p \in before : p =< c
    BY <1>1, <2>3, <2>5, HasGreatest
  <2>7. c \in points /\ c < x /\ b =< c /\ \A p \in points : p < x => p =< c
    BY <2>5, <2>6 DEF before
  <2>8. c \notin X
    BY <1>1, <2>3, <2>7
  <2>9. BeginsGroup(points, X, x)
    BY <2>3, <2>7, <2>8 DEF BeginsGroup
  <2>10. x \in -1 .. MaxId /\ i =< x
    BY <1>1, <2>3
  <2> QED
    BY <2>3, <2>9, <2>10, CoveredUpTo
<1> QED
  BY <1>2, <1>3

\* The new ranges cover the old ones.
LEMMA OldStayCovered ==
    ASSUME NEW P, P \subseteq Ranges, WellFormed(P), NEW S, S \subseteq Ids, NEW C,
           S \intersect Covered(P) = {}
    PROVE  Covered(P) \subseteq Covered(NewRanges(P, S, C))
<1> SUFFICES ASSUME NEW r \in P, NEW i \in r.first .. r.last
             PROVE  i \in Covered(NewRanges(P, S, C))
  BY DEF Covered
<1> DEFINE points == S \union Ends(P)
           X == S \ (C \union Ends(P))
<1>1. points \subseteq -1 .. MaxId /\ X \subseteq points /\ X \subseteq 1 .. MaxId
  BY PointsFacts DEF Ids
<1>2. r.first \in Int /\ r.last \in Int /\ -1 =< r.first
  BY DEF Ranges
<1>3. \A y \in r.first .. r.last : y \notin X
  BY DEF Covered
<1>4. r.last \in points \ X
  BY DEF Ends
<1> HIDE DEF points, X
<1>5. i \in Int /\ -1 =< i /\ i \notin X /\ i =< r.last
  BY <1>2, <1>3
<1>6. ASSUME NEW y \in X PROVE ~(i < y /\ y < r.last)
  BY <1>1, <1>2, <1>3, <1>5
<1>7. i \in Covered(InnerRanges(points, X) \union LastRange(points, X))
  BY <1>1, <1>4, <1>5, <1>6, CoveredBefore
<1> QED
  BY <1>7 DEF NewRanges, points, X

\* More confirmations cover more.
LEMMA MoreCovered ==
    ASSUME NEW P, P \subseteq Ranges, WellFormed(P), NEW S, S \subseteq Ids,
           NEW C, NEW D, D \subseteq C
    PROVE  Covered(NewRanges(P, S, D)) \subseteq Covered(NewRanges(P, S, C))
<1> DEFINE points == S \union Ends(P)
           X == S \ (C \union Ends(P))
           Y == S \ (D \union Ends(P))
<1> SUFFICES ASSUME NEW r \in NewRanges(P, S, D), NEW i \in r.first .. r.last
             PROVE  i \in Covered(NewRanges(P, S, C))
  BY DEF Covered
<1>1. points \subseteq -1 .. MaxId /\ Y \subseteq points /\ Y \subseteq 1 .. MaxId
  BY PointsFacts DEF Ids
<1>2. X \subseteq Y
  OBVIOUS
<1>3. r \in InnerRanges(points, Y) \union LastRange(points, Y)
  BY DEF NewRanges
<1>4. NewRanges(P, S, C) = InnerRanges(points, X) \union LastRange(points, X)
  BY DEF NewRanges
<1> HIDE DEF points, X, Y
<1>5. /\ r.first \in Int /\ r.last \in Int
      /\ \A y \in Y : y =< r.last => y < r.first
  BY <1>1, <1>3, RangeShape
<1>6. r.first \in -1 .. MaxId + 1
  BY <1>3 DEF InnerRanges, LastRange, Ranges
<1>7. i \in Int /\ -1 =< i /\ i \notin X /\ i =< r.last /\ X \subseteq Int
  BY <1>1, <1>2, <1>5, <1>6
<1>8. \A y \in X : ~(i < y /\ y =< r.last)
  BY <1>2, <1>5, <1>7
<1>9. CASE r \in LastRange(points, Y)
  <2>1. r.last \in points /\ r.last \notin X
    BY <1>2, <1>9 DEF LastRange, IsLast
  <2> QED
    <3>1. \A y \in X : ~(i < y /\ y < r.last)
      BY <1>5, <1>7, <1>8
    <3>2. X \subseteq points /\ X \subseteq 1 .. MaxId
      BY <1>1, <1>2
    <3> QED
      BY <1>1, <1>4, <1>7, <2>1, <3>1, <3>2, CoveredBefore
<1>10. CASE r \in InnerRanges(points, Y)
  <2> DEFINE x == r.last + 1
  <2>1. x \in Y /\ BeginsGroup(points, Y, x) /\ x \in Int /\ i < x
    BY <1>5, <1>7, <1>10 DEF InnerRanges, BeginsGroup
  <2>2. \A y \in X : ~(i < y /\ y < x)
    BY <1>5, <1>7, <1>8
  <2> HIDE DEF x
  <2>3. CASE x \in X
    <3>1. BeginsGroup(points, X, x)
      BY <1>2, <2>1, <2>3 DEF BeginsGroup
    <3>2. x \in -1 .. MaxId /\ i =< x
      BY <1>1, <1>7, <2>1
    <3> QED
      BY <1>1, <1>2, <1>4, <1>7, <2>1, <2>2, <3>1, <3>2, CoveredUpTo
  <2>4. CASE x \notin X
    <3>1. x \in points \ X /\ i =< x
      BY <1>1, <1>7, <2>1, <2>4
    <3> QED
      BY <1>1, <1>2, <1>4, <1>7, <2>2, <3>1, CoveredBefore
  <2> QED
    BY <2>3, <2>4
<1> QED
  BY <1>3, <1>9, <1>10

\* The ranges in the table are those that get_events has read, or come from them
\* and from what was confirmed since.
KeepInv ==
    session = "handling" =>
        \/ Covered(table) \subseteq Covered(prev)
        \/ \E C \in SUBSET confirmed : table = NewRanges(prev, sent, C)

\* commit_confirmations covers what was covered.
LEMMA UpdateKeeps ==
    ASSUME TypeOK, JobInv, KeepInv, session = "handling", UpdateRanges
    PROVE  Covered(table) \subseteq Covered(table')
<1>1. CASE table' = table
  BY <1>1
<1>2. CASE table' = NewRanges(prev, sent, confirmed)
  <2>1. prev \subseteq Ranges /\ WellFormed(prev) /\ sent \subseteq Ids
    BY DEF TypeOK, JobType, JobInv, RangeInv
  <2>2. CASE Covered(table) \subseteq Covered(prev)
    <3>1. sent \intersect Covered(prev) = {}
      BY DEF JobInv, ReadInv
    <3>2. Covered(prev) \subseteq Covered(table')
      BY <1>2, <2>1, <3>1, OldStayCovered
    <3> QED
      BY <2>2, <3>2
  <2>3. ASSUME NEW C \in SUBSET confirmed, table = NewRanges(prev, sent, C)
        PROVE  Covered(table) \subseteq Covered(table')
    BY <1>2, <2>1, <2>3, MoreCovered
  <2> QED
    BY <2>2, <2>3 DEF KeepInv
<1> QED
  BY <1>1, <1>2 DEF UpdateRanges

LEMMA KeepStep == TypeOK /\ JobInv /\ KeepInv /\ [Next]_vars => KeepInv'
<1> SUFFICES ASSUME TypeOK, JobInv, KeepInv, [Next]_vars PROVE KeepInv'
  OBVIOUS
<1>1. ASSUME NEW w \in Writers, NEW c \in Changes, LogChange(w, c)
      PROVE  KeepInv'
  BY <1>1 DEF LogChange, KeepInv, jobVars
<1>2. ASSUME NEW w \in Writers, WriteLog(w) PROVE KeepInv'
  BY <1>2 DEF WriteLog, KeepInv, jobVars
<1>3. ASSUME NEW w \in Writers, Commit(w) PROVE KeepInv'
  BY <1>3 DEF Commit, KeepInv, jobVars
<1>4. ASSUME NEW w \in Writers, Rollback(w) PROVE KeepInv'
  BY <1>4 DEF Rollback, KeepInv, jobVars
<1>5. ASSUME NEW e \in log, RemoveLogEvent(e) PROVE KeepInv'
  BY <1>5 DEF RemoveLogEvent, KeepInv, jobVars
<1>6. CASE GetEvents
  BY <1>6 DEF GetEvents, KeepInv
<1>7. ASSUME NEW r \in unread, ReadGap(r) PROVE KeepInv'
  <2>1. table' = table /\ prev' = prev /\ session = "reading"
    BY <1>7 DEF ReadGap
  <2>2. Covered(table) \subseteq Covered(prev)
    BY <2>1 DEF JobInv, ReadInv
  <2> QED
    BY <2>1, <2>2 DEF KeepInv
<1>8. ASSUME NEW i \in left, Handle(i) PROVE KeepInv'
  <2>1. UNCHANGED <<table, session, prev, sent>> /\ confirmed \subseteq confirmed'
    BY <1>8 DEF Handle
  <2> QED
    BY <2>1 DEF KeepInv
<1>9. ASSUME NEW i \in left, HandleFails(i) PROVE KeepInv'
  BY <1>9 DEF HandleFails, KeepInv
<1>10. CASE CommitConfirmations
  <2>1. UNCHANGED <<session, prev, sent, confirmed>> /\ UpdateRanges
    BY <1>10 DEF CommitConfirmations, jobVars
  <2> QED
    BY <2>1 DEF KeepInv, UpdateRanges
<1>11. CASE Finish
  BY <1>11 DEF Finish, KeepInv, IdleJob
<1>12. CASE JobDies
  BY <1>12 DEF JobDies, KeepInv, IdleJob
<1>13. CASE UNCHANGED vars
  BY <1>13 DEF vars, KeepInv, jobVars
<1>14. CASE WriterNext
  BY <1>14, <1>1, <1>2, <1>3, <1>4 DEF WriterNext
<1>15. CASE JobWorks
  BY <1>15, <1>6, <1>7, <1>8, <1>11 DEF JobWorks
<1> QED
  BY <1>5, <1>9, <1>10, <1>12, <1>13, <1>14, <1>15 DEF Next

\* An id that the ranges of the key cover stays covered: what was confirmed and
\* committed in one session of a job no later one gives up.
THEOREM ConfirmationsKept == Spec => ConfirmedForGood
<1>1. Init => KeepInv
  BY DEF Init, KeepInv
<1>2. TypeOK /\ JobInv /\ KeepInv /\ [Next]_vars
         => [Covered(table) \subseteq Covered(table')]_vars
  <2> SUFFICES ASSUME TypeOK, JobInv, KeepInv, Next
               PROVE  Covered(table) \subseteq Covered(table')
    OBVIOUS
  <2>1. CASE CommitConfirmations \/ Finish
    BY <2>1, UpdateKeeps DEF CommitConfirmations, Finish
  <2>2. CASE table' = table
    BY <2>2
  <2>3. CASE WriterNext
    BY <2>2, <2>3 DEF WriterNext, LogChange, WriteLog, Commit, Rollback
  <2>4. CASE JobWorks
    BY <2>1, <2>2, <2>4 DEF JobWorks, GetEvents, ReadGap, Handle
  <2> QED
    BY <2>1, <2>2, <2>3, <2>4 DEF Next, RemoveLogEvent, HandleFails, JobDies
<1> QED
  BY <1>1, <1>2, TypeCorrect, JobCorrect, KeepStep, PTL DEF Spec, ConfirmedForGood
=============================================================================
