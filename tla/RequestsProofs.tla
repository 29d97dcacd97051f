--------------------------- MODULE RequestsProofs ---------------------------
(* Proofs about Requests, for any operations, conflicts, adders, processors  *)
(* and bounds.                                                               *)
EXTENDS Requests, FiniteSetTheorems, TLAPS

-----------------------------------------------------------------------------
(* Types.                                                                    *)

LEMMA InitType == Init => TypeOK
BY RequestsAssumption
   DEF Init, TypeOK, TableType, AdderType, PassType, LockType, InHand, HistoryType,
       Busy, Ids, RequestsAssumption

LEMMA TypeStep == TypeOK /\ [Next]_vars => TypeOK'
<1> SUFFICES ASSUME TypeOK, [Next]_vars PROVE TypeOK'
  OBVIOUS
<1>0. TableType /\ AdderType /\ PassType /\ LockType /\ InHand /\ HistoryType
  BY DEF TypeOK
<1> USE RequestsAssumption, <1>0 DEF RequestsAssumption
<1>1. ASSUME NEW a \in Adders, NEW op \in Ops, NEW old \in {0} \union DOMAIN table,
             AddCheck(a, op, old)
      PROVE  TypeOK'
  <2>1. TableType'
    BY <1>1 DEF AddCheck, TableType, tableVars
  <2>2. AdderType'
    BY <1>1 DEF AddCheck, AdderType, TableType, tableVars
  <2>3. PassType'
    BY <1>1 DEF AddCheck, PassType, passVars, tableVars
  <2>4. LockType'
    BY <1>1 DEF AddCheck, LockType, lockVars, tableVars
  <2>5. InHand'
    BY <1>1 DEF AddCheck, InHand, lockVars, passVars
  <2>6. HistoryType'
    BY <1>1 DEF AddCheck, HistoryType, historyVars, tableVars
  <2> QED
    BY <2>1, <2>2, <2>3, <2>4, <2>5, <2>6 DEF TypeOK
<1>2. ASSUME NEW a \in Adders, NEW due \in BOOLEAN, AddCommit(a, due)
      PROVE  TypeOK'
  <2>1. TableType'
    <3>1. DOMAIN table' = (DOMAIN table \ {replaces[a]}) \union {seq + 1}
      BY <1>2 DEF AddCommit
    <3>2. seq' = seq + 1 /\ seq' \in 0 .. MaxRequests /\ DOMAIN table' \subseteq 1 .. seq'
      BY <1>2, <3>1 DEF AddCommit, TableType
    <3>3. ASSUME NEW r \in DOMAIN table' PROVE table'[r] \in Rows
      <4>1. CASE r = seq + 1
        <5>1. adding[a] \in Ops
          BY <1>2 DEF AddCommit, AdderType
        <5>2. table'[r] = [op |-> adding[a], due |-> due]
          BY <1>2, <4>1 DEF AddCommit
        <5> QED
          BY <5>1, <5>2 DEF Rows
      <4>2. CASE r # seq + 1
        BY <1>2, <3>1, <4>2 DEF AddCommit, TableType
      <4> QED
        BY <4>1, <4>2
    <3> QED
      BY <3>2, <3>3 DEF TableType
  <2>2. AdderType'
    BY <1>2 DEF AddCommit, AdderType, TableType
  <2>3. PassType'
    BY <1>2 DEF AddCommit, PassType, TableType, passVars
  <2>4. LockType'
    BY <1>2 DEF AddCommit, LockType, TableType, lockVars
  <2>5. InHand'
    BY <1>2 DEF AddCommit, InHand, lockVars, passVars
  <2>6. HistoryType'
    <3>1. seq' = seq + 1 /\ finished' = finished /\ times' = times
          /\ faults' = faults /\ cmds' = cmds
      BY <1>2 DEF AddCommit
    <3>2. withdrawn' = withdrawn \union (DOMAIN table \intersect {replaces[a]})
      BY <1>2 DEF AddCommit
    <3>3. seq \in Nat /\ 1 .. seq \subseteq 1 .. seq'
      BY <3>1 DEF TableType
    <3>4. opOf' \in [Ids -> Ops \union {NoOp}]
      BY <1>2 DEF AddCommit, HistoryType, AdderType
    <3> QED
      BY <3>1, <3>2, <3>3, <3>4 DEF HistoryType, TableType
  <2> QED
    BY <2>1, <2>2, <2>3, <2>4, <2>5, <2>6 DEF TypeOK
<1>3. ASSUME NEW r \in DOMAIN table, Cancel(r)
      PROVE  TypeOK'
  <2>1. TableType'
    BY <1>3 DEF Cancel, Without, TableType
  <2>2. AdderType'
    BY <1>3 DEF Cancel, AdderType, adderVars
  <2>3. PassType'
    BY <1>3 DEF Cancel, PassType, passVars
  <2>4. LockType'
    BY <1>3 DEF Cancel, LockType, lockVars
  <2>5. InHand'
    BY <1>3 DEF Cancel, InHand, lockVars, passVars
  <2>6. HistoryType'
    <3>1. /\ seq' = seq /\ finished' = finished /\ times' = times /\ faults' = faults
          /\ opOf' = opOf
      BY <1>3 DEF Cancel, tableVars
    <3>2. cmds' \in 0 .. MaxOps
      BY <1>3 DEF Cancel, HistoryType
    <3>3. withdrawn' = withdrawn \union {r}
      BY <1>3 DEF Cancel
    <3> QED
      BY <3>1, <3>2, <3>3 DEF HistoryType, TableType
  <2> QED
    BY <2>1, <2>2, <2>3, <2>4, <2>5, <2>6 DEF TypeOK
<1>4. ASSUME NEW r \in DOMAIN table, BecomesDue(r)
      PROVE  TypeOK'
  <2>1. TableType'
    BY <1>4 DEF BecomesDue, Rows, TableType
  <2>2. AdderType'
    BY <1>4 DEF BecomesDue, AdderType, adderVars
  <2>3. PassType'
    BY <1>4 DEF BecomesDue, PassType, passVars
  <2>4. LockType'
    BY <1>4 DEF BecomesDue, LockType, lockVars
  <2>5. InHand'
    BY <1>4 DEF BecomesDue, InHand, lockVars, passVars
  <2>6. HistoryType'
    BY <1>4 DEF BecomesDue, HistoryType, historyVars
  <2> QED
    BY <2>1, <2>2, <2>3, <2>4, <2>5, <2>6 DEF TypeOK
<1>5. ASSUME NEW p \in Procs, NEW op \in ops[p], List(p, op)
      PROVE  TypeOK'
  <2>1. TableType'
    BY <1>5 DEF List, TableType, tableVars
  <2>2. AdderType'
    BY <1>5 DEF List, AdderType, adderVars, tableVars
  <2>3. PassType'
    BY <1>5 DEF List, PassType, TableType, tableVars
  <2>4. LockType'
    BY <1>5 DEF List, LockType, lockVars, tableVars
  <2>5. InHand'
    BY <1>5 DEF List, InHand, lockVars
  <2>6. HistoryType'
    BY <1>5 DEF List, HistoryType, historyVars, tableVars
  <2> QED
    BY <2>1, <2>2, <2>3, <2>4, <2>5, <2>6 DEF TypeOK
<1>6. ASSUME NEW p \in Procs, NEW r \in todo[p], Check(p, r)
      PROVE  TypeOK'
  <2>1. TableType'
    BY <1>6 DEF Check, TableType, tableVars
  <2>2. AdderType'
    BY <1>6 DEF Check, AdderType, adderVars, tableVars
  <2>3. PassType'
    BY <1>6 DEF Check, Busy, PassType, tableVars
  <2>4. LockType'
    BY <1>6 DEF Check, LockType, tableVars
  <2>5. InHand'
    BY <1>6 DEF Check, InHand, PassType
  <2>6. HistoryType'
    BY <1>6 DEF Check, HistoryType, historyVars, tableVars
  <2> QED
    BY <2>1, <2>2, <2>3, <2>4, <2>5, <2>6 DEF TypeOK
<1>7. ASSUME NEW p \in Procs, Finish(p)
      PROVE  TypeOK'
  <2>1. TableType'
    BY <1>7 DEF Finish, TableType, tableVars
  <2>2. AdderType'
    BY <1>7 DEF Finish, AdderType, adderVars, tableVars
  <2>3. PassType'
    <3>1. seq' = seq /\ seq \in Nat
      BY <1>7 DEF Finish, tableVars, TableType
    <3>2. CASE fd[p] # 0
      BY <1>7, <3>1, <3>2 DEF Finish, PassType, passVars
    <3>3. CASE Ended(p)
      BY <3>1, <3>3 DEF Ended, PassType
    <3> QED
      BY <1>7, <3>2, <3>3 DEF Finish
  <2>4. LockType'
    <3>1. seq' = seq /\ file' = file /\ torn' = torn
      BY <1>7 DEF Finish, tableVars
    <3>2. /\ fd' \in [Procs -> Inodes \union {0}]
          /\ lockreq' \in [Procs -> 0 .. seq]
      BY <1>7 DEF Finish, Ended, LockType, TableType
    <3>3. locked' \in [Procs -> BOOLEAN]
      BY <1>7 DEF Finish, Ended, LockType
    <3> QED
      BY <3>1, <3>2, <3>3 DEF LockType
  <2>5. InHand'
    BY <1>7 DEF Finish, Ended, Busy, InHand, LockType, PassType, passVars
  <2>6. HistoryType'
    BY <1>7 DEF Finish, HistoryType, historyVars, tableVars
  <2> QED
    BY <2>1, <2>2, <2>3, <2>4, <2>5, <2>6 DEF TypeOK
<1>8. ASSUME NEW p \in Procs, Unlink(p)
      PROVE  TypeOK'
  <2>1. TableType'
    BY <1>8 DEF Unlink, TableType, tableVars
  <2>2. AdderType'
    BY <1>8 DEF Unlink, AdderType, adderVars, tableVars
  <2>3. PassType'
    BY <1>8 DEF Unlink, Raises, Ended, Busy, PassType, TableType, passVars, tableVars
  <2>4. LockType'
    <3>1. seq' = seq /\ lockreq[p] \in 1 .. seq /\ lockreq[p] \in Ids
      BY <1>8 DEF Unlink, tableVars, InHand, LockType, TableType, Ids
    <3>2. fd' \in [Procs -> Inodes \union {0}]
      BY <1>8 DEF Unlink, Raises, Ended, LockType
    <3>3. lockreq' \in [Procs -> 0 .. seq]
      BY <1>8 DEF Unlink, Raises, Ended, LockType, TableType
    <3>4. locked' \in [Procs -> BOOLEAN]
      BY <1>8 DEF Unlink, Raises, Ended, LockType
    <3>5. file' \in [Ids -> Inodes \union {0}]
      BY <1>8 DEF Unlink, LockType
    <3>6. torn' \subseteq 1 .. seq
      BY <1>8, <3>1 DEF Unlink, LockType
    <3> QED
      BY <3>1, <3>2, <3>3, <3>4, <3>5, <3>6 DEF LockType
  <2>5. InHand'
    BY <1>8 DEF Unlink, Raises, Ended, Busy, InHand, LockType, PassType, passVars
  <2>6. HistoryType'
    BY <1>8 DEF Unlink, HistoryType, historyVars, tableVars
  <2> QED
    BY <2>1, <2>2, <2>3, <2>4, <2>5, <2>6 DEF TypeOK
<1>9. ASSUME NEW p \in Procs, Open(p)
      PROVE  TypeOK'
  <2>1. TableType'
    BY <1>9 DEF Open, TableType, tableVars
  <2>2. AdderType'
    BY <1>9 DEF Open, AdderType, adderVars, tableVars
  <2>3. PassType'
    BY <1>9 DEF Open, Busy, PassType, passVars, tableVars
  <2>4. LockType'
    <3>1. seq' = seq /\ locked' = locked /\ torn' = torn
      BY <1>9 DEF Open, tableVars
    <3>2. lockreq' \in [Procs -> 0 .. seq]
      BY <1>9 DEF Open, LockType, PassType
    <3>3. PICK i \in Inodes : /\ fd' = [fd EXCEPT ![p] = i]
                              /\ file' = [file EXCEPT ![cur[p]] = i]
      BY <1>9 DEF Open
    <3>4. fd' \in [Procs -> Inodes \union {0}] /\ file' \in [Ids -> Inodes \union {0}]
      BY <3>3 DEF LockType
    <3> QED
      BY <3>1, <3>2, <3>4 DEF LockType
  <2>5. InHand'
    BY <1>9 DEF Open, Busy, InHand, LockType, passVars
  <2>6. HistoryType'
    BY <1>9 DEF Open, HistoryType, historyVars, tableVars
  <2> QED
    BY <2>1, <2>2, <2>3, <2>4, <2>5, <2>6 DEF TypeOK
<1>10. ASSUME NEW p \in Procs, Grab(p)
       PROVE  TypeOK'
  <2>1. TableType'
    BY <1>10 DEF Grab, TableType, tableVars
  <2>2. AdderType'
    BY <1>10 DEF Grab, AdderType, adderVars, tableVars
  <2>3. PassType'
    BY <1>10 DEF Grab, Busy, PassType, TableType, tableVars
  <2>4. LockType'
    BY <1>10 DEF Grab, LockType, tableVars
  <2>5. InHand'
    BY <1>10 DEF Grab, Busy, InHand, PassType
  <2>6. HistoryType'
    BY <1>10 DEF Grab, HistoryType, historyVars, tableVars
  <2> QED
    BY <2>1, <2>2, <2>3, <2>4, <2>5, <2>6 DEF TypeOK
<1>11. ASSUME NEW p \in Procs, GrabFails(p)
       PROVE  TypeOK'
  <2>1. TableType'
    BY <1>11 DEF GrabFails, TableType, tableVars
  <2>2. AdderType'
    BY <1>11 DEF GrabFails, AdderType, adderVars, tableVars
  <2>3. PassType'
    BY <1>11 DEF GrabFails, PassType, TableType, tableVars
  <2>4. LockType'
    BY <1>11 DEF GrabFails, LockType, TableType, tableVars
  <2>5. InHand'
    BY <1>11 DEF GrabFails, Busy, InHand, LockType, PassType
  <2>6. HistoryType'
    BY <1>11 DEF GrabFails, HistoryType, historyVars, tableVars
  <2> QED
    BY <2>1, <2>2, <2>3, <2>4, <2>5, <2>6 DEF TypeOK
<1>12. ASSUME NEW p \in Procs, HandlerSucceeds(p)
       PROVE  TypeOK'
  <2>1. TableType'
    BY <1>12 DEF HandlerSucceeds, Without, TableType
  <2>2. AdderType'
    BY <1>12 DEF HandlerSucceeds, AdderType, adderVars
  <2>3. PassType'
    BY <1>12 DEF HandlerSucceeds, PassType, TableType
  <2>4. LockType'
    BY <1>12 DEF HandlerSucceeds, LockType, lockVars
  <2>5. InHand'
    BY <1>12 DEF HandlerSucceeds, Busy, InHand, PassType, lockVars
  <2>6. HistoryType'
    <3>1. /\ seq' = seq /\ withdrawn' = withdrawn /\ faults' = faults /\ cmds' = cmds
          /\ opOf' = opOf
      BY <1>12 DEF HandlerSucceeds
    <3>2. cur[p] \in 1 .. seq /\ cur[p] \in Ids
      BY <1>12 DEF HandlerSucceeds, InHand, PassType, TableType, Busy, Ids
    <3>3. finished' \subseteq 1 .. seq
      BY <1>12, <3>2 DEF HandlerSucceeds, HistoryType
    <3>4. times' \in [Ids -> Nat]
      BY <1>12, <3>2 DEF HandlerSucceeds, HistoryType
    <3> QED
      BY <3>1, <3>3, <3>4 DEF HistoryType
  <2> QED
    BY <2>1, <2>2, <2>3, <2>4, <2>5, <2>6 DEF TypeOK
<1>13. ASSUME NEW p \in Procs, CutShort(p)
       PROVE  TypeOK'
  <2>1. TableType'
    BY <1>13 DEF CutShort, TableType, tableVars
  <2>2. AdderType'
    BY <1>13 DEF CutShort, AdderType, adderVars, tableVars
  <2>3. PassType'
    BY <1>13 DEF CutShort, PassType, tableVars
  <2>4. LockType'
    BY <1>13 DEF CutShort, LockType, lockVars, tableVars
  <2>5. InHand'
    BY <1>13 DEF CutShort, InHand, lockVars
  <2>6. HistoryType'
    BY <1>13 DEF CutShort, HistoryType, historyVars, tableVars
  <2> QED
    BY <2>1, <2>2, <2>3, <2>4, <2>5, <2>6 DEF TypeOK
<1>13a. ASSUME NEW p \in Procs, LockFails(p)
        PROVE  TypeOK'
  <2>1. TableType'
    BY <1>13a DEF LockFails, TableType, tableVars
  <2>2. AdderType'
    BY <1>13a DEF LockFails, AdderType, adderVars, tableVars
  <2>3. PassType'
    BY <1>13a DEF LockFails, PassType, TableType, tableVars
  <2>4. LockType'
    BY <1>13a DEF LockFails, LockType, TableType, tableVars
  <2>5. InHand'
    BY <1>13a DEF LockFails, Busy, InHand, LockType, PassType
  <2>6. HistoryType'
    BY <1>13a DEF LockFails, HistoryType, historyVars, tableVars
  <2> QED
    BY <2>1, <2>2, <2>3, <2>4, <2>5, <2>6 DEF TypeOK
<1>14. ASSUME NEW p \in Procs, HandlerFails(p)
       PROVE  TypeOK'
  <2>1. TableType'
    <3>1. seq' = seq
      BY <1>14 DEF HandlerFails
    <3>2. CASE table' = table
      BY <3>1, <3>2 DEF TableType
    <3>3. CASE cur[p] \in DOMAIN table /\ table' = [table EXCEPT ![cur[p]].due = FALSE]
      <4>1. DOMAIN table' = DOMAIN table
        BY <3>3
      <4>2. ASSUME NEW r \in DOMAIN table PROVE table'[r] \in Rows
        BY <3>3 DEF TableType, Rows
      <4> QED
        BY <3>1, <4>1, <4>2 DEF TableType
    <3> QED
      BY <1>14, <3>2, <3>3 DEF HandlerFails
  <2>2. AdderType'
    BY <1>14 DEF HandlerFails, AdderType, adderVars
  <2>3. PassType'
    BY <1>14 DEF HandlerFails, Raises, PassType, TableType, adderVars, historyVars
  <2>4. LockType'
    BY <1>14 DEF HandlerFails, Raises, LockType
  <2>5. InHand'
    BY <1>14 DEF HandlerFails, Raises, Busy, InHand, PassType
  <2>6. HistoryType'
    BY <1>14 DEF HandlerFails, HistoryType, historyVars
  <2> QED
    BY <2>1, <2>2, <2>3, <2>4, <2>5, <2>6 DEF TypeOK
<1>15. ASSUME NEW p \in Procs, HandlerRaises(p)
       PROVE  TypeOK'
  <2>1. TableType'
    BY <1>15 DEF HandlerRaises, TableType, tableVars
  <2>2. AdderType'
    BY <1>15 DEF HandlerRaises, AdderType, adderVars, tableVars
  <2>3. PassType'
    BY <1>15 DEF HandlerRaises, Raises, PassType, TableType, tableVars
  <2>4. LockType'
    BY <1>15 DEF HandlerRaises, Raises, LockType, tableVars
  <2>5. InHand'
    BY <1>15 DEF HandlerRaises, Raises, Busy, InHand, PassType
  <2>6. HistoryType'
    BY <1>15 DEF HandlerRaises, HistoryType, historyVars, tableVars
  <2> QED
    BY <2>1, <2>2, <2>3, <2>4, <2>5, <2>6 DEF TypeOK
<1>16. ASSUME NEW p \in Procs, Dies(p)
       PROVE  TypeOK'
  <2>1. TableType'
    BY <1>16 DEF Dies, TableType, tableVars
  <2>2. AdderType'
    BY <1>16 DEF Dies, AdderType, adderVars, tableVars
  <2>3. PassType'
    BY <1>16 DEF Dies, Ended, PassType, TableType, tableVars
  <2>4. LockType'
    BY <1>16 DEF Dies, Ended, LockType, TableType, tableVars
  <2>5. InHand'
    BY <1>16 DEF Dies, Ended, Busy, InHand, LockType, PassType
  <2>6. HistoryType'
    BY <1>16 DEF Dies, HistoryType, historyVars, tableVars
  <2> QED
    BY <2>1, <2>2, <2>3, <2>4, <2>5, <2>6 DEF TypeOK
<1>17. CASE UNCHANGED vars
  BY <1>17 DEF vars, TypeOK, TableType, AdderType, PassType, LockType, InHand,
     HistoryType, Busy, Ids, Rows, tableVars, adderVars, passVars, lockVars, historyVars
<1>18. CASE Commands
  BY <1>18, <1>1, <1>2, <1>3 DEF Commands
<1>19. ASSUME NEW p \in Procs, Works(p) PROVE TypeOK'
  BY <1>19, <1>5, <1>6, <1>7, <1>8, <1>9, <1>10, <1>11, <1>12 DEF Works
<1> QED
  BY <1>4, <1>13, <1>13a, <1>14, <1>15, <1>16, <1>17, <1>18, <1>19 DEF Next

\* Every variable keeps its type, and a processor has a request in hand, and its
\* lock file open, wherever the code has them.
THEOREM TypeCorrect == Spec => []TypeOK
BY InitType, TypeStep, PTL DEF Spec

-----------------------------------------------------------------------------
(* No request is lost, and none comes back.                                  *)

LEMMA AccountedStep == TypeOK /\ EachAccountedFor /\ [Next]_vars => EachAccountedFor'
<1> SUFFICES ASSUME TypeOK, EachAccountedFor, [Next]_vars PROVE EachAccountedFor'
  OBVIOUS
<1>1. ASSUME NEW a \in Adders, NEW op \in Ops, NEW old \in {0} \union DOMAIN table,
             AddCheck(a, op, old)
      PROVE  EachAccountedFor'
  BY <1>1 DEF AddCheck, EachAccountedFor, tableVars, historyVars
<1>2. ASSUME NEW a \in Adders, NEW due \in BOOLEAN, AddCommit(a, due)
      PROVE  EachAccountedFor'
  <2>1. /\ seq' = seq + 1
        /\ DOMAIN table' = (DOMAIN table \ {replaces[a]}) \union {seq + 1}
        /\ finished' = finished
        /\ withdrawn' = withdrawn \union (DOMAIN table \intersect {replaces[a]})
    BY <1>2 DEF AddCommit
  <2>2. seq + 1 \notin finished \union withdrawn \union DOMAIN table
    BY DEF TypeOK, TableType, HistoryType
  <2>3. 1 .. seq' = (1 .. seq) \union {seq + 1}
    BY <2>1 DEF TypeOK, TableType
  <2> QED
    BY <2>1, <2>2, <2>3 DEF EachAccountedFor
<1>3. ASSUME NEW r \in DOMAIN table, Cancel(r) PROVE EachAccountedFor'
  <2>1. seq' = seq /\ finished' = finished /\ withdrawn' = withdrawn \union {r}
    BY <1>3 DEF Cancel
  <2>2. DOMAIN table' = DOMAIN table \ {r}
    BY <1>3 DEF Cancel, Without
  <2> QED
    BY <2>1, <2>2 DEF EachAccountedFor
<1>4. ASSUME NEW r \in DOMAIN table, BecomesDue(r) PROVE EachAccountedFor'
  BY <1>4 DEF BecomesDue, EachAccountedFor, historyVars
<1>5. ASSUME NEW p \in Procs, NEW op \in ops[p], List(p, op)
      PROVE  EachAccountedFor'
  BY <1>5 DEF List, EachAccountedFor, tableVars, historyVars
<1>6. ASSUME NEW p \in Procs, NEW r \in todo[p], Check(p, r)
      PROVE  EachAccountedFor'
  BY <1>6 DEF Check, EachAccountedFor, tableVars, historyVars
<1>7. ASSUME NEW p \in Procs, Finish(p) PROVE EachAccountedFor'
  BY <1>7 DEF Finish, EachAccountedFor, tableVars, historyVars
<1>8. ASSUME NEW p \in Procs, Unlink(p) PROVE EachAccountedFor'
  BY <1>8 DEF Unlink, EachAccountedFor, tableVars, historyVars
<1>9. ASSUME NEW p \in Procs, Open(p) PROVE EachAccountedFor'
  BY <1>9 DEF Open, EachAccountedFor, tableVars, historyVars
<1>10. ASSUME NEW p \in Procs, Grab(p) PROVE EachAccountedFor'
  BY <1>10 DEF Grab, EachAccountedFor, tableVars, historyVars
<1>11. ASSUME NEW p \in Procs, GrabFails(p) PROVE EachAccountedFor'
  BY <1>11 DEF GrabFails, EachAccountedFor, tableVars, historyVars
<1>12. ASSUME NEW p \in Procs, HandlerSucceeds(p) PROVE EachAccountedFor'
  <2>1. seq' = seq /\ withdrawn' = withdrawn
    BY <1>12 DEF HandlerSucceeds
  <2>2. DOMAIN table' = DOMAIN table \ {cur[p]}
    BY <1>12 DEF HandlerSucceeds, Without
  <2>3. finished' \union withdrawn = finished \union withdrawn \union {cur[p]}
    BY <1>12 DEF HandlerSucceeds
  <2> QED
    BY <2>1, <2>2, <2>3 DEF EachAccountedFor
<1>13. ASSUME NEW p \in Procs, CutShort(p) PROVE EachAccountedFor'
  BY <1>13 DEF CutShort, EachAccountedFor, tableVars, historyVars
<1>13a. ASSUME NEW p \in Procs, LockFails(p) PROVE EachAccountedFor'
  BY <1>13a DEF LockFails, EachAccountedFor, tableVars, historyVars
<1>14. ASSUME NEW p \in Procs, HandlerFails(p) PROVE EachAccountedFor'
  <2>1. seq' = seq /\ finished' = finished /\ withdrawn' = withdrawn
    BY <1>14 DEF HandlerFails, historyVars
  <2>2. DOMAIN table' = DOMAIN table
    BY <1>14 DEF HandlerFails
  <2> QED
    BY <2>1, <2>2 DEF EachAccountedFor
<1>15. ASSUME NEW p \in Procs, HandlerRaises(p) PROVE EachAccountedFor'
  BY <1>15 DEF HandlerRaises, EachAccountedFor, tableVars, historyVars
<1>16. ASSUME NEW p \in Procs, Dies(p) PROVE EachAccountedFor'
  BY <1>16 DEF Dies, EachAccountedFor, tableVars, historyVars
<1>17. CASE UNCHANGED vars
  BY <1>17 DEF vars, EachAccountedFor, tableVars, historyVars
<1>18. CASE Commands
  BY <1>18, <1>1, <1>2, <1>3 DEF Commands
<1>19. ASSUME NEW p \in Procs, Works(p) PROVE EachAccountedFor'
  BY <1>19, <1>5, <1>6, <1>7, <1>8, <1>9, <1>10, <1>11, <1>12 DEF Works
<1> QED
  BY <1>4, <1>13, <1>13a, <1>14, <1>15, <1>16, <1>17, <1>18, <1>19 DEF Next

\* A request is in the table until a processor has completed it or a command has
\* withdrawn it, for any number of commands, processors and faults.
THEOREM AccountedFor == Spec => []EachAccountedFor
<1>1. Init => EachAccountedFor
  BY DEF Init, EachAccountedFor
<1> QED
  BY <1>1, TypeCorrect, AccountedStep, PTL DEF Spec

-----------------------------------------------------------------------------
(* Conflicts.                                                                *)

\* What a command has seen stays out of the way of its request until the INSERT.
SeenInv ==
    /\ ConflictsOnlyRaced
    /\ \A a \in Adders :
          adding[a] # NoOp =>
             \A r \in (DOMAIN table \intersect seen[a]) \ {replaces[a]} :
                table[r].op \notin ConflictsOf[adding[a]]

\* Rows may go, and their time may change.
LEMMA RowsKept ==
    ASSUME SeenInv,
           adding' = adding, replaces' = replaces, seen' = seen, raced' = raced,
           DOMAIN table' \subseteq DOMAIN table,
           \A x \in DOMAIN table' : table'[x].op = table[x].op
    PROVE  SeenInv'
<1>1. ConflictsOnlyRaced'
  BY DEF SeenInv, ConflictsOnlyRaced
<1>2. ASSUME NEW a \in Adders, adding'[a] # NoOp,
             NEW r \in (DOMAIN table' \intersect seen'[a]) \ {replaces'[a]}
      PROVE  table'[r].op \notin ConflictsOf[adding'[a]]
  BY <1>2 DEF SeenInv
<1> QED
  BY <1>1, <1>2 DEF SeenInv

LEMMA SeenStep == TypeOK /\ SeenInv /\ [Next]_vars => SeenInv'
<1> SUFFICES ASSUME TypeOK, SeenInv, [Next]_vars PROVE SeenInv'
  OBVIOUS
<1> USE RequestsAssumption DEF RequestsAssumption
<1>1. ASSUME NEW a \in Adders, NEW op \in Ops, NEW old \in {0} \union DOMAIN table,
             AddCheck(a, op, old)
      PROVE  SeenInv'
  <2>1. table' = table /\ raced' = raced
    BY <1>1 DEF AddCheck, tableVars
  <2>2. ConflictsOnlyRaced'
    BY <2>1 DEF SeenInv, ConflictsOnlyRaced
  <2>3. ASSUME NEW b \in Adders, adding'[b] # NoOp,
               NEW r \in (DOMAIN table' \intersect seen'[b]) \ {replaces'[b]}
        PROVE  table'[r].op \notin ConflictsOf[adding'[b]]
    <3>1. CASE b = a
      <4>1. adding'[a] = op /\ replaces'[a] = old
        BY <1>1 DEF AddCheck, TypeOK, AdderType
      <4> QED
        BY <1>1, <2>1, <2>3, <3>1, <4>1 DEF AddCheck, Conflicting
    <3>2. CASE b # a
      <4>1. adding'[b] = adding[b] /\ replaces'[b] = replaces[b] /\ seen'[b] = seen[b]
        BY <1>1, <3>2 DEF AddCheck, TypeOK, AdderType
      <4> QED
        BY <2>1, <2>3, <4>1 DEF SeenInv
    <3> QED
      BY <3>1, <3>2
  <2> QED
    BY <2>2, <2>3 DEF SeenInv
<1>2. ASSUME NEW a \in Adders, NEW due \in BOOLEAN, AddCommit(a, due)
      PROVE  SeenInv'
  <2>1. DOMAIN table' = (DOMAIN table \ {replaces[a]}) \union {seq + 1}
    BY <1>2 DEF AddCommit
  <2>2. \A r \in DOMAIN table \ {replaces[a]} : r < seq + 1 /\ table'[r] = table[r]
    BY <1>2 DEF AddCommit, TypeOK, TableType
  <2>3. table'[seq + 1].op = adding[a]
    BY <1>2 DEF AddCommit
  <2>4. ASSUME NEW r \in DOMAIN table', NEW s \in DOMAIN table',
               r < s, table'[r].op \in ConflictsOf[table'[s].op]
        PROVE  <<r, s>> \in raced'
    <3>1. seq \in Nat /\ DOMAIN table \subseteq 1 .. seq
      BY DEF TypeOK, TableType
    <3>2. raced' = raced \union
               {<<x, seq + 1>> : x \in (DOMAIN table \ {replaces[a]}) \ seen[a]}
      BY <1>2 DEF AddCommit
    <3>3. r \in DOMAIN table \ {replaces[a]}
      BY <2>1, <2>4, <3>1
    <3>4. CASE s = seq + 1
      <4>1. table[r].op \in ConflictsOf[adding[a]]
        BY <2>2, <2>3, <2>4, <3>3, <3>4
      <4>2. r \notin seen[a]
        BY <1>2, <3>3, <4>1 DEF AddCommit, SeenInv
      <4> QED
        BY <3>2, <3>3, <3>4, <4>2
    <3>5. CASE s \in DOMAIN table \ {replaces[a]}
      BY <2>2, <2>4, <3>2, <3>3, <3>5 DEF SeenInv, ConflictsOnlyRaced
    <3> QED
      BY <2>1, <3>4, <3>5
  <2>5. ASSUME NEW b \in Adders, adding'[b] # NoOp,
               NEW r \in (DOMAIN table' \intersect seen'[b]) \ {replaces'[b]}
        PROVE  table'[r].op \notin ConflictsOf[adding'[b]]
    <3>1. b # a
      BY <1>2, <2>5 DEF AddCommit, TypeOK, AdderType
    <3>2. adding'[b] = adding[b] /\ replaces'[b] = replaces[b] /\ seen'[b] = seen[b]
      BY <1>2, <3>1 DEF AddCommit, TypeOK, AdderType
    <3>3. r # seq + 1
      BY <2>5, <3>2 DEF TypeOK, AdderType, TableType
    <3> QED
      BY <2>1, <2>2, <2>5, <3>2, <3>3 DEF SeenInv
  <2> QED
    BY <2>4, <2>5 DEF SeenInv, ConflictsOnlyRaced
<1>3. ASSUME NEW r \in DOMAIN table, Cancel(r) PROVE SeenInv'
  <2>1. UNCHANGED adderVars
    BY <1>3 DEF Cancel, Without
  <2>2. DOMAIN table' \subseteq DOMAIN table
    BY <1>3 DEF Cancel, Without
  <2>3. \A x \in DOMAIN table' : table'[x].op = table[x].op
    BY <1>3 DEF Cancel, Without, TypeOK, TableType, Rows
  <2> QED
    BY <2>1, <2>2, <2>3, RowsKept DEF adderVars
<1>4. ASSUME NEW r \in DOMAIN table, BecomesDue(r) PROVE SeenInv'
  <2>1. UNCHANGED adderVars
    BY <1>4 DEF BecomesDue
  <2>2. DOMAIN table' \subseteq DOMAIN table
    BY <1>4 DEF BecomesDue
  <2>3. \A x \in DOMAIN table' : table'[x].op = table[x].op
    BY <1>4 DEF BecomesDue, TypeOK, TableType, Rows
  <2> QED
    BY <2>1, <2>2, <2>3, RowsKept DEF adderVars
<1>5. ASSUME NEW p \in Procs, NEW op \in ops[p], List(p, op)
      PROVE  SeenInv'
  BY <1>5, RowsKept DEF List, tableVars, adderVars
<1>6. ASSUME NEW p \in Procs, NEW r \in todo[p], Check(p, r)
      PROVE  SeenInv'
  BY <1>6, RowsKept DEF Check, tableVars, adderVars
<1>7. ASSUME NEW p \in Procs, Finish(p) PROVE SeenInv'
  BY <1>7, RowsKept DEF Finish, tableVars, adderVars
<1>8. ASSUME NEW p \in Procs, Unlink(p) PROVE SeenInv'
  BY <1>8, RowsKept DEF Unlink, tableVars, adderVars
<1>9. ASSUME NEW p \in Procs, Open(p) PROVE SeenInv'
  BY <1>9, RowsKept DEF Open, tableVars, adderVars
<1>10. ASSUME NEW p \in Procs, Grab(p) PROVE SeenInv'
  BY <1>10, RowsKept DEF Grab, tableVars, adderVars
<1>11. ASSUME NEW p \in Procs, GrabFails(p) PROVE SeenInv'
  BY <1>11, RowsKept DEF GrabFails, tableVars, adderVars
<1>12. ASSUME NEW p \in Procs, HandlerSucceeds(p) PROVE SeenInv'
  <2>1. UNCHANGED adderVars
    BY <1>12 DEF HandlerSucceeds, Without
  <2>2. DOMAIN table' \subseteq DOMAIN table
    BY <1>12 DEF HandlerSucceeds, Without
  <2>3. \A x \in DOMAIN table' : table'[x].op = table[x].op
    BY <1>12 DEF HandlerSucceeds, Without, TypeOK, TableType, Rows
  <2> QED
    BY <2>1, <2>2, <2>3, RowsKept DEF adderVars
<1>13. ASSUME NEW p \in Procs, CutShort(p) PROVE SeenInv'
  BY <1>13, RowsKept DEF CutShort, tableVars, adderVars
<1>13a. ASSUME NEW p \in Procs, LockFails(p) PROVE SeenInv'
  BY <1>13a, RowsKept DEF LockFails, tableVars, adderVars
<1>14. ASSUME NEW p \in Procs, HandlerFails(p) PROVE SeenInv'
  <2>1. UNCHANGED adderVars
    BY <1>14 DEF HandlerFails
  <2>2. DOMAIN table' \subseteq DOMAIN table
    BY <1>14 DEF HandlerFails
  <2>3. \A x \in DOMAIN table' : table'[x].op = table[x].op
    BY <1>14 DEF HandlerFails, TypeOK, TableType, Rows
  <2> QED
    BY <2>1, <2>2, <2>3, RowsKept DEF adderVars
<1>15. ASSUME NEW p \in Procs, HandlerRaises(p) PROVE SeenInv'
  BY <1>15, RowsKept DEF HandlerRaises, tableVars, adderVars
<1>16. ASSUME NEW p \in Procs, Dies(p) PROVE SeenInv'
  BY <1>16, RowsKept DEF Dies, tableVars, adderVars
<1>17. CASE UNCHANGED vars
  BY <1>17, RowsKept DEF vars, tableVars, adderVars
<1>18. CASE Commands
  BY <1>18, <1>1, <1>2, <1>3 DEF Commands
<1>19. ASSUME NEW p \in Procs, Works(p) PROVE SeenInv'
  BY <1>19, <1>5, <1>6, <1>7, <1>8, <1>9, <1>10, <1>11, <1>12 DEF Works
<1> QED
  BY <1>4, <1>13, <1>13a, <1>14, <1>15, <1>16, <1>17, <1>18, <1>19 DEF Next

\* A request is pending together with an earlier one that it conflicts with only
\* if the two were added at the same time, for any operations and conflicts.
THEOREM ConflictsRaced == Spec => []ConflictsOnlyRaced
<1>1. Init => SeenInv
  BY DEF Init, SeenInv, ConflictsOnlyRaced
<1>2. SeenInv => ConflictsOnlyRaced
  BY DEF SeenInv
<1> QED
  BY <1>1, <1>2, TypeCorrect, SeenStep, PTL DEF Spec

-----------------------------------------------------------------------------
(* Lock files.                                                               *)

LEMMA LockStep == TypeOK /\ LockInv /\ [Next]_vars => LockInv'
<1> SUFFICES ASSUME TypeOK, LockInv, [Next]_vars PROVE LockInv'
  OBVIOUS
<1> USE RequestsAssumption DEF RequestsAssumption
<1>1. ASSUME NEW a \in Adders, NEW op \in Ops, NEW old \in {0} \union DOMAIN table,
             AddCheck(a, op, old)
      PROVE  LockInv'
  BY <1>1 DEF AddCheck, LockInv, lockVars
<1>2. ASSUME NEW a \in Adders, NEW due \in BOOLEAN, AddCommit(a, due)
      PROVE  LockInv'
  BY <1>2 DEF AddCommit, LockInv, lockVars
<1>3. ASSUME NEW r \in DOMAIN table, Cancel(r) PROVE LockInv'
  BY <1>3 DEF Cancel, Without, LockInv, lockVars
<1>4. ASSUME NEW r \in DOMAIN table, BecomesDue(r) PROVE LockInv'
  BY <1>4 DEF BecomesDue, LockInv, lockVars
<1>5. ASSUME NEW p \in Procs, NEW op \in ops[p], List(p, op)
      PROVE  LockInv'
  BY <1>5 DEF List, LockInv, lockVars
<1>6. ASSUME NEW p \in Procs, NEW r \in todo[p], Check(p, r)
      PROVE  LockInv'
  <2>1. ASSUME NEW x \in Procs, pc'[x] = "working" PROVE locked'[x]
    BY <1>6, <2>1 DEF Check, LockInv, TypeOK, PassType, LockType
  <2>2. ASSUME NEW x \in Procs, pc'[x] \in {"open", "grab", "unlink"} PROVE ~locked'[x]
    BY <1>6, <2>2 DEF Check, LockInv, TypeOK, PassType, LockType
  <2>3. ASSUME NEW x \in Procs, fd'[x] # 0, lockreq'[x] \notin torn'
        PROVE  fd'[x] = file'[lockreq'[x]]
    BY <1>6, <2>3 DEF Check, LockInv, TypeOK, PassType, LockType, InHand,
       Busy, Ids
  <2>4. ASSUME NEW x \in Procs, NEW y \in Procs, locked'[x], locked'[y],
               lockreq'[x] = lockreq'[y], fd'[x] = fd'[y]
        PROVE  x = y
    BY <1>6, <2>4 DEF Check, LockInv, TypeOK, PassType, LockType
  <2> QED
    BY <2>1, <2>2, <2>3, <2>4 DEF LockInv
<1>7. ASSUME NEW p \in Procs, Finish(p) PROVE LockInv'
  <2>1. ASSUME NEW x \in Procs, pc'[x] = "working" PROVE locked'[x]
    BY <1>7, <2>1 DEF Finish, Ended, LockInv, TypeOK, PassType, LockType
  <2>2. ASSUME NEW x \in Procs, pc'[x] \in {"open", "grab", "unlink"} PROVE ~locked'[x]
    BY <1>7, <2>2 DEF Finish, Ended, LockInv, TypeOK, PassType, LockType
  <2>3. ASSUME NEW x \in Procs, fd'[x] # 0, lockreq'[x] \notin torn'
        PROVE  fd'[x] = file'[lockreq'[x]]
    BY <1>7, <2>3 DEF Finish, Ended, LockInv, TypeOK, PassType, LockType, InHand,
       Busy, Ids
  <2>4. ASSUME NEW x \in Procs, NEW y \in Procs, locked'[x], locked'[y],
               lockreq'[x] = lockreq'[y], fd'[x] = fd'[y]
        PROVE  x = y
    BY <1>7, <2>4 DEF Finish, Ended, LockInv, TypeOK, PassType, LockType
  <2> QED
    BY <2>1, <2>2, <2>3, <2>4 DEF LockInv
<1>8. ASSUME NEW p \in Procs, Unlink(p) PROVE LockInv'
  <2>1. ASSUME NEW x \in Procs, pc'[x] = "working" PROVE locked'[x]
    BY <1>8, <2>1 DEF Unlink, Raises, Ended, LockInv, TypeOK, PassType, LockType
  <2>2. ASSUME NEW x \in Procs, pc'[x] \in {"open", "grab", "unlink"} PROVE ~locked'[x]
    BY <1>8, <2>2 DEF Unlink, Raises, Ended, LockInv, TypeOK, PassType, LockType
  <2>3. ASSUME NEW x \in Procs, fd'[x] # 0, lockreq'[x] \notin torn'
        PROVE  fd'[x] = file'[lockreq'[x]]
    <3>1. /\ file' = [file EXCEPT ![lockreq[p]] = 0]
          /\ torn \subseteq torn'
          /\ \A q \in Procs \ {p} :
                lockreq[q] = lockreq[p] /\ fd[q] = file[lockreq[p]]
                   => lockreq[p] \in torn'
      BY <1>8 DEF Unlink
    <3>2. \/ fd' = fd /\ lockreq' = lockreq /\ file[lockreq[p]] = 0
          \/ /\ fd' = [fd EXCEPT ![p] = 0]
             /\ lockreq' = [lockreq EXCEPT ![p] = 0]
      BY <1>8 DEF Unlink, Raises, Ended
    <3>3. fd[p] # 0 /\ lockreq[p] # 0 /\ lockreq[p] \in Ids
      BY <1>8 DEF Unlink, TypeOK, InHand, LockType, TableType, Ids
    <3>4. fd'[x] = fd[x] /\ lockreq'[x] = lockreq[x] /\ (x = p => file[lockreq[p]] = 0)
      BY <2>3, <3>2 DEF TypeOK, LockType
    <3>5. fd[x] = file[lockreq[x]]
      BY <2>3, <3>1, <3>4 DEF LockInv
    <3>6. x # p /\ lockreq[x] # lockreq[p]
      BY <2>3, <3>1, <3>3, <3>4, <3>5
    <3> QED
      BY <3>1, <3>4, <3>5, <3>6 DEF TypeOK, LockType
  <2>4. ASSUME NEW x \in Procs, NEW y \in Procs, locked'[x], locked'[y],
               lockreq'[x] = lockreq'[y], fd'[x] = fd'[y]
        PROVE  x = y
    BY <1>8, <2>4 DEF Unlink, Raises, Ended, LockInv, TypeOK, PassType, LockType
  <2> QED
    BY <2>1, <2>2, <2>3, <2>4 DEF LockInv
<1>9. ASSUME NEW p \in Procs, Open(p) PROVE LockInv'
  <2>1. ASSUME NEW x \in Procs, pc'[x] = "working" PROVE locked'[x]
    BY <1>9, <2>1 DEF Open, LockInv, TypeOK, PassType, LockType
  <2>2. ASSUME NEW x \in Procs, pc'[x] \in {"open", "grab", "unlink"} PROVE ~locked'[x]
    BY <1>9, <2>2 DEF Open, LockInv, TypeOK, PassType, LockType
  <2>3. ASSUME NEW x \in Procs, fd'[x] # 0, lockreq'[x] \notin torn'
        PROVE  fd'[x] = file'[lockreq'[x]]
    <3>1. PICK i \in Inodes :
             /\ file[cur[p]] # 0 => i = file[cur[p]]
             /\ fd' = [fd EXCEPT ![p] = i]
             /\ file' = [file EXCEPT ![cur[p]] = i]
      BY <1>9 DEF Open
    <3>2. lockreq' = [lockreq EXCEPT ![p] = cur[p]] /\ torn' = torn
      BY <1>9 DEF Open
    <3>3. cur[p] \in Ids
      BY <1>9 DEF Open, TypeOK, InHand, Busy, PassType, TableType, Ids
    <3>4. CASE x = p
      BY <3>1, <3>2, <3>3, <3>4 DEF TypeOK, LockType
    <3>5. CASE x # p
      <4>1. fd'[x] = fd[x] /\ lockreq'[x] = lockreq[x]
        BY <3>1, <3>2, <3>5 DEF TypeOK, LockType
      <4>2. fd[x] = file[lockreq[x]] /\ fd[x] # 0
        BY <2>3, <3>2, <4>1 DEF LockInv
      <4>3. lockreq[x] = cur[p] => i = file[cur[p]]
        BY <3>1, <4>2
      <4> QED
        BY <3>1, <3>3, <4>1, <4>2, <4>3 DEF TypeOK, LockType
    <3> QED
      BY <3>4, <3>5
  <2>4. ASSUME NEW x \in Procs, NEW y \in Procs, locked'[x], locked'[y],
               lockreq'[x] = lockreq'[y], fd'[x] = fd'[y]
        PROVE  x = y
    BY <1>9, <2>4 DEF Open, LockInv, TypeOK, PassType, LockType
  <2> QED
    BY <2>1, <2>2, <2>3, <2>4 DEF LockInv
<1>10. ASSUME NEW p \in Procs, Grab(p) PROVE LockInv'
  <2>1. ASSUME NEW x \in Procs, pc'[x] = "working" PROVE locked'[x]
    BY <1>10, <2>1 DEF Grab, LockInv, TypeOK, PassType, LockType
  <2>2. ASSUME NEW x \in Procs, pc'[x] \in {"open", "grab", "unlink"} PROVE ~locked'[x]
    BY <1>10, <2>2 DEF Grab, LockInv, TypeOK, PassType, LockType
  <2>3. ASSUME NEW x \in Procs, fd'[x] # 0, lockreq'[x] \notin torn'
        PROVE  fd'[x] = file'[lockreq'[x]]
    BY <1>10, <2>3 DEF Grab, LockInv, TypeOK, PassType, LockType, InHand,
       Busy, Ids
  <2>4. ASSUME NEW x \in Procs, NEW y \in Procs, locked'[x], locked'[y],
               lockreq'[x] = lockreq'[y], fd'[x] = fd'[y]
        PROVE  x = y
    BY <1>10, <2>4 DEF Grab, LockInv, TypeOK, PassType, LockType, LockFree
  <2> QED
    BY <2>1, <2>2, <2>3, <2>4 DEF LockInv
<1>11. ASSUME NEW p \in Procs, GrabFails(p) PROVE LockInv'
  <2>1. ASSUME NEW x \in Procs, pc'[x] = "working" PROVE locked'[x]
    BY <1>11, <2>1 DEF GrabFails, LockInv, TypeOK, PassType, LockType
  <2>2. ASSUME NEW x \in Procs, pc'[x] \in {"open", "grab", "unlink"} PROVE ~locked'[x]
    BY <1>11, <2>2 DEF GrabFails, LockInv, TypeOK, PassType, LockType
  <2>3. ASSUME NEW x \in Procs, fd'[x] # 0, lockreq'[x] \notin torn'
        PROVE  fd'[x] = file'[lockreq'[x]]
    BY <1>11, <2>3 DEF GrabFails, LockInv, TypeOK, PassType, LockType, InHand,
       Busy, Ids
  <2>4. ASSUME NEW x \in Procs, NEW y \in Procs, locked'[x], locked'[y],
               lockreq'[x] = lockreq'[y], fd'[x] = fd'[y]
        PROVE  x = y
    BY <1>11, <2>4 DEF GrabFails, LockInv, TypeOK, PassType, LockType
  <2> QED
    BY <2>1, <2>2, <2>3, <2>4 DEF LockInv
<1>12. ASSUME NEW p \in Procs, HandlerSucceeds(p) PROVE LockInv'
  <2>1. UNCHANGED lockVars
    BY <1>12 DEF HandlerSucceeds
  <2>2. pc' = [pc EXCEPT ![p] = "next"]
    BY <1>12 DEF HandlerSucceeds
  <2> QED
    BY <2>1, <2>2 DEF LockInv, lockVars, TypeOK, PassType
<1>13. ASSUME NEW p \in Procs, CutShort(p) PROVE LockInv'
  BY <1>13 DEF CutShort, LockInv, lockVars
<1>13a. ASSUME NEW p \in Procs, LockFails(p) PROVE LockInv'
  <2>1. ASSUME NEW x \in Procs, pc'[x] = "working" PROVE locked'[x]
    BY <1>13a, <2>1 DEF LockFails, LockInv, TypeOK, PassType, LockType
  <2>2. ASSUME NEW x \in Procs, pc'[x] \in {"open", "grab", "unlink"} PROVE ~locked'[x]
    BY <1>13a, <2>2 DEF LockFails, LockInv, TypeOK, PassType, LockType
  <2>3. ASSUME NEW x \in Procs, fd'[x] # 0, lockreq'[x] \notin torn'
        PROVE  fd'[x] = file'[lockreq'[x]]
    BY <1>13a, <2>3 DEF LockFails, LockInv, TypeOK, PassType, LockType, InHand,
       Busy, Ids
  <2>4. ASSUME NEW x \in Procs, NEW y \in Procs, locked'[x], locked'[y],
               lockreq'[x] = lockreq'[y], fd'[x] = fd'[y]
        PROVE  x = y
    BY <1>13a, <2>4 DEF LockFails, LockInv, TypeOK, PassType, LockType
  <2> QED
    BY <2>1, <2>2, <2>3, <2>4 DEF LockInv
<1>14. ASSUME NEW p \in Procs, HandlerFails(p) PROVE LockInv'
  <2>1. ASSUME NEW x \in Procs, pc'[x] = "working" PROVE locked'[x]
    BY <1>14, <2>1 DEF HandlerFails, Raises, LockInv, TypeOK, PassType, LockType
  <2>2. ASSUME NEW x \in Procs, pc'[x] \in {"open", "grab", "unlink"} PROVE ~locked'[x]
    BY <1>14, <2>2 DEF HandlerFails, Raises, LockInv, TypeOK, PassType, LockType
  <2>3. ASSUME NEW x \in Procs, fd'[x] # 0, lockreq'[x] \notin torn'
        PROVE  fd'[x] = file'[lockreq'[x]]
    BY <1>14, <2>3 DEF HandlerFails, Raises, LockInv, TypeOK, PassType, LockType, InHand,
       Busy, Ids
  <2>4. ASSUME NEW x \in Procs, NEW y \in Procs, locked'[x], locked'[y],
               lockreq'[x] = lockreq'[y], fd'[x] = fd'[y]
        PROVE  x = y
    BY <1>14, <2>4 DEF HandlerFails, Raises, LockInv, TypeOK, PassType, LockType
  <2> QED
    BY <2>1, <2>2, <2>3, <2>4 DEF LockInv
<1>15. ASSUME NEW p \in Procs, HandlerRaises(p) PROVE LockInv'
  <2>1. ASSUME NEW x \in Procs, pc'[x] = "working" PROVE locked'[x]
    BY <1>15, <2>1 DEF HandlerRaises, Raises, LockInv, TypeOK, PassType, LockType
  <2>2. ASSUME NEW x \in Procs, pc'[x] \in {"open", "grab", "unlink"} PROVE ~locked'[x]
    BY <1>15, <2>2 DEF HandlerRaises, Raises, LockInv, TypeOK, PassType, LockType
  <2>3. ASSUME NEW x \in Procs, fd'[x] # 0, lockreq'[x] \notin torn'
        PROVE  fd'[x] = file'[lockreq'[x]]
    BY <1>15, <2>3 DEF HandlerRaises, Raises, LockInv, TypeOK, PassType, LockType, InHand,
       Busy, Ids
  <2>4. ASSUME NEW x \in Procs, NEW y \in Procs, locked'[x], locked'[y],
               lockreq'[x] = lockreq'[y], fd'[x] = fd'[y]
        PROVE  x = y
    BY <1>15, <2>4 DEF HandlerRaises, Raises, LockInv, TypeOK, PassType, LockType
  <2> QED
    BY <2>1, <2>2, <2>3, <2>4 DEF LockInv
<1>16. ASSUME NEW p \in Procs, Dies(p) PROVE LockInv'
  <2>1. ASSUME NEW x \in Procs, pc'[x] = "working" PROVE locked'[x]
    BY <1>16, <2>1 DEF Dies, Ended, LockInv, TypeOK, PassType, LockType
  <2>2. ASSUME NEW x \in Procs, pc'[x] \in {"open", "grab", "unlink"} PROVE ~locked'[x]
    BY <1>16, <2>2 DEF Dies, Ended, LockInv, TypeOK, PassType, LockType
  <2>3. ASSUME NEW x \in Procs, fd'[x] # 0, lockreq'[x] \notin torn'
        PROVE  fd'[x] = file'[lockreq'[x]]
    BY <1>16, <2>3 DEF Dies, Ended, LockInv, TypeOK, PassType, LockType, InHand,
       Busy, Ids
  <2>4. ASSUME NEW x \in Procs, NEW y \in Procs, locked'[x], locked'[y],
               lockreq'[x] = lockreq'[y], fd'[x] = fd'[y]
        PROVE  x = y
    BY <1>16, <2>4 DEF Dies, Ended, LockInv, TypeOK, PassType, LockType
  <2> QED
    BY <2>1, <2>2, <2>3, <2>4 DEF LockInv
<1>17. CASE UNCHANGED vars
  BY <1>17 DEF vars, LockInv, lockVars
<1>18. CASE Commands
  BY <1>18, <1>1, <1>2, <1>3 DEF Commands
<1>19. ASSUME NEW p \in Procs, Works(p) PROVE LockInv'
  BY <1>19, <1>5, <1>6, <1>7, <1>8, <1>9, <1>10, <1>11, <1>12 DEF Works
<1> QED
  BY <1>4, <1>13, <1>13a, <1>14, <1>15, <1>16, <1>17, <1>18, <1>19 DEF Next

\* A lock file is locked once, by none that has given it back, and is the one by
\* that name unless it was removed while open.
THEOREM LockInvariant == Spec => []LockInv
<1>1. Init => LockInv
  BY DEF Init, LockInv
<1> QED
  BY <1>1, TypeCorrect, LockStep, PTL DEF Spec

\* Two processors, of any number, have the same request in work at the same time
\* only after its lock file was removed while one of them had it open.
THEOREM Exclusive == Spec => []ExclusiveUnlessTorn
<1>1. TypeOK /\ LockInv => ExclusiveUnlessTorn
  <2> SUFFICES ASSUME TypeOK, LockInv, NEW p \in Procs, NEW q \in Procs, p # q,
                      pc[p] = "working", pc[q] = "working", cur[p] = cur[q],
                      cur[p] \notin torn
               PROVE  FALSE
    BY DEF ExclusiveUnlessTorn
  <2>1. lockreq[p] = cur[p] /\ lockreq[q] = cur[p] /\ fd[p] # 0 /\ fd[q] # 0
    BY DEF TypeOK, InHand
  <2>2. fd[p] = file[cur[p]] /\ fd[q] = file[cur[p]] /\ locked[p] /\ locked[q]
    BY <2>1 DEF LockInv
  <2> QED
    BY <2>1, <2>2 DEF LockInv
<1> QED
  BY <1>1, TypeCorrect, LockInvariant, PTL

-----------------------------------------------------------------------------
(* Repeats.                                                                  *)

HandsOn(r) == {p \in Procs : cur[p] = r}

\* Why a request is not completed more often: a processor takes it in hand only
\* while it is in the table, when it has not been completed yet, and has it in
\* hand once.
RepeatInv ==
    \A r \in Ids :
        /\ r \in DOMAIN table \/ r > seq => times[r] = 0
        /\ times[r] + Cardinality(HandsOn(r)) =< Cardinality(Procs)

LEMMA HandsOnCount ==
    /\ Cardinality(Procs) \in Nat
    /\ \A S \in SUBSET Procs : IsFiniteSet(S) /\ Cardinality(S) \in Nat
    /\ \A S, R \in SUBSET Procs : R \subseteq S => Cardinality(R) =< Cardinality(S)
    /\ \A S \in SUBSET Procs :
          \A p \in S : Cardinality(S \ {p}) = Cardinality(S) - 1
<1>1. IsFiniteSet(Procs)
  BY RequestsAssumption DEF RequestsAssumption
<1>2. ASSUME NEW S \in SUBSET Procs PROVE IsFiniteSet(S)
  BY <1>1, FS_Subset
<1>3. ASSUME NEW S \in SUBSET Procs, NEW R \in SUBSET Procs, R \subseteq S
      PROVE  Cardinality(R) =< Cardinality(S)
  BY <1>2, <1>3, FS_Subset
<1>4. ASSUME NEW S \in SUBSET Procs, NEW p \in S
      PROVE  Cardinality(S \ {p}) = Cardinality(S) - 1
  BY <1>2, FS_RemoveElement
<1> QED
  BY <1>1, <1>2, <1>3, <1>4, FS_CardinalityType

\* What a step does to the requests in hand: those that are in the table may be
\* taken, all may be put down, and only the end of a handler counts.
LEMMA HandStep ==
    ASSUME TypeOK, [Next]_vars
    PROVE  \/ \E p \in Procs : HandlerSucceeds(p)
           \/ /\ times' = times
              /\ seq' \in {seq, seq + 1}
              /\ DOMAIN table' \subseteq DOMAIN table \union {seq'}
              /\ seq' = seq => DOMAIN table' \subseteq DOMAIN table
              /\ \A p \in Procs : cur'[p] \in {0, cur[p]} \union DOMAIN table
<1> DEFINE Idle == /\ times' = times
                   /\ seq' \in {seq, seq + 1}
                   /\ DOMAIN table' \subseteq DOMAIN table \union {seq'}
                   /\ seq' = seq => DOMAIN table' \subseteq DOMAIN table
                   /\ \A p \in Procs : cur'[p] \in {0, cur[p]} \union DOMAIN table
<1>0. cur \in [Procs -> 0 .. seq]
  BY DEF TypeOK, PassType
<1> USE <1>0 DEF tableVars, historyVars, passVars
<1>1. ASSUME NEW a \in Adders, NEW op \in Ops, NEW old \in {0} \union DOMAIN table,
             AddCheck(a, op, old)
      PROVE  Idle
  BY <1>1 DEF AddCheck
<1>2. ASSUME NEW a \in Adders, NEW due \in BOOLEAN, AddCommit(a, due) PROVE Idle
  <2>1. seq + 1 # seq
    BY DEF TypeOK, TableType
  <2> QED
    BY <1>2, <2>1 DEF AddCommit
<1>3. ASSUME NEW r \in DOMAIN table, Cancel(r) PROVE Idle
  BY <1>3 DEF Cancel, Without
<1>4. ASSUME NEW r \in DOMAIN table, BecomesDue(r) PROVE Idle
  BY <1>4 DEF BecomesDue
<1>5. ASSUME NEW p \in Procs, NEW op \in ops[p], List(p, op) PROVE Idle
  BY <1>5 DEF List
<1>6. ASSUME NEW p \in Procs, NEW r \in todo[p], Check(p, r) PROVE Idle
  BY <1>6 DEF Check
<1>7. ASSUME NEW p \in Procs, Finish(p) PROVE Idle
  BY <1>7 DEF Finish, Ended
<1>8. ASSUME NEW p \in Procs, Unlink(p) PROVE Idle
  BY <1>8 DEF Unlink, Raises, Ended
<1>9. ASSUME NEW p \in Procs, Open(p) PROVE Idle
  BY <1>9 DEF Open
<1>10. ASSUME NEW p \in Procs, Grab(p) PROVE Idle
  BY <1>10 DEF Grab
<1>11. ASSUME NEW p \in Procs, GrabFails(p) PROVE Idle
  BY <1>11 DEF GrabFails
<1>12. ASSUME NEW p \in Procs, CutShort(p) PROVE Idle
  BY <1>12 DEF CutShort
<1>12a. ASSUME NEW p \in Procs, LockFails(p) PROVE Idle
  BY <1>12a DEF LockFails
<1>13. ASSUME NEW p \in Procs, HandlerFails(p) PROVE Idle
  <2>1. DOMAIN table' = DOMAIN table
    BY <1>13 DEF HandlerFails
  <2> QED
    BY <1>13, <2>1 DEF HandlerFails, Raises
<1>14. ASSUME NEW p \in Procs, HandlerRaises(p) PROVE Idle
  BY <1>14 DEF HandlerRaises, Raises
<1>15. ASSUME NEW p \in Procs, Dies(p) PROVE Idle
  BY <1>15 DEF Dies, Ended
<1>16. CASE UNCHANGED vars
  BY <1>16 DEF vars
<1>17. CASE Commands
  BY <1>17, <1>1, <1>2, <1>3 DEF Commands
<1>18. ASSUME NEW p \in Procs, Works(p) PROVE Idle \/ HandlerSucceeds(p)
  BY <1>18, <1>5, <1>6, <1>7, <1>8, <1>9, <1>10, <1>11 DEF Works
<1> QED
  BY <1>4, <1>12, <1>12a, <1>13, <1>14, <1>15, <1>16, <1>17, <1>18 DEF Next

LEMMA RepeatStep == TypeOK /\ RepeatInv /\ [Next]_vars => RepeatInv'
<1> SUFFICES ASSUME TypeOK, RepeatInv, [Next]_vars, NEW r \in Ids
             PROVE  /\ r \in DOMAIN table' \/ r > seq' => times'[r] = 0
                    /\ times'[r] + Cardinality(HandsOn(r)') =< Cardinality(Procs)
  BY DEF RepeatInv
<1>1. /\ times \in [Ids -> Nat] /\ seq \in Nat /\ DOMAIN table \subseteq 1 .. seq
      /\ cur \in [Procs -> 0 .. seq] /\ r \in Nat \ {0}
  BY RequestsAssumption
  DEF TypeOK, HistoryType, TableType, PassType, Ids, RequestsAssumption
<1>2. /\ r \in DOMAIN table \/ r > seq => times[r] = 0
      /\ times[r] + Cardinality(HandsOn(r)) =< Cardinality(Procs)
  BY DEF RepeatInv
<1>3. /\ HandsOn(r) \in SUBSET Procs /\ HandsOn(r)' \in SUBSET Procs
      /\ Cardinality(HandsOn(r)) \in Nat /\ Cardinality(HandsOn(r)') \in Nat
      /\ Cardinality(HandsOn(r)') =< Cardinality(Procs) /\ Cardinality(Procs) \in Nat
  <2>1. HandsOn(r) \in SUBSET Procs /\ HandsOn(r)' \in SUBSET Procs
    BY DEF HandsOn
  <2> QED
    BY <2>1, HandsOnCount
<1>4. ASSUME NEW p \in Procs, HandlerSucceeds(p)
      PROVE  /\ r \in DOMAIN table' \/ r > seq' => times'[r] = 0
             /\ times'[r] + Cardinality(HandsOn(r)') =< Cardinality(Procs)
  <2>1. /\ DOMAIN table' = DOMAIN table \ {cur[p]}
        /\ seq' = seq
        /\ times' = [times EXCEPT ![cur[p]] = @ + 1]
        /\ cur' = [cur EXCEPT ![p] = 0]
        /\ cur[p] # 0
    BY <1>4 DEF HandlerSucceeds, Without, TypeOK, InHand, Busy
  <2>2. CASE cur[p] # r
    <3>1. times'[r] = times[r]
      BY <1>1, <2>1, <2>2
    <3>2. HandsOn(r)' = HandsOn(r)
      BY <1>1, <2>1, <2>2 DEF HandsOn
    <3> QED
      BY <1>1, <1>2, <2>1, <3>1, <3>2
  <2>3. CASE cur[p] = r
    <3>1. times'[r] = times[r] + 1 /\ r \notin DOMAIN table' /\ ~(r > seq')
      BY <1>1, <2>1, <2>3
    <3>2. HandsOn(r)' = HandsOn(r) \ {p} /\ p \in HandsOn(r)
      BY <1>1, <2>1, <2>3 DEF HandsOn
    <3>3. Cardinality(HandsOn(r)') = Cardinality(HandsOn(r)) - 1
      BY <1>3, <3>2, HandsOnCount
    <3> QED
      BY <1>1, <1>2, <1>3, <3>1, <3>3
  <2> QED
    BY <2>2, <2>3
<1>5. ASSUME times' = times,
             seq' \in {seq, seq + 1},
             DOMAIN table' \subseteq DOMAIN table \union {seq'},
             seq' = seq => DOMAIN table' \subseteq DOMAIN table,
             \A p \in Procs : cur'[p] \in {0, cur[p]} \union DOMAIN table
      PROVE  /\ r \in DOMAIN table' \/ r > seq' => times'[r] = 0
             /\ times'[r] + Cardinality(HandsOn(r)') =< Cardinality(Procs)
  <2>1. r \in DOMAIN table' \/ r > seq' => times'[r] = 0
    BY <1>1, <1>2, <1>5
  <2>2. CASE times'[r] = 0
    BY <1>3, <2>1, <2>2
  <2>3. CASE times'[r] # 0
    <3>1. r \notin DOMAIN table
      BY <1>2, <1>5, <2>3
    <3>2. HandsOn(r)' \subseteq HandsOn(r)
      BY <1>1, <1>5, <3>1 DEF HandsOn
    <3>3. Cardinality(HandsOn(r)') =< Cardinality(HandsOn(r))
      BY <1>3, <3>2, HandsOnCount
    <3> QED
      BY <1>1, <1>2, <1>3, <1>5, <2>1, <3>3
  <2> QED
    BY <2>2, <2>3
<1> QED
  BY <1>4, <1>5, HandStep

\* A request is not completed before it leaves the table, and what the processors
\* have completed of it and have in hand still is not more than one for each.
LEMMA RepeatInvariant == Spec => []RepeatInv
<1>1. Init => RepeatInv
  <2> SUFFICES ASSUME Init, NEW r \in Ids
               PROVE  /\ times[r] = 0
                      /\ times[r] + Cardinality(HandsOn(r)) =< Cardinality(Procs)
    BY DEF RepeatInv
  <2>1. HandsOn(r) \in SUBSET Procs /\ times[r] = 0
    BY DEF HandsOn, Init
  <2> QED
    BY <2>1, HandsOnCount
<1> QED
  BY <1>1, TypeCorrect, RepeatStep, PTL DEF Spec

\* A request is completed no more often than there are processors, however many
\* there are and however old the lists are that they work from.
THEOREM Repeats == Spec => []RepeatsBounded
<1>1. TypeOK /\ RepeatInv => RepeatsBounded
  <2> SUFFICES ASSUME TypeOK, RepeatInv, NEW r \in Ids
               PROVE  times[r] =< Cardinality(Procs)
    BY DEF RepeatsBounded
  <2>1. times[r] \in Nat /\ times[r] + Cardinality(HandsOn(r)) =< Cardinality(Procs)
    BY DEF RepeatInv, TypeOK, HistoryType
  <2>2. Cardinality(HandsOn(r)) \in Nat /\ Cardinality(Procs) \in Nat
    <3>1. HandsOn(r) \in SUBSET Procs
      BY DEF HandsOn
    <3> QED
      BY <3>1, HandsOnCount
  <2> QED
    BY <2>1, <2>2
<1> QED
  BY <1>1, TypeCorrect, RepeatInvariant, PTL

-----------------------------------------------------------------------------
(* The table and its processors implement RequestLedger.                     *)

LEMMA LedgerStep ==
    ASSUME TypeOK, EachAccountedFor, RepeatInv, [Next]_vars
    PROVE  [Ledger!Next]_(Ledger!vars)
<1> DEFINE status == [r \in Ids |-> StatusOf(r)]
<1>1. /\ seq \in 0 .. MaxRequests /\ MaxRequests \in Nat
      /\ DOMAIN table \subseteq 1 .. seq /\ withdrawn \subseteq 1 .. seq
      /\ replaces \in [Adders -> 0 .. seq] /\ cur \in [Procs -> 0 .. seq]
      /\ times \in [Ids -> Nat] /\ Ids = 1 .. MaxRequests
      /\ DOMAIN table \intersect withdrawn = {}
  BY RequestsAssumption
  DEF TypeOK, TableType, HistoryType, AdderType, PassType, Ids, EachAccountedFor,
      RequestsAssumption
<1>2. ASSUME times' = times, seq' = seq, DOMAIN table' = DOMAIN table,
             withdrawn' = withdrawn
      PROVE  UNCHANGED Ledger!vars
  BY <1>2 DEF Ledger!vars, StatusOf
<1>3. ASSUME NEW a \in Adders, NEW due \in BOOLEAN, AddCommit(a, due)
      PROVE  Ledger!Next
  <2>0. PICK new \in Nat, old \in Nat : new = seq + 1 /\ old = replaces[a]
    <3>1. seq + 1 \in Nat /\ replaces[a] \in Nat
      BY <1>1
    <3> QED
      BY <3>1
  <2>1. /\ seq' = new /\ times' = times /\ new \in Ids
        /\ DOMAIN table' = (DOMAIN table \ {old}) \union {new}
        /\ withdrawn' = withdrawn \union (DOMAIN table \intersect {old})
    BY <1>1, <1>3, <2>0 DEF AddCommit
  <2>2. /\ StatusOf(new) = "absent" /\ StatusOf(new)' = "pending"
        /\ \A x \in Ids : x < new => StatusOf(x) # "absent"
        /\ \A x \in Ids \ {new, old} : StatusOf(x)' = StatusOf(x)
    BY <1>1, <2>0, <2>1 DEF StatusOf
  <2>3. Ledger!Unused(new)
    BY <2>1, <2>2 DEF Ledger!Unused
  <2>4. CASE old \in DOMAIN table
    <3>1. /\ old \in Ids /\ old # new
          /\ StatusOf(old) = "pending" /\ StatusOf(old)' = "withdrawn"
      BY <1>1, <2>0, <2>1, <2>4 DEF StatusOf
    <3>2. status' = [status EXCEPT ![old] = "withdrawn", ![new] = "pending"]
      BY <2>1, <2>2, <3>1
    <3>3. Ledger!Replace(old, new)
      BY <2>1, <2>3, <3>1, <3>2 DEF Ledger!Replace
    <3> QED
      BY <2>1, <3>1, <3>3 DEF Ledger!Next
  <2>5. CASE old \notin DOMAIN table
    <3>1. old \in Ids => StatusOf(old)' = StatusOf(old)
      BY <1>1, <2>0, <2>1, <2>5 DEF StatusOf
    <3>2. status' = [status EXCEPT ![new] = "pending"]
      BY <2>1, <2>2, <3>1
    <3>3. Ledger!Post(new)
      BY <2>1, <2>3, <3>2 DEF Ledger!Post
    <3> QED
      BY <2>1, <3>3 DEF Ledger!Next
  <2> QED
    BY <2>4, <2>5
<1>4. ASSUME NEW r \in DOMAIN table, Cancel(r) PROVE Ledger!Next
  <2>1. /\ seq' = seq /\ times' = times /\ r \in Ids
        /\ DOMAIN table' = DOMAIN table \ {r}
        /\ withdrawn' = withdrawn \union {r}
    BY <1>1, <1>4 DEF Cancel, Without
  <2>2. /\ StatusOf(r) = "pending" /\ StatusOf(r)' = "withdrawn"
        /\ \A x \in Ids \ {r} : StatusOf(x)' = StatusOf(x)
    BY <1>1, <2>1 DEF StatusOf
  <2>3. status' = [status EXCEPT ![r] = "withdrawn"]
    BY <2>1, <2>2
  <2>4. Ledger!Withdraw(r)
    BY <2>1, <2>2, <2>3 DEF Ledger!Withdraw
  <2> QED
    BY <2>1, <2>4 DEF Ledger!Next
<1>5. ASSUME NEW p \in Procs, HandlerSucceeds(p) PROVE Ledger!Next
  <2>0. PICK r \in Nat : r = cur[p]
    BY <1>1
  <2>1. /\ seq' = seq /\ withdrawn' = withdrawn
        /\ DOMAIN table' = DOMAIN table \ {r}
        /\ times' = [times EXCEPT ![r] = @ + 1]
        /\ r # 0
    BY <1>5, <2>0 DEF HandlerSucceeds, Without, TypeOK, InHand, Busy
  <2>2. r \in Ids /\ r =< seq
    BY <1>1, <2>0, <2>1
  <2>3. \A x \in Ids \ {r} : StatusOf(x)' = StatusOf(x)
    BY <1>1, <2>1 DEF StatusOf
  <2>4. CASE r \in DOMAIN table
    <3>1. StatusOf(r) = "pending" /\ StatusOf(r)' = "done"
      BY <1>1, <2>1, <2>2, <2>4 DEF StatusOf
    <3>2. times[r] = 0
      BY <2>2, <2>4 DEF RepeatInv
    <3>3. times' = [times EXCEPT ![r] = 1]
      BY <1>1, <2>1, <2>2, <3>2
    <3>4. status' = [status EXCEPT ![r] = "done"]
      BY <2>2, <2>3, <3>1
    <3>5. Ledger!Complete(r)
      BY <2>2, <3>1, <3>2, <3>3, <3>4 DEF Ledger!Complete
    <3> QED
      BY <2>2, <3>5 DEF Ledger!Next
  <2>5. CASE r \notin DOMAIN table
    <3>1. StatusOf(r) \in {"done", "withdrawn"} /\ StatusOf(r)' = StatusOf(r)
      BY <1>1, <2>1, <2>2, <2>5 DEF StatusOf
    <3>2. times[r] < Cardinality(Procs)
      <4>1. HandsOn(r) \in SUBSET Procs /\ p \in HandsOn(r)
        BY <2>0 DEF HandsOn
      <4>2. /\ Cardinality(HandsOn(r)) \in Nat /\ Cardinality(Procs) \in Nat
            /\ Cardinality(HandsOn(r) \ {p}) \in Nat
            /\ Cardinality(HandsOn(r) \ {p}) = Cardinality(HandsOn(r)) - 1
        BY <4>1, HandsOnCount
      <4>3. times[r] + Cardinality(HandsOn(r)) =< Cardinality(Procs)
        BY <2>2 DEF RepeatInv
      <4> QED
        BY <1>1, <2>2, <4>2, <4>3
    <3>3. status' = status
      BY <2>3, <3>1
    <3>4. Ledger!Repeat(r)
      BY <2>1, <2>2, <3>1, <3>2, <3>3 DEF Ledger!Repeat
    <3> QED
      BY <2>2, <3>4 DEF Ledger!Next
  <2> QED
    BY <2>4, <2>5
<1> USE DEF tableVars, historyVars
<1>6. CASE UNCHANGED vars
  BY <1>2, <1>6 DEF vars
<1>7. CASE Commands
  <2>1. ASSUME NEW a \in Adders, NEW op \in Ops, NEW old \in {0} \union DOMAIN table,
               AddCheck(a, op, old)
        PROVE  UNCHANGED Ledger!vars
    BY <1>2, <2>1 DEF AddCheck
  <2> QED
    BY <1>3, <1>4, <1>7, <2>1 DEF Commands
<1>8. ASSUME NEW r \in DOMAIN table, BecomesDue(r) PROVE UNCHANGED Ledger!vars
  BY <1>2, <1>8 DEF BecomesDue
<1>9. ASSUME NEW p \in Procs, HandlerFails(p) PROVE UNCHANGED Ledger!vars
  <2>1. DOMAIN table' = DOMAIN table
    BY <1>9 DEF HandlerFails
  <2> QED
    BY <1>2, <1>9, <2>1 DEF HandlerFails
<1>10. ASSUME NEW p \in Procs,
              CutShort(p) \/ LockFails(p) \/ HandlerRaises(p) \/ Dies(p)
       PROVE  UNCHANGED Ledger!vars
  BY <1>2, <1>10 DEF CutShort, LockFails, HandlerRaises, Dies
<1>11. ASSUME NEW p \in Procs, Works(p)
       PROVE  HandlerSucceeds(p) \/ UNCHANGED Ledger!vars
  BY <1>2, <1>11 DEF Works, List, Check, Finish, Unlink, Open, Grab, GrabFails
<1> QED
  BY <1>5, <1>6, <1>7, <1>8, <1>9, <1>10, <1>11 DEF Next

\* Commands, processors and their lock files implement RequestLedger.
THEOREM Refinement == Spec => ImplementsLedger
<1>1. Init => Ledger!Init
  BY RequestsAssumption DEF Init, Ledger!Init, StatusOf, Ids, RequestsAssumption
<1>2. TypeOK /\ EachAccountedFor /\ RepeatInv /\ [Next]_vars
        => [Ledger!Next]_(Ledger!vars)
  BY LedgerStep
<1> QED
  BY <1>1, <1>2, TypeCorrect, AccountedFor, RepeatInvariant, PTL
  DEF Spec, ImplementsLedger, Ledger!Spec
=============================================================================
