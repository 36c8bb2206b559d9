--------------------------- MODULE EventStoreProofs ---------------------------
(***************************************************************************)
(* Proofs about EventStore for any number of instances and events.         *)
(***************************************************************************)
EXTENDS EventStore, TLAPS

\* Whoever is inside append holds the lock, so at most one instance is.
LockHeld == \A w \in Writers : pc[w] \in {"locked", "linked", "written"} => lock = w

\* Between reading the tail and writing, the tail does not move under the writer.
LinkIsFresh == \A w \in Writers : pc[w] = "linked" => prevHash[w] = TailHash /\ tail # "torn"

InHand == \A w \in Writers : pc[w] \in {"locked", "linked", "written"} => event[w] \in Events

BareHasRow == tail = "bare" => rows # <<>>

ChainInv == TypeOK /\ LockHeld /\ LinkIsFresh /\ InHand /\ BareHasRow /\ ChainIntact

\* The tail hash is a digest, and a row linked to it is a row.
LEMMA TailHashType ==
    ASSUME TypeOK
    PROVE  /\ GENESIS \in Digests
           /\ TailHash \in Digests
           /\ \A e \in Events : Row(TailHash, e) \in Rows /\ HashRow(TailHash, e) \in Digests
<1>1. GENESIS \in Digests
    BY DEF GENESIS, Digests
<1>2. TailHash \in Digests
    <2>1. rows \in Seq(Rows)
        BY DEF TypeOK
    <2>2. CASE rows # <<>>
        <3>1. Len(rows) \in 1..Len(rows)
            BY <2>1, <2>2
        <3>2. rows[Len(rows)] \in Rows
            BY <2>1, <3>1
        <3>3. QED BY <2>2, <3>2 DEF TailHash, Rows
    <2>3. QED BY <1>1, <2>2 DEF TailHash
<1>3. ASSUME NEW e \in Events PROVE HashRow(TailHash, e) \in Digests
    BY <1>2 DEF HashRow, Digests
<1>4. QED BY <1>1, <1>2, <1>3 DEF Row, Rows

\* A row linked to the tail of an intact chain gives an intact chain.
LEMMA ChainExtends ==
    ASSUME NEW e \in Events, TypeOK, ChainIntact
    PROVE  VerifyChain(Append(rows, Row(TailHash, e)))
<1> DEFINE r == Row(TailHash, e)
<1>1. rows \in Seq(Rows) /\ TailHash \in Digests
    BY TailHashType DEF TypeOK
<1>2. r \in Rows
    BY TailHashType
<1>3. ASSUME NEW i \in DOMAIN Append(rows, r)
      PROVE  /\ Append(rows, r)[i].prev_hash = IF i = 1 THEN GENESIS ELSE Append(rows, r)[i-1].hash
             /\ Append(rows, r)[i].hash = HashRow(Append(rows, r)[i].prev_hash, Append(rows, r)[i].event)
    <2>1. CASE i = Len(rows) + 1
        BY <1>1, <1>2, <2>1 DEF Row, TailHash
    <2>2. CASE i \in 1..Len(rows)
        BY <1>1, <1>2, <2>2 DEF ChainIntact, VerifyChain
    <2>3. QED BY <1>1, <1>2, <2>1, <2>2
<1>4. QED BY <1>3 DEF VerifyChain

\* Dropping the last row of an intact chain leaves an intact chain.
LEMMA ChainShrinks ==
    ASSUME TypeOK, ChainIntact, rows # <<>>
    PROVE  /\ VerifyChain(SubSeq(rows, 1, Len(rows) - 1))
           /\ SubSeq(rows, 1, Len(rows) - 1) \in Seq(Rows)
<1>1. rows \in Seq(Rows) /\ Len(rows) \in Nat \ {0}
    BY DEF TypeOK
<1>2. \A i \in 1..Len(rows) - 1 : SubSeq(rows, 1, Len(rows) - 1)[i] = rows[i]
    BY <1>1
<1>3. DOMAIN SubSeq(rows, 1, Len(rows) - 1) = 1..Len(rows) - 1
    BY <1>1
<1>4. QED BY <1>1, <1>2, <1>3 DEF ChainIntact, VerifyChain

\* Nothing the instances do changes the types.
LEMMA CutLineType ==
    ASSUME NEW w \in Writers, ChainInv, pc[w] = "linked", CutLine(w)
    PROVE  /\ rows' \in Seq(Rows) /\ VerifyChain(rows')
           /\ tail' \in {"clean", "bare", "torn"}
           /\ tail' = "bare" => rows' # <<>>
<1>1. /\ rows \in Seq(Rows) /\ event[w] \in Events /\ prevHash[w] = TailHash
      /\ Row(TailHash, event[w]) \in Rows
    BY TailHashType DEF ChainInv, TypeOK, InHand, LinkIsFresh
<1>2. CASE UNCHANGED <<rows, tail>>
    BY <1>2 DEF ChainInv, TypeOK, ChainIntact, BareHasRow
<1>3. CASE rows' = Append(rows, Row(prevHash[w], event[w])) /\ tail' = "bare"
    BY <1>1, <1>3, ChainExtends DEF ChainInv
<1>4. CASE tail' = "torn" /\ UNCHANGED rows
    BY <1>1, <1>4 DEF ChainInv, ChainIntact
<1>5. CASE tail = "bare" /\ rows' = SubSeq(rows, 1, Len(rows) - 1) /\ tail' = "torn"
    BY <1>5, ChainShrinks DEF ChainInv, BareHasRow
<1>6. QED BY <1>2, <1>3, <1>4, <1>5 DEF CutLine

LEMMA ChainInvInit == Init => ChainInv
BY NoneAssumption DEF Init, ChainInv, TypeOK, LockHeld, LinkIsFresh, InHand, BareHasRow,
   ChainIntact, VerifyChain, GENESIS, Digests

LEMMA ChainInvNext == ChainInv /\ [Next]_vars => ChainInv'
<1> SUFFICES ASSUME ChainInv, [Next]_vars PROVE ChainInv'
    OBVIOUS
<1> USE NoneAssumption DEF ChainInv, TypeOK, LockHeld, LinkIsFresh, InHand, BareHasRow, ChainIntact
<1>1. ASSUME NEW w \in Writers, AppendLock(w) PROVE ChainInv'
    BY <1>1 DEF AppendLock, TailHash, Fresh
<1>2. ASSUME NEW w \in Writers, ReadTail(w) PROVE ChainInv'
    BY <1>2, TailHashType DEF ReadTail, TailHash
<1>3. ASSUME NEW w \in Writers, ReadTailFails(w) PROVE ChainInv'
    BY <1>3, TailHashType DEF ReadTailFails, DropLocals, TailHash
<1>4. ASSUME NEW w \in Writers, WriteRow(w) PROVE ChainInv'
    <2>1. /\ event[w] \in Events /\ prevHash[w] = TailHash /\ TailHash \in Digests
          /\ HashRow(TailHash, event[w]) \in Digests /\ Row(TailHash, event[w]) \in Rows
        BY <1>4, TailHashType DEF WriteRow
    <2>2. CASE tail = "bare"
        BY <1>4, <2>1, <2>2, ChainShrinks DEF WriteRow, PutLine
    <2>3. CASE tail # "bare"
        <3>1. rows' = Append(rows, Row(TailHash, event[w])) /\ tail' = tail
            BY <1>4, <2>1, <2>3 DEF WriteRow, PutLine
        <3>2. rows' \in Seq(Rows)
            BY <2>1, <3>1
        <3>3. VerifyChain(Append(rows, Row(TailHash, event[w])))
            BY <2>1, ChainExtends
        <3>4. VerifyChain(rows')
            BY <3>1, <3>3
        <3>5. QED BY <1>4, <2>1, <2>3, <3>1, <3>2, <3>4 DEF WriteRow
    <2>4. QED BY <2>2, <2>3
<1>5. ASSUME NEW w \in Writers, WriteFails(w) PROVE ChainInv'
    <2>1. pc[w] = "linked" /\ CutLine(w)
        BY <1>5 DEF WriteFails
    <2>2. /\ rows' \in Seq(Rows) /\ VerifyChain(rows')
          /\ tail' \in {"clean", "bare", "torn"} /\ (tail' = "bare" => rows' # <<>>)
        BY <2>1, CutLineType
    <2>3. QED BY <1>5, <2>2, TailHashType DEF WriteFails, DropLocals
<1>6. ASSUME NEW w \in Writers, AppendReturns(w) PROVE ChainInv'
    BY <1>6, TailHashType DEF AppendReturns, DropLocals, TailHash
<1>7. ASSUME NEW w \in Writers, Query(w) PROVE ChainInv'
    BY <1>7 DEF Query, TailHash
<1>8. ASSUME NEW w \in Writers, Crash(w) PROVE ChainInv'
    <2>1. CASE pc[w] = "linked"
        <3>1. /\ rows' \in Seq(Rows) /\ VerifyChain(rows')
              /\ tail' \in {"clean", "bare", "torn"} /\ (tail' = "bare" => rows' # <<>>)
            BY <1>8, <2>1, CutLineType DEF Crash
        <3>2. QED BY <1>8, <2>1, <3>1, TailHashType DEF Crash, DropLocals
    <2>2. CASE pc[w] # "linked"
        BY <1>8, <2>2, TailHashType DEF Crash, DropLocals, TailHash
    <2>3. QED BY <2>1, <2>2
<1>9. ASSUME NEW w \in Writers, Restart(w) PROVE ChainInv'
    BY <1>9, TailHashType DEF Restart, TailHash
<1>10. CASE UNCHANGED vars
    BY <1>10 DEF vars, TailHash
<1>11. QED
    BY <1>1, <1>2, <1>3, <1>4, <1>5, <1>6, <1>7, <1>8, <1>9, <1>10 DEF Next, Finish

\* The variables of the event file always have their types.
THEOREM TypeCorrect == Spec => []TypeOK
<1>1. ChainInv => TypeOK
    BY DEF ChainInv
<1>2. QED BY <1>1, ChainInvInit, ChainInvNext, PTL DEF Spec

\* verify_chain holds in every reachable state, for any number of instances and
\* whichever writes are cut: a writer links its row to the row physically before.
THEOREM ChainAlwaysIntact == Spec => []ChainIntact
<1>1. ChainInv => ChainIntact
    BY DEF ChainInv
<1>2. QED BY <1>1, ChainInvInit, ChainInvNext, PTL DEF Spec

\* Behind a torn line nothing is ever written.
THEOREM TornStaysLast == Spec => TornIsFinal
<1>1. ChainInv /\ [Next]_vars => [tail # "torn"]_<<rows, tail>>
    <2> SUFFICES ASSUME ChainInv, [Next]_vars, tail = "torn" PROVE UNCHANGED <<rows, tail>>
        OBVIOUS
    <2>1. \A w \in Writers : pc[w] # "linked"
        BY DEF ChainInv, LinkIsFresh
    <2>2. QED
        BY <2>1 DEF Next, Finish, AppendLock, ReadTail, ReadTailFails, WriteRow, WriteFails,
           AppendReturns, Query, Crash, Restart, vars
<1>2. QED BY <1>1, ChainInvInit, ChainInvNext, PTL DEF Spec, TornIsFinal
-------------------------------------------------------------------------------
(***************************************************************************)
(* Refinement: without writes that lose only their newline, the store      *)
(* implements the shared log.                                              *)
(***************************************************************************)

\* Where the event of a running append is, and that acknowledged events are stored.
Placement ==
    /\ tail # "bare"
    /\ \A w \in Writers :
          /\ pc[w] \in {"locked", "linked"} => event[w] \notin InFile
          /\ pc[w] = "written" => event[w] \in InFile
          /\ pc[w] \in {"idle", "down"} => event[w] = None
    /\ acked \subseteq InFile

LogInv == ChainInv /\ Placement

\* The abstract log of the file.
FileLog == [i \in DOMAIN rows |-> rows[i].event]

LEMMA FileLogType ==
    ASSUME TypeOK
    PROVE  /\ FileLog \in Seq(Events) /\ DOMAIN FileLog = 1..Len(rows)
           /\ \A i \in 1..Len(rows) : FileLog[i] = rows[i].event
           /\ InFile = {FileLog[i] : i \in DOMAIN FileLog}
<1>1. rows \in Seq(Rows)
    BY DEF TypeOK
<1>2. \A i \in 1..Len(rows) : rows[i] \in Rows
    BY <1>1
<1>3. \A i \in 1..Len(rows) : rows[i].event \in Events
    BY <1>2 DEF Rows
<1>4. QED BY <1>1, <1>3 DEF FileLog, InFile

\* Writing a row adds its event to the abstract log and to the stored events.
LEMMA WriteExtends ==
    ASSUME NEW w \in Writers, LogInv, WriteRow(w)
    PROVE  /\ FileLog' = Append(FileLog, event[w])
           /\ InFile' = InFile \cup {event[w]}
           /\ tail' = tail
<1>1. rows' = Append(rows, Row(prevHash[w], event[w])) /\ tail' = tail
    BY DEF WriteRow, PutLine, LogInv, Placement
<1>2. rows \in Seq(Rows) /\ event[w] \in Events /\ Row(prevHash[w], event[w]) \in Rows
    BY TailHashType DEF LogInv, ChainInv, TypeOK, WriteRow, InHand, LinkIsFresh
<1>3. DOMAIN rows' = 1..Len(rows) + 1 /\ DOMAIN rows = 1..Len(rows) /\ Len(rows) \in Nat
    BY <1>1, <1>2
<1>4. /\ \A i \in 1..Len(rows) : rows'[i].event = rows[i].event
      /\ rows'[Len(rows) + 1].event = event[w]
    BY <1>1, <1>2 DEF Row
<1>5. InFile' = InFile \cup {event[w]}
    BY <1>3, <1>4 DEF InFile
<1>6. FileLog' = Append(FileLog, event[w])
    <2>1. FileLog \in Seq(Events) /\ Len(FileLog) = Len(rows)
        BY <1>3, FileLogType DEF LogInv, ChainInv
    <2>2. \A i \in 1..Len(rows) + 1 : FileLog'[i] = Append(FileLog, event[w])[i]
        BY <1>2, <1>3, <1>4, <2>1 DEF FileLog
    <2>3. FileLog' = [i \in 1..Len(rows) + 1 |-> FileLog'[i]]
        BY <1>3 DEF FileLog
    <2>4. Append(FileLog, event[w]) = [i \in 1..Len(rows) + 1 |-> Append(FileLog, event[w])[i]]
        BY <1>2, <2>1
    <2>5. QED BY <2>2, <2>3, <2>4
<1>7. QED BY <1>1, <1>5, <1>6

\* A cut write leaves the complete rows alone.
LEMMA CutKeepsRows ==
    ASSUME NEW w \in Writers, "bare" \notin ShortWrites, tail # "bare", CutLine(w)
    PROVE  rows' = rows /\ tail' # "bare"
BY DEF CutLine

LEMMA LogInvInit == Init => LogInv
BY ChainInvInit DEF Init, LogInv, Placement

LEMMA LogInvNext ==
    ASSUME "bare" \notin ShortWrites
    PROVE  LogInv /\ [Next]_vars => LogInv'
<1> SUFFICES ASSUME LogInv, [Next]_vars PROVE Placement'
    BY ChainInvNext DEF LogInv
<1> USE NoneAssumption DEF LogInv, Placement
<1>0. /\ TypeOK /\ LockHeld /\ LinkIsFresh /\ InHand
      /\ event \in [Writers -> Events \cup {None}] /\ prevHash \in [Writers -> Digests]
      /\ pc \in [Writers -> {"idle", "locked", "linked", "written", "down"}]
    BY DEF ChainInv, TypeOK
<1>1. ASSUME NEW w \in Writers, AppendLock(w) PROVE Placement'
    BY <1>0, <1>1 DEF AppendLock, Fresh, InFile, LockHeld
<1>2. ASSUME NEW w \in Writers, ReadTail(w) PROVE Placement'
    BY <1>0, <1>2 DEF ReadTail, InFile
<1>3. ASSUME NEW w \in Writers, ReadTailFails(w) PROVE Placement'
    BY <1>0, <1>3 DEF ReadTailFails, DropLocals, InFile
<1>4. ASSUME NEW w \in Writers, WriteRow(w) PROVE Placement'
    <2>1. InFile' = InFile \cup {event[w]} /\ tail' = tail
        BY <1>4, WriteExtends
    <2>2. \A x \in Writers : x # w => pc[x] \notin {"locked", "linked", "written"}
        BY <1>0, <1>4 DEF WriteRow, LockHeld
    <2>3. QED BY <1>0, <1>4, <2>1, <2>2 DEF WriteRow
<1>5. ASSUME NEW w \in Writers, WriteFails(w) PROVE Placement'
    <2>1. rows' = rows /\ tail' # "bare"
        BY <1>5, CutKeepsRows DEF WriteFails
    <2>2. QED BY <1>0, <1>5, <2>1 DEF WriteFails, DropLocals, InFile
<1>6. ASSUME NEW w \in Writers, AppendReturns(w) PROVE Placement'
    BY <1>0, <1>6 DEF AppendReturns, DropLocals, InFile
<1>7. ASSUME NEW w \in Writers, Query(w) PROVE Placement'
    BY <1>0, <1>7 DEF Query, InFile
<1>8. ASSUME NEW w \in Writers, Crash(w) PROVE Placement'
    <2>1. rows' = rows /\ tail' # "bare"
        BY <1>8, CutKeepsRows DEF Crash
    <2>2. QED BY <1>0, <1>8, <2>1 DEF Crash, DropLocals, InFile
<1>9. ASSUME NEW w \in Writers, Restart(w) PROVE Placement'
    BY <1>0, <1>9 DEF Restart, InFile
<1>10. CASE UNCHANGED vars
    BY <1>0, <1>10 DEF vars, InFile
<1>11. QED
    BY <1>1, <1>2, <1>3, <1>4, <1>5, <1>6, <1>7, <1>8, <1>9, <1>10 DEF Next, Finish

\* Every step of the store is a step of the shared log or leaves it alone.
LEMMA StoreStep ==
    ASSUME "bare" \notin ShortWrites, LogInv, [Next]_vars
    PROVE  [Log!SNext]_(Log!svars)
<1> USE DEF LogInv, Placement
<1>1. Log!Logged = InFile
    BY FileLogType DEF Log!Logged, FileLog, ChainInv
<1>2. ASSUME NEW w \in Writers, WriteRow(w) PROVE Log!SNext
    <2>1. event[w] \in Events /\ event[w] \notin InFile
        BY <1>2 DEF WriteRow, ChainInv, InHand
    <2>2. FileLog' = Append(FileLog, event[w]) /\ acked' = acked
        BY <1>2, WriteExtends DEF WriteRow
    <2>3. QED BY <1>1, <2>1, <2>2 DEF Log!SNext, Log!Extend, FileLog
<1>3. ASSUME NEW w \in Writers, AppendReturns(w) PROVE Log!SNext
    <2>1. event[w] \in Events /\ event[w] \in InFile
        BY <1>3 DEF AppendReturns, ChainInv, InHand
    <2>2. Log!Acknowledge(event[w])
        BY <1>1, <1>3, <2>1 DEF AppendReturns, Log!Acknowledge
    <2>3. QED BY <2>1, <2>2 DEF Log!SNext
<1>4. ASSUME UNCHANGED <<rows, acked>> PROVE UNCHANGED Log!svars
    BY <1>4 DEF Log!svars
<1>5. ASSUME NEW w \in Writers, WriteFails(w) \/ Crash(w) PROVE UNCHANGED Log!svars
    <2>1. rows' = rows
        BY <1>5, CutKeepsRows DEF WriteFails, Crash
    <2>2. QED BY <1>4, <1>5, <2>1 DEF WriteFails, Crash
<1>6. QED
    BY <1>2, <1>3, <1>4, <1>5 DEF Next, Finish, vars, AppendLock, ReadTail, ReadTailFails, Query, Restart

\* If no write is cut exactly before its newline, the store implements the shared
\* log: one total order for all instances, and no acknowledgement that is not stored.
THEOREM StoreImplementsLog ==
    ASSUME "bare" \notin ShortWrites
    PROVE  Spec => ImplementsSharedLog
<1>1. Init => Log!SInit
    BY DEF Init, Log!SInit
<1>2. LogInv /\ [Next]_vars => [Log!SNext]_(Log!svars)
    BY StoreStep
<1>3. QED BY <1>1, <1>2, LogInvInit, LogInvNext, PTL DEF Spec, ImplementsSharedLog, Log!SSpec
===============================================================================
