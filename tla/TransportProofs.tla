---------------------------- MODULE TransportProofs ----------------------------
(***************************************************************************)
(* What holds of the transport manager for any number of processes and     *)
(* threads, any policy and any number of calls: types, the policy, the     *)
(* mode in the file, the truth of the audit log, and the health in the     *)
(* file when calls take turns.                                             *)
(***************************************************************************)
EXTENDS Transport, TLAPS

\* What is known of a call under way: its policy was asked, what it says it did was done,
\* and from the moment it turns to the object its row is in the log.
CallTrue(c) ==
    call[c] # None =>
        /\ call[c].mode \in Allowed(call[c].workload)
        /\ call[c].step # "transmit" => Deed(call[c]) \in happened
        /\ call[c].step = "object" /\ Readable => \E d \in audit : d.id = call[c].id

IInv ==
    /\ TypeOK
    /\ ModeIsLastSet
    /\ \A c \in Callers : CallTrue(c)
    /\ PolicyHeld
    /\ AuditIsTrue
    /\ ReturnedIsAudited

-------------------------------------------------------------------------------
\* A policy names transport modes only.
LEMMA AllowedModes == \A w : Allowed(w) \subseteq TransportModes
  BY TransportAssumption DEF Allowed, TransportModes

\* A call's deed is typed like the call, and carries its id, workload and mode.
LEMMA DeedType ==
    ASSUME NEW k \in CallRecords
    PROVE  /\ Deed(k) \in Deeds
           /\ Deed(k).id = k.id /\ Deed(k).workload = k.workload /\ Deed(k).mode = k.mode
  BY DEF CallRecords, Deeds, Deed, Controls, States, TransportModes

\* Moving a call to another step changes nothing else of it.
LEMMA StepType ==
    ASSUME NEW k \in CallRecords, NEW step \in {"audit", "object"}
    PROVE  /\ [k EXCEPT !.step = step] \in CallRecords
           /\ [k EXCEPT !.step = step].step = step
           /\ [k EXCEPT !.step = step].id = k.id
           /\ [k EXCEPT !.step = step].mode = k.mode
           /\ [k EXCEPT !.step = step].workload = k.workload
           /\ Deed([k EXCEPT !.step = step]) = Deed(k)
  BY DEF CallRecords, Deed, Controls, States, TransportModes

\* The initial states satisfy the invariant.
LEMMA InitIInv == Init => IInv
  <1> SUFFICES ASSUME Init PROVE IInv
    OBVIOUS
  <1>1. TypeOK
    BY DEF Init, TypeOK, States, TransportModes
  <1>2. QED
    BY <1>1 DEF Init, IInv, ModeIsLastSet, CallTrue, PolicyHeld, AuditIsTrue, ReturnedIsAudited

\* Calls that others make leave what is known of c true, as long as the log only grows
\* and a torn log stays torn.
LEMMA OthersKeep ==
    ASSUME NEW c \in Callers, CallTrue(c), call'[c] = call[c],
           happened \subseteq happened', audit \subseteq audit', Readable' => Readable
    PROVE  CallTrue(c)'
  BY DEF CallTrue, Deed, Allowed

\* A switch of the mode, by a caller or by a process that starts.
LEMMA SetModeStep ==
    ASSUME IInv, NEW c \in Callers, NEW do \in Controls, SetMode(c, do),
           up' \subseteq Processes
    PROVE  IInv'
  <1>1. PICK m \in Allowed("transport_control") :
            /\ file' = Switched(file, m)
            /\ lastSet' = m
            /\ LET k == [id |-> calls + 1, do |-> do, workload |-> "transport_control", mode |-> m,
                         step |-> "audit", saw |-> Switched(file, m)]
               IN  /\ happened' = happened \cup {Deed(k)}
                   /\ call' = [call EXCEPT ![c] = k]
    BY DEF SetMode
  <1> DEFINE k == [id |-> calls + 1, do |-> do, workload |-> "transport_control", mode |-> m,
                   step |-> "audit", saw |-> Switched(file, m)]
  <1>2. m \in TransportModes
    BY AllowedModes
  <1>3. Switched(file, m) \in States /\ Switched(file, m).mode = m
    BY <1>2 DEF IInv, TypeOK, States, Switched
  <1>4. k \in CallRecords
    BY <1>2, <1>3 DEF IInv, TypeOK, CallRecords
  <1>5. /\ k.mode = m /\ k.workload = "transport_control" /\ k.step = "audit"
    OBVIOUS
  <1>6. happened' = happened \cup {Deed(k)} /\ call' = [call EXCEPT ![c] = k]
    BY <1>1
  <1>7. UNCHANGED <<pace, audit, tail, object, measured, done>> /\ calls' = calls + 1
    BY DEF SetMode
  <1> HIDE DEF k
  <1>8. Deed(k) \in Deeds /\ Deed(k).mode = m /\ Deed(k).workload = "transport_control"
    BY <1>4, <1>5, DeedType
  <1>9. TypeOK'
    BY <1>1, <1>2, <1>3, <1>4, <1>6, <1>7, <1>8 DEF IInv, TypeOK
  <1>10. \A x \in Callers : CallTrue(x)'
    <2> SUFFICES ASSUME NEW x \in Callers PROVE CallTrue(x)'
      OBVIOUS
    <2>1. CASE x = c
      <3>1. call'[x] = k
        BY <2>1, <1>6 DEF IInv, TypeOK
      <3>2. QED
        BY <3>1, <1>5, <1>6 DEF CallTrue, Allowed, Deed
    <2>2. CASE x # c
      <3>1. call'[x] = call[x]
        BY <2>2, <1>6 DEF IInv, TypeOK
      <3>2. QED
        BY <3>1, <1>6, <1>7, OthersKeep DEF IInv, Readable
    <2>3. QED
      BY <2>1, <2>2
  <1>11. PolicyHeld'
    BY <1>6, <1>8 DEF IInv, PolicyHeld, Allowed
  <1>12. QED
    BY <1>1, <1>3, <1>6, <1>7, <1>9, <1>10, <1>11
       DEF IInv, ModeIsLastSet, AuditIsTrue, ReturnedIsAudited, Readable

\* After a step of c the others' calls are as they were.
LEMMA CallsKeep ==
    ASSUME IInv, NEW c \in Callers, NEW v, call' = [call EXCEPT ![c] = v],
           happened \subseteq happened', audit \subseteq audit', Readable' => Readable,
           v # None => CallTrue(c)'
    PROVE  \A x \in Callers : CallTrue(x)'
  <1> SUFFICES ASSUME NEW x \in Callers PROVE CallTrue(x)'
    OBVIOUS
  <1>1. CASE x = c
    <2>1. call'[c] = v
      BY DEF IInv, TypeOK
    <2>2. CASE v = None
      BY <1>1, <2>1, <2>2 DEF CallTrue
    <2>3. QED
      BY <1>1, <2>2
  <1>2. CASE x # c
    <2>1. call'[x] = call[x]
      BY <1>2 DEF IInv, TypeOK
    <2>2. QED
      BY <2>1, OthersKeep DEF IInv
  <1>3. QED
    BY <1>1, <1>2

\* The call of a caller that is somewhere in it.
LEMMA AtCall ==
    ASSUME IInv, NEW c \in Callers, call[c] # None
    PROVE  /\ call[c] \in CallRecords /\ Deed(call[c]) \in Deeds
           /\ Deed(call[c]).id = call[c].id
           /\ Deed(call[c]).mode = call[c].mode /\ call[c].mode \in TransportModes
           /\ Deed(call[c]).mode \in Allowed(Deed(call[c]).workload)
           /\ call[c].id \in Nat
  <1>1. call[c] \in CallRecords
    BY DEF IInv, TypeOK
  <1>2. /\ Deed(call[c]) \in Deeds
        /\ Deed(call[c]).id = call[c].id
        /\ Deed(call[c]).workload = call[c].workload
        /\ Deed(call[c]).mode = call[c].mode
    BY <1>1, DeedType
  <1>3. call[c].mode \in TransportModes /\ call[c].id \in Nat
    BY <1>1 DEF CallRecords, TransportModes
  <1>4. call[c].mode \in Allowed(call[c].workload)
    BY DEF IInv, CallTrue
  <1>5. QED
    BY <1>1, <1>2, <1>3, <1>4

\* A send begins: it was asked in the mode it read.
LEMMA SendStep ==
    ASSUME IInv, NEW c \in Callers, Send(c)
    PROVE  IInv'
  <1>1. PICK w \in Workloads :
            /\ file.mode \in Allowed(w)
            /\ call' = [call EXCEPT ![c] =
                  [id |-> calls + 1, do |-> "send", workload |-> w, mode |-> file.mode,
                   step |-> "transmit", saw |-> file]]
    BY DEF Send
  <1> DEFINE k == [id |-> calls + 1, do |-> "send", workload |-> w, mode |-> file.mode,
                   step |-> "transmit", saw |-> file]
  <1>2. k \in CallRecords
    BY DEF IInv, TypeOK, CallRecords, States
  <1>3. k.mode = file.mode /\ k.workload = w /\ k.step = "transmit"
    OBVIOUS
  <1>4. call' = [call EXCEPT ![c] = k]
    BY <1>1
  <1>5. UNCHANGED <<pace, file, audit, tail, up, object, history>> /\ calls' = calls + 1
    BY DEF Send
  <1> HIDE DEF k
  <1>6. TypeOK'
    BY <1>2, <1>4, <1>5 DEF IInv, TypeOK, history
  <1>7. CallTrue(c)'
    <2>1. call'[c] = k
      BY <1>4 DEF IInv, TypeOK
    <2>2. QED
      BY <2>1, <1>1, <1>3 DEF CallTrue, Allowed
  <1>8. \A x \in Callers : CallTrue(x)'
    BY <1>4, <1>5, <1>7, CallsKeep DEF history, Readable
  <1>9. QED
    BY <1>5, <1>6, <1>8
       DEF IInv, history, ModeIsLastSet, PolicyHeld, Allowed, AuditIsTrue, ReturnedIsAudited, Readable

\* The request goes out; what is recorded of it is what the policy was asked about.
LEMMA SentStep ==
    ASSUME IInv, NEW c \in Callers, Answered(c) \/ AdapterRaises(c)
    PROVE  IInv'
  <1>1. call[c] # None /\ call[c].step = "transmit"
    BY DEF Answered, AdapterRaises, At
  <1>2. /\ call[c] \in CallRecords /\ Deed(call[c]) \in Deeds
        /\ Deed(call[c]).mode \in Allowed(Deed(call[c]).workload)
    BY <1>1, AtCall
  <1>3. Deed([call[c] EXCEPT !.mode = Adapter(c)]) = Deed(call[c])
    BY <1>2 DEF Adapter, Deed, CallRecords
  <1>4. happened' = happened \cup {Deed(call[c])}
    BY <1>3 DEF Answered, AdapterRaises
  <1>5. UNCHANGED <<pace, file, audit, tail, up, object, calls, lastSet, measured, done>>
    BY DEF Answered, AdapterRaises
  <1> DEFINE k == [call[c] EXCEPT !.step = "metrics"]
  <1>6. PICK v \in {k, None} : call' = [call EXCEPT ![c] = v]
    <2>1. CASE Answered(c)
      BY <2>1 DEF Answered, To, IInv, TypeOK
    <2>2. CASE AdapterRaises(c)
      BY <2>2 DEF AdapterRaises, Ends
    <2>3. QED
      BY <2>1, <2>2
  <1>7. /\ k \in CallRecords /\ Deed(k) = Deed(call[c]) /\ k.step = "metrics"
        /\ k.mode = call[c].mode /\ k.workload = call[c].workload
    BY <1>1, <1>2 DEF CallRecords, Deed, Controls
  <1> HIDE DEF k
  <1>8. TypeOK'
    BY <1>2, <1>4, <1>5, <1>6, <1>7 DEF IInv, TypeOK
  <1>9. v # None => CallTrue(c)'
    <2>1. ASSUME v # None PROVE call'[c] = k
      BY <2>1, <1>6 DEF IInv, TypeOK
    <2>2. call[c].mode \in Allowed(call[c].workload)
      BY <1>1 DEF IInv, CallTrue
    <2>3. QED
      BY <2>1, <2>2, <1>4, <1>7 DEF CallTrue, Allowed, Deed
  <1>10. \A x \in Callers : CallTrue(x)'
    BY <1>4, <1>5, <1>6, <1>9, CallsKeep DEF Readable
  <1>11. PolicyHeld'
    BY <1>2, <1>4 DEF IInv, PolicyHeld, Allowed
  <1>12. QED
    BY <1>4, <1>5, <1>8, <1>10, <1>11
       DEF IInv, ModeIsLastSet, AuditIsTrue, ReturnedIsAudited, Readable

\* The metrics of an answer change the health in the file and never its mode.
LEMMA MetricsStep ==
    ASSUME IInv, NEW c \in Callers, UpdateMetrics(c)
    PROVE  IInv'
  <1>1. call[c] # None /\ call[c].step = "metrics"
    BY DEF UpdateMetrics, At
  <1>2. call[c] \in CallRecords /\ call[c].mode \in TransportModes
    BY <1>1, AtCall
  <1>3. PICK h \in Healths(call[c].mode) :
            /\ file' = Measured(c, h)
            /\ call' = [call EXCEPT ![c].step = "audit", ![c].saw = Measured(c, h)]
    BY DEF UpdateMetrics
  <1>4. Measured(c, h) \in States /\ Measured(c, h).mode = file.mode
    BY DEF Measured, Healths, States, IInv, TypeOK
  <1> DEFINE k == [call[c] EXCEPT !.step = "audit", !.saw = Measured(c, h)]
  <1>5. call' = [call EXCEPT ![c] = k]
    BY <1>3 DEF IInv, TypeOK
  <1>6. /\ k \in CallRecords /\ Deed(k) = Deed(call[c]) /\ k.step = "audit"
        /\ k.mode = call[c].mode /\ k.workload = call[c].workload
    BY <1>2, <1>4 DEF CallRecords, Deed, Controls
  <1>7. /\ UNCHANGED <<pace, audit, tail, up, object, calls, happened, lastSet, done>>
        /\ measured' = call[c].mode
    BY DEF UpdateMetrics
  <1> HIDE DEF k
  <1>8. TypeOK'
    BY <1>2, <1>3, <1>4, <1>5, <1>6, <1>7 DEF IInv, TypeOK
  <1>9. CallTrue(c)'
    <2>1. call'[c] = k
      BY <1>5 DEF IInv, TypeOK
    <2>2. call[c].mode \in Allowed(call[c].workload) /\ Deed(call[c]) \in happened
      BY <1>1 DEF IInv, CallTrue
    <2>3. QED
      BY <2>1, <2>2, <1>6, <1>7 DEF CallTrue, Allowed, Deed
  <1>10. \A x \in Callers : CallTrue(x)'
    BY <1>5, <1>7, <1>9, CallsKeep DEF Readable
  <1>11. QED
    BY <1>3, <1>4, <1>7, <1>8, <1>10
       DEF IInv, ModeIsLastSet, PolicyHeld, Allowed, AuditIsTrue, ReturnedIsAudited, Readable

\* What an append may do to the log, whole or cut, of a call that stands before it.
LEMMA RowStep ==
    ASSUME IInv, NEW c \in Callers, At(c, "audit"), PutRow(RowOf(c)) \/ CutRow(RowOf(c))
    PROVE  /\ audit \subseteq audit' /\ audit' \subseteq audit \cup {Deed(call[c])}
           /\ audit' \subseteq Deeds /\ audit' \subseteq happened
           /\ tail' \in {"clean", "bare", "torn"}
           /\ Readable
  <1>1. call[c] # None /\ call[c].step = "audit"
    BY DEF At
  <1>2. Deed(call[c]) \in Deeds
    BY <1>1, AtCall
  <1>3. Deed(call[c]) \in happened
    BY <1>1 DEF IInv, CallTrue
  <1>4. audit \subseteq Deeds /\ audit \subseteq happened
    BY DEF IInv, TypeOK, AuditIsTrue
  <1>5. QED
    BY <1>2, <1>3, <1>4 DEF PutRow, CutRow, RowOf, Readable

\* The row of a call is written: it is about to write its object, or, at a start, done.
LEMMA LogStep ==
    ASSUME IInv, NEW c \in Callers, LogAudit(c)
    PROVE  IInv'
  <1>1. At(c, "audit") /\ PutRow(RowOf(c))
    BY DEF LogAudit
  <1>2. call[c] # None /\ call[c].step = "audit"
    BY <1>1 DEF At
  <1>3. /\ call[c] \in CallRecords /\ Deed(call[c]).id = call[c].id
    BY <1>2, AtCall
  <1>4. /\ audit \subseteq audit' /\ audit' \subseteq Deeds /\ audit' \subseteq happened
        /\ tail' \in {"clean", "bare", "torn"} /\ Readable
    BY <1>1, RowStep
  <1>5. Deed(call[c]) \in audit'
    BY <1>1 DEF PutRow, RowOf
  <1>6. UNCHANGED <<pace, file, up, object, calls, history>>
    BY DEF LogAudit
  <1> DEFINE k == [call[c] EXCEPT !.step = "object"]
  <1>7. PICK v \in {k, None} : call' = [call EXCEPT ![c] = v]
    <2>1. CASE call[c].do = "boot"
      BY <2>1 DEF LogAudit, Ends
    <2>2. CASE call[c].do # "boot"
      BY <2>2 DEF LogAudit, To, IInv, TypeOK
    <2>3. QED
      BY <2>1, <2>2
  <1>8. /\ k \in CallRecords /\ Deed(k) = Deed(call[c]) /\ k.step = "object" /\ k.id = call[c].id
        /\ k.mode = call[c].mode /\ k.workload = call[c].workload
    BY <1>3, StepType
  <1> HIDE DEF k
  <1>9. TypeOK'
    BY <1>4, <1>6, <1>7, <1>8 DEF IInv, TypeOK, history
  <1>10. v # None => CallTrue(c)'
    <2>1. ASSUME v # None PROVE call'[c] = k
      BY <2>1, <1>7 DEF IInv, TypeOK
    <2>2. call[c].mode \in Allowed(call[c].workload) /\ Deed(call[c]) \in happened
      BY <1>2 DEF IInv, CallTrue
    <2>3. QED
      BY <2>1, <2>2, <1>3, <1>5, <1>6, <1>8 DEF CallTrue, Allowed, Deed, history
  <1>11. \A x \in Callers : CallTrue(x)'
    BY <1>4, <1>6, <1>7, <1>10, CallsKeep DEF history
  <1>12. ReturnedIsAudited'
    BY <1>4, <1>6 DEF IInv, ReturnedIsAudited, history
  <1>13. QED
    BY <1>4, <1>6, <1>9, <1>11, <1>12
       DEF IInv, ModeIsLastSet, PolicyHeld, Allowed, AuditIsTrue, history

\* An append that fails ends the call; a row that still got there was a true one.
LEMMA LogFailsStep ==
    ASSUME IInv, NEW c \in Callers, AuditFails(c)
    PROVE  IInv'
  <1>1. /\ audit \subseteq audit' /\ audit' \subseteq Deeds /\ audit' \subseteq happened
        /\ tail' \in {"clean", "bare", "torn"} /\ (Readable' => Readable)
    <2>1. CASE CutRow(RowOf(c))
      BY <2>1, RowStep DEF AuditFails, At, Readable
    <2>2. CASE UNCHANGED <<audit, tail>>
      BY <2>2 DEF IInv, TypeOK, AuditIsTrue, Readable
    <2>3. QED
      BY <2>1, <2>2 DEF AuditFails
  <1>2. UNCHANGED <<pace, file, up, object, calls, history>> /\ call' = [call EXCEPT ![c] = None]
    BY DEF AuditFails, Ends
  <1>3. TypeOK'
    BY <1>1, <1>2 DEF IInv, TypeOK, history
  <1>4. \A x \in Callers : CallTrue(x)'
    BY <1>1, <1>2, CallsKeep DEF history
  <1>5. ReturnedIsAudited'
    BY <1>1, <1>2 DEF IInv, ReturnedIsAudited, history
  <1>6. QED
    BY <1>1, <1>2, <1>3, <1>4, <1>5 DEF IInv, ModeIsLastSet, PolicyHeld, Allowed, AuditIsTrue, history

\* The object is written and the call returns: its row is in the log.
LEMMA UpsertStep ==
    ASSUME IInv, NEW c \in Callers, Upsert(c)
    PROVE  IInv'
  <1>1. call[c] # None /\ call[c].step = "object"
    BY DEF Upsert, At
  <1>2. call[c] \in CallRecords /\ call[c].id \in Nat
    BY <1>1, AtCall
  <1>3. call[c].saw \in States
    BY <1>2 DEF CallRecords
  <1>4. /\ UNCHANGED <<pace, file, audit, tail, up, calls, happened, lastSet, measured>>
        /\ object' = [object EXCEPT ![Home[c]] = call[c].saw]
        /\ done' = done \cup {[id |-> call[c].id, by |-> Home[c]]}
        /\ call' = [call EXCEPT ![c] = None]
    BY DEF Upsert, Shown, Ends
  <1>5. Home[c] \in Processes
    BY TransportAssumption
  <1>6. TypeOK'
    BY <1>2, <1>3, <1>4, <1>5 DEF IInv, TypeOK
  <1>7. \A x \in Callers : CallTrue(x)'
    BY <1>4, CallsKeep DEF Readable
  <1>8. ReturnedIsAudited'
    BY <1>1, <1>4 DEF IInv, CallTrue, ReturnedIsAudited, Readable
  <1>9. QED
    BY <1>4, <1>6, <1>7, <1>8 DEF IInv, ModeIsLastSet, PolicyHeld, Allowed, AuditIsTrue

\* A process dies with its threads, maybe in the middle of an append.
LEMMA CrashStep ==
    ASSUME IInv, NEW p \in Processes, Crash(p)
    PROVE  IInv'
  <1>1. /\ audit \subseteq audit' /\ audit' \subseteq Deeds /\ audit' \subseteq happened
        /\ tail' \in {"clean", "bare", "torn"} /\ (Readable' => Readable)
    <2>1. CASE UNCHANGED <<audit, tail>>
      BY <2>1 DEF IInv, TypeOK, AuditIsTrue, Readable
    <2>2. ASSUME NEW c \in Callers, At(c, "audit"), PutRow(RowOf(c)) \/ CutRow(RowOf(c))
          PROVE  /\ audit \subseteq audit' /\ audit' \subseteq Deeds /\ audit' \subseteq happened
                 /\ tail' \in {"clean", "bare", "torn"} /\ (Readable' => Readable)
      BY <2>2, RowStep
    <2>3. QED
      BY <2>1, <2>2 DEF Crash
  <1>2. /\ UNCHANGED <<pace, file, calls, history>> /\ up' = up \ {p}
        /\ call' = [c \in Callers |-> IF Home[c] = p THEN None ELSE call[c]]
        /\ object' \in {object, [object EXCEPT ![p] = None]}
    BY DEF Crash
  <1>3. TypeOK'
    BY <1>1, <1>2 DEF IInv, TypeOK, history
  <1>4. \A x \in Callers : CallTrue(x)'
    <2> SUFFICES ASSUME NEW x \in Callers PROVE CallTrue(x)'
      OBVIOUS
    <2>1. CASE Home[x] = p
      BY <2>1, <1>2 DEF CallTrue
    <2>2. CASE Home[x] # p
      <3>1. call'[x] = call[x]
        BY <2>2, <1>2
      <3>2. QED
        BY <3>1, <1>1, <1>2, OthersKeep DEF IInv, history
    <2>3. QED
      BY <2>1, <2>2
  <1>5. ReturnedIsAudited'
    BY <1>1, <1>2 DEF IInv, ReturnedIsAudited, history
  <1>6. QED
    BY <1>1, <1>2, <1>3, <1>4, <1>5 DEF IInv, ModeIsLastSet, PolicyHeld, Allowed, AuditIsTrue, history

\* Every step keeps the invariant.
LEMMA NextIInv == IInv /\ [Next]_vars => IInv'
  <1> SUFFICES ASSUME IInv, [Next]_vars PROVE IInv'
    OBVIOUS
  <1>1. ASSUME NEW p \in Processes, Start(p) PROVE IInv'
    <2>1. up' \subseteq Processes
      BY <1>1 DEF Start, IInv, TypeOK
    <2>2. ASSUME NEW c \in Callers, SetMode(c, "boot") PROVE IInv'
      BY <2>1, <2>2, SetModeStep DEF Controls
    <2>3. CASE UNCHANGED <<pace, file, audit, tail, call, object, calls, history>>
      BY <2>1, <2>3 DEF IInv, TypeOK, history, ModeIsLastSet, CallTrue, Deed, Allowed, PolicyHeld,
                        AuditIsTrue, ReturnedIsAudited, Readable
    <2>4. QED
      BY <1>1, <2>2, <2>3 DEF Start
  <1>2. ASSUME NEW c \in Callers, Set(c) PROVE IInv'
    <2>1. up' \subseteq Processes /\ SetMode(c, "set")
      BY <1>2 DEF Set, IInv, TypeOK
    <2>2. QED
      BY <2>1, SetModeStep DEF Controls
  <1>3. ASSUME NEW c \in Callers, StepFails(c) PROVE IInv'
    <2>1. /\ UNCHANGED <<pace, file, audit, tail, up, object, calls, history>>
          /\ call' = [call EXCEPT ![c] = None]
      BY <1>3 DEF StepFails, Ends
    <2>2. \A x \in Callers : CallTrue(x)'
      BY <2>1, CallsKeep DEF history, Readable
    <2>3. QED
      BY <2>1, <2>2 DEF IInv, TypeOK, history, ModeIsLastSet, PolicyHeld, Allowed,
                        AuditIsTrue, ReturnedIsAudited, Readable
  <1>4. CASE UNCHANGED vars
    BY <1>4 DEF IInv, vars, TypeOK, ModeIsLastSet, CallTrue, Deed, Allowed, PolicyHeld,
                AuditIsTrue, ReturnedIsAudited, Readable
  <1>5. QED
    BY <1>1, <1>2, <1>3, <1>4, SendStep, SentStep, MetricsStep, LogStep, LogFailsStep, UpsertStep,
       CrashStep DEF Next

\* In every state that is reached, for any processes, threads, workloads, policy and
\* number of calls, the variables have their types (TransportManager and its stores).
THEOREM TransportTypes == Spec => []TypeOK
  BY InitIInv, NextIInv, PTL DEF Spec, IInv

\* No request leaves, and no switch is made, in a mode its workload may not use, although
\* the mode is read long before the request leaves (transport_manager.py, send).
THEOREM TransportPolicy == Spec => []PolicyHeld
  BY InitIInv, NextIInv, PTL DEF Spec, IInv

\* The file names the mode of the last switch: no write of metrics that raced with it
\* has undone it (state_store.py, _mutate_state).
THEOREM TransportMode == Spec => []ModeIsLastSet
  BY InitIInv, NextIInv, PTL DEF Spec, IInv

\* Every row of the audit log tells of a request or a switch that happened, in the mode
\* it happened in, whatever raced, failed or crashed (audit_logger.py, log).
THEOREM TransportAuditTrue == Spec => []AuditIsTrue
  BY InitIInv, NextIInv, PTL DEF Spec, IInv

\* A call that returned has its row in the log as long as the log can be read.
THEOREM TransportAuditComplete == Spec => []ReturnedIsAudited
  BY InitIInv, NextIInv, PTL DEF Spec, IInv
-------------------------------------------------------------------------------
\* When calls take turns one caller at most is in a call, and until its health is in the
\* file a send was made in the mode the file names.
TurnInv ==
    pace = "turns" =>
        /\ \A x, y \in Callers : call[x] # None /\ call[y] # None => x = y
        /\ \A x \in Callers :
              call[x] # None /\ call[x].step \in {"transmit", "metrics"} => call[x].mode = file.mode
        /\ file.health \notin {"unknown", "switching"} => measured = file.mode

\* A step that leaves the file alone and begins no call.
LEMMA OngoingKeepsTurns ==
    ASSUME TurnInv, UNCHANGED <<pace, file, measured>>,
           \A x \in Callers : call'[x] # None =>
               /\ call[x] # None /\ call'[x].mode = call[x].mode
               /\ call'[x].step \in {"transmit", "metrics"} =>
                     call[x].step \in {"transmit", "metrics"}
    PROVE  TurnInv'
  BY DEF TurnInv

\* The same when the one call that moves on, or ends, is that of c.
LEMMA OneMoves ==
    ASSUME IInv, TurnInv, UNCHANGED <<pace, file, measured>>, NEW c \in Callers, call[c] # None,
           \/ Ends(c)
           \/ To(c, "metrics") /\ call[c].step = "transmit"
           \/ To(c, "object")
    PROVE  TurnInv'
  <1>1. call[c] \in CallRecords
    BY AtCall
  <1>2. PICK v : /\ call' = [call EXCEPT ![c] = v]
                 /\ v # None => /\ v.mode = call[c].mode
                                /\ v.step \in {"transmit", "metrics"} => call[c].step = "transmit"
    <2>1. CASE Ends(c)
      BY <2>1 DEF Ends
    <2>2. ASSUME NEW step \in {"metrics", "object"}, To(c, step),
                 step = "metrics" => call[c].step = "transmit"
          PROVE  LET k == [call[c] EXCEPT !.step = step]
                 IN  /\ call' = [call EXCEPT ![c] = k]
                     /\ k.mode = call[c].mode
                     /\ k.step \in {"transmit", "metrics"} => call[c].step = "transmit"
      BY <1>1, <2>2 DEF To, CallRecords, IInv, TypeOK
    <2>3. QED
      BY <2>1, <2>2
  <1>3. \A x \in Callers : call'[x] = IF x = c THEN v ELSE call[x]
    BY <1>2 DEF IInv, TypeOK
  <1>4. QED
    BY <1>2, <1>3, OngoingKeepsTurns

\* A switch is made with no call under way and leaves "switching" in the file.
LEMMA SetModeKeepsTurns ==
    ASSUME IInv, TurnInv, NEW c \in Callers, NEW do, SetMode(c, do)
    PROVE  TurnInv'
  <1>1. PICK m \in Allowed("transport_control") :
            LET k == [id |-> calls + 1, do |-> do, workload |-> "transport_control", mode |-> m,
                      step |-> "audit", saw |-> Switched(file, m)]
            IN  file' = k.saw /\ call' = [call EXCEPT ![c] = k]
    BY DEF SetMode
  <1> DEFINE k == [id |-> calls + 1, do |-> do, workload |-> "transport_control", mode |-> m,
                   step |-> "audit", saw |-> Switched(file, m)]
  <1>2. k.step = "audit" /\ file' = Switched(file, m) /\ call' = [call EXCEPT ![c] = k]
    BY <1>1
  <1>3. file'.health = "switching"
    BY <1>2 DEF Switched, IInv, TypeOK, States
  <1> HIDE DEF k
  <1>4. \A x \in Callers : call'[x] = IF x = c THEN k ELSE call[x]
    BY <1>2 DEF IInv, TypeOK
  <1>5. pace' = pace /\ (pace = "turns" => \A x \in Callers : call[x] = None)
    BY DEF SetMode, Free
  <1>6. QED
    BY <1>2, <1>3, <1>4, <1>5 DEF TurnInv

\* Every step keeps it.
LEMMA TurnNext == IInv /\ TurnInv /\ [Next]_vars => TurnInv'
  <1> SUFFICES ASSUME IInv, TurnInv, [Next]_vars PROVE TurnInv'
    OBVIOUS
  <1>1. ASSUME NEW p \in Processes, Start(p) PROVE TurnInv'
    <2>1. CASE UNCHANGED <<pace, file, audit, tail, call, object, calls, history>>
      BY <2>1 DEF TurnInv, history
    <2>2. QED
      BY <1>1, <2>1, SetModeKeepsTurns DEF Start
  <1>2. ASSUME NEW p \in Processes, Crash(p) PROVE TurnInv'
    <2>1. \A x \in Callers : call'[x] # None => call'[x] = call[x]
      BY <1>2 DEF Crash
    <2>2. UNCHANGED <<pace, file, measured>>
      BY <1>2 DEF Crash, history
    <2>3. QED
      BY <2>1, <2>2, OngoingKeepsTurns
  <1>3. ASSUME NEW c \in Callers, Set(c) PROVE TurnInv'
    BY <1>3, SetModeKeepsTurns DEF Set
  <1>4. ASSUME NEW c \in Callers, Send(c) PROVE TurnInv'
    <2>1. PICK k : k.mode = file.mode /\ call' = [call EXCEPT ![c] = k]
      BY <1>4 DEF Send
    <2>2. \A x \in Callers : call'[x] = IF x = c THEN k ELSE call[x]
      BY <2>1 DEF IInv, TypeOK
    <2>3. /\ UNCHANGED <<pace, file, measured>>
          /\ pace = "turns" => \A x \in Callers : call[x] = None
      BY <1>4 DEF Send, Free, history
    <2>4. QED
      BY <2>1, <2>2, <2>3 DEF TurnInv
  <1>5. ASSUME NEW c \in Callers, UpdateMetrics(c) PROVE TurnInv'
    <2>1. call[c] # None /\ call[c].step = "metrics"
      BY <1>5 DEF UpdateMetrics, At
    <2>2. PICK h \in Healths(call[c].mode) :
              /\ file' = Measured(c, h)
              /\ call' = [call EXCEPT ![c].step = "audit", ![c].saw = Measured(c, h)]
      BY <1>5 DEF UpdateMetrics
    <2>3. file'.mode = file.mode
      BY <2>2 DEF Measured, IInv, TypeOK, States
    <2>4. call[c] \in CallRecords
      BY <2>1, AtCall
    <2> DEFINE k == [call[c] EXCEPT !.step = "audit", !.saw = Measured(c, h)]
    <2>5. k.step = "audit" /\ call' = [call EXCEPT ![c] = k]
      BY <2>2, <2>4 DEF CallRecords, IInv, TypeOK
    <2> HIDE DEF k
    <2>6. \A x \in Callers : call'[x] = IF x = c THEN k ELSE call[x]
      BY <2>5 DEF IInv, TypeOK
    <2>7. pace' = pace /\ measured' = call[c].mode
      BY <1>5 DEF UpdateMetrics
    <2>8. QED
      BY <2>1, <2>3, <2>5, <2>6, <2>7 DEF TurnInv
  <1>6. ASSUME NEW c \in Callers, Answered(c) \/ AdapterRaises(c) PROVE TurnInv'
    BY <1>6, OneMoves DEF Answered, AdapterRaises, At
  <1>7. ASSUME NEW c \in Callers, LogAudit(c) \/ AuditFails(c) PROVE TurnInv'
    BY <1>7, OneMoves DEF LogAudit, AuditFails, At, history
  <1>8. ASSUME NEW c \in Callers, Upsert(c) \/ StepFails(c) PROVE TurnInv'
    BY <1>8, OneMoves DEF Upsert, StepFails, At, history
  <1>9. CASE UNCHANGED vars
    BY <1>9 DEF TurnInv, vars
  <1>10. QED
    BY <1>1, <1>2, <1>3, <1>4, <1>5, <1>6, <1>7, <1>8, <1>9 DEF Next

\* With calls that take turns, the health in the file is that of the active mode
\* (state_store.py, set_mode and update_metrics).
THEOREM TransportTurnsHealth == Spec => []TurnsHealthOfMode
  <1>1. Init => TurnInv
    BY DEF Init, TurnInv
  <1>2. TurnInv => TurnsHealthOfMode
    BY DEF TurnInv, TurnsHealthOfMode
  <1>3. QED
    BY <1>1, <1>2, InitIInv, NextIInv, TurnNext, PTL DEF Spec
===============================================================================
