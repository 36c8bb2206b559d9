------------------------------- MODULE Transport -------------------------------
(***************************************************************************)
(* The transport manager (services/transport): several processes, each     *)
(* with several threads, share one state file that names the active mode,  *)
(* and one audit log.  A send reads the mode once and then works for as    *)
(* long as the network takes, while others may switch the mode.  Every     *)
(* access to the state file is one read, change and rename under its lock, *)
(* every append to the audit log is one append under its lock.  After the  *)
(* call the tools write what they saw of the file into the process's own   *)
(* object qso://infra.transport.                                           *)
(***************************************************************************)
EXTENDS Naturals

CONSTANTS
    Processes,
    Callers,        \* the threads that make calls
    Home,           \* the process of each caller
    Workloads,      \* what a send may be for
    Policy,         \* the modes each listed workload may use
    MaxCalls,       \* bound on the calls that are begun, for each pace
    Paces,          \* see pace
    None

TransportModes == {"direct", "vpn", "tor"}

ASSUME TransportAssumption ==
    /\ Home \in [Callers -> Processes]
    /\ \A w \in DOMAIN Policy : Policy[w] \subseteq TransportModes
    /\ Paces \subseteq {"turns", "races"} /\ \A p \in Paces : MaxCalls[p] \in Nat

VARIABLES
    pace,       \* "turns": a call begins when no other is under way; "races": any time
    file,       \* the state file
    audit,      \* the rows of the audit log (their order and chain are as in EventStore)
    tail,       \* how the log ends: "clean", "bare" (no newline) or "torn" (half a row)
    up,         \* the processes that run
    call,       \* the call each caller is in, None when idle
    object,     \* qso://infra.transport in each process, None before its create
    calls,      \* the calls begun so far
    happened,   \* what was really sent or switched (history variable)
    lastSet,    \* the mode of the last switch (history variable)
    measured,   \* the mode the numbers in the file were measured in (history variable)
    done        \* the calls that returned (history variable)

vars == <<pace, file, audit, tail, up, call, object, calls, happened, lastSet, measured, done>>
history == <<happened, lastSet, measured, done>>

-------------------------------------------------------------------------------
\* TransportPolicyEngine.allows: a workload nobody listed is treated like model training.
Allowed(w) ==
    IF w \in DOMAIN Policy THEN Policy[w]
    ELSE IF "model_training" \in DOMAIN Policy THEN Policy["model_training"] ELSE {"direct"}

\* What the health monitor may say of a mode.  The direct and the VPN adapter raise when
\* a request fails, so only Tor, whose adapter turns failures into answers, ever degrades.
Healths(m) == {"healthy", "slow"} \cup (IF m = "tor" THEN {"degraded"} ELSE {})

Readable == tail # "torn"

Init ==
    /\ pace \in Paces
    /\ file = [mode |-> "direct", health |-> "unknown"]
    /\ audit = {}
    /\ tail = "clean"
    /\ up = {}
    /\ call = [c \in Callers |-> None]
    /\ object = [p \in Processes |-> None]
    /\ calls = 0
    /\ happened = {}
    /\ lastSet = "direct"
    /\ measured = "direct"
    /\ done = {}

Free(c) ==
    /\ call[c] = None
    /\ calls < MaxCalls[pace]
    /\ pace = "turns" => \A x \in Callers : call[x] = None
    /\ \A x \in Callers : Home[x] = Home[c] /\ call[x] # None => call[x].do # "boot"

\* The call goes on with step, or ends.
To(c, step) == call' = [call EXCEPT ![c].step = step]
Ends(c) == call' = [call EXCEPT ![c] = None]
At(c, step) == call[c] # None /\ call[c].step = step

\* What a call did, as its audit row tells it.
Deed(k) == [id |-> k.id, do |-> k.do, workload |-> k.workload, mode |-> k.mode]

\* Mutant: the health of the old mode stays in the file.
Switched_KeepsHealth(f, m) == [f EXCEPT !.mode = m]

\* TransportStateStore.set_mode.
Switched(f, m) == [f EXCEPT !.mode = m, !.health = "switching"]

\* set_mode: the policy of transport_control is asked, then the file changes at once.
\* The call of a process that starts ("boot") is made before it serves anyone.
SetMode(c, do) ==
    /\ Free(c)
    /\ \E m \in Allowed("transport_control") :
          LET k == [id |-> calls + 1, do |-> do, workload |-> "transport_control", mode |-> m,
                    step |-> "audit", saw |-> Switched(file, m)]
          IN  /\ file' = k.saw
              /\ lastSet' = m
              /\ happened' = happened \cup {Deed(k)}
              /\ call' = [call EXCEPT ![c] = k]
    /\ calls' = calls + 1
    /\ UNCHANGED <<pace, audit, tail, object, measured, done>>

Set(c) == Home[c] \in up /\ SetMode(c, "set") /\ UNCHANGED up

\* A process starts: the audit logger reads the end of its log, which raises when it is
\* torn; QSO_TRANSPORT_MODE may switch the mode.
Start(p) ==
    /\ p \notin up /\ Readable
    /\ up' = up \cup {p}
    /\ \/ \E c \in Callers : Home[c] = p /\ SetMode(c, "boot")
       \/ UNCHANGED <<pace, file, audit, tail, call, object, calls, history>>

\* send: the mode is read and the policy asked; a refused call leaves nothing behind.
Send(c) ==
    /\ Free(c) /\ Home[c] \in up
    /\ \E w \in Workloads :
          /\ file.mode \in Allowed(w)
          /\ call' = [call EXCEPT ![c] =
                [id |-> calls + 1, do |-> "send", workload |-> w, mode |-> file.mode,
                 step |-> "transmit", saw |-> file]]
    /\ calls' = calls + 1
    /\ UNCHANGED <<pace, file, audit, tail, up, object, history>>

\* Mutant: the adapter is the one of the mode that is active now.
Adapter_ActiveNow(c) == file.mode

\* The adapter of the mode the policy was asked about.
Adapter(c) == call[c].mode

\* The request goes out and is answered; health and metrics are recorded in memory.
Answered(c) ==
    /\ At(c, "transmit")
    /\ happened' = happened \cup {Deed([call[c] EXCEPT !.mode = Adapter(c)])}
    /\ To(c, "metrics")
    /\ UNCHANGED <<pace, file, audit, tail, up, object, calls, lastSet, measured, done>>

\* The request goes out and the adapter raises: send ends there.
AdapterRaises(c) ==
    /\ At(c, "transmit") /\ Adapter(c) # "tor"
    /\ happened' = happened \cup {Deed([call[c] EXCEPT !.mode = Adapter(c)])}
    /\ Ends(c)
    /\ UNCHANGED <<pace, file, audit, tail, up, object, calls, lastSet, measured, done>>

\* Mutant: the state that was read when the send began is written back.
Measured_WritesBack(c, h) == [call[c].saw EXCEPT !.health = h]

\* TransportStateStore.update_metrics changes the file as it is now.
Measured(c, h) == [file EXCEPT !.health = h]

UpdateMetrics(c) ==
    /\ At(c, "metrics")
    /\ \E h \in Healths(call[c].mode) :
          /\ file' = Measured(c, h)
          /\ call' = [call EXCEPT ![c].step = "audit", ![c].saw = Measured(c, h)]
    /\ measured' = call[c].mode
    /\ UNCHANGED <<pace, audit, tail, up, object, calls, happened, lastSet, done>>

\* Mutant: the row names the mode that is active now.
RowOf_ActiveNow(c) == [Deed(call[c]) EXCEPT !.mode = file.mode]

RowOf(c) == Deed(call[c])

\* NetworkAuditLogger.log; behind a row without newline the row makes one broken line.
PutRow(row) ==
    /\ Readable
    /\ audit' = audit \cup {row}
    /\ tail' = IF tail = "clean" THEN "clean" ELSE "torn"

\* A write that is cut: within the row, or exactly before its newline.
CutRow(row) ==
    /\ Readable
    /\ \/ tail' = "torn" /\ UNCHANGED audit
       \/ tail' = (IF tail = "clean" THEN "bare" ELSE "torn") /\ audit' = audit \cup {row}

LogAudit(c) ==
    /\ At(c, "audit")
    /\ PutRow(RowOf(c))
    /\ IF call[c].do = "boot" THEN Ends(c) ELSE To(c, "object")
    /\ UNCHANGED <<pace, file, up, object, calls, history>>

\* Mutant: the exception of the logger is swallowed.
AuditFails_Swallowed(c) ==
    /\ At(c, "audit")
    /\ \/ ~Readable /\ UNCHANGED <<audit, tail>>
       \/ CutRow(RowOf(c))
       \/ UNCHANGED <<audit, tail>>
    /\ To(c, "object")
    /\ UNCHANGED <<pace, file, up, object, calls, history>>

\* The log is torn or the write fails: the call raises, what it did stays.
AuditFails(c) ==
    /\ At(c, "audit")
    /\ \/ ~Readable /\ UNCHANGED <<audit, tail>>
       \/ CutRow(RowOf(c))
       \/ UNCHANGED <<audit, tail>>
    /\ Ends(c)
    /\ UNCHANGED <<pace, file, up, object, calls, history>>

\* The patch carries every field of the state the call saw.
Shown(c) == call[c].saw

\* _upsert_transport_qso: create when missing, patch, return.
Upsert(c) ==
    /\ At(c, "object")
    /\ object' = [object EXCEPT ![Home[c]] = Shown(c)]
    /\ done' = done \cup {[id |-> call[c].id, by |-> Home[c]]}
    /\ Ends(c)
    /\ UNCHANGED <<pace, file, audit, tail, up, calls, happened, lastSet, measured>>

\* The state file cannot be written, or the state engine refuses the patch.
StepFails(c) ==
    /\ At(c, "metrics") \/ At(c, "object")
    /\ Ends(c)
    /\ UNCHANGED <<pace, file, audit, tail, up, object, calls, history>>

\* A process ends with its threads, also in the middle of an append; its object comes
\* back when the runtime keeps its events, and only then.
Crash(p) ==
    /\ p \in up
    /\ up' = up \ {p}
    /\ \/ UNCHANGED <<audit, tail>>
       \/ \E c \in Callers : Home[c] = p /\ At(c, "audit") /\ (PutRow(RowOf(c)) \/ CutRow(RowOf(c)))
    /\ call' = [c \in Callers |-> IF Home[c] = p THEN None ELSE call[c]]
    /\ object' \in {object, [object EXCEPT ![p] = None]}
    /\ UNCHANGED <<pace, file, calls, history>>

Next ==
    \/ \E p \in Processes : Start(p) \/ Crash(p)
    \/ \E c \in Callers :
          \/ Set(c) \/ Send(c) \/ Answered(c) \/ AdapterRaises(c) \/ UpdateMetrics(c)
          \/ LogAudit(c) \/ AuditFails(c) \/ Upsert(c) \/ StepFails(c)

Spec == Init /\ [][Next]_vars
-------------------------------------------------------------------------------
States == [mode : TransportModes, health : {"unknown", "switching", "healthy", "slow", "degraded"}]
Controls == {"set", "boot"}
Deeds ==
    [id : Nat, do : {"send"}, workload : Workloads, mode : TransportModes]
        \cup [id : Nat, do : Controls, workload : {"transport_control"}, mode : TransportModes]
CallRecords ==
    [id : Nat, do : {"send"}, workload : Workloads, mode : TransportModes,
     step : {"transmit", "metrics", "audit", "object"}, saw : States]
        \cup [id : Nat, do : Controls, workload : {"transport_control"}, mode : TransportModes,
              step : {"audit", "object"}, saw : States]

TypeOK ==
    /\ pace \in Paces
    /\ file \in States
    /\ audit \subseteq Deeds
    /\ tail \in {"clean", "bare", "torn"}
    /\ up \subseteq Processes
    /\ call \in [Callers -> CallRecords \cup {None}]
    /\ object \in [Processes -> States \cup {None}]
    /\ calls \in Nat
    /\ happened \subseteq Deeds
    /\ lastSet \in TransportModes
    /\ measured \in TransportModes
    /\ done \subseteq [id : Nat, by : Processes]

\* However a send races with switches of the mode, no request ever leaves in a mode its
\* workload may not use, and no switch is made that the policy refuses.
PolicyHeld == \A d \in happened : d.mode \in Allowed(d.workload)

\* No write of the metrics, of this process or another, undoes a switch of the mode.
ModeIsLastSet == file.mode = lastSet

\* The audit log never tells of a request or a switch that did not happen, nor of another
\* mode than the one it happened in.
AuditIsTrue == audit \subseteq happened

\* A call that returned is in the audit log, whatever raced with it and whoever crashed,
\* as long as the log can be read.
ReturnedIsAudited == Readable => \A r \in done : \E d \in audit : d.id = r.id

\* When calls take turns, the health in the file is that of the active mode: a switch
\* resets it, and only a send in the new mode sets it again.
TurnsHealthOfMode ==
    pace = "turns" /\ file.health \notin {"unknown", "switching"} => measured = file.mode
===============================================================================
