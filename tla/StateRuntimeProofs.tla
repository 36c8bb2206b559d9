-------------------------- MODULE StateRuntimeProofs --------------------------
(***************************************************************************)
(* Proofs about StateRuntime for any number of threads, objects, actors,   *)
(* restarts and log rollbacks: first what holds however the threads        *)
(* interleave, then what ties the patches to the policies they were made   *)
(* under when the threads make one call at a time, in one life of the      *)
(* process (a restart sets the clock back to 0).                           *)
(***************************************************************************)
EXTENDS StateRuntime, SequenceTheorems, WellFoundedInduction, TLAPS

AnyEvents == PatchEvents \cup PolicyEvents

\* What a thread holds at each point of its call.
InShape ==
    \A t \in Threads :
        /\ pc[t] \in {"read", "stamp", "update"} => call[t] \in Calls(Uris, Deltas)
        /\ pc[t] \in {"mutate", "activate", "index"} => call[t] \in Calls({PolicyUri}, Mutations)
        /\ pc[t] \in {"log", "store"} => call[t].uri \in Logs /\ event[t] \in AnyEvents
        /\ pc[t] \in {"stamp", "update"} => copy[t] \in Objects
        /\ pc[t] = "update" => event[t] \in PatchEvents
        /\ pc[t] \in {"activate", "index"} => event[t] \in PolicyEvents

TypeInv == TypeOK /\ InShape

LEMMA EmptyIsSeq == \A S : <<>> \in Seq(S)
OBVIOUS

LEMMA NewObjectType == NewObject \in Objects
BY EmptyIsSeq DEF NewObject, Objects

LEMMA FirstPolicyType == FirstPolicy \in Policies
BY AllowedAssumption DEF FirstPolicy, Policies

\* A delta merged into a state layer gives a state layer.
LEMMA MergeType ==
    ASSUME NEW o \in Objects, NEW d \in Deltas
    PROVE  [o EXCEPT !.state = Merge(@, d)] \in Objects
BY DEF Objects, Deltas, Merge

\* A timeline layer with one more event is a timeline layer.
LEMMA AppendedTimeline ==
    ASSUME NEW o \in Objects, NEW e \in PatchEvents
    PROVE  [o EXCEPT !.timeline = Append(@, e)] \in Objects
<1>1. o.timeline \in Seq(PatchEvents)
  BY DEF Objects
<1>2. Append(o.timeline, e) \in Seq(PatchEvents)
  BY <1>1
<1>3. \A s \in Seq(PatchEvents) : [o EXCEPT !.timeline = s] \in Objects
  BY DEF Objects
<1> QED BY <1>2, <1>3

\* A stamped event has the body, the actor and the version of its call.
LEMMA StampType ==
    ASSUME TypeOK, NEW t \in Threads, Stamp(t),
           NEW Target, NEW Bodies, call[t] \in Calls(Target, Bodies)
    PROVE  /\ clock' \in Nat /\ minted' \in Nat
           /\ event'[t] \in EventsOf(Bodies)
           /\ event'[t].body = call[t].body
           /\ \A x \in Threads \ {t} : event'[x] = event[x]
           /\ event' = [event EXCEPT ![t] = event'[t]]
<1>1. PICK r \in Ranks :
         event' = [event EXCEPT ![t] =
             [tick |-> clock + 1, rank |-> r, seq |-> minted + 1, actor |-> call[t].actor,
              version |-> call[t].version, body |-> call[t].body]]
  BY DEF Stamp
<1>2. clock \in Nat /\ minted \in Nat /\ event \in [Threads -> AnyEvents \cup {None}]
  BY DEF TypeOK, AnyEvents
<1>3. call[t].actor \in Actors /\ call[t].version \in Nat /\ call[t].body \in Bodies
  BY DEF Calls
<1>4. event'[t] = [tick |-> clock + 1, rank |-> r, seq |-> minted + 1, actor |-> call[t].actor,
                   version |-> call[t].version, body |-> call[t].body]
  BY <1>1, <1>2
<1>5. event'[t] \in EventsOf(Bodies)
  BY <1>2, <1>3, <1>4 DEF EventsOf
<1>6. clock' \in Nat /\ minted' \in Nat
  BY <1>2 DEF Stamp
<1> QED BY <1>1, <1>2, <1>4, <1>5, <1>6

LEMMA TypeInit == Init => TypeInv
<1> SUFFICES ASSUME Init PROVE TypeInv
  OBVIOUS
<1>1. objects \in [Uris -> Objects \cup {None}] /\ clock \in Nat
  BY DEF Init, NoObjects
<1>2. log \in [Logs -> Seq(AnyEvents)] /\ store \in [Logs -> Seq(AnyEvents)] /\ history \in Seq(Policies)
  BY EmptyIsSeq DEF Init
<1>3. call \in [Threads -> {None}] /\ copy \in [Threads -> {None}] /\ event \in [Threads -> {None}]
  BY DEF Init, Unset
<1>4. pc \in [Threads -> {"idle"}]
  BY DEF Init
<1>5. minted \in Nat /\ boots \in 0..MaxBoots /\ rollbacks \in 0..MaxRollbacks
  BY BoundAssumption DEF Init
<1>6. TypeOK
  BY <1>1, <1>2, <1>3, <1>4, <1>5, FirstPolicyType DEF Init, TypeOK, AnyEvents
<1>7. InShape
  BY <1>4 DEF InShape
<1> QED BY <1>6, <1>7 DEF TypeInv

\* What a boot takes up of a log are events of it, and none of them twice.
LEMMA TakenUpParts ==
    ASSUME NEW S, NEW s \in Seq(S), NEW q \in TakenUp(s)
    PROVE  /\ q \in Seq(S) /\ EventsIn(q) \subseteq EventsIn(s)
           /\ \E f \in [DOMAIN q -> DOMAIN s] :
                 /\ \A i \in DOMAIN q : q[i] = s[f[i]]
                 /\ \A i, j \in DOMAIN q : i # j => f[i] # f[j]
<1>1. PICK n \in 0..Len(s) : \E f \in [1..n -> DOMAIN s] :
         /\ \A i, j \in 1..n : i < j => f[i] < f[j]
         /\ q = [i \in 1..n |-> s[f[i]]]
  BY DEF TakenUp
<1>2. PICK f \in [1..n -> DOMAIN s] :
         /\ \A i, j \in 1..n : i < j => f[i] < f[j]
         /\ q = [i \in 1..n |-> s[f[i]]]
  BY <1>1
<1>3. n \in Nat /\ DOMAIN q = 1..n /\ \A i \in 1..n : f[i] \in DOMAIN s /\ q[i] = s[f[i]]
  BY <1>2
<1>4. \A i \in DOMAIN s : s[i] \in S /\ i \in Nat
  OBVIOUS
<1>5. q \in Seq(S)
  BY <1>2, <1>3, <1>4
<1>6. EventsIn(q) \subseteq EventsIn(s)
  BY <1>3 DEF EventsIn
<1>7. \A i, j \in 1..n : i # j => f[i] # f[j]
  <2> SUFFICES ASSUME NEW i \in 1..n, NEW j \in 1..n, i # j PROVE f[i] # f[j]
    OBVIOUS
  <2>1. i < j \/ j < i
    OBVIOUS
  <2>2. f[i] \in Nat /\ f[j] \in Nat /\ (f[i] < f[j] \/ f[j] < f[i])
    BY <1>2, <1>3, <1>4, <2>1
  <2> QED BY <2>2
<1> QED BY <1>3, <1>5, <1>6, <1>7

\* Leaving a call keeps the shape of every thread.
LEMMA LeaveKeepsShape ==
    ASSUME TypeInv, NEW t \in Threads, Leave(t)
    PROVE  /\ pc' \in [Threads -> {"idle", "read", "stamp", "update", "mutate", "activate",
                                    "index", "log", "store"}]
           /\ call' \in [Threads -> Calls(Uris, Deltas) \cup Calls({PolicyUri}, Mutations) \cup {None}]
           /\ copy' \in [Threads -> Objects \cup {None}]
           /\ event' \in [Threads -> AnyEvents \cup {None}]
           /\ InShape'
<1> USE DEF TypeInv, TypeOK, Leave, Goto, AnyEvents
<1>1. /\ pc' = [pc EXCEPT ![t] = "idle"] /\ call' = [call EXCEPT ![t] = None]
      /\ copy' = [copy EXCEPT ![t] = None] /\ event' = [event EXCEPT ![t] = None]
  OBVIOUS
<1>2. InShape'
  BY <1>1 DEF InShape
<1> QED BY <1>1, <1>2

LEMMA TypeNext == TypeInv /\ [Next]_vars => TypeInv'
<1> SUFFICES ASSUME TypeInv, [Next]_vars PROVE TypeInv'
  OBVIOUS
<1> USE DEF TypeInv, locals, counters
<1>1. ASSUME NEW t \in Threads, NEW u \in Uris, Create(t, u) PROVE TypeInv'
  BY <1>1, NewObjectType DEF Create, TypeOK, InShape
<1>2. ASSUME NEW t \in Threads, PatchCheck(t) PROVE TypeInv'
  <2>1. PICK u \in Uris, a \in Actors, d \in Deltas :
           call' = [call EXCEPT ![t] = [uri |-> u, actor |-> a, version |-> policy.version, body |-> d]]
    BY <1>2 DEF PatchCheck
  <2>2. [uri |-> u, actor |-> a, version |-> policy.version, body |-> d] \in Calls(Uris, Deltas)
    BY DEF TypeOK, Policies, Calls
  <2>3. pc' = [pc EXCEPT ![t] = "read"]
    BY <1>2 DEF PatchCheck, Goto
  <2>4. TypeOK'
    BY <1>2, <2>1, <2>2, <2>3 DEF PatchCheck, TypeOK
  <2>5. InShape'
    BY <1>2, <2>1, <2>2, <2>3 DEF PatchCheck, TypeOK, InShape
  <2> QED BY <2>4, <2>5
<1>3. ASSUME NEW t \in Threads, PatchRead(t) PROVE TypeInv'
  <2>1. call[t] \in Calls(Uris, Deltas) /\ call[t].uri \in Uris /\ call[t].body \in Deltas
    BY <1>3 DEF PatchRead, InShape, Calls
  <2>2. objects[call[t].uri] \in Objects
    BY <1>3, <2>1 DEF PatchRead, TypeOK
  <2>3. [objects[call[t].uri] EXCEPT !.state = Merge(@, call[t].body)] \in Objects
    BY <2>1, <2>2, MergeType
  <2>4. copy' = [copy EXCEPT ![t] = [objects[call[t].uri] EXCEPT !.state = Merge(@, call[t].body)]]
    BY <1>3 DEF PatchRead
  <2>5. pc' = [pc EXCEPT ![t] = "stamp"]
    BY <1>3 DEF PatchRead, Goto
  <2>6. PICK new \in Objects : copy' = [copy EXCEPT ![t] = new]
    BY <2>3, <2>4
  <2>7. UNCHANGED <<objects, clock, log, store, policy, history, call, event, counters, done>>
    BY <1>3 DEF PatchRead
  <2>8. TypeOK'
    BY <2>5, <2>6, <2>7 DEF TypeOK, counters
  <2>9. InShape'
    <3>1. copy'[t] \in Objects /\ pc'[t] = "stamp" /\ \A x \in Threads \ {t} : copy'[x] = copy[x] /\ pc'[x] = pc[x]
      BY <2>5, <2>6 DEF TypeOK
    <3> QED BY <2>1, <2>7, <3>1 DEF InShape
  <2> QED BY <2>8, <2>9
<1>4. ASSUME NEW t \in Threads, PatchMissing(t) PROVE TypeInv'
  BY <1>4, LeaveKeepsShape DEF PatchMissing, TypeOK, AnyEvents
<1>5. ASSUME NEW t \in Threads, PatchStamp(t) PROVE TypeInv'
  <2>1. call[t] \in Calls(Uris, Deltas) /\ copy[t] \in Objects
    BY <1>5 DEF PatchStamp, InShape
  <2>2. /\ clock' \in Nat /\ minted' \in Nat /\ event'[t] \in PatchEvents
        /\ event' = [event EXCEPT ![t] = event'[t]]
    BY <1>5, <2>1, StampType DEF PatchStamp, PatchEvents
  <2>3. pc' = [pc EXCEPT ![t] = "update"]
    BY <1>5 DEF PatchStamp, Goto
  <2>4. TypeOK'
    BY <1>5, <2>2, <2>3 DEF PatchStamp, TypeOK
  <2>5. InShape'
    BY <1>5, <2>1, <2>2, <2>3 DEF PatchStamp, TypeOK, InShape
  <2> QED BY <2>4, <2>5
<1>6. ASSUME NEW t \in Threads, PatchUpdate(t) PROVE TypeInv'
  <2>1. call[t].uri \in Uris /\ copy[t] \in Objects /\ event[t] \in PatchEvents
    BY <1>6 DEF PatchUpdate, InShape, Calls
  <2>2. [copy[t] EXCEPT !.timeline = Append(@, event[t])] \in Objects
    BY <2>1, AppendedTimeline
  <2>3. /\ objects' = [objects EXCEPT ![call[t].uri] = [copy[t] EXCEPT !.timeline = Append(@, event[t])]]
        /\ pc' = [pc EXCEPT ![t] = "log"]
    BY <1>6 DEF PatchUpdate, Goto
  <2>4. TypeOK'
    BY <1>6, <2>2, <2>3 DEF PatchUpdate, TypeOK
  <2>5. InShape'
    BY <1>6, <2>1, <2>3 DEF PatchUpdate, TypeOK, InShape, Logs, AnyEvents
  <2> QED BY <2>4, <2>5
<1>7. ASSUME NEW t \in Threads, LogAppend(t) PROVE TypeInv'
  <2>1. call[t].uri \in Logs /\ event[t] \in AnyEvents
    BY <1>7 DEF LogAppend, InShape
  <2>2. Append(log[call[t].uri], event[t]) \in Seq(AnyEvents)
    BY <2>1 DEF TypeOK, AnyEvents
  <2>3. /\ log' = [log EXCEPT ![call[t].uri] = Append(log[call[t].uri], event[t])]
        /\ pc' = [pc EXCEPT ![t] = "store"]
    BY <1>7 DEF LogAppend, Goto
  <2>4. TypeOK'
    BY <1>7, <2>2, <2>3 DEF LogAppend, TypeOK, AnyEvents
  <2>5. pc'[t] = "store" /\ (\A x \in Threads \ {t} : pc'[x] = pc[x])
    BY <2>3 DEF TypeOK
  <2>6. InShape'
    BY <1>7, <2>1, <2>5 DEF LogAppend, InShape
  <2> QED BY <2>4, <2>6
<1>8. ASSUME NEW t \in Threads, StoreAppend(t) PROVE TypeInv'
  <2>1. call[t].uri \in Logs /\ event[t] \in AnyEvents
    BY <1>8 DEF StoreAppend, InShape
  <2>2. Append(store[call[t].uri], event[t]) \in Seq(AnyEvents)
    BY <2>1 DEF TypeOK, AnyEvents
  <2>3. /\ store' = [store EXCEPT ![call[t].uri] = Append(store[call[t].uri], event[t])]
        /\ done' = done \cup {event[t]}
    BY <1>8 DEF StoreAppend
  <2> QED BY <1>8, <2>1, <2>2, <2>3, LeaveKeepsShape DEF StoreAppend, TypeOK, AnyEvents
<1>9. ASSUME NEW t \in Threads, StoreRaises(t) PROVE TypeInv'
  BY <1>9, LeaveKeepsShape DEF StoreRaises, TypeOK, AnyEvents
<1>10. ASSUME NEW t \in Threads, PublishCheck(t) PROVE TypeInv'
  <2>1. PICK p \in Publishable, a \in Actors :
           call' = [call EXCEPT ![t] = [uri |-> PolicyUri, actor |-> a, version |-> p.version,
                                        body |-> [allowed |-> p.allowed, index |-> 0]]]
    BY <1>10 DEF PublishCheck
  <2>2. p.version \in Nat /\ p.allowed \in AllowedLists
    <3>1. CASE p \in [version : 1..MaxVersion, allowed : AllowedLists]
      BY <3>1, BoundAssumption
    <3>2. CASE p \in {history[i] : i \in DOMAIN history}
      <4>1. PICK i \in DOMAIN history : p = history[i]
        BY <3>2
      <4>2. history[i] \in Policies
        BY DEF TypeOK
      <4> QED BY <4>1, <4>2 DEF Policies
    <3> QED BY <3>1, <3>2 DEF Publishable
  <2>3. [uri |-> PolicyUri, actor |-> a, version |-> p.version,
         body |-> [allowed |-> p.allowed, index |-> 0]] \in Calls({PolicyUri}, Mutations)
    BY <2>2 DEF Calls, Mutations
  <2>4. pc' = [pc EXCEPT ![t] = "mutate"]
    BY <1>10 DEF PublishCheck, Goto
  <2>5. TypeOK'
    BY <1>10, <2>1, <2>3, <2>4 DEF PublishCheck, TypeOK
  <2>6. InShape'
    BY <1>10, <2>1, <2>3, <2>4 DEF PublishCheck, TypeOK, InShape
  <2> QED BY <2>5, <2>6
<1>11. ASSUME NEW t \in Threads, PublishMutation(t) PROVE TypeInv'
  <2>1. call[t] \in Calls({PolicyUri}, Mutations)
    BY <1>11 DEF PublishMutation, InShape
  <2>2. /\ clock' \in Nat /\ minted' \in Nat /\ event'[t] \in PolicyEvents
        /\ event' = [event EXCEPT ![t] = event'[t]]
    BY <1>11, <2>1, StampType DEF PublishMutation, PolicyEvents
  <2>3. CalledPolicy(t) \in Policies
    BY <2>1 DEF CalledPolicy, Policies, Calls, Mutations
  <2>4. history' \in Seq(Policies)
    BY <1>11, <2>3 DEF PublishMutation, TypeOK
  <2>5. pc' = [pc EXCEPT ![t] = "activate"]
    BY <1>11 DEF PublishMutation, Goto
  <2>6. TypeOK'
    BY <1>11, <2>2, <2>4, <2>5 DEF PublishMutation, TypeOK
  <2>7. InShape'
    BY <1>11, <2>1, <2>2, <2>5 DEF PublishMutation, TypeOK, InShape
  <2> QED BY <2>6, <2>7
<1>12. ASSUME NEW t \in Threads, PublishActivate(t) PROVE TypeInv'
  <2>1. call[t] \in Calls({PolicyUri}, Mutations) /\ event[t] \in PolicyEvents
    BY <1>12 DEF PublishActivate, InShape
  <2>2. policy' \in Policies
    BY <1>12, <2>1 DEF PublishActivate, CalledPolicy, Policies, Calls, Mutations
  <2>3. pc' = [pc EXCEPT ![t] = "index"]
    BY <1>12 DEF PublishActivate, Goto
  <2>4. TypeOK'
    BY <1>12, <2>2, <2>3 DEF PublishActivate, TypeOK
  <2>5. InShape'
    BY <1>12, <2>1, <2>3 DEF PublishActivate, TypeOK, InShape
  <2> QED BY <2>4, <2>5
<1>13. ASSUME NEW t \in Threads, PublishIndex(t) PROVE TypeInv'
  <2>1. event[t] \in PolicyEvents /\ call[t] \in Calls({PolicyUri}, Mutations)
    BY <1>13 DEF PublishIndex, InShape
  <2>2. Len(log[PolicyUri]) \in Nat
    BY DEF TypeOK, Logs
  <2>3. [event[t] EXCEPT !.body.index = Len(log[PolicyUri]) + 1] \in PolicyEvents
    BY <2>1, <2>2 DEF PolicyEvents, EventsOf, Mutations
  <2>4. /\ event' = [event EXCEPT ![t] = [event[t] EXCEPT !.body.index = Len(log[PolicyUri]) + 1]]
        /\ pc' = [pc EXCEPT ![t] = "log"]
    BY <1>13 DEF PublishIndex, Goto, TypeOK
  <2>5. TypeOK'
    BY <1>13, <2>3, <2>4 DEF PublishIndex, TypeOK
  <2>6. call[t].uri \in Logs
    BY <2>1 DEF Calls, Logs
  <2>7. InShape'
    BY <1>13, <2>3, <2>4, <2>6 DEF PublishIndex, TypeOK, InShape, AnyEvents
  <2> QED BY <2>5, <2>7
<1>14. ASSUME NEW t \in Threads, NEW u \in Logs, NEW keep \in 0..Len(log[u]), Rollback(t, u, keep)
       PROVE  TypeInv'
  <2>1. SubSeq(log[u], 1, keep) \in Seq(AnyEvents)
    BY DEF TypeOK, AnyEvents
  <2>2. log' \in [Logs -> Seq(AnyEvents)]
    BY <1>14, <2>1 DEF Rollback, TypeOK, AnyEvents
  <2>3. rollbacks' \in 0..MaxRollbacks
    BY <1>14, BoundAssumption DEF Rollback, TypeOK
  <2> QED BY <1>14, <2>2, <2>3 DEF Rollback, TypeOK, InShape, AnyEvents
<1>15. ASSUME Restart PROVE TypeInv'
  <2>1. /\ objects' \in [Uris -> Objects \cup {None}] /\ clock' \in Nat /\ policy' \in Policies
        /\ history' \in Seq(Policies) /\ boots' \in 0..MaxBoots
    BY <1>15, FirstPolicyType, EmptyIsSeq, BoundAssumption DEF Restart, TypeOK, NoObjects
  <2>2. /\ pc' \in [Threads -> {"idle"}] /\ call' \in [Threads -> {None}]
        /\ copy' \in [Threads -> {None}] /\ event' \in [Threads -> {None}]
    BY <1>15 DEF Restart, Unset
  <2>3. store \in [Logs -> Seq(AnyEvents)] /\ store' = store
    BY <1>15 DEF Restart, TypeOK, AnyEvents
  <2>4. \A u \in Logs : log'[u] \in Seq(AnyEvents)
    BY <1>15, <2>3, TakenUpParts DEF Restart
  <2>5. log' \in [Logs -> Seq(AnyEvents)]
    BY <1>15, <2>4 DEF Restart
  <2>6. unread' \subseteq AnyEvents
    <3>1. \A u \in Logs : EventsIn(store[u]) \subseteq AnyEvents
      BY <2>3 DEF EventsIn
    <3> QED BY <1>15, <3>1 DEF Restart
  <2>7. TypeOK'
    BY <1>15, <2>1, <2>2, <2>3, <2>5, <2>6 DEF Restart, TypeOK, AnyEvents
  <2>8. InShape'
    BY <2>2 DEF InShape
  <2> QED BY <2>7, <2>8
<1>16. CASE UNCHANGED vars
  BY <1>16 DEF vars, TypeOK, InShape
<1> QED
  BY <1>1, <1>2, <1>3, <1>4, <1>5, <1>6, <1>7, <1>8, <1>9, <1>10, <1>11, <1>12, <1>13, <1>14,
     <1>15, <1>16 DEF Next, PatchStep, PublishStep, LogStep

\* Every step of every thread keeps the registry, the logs, the store and the locals
\* of the calls well typed, also across restarts.
THEOREM TypeCorrect == Spec => []TypeOK
<1>1. Spec => []TypeInv
  BY TypeInit, TypeNext, PTL DEF Spec
<1> QED BY <1>1, PTL DEF TypeInv

-------------------------------------------------------------------------------
\* Appending an event adds it to what is in the sequence.
LEMMA AppendedEvents ==
    ASSUME NEW S, NEW s \in Seq(S), NEW e \in S
    PROVE  EventsIn(Append(s, e)) = EventsIn(s) \cup {e}
<1>1. DOMAIN Append(s, e) = DOMAIN s \cup {Len(s) + 1}
  OBVIOUS
<1>2. Append(s, e)[Len(s) + 1] = e /\ \A i \in DOMAIN s : Append(s, e)[i] = s[i]
  OBVIOUS
<1> QED BY <1>1, <1>2 DEF EventsIn

\* A step that leaves the logs alone and brings no thread to the store.
Quiet ==
    /\ UNCHANGED <<log, store, done, rollbacks, unread>>
    /\ \A t \in Threads : pc'[t] = "store" =>
          pc[t] = "store" /\ call'[t] = call[t] /\ event'[t] = event[t]

LEMMA QuietSteps ==
    ASSUME TypeInv, NEW t \in Threads,
           \/ \E u \in Uris : Create(t, u)
           \/ PatchCheck(t) \/ PatchStep(t) \/ PublishCheck(t) \/ PublishStep(t) \/ StoreRaises(t)
    PROVE  Quiet
<1> USE DEF TypeInv, TypeOK, Quiet, Goto, locals, counters
<1>1. ASSUME NEW u \in Uris, Create(t, u) PROVE Quiet
  BY <1>1 DEF Create
<1>2. CASE PatchCheck(t)
  BY <1>2 DEF PatchCheck
<1>3. CASE PatchRead(t)
  BY <1>3 DEF PatchRead
<1>4. CASE PatchMissing(t)
  BY <1>4 DEF PatchMissing, Leave
<1>5. CASE PatchStamp(t)
  BY <1>5 DEF PatchStamp, Stamp
<1>6. CASE PatchUpdate(t)
  BY <1>6 DEF PatchUpdate
<1>7. CASE PublishCheck(t)
  BY <1>7 DEF PublishCheck
<1>8. CASE PublishMutation(t)
  BY <1>8 DEF PublishMutation, Stamp
<1>9. CASE PublishActivate(t)
  BY <1>9 DEF PublishActivate
<1>10. CASE PublishIndex(t)
  BY <1>10 DEF PublishIndex
<1>11. CASE StoreRaises(t)
  BY <1>11 DEF StoreRaises, Leave
<1> QED BY <1>1, <1>2, <1>3, <1>4, <1>5, <1>6, <1>7, <1>8, <1>9, <1>10, <1>11 DEF PatchStep, PublishStep

\* An event on its way to the store is already in the log in memory.
LoggedFirst ==
    rollbacks = 0 => \A t \in Threads : pc[t] = "store" => event[t] \in EventsIn(log[call[t].uri])

DurableInv == DoneIsDurable /\ LogCoversStore /\ LoggedFirst

LEMMA DurableInit == Init => DurableInv
BY DEF Init, DurableInv, DoneIsDurable, LogCoversStore, LoggedFirst, EventsIn

LEMMA DurableNext == TypeInv /\ DurableInv /\ [Next]_vars => DurableInv'
<1> SUFFICES ASSUME TypeInv, DurableInv, [Next]_vars PROVE DurableInv'
  OBVIOUS
<1>1. ASSUME Quiet PROVE DurableInv'
  BY <1>1 DEF Quiet, DurableInv, DoneIsDurable, LogCoversStore, LoggedFirst
<1>2. ASSUME NEW t \in Threads, LogAppend(t) PROVE DurableInv'
  <2>1. /\ call[t].uri \in Logs /\ event[t] \in AnyEvents /\ log \in [Logs -> Seq(AnyEvents)]
        /\ UNCHANGED <<store, done, call, event, rollbacks, unread>>
    BY <1>2 DEF LogAppend, TypeInv, TypeOK, InShape, AnyEvents, counters
  <2>2. log' = [log EXCEPT ![call[t].uri] = Append(log[call[t].uri], event[t])]
    BY <1>2 DEF LogAppend
  <2>3. \A u \in Logs : EventsIn(log'[u]) = EventsIn(log[u]) \cup (IF u = call[t].uri THEN {event[t]} ELSE {})
    BY <2>1, <2>2, AppendedEvents
  <2>4. \A x \in Threads \ {t} : pc'[x] = pc[x]
    BY <1>2 DEF LogAppend, Goto, TypeInv, TypeOK
  <2>5. DoneIsDurable' /\ LogCoversStore'
    BY <2>1, <2>3 DEF DurableInv, DoneIsDurable, LogCoversStore
  <2>6. \A x \in Threads : pc[x] = "store" => call[x].uri \in Logs
    BY DEF TypeInv, InShape
  <2>7. LoggedFirst'
    BY <2>1, <2>3, <2>4, <2>6 DEF DurableInv, LoggedFirst
  <2> QED BY <2>5, <2>7 DEF DurableInv
<1>3. ASSUME NEW t \in Threads, StoreAppend(t) PROVE DurableInv'
  <2>1. /\ call[t].uri \in Logs /\ event[t] \in AnyEvents /\ store \in [Logs -> Seq(AnyEvents)]
        /\ UNCHANGED <<log, rollbacks, unread>>
    BY <1>3 DEF StoreAppend, TypeInv, TypeOK, InShape, AnyEvents, counters
  <2>2. /\ store' = [store EXCEPT ![call[t].uri] = Append(store[call[t].uri], event[t])]
        /\ done' = done \cup {event[t]} /\ pc[t] = "store"
    BY <1>3 DEF StoreAppend
  <2>3. \A u \in Logs : EventsIn(store'[u]) = EventsIn(store[u]) \cup (IF u = call[t].uri THEN {event[t]} ELSE {})
    BY <2>1, <2>2, AppendedEvents
  <2>4. DoneIsDurable'
    BY <2>1, <2>2, <2>3 DEF DurableInv, DoneIsDurable
  <2>5. LogCoversStore'
    BY <2>1, <2>2, <2>3 DEF DurableInv, LogCoversStore, LoggedFirst
  <2>6. \A x \in Threads : pc'[x] = "store" => pc[x] = "store" /\ call'[x] = call[x] /\ event'[x] = event[x]
    BY <1>3 DEF StoreAppend, Leave, Goto, TypeInv, TypeOK
  <2>7. LoggedFirst'
    BY <2>1, <2>6 DEF DurableInv, LoggedFirst
  <2> QED BY <2>4, <2>5, <2>7 DEF DurableInv
<1>4. ASSUME NEW t \in Threads, NEW u \in Logs, NEW keep \in 0..Len(log[u]), Rollback(t, u, keep)
      PROVE  DurableInv'
  <2>1. rollbacks' # 0 /\ UNCHANGED <<store, done>>
    BY <1>4, BoundAssumption DEF Rollback, TypeInv, TypeOK
  <2> QED BY <2>1 DEF DurableInv, DoneIsDurable, LogCoversStore, LoggedFirst
<1>5. ASSUME Restart PROVE DurableInv'
  <2>1. /\ UNCHANGED <<store, done>> /\ \A t \in Threads : pc'[t] = "idle"
        /\ \A u \in Logs : EventsIn(store[u]) \subseteq EventsIn(log'[u]) \cup unread'
    BY <1>5 DEF Restart
  <2> QED BY <2>1 DEF DurableInv, DoneIsDurable, LogCoversStore, LoggedFirst
<1>6. CASE UNCHANGED vars
  BY <1>1, <1>6 DEF vars, locals, counters, Quiet
<1> QED BY <1>1, <1>2, <1>3, <1>4, <1>5, <1>6, QuietSteps DEF Next, LogStep

\* An event whose call returned stays in the store, whatever threads, failed appends,
\* rollbacks of the list in memory and restarts follow.
THEOREM DoneStaysDurable == Spec => []DoneIsDurable
<1>1. Spec => [](TypeInv /\ DurableInv)
  BY TypeInit, TypeNext, DurableInit, DurableNext, PTL DEF Spec
<1> QED BY <1>1, PTL DEF DurableInv

\* Until a log is rolled back, the log in memory holds every event of the store but those
\* the last boot could not read, with any number of threads between the two (event_log,
\* append) and any number of restarts, whose read of the store may fail
\* (_bootstrap_from_store).
THEOREM MemoryCoversStore == Spec => []LogCoversStore
<1>1. Spec => [](TypeInv /\ DurableInv)
  BY TypeInit, TypeNext, DurableInit, DurableNext, PTL DEF Spec
<1> QED BY <1>1, PTL DEF DurableInv

-------------------------------------------------------------------------------
\* The events that stand behind the state of an object: those in its log and those
\* that were applied to it and are about to be logged.
Backing(u) ==
    EventsIn(log[u]) \cup {event[t] : t \in {x \in Threads : pc[x] = "log" /\ call[x].uri = u}}

Backed(u, k, v) == \E e \in Backing(u) : e.body = [key |-> k, val |-> v]

\* What a thread has in hand is backed, but for the path its own delta sets.
CopyBacked ==
    \A t \in Threads : pc[t] \in {"stamp", "update"} =>
        \A k \in Keys : copy[t].state[k] # None =>
            \/ call[t].body = [key |-> k, val |-> copy[t].state[k]]
            \/ Backed(call[t].uri, k, copy[t].state[k])

StampedBody == \A t \in Threads : pc[t] = "update" => event[t].body = call[t].body

StateBacked ==
    \A u \in Uris, k \in Keys :
        objects[u] # None /\ objects[u].state[k] # None => Backed(u, k, objects[u].state[k])

BackedInv == StateBacked /\ CopyBacked /\ StampedBody

\* A step that takes no event out of the backing of an object.
Steady ==
    /\ UNCHANGED log
    /\ \A t \in Threads : pc[t] = "log" =>
          pc'[t] = "log" /\ call'[t] = call[t] /\ event'[t] = event[t]

LEMMA SteadyKeepsBacking ==
    ASSUME Steady, NEW u \in Uris PROVE Backing(u) \subseteq Backing(u)'
BY DEF Steady, Backing

LEMMA LogAppendKeepsBacking ==
    ASSUME TypeInv, NEW t \in Threads, LogAppend(t), NEW u \in Uris
    PROVE  Backing(u) \subseteq Backing(u)'
<1>1. /\ call[t].uri \in Logs /\ event[t] \in AnyEvents /\ log \in [Logs -> Seq(AnyEvents)]
      /\ UNCHANGED <<call, event>> /\ u \in Logs
  BY DEF LogAppend, TypeInv, TypeOK, InShape, AnyEvents, Logs
<1>2. log' = [log EXCEPT ![call[t].uri] = Append(log[call[t].uri], event[t])]
  BY DEF LogAppend
<1>3. EventsIn(log'[u]) = EventsIn(log[u]) \cup (IF u = call[t].uri THEN {event[t]} ELSE {})
  BY <1>1, <1>2, AppendedEvents
<1>4. \A x \in Threads \ {t} : pc'[x] = pc[x]
  BY DEF LogAppend, Goto, TypeInv, TypeOK
<1> QED BY <1>1, <1>3, <1>4 DEF Backing

\* A step that keeps the backing, the objects and what threads have in hand.
LEMMA KeepsBackedInv ==
    ASSUME TypeInv, BackedInv, UNCHANGED objects,
           \A u \in Uris : Backing(u) \subseteq Backing(u)',
           \A t \in Threads : pc'[t] \in {"stamp", "update"} =>
               pc[t] = pc'[t] /\ call'[t] = call[t] /\ event'[t] = event[t] /\ copy'[t] = copy[t]
    PROVE  BackedInv'
<1>1. \A t \in Threads : pc[t] \in {"stamp", "update"} => call[t].uri \in Uris
  BY DEF TypeInv, InShape, Calls
<1>2. \A u \in Uris : \A k, v : Backed(u, k, v) => Backed(u, k, v)'
  BY DEF Backed
<1>3. StateBacked'
  BY <1>2 DEF BackedInv, StateBacked
<1>4. CopyBacked'
  BY <1>1, <1>2 DEF BackedInv, CopyBacked
<1>5. StampedBody'
  BY DEF BackedInv, StampedBody
<1> QED BY <1>3, <1>4, <1>5 DEF BackedInv

LEMMA BackedInit == Init => BackedInv
BY DEF Init, NoObjects, BackedInv, StateBacked, CopyBacked, StampedBody

LEMMA BackedNext ==
    ASSUME rollbacks' = 0
    PROVE  TypeInv /\ BackedInv /\ [Next]_vars => BackedInv'
<1> SUFFICES ASSUME TypeInv, BackedInv, [Next]_vars PROVE BackedInv'
  OBVIOUS
<1> USE DEF locals, counters
<1>1. pc \in [Threads -> {"idle", "read", "stamp", "update", "mutate", "activate",
                            "index", "log", "store"}]
      /\ call \in [Threads -> Calls(Uris, Deltas) \cup Calls({PolicyUri}, Mutations) \cup {None}]
      /\ copy \in [Threads -> Objects \cup {None}]
      /\ event \in [Threads -> AnyEvents \cup {None}]
      /\ objects \in [Uris -> Objects \cup {None}]
  BY DEF TypeInv, TypeOK, AnyEvents
<1>2. ASSUME NEW t \in Threads, NEW u \in Uris, Create(t, u) PROVE BackedInv'
  <2>1. /\ objects' = [objects EXCEPT ![u] = NewObject]
        /\ UNCHANGED <<log, pc, call, copy, event>>
    BY <1>2 DEF Create
  <2>2. \A w \in Uris : \A k, v : Backed(w, k, v)' <=> Backed(w, k, v)
    BY <2>1 DEF Backed, Backing
  <2>3. \A k \in Keys : NewObject.state[k] = None
    BY DEF NewObject
  <2>4. StateBacked'
    BY <1>1, <2>1, <2>2, <2>3 DEF BackedInv, StateBacked
  <2>5. \A x \in Threads : pc[x] \in {"stamp", "update"} => call[x].uri \in Uris
    BY DEF TypeInv, InShape, Calls
  <2>6. CopyBacked' /\ StampedBody'
    BY <2>1, <2>2, <2>5 DEF BackedInv, CopyBacked, StampedBody
  <2> QED BY <2>4, <2>6 DEF BackedInv
<1>3. ASSUME NEW t \in Threads, PatchCheck(t) PROVE BackedInv'
  BY <1>1, <1>3, SteadyKeepsBacking, KeepsBackedInv DEF PatchCheck, MayStart, Free, Goto, Steady
<1>4. ASSUME NEW t \in Threads, PatchRead(t) PROVE BackedInv'
  <2> DEFINE u == call[t].uri
             d == call[t].body
             new == [objects[u] EXCEPT !.state = Merge(@, d)]
  <2>1. call[t] \in Calls(Uris, Deltas) /\ u \in Uris /\ d \in Deltas /\ objects[u] \in Objects
    BY <1>1, <1>4 DEF PatchRead, TypeInv, InShape, Calls
  <2>2. /\ copy' = [copy EXCEPT ![t] = new] /\ pc' = [pc EXCEPT ![t] = "stamp"]
        /\ UNCHANGED <<objects, log, call, event>> /\ pc[t] = "read"
    BY <1>4 DEF PatchRead, Goto
  <2>3. Steady
    BY <1>1, <2>2 DEF Steady
  <2>4. \A w \in Uris : \A k, v : Backed(w, k, v) => Backed(w, k, v)'
    BY <2>3, SteadyKeepsBacking DEF Backed
  <2>5. ASSUME NEW k \in Keys, NEW v, v = new.state[k], v # None
        PROVE  d = [key |-> k, val |-> v] \/ Backed(u, k, v)
    <3>1. CASE k = d.key
      <4>1. d = [key |-> d.key, val |-> d.val]
        BY <2>1 DEF Deltas
      <4>2. v = d.val
        BY <2>1, <2>5, <3>1 DEF Objects, Deltas, Merge
      <4> QED BY <3>1, <4>1, <4>2
    <3>2. CASE k # d.key
      <4>1. v = objects[u].state[k]
        BY <2>1, <2>5, <3>2 DEF Objects, Deltas, Merge
      <4>2. objects[u] # None
        BY <1>4 DEF PatchRead
      <4> QED BY <2>1, <2>5, <4>1, <4>2 DEF BackedInv, StateBacked
    <3> QED BY <3>1, <3>2
  <2>6. StateBacked'
    BY <2>2, <2>4 DEF BackedInv, StateBacked
  <2>7. \A x \in Threads : pc[x] \in {"stamp", "update"} => call[x].uri \in Uris
    BY DEF TypeInv, InShape, Calls
  <2>8. copy'[t] = new /\ call'[t] = call[t] /\ \A x \in Threads \ {t} : copy'[x] = copy[x] /\ pc'[x] = pc[x] /\ call'[x] = call[x]
    BY <1>1, <2>2
  <2>9. CopyBacked'
    <3> SUFFICES ASSUME NEW x \in Threads, pc'[x] \in {"stamp", "update"},
                        NEW k \in Keys, copy'[x].state[k] # None
                 PROVE  \/ call'[x].body = [key |-> k, val |-> copy'[x].state[k]]
                        \/ Backed(call[x].uri, k, copy[x].state[k])'
      BY DEF CopyBacked
    <3>1. CASE x = t
      <4>1. copy'[x].state[k] = new.state[k] /\ call'[x] = call[t]
        BY <2>8, <3>1
      <4>2. \/ call[t].body = [key |-> k, val |-> new.state[k]]
            \/ Backed(call[t].uri, k, new.state[k])
        BY <2>5, <3>1, <4>1
      <4> QED BY <2>1, <2>4, <4>1, <4>2
    <3>2. CASE x # t
      BY <2>4, <2>7, <2>8, <3>2 DEF BackedInv, CopyBacked
    <3> QED BY <3>1, <3>2
  <2>10. StampedBody'
    BY <1>1, <2>2 DEF BackedInv, StampedBody
  <2> QED BY <2>6, <2>9, <2>10 DEF BackedInv
<1>5. ASSUME NEW t \in Threads, PatchMissing(t) PROVE BackedInv'
  BY <1>1, <1>5, SteadyKeepsBacking, KeepsBackedInv DEF PatchMissing, Leave, Goto, Steady
<1>6. ASSUME NEW t \in Threads, PatchStamp(t) PROVE BackedInv'
  <2>1. call[t] \in Calls(Uris, Deltas)
    BY <1>6 DEF PatchStamp, TypeInv, InShape
  <2>2. event'[t].body = call[t].body /\ \A x \in Threads \ {t} : event'[x] = event[x]
    BY <1>6, <2>1, StampType DEF PatchStamp, TypeInv
  <2>3. /\ pc' = [pc EXCEPT ![t] = "update"] /\ pc[t] = "stamp"
        /\ UNCHANGED <<objects, log, call, copy>>
    BY <1>6 DEF PatchStamp, Goto
  <2>4. Steady
    BY <1>1, <2>2, <2>3 DEF Steady
  <2>5. \A w \in Uris : \A k, v : Backed(w, k, v) => Backed(w, k, v)'
    BY <2>4, SteadyKeepsBacking DEF Backed
  <2>6. \A x \in Threads : pc'[x] \in {"stamp", "update"} => pc[x] \in {"stamp", "update"} /\ call[x].uri \in Uris
    BY <1>1, <2>3 DEF TypeInv, InShape, Calls
  <2>7. StateBacked'
    BY <2>3, <2>5 DEF BackedInv, StateBacked
  <2>8. CopyBacked'
    BY <2>3, <2>5, <2>6 DEF BackedInv, CopyBacked
  <2>9. StampedBody'
    BY <1>1, <2>2, <2>3 DEF BackedInv, StampedBody
  <2> QED BY <2>7, <2>8, <2>9 DEF BackedInv
<1>7. ASSUME NEW t \in Threads, PatchUpdate(t) PROVE BackedInv'
  <2> DEFINE u == call[t].uri
             new == [copy[t] EXCEPT !.timeline = Append(@, event[t])]
  <2>1. /\ pc' = [pc EXCEPT ![t] = "log"] /\ pc[t] = "update"
        /\ objects' = [objects EXCEPT ![u] = new]
        /\ UNCHANGED <<log, call, copy, event>>
    BY <1>7 DEF PatchUpdate, Goto
  <2>2. u \in Uris /\ copy[t] \in Objects
    BY <2>1 DEF TypeInv, InShape, Calls
  <2>3. new.state = copy[t].state
    BY <2>2 DEF Objects
  <2>4. Steady
    BY <1>1, <2>1 DEF Steady
  <2>5. \A w \in Uris : \A k, v : Backed(w, k, v) => Backed(w, k, v)'
    BY <2>4, SteadyKeepsBacking DEF Backed
  <2>6. (\A w : w = u => event'[t] \in Backing(w)') /\ event'[t].body = call[t].body
    BY <1>1, <2>1 DEF Backing, BackedInv, StampedBody
  <2>7. ASSUME NEW k \in Keys, NEW v, v = new.state[k], v # None
        PROVE  \A w : w = u => Backed(w, k, v)'
    <3>1. CASE call[t].body = [key |-> k, val |-> v]
      BY <2>6, <3>1 DEF Backed
    <3>2. CASE Backed(u, k, v)
      BY <2>2, <2>5, <3>2
    <3> QED BY <2>1, <2>3, <2>7, <3>1, <3>2 DEF BackedInv, CopyBacked
  <2>8. StateBacked'
    <3>1. objects'[u] = new /\ \A w \in Uris \ {u} : objects'[w] = objects[w]
      BY <1>1, <2>1, <2>2
    <3> SUFFICES ASSUME NEW w \in Uris, NEW k \in Keys, objects'[w] # None, objects'[w].state[k] # None
                 PROVE  Backed(w, k, objects[w].state[k])'
      BY DEF StateBacked
    <3>2. CASE w = u
      BY <2>7, <3>1, <3>2
    <3>3. CASE w # u
      BY <2>5, <3>1, <3>3 DEF BackedInv, StateBacked
    <3> QED BY <3>2, <3>3
  <2>9. \A x \in Threads : pc'[x] \in {"stamp", "update"} => pc[x] = pc'[x] /\ call[x].uri \in Uris
    BY <1>1, <2>1 DEF TypeInv, InShape, Calls
  <2>10. CopyBacked' /\ StampedBody'
    BY <2>1, <2>5, <2>9 DEF BackedInv, CopyBacked, StampedBody
  <2> QED BY <2>8, <2>10 DEF BackedInv
<1>8. ASSUME NEW t \in Threads, LogAppend(t) PROVE BackedInv'
  BY <1>1, <1>8, LogAppendKeepsBacking, KeepsBackedInv DEF LogAppend, Goto
<1>9. ASSUME NEW t \in Threads, StoreAppend(t) PROVE BackedInv'
  BY <1>1, <1>9, SteadyKeepsBacking, KeepsBackedInv DEF StoreAppend, Leave, Goto, Steady
<1>10. ASSUME NEW t \in Threads, StoreRaises(t) PROVE BackedInv'
  BY <1>1, <1>10, SteadyKeepsBacking, KeepsBackedInv DEF StoreRaises, Leave, Goto, Steady
<1>11. ASSUME NEW t \in Threads, PublishCheck(t) PROVE BackedInv'
  BY <1>1, <1>11, SteadyKeepsBacking, KeepsBackedInv DEF PublishCheck, MayStart, Free, Goto, Steady
<1>12. ASSUME NEW t \in Threads, PublishMutation(t) PROVE BackedInv'
  <2>1. /\ pc' = [pc EXCEPT ![t] = "activate"] /\ pc[t] = "mutate"
        /\ UNCHANGED <<objects, log, call, copy>>
        /\ \A x \in Threads \ {t} : event'[x] = event[x]
    BY <1>1, <1>12 DEF PublishMutation, Goto, Stamp
  <2> QED BY <1>1, <2>1, SteadyKeepsBacking, KeepsBackedInv DEF Steady
<1>13. ASSUME NEW t \in Threads, PublishActivate(t) PROVE BackedInv'
  BY <1>1, <1>13, SteadyKeepsBacking, KeepsBackedInv DEF PublishActivate, Goto, Steady
<1>14. ASSUME NEW t \in Threads, PublishIndex(t) PROVE BackedInv'
  BY <1>1, <1>14, SteadyKeepsBacking, KeepsBackedInv DEF PublishIndex, Goto, Steady
<1>15. ASSUME NEW t \in Threads, NEW u \in Logs, NEW keep \in 0..Len(log[u]), Rollback(t, u, keep)
       PROVE  BackedInv'
  BY <1>15, BoundAssumption DEF Rollback, TypeInv, TypeOK
<1>16. ASSUME Restart PROVE BackedInv'
  <2>1. (\A u \in Uris : objects'[u] = None) /\ (\A t \in Threads : pc'[t] = "idle")
    BY <1>16 DEF Restart, NoObjects
  <2> QED BY <2>1 DEF BackedInv, StateBacked, CopyBacked, StampedBody
<1>17. CASE UNCHANGED vars
  BY <1>17, SteadyKeepsBacking, KeepsBackedInv DEF vars, Steady
<1> QED
  BY <1>2, <1>3, <1>4, <1>5, <1>6, <1>7, <1>8, <1>9, <1>10, <1>11, <1>12, <1>13, <1>14, <1>15,
     <1>16, <1>17 DEF Next, PatchStep, PublishStep, LogStep

\* The number of rollbacks never goes down.
LEMMA RollbacksGrow == TypeInv /\ [Next]_vars /\ rollbacks' = 0 => rollbacks = 0
<1> SUFFICES ASSUME TypeInv, [Next]_vars, rollbacks' = 0 PROVE rollbacks = 0
  OBVIOUS
<1>1. CASE Quiet
  BY <1>1 DEF Quiet
<1>2. ASSUME NEW t \in Threads, LogAppend(t) \/ StoreAppend(t) PROVE rollbacks = 0
  BY <1>2 DEF LogAppend, StoreAppend, counters
<1>3. ASSUME NEW t \in Threads, NEW u \in Logs, NEW keep \in 0..Len(log[u]), Rollback(t, u, keep)
      PROVE  rollbacks = 0
  BY <1>3, BoundAssumption DEF Rollback, TypeInv, TypeOK
<1>4. CASE Restart \/ UNCHANGED vars
  BY <1>4 DEF Restart, vars, counters
<1> QED BY <1>1, <1>2, <1>3, <1>4, QuietSteps DEF Next, LogStep

\* No interleaving of patches, failed appends and restarts leaves a value in an object
\* that no logged event (or event about to be logged) set, until somebody rolls a log
\* back.  Updates may be lost, but nothing appears from nowhere.
THEOREM NoPhantoms == Spec => []NoPhantomState
<1> DEFINE UncutInv == TypeInv /\ (rollbacks = 0 => BackedInv)
<1>1. Init => UncutInv
  BY TypeInit, BackedInit
<1>2. UncutInv /\ [Next]_vars => UncutInv'
  <2> SUFFICES ASSUME UncutInv, [Next]_vars PROVE UncutInv'
    OBVIOUS
  <2>1. TypeInv'
    BY TypeNext
  <2>2. ASSUME rollbacks' = 0 PROVE BackedInv'
    BY <2>2, RollbacksGrow, BackedNext
  <2> QED BY <2>1, <2>2
<1>3. UncutInv => NoPhantomState
  BY DEF BackedInv, StateBacked, Backed, Backing, NoPhantomState
<1> QED
  <2> HIDE DEF UncutInv
  <2> QED BY <1>1, <1>2, <1>3, PTL DEF Spec
-------------------------------------------------------------------------------
\* Induction over the naturals, as the least element of a set.
Smaller == {p \in Nat \X Nat : p[1] < p[2]}

LEMMA LeastElement ==
    ASSUME NEW T \in SUBSET Nat, T # {}
    PROVE  \E n \in T : \A m \in T : n <= m
<1>1. IsWellFoundedOn(Smaller, Nat)
  BY NatLessThanWellFounded DEF OpToRel, Smaller
<1>2. \A x, y \in Nat : x < y => <<x, y>> \in Smaller
  BY DEF Smaller
<1>3. PICK n \in T : \A m \in T : ~(<<m, n>> \in Smaller)
  BY <1>1, WFMin
<1>4. ASSUME NEW m \in T PROVE n <= m
  <2>1. m \in Nat /\ n \in Nat
    OBVIOUS
  <2>2. ~(m < n)
    BY <1>2, <1>3, <2>1
  <2> QED BY <2>1, <2>2
<1> QED BY <1>4

LEMMA SetInduction ==
    ASSUME NEW T \in SUBSET Nat, 0 \in T, \A n \in T : n + 1 \in T
    PROVE  T = Nat
<1> SUFFICES ASSUME Nat \ T # {} PROVE FALSE
  OBVIOUS
<1>1. PICK n \in Nat \ T : \A m \in Nat \ T : n <= m
  BY LeastElement
<1>2. n - 1 \in Nat /\ n - 1 \notin T
  BY <1>1
<1> QED BY <1>1, <1>2

\* The canonical order of replay is a strict total order on events with ids of their own.
LEMMA BeforeIsOrder ==
    ASSUME NEW e \in AnyEvents, NEW f \in AnyEvents, NEW g \in AnyEvents
    PROVE  /\ e.seq # f.seq => Before(e, f) \/ Before(f, e)
           /\ Before(e, f) => ~Before(f, e)
           /\ Before(e, f) /\ Before(f, g) => Before(e, g)
<1>1. /\ e.tick \in Nat /\ e.rank \in Nat /\ e.seq \in Nat
      /\ f.tick \in Nat /\ f.rank \in Nat /\ f.seq \in Nat
      /\ g.tick \in Nat /\ g.rank \in Nat /\ g.seq \in Nat
  BY BoundAssumption DEF AnyEvents, PatchEvents, PolicyEvents, EventsOf
<1> QED BY <1>1 DEF Before

\* Events of a log or of the store have ids of their own.
Distinct(s) == \A i, j \in DOMAIN s : i # j => s[i].seq # s[j].seq

IsLast(s, S, i) == i \in S /\ \A j \in S \ {i} : Before(s[j], s[i])

\* Some event among any of them is the last one.
LEMMA LastExists ==
    ASSUME NEW s \in Seq(AnyEvents), Distinct(s), NEW S \in SUBSET DOMAIN s, S # {}
    PROVE  \E i \in S : IsLast(s, S, i)
<1> DEFINE T == {n \in Nat : \A Q \in SUBSET DOMAIN s : Q # {} /\ Q \subseteq 1 .. n => \E i \in Q : IsLast(s, Q, i)}
<1>1. 0 \in T
  OBVIOUS
<1>2. ASSUME NEW n \in T PROVE n + 1 \in T
  <2> SUFFICES ASSUME NEW Q \in SUBSET DOMAIN s, Q # {}, Q \subseteq 1 .. n + 1
               PROVE  \E i \in Q : IsLast(s, Q, i)
    OBVIOUS
  <2>1. CASE n + 1 \notin Q
    <3>1. Q \subseteq 1 .. n
      BY <2>1
    <3> QED BY <3>1
  <2>2. CASE Q = {n + 1}
    BY <2>2 DEF IsLast
  <2>3. CASE n + 1 \in Q /\ Q # {n + 1}
    <3> DEFINE rest == Q \ {n + 1}
    <3>1. rest # {} /\ rest \subseteq 1 .. n /\ rest \in SUBSET DOMAIN s
      BY <2>3
    <3>2. PICK i \in rest : IsLast(s, rest, i)
      BY <3>1
    <3>3. \A j \in Q : s[j] \in AnyEvents
      OBVIOUS
    <3>4. s[i].seq # s[n + 1].seq
      BY <2>3 DEF Distinct
    <3>5. CASE Before(s[n + 1], s[i])
      BY <3>2, <3>5 DEF IsLast
    <3>6. CASE Before(s[i], s[n + 1])
      <4>1. \A j \in rest : Before(s[j], s[n + 1])
        BY <2>3, <3>2, <3>3, <3>6, BeforeIsOrder DEF IsLast
      <4> QED BY <2>3, <4>1 DEF IsLast
    <3> QED BY <2>3, <3>3, <3>4, <3>5, <3>6, BeforeIsOrder
  <2> QED BY <2>1, <2>2, <2>3
<1>3. T = Nat
  <2> HIDE DEF T
  <2> QED BY <1>1, <1>2, SetInduction DEF T
<1>4. Len(s) \in T
  <2> HIDE DEF T
  <2> QED BY <1>3
<1>5. S \subseteq 1 .. Len(s)
  OBVIOUS
<1> QED BY <1>4, <1>5

\* On every path replay shows what the last event that sets it says.
LEMMA ReplayAt ==
    ASSUME NEW s \in Seq(AnyEvents), Distinct(s), NEW k \in Keys
    PROVE  IF Setters(s, k) = {} THEN ReplayOf(s)[k] = None
           ELSE \E i \in Setters(s, k) :
                   IsLast(s, Setters(s, k), i) /\ ReplayOf(s)[k] = s[i].body.val
<1> DEFINE S == Setters(s, k)
<1>1. CASE S = {}
  BY <1>1 DEF ReplayOf
<1>2. CASE S # {}
  <2> DEFINE last == CHOOSE i \in S : \A j \in S \ {i} : Before(s[j], s[i])
  <2>1. \E i \in S : \A j \in S \ {i} : Before(s[j], s[i])
    <3>1. S \in SUBSET DOMAIN s
      BY DEF Setters
    <3> QED BY <1>2, <3>1, LastExists DEF IsLast
  <2>2. IsLast(s, S, last)
    BY <2>1 DEF IsLast
  <2>3. ReplayOf(s)[k] = s[last].body.val
    BY <1>2 DEF ReplayOf
  <2>4. last \in S
    BY <2>2 DEF IsLast
  <2> QED BY <1>2, <2>2, <2>3, <2>4
<1> QED BY <1>1, <1>2

\* Replay depends on the events alone, not on the order they lie in.
LEMMA ReplayOfSameEvents ==
    ASSUME NEW s \in Seq(AnyEvents), Distinct(s), NEW r \in Seq(AnyEvents), Distinct(r),
           EventsIn(s) = EventsIn(r)
    PROVE  ReplayOf(s) = ReplayOf(r)
<1>1. ASSUME NEW k \in Keys PROVE ReplayOf(s)[k] = ReplayOf(r)[k]
  <2> DEFINE S == Setters(s, k)
             R == Setters(r, k)
  <2>1. \A i \in S : \E j \in R : s[i] = r[j]
    BY DEF Setters, EventsIn
  <2>2. \A j \in R : \E i \in S : s[i] = r[j]
    BY DEF Setters, EventsIn
  <2>3. CASE S = {}
    <3>1. R = {}
      BY <2>2, <2>3
    <3> QED BY <2>3, <3>1, ReplayAt
  <2>4. CASE S # {}
    <3>1. R # {}
      BY <2>1, <2>4
    <3>2. PICK i \in S : IsLast(s, S, i) /\ ReplayOf(s)[k] = s[i].body.val
      BY <2>4, ReplayAt
    <3>3. PICK j \in R : IsLast(r, R, j) /\ ReplayOf(r)[k] = r[j].body.val
      BY <3>1, ReplayAt
    <3>4. PICK x \in R : s[i] = r[x]
      BY <2>1
    <3>5. PICK y \in S : s[y] = r[j]
      BY <2>2
    <3>6. i \in DOMAIN s /\ j \in DOMAIN r /\ s[i] \in AnyEvents /\ r[j] \in AnyEvents
      BY DEF Setters
    <3>7. s[i] = r[j]
      <4> SUFFICES ASSUME s[i] # r[j] PROVE FALSE
        OBVIOUS
      <4>1. Before(r[x], r[j]) /\ Before(s[y], s[i])
        BY <3>2, <3>3, <3>4, <3>5 DEF IsLast
      <4> QED BY <3>4, <3>5, <3>6, <4>1, BeforeIsOrder
    <3> QED BY <3>2, <3>3, <3>7
  <2> QED BY <2>3, <2>4
<1>2. ReplayOf(s) = [k \in Keys |-> ReplayOf(s)[k]] /\ ReplayOf(r) = [k \in Keys |-> ReplayOf(r)[k]]
  BY DEF ReplayOf
<1> QED BY <1>1, <1>2
-------------------------------------------------------------------------------
\* The threads that hold an event with an id.
Stamped(t) == pc[t] \in {"update", "activate", "index", "log", "store"}

\* No id is given twice: what is logged, what is stored and what threads are about to
\* log or store never meet in one, also after a restart filled the log from the store.
Numbered ==
    /\ \A u \in Logs : Distinct(log[u]) /\ Distinct(store[u])
    /\ \A u \in Logs : \A e \in EventsIn(log[u]) \cup EventsIn(store[u]) : e.seq <= minted
    /\ \A t \in Threads : Stamped(t) => event[t].seq <= minted
    /\ \A t, x \in Threads : Stamped(t) /\ Stamped(x) /\ t # x => event[t].seq # event[x].seq
    /\ \A t \in Threads : Stamped(t) =>
          \A u \in Logs : \A e \in EventsIn(store[u]) : e.seq # event[t].seq
    /\ \A t \in Threads : Stamped(t) /\ pc[t] # "store" =>
          \A u \in Logs : \A e \in EventsIn(log[u]) : e.seq # event[t].seq

LEMMA NumberedTypes ==
    ASSUME TypeInv
    PROVE  /\ minted \in Nat
           /\ log \in [Logs -> Seq(AnyEvents)] /\ store \in [Logs -> Seq(AnyEvents)]
           /\ \A u \in Logs : \A e \in EventsIn(log[u]) \cup EventsIn(store[u]) : e.seq \in Nat
           /\ \A t \in Threads : Stamped(t) => event[t] \in AnyEvents /\ event[t].seq \in Nat
<1>1. \A e \in AnyEvents : e.seq \in Nat
  BY DEF AnyEvents, PatchEvents, PolicyEvents, EventsOf
<1>2. minted \in Nat /\ log \in [Logs -> Seq(AnyEvents)] /\ store \in [Logs -> Seq(AnyEvents)]
  BY DEF TypeInv, TypeOK, AnyEvents
<1>3. \A u \in Logs : \A e \in EventsIn(log[u]) \cup EventsIn(store[u]) : e \in AnyEvents
  BY <1>2 DEF EventsIn
<1>4. \A t \in Threads : Stamped(t) => event[t] \in AnyEvents
  BY DEF TypeInv, InShape, Stamped, AnyEvents
<1> QED BY <1>1, <1>2, <1>3, <1>4

LEMMA AppendedDistinct ==
    ASSUME NEW s \in Seq(AnyEvents), NEW e \in AnyEvents, Distinct(s),
           \A f \in EventsIn(s) : f.seq # e.seq
    PROVE  Distinct(Append(s, e))
<1>1. DOMAIN Append(s, e) = DOMAIN s \cup {Len(s) + 1} /\ Len(s) + 1 \notin DOMAIN s
  OBVIOUS
<1>2. Append(s, e)[Len(s) + 1] = e /\ \A i \in DOMAIN s : Append(s, e)[i] = s[i]
  OBVIOUS
<1>3. \A i \in DOMAIN s : s[i].seq # e.seq
  BY DEF EventsIn
<1> QED BY <1>1, <1>2, <1>3 DEF Distinct

\* A step that stamps nothing and leaves the log and the store alone.
LEMMA NumberedKept ==
    ASSUME Numbered, UNCHANGED <<log, store, minted>>,
           \A t \in Threads : Stamped(t)' =>
               /\ Stamped(t) /\ event'[t].seq = event[t].seq
               /\ pc'[t] # "store" => pc[t] # "store"
    PROVE  Numbered'
BY DEF Numbered

\* A new event takes an id nobody has.
LEMMA NumberedStamp ==
    ASSUME TypeInv, Numbered, NEW t \in Threads, Stamp(t), UNCHANGED <<log, store>>,
           pc' = [pc EXCEPT ![t] = pc'[t]], pc'[t] # "store"
    PROVE  Numbered'
<1> DEFINE now == minted'
<1>1. now = minted + 1 /\ minted \in Nat
  BY NumberedTypes DEF Stamp
<1>2. event'[t].seq = now /\ \A x \in Threads \ {t} : event'[x] = event[x] /\ pc'[x] = pc[x]
  BY DEF Stamp, TypeInv, TypeOK
<1>3. \A x \in Threads \ {t} : Stamped(x)' => Stamped(x)
  BY <1>2 DEF Stamped
<1>4. \A u \in Logs : \A e \in EventsIn(log[u]) \cup EventsIn(store[u]) : e.seq \in Nat /\ e.seq <= minted
  BY NumberedTypes DEF Numbered
<1>5. \A u \in Logs : \A e \in EventsIn(log[u]) \cup EventsIn(store[u]) : e.seq <= now /\ e.seq # now
  BY <1>1, <1>4
<1>6. \A x \in Threads \ {t} : Stamped(x) => event[x].seq \in Nat /\ event[x].seq <= minted
  BY NumberedTypes DEF Numbered
<1>7. \A x \in Threads \ {t} : Stamped(x) => event[x].seq <= now /\ event[x].seq # now
  BY <1>1, <1>6
<1> HIDE DEF now
<1>8. now <= now
  BY <1>1
<1>9. (\A x \in Threads : Stamped(x) => event[x].seq <= minted)'
  BY <1>2, <1>3, <1>7, <1>8 DEF now
<1>10. (\A x, y \in Threads : Stamped(x) /\ Stamped(y) /\ x # y => event[x].seq # event[y].seq)'
  BY <1>2, <1>3, <1>7 DEF Numbered
<1>11. (\A x \in Threads : Stamped(x) => \A u \in Logs : \A e \in EventsIn(store[u]) : e.seq # event[x].seq)'
  BY <1>2, <1>3, <1>5 DEF Numbered
<1>12. (\A x \in Threads : Stamped(x) /\ pc[x] # "store" =>
           \A u \in Logs : \A e \in EventsIn(log[u]) : e.seq # event[x].seq)'
  BY <1>2, <1>3, <1>5 DEF Numbered
<1> QED BY <1>5, <1>9, <1>10, <1>11, <1>12 DEF Numbered, now

LEMMA NumberedLogAppend ==
    ASSUME TypeInv, Numbered, NEW t \in Threads, LogAppend(t)
    PROVE  Numbered'
<1> DEFINE u == call[t].uri
           e == event[t]
<1>1. /\ pc[t] = "log" /\ Stamped(t) /\ u \in Logs /\ e \in AnyEvents
      /\ UNCHANGED <<store, minted, event, call>>
  BY DEF LogAppend, TypeInv, InShape, Stamped, counters
<1>2. \A x \in Threads : pc'[x] = IF x = t THEN "store" ELSE pc[x]
  BY DEF LogAppend, Goto, TypeInv, TypeOK
<1>3. \A w \in Logs : log'[w] = IF w = u THEN Append(log[u], e) ELSE log[w]
  BY NumberedTypes DEF LogAppend
<1>4. log[u] \in Seq(AnyEvents) /\ (\A f \in EventsIn(log[u]) : f.seq # e.seq) /\ Distinct(log[u])
  BY <1>1, NumberedTypes DEF Numbered
<1>5. Distinct(Append(log[u], e)) /\ EventsIn(Append(log[u], e)) = EventsIn(log[u]) \cup {e}
  BY <1>1, <1>4, AppendedDistinct, AppendedEvents
<1>6. \A w \in Logs : Distinct(log'[w]) /\ EventsIn(log'[w]) \subseteq EventsIn(log[w]) \cup {e}
  BY <1>3, <1>5 DEF Numbered
<1>7. \A x \in Threads : Stamped(x)' <=> Stamped(x)
  BY <1>1, <1>2 DEF Stamped
<1>8. e.seq <= minted /\ \A x \in Threads : Stamped(x) /\ x # t => event[x].seq # e.seq
  BY <1>1 DEF Numbered
<1> HIDE DEF u, e
<1>9. (\A w \in Logs : Distinct(log[w]) /\ Distinct(store[w]))'
  BY <1>1, <1>6 DEF Numbered
<1>10. (\A w \in Logs : \A f \in EventsIn(log[w]) \cup EventsIn(store[w]) : f.seq <= minted)'
  BY <1>1, <1>6, <1>8 DEF Numbered
<1>11. (\A x \in Threads : Stamped(x) /\ pc[x] # "store" =>
           \A w \in Logs : \A f \in EventsIn(log[w]) : f.seq # event[x].seq)'
  <2> SUFFICES ASSUME NEW x \in Threads, Stamped(x), x # t, pc[x] # "store",
                      NEW w \in Logs, NEW f \in EventsIn(log'[w])
               PROVE  f.seq # event[x].seq
    BY <1>1, <1>2, <1>7
  <2>1. CASE f = e
    BY <1>8, <2>1
  <2>2. CASE f # e
    BY <1>6, <2>2 DEF Numbered
  <2> QED BY <2>1, <2>2
<1> QED BY <1>1, <1>7, <1>9, <1>10, <1>11 DEF Numbered

LEMMA NumberedStoreAppend ==
    ASSUME TypeInv, Numbered, NEW t \in Threads, StoreAppend(t)
    PROVE  Numbered'
<1> DEFINE u == call[t].uri
           e == event[t]
<1>1. /\ pc[t] = "store" /\ Stamped(t) /\ u \in Logs /\ e \in AnyEvents
      /\ UNCHANGED <<log, minted>>
  BY DEF StoreAppend, TypeInv, InShape, Stamped, counters
<1>2. \A x \in Threads : x # t => pc'[x] = pc[x] /\ event'[x] = event[x]
  BY DEF StoreAppend, Leave, Goto, TypeInv, TypeOK
<1>3. pc'[t] = "idle"
  BY DEF StoreAppend, Leave, Goto, TypeInv, TypeOK
<1>4. \A w \in Logs : store'[w] = IF w = u THEN Append(store[u], e) ELSE store[w]
  BY NumberedTypes DEF StoreAppend
<1>5. store[u] \in Seq(AnyEvents) /\ (\A f \in EventsIn(store[u]) : f.seq # e.seq) /\ Distinct(store[u])
  BY <1>1, NumberedTypes DEF Numbered
<1>6. Distinct(Append(store[u], e)) /\ EventsIn(Append(store[u], e)) = EventsIn(store[u]) \cup {e}
  BY <1>1, <1>5, AppendedDistinct, AppendedEvents
<1>7. \A w \in Logs : Distinct(store'[w]) /\ EventsIn(store'[w]) \subseteq EventsIn(store[w]) \cup {e}
  BY <1>4, <1>6 DEF Numbered
<1>8. \A x \in Threads : Stamped(x)' => x # t /\ Stamped(x)
  BY <1>2, <1>3 DEF Stamped
<1>9. e.seq <= minted /\ \A x \in Threads : Stamped(x) /\ x # t => event[x].seq # e.seq
  BY <1>1 DEF Numbered
<1> HIDE DEF u, e
<1>10. (\A w \in Logs : Distinct(log[w]) /\ Distinct(store[w]))'
  BY <1>1, <1>7 DEF Numbered
<1>11. (\A w \in Logs : \A f \in EventsIn(log[w]) \cup EventsIn(store[w]) : f.seq <= minted)'
  BY <1>1, <1>7, <1>9 DEF Numbered
<1>12. (\A x \in Threads : Stamped(x) =>
           \A w \in Logs : \A f \in EventsIn(store[w]) : f.seq # event[x].seq)'
  <2> SUFFICES ASSUME NEW x \in Threads, Stamped(x), x # t,
                      NEW w \in Logs, NEW f \in EventsIn(store'[w])
               PROVE  f.seq # event[x].seq
    BY <1>2, <1>8
  <2>1. CASE f = e
    BY <1>9, <2>1
  <2>2. CASE f # e
    BY <1>7, <2>2 DEF Numbered
  <2> QED BY <2>1, <2>2
<1>13. (\A x \in Threads : Stamped(x) => event[x].seq <= minted)'
  BY <1>1, <1>2, <1>8 DEF Numbered
<1>14. (\A x, y \in Threads : Stamped(x) /\ Stamped(y) /\ x # y => event[x].seq # event[y].seq)'
  BY <1>2, <1>8 DEF Numbered
<1>15. (\A x \in Threads : Stamped(x) /\ pc[x] # "store" =>
           \A w \in Logs : \A f \in EventsIn(log[w]) : f.seq # event[x].seq)'
  BY <1>1, <1>2, <1>8 DEF Numbered
<1> QED BY <1>10, <1>11, <1>12, <1>13, <1>14, <1>15 DEF Numbered

LEMMA NumberedInit == Init => Numbered
BY DEF Init, Numbered, Stamped, Distinct, EventsIn

LEMMA NumberedNext == TypeInv /\ Numbered /\ [Next]_vars => Numbered'
<1> SUFFICES ASSUME TypeInv, Numbered, [Next]_vars PROVE Numbered'
  OBVIOUS
<1> DEFINE Labels == {"idle", "read", "stamp", "update", "mutate", "activate", "index", "log", "store"}
<1>1. pc \in [Threads -> Labels] /\ event \in [Threads -> AnyEvents \cup {None}]
  BY DEF TypeInv, TypeOK, AnyEvents
<1> USE DEF locals, counters
<1>2. ASSUME NEW t \in Threads, NEW label \in {"idle", "read", "stamp", "mutate"},
             pc' = [pc EXCEPT ![t] = label], UNCHANGED <<log, store, minted>>,
             \A x \in Threads \ {t} : event'[x] = event[x]
      PROVE  Numbered'
  BY <1>1, <1>2, NumberedKept DEF Stamped
<1>3. ASSUME NEW t \in Threads, NEW u \in Uris, Create(t, u) PROVE Numbered'
  BY <1>3, NumberedKept DEF Create, Stamped
<1>4. ASSUME NEW t \in Threads, PatchCheck(t) \/ PublishCheck(t) \/ PatchRead(t) PROVE Numbered'
  BY <1>2, <1>4 DEF PatchCheck, PublishCheck, PatchRead, Goto
<1>5. ASSUME NEW t \in Threads, PatchMissing(t) \/ StoreRaises(t) PROVE Numbered'
  BY <1>1, <1>2, <1>5 DEF PatchMissing, StoreRaises, Leave, Goto
<1>6. ASSUME NEW t \in Threads, PatchStamp(t) \/ PublishMutation(t) PROVE Numbered'
  BY <1>1, <1>6, NumberedStamp DEF PatchStamp, PublishMutation, Goto
<1>7. ASSUME NEW t \in Threads, PatchUpdate(t) \/ PublishActivate(t) PROVE Numbered'
  BY <1>1, <1>7, NumberedKept DEF PatchUpdate, PublishActivate, Goto, Stamped
<1>8. ASSUME NEW t \in Threads, PublishIndex(t) PROVE Numbered'
  <2>1. event[t] \in PolicyEvents /\ pc[t] = "index" /\ UNCHANGED <<log, store, minted>>
    BY <1>8 DEF PublishIndex, TypeInv, InShape
  <2>2. event'[t].seq = event[t].seq /\ \A x \in Threads \ {t} : event'[x] = event[x]
    BY <1>1, <1>8, <2>1 DEF PublishIndex, PolicyEvents, EventsOf, Mutations
  <2>3. \A x \in Threads : pc'[x] = IF x = t THEN "log" ELSE pc[x]
    BY <1>1, <1>8 DEF PublishIndex, Goto
  <2> QED BY <2>1, <2>2, <2>3, NumberedKept DEF Stamped
<1>9. ASSUME NEW t \in Threads, NEW u \in Logs, NEW keep \in 0 .. Len(log[u]), Rollback(t, u, keep)
      PROVE  Numbered'
  <2>1. /\ log' = [log EXCEPT ![u] = SubSeq(log[u], 1, keep)]
        /\ UNCHANGED <<store, minted, pc, event>>
    BY <1>9 DEF Rollback
  <2>2. \A w \in Logs : \A i \in DOMAIN log'[w] : i \in DOMAIN log[w] /\ log'[w][i] = log[w][i]
    <3>1. \A i \in DOMAIN SubSeq(log[u], 1, keep) :
             i \in DOMAIN log[u] /\ SubSeq(log[u], 1, keep)[i] = log[u][i]
      BY NumberedTypes
    <3>2. \A w \in Logs : log'[w] = IF w = u THEN SubSeq(log[u], 1, keep) ELSE log[w]
      BY <2>1, NumberedTypes
    <3> QED BY <3>1, <3>2
  <2>3. \A w \in Logs : EventsIn(log'[w]) \subseteq EventsIn(log[w])
    BY <2>2 DEF EventsIn
  <2>4. \A w \in Logs : Distinct(log'[w])
    BY <2>2 DEF Numbered, Distinct
  <2> QED BY <2>1, <2>3, <2>4 DEF Numbered, Stamped
<1>10. ASSUME Restart PROVE Numbered'
  <2>1. UNCHANGED <<store, minted>> /\ \A t \in Threads : pc'[t] = "idle"
    BY <1>10 DEF Restart
  <2>2. \A u \in Logs : store[u] \in Seq(AnyEvents) /\ log'[u] \in TakenUp(store[u])
    BY <1>10, NumberedTypes DEF Restart
  <2>3. \A u \in Logs : EventsIn(log'[u]) \subseteq EventsIn(store[u]) /\ Distinct(log'[u])
    <3> SUFFICES ASSUME NEW u \in Logs
                 PROVE  EventsIn(log'[u]) \subseteq EventsIn(store[u]) /\ Distinct(log'[u])
      OBVIOUS
    <3> DEFINE q == log'[u]
    <3>1. PICK f \in [DOMAIN q -> DOMAIN store[u]] :
             /\ \A i \in DOMAIN q : q[i] = store[u][f[i]]
             /\ \A i, j \in DOMAIN q : i # j => f[i] # f[j]
      BY <2>2, TakenUpParts
    <3>2. EventsIn(q) \subseteq EventsIn(store[u]) /\ Distinct(store[u])
      BY <2>2, TakenUpParts DEF Numbered
    <3>3. Distinct(q)
      BY <3>1, <3>2 DEF Distinct
    <3> QED BY <3>2, <3>3
  <2> QED BY <2>1, <2>3 DEF Numbered, Stamped
<1>11. CASE UNCHANGED vars
  BY <1>11, NumberedKept DEF vars, Stamped
<1> QED
  BY <1>3, <1>4, <1>5, <1>6, <1>7, <1>8, <1>9, <1>10, <1>11, NumberedLogAppend, NumberedStoreAppend
  DEF Next, PatchStep, PublishStep, LogStep

\* Whatever order threads wrote the same events in to the log in memory and to the store
\* file (state engine, patch; event log, append), rebuild_from_log gives one state:
\* a restart, which reads the file's order, does not change what replay shows.
THEOREM ReplaySurvives == Spec => []ReplaySurvivesRestart
<1>1. TypeInv /\ Numbered => ReplaySurvivesRestart
  <2> SUFFICES ASSUME TypeInv, Numbered, NEW u \in Uris, EventsIn(store[u]) = EventsIn(log[u])
               PROVE  ReplayOf(store[u]) = ReplayOf(log[u])
    BY DEF ReplaySurvivesRestart
  <2>1. u \in Logs
    BY DEF Logs
  <2> QED BY <2>1, NumberedTypes, ReplayOfSameEvents DEF Numbered
<1> QED BY <1>1, TypeInit, TypeNext, NumberedInit, NumberedNext, PTL DEF Spec

-------------------------------------------------------------------------------
\* One call at a time.
OneCall == \A t, x \in Threads : pc[t] # "idle" /\ pc[x] # "idle" => t = x

\* A mutation about to be logged: its policy is in force, those logged are older.
InForce(t) ==
    /\ event[t].version = policy.version
    /\ \A p \in EventsIn(log[PolicyUri]) : p.version < event[t].version

\* A patch under way carries the version in force, a publication a greater one until it
\* is in force itself; what is stamped is no newer than the clock.
Under(t) ==
    /\ pc[t] \in {"read", "stamp", "update"} => call[t].version = policy.version
    /\ pc[t] = "update" \/ (pc[t] = "log" /\ call[t].uri \in Uris) =>
          event[t].version = policy.version /\ event[t].tick <= clock
    /\ pc[t] \in {"mutate", "activate"} => call[t].version > policy.version
    /\ pc[t] = "activate" => event[t].version = call[t].version
    /\ pc[t] = "index" => InForce(t)
    /\ pc[t] = "log" /\ call[t].uri = PolicyUri => InForce(t)
    /\ pc[t] \in {"activate", "index"} \/ (pc[t] = "log" /\ call[t].uri = PolicyUri) =>
          event[t].tick = clock

LoggedPast ==
    /\ \A u \in Logs : \A e \in EventsIn(log[u]) : e.tick <= clock
    /\ \A p \in EventsIn(log[PolicyUri]) : p.version <= policy.version

LogInv == LoggedPast /\ PolicyPinned /\ PolicyMonotonic

PolicyInv == OneCall /\ (\A t \in Threads : Under(t)) /\ LogInv
-------------------------------------------------------------------------------
LEMMA LoggedTypes ==
    ASSUME TypeInv
    PROVE  /\ clock \in Nat /\ policy.version \in Nat
           /\ \A u \in Logs : log[u] \in Seq(AnyEvents)
           /\ \A u \in Logs : \A e \in EventsIn(log[u]) : e.tick \in Nat /\ e.version \in Nat
           /\ PolicyUri \in Logs /\ Uris \subseteq Logs
<1>1. /\ clock \in Nat /\ policy.version \in Nat /\ PolicyUri \in Logs /\ Uris \subseteq Logs
      /\ log \in [Logs -> Seq(AnyEvents)]
  BY DEF TypeInv, TypeOK, Policies, Logs, AnyEvents
<1>2. \A e \in AnyEvents : e.tick \in Nat /\ e.version \in Nat
  BY DEF AnyEvents, PatchEvents, PolicyEvents, EventsOf
<1>3. \A u \in Logs : \A e \in EventsIn(log[u]) : e \in AnyEvents
  BY <1>1 DEF EventsIn
<1> QED BY <1>1, <1>2, <1>3

\* What a thread in a call knows of its numbers.
LEMMA CallTypes ==
    ASSUME TypeInv, NEW t \in Threads
    PROVE  /\ pc[t] \in {"read", "stamp", "update"} =>
                 call[t].version \in Nat /\ call[t].uri \in Uris /\ call[t].uri # PolicyUri
           /\ pc[t] \in {"mutate", "activate", "index"} =>
                 call[t].version \in Nat /\ call[t].uri = PolicyUri /\ call[t].uri \notin Uris
           /\ pc[t] \in {"update", "activate", "index", "log"} =>
                 event[t] \in AnyEvents /\ event[t].version \in Nat /\ event[t].tick \in Nat
<1>1. \A e \in AnyEvents : e.tick \in Nat /\ e.version \in Nat
  BY DEF AnyEvents, PatchEvents, PolicyEvents, EventsOf
<1> QED BY <1>1, UriAssumption DEF TypeInv, InShape, Calls, AnyEvents

\* In a step of the one thread in a call, or of one that may start, the others rest.
LEMMA OthersRest ==
    ASSUME TypeInv, OneCall, NEW t \in Threads, NEW label,
           pc[t] # "idle" \/ (\A x \in Threads : pc[x] = "idle"),
           pc' = [pc EXCEPT ![t] = label]
    PROVE  /\ OneCall'
           /\ pc'[t] = label
           /\ \A x \in Threads : x # t => pc'[x] = "idle" /\ Under(x)'
<1>1. \A x \in Threads : pc'[x] = IF x = t THEN label ELSE pc[x]
  BY DEF TypeInv, TypeOK
<1>2. \A x \in Threads : x # t => pc'[x] = "idle"
  BY <1>1 DEF OneCall
<1>3. OneCall'
  BY <1>2 DEF OneCall
<1> QED BY <1>1, <1>2, <1>3 DEF Under

\* A step that leaves the logs alone, while clock and policy only grow.
LEMMA LogInvKept ==
    ASSUME TypeInv, TypeInv', LogInv, log' = log, clock <= clock', policy.version <= policy'.version
    PROVE  LogInv'
<1> DEFINE now == clock'
           version == policy'.version
<1>1. now \in Nat /\ version \in Nat
  BY DEF TypeInv, TypeOK, Policies
<1>2. \A u \in Logs : \A e \in EventsIn(log[u]) : e.tick <= now
  BY <1>1, LoggedTypes DEF LogInv, LoggedPast
<1>3. \A p \in EventsIn(log[PolicyUri]) : p.version <= version
  BY <1>1, LoggedTypes DEF LogInv, LoggedPast
<1>4. LoggedPast'
  BY <1>2, <1>3 DEF LoggedPast
<1>5. PolicyPinned' /\ PolicyMonotonic'
  BY DEF LogInv, PolicyPinned, PolicyMonotonic
<1> QED BY <1>4, <1>5 DEF LogInv

\* A thread that leaves its call knows nothing any more.
LEMMA LeaveKeeps ==
    ASSUME TypeInv, TypeInv', PolicyInv, NEW t \in Threads, pc[t] # "idle", Leave(t),
           UNCHANGED <<log, clock, policy>>
    PROVE  PolicyInv'
<1>1. pc' = [pc EXCEPT ![t] = "idle"]
  BY DEF Leave, Goto
<1>2. /\ OneCall' /\ pc'[t] = "idle"
      /\ \A x \in Threads : x # t => Under(x)'
  BY <1>1, OthersRest DEF PolicyInv
<1>3. Under(t)'
  BY <1>2 DEF Under
<1>4. LogInv'
  BY LogInvKept, LoggedTypes DEF PolicyInv
<1> QED BY <1>2, <1>3, <1>4 DEF PolicyInv

\* A call begins with no other under way.
LEMMA StartKeeps ==
    ASSUME TypeInv, TypeInv', PolicyInv, Serial = TRUE, NEW t \in Threads,
           PatchCheck(t) \/ PublishCheck(t)
    PROVE  PolicyInv'
<1>1. /\ \A x \in Threads : pc[x] = "idle"
      /\ UNCHANGED <<log, clock, policy>>
  BY DEF PatchCheck, PublishCheck, MayStart, Free
<1>2. LogInv'
  BY <1>1, LogInvKept, LoggedTypes DEF PolicyInv
<1>3. CASE PatchCheck(t)
  <2>1. PICK k : k.version = policy.version /\ call' = [call EXCEPT ![t] = k]
    BY <1>3 DEF PatchCheck
  <2>2. call'[t].version = policy.version /\ pc' = [pc EXCEPT ![t] = "read"]
    BY <1>3, <2>1 DEF PatchCheck, Goto, TypeInv, TypeOK
  <2>3. OneCall' /\ pc'[t] = "read" /\ \A x \in Threads : x # t => Under(x)'
    BY <1>1, <2>2, OthersRest DEF PolicyInv
  <2>4. Under(t)'
    BY <1>1, <2>2, <2>3 DEF Under
  <2> QED BY <1>2, <2>3, <2>4 DEF PolicyInv
<1>4. CASE PublishCheck(t)
  <2>1. PICK k : k.version > policy.version /\ call' = [call EXCEPT ![t] = k]
    BY <1>4 DEF PublishCheck
  <2>2. call'[t].version > policy.version /\ pc' = [pc EXCEPT ![t] = "mutate"]
    BY <1>4, <2>1 DEF PublishCheck, Goto, TypeInv, TypeOK
  <2>3. OneCall' /\ pc'[t] = "mutate" /\ \A x \in Threads : x # t => Under(x)'
    BY <1>1, <2>2, OthersRest DEF PolicyInv
  <2>4. Under(t)'
    BY <1>1, <2>2, <2>3 DEF Under
  <2> QED BY <1>2, <2>3, <2>4 DEF PolicyInv
<1> QED BY <1>3, <1>4

\* A patch reads, stamps and writes its object under one version.
LEMMA PatchKeeps ==
    ASSUME TypeInv, TypeInv', PolicyInv, NEW t \in Threads,
           PatchRead(t) \/ PatchStamp(t) \/ PatchUpdate(t)
    PROVE  PolicyInv'
<1>1. Under(t)
  BY DEF PolicyInv
<1>2. CASE PatchRead(t)
  <2>1. pc[t] = "read" /\ pc' = [pc EXCEPT ![t] = "stamp"] /\ UNCHANGED <<log, clock, policy, call>>
    BY <1>2 DEF PatchRead, Goto
  <2>2. OneCall' /\ pc'[t] = "stamp" /\ \A x \in Threads : x # t => Under(x)'
    BY <2>1, OthersRest DEF PolicyInv
  <2>3. Under(t)'
    BY <1>1, <2>1, <2>2 DEF Under
  <2> QED BY <2>1, <2>2, <2>3, LogInvKept, LoggedTypes DEF PolicyInv
<1>3. CASE PatchStamp(t)
  <2>1. /\ pc[t] = "stamp" /\ pc' = [pc EXCEPT ![t] = "update"]
        /\ UNCHANGED <<log, policy, call>> /\ clock' = clock + 1
    BY <1>3 DEF PatchStamp, Stamp, Goto
  <2>2. event'[t].version = call[t].version /\ event'[t].tick = clock + 1
    BY <1>3 DEF PatchStamp, Stamp, TypeInv, TypeOK
  <2>3. OneCall' /\ pc'[t] = "update" /\ \A x \in Threads : x # t => Under(x)'
    BY <2>1, OthersRest DEF PolicyInv
  <2>4. Under(t)'
    BY <1>1, <2>1, <2>2, <2>3, LoggedTypes DEF Under
  <2> QED BY <2>1, <2>3, <2>4, LogInvKept, LoggedTypes DEF PolicyInv
<1>4. CASE PatchUpdate(t)
  <2>1. /\ pc[t] = "update" /\ pc' = [pc EXCEPT ![t] = "log"]
        /\ UNCHANGED <<log, clock, policy, call, event>>
    BY <1>4 DEF PatchUpdate, Goto
  <2>2. OneCall' /\ pc'[t] = "log" /\ \A x \in Threads : x # t => Under(x)'
    BY <2>1, OthersRest DEF PolicyInv
  <2>3. call[t].uri # PolicyUri
    BY <2>1, CallTypes
  <2>4. Under(t)'
    BY <1>1, <2>1, <2>2, <2>3 DEF Under
  <2> QED BY <2>1, <2>2, <2>4, LogInvKept, LoggedTypes DEF PolicyInv
<1> QED BY <1>2, <1>3, <1>4

\* A publication stamps its mutation, puts its policy in force and fills in the index.
LEMMA PublishKeeps ==
    ASSUME TypeInv, TypeInv', PolicyInv, NEW t \in Threads, PublishStep(t)
    PROVE  PolicyInv'
<1>1. Under(t)
  BY DEF PolicyInv
<1>2. CASE PublishMutation(t)
  <2>1. /\ pc[t] = "mutate" /\ pc' = [pc EXCEPT ![t] = "activate"]
        /\ UNCHANGED <<log, policy, call>> /\ clock' = clock + 1
    BY <1>2 DEF PublishMutation, Stamp, Goto
  <2>2. event'[t].version = call[t].version /\ event'[t].tick = clock + 1
    BY <1>2 DEF PublishMutation, Stamp, TypeInv, TypeOK
  <2>3. OneCall' /\ pc'[t] = "activate" /\ \A x \in Threads : x # t => Under(x)'
    BY <2>1, OthersRest DEF PolicyInv
  <2>4. Under(t)'
    BY <1>1, <2>1, <2>2, <2>3 DEF Under
  <2> QED BY <2>1, <2>3, <2>4, LogInvKept, LoggedTypes DEF PolicyInv
<1>3. CASE PublishActivate(t)
  <2>1. /\ pc[t] = "activate" /\ pc' = [pc EXCEPT ![t] = "index"]
        /\ UNCHANGED <<log, clock, call, event>> /\ policy'.version = call[t].version
    BY <1>3 DEF PublishActivate, CalledPolicy, Goto
  <2>2. OneCall' /\ pc'[t] = "index" /\ \A x \in Threads : x # t => Under(x)'
    BY <2>1, OthersRest DEF PolicyInv
  <2>3. call[t].version > policy.version /\ call[t].version \in Nat
    BY <1>1, <2>1, CallTypes DEF Under
  <2>4. \A p \in EventsIn(log[PolicyUri]) : p.version < call[t].version
    BY <2>3, LoggedTypes DEF PolicyInv, LogInv, LoggedPast
  <2>5. InForce(t)'
    BY <1>1, <2>1, <2>4 DEF InForce, Under
  <2>6. Under(t)'
    BY <1>1, <2>1, <2>2, <2>5 DEF Under
  <2> QED BY <2>1, <2>2, <2>3, <2>6, LogInvKept, LoggedTypes DEF PolicyInv
<1>4. CASE PublishIndex(t)
  <2>1. /\ pc[t] = "index" /\ pc' = [pc EXCEPT ![t] = "log"]
        /\ UNCHANGED <<log, clock, policy, call>>
    BY <1>4 DEF PublishIndex, Goto
  <2>2. event[t] \in PolicyEvents
    BY <2>1 DEF TypeInv, InShape
  <2>3. event'[t].version = event[t].version /\ event'[t].tick = event[t].tick
    BY <1>4, <2>2 DEF PublishIndex, TypeInv, TypeOK, PolicyEvents, EventsOf, Mutations
  <2>4. OneCall' /\ pc'[t] = "log" /\ \A x \in Threads : x # t => Under(x)'
    BY <2>1, OthersRest DEF PolicyInv
  <2>5. call[t].uri = PolicyUri /\ call[t].uri \notin Uris
    BY <2>1, CallTypes
  <2>6. Under(t)'
    BY <1>1, <2>1, <2>3, <2>4, <2>5 DEF Under, InForce
  <2> QED BY <2>1, <2>4, <2>6, LogInvKept, LoggedTypes DEF PolicyInv
<1> QED BY <1>2, <1>3, <1>4 DEF PublishStep
-------------------------------------------------------------------------------
\* The event of a patch joins the log: its version is the one in force, which no logged
\* mutation exceeds.
LEMMA LoggedPatch ==
    ASSUME TypeInv, LogInv, NEW u \in Uris, NEW e \in AnyEvents,
           e.version = policy.version, e.tick <= clock,
           log' = [log EXCEPT ![u] = Append(@, e)], UNCHANGED <<clock, policy>>
    PROVE  LogInv'
<1>1. u \in Logs /\ PolicyUri \in Logs /\ u # PolicyUri /\ log \in [Logs -> Seq(AnyEvents)]
  BY UriAssumption DEF Logs, TypeInv, TypeOK, AnyEvents
<1>2. /\ \A x \in Logs : x # u => log'[x] = log[x]
      /\ log'[u] = Append(log[u], e)
  BY <1>1
<1>3. EventsIn(log'[u]) = EventsIn(log[u]) \cup {e}
  BY <1>1, <1>2, AppendedEvents
<1>4. LoggedPast'
  BY <1>1, <1>2, <1>3 DEF LogInv, LoggedPast
<1>5. PolicyPinned'
  <2> SUFFICES ASSUME NEW x \in Uris, NEW f \in EventsIn(log'[x]), NEW p \in EventsIn(log'[PolicyUri]),
                      p.tick < f.tick
               PROVE  p.version <= f.version
    BY DEF PolicyPinned
  <2>1. p \in EventsIn(log[PolicyUri]) /\ p.version <= policy.version
    BY <1>1, <1>2 DEF LogInv, LoggedPast
  <2>2. CASE f \in EventsIn(log[x])
    BY <2>1, <2>2 DEF LogInv, PolicyPinned
  <2>3. CASE f \notin EventsIn(log[x])
    <3>1. f = e
      BY <1>1, <1>2, <1>3, <2>3, UriAssumption DEF Logs
    <3> QED BY <2>1, <3>1
  <2> QED BY <2>2, <2>3
<1>6. PolicyMonotonic'
  BY <1>1, <1>2 DEF LogInv, PolicyMonotonic
<1> QED BY <1>4, <1>5, <1>6 DEF LogInv

\* A mutation joins the log: it is newer than every event and greater than every mutation.
LEMMA LoggedMutation ==
    ASSUME TypeInv, LogInv, NEW e \in AnyEvents, e.version = policy.version, e.tick = clock,
           \A p \in EventsIn(log[PolicyUri]) : p.version < e.version,
           log' = [log EXCEPT ![PolicyUri] = Append(@, e)], UNCHANGED <<clock, policy>>
    PROVE  LogInv'
<1>1. PolicyUri \in Logs /\ PolicyUri \notin Uris /\ log \in [Logs -> Seq(AnyEvents)] /\ Uris \subseteq Logs
  BY UriAssumption DEF Logs, TypeInv, TypeOK, AnyEvents
<1>2. /\ \A x \in Uris : log'[x] = log[x]
      /\ \A x \in Logs : x # PolicyUri => log'[x] = log[x]
      /\ log'[PolicyUri] = Append(log[PolicyUri], e)
  BY <1>1
<1>3. EventsIn(log'[PolicyUri]) = EventsIn(log[PolicyUri]) \cup {e}
  BY <1>1, <1>2, AppendedEvents
<1>4. e.tick \in Nat /\ e.version \in Nat
  BY LoggedTypes
<1>5. LoggedPast'
  BY <1>1, <1>2, <1>3, <1>4 DEF LogInv, LoggedPast
<1>6. PolicyPinned'
  <2> SUFFICES ASSUME NEW x \in Uris, NEW f \in EventsIn(log'[x]), NEW p \in EventsIn(log'[PolicyUri]),
                      p.tick < f.tick
               PROVE  p.version <= f.version
    BY DEF PolicyPinned
  <2>1. f \in EventsIn(log[x]) /\ f.tick <= clock /\ f.tick \in Nat
    BY <1>1, <1>2, LoggedTypes DEF LogInv, LoggedPast
  <2>2. p # e
    BY <1>4, <2>1
  <2>3. p \in EventsIn(log[PolicyUri])
    BY <1>3, <2>2
  <2> QED BY <2>1, <2>3 DEF LogInv, PolicyPinned
<1>7. PolicyMonotonic'
  <2> DEFINE s == log[PolicyUri]
  <2>1. s \in Seq(AnyEvents) /\ Len(s) \in Nat
    BY <1>1
  <2>2. \A i, j \in DOMAIN s : i < j => s[i].version < s[j].version
    BY DEF LogInv, PolicyMonotonic
  <2>3. \A i \in DOMAIN s : s[i].version < e.version
    BY DEF EventsIn
  <2> HIDE DEF s
  <2>4. ASSUME NEW i \in DOMAIN Append(s, e), NEW j \in DOMAIN Append(s, e), i < j
        PROVE  Append(s, e)[i].version < Append(s, e)[j].version
    <3>1. i \in 1 .. Len(s) + 1 /\ j \in 1 .. Len(s) + 1
      BY <2>1, <2>4
    <3>2. i \in DOMAIN s /\ Append(s, e)[i] = s[i]
      BY <2>1, <2>4, <3>1
    <3>3. CASE j = Len(s) + 1
      BY <2>1, <2>3, <3>2, <3>3
    <3>4. CASE j # Len(s) + 1
      <4>1. j \in DOMAIN s /\ Append(s, e)[j] = s[j]
        BY <2>1, <3>1, <3>4
      <4> QED BY <2>2, <2>4, <3>2, <4>1
    <3> QED BY <3>3, <3>4
  <2>5. log'[PolicyUri] = Append(s, e)
    BY <1>2 DEF s
  <2> QED BY <2>4, <2>5 DEF PolicyMonotonic
<1> QED BY <1>5, <1>6, <1>7 DEF LogInv

LEMMA AppendKeeps ==
    ASSUME TypeInv, TypeInv', PolicyInv, NEW t \in Threads, LogAppend(t)
    PROVE  PolicyInv'
<1>1. /\ pc[t] = "log" /\ pc' = [pc EXCEPT ![t] = "store"]
      /\ UNCHANGED <<clock, policy, call, event>>
  BY DEF LogAppend, Goto
<1>2. OneCall' /\ pc'[t] = "store" /\ \A x \in Threads : x # t => Under(x)'
  BY <1>1, OthersRest DEF PolicyInv
<1>3. Under(t)'
  BY <1>2 DEF Under
<1>4. call[t].uri \in Logs /\ event[t] \in AnyEvents
  BY <1>1 DEF TypeInv, InShape
<1>5. log' = [log EXCEPT ![call[t].uri] = Append(@, event[t])]
  BY DEF LogAppend
<1>6. Under(t) /\ LogInv
  BY DEF PolicyInv
<1>7. CASE call[t].uri \in Uris
  <2>1. event[t].version = policy.version /\ event[t].tick <= clock
    BY <1>1, <1>6, <1>7 DEF Under
  <2> QED BY <1>1, <1>2, <1>3, <1>4, <1>5, <1>6, <1>7, <2>1, LoggedPatch DEF PolicyInv
<1>8. CASE call[t].uri = PolicyUri
  <2>1. InForce(t) /\ event[t].tick = clock
    BY <1>1, <1>6, <1>8 DEF Under
  <2>2. LogInv'
    BY <1>1, <1>4, <1>5, <1>6, <1>8, <2>1, LoggedMutation DEF InForce
  <2> QED BY <1>2, <1>3, <2>2 DEF PolicyInv
<1> QED BY <1>4, <1>7, <1>8 DEF Logs

\* A log that is cut keeps the order of what is left; nobody is in a call then.
LEMMA RollbackKeeps ==
    ASSUME TypeInv, PolicyInv, Serial = TRUE, NEW t \in Threads, NEW u \in Logs,
           NEW keep \in 0 .. Len(log[u]), Rollback(t, u, keep)
    PROVE  PolicyInv'
<1>1. /\ \A x \in Threads : pc[x] = "idle"
      /\ log' = [log EXCEPT ![u] = SubSeq(@, 1, keep)]
      /\ UNCHANGED <<pc, clock, policy>>
  BY DEF Rollback, Free, locals
<1>2. log \in [Logs -> Seq(AnyEvents)] /\ Uris \subseteq Logs /\ PolicyUri \in Logs
  BY DEF TypeInv, TypeOK, AnyEvents, Logs
<1>3. \A x \in Logs : \A i \in DOMAIN log'[x] : i \in DOMAIN log[x] /\ log'[x][i] = log[x][i]
  <2>1. \A i \in DOMAIN SubSeq(log[u], 1, keep) :
           i \in DOMAIN log[u] /\ SubSeq(log[u], 1, keep)[i] = log[u][i]
    BY <1>2
  <2>2. \A x \in Logs : log'[x] = IF x = u THEN SubSeq(log[u], 1, keep) ELSE log[x]
    BY <1>1, <1>2
  <2> QED BY <2>1, <2>2
<1>4. \A x \in Logs : EventsIn(log'[x]) \subseteq EventsIn(log[x])
  BY <1>3 DEF EventsIn
<1>5. LoggedPast' /\ PolicyPinned'
  BY <1>1, <1>2, <1>4 DEF PolicyInv, LogInv, LoggedPast, PolicyPinned
<1>6. PolicyMonotonic'
  BY <1>2, <1>3 DEF PolicyInv, LogInv, PolicyMonotonic
<1>7. OneCall' /\ \A x \in Threads : Under(x)'
  BY <1>1 DEF OneCall, Under
<1> QED BY <1>5, <1>6, <1>7 DEF PolicyInv, LogInv

LEMMA PolicyInit == Init => PolicyInv
BY DEF Init, PolicyInv, OneCall, Under, LogInv, LoggedPast, PolicyPinned, PolicyMonotonic,
       EventsIn, Logs

LEMMA PolicyNext ==
    ASSUME Serial = TRUE, MaxBoots = 0
    PROVE  TypeInv /\ PolicyInv /\ [Next]_vars => PolicyInv'
<1> SUFFICES ASSUME TypeInv, PolicyInv, [Next]_vars PROVE PolicyInv'
  OBVIOUS
<1>1. TypeInv'
  BY TypeNext
<1>2. ASSUME UNCHANGED <<log, clock, policy, pc, call, event>> PROVE PolicyInv'
  BY <1>2 DEF PolicyInv, OneCall, Under, InForce, LogInv, LoggedPast, PolicyPinned, PolicyMonotonic
<1>3. ASSUME NEW t \in Threads, NEW u \in Uris, Create(t, u) PROVE PolicyInv'
  BY <1>2, <1>3 DEF Create, locals
<1>4. ASSUME NEW t \in Threads, PatchMissing(t) \/ StoreAppend(t) \/ StoreRaises(t) PROVE PolicyInv'
  BY <1>1, <1>4, LeaveKeeps DEF PatchMissing, StoreAppend, StoreRaises
<1>5. ASSUME NEW t \in Threads, PatchStep(t) \/ LogStep(t) PROVE PolicyInv'
  BY <1>1, <1>4, <1>5, PatchKeeps, AppendKeeps DEF PatchStep, LogStep
<1>6. ASSUME NEW t \in Threads, PatchCheck(t) \/ PublishCheck(t) \/ PublishStep(t) PROVE PolicyInv'
  BY <1>1, <1>6, StartKeeps, PublishKeeps
<1>7. ASSUME NEW t \in Threads, NEW u \in Logs, NEW keep \in 0 .. Len(log[u]), Rollback(t, u, keep)
      PROVE  PolicyInv'
  BY <1>7, RollbackKeeps
<1>8. ~Restart
  BY DEF Restart, TypeInv, TypeOK
<1>9. CASE UNCHANGED vars
  BY <1>2, <1>9 DEF vars, locals
<1> QED BY <1>3, <1>5, <1>6, <1>7, <1>8, <1>9 DEF Next

\* With one call at a time a patch is logged under the policy in force, and no event
\* behind a logged mutation carries an older version (state_runtime.py, patch;
\* policy_sync.py, publish), whatever logs are rolled back and appends fail.
THEOREM PatchesPinned ==
    ASSUME Serial = TRUE, MaxBoots = 0
    PROVE  Spec => []PolicyPinned
<1>1. PolicyInv => PolicyPinned
  BY DEF PolicyInv, LogInv
<1> QED BY <1>1, TypeInit, TypeNext, PolicyInit, PolicyNext, PTL DEF Spec

\* Under the same assumptions the mutations in the log have growing versions, although
\* the log is written several steps after the version was compared.
THEOREM MutationsGrow ==
    ASSUME Serial = TRUE, MaxBoots = 0
    PROVE  Spec => []PolicyMonotonic
<1>1. PolicyInv => PolicyMonotonic
  BY DEF PolicyInv, LogInv
<1> QED BY <1>1, TypeInit, TypeNext, PolicyInit, PolicyNext, PTL DEF Spec
-------------------------------------------------------------------------------
\* Replaying a log that got one more event, stamped after all of its events, merges the
\* delta of that event into what replay showed before.
LEMMA ReplayOfAppended ==
    ASSUME NEW s \in Seq(AnyEvents), NEW e \in PatchEvents, Distinct(s), Distinct(Append(s, e)),
           \A f \in EventsIn(s) : f.tick < e.tick
    PROVE  ReplayOf(Append(s, e)) = Merge(ReplayOf(s), e.body)
<1> DEFINE r == Append(s, e)
           n == Len(s) + 1
           d == e.body
<1>1. e \in AnyEvents /\ d \in Deltas /\ r \in Seq(AnyEvents) /\ e.tick \in Nat
  BY DEF AnyEvents, PatchEvents, EventsOf
<1>2. /\ DOMAIN r = DOMAIN s \cup {n} /\ n \notin DOMAIN s /\ r[n] = e
      /\ \A i \in DOMAIN s : r[i] = s[i] /\ s[i] \in AnyEvents
  BY <1>1
<1>3. \A i \in DOMAIN s : ~Before(e, s[i])
  <2> TAKE i \in DOMAIN s
  <2>1. s[i].tick < e.tick /\ s[i].tick \in Nat
    BY <1>2 DEF EventsIn, AnyEvents, PatchEvents, PolicyEvents, EventsOf
  <2> QED BY <1>1, <2>1 DEF Before
<1> HIDE DEF r, n
<1>4. ASSUME NEW k \in Keys PROVE ReplayOf(r)[k] = IF k = d.key THEN d.val ELSE ReplayOf(s)[k]
  <2>1. CASE k = d.key
    <3>1. n \in Setters(r, k)
      BY <1>2, <2>1 DEF Setters
    <3>2. PICK i \in Setters(r, k) : IsLast(r, Setters(r, k), i) /\ ReplayOf(r)[k] = r[i].body.val
      BY <1>1, <3>1, ReplayAt DEF r
    <3>3. i = n
      <4> SUFFICES ASSUME i # n PROVE FALSE
        OBVIOUS
      <4>1. i \in DOMAIN s /\ Before(e, s[i])
        BY <1>2, <3>1, <3>2 DEF IsLast, Setters
      <4> QED BY <1>3, <4>1
    <3> QED BY <1>2, <2>1, <3>2, <3>3
  <2>2. CASE k # d.key
    <3> DEFINE S == Setters(s, k)
    <3>1. Setters(r, k) = S
      BY <1>2, <2>2 DEF Setters
    <3>2. CASE S = {}
      BY <1>1, <2>2, <3>1, <3>2, ReplayAt DEF r
    <3>3. CASE S # {}
      <4>1. PICK i \in S : IsLast(s, S, i) /\ ReplayOf(s)[k] = s[i].body.val
        BY <3>3, ReplayAt
      <4>2. PICK j \in S : IsLast(r, S, j) /\ ReplayOf(r)[k] = r[j].body.val
        BY <1>1, <3>1, <3>3, ReplayAt DEF r
      <4>3. i \in DOMAIN s /\ j \in DOMAIN s
        BY DEF Setters
      <4>4. i = j
        BY <1>2, <4>1, <4>2, <4>3, BeforeIsOrder DEF IsLast
      <4> QED BY <1>2, <2>2, <4>1, <4>2, <4>3, <4>4
    <3> QED BY <3>2, <3>3
  <2> QED BY <2>1, <2>2
<1>5. ReplayOf(r) = [k \in Keys |-> ReplayOf(r)[k]] /\ ReplayOf(s) = [k \in Keys |-> ReplayOf(s)[k]]
  BY DEF ReplayOf
<1>6. Merge(ReplayOf(s), d) = [k \in Keys |-> IF k = d.key THEN d.val ELSE ReplayOf(s)[k]]
  BY <1>5 DEF Merge
<1> QED BY <1>4, <1>5, <1>6 DEF r

LEMMA ReplayOfNothing == ReplayOf(<<>>) = NewObject.state
<1>1. \A k \in Keys : Setters(<<>>, k) = {}
  BY DEF Setters
<1> QED BY <1>1 DEF ReplayOf, NewObject

\* What a patch under way has made of the object, and how its event will meet the log.
InHand(t) ==
    /\ pc[t] \in {"stamp", "update"} =>
          /\ objects[call[t].uri] # None
          /\ copy[t].state = Merge(ReplayOf(log[call[t].uri]), call[t].body)
    /\ pc[t] = "update" \/ (pc[t] = "log" /\ call[t].uri \in Uris) =>
          /\ event[t] \in PatchEvents /\ event[t].body = call[t].body
          /\ \A e \in EventsIn(log[call[t].uri]) : e.tick < event[t].tick
    /\ pc[t] = "log" /\ call[t].uri \in Uris =>
          /\ objects[call[t].uri] # None
          /\ objects[call[t].uri].state = Merge(ReplayOf(log[call[t].uri]), call[t].body)

Shown ==
    \A u \in Uris :
        IF objects[u] = None THEN log[u] = <<>>
        ELSE Settled(u) => objects[u].state = ReplayOf(log[u])

LiveInv == Shown /\ \A t \in Threads : InHand(t)

\* A step of the one thread in a call that touches neither registry nor log.
LEMMA LiveKept ==
    ASSUME TypeInv, OneCall, LiveInv, NEW t \in Threads, NEW label,
           pc[t] # "idle" \/ (\A x \in Threads : pc[x] = "idle"), pc[t] # "log",
           pc' = [pc EXCEPT ![t] = label], UNCHANGED <<objects, log>>, InHand(t)'
    PROVE  LiveInv'
<1>1. \A x \in Threads : x # t => pc[x] = "idle" /\ pc'[x] = "idle"
  BY DEF OneCall, TypeInv, TypeOK
<1>2. \A x \in Threads : x # t => InHand(x)'
  BY <1>1 DEF InHand
<1>3. \A u \in Uris : Settled(u)
  BY <1>1 DEF Settled
<1>4. Shown'
  BY <1>3 DEF LiveInv, Shown
<1> QED BY <1>2, <1>4 DEF LiveInv

LEMMA LiveCreate ==
    ASSUME TypeInv, LiveInv, Serial = TRUE, NEW t \in Threads, NEW u \in Uris, Create(t, u)
    PROVE  LiveInv'
<1>1. /\ \A x \in Threads : pc[x] = "idle" /\ pc'[x] = "idle"
      /\ objects' = [objects EXCEPT ![u] = NewObject] /\ UNCHANGED log
      /\ log[u] = <<>>
  BY DEF Create, Free, locals, LiveInv, Shown
<1>2. \A w \in Uris : objects'[w] = IF w = u THEN NewObject ELSE objects[w]
  BY <1>1 DEF TypeInv, TypeOK
<1>3. \A w \in Uris : Settled(w)
  BY <1>1 DEF Settled
<1>4. Shown'
  <2> SUFFICES ASSUME NEW w \in Uris
               PROVE  IF objects'[w] = None THEN log'[w] = <<>> ELSE objects'[w].state = ReplayOf(log'[w])
    BY DEF Shown
  <2>1. CASE w = u
    BY <1>1, <1>2, <2>1, ReplayOfNothing
  <2>2. CASE w # u
    BY <1>1, <1>2, <1>3, <2>2 DEF LiveInv, Shown
  <2> QED BY <2>1, <2>2
<1> QED BY <1>1, <1>4 DEF LiveInv, InHand

\* The object a patch reads shows what its log replays to.
LEMMA LiveRead ==
    ASSUME TypeInv, OneCall, LiveInv, NEW t \in Threads, PatchRead(t)
    PROVE  LiveInv'
<1> DEFINE u == call[t].uri
           d == call[t].body
<1>1. /\ pc[t] = "read" /\ pc' = [pc EXCEPT ![t] = "stamp"]
      /\ UNCHANGED <<objects, log, call>> /\ objects[u] # None
      /\ copy' = [copy EXCEPT ![t] = [objects[u] EXCEPT !.state = Merge(@, d)]]
  BY DEF PatchRead, Goto
<1>2. u \in Uris /\ d \in Deltas /\ objects[u] \in Objects
  BY <1>1 DEF TypeInv, TypeOK, InShape, Calls
<1>3. pc'[t] = "stamp" /\ copy'[t].state = Merge(objects[u].state, d)
  BY <1>1, <1>2 DEF TypeInv, TypeOK, Objects
<1>4. Settled(u)
  BY <1>1 DEF OneCall, Settled
<1>5. objects[u].state = ReplayOf(log[u])
  BY <1>1, <1>2, <1>4 DEF LiveInv, Shown
<1>6. InHand(t)'
  BY <1>1, <1>3, <1>5 DEF InHand
<1> QED BY <1>1, <1>6, LiveKept

\* The event takes a tick that no logged event has.
LEMMA LiveStamp ==
    ASSUME TypeInv, OneCall, LogInv, LiveInv, NEW t \in Threads, PatchStamp(t)
    PROVE  LiveInv'
<1> DEFINE u == call[t].uri
<1>1. /\ pc[t] = "stamp" /\ pc' = [pc EXCEPT ![t] = "update"]
      /\ UNCHANGED <<objects, log, call, copy>> /\ Stamp(t)
  BY DEF PatchStamp, Goto
<1>2. call[t] \in Calls(Uris, Deltas) /\ u \in Logs
  BY <1>1 DEF TypeInv, InShape, Calls, Logs
<1>3. event'[t] \in PatchEvents /\ event'[t].body = call[t].body
  BY <1>1, <1>2, StampType DEF TypeInv, PatchEvents
<1>4. event'[t].tick = clock + 1
  BY <1>1 DEF Stamp, TypeInv, TypeOK
<1>5. \A e \in EventsIn(log[u]) : e.tick \in Nat /\ e.tick <= clock /\ clock \in Nat
  BY <1>2, LoggedTypes DEF LogInv, LoggedPast
<1>6. \A e \in EventsIn(log[u]) : e.tick < event'[t].tick
  BY <1>4, <1>5
<1>7. pc'[t] = "update"
  BY <1>1 DEF TypeInv, TypeOK
<1>8. InHand(t)'
  BY <1>1, <1>3, <1>6, <1>7 DEF InHand, LiveInv
<1> QED BY <1>1, <1>8, LiveKept

\* The registry shows the new state before the log has the event.
LEMMA LiveUpdate ==
    ASSUME TypeInv, OneCall, LiveInv, NEW t \in Threads, PatchUpdate(t)
    PROVE  LiveInv'
<1> DEFINE u == call[t].uri
           new == [copy[t] EXCEPT !.timeline = Append(@, event[t])]
<1>1. /\ pc[t] = "update" /\ UNCHANGED <<log, call, copy, event>>
      /\ objects' = [objects EXCEPT ![u] = new]
  BY DEF PatchUpdate
<1>2. u \in Uris /\ copy[t] \in Objects
  BY <1>1 DEF TypeInv, InShape, Calls
<1>3. new.state = copy[t].state /\ new # None
  <2>1. new \in Objects
    BY <1>1, <1>2, AppendedTimeline DEF TypeInv, InShape
  <2>2. new.state = copy[t].state
    BY <1>2 DEF Objects
  <2> QED BY <2>1, <2>2, ObjectAssumption
<1>4. \A w \in Uris : objects'[w] = IF w = u THEN new ELSE objects[w]
  BY <1>1 DEF TypeInv, TypeOK
<1>5. \A x \in Threads : pc'[x] = (IF x = t THEN "log" ELSE pc[x]) /\ (x # t => pc[x] = "idle")
  BY <1>1 DEF PatchUpdate, Goto, OneCall, TypeInv, TypeOK
<1>6. InHand(t)
  BY DEF LiveInv
<1> HIDE DEF u, new
<1>7. InHand(t)'
  BY <1>1, <1>2, <1>3, <1>4, <1>5, <1>6 DEF InHand, u
<1>8. \A x \in Threads : x # t => InHand(x)'
  BY <1>5 DEF InHand
<1>9. \A w \in Uris : Settled(w) /\ (w = u => ~Settled(w)')
  BY <1>1, <1>5 DEF Settled, u
<1>10. Shown'
  BY <1>1, <1>3, <1>4, <1>9 DEF LiveInv, Shown
<1> QED BY <1>7, <1>8, <1>10 DEF LiveInv

\* The log catches up with the registry.
LEMMA LiveAppend ==
    ASSUME TypeInv, OneCall, Numbered, LiveInv, NEW t \in Threads, LogAppend(t)
    PROVE  LiveInv'
<1> DEFINE u == call[t].uri
           e == event[t]
<1>1. /\ pc[t] = "log" /\ UNCHANGED <<objects, call, copy, event>>
      /\ u \in Logs /\ e \in AnyEvents /\ Stamped(t)
      /\ log \in [Logs -> Seq(AnyEvents)]
  BY NumberedTypes DEF LogAppend, TypeInv, InShape, Stamped
<1>2. \A w \in Logs : log'[w] = IF w = u THEN Append(log[u], e) ELSE log[w]
  BY <1>1 DEF LogAppend
<1>3. \A x \in Threads : pc'[x] = IF x = t THEN "store" ELSE "idle"
  BY <1>1 DEF LogAppend, Goto, OneCall, TypeInv, TypeOK
<1>4. \A x \in Threads : InHand(x)'
  BY <1>3 DEF InHand
<1>5. \A w \in Uris : w \in Logs /\ (w # u => Settled(w))
  BY <1>1 DEF OneCall, Settled, Logs
<1>6. ASSUME u \in Uris PROVE objects[u] # None /\ objects[u].state = ReplayOf(log'[u])
  <2>1. /\ e \in PatchEvents /\ e.body = call[t].body /\ objects[u] # None
        /\ \A f \in EventsIn(log[u]) : f.tick < e.tick
        /\ objects[u].state = Merge(ReplayOf(log[u]), call[t].body)
    BY <1>1, <1>6 DEF LiveInv, InHand
  <2>2. Distinct(log[u]) /\ \A f \in EventsIn(log[u]) : f.seq # e.seq
    BY <1>1 DEF Numbered
  <2>3. ReplayOf(Append(log[u], e)) = Merge(ReplayOf(log[u]), e.body)
    BY <1>1, <2>1, <2>2, AppendedDistinct, ReplayOfAppended
  <2> QED BY <1>1, <1>2, <2>1, <2>3
<1> HIDE DEF u, e
<1>7. Shown'
  <2> SUFFICES ASSUME NEW w \in Uris
               PROVE  IF objects'[w] = None THEN log'[w] = <<>>
                      ELSE Settled(w)' => objects'[w].state = ReplayOf(log'[w])
    BY DEF Shown
  <2>1. CASE w = u
    BY <1>1, <1>6, <2>1
  <2>2. CASE w # u
    BY <1>1, <1>2, <1>5, <2>2 DEF LiveInv, Shown
  <2> QED BY <2>1, <2>2
<1> QED BY <1>4, <1>7 DEF LiveInv

LEMMA LiveInit == Init => LiveInv
BY DEF Init, NoObjects, LiveInv, Shown, InHand, Logs

LEMMA LiveNext ==
    ASSUME Serial = TRUE, MaxBoots = 0, MaxRollbacks = 0
    PROVE  TypeInv /\ PolicyInv /\ Numbered /\ LiveInv /\ [Next]_vars => LiveInv'
<1> SUFFICES ASSUME TypeInv, OneCall, LogInv, Numbered, LiveInv, [Next]_vars PROVE LiveInv'
  BY DEF PolicyInv
<1>1. ASSUME NEW t \in Threads, NEW label \in {"idle", "read", "mutate", "activate", "index"},
             pc[t] # "idle" \/ (\A x \in Threads : pc[x] = "idle"), pc[t] # "log",
             pc' = [pc EXCEPT ![t] = label], UNCHANGED <<objects, log>>
      PROVE  LiveInv'
  <2>1. pc'[t] = label
    BY <1>1 DEF TypeInv, TypeOK
  <2>2. InHand(t)'
    BY <2>1 DEF InHand
  <2> QED BY <1>1, <2>2, LiveKept
<1>2. ASSUME NEW t \in Threads, PatchCheck(t) \/ PublishCheck(t) PROVE LiveInv'
  BY <1>1, <1>2 DEF PatchCheck, PublishCheck, MayStart, Free, Goto
<1>3. ASSUME NEW t \in Threads, PatchMissing(t) \/ StoreAppend(t) \/ StoreRaises(t) PROVE LiveInv'
  BY <1>1, <1>3 DEF PatchMissing, StoreAppend, StoreRaises, Leave, Goto
<1>4. ASSUME NEW t \in Threads, PublishMutation(t) \/ PublishActivate(t) PROVE LiveInv'
  BY <1>1, <1>4 DEF PublishMutation, PublishActivate, Goto
<1>5. ASSUME NEW t \in Threads, PublishIndex(t) PROVE LiveInv'
  <2>1. /\ pc[t] = "index" /\ pc' = [pc EXCEPT ![t] = "log"] /\ UNCHANGED <<objects, log, call>>
    BY <1>5 DEF PublishIndex, Goto
  <2>2. pc'[t] = "log" /\ call[t].uri \notin Uris
    BY <2>1, CallTypes DEF TypeInv, TypeOK
  <2>3. InHand(t)'
    BY <2>1, <2>2 DEF InHand
  <2> QED BY <2>1, <2>3, LiveKept
<1>6. ASSUME NEW t \in Threads, NEW u \in Logs, NEW keep \in 0 .. Len(log[u]), Rollback(t, u, keep)
      PROVE  FALSE
  BY <1>6 DEF Rollback, TypeInv, TypeOK
<1>7. ~Restart
  BY DEF Restart, TypeInv, TypeOK
<1>8. CASE UNCHANGED vars
  BY <1>8 DEF vars, locals, LiveInv, Shown, Settled, InHand
<1> QED
  BY <1>2, <1>3, <1>4, <1>5, <1>6, <1>7, <1>8, LiveCreate, LiveRead, LiveStamp, LiveUpdate, LiveAppend
  DEF Next, PatchStep, PublishStep, LogStep

\* With one call at a time, in one life of the process and with no log cut, the state an
\* object shows is what its log replays to (state_runtime.py, patch; replay.py), also
\* after calls whose append to the store raised.
THEOREM LiveIsReplay ==
    ASSUME Serial = TRUE, MaxBoots = 0, MaxRollbacks = 0
    PROVE  Spec => []ReplayMatchesLive
<1>1. LiveInv => ReplayMatchesLive
  BY DEF LiveInv, Shown, ReplayMatchesLive
<1> QED BY <1>1, TypeInit, TypeNext, PolicyInit, PolicyNext, NumberedInit, NumberedNext,
           LiveInit, LiveNext, PTL DEF Spec
===============================================================================
