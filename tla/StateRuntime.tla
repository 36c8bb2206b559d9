----------------------------- MODULE StateRuntime -----------------------------
(***************************************************************************)
(* The kernel of the fabric: the object registry, the state engine that    *)
(* patches objects, the logical clock, the event log with its durable      *)
(* store, and the policy service that gates every patch.  All of them live *)
(* in one process and are called from several handler threads (the HTTP    *)
(* server starts one per request); only the store survives a restart.      *)
(*                                                                         *)
(* A state layer maps paths to values.  A patch delta sets one path, which *)
(* is what _deep_merge does with a nested dictionary of one leaf.  A       *)
(* signature is always the right one: only the engine signs.  The store    *)
(* file is seen per URI, as bootstrap and query read it (EventStore is     *)
(* about the file itself).                                                 *)
(***************************************************************************)
EXTENDS Naturals, Sequences

CONSTANTS
    Threads,         \* handler threads
    Serial,          \* TRUE: one call at a time (all callers on one asyncio loop)
    Uris,            \* the object URIs
    PolicyUri,       \* qso://policy.global
    Keys, Vals,      \* paths of a state layer and their values
    Actors,
    AllowedLists,    \* the allowed_actors lists a policy may carry ({}: no list)
    Ranks,           \* how the random event_ids of two events may compare
    StoreMayFail,    \* TRUE: event_store.append may raise (disk full, torn tail)
    MaxTick,         \* bound: no call starts at or after this clock value
    MaxVersion,      \* bound on the published policy versions
    MaxBoots,        \* bound on the restarts
    MaxRollbacks,    \* bound on the calls of EventLogService.rollback
    None

ASSUME UriAssumption == PolicyUri \notin Uris
ASSUME NoneAssumption == None \notin Vals
ASSUME AllowedAssumption == AllowedLists \subseteq SUBSET Actors /\ {} \in AllowedLists
ASSUME BoundAssumption ==
    /\ Serial \in BOOLEAN /\ StoreMayFail \in BOOLEAN /\ Ranks \subseteq Nat
    /\ MaxTick \in Nat /\ MaxVersion \in Nat /\ MaxBoots \in Nat /\ MaxRollbacks \in Nat

\* Events.  A QSOEvent is named by its timestamp (the tick) and its event_id: ids
\* are random, so two of them compare by a rank drawn at random and, with equal
\* ranks, in the order they were made (uuid7); no two events have the same id.
Deltas == [key : Keys, val : Vals]
Mutations == [allowed : AllowedLists, index : Nat]
EventsOf(Bodies) ==
    [tick : Nat, rank : Ranks, seq : Nat, actor : Actors, version : Nat, body : Bodies]
PatchEvents == EventsOf(Deltas)
PolicyEvents == EventsOf(Mutations)

Objects == [state : [Keys -> Vals \cup {None}], timeline : Seq(PatchEvents)]
ASSUME ObjectAssumption == None \notin Objects
Policies == [version : Nat, allowed : AllowedLists]
Logs == Uris \cup {PolicyUri}

\* The arguments of a patch or publish call.
Calls(Targets, Bodies) == [uri : Targets, actor : Actors, version : Nat, body : Bodies]

VARIABLES
    objects,   \* RegistryService._objects
    clock,     \* LogicalClock._tick
    log,       \* EventLogService._events_by_uri
    store,     \* the rows of the event store, per URI
    policy,    \* PolicySyncService._global_policy
    history,   \* the policies of PolicySyncService._history
    pc,        \* what each thread does next
    call,      \* the arguments of its call
    copy,      \* the object as it read it, with the delta merged in
    event,     \* the event it has stamped
    minted,    \* the number of event_ids made so far, over all boots
    boots,     \* restarts so far
    rollbacks, \* log rollbacks so far
    done,      \* the events whose call returned to its caller (history variable)
    unread     \* the events of the store the last boot did not take up (history variable)

locals == <<pc, call, copy, event>>
counters == <<minted, boots, rollbacks, unread>>
vars == <<objects, clock, log, store, policy, history, locals, counters, done>>

NewObject == [state |-> [k \in Keys |-> None], timeline |-> <<>>]
FirstPolicy == [version |-> 1, allowed |-> {}]

\* Mutant: the delta replaces the state layer.
Merge_Replaces(state, delta) == [k \in Keys |-> IF k = delta.key THEN delta.val ELSE None]

\* _deep_merge
Merge(state, delta) == [state EXCEPT ![delta.key] = delta.val]

\* The canonical order of replay: timestamp, then event_id.
Before(e, f) ==
    \/ e.tick < f.tick
    \/ e.tick = f.tick /\ e.rank < f.rank
    \/ e.tick = f.tick /\ e.rank = f.rank /\ e.seq < f.seq

\* rebuild_from_log: deltas merged in canonical order, so the last one on a path wins.
Setters(events, k) == {i \in DOMAIN events : events[i].body.key = k}

\* Mutant: replay takes the events as they lie in the log.
ReplayOf_AsStored(events) ==
    [k \in Keys |->
        LET S == Setters(events, k)
        IN  IF S = {} THEN None
            ELSE events[CHOOSE i \in S : \A j \in S : j <= i].body.val]

ReplayOf(events) ==
    [k \in Keys |->
        LET S == Setters(events, k)
        IN  IF S = {} THEN None
            ELSE LET last == CHOOSE i \in S :
                                \A j \in S \ {i} : Before(events[j], events[i])
                 IN  events[last].body.val]

NoObjects == [u \in Uris |-> None]
Unset == [t \in Threads |-> None]

Init ==
    /\ objects = NoObjects
    /\ clock = 0
    /\ policy = FirstPolicy
    /\ history = <<>>
    /\ pc = [t \in Threads |-> "idle"]
    /\ call = Unset /\ copy = Unset /\ event = Unset
    /\ log = [u \in Logs |-> <<>>]
    /\ store = [u \in Logs |-> <<>>]
    /\ minted = 0 /\ boots = 0 /\ rollbacks = 0
    /\ done = {} /\ unread = {}

-------------------------------------------------------------------------------
Free(t) ==
    /\ pc[t] = "idle"
    /\ Serial => \A x \in Threads : pc[x] = "idle"

\* A call that takes a tick (MaxTick bounds the model, not the code).
MayStart(t) == Free(t) /\ clock < MaxTick

Goto(t, label) == pc' = [pc EXCEPT ![t] = label]

\* The call returns or raises: its locals are gone.
Leave(t) ==
    /\ Goto(t, "idle")
    /\ call' = [call EXCEPT ![t] = None]
    /\ copy' = [copy EXCEPT ![t] = None]
    /\ event' = [event EXCEPT ![t] = None]

\* create_object: the registry refuses a URI it has.
Create(t, u) ==
    /\ Free(t)
    /\ objects[u] = None
    /\ objects' = [objects EXCEPT ![u] = NewObject]
    /\ UNCHANGED <<clock, log, store, policy, history, locals, counters, done>>

\* Mutant: the version of the caller is not compared.
PatchCheck_AnyVersion(t) ==
    /\ MayStart(t)
    /\ \E u \in Uris, a \in Actors, d \in Deltas, v \in 1..MaxVersion :
          /\ policy.allowed # {} => a \in policy.allowed
          /\ call' = [call EXCEPT ![t] = [uri |-> u, actor |-> a, version |-> v, body |-> d]]
    /\ Goto(t, "read")
    /\ UNCHANGED <<objects, clock, log, store, policy, history, copy, event, counters, done>>

\* patch: the caller's version must be the current one and the actor on its list;
\* with any other argument the call raises and changes nothing.
PatchCheck(t) ==
    /\ MayStart(t)
    /\ \E u \in Uris, a \in Actors, d \in Deltas :
          /\ policy.allowed # {} => a \in policy.allowed
          /\ call' = [call EXCEPT ![t] =
                [uri |-> u, actor |-> a, version |-> policy.version, body |-> d]]
    /\ Goto(t, "read")
    /\ UNCHANGED <<objects, clock, log, store, policy, history, copy, event, counters, done>>

\* obj = registry.read(uri); next_state = _deep_merge(obj.state_layer, delta)
PatchRead(t) ==
    /\ pc[t] = "read"
    /\ objects[call[t].uri] # None
    /\ copy' = [copy EXCEPT ![t] =
          [objects[call[t].uri] EXCEPT !.state = Merge(@, call[t].body)]]
    /\ Goto(t, "stamp")
    /\ UNCHANGED <<objects, clock, log, store, policy, history, call, event, counters, done>>

\* registry.read raises KeyError.
PatchMissing(t) ==
    /\ pc[t] = "read"
    /\ objects[call[t].uri] = None
    /\ Leave(t)
    /\ UNCHANGED <<objects, clock, log, store, policy, history, counters, done>>

\* The event takes the next tick and a new id, and is signed.
Stamp(t) ==
    /\ \E r \in Ranks :
          event' = [event EXCEPT ![t] =
             [tick |-> clock + 1, rank |-> r, seq |-> minted + 1, actor |-> call[t].actor,
              version |-> call[t].version, body |-> call[t].body]]
    /\ clock' = clock + 1
    /\ minted' = minted + 1

PatchStamp(t) ==
    /\ pc[t] = "stamp"
    /\ Stamp(t)
    /\ Goto(t, "update")
    /\ UNCHANGED <<objects, log, store, policy, history, call, copy, boots, rollbacks, unread, done>>

\* obj.timeline_layer.append(event); registry.update(obj)
PatchUpdate(t) ==
    /\ pc[t] = "update"
    /\ objects' = [objects EXCEPT ![call[t].uri] =
          [copy[t] EXCEPT !.timeline = Append(@, event[t])]]
    /\ Goto(t, "log")
    /\ UNCHANGED <<clock, log, store, policy, history, call, copy, event, counters, done>>

\* Mutant: the event goes to the store alone.
LogAppend_StoreOnly(t) ==
    /\ pc[t] = "log"
    /\ Goto(t, "store")
    /\ UNCHANGED <<objects, clock, log, store, policy, history, call, copy, event, counters, done>>

\* event_log.append: first the list in memory ...
LogAppend(t) ==
    /\ pc[t] = "log"
    /\ log' = [log EXCEPT ![call[t].uri] = Append(@, event[t])]
    /\ Goto(t, "store")
    /\ UNCHANGED <<objects, clock, store, policy, history, call, copy, event, counters, done>>

\* ... then the event store, and the call returns;
StoreAppend(t) ==
    /\ pc[t] = "store"
    /\ store' = [store EXCEPT ![call[t].uri] = Append(@, event[t])]
    /\ done' = done \cup {event[t]}
    /\ Leave(t)
    /\ UNCHANGED <<objects, clock, log, policy, history, counters>>

\* Mutant: the exception of the store is swallowed and the call returns its event.
StoreRaises_Swallowed(t) ==
    /\ pc[t] = "store"
    /\ StoreMayFail
    /\ done' = done \cup {event[t]}
    /\ Leave(t)
    /\ UNCHANGED <<objects, clock, log, store, policy, history, counters>>

\* or the store raises, and so does the call.
StoreRaises(t) ==
    /\ pc[t] = "store"
    /\ StoreMayFail
    /\ Leave(t)
    /\ UNCHANGED <<objects, clock, log, store, policy, history, counters, done>>

-------------------------------------------------------------------------------
\* The policies a caller may publish: new ones, and with PolicySyncService.rollback
\* the last one in the history of the target version.
Published(v) == {i \in DOMAIN history : history[i].version = v}
Publishable ==
    [version : 1..MaxVersion, allowed : AllowedLists]
    \cup {history[i] : i \in {j \in DOMAIN history : \A k \in Published(history[j].version) : k <= j}}

\* Mutant: a version that is already current may be published again.
PublishCheck_SameVersion(t) ==
    /\ MayStart(t)
    /\ \E p \in Publishable, a \in Actors :
          /\ p.version >= policy.version
          /\ call' = [call EXCEPT ![t] =
                [uri |-> PolicyUri, actor |-> a, version |-> p.version,
                 body |-> [allowed |-> p.allowed, index |-> 0]]]
    /\ Goto(t, "mutate")
    /\ UNCHANGED <<objects, clock, log, store, policy, history, copy, event, counters, done>>

\* publish: the version must be greater than the current one.
PublishCheck(t) ==
    /\ MayStart(t)
    /\ \E p \in Publishable, a \in Actors :
          /\ p.version > policy.version
          /\ call' = [call EXCEPT ![t] =
                [uri |-> PolicyUri, actor |-> a, version |-> p.version,
                 body |-> [allowed |-> p.allowed, index |-> 0]]]
    /\ Goto(t, "mutate")
    /\ UNCHANGED <<objects, clock, log, store, policy, history, copy, event, counters, done>>

CalledPolicy(t) == [version |-> call[t].version, allowed |-> call[t].body.allowed]

\* The mutation takes the next tick and goes into the history.
PublishMutation(t) ==
    /\ pc[t] = "mutate"
    /\ Stamp(t)
    /\ history' = Append(history, CalledPolicy(t))
    /\ Goto(t, "activate")
    /\ UNCHANGED <<objects, log, store, policy, call, copy, boots, rollbacks, unread, done>>

PublishActivate(t) ==
    /\ pc[t] = "activate"
    /\ policy' = CalledPolicy(t)
    /\ Goto(t, "index")
    /\ UNCHANGED <<objects, clock, log, store, history, call, copy, event, counters, done>>

\* activation_index = len(event_log.timeline(POLICY_URI)) + 1
PublishIndex(t) ==
    /\ pc[t] = "index"
    /\ event' = [event EXCEPT ![t].body.index = Len(log[PolicyUri]) + 1]
    /\ Goto(t, "log")
    /\ UNCHANGED <<objects, clock, log, store, policy, history, call, copy, counters, done>>

-------------------------------------------------------------------------------
\* EventLogService.rollback cuts the list in memory; the store, the registry and the
\* objects' timeline layers keep what was cut.
Rollback(t, u, keep) ==
    /\ Free(t)
    /\ rollbacks < MaxRollbacks
    /\ rollbacks' = rollbacks + 1
    /\ log' = [log EXCEPT ![u] = SubSeq(@, 1, keep)]
    /\ UNCHANGED <<objects, clock, store, policy, history, locals, minted, boots, unread, done>>

EventsIn(s) == {s[i] : i \in DOMAIN s}

\* What a boot may find of a log: none of it when reading the file raises, which is
\* swallowed, and of the rows it reads all but those that are not valid events.
TakenUp(s) ==
    UNION {{[i \in 1..n |-> s[f[i]]] :
                f \in {g \in [1..n -> DOMAIN s] : \A i, j \in 1..n : i < j => g[i] < g[j]}} :
           n \in 0..Len(s)}

\* Mutant: the event log starts empty after a restart.
Restart_EmptyLog ==
    /\ boots < MaxBoots
    /\ boots' = boots + 1
    /\ objects' = NoObjects
    /\ clock' = 0
    /\ policy' = FirstPolicy
    /\ history' = <<>>
    /\ pc' = [t \in Threads |-> "idle"]
    /\ call' = Unset /\ copy' = Unset /\ event' = Unset
    /\ log' = [u \in Logs |-> <<>>]
    /\ unread' = {}
    /\ UNCHANGED <<store, minted, rollbacks, done>>

\* The process dies and is started again: a new registry, clock and policy service,
\* and an event log filled from the store as far as it can be read (_bootstrap_from_store).
Restart ==
    /\ boots < MaxBoots
    /\ boots' = boots + 1
    /\ objects' = NoObjects
    /\ clock' = 0
    /\ policy' = FirstPolicy
    /\ history' = <<>>
    /\ pc' = [t \in Threads |-> "idle"]
    /\ call' = Unset /\ copy' = Unset /\ event' = Unset
    /\ log' \in {l \in [Logs -> UNION {TakenUp(store[u]) : u \in Logs}] :
                   \A u \in Logs : l[u] \in TakenUp(store[u])}
    /\ unread' = UNION {EventsIn(store[u]) \ EventsIn(log'[u]) : u \in Logs}
    /\ UNCHANGED <<store, minted, rollbacks, done>>

PatchStep(t) == PatchRead(t) \/ PatchMissing(t) \/ PatchStamp(t) \/ PatchUpdate(t)
PublishStep(t) == PublishMutation(t) \/ PublishActivate(t) \/ PublishIndex(t)
LogStep(t) == LogAppend(t) \/ StoreAppend(t) \/ StoreRaises(t)

Next ==
    \/ \E t \in Threads :
          \/ \E u \in Uris : Create(t, u)
          \/ PatchCheck(t) \/ PatchStep(t)
          \/ PublishCheck(t) \/ PublishStep(t)
          \/ LogStep(t)
          \/ \E u \in Logs : \E keep \in 0..Len(log[u]) : Rollback(t, u, keep)
    \/ Restart

Spec == Init /\ [][Next]_vars
-------------------------------------------------------------------------------
TypeOK ==
    /\ objects \in [Uris -> Objects \cup {None}]
    /\ clock \in Nat
    /\ log \in [Logs -> Seq(PatchEvents \cup PolicyEvents)]
    /\ store \in [Logs -> Seq(PatchEvents \cup PolicyEvents)]
    /\ policy \in Policies
    /\ history \in Seq(Policies)
    /\ pc \in [Threads -> {"idle", "read", "stamp", "update", "mutate", "activate",
                            "index", "log", "store"}]
    /\ call \in [Threads -> Calls(Uris, Deltas) \cup Calls({PolicyUri}, Mutations) \cup {None}]
    /\ copy \in [Threads -> Objects \cup {None}]
    /\ event \in [Threads -> PatchEvents \cup PolicyEvents \cup {None}]
    /\ minted \in Nat /\ boots \in 0..MaxBoots /\ rollbacks \in 0..MaxRollbacks
    /\ done \subseteq PatchEvents \cup PolicyEvents
    /\ unread \subseteq PatchEvents \cup PolicyEvents

\* No call is between changing the registry and appending to the log of u.
Settled(u) == \A t \in Threads : pc[t] = "log" => call[t].uri # u

\* The live state of an object is what replaying its log gives: state engine and
\* event log tell the same story, also after calls whose store append raised.
ReplayMatchesLive ==
    \A u \in Uris : objects[u] # None /\ Settled(u) => objects[u].state = ReplayOf(log[u])

\* An event stamped after a policy mutation carries that version or a later one:
\* no patch slips in under rules that were already replaced.
PolicyPinned ==
    \A u \in Uris : \A e \in EventsIn(log[u]), p \in EventsIn(log[PolicyUri]) :
        p.tick < e.tick => p.version <= e.version

\* The logged policy mutations have strictly growing versions.
PolicyMonotonic ==
    \A i, j \in DOMAIN log[PolicyUri] :
        i < j => log[PolicyUri][i].version < log[PolicyUri][j].version

\* What an object shows comes from an event that is in its log or is just being
\* appended: no interleaving of patches leaves a value nobody logged, until someone
\* cuts a log.
NoPhantomState ==
    rollbacks = 0 => \A u \in Uris, k \in Keys :
        objects[u] # None /\ objects[u].state[k] # None =>
            \E e \in EventsIn(log[u]) \cup {event[t] : t \in {x \in Threads :
                         pc[x] = "log" /\ call[x].uri = u}} :
                e.body = [key |-> k, val |-> objects[u].state[k]]

\* An event whose call returned is in the store for good: it survives every later
\* failed append, rollback of the list in memory, and restart.
DoneIsDurable == \A e \in done : \E u \in Logs : e \in EventsIn(store[u])

\* Until someone cuts it, the log in memory holds every event of the store, also those of
\* earlier boots, but for those the last boot could not read: a failed append never leaves
\* an event in the file that replay does not know.
LogCoversStore ==
    rollbacks = 0 => \A u \in Logs : EventsIn(store[u]) \subseteq EventsIn(log[u]) \cup unread

\* Two threads may write to the store in another order than to the log in memory;
\* replay gives the same state from either, so also after a restart.
ReplaySurvivesRestart ==
    \A u \in Uris :
        EventsIn(store[u]) = EventsIn(log[u]) => ReplayOf(store[u]) = ReplayOf(log[u])

===============================================================================
