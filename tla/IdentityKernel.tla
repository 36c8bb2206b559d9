---------------------------- MODULE IdentityKernel ----------------------------
(***************************************************************************)
(* Identities (core/identity and the identity calls of the state engine).  *)
(* An identity is an object whose patches carry identity events.  A call   *)
(* reads the events logged so far, reduces them together with the new one  *)
(* (which validates it), and patches the object with the reduced state:    *)
(* the event goes to the log, the state is merged into the object.  Calls  *)
(* of several handler threads may interleave between these steps.          *)
(*                                                                         *)
(* An entitlement goes through the same life as a credential, so           *)
(* Credentials stands for both.  The lists of keys, measurements and past  *)
(* events are kept as the number of events.  A failing store append, a     *)
(* restart, a log rollback and plain patches of the object are the subject *)
(* of StateRuntime and left out here.                                      *)
(***************************************************************************)
EXTENDS Naturals, SequencesExt

CONSTANTS
    Threads,      \* handler threads
    Serial,       \* TRUE: one call at a time
    Uris,         \* the identities
    Credentials,  \* credential (and entitlement) ids
    Links,        \* link ids
    MaxTick,      \* bound: no call starts at or after this clock value
    None

ASSUME ItemsAssumption == Credentials \cap Links = {} /\ None \notin Credentials \cup Links
ASSUME BoundAssumption == Serial \in BOOLEAN /\ MaxTick \in Nat

Items == Credentials \cup Links

\* Identity events, without their payloads: what they do, and to which item.
IdentityEvents ==
    [type : {"CREATE", "ROTATE", "MEASURE", "FREEZE", "ARCHIVE"}, item : {None}]
    \cup [type : {"GRANT", "REVOKE"}, item : Items]

\* A reinstatement is a plain patch with a marker, not an identity event.
Marker == [type |-> "REINSTATE", item |-> None]
Requests == IdentityEvents \cup {Marker}
Events == [tick : Nat, request : Requests]

\* The record of a credential or link: its status, and whether the fields a
\* revocation adds (revoked_by, revoked_event_id, ...) are in it.
Records == [status : {"none", "active", "inert"}, revoked : BOOLEAN]
States == [created : BOOLEAN, status : {"active", "frozen", "archived"},
           items : [Items -> Records], events : Nat]
Objects == [runtime : States \cup {None}]
Calls == [uri : Uris, request : Requests]

ASSUME NoneAssumption == None \notin States \cup Objects \cup Calls

VARIABLES
    objects,  \* RegistryService._objects; state_layer["identity_runtime"] of each
    clock,    \* LogicalClock._tick
    log,      \* EventLogService._events_by_uri
    pc,       \* what each thread does next
    call,     \* the arguments of its call
    next,     \* the reduced state it has in hand
    copy,     \* the object as it read it, with that state merged in
    stamp     \* the timestamp of its event

locals == <<pc, call, next, copy, stamp>>
vars == <<objects, clock, log, locals>>

-------------------------------------------------------------------------------
\* The reducer.
Absent == [status |-> "none", revoked |-> FALSE]
EmptyState == [created |-> FALSE, status |-> "active", items |-> [i \in Items |-> Absent], events |-> 0]

\* CREDENTIAL_ISSUE and ENTITLEMENT_GRANT write a new record; LINK_ATTACH updates
\* the old one and takes the fields of a revocation out.
Granted == [status |-> "active", revoked |-> FALSE]
Revoked == [status |-> "inert", revoked |-> TRUE]

\* Mutant: a frozen identity takes the events of an active one.
Allowed_Frozen(state, r) ==
    /\ r.type = "CREATE" <=> ~state.created
    /\ state.status # "archived"
    /\ r.type = "REVOKE" => state.items[r.item].status # "none"

\* What the reducer does not raise on.
Allowed(state, r) ==
    /\ r.type = "CREATE" <=> ~state.created
    /\ state.status # "archived"
    /\ state.status = "frozen" =>
          \/ r.type \in {"MEASURE", "ARCHIVE"}
          \/ r.type = "REVOKE" /\ r.item \in Links
    /\ r.type = "REVOKE" => state.items[r.item].status # "none"

Effect(state, r) ==
    LET counted == [state EXCEPT !.created = TRUE, !.events = @ + 1]
    IN  CASE r.type = "FREEZE"  -> [counted EXCEPT !.status = "frozen"]
          [] r.type = "ARCHIVE" -> [counted EXCEPT !.status = "archived"]
          [] r.type = "GRANT"   -> [counted EXCEPT !.items[r.item] = Granted]
          [] r.type = "REVOKE"  -> [counted EXCEPT !.items[r.item] = Revoked]
          [] OTHER -> counted

\* reduce_identity_timeline; None: an event in it raises.
Reduce(requests) ==
    FoldLeft(LAMBDA state, r : IF state # None /\ Allowed(state, r) THEN Effect(state, r) ELSE None,
             EmptyState, requests)

\* The identity events of a log in the canonical order of replay: no two share a tick, so
\* the n-th is the one that n of them are not later than.
Replay(events) ==
    LET kernel == {e \in ToSet(events) : e.request # Marker}
        Nth(n) == {e \in kernel : Cardinality({f \in kernel : f.tick <= e.tick}) = n}
    IN  [n \in 1..Cardinality(kernel) |-> (CHOOSE e \in Nth(n) : TRUE).request]

\* Mutant: what the object has wins.
DeepMerge_OldWins(live, new) == IF live = None THEN new ELSE live

\* _deep_merge of a reduced state into identity_runtime: lists and plain values are
\* replaced, records are merged field by field, and what only the object has stays.
DeepMerge(live, new) ==
    IF live = None THEN new
    ELSE [new EXCEPT !.items = [i \in Items |->
            IF new.items[i].status = "none" THEN live.items[i]
            ELSE [new.items[i] EXCEPT !.revoked = @ \/ live.items[i].revoked]]]

Init ==
    /\ objects = [u \in Uris |-> None]
    /\ clock = 0
    /\ log = [u \in Uris |-> <<>>]
    /\ pc = [t \in Threads |-> "idle"]
    /\ call = [t \in Threads |-> None]
    /\ next = [t \in Threads |-> None]
    /\ copy = [t \in Threads |-> None]
    /\ stamp = [t \in Threads |-> 0]

-------------------------------------------------------------------------------
MayStart(t) ==
    /\ pc[t] = "idle"
    /\ Serial => \A x \in Threads : pc[x] = "idle"
    /\ clock < MaxTick

Goto(t, label) == pc' = [pc EXCEPT ![t] = label]

\* The call returns or raises: its locals are gone.
Leave(t) ==
    /\ Goto(t, "idle")
    /\ call' = [call EXCEPT ![t] = None]
    /\ next' = [next EXCEPT ![t] = None]
    /\ copy' = [copy EXCEPT ![t] = None]
    /\ stamp' = [stamp EXCEPT ![t] = 0]

\* create_identity registers an object first, and then applies IDENTITY_CREATE to it.
CreateIdentity(t, u) ==
    /\ MayStart(t)
    /\ objects[u] = None
    /\ objects' = [objects EXCEPT ![u] = [runtime |-> None]]
    /\ call' = [call EXCEPT ![t] = [uri |-> u, request |-> [type |-> "CREATE", item |-> None]]]
    /\ Goto(t, "reduce")
    /\ UNCHANGED <<clock, log, next, copy, stamp>>

\* apply_identity_event, with any event type; freezing is what a revocation does.
ApplyIdentityEvent(t, u) ==
    /\ MayStart(t)
    /\ objects[u] # None
    /\ \E r \in IdentityEvents : call' = [call EXCEPT ![t] = [uri |-> u, request |-> r]]
    /\ Goto(t, "reduce")
    /\ UNCHANGED <<objects, clock, log, next, copy, stamp>>

\* The reinstate route: the marker goes straight to patch.
Reinstate(t, u) ==
    /\ MayStart(t)
    /\ objects[u] # None
    /\ call' = [call EXCEPT ![t] = [uri |-> u, request |-> Marker]]
    /\ Goto(t, "patch")
    /\ UNCHANGED <<objects, clock, log, next, copy, stamp>>

\* What reducing the log with the new event behind it gives.
Reduction(t) == Reduce(Append(Replay(log[call[t].uri]), call[t].request))

\* Mutant: the new event is applied without being validated.
ReduceTimeline_Unchecked(t) ==
    /\ pc[t] = "reduce"
    /\ LET state == Reduce(Replay(log[call[t].uri]))
       IN  /\ state # None
           /\ next' = [next EXCEPT ![t] = Effect(state, call[t].request)]
    /\ clock' = clock + 1
    /\ Goto(t, "patch")
    /\ UNCHANGED <<objects, log, call, copy, stamp>>

\* The identity event takes a tick; the timeline with it is reduced.
ReduceTimeline(t) ==
    /\ pc[t] = "reduce"
    /\ Reduction(t) # None
    /\ next' = [next EXCEPT ![t] = Reduction(t)]
    /\ clock' = clock + 1
    /\ Goto(t, "patch")
    /\ UNCHANGED <<objects, log, call, copy, stamp>>

\* The reducer raises, on the order of events or on a malformed payload.
ReduceRaises(t) ==
    /\ pc[t] = "reduce"
    /\ Reduction(t) = None \/ call[t].request.type \notin {"FREEZE", "ARCHIVE"}
    /\ clock' = clock + 1
    /\ Leave(t)
    /\ UNCHANGED <<objects, log>>

\* patch refuses the policy version or the actor of the call.
PatchRefused(t) ==
    /\ pc[t] = "patch"
    /\ Leave(t)
    /\ UNCHANGED <<objects, clock, log>>

\* patch reads the object and merges the reduced state, if it has one, into it.
PatchRead(t) ==
    /\ pc[t] = "patch"
    /\ LET live == objects[call[t].uri].runtime
       IN  copy' = [copy EXCEPT ![t] =
              [runtime |-> IF next[t] = None THEN live ELSE DeepMerge(live, next[t])]]
    /\ Goto(t, "stamp")
    /\ UNCHANGED <<objects, clock, log, call, next, stamp>>

PatchStamp(t) ==
    /\ pc[t] = "stamp"
    /\ clock' = clock + 1
    /\ stamp' = [stamp EXCEPT ![t] = clock + 1]
    /\ Goto(t, "update")
    /\ UNCHANGED <<objects, log, call, next, copy>>

PatchUpdate(t) ==
    /\ pc[t] = "update"
    /\ objects' = [objects EXCEPT ![call[t].uri] = copy[t]]
    /\ Goto(t, "log")
    /\ UNCHANGED <<clock, log, call, next, copy, stamp>>

LogAppend(t) ==
    /\ pc[t] = "log"
    /\ log' = [log EXCEPT ![call[t].uri] =
          Append(@, [tick |-> stamp[t], request |-> call[t].request])]
    /\ Leave(t)
    /\ UNCHANGED <<objects, clock>>

Next ==
    \E t \in Threads :
        \/ \E u \in Uris : CreateIdentity(t, u) \/ ApplyIdentityEvent(t, u) \/ Reinstate(t, u)
        \/ ReduceTimeline(t) \/ ReduceRaises(t)
        \/ PatchRefused(t) \/ PatchRead(t) \/ PatchStamp(t) \/ PatchUpdate(t)
        \/ LogAppend(t)

Spec == Init /\ [][Next]_vars
-------------------------------------------------------------------------------

\* The state the log of an identity stands for.
Reduced(u) == Reduce(Replay(log[u]))

\* The logged events of an identity can always be reduced.  An event logged where the
\* reducer refuses it would make every later identity call raise, for good.
LogReduces == \A u \in Uris : Reduced(u) # None

\* No call is between changing the registry and appending to the log of u.
Settled(u) == \A t \in Threads : pc[t] = "log" => call[t].uri # u

Summary(state) ==
    [created |-> state.created, status |-> state.status, events |-> state.events,
     items |-> [i \in Items |-> state.items[i].status]]

\* What an identity object shows is what its log reduces to: its status, its history
\* and what it holds (up to traces of revocations that were followed by a grant), and
\* nothing at all if its creation failed.
LiveMatchesLog ==
    \A u \in Uris : objects[u] # None /\ Settled(u) =>
        IF Replay(log[u]) = <<>> THEN objects[u].runtime = None
        ELSE /\ objects[u].runtime # None
             /\ Summary(objects[u].runtime) = Summary(Reduced(u))

\* The life of an identity, as the log tells it, is the one IdentityLifecycle promises.
Phase(u) == IF Replay(log[u]) = <<>> \/ Reduced(u) = None THEN "absent" ELSE Reduced(u).status
Holds(u) == IF Reduced(u) = None THEN {} ELSE {i \in Items : Reduced(u).items[i].status = "active"}
Lifecycle == INSTANCE IdentityLifecycle
    WITH phase <- [u \in Uris |-> Phase(u)], holds <- [u \in Uris |-> Holds(u)]
ImplementsLifecycle == Lifecycle!LSpec
===============================================================================
