-------------------------------- MODULE Streams --------------------------------
(***************************************************************************)
(* Subscriptions (qso_patch and qso_subscribe in api/mcp_tools, the queues *)
(* in services/entanglement_graph).  Everything runs on one asyncio loop:  *)
(* a patch logs its event and starts a publisher task, which puts the      *)
(* payload into the queues of the subscribers of the object and of the     *)
(* targets of its links; a subscriber first replays the log up to a cutoff *)
(* and then reads its queue.  A task runs until it waits: publishers       *)
(* change places only where a queue is full.                               *)
(***************************************************************************)
EXTENDS EntanglementGraph, SequencesExt

CONSTANTS
    Subs,        \* the streams clients open
    Modes,       \* the backpressure modes they ask for
    QueueSize,   \* asyncio.Queue(maxsize=...)
    MaxEvents,   \* bound on the events of one object
    MaxClosed,   \* bound on the streams that are closed
    None

ASSUME ModesAssumption == Modes \subseteq {"block", "drop_oldest", "drop_newest"}
ASSUME QueueAssumption == QueueSize \in Nat \ {0}
ASSUME StreamsBounds == MaxEvents \in Nat /\ MaxClosed \in Nat

VARIABLES
    logged,       \* the number of events in the log of each object
    subscribers,  \* EntanglementGraphService._subscribers
    sub,          \* what each stream was opened with and how far its replay is
    queue,        \* the queue of each stream
    putters,      \* the publishers waiting for room in it, in the order they came
    ready,        \* the loop's queue of publishers that may run
    running,      \* the publisher that has the loop
    got           \* the payloads each client received (history variable)

streamVars == <<logged, subscribers, sub, queue, putters, ready, running, got>>
vars == <<graphVars, streamVars>>

\* A payload carries the index of the event in the log of its object, and the object.
Payload(p) == [uri |-> p.uri, index |-> p.index]

\* A publisher: its event, how many of its target lists it has taken up (the first is
\* the object's own, then one per link) and the subscribers left in the last one.
Publishers == [uri : Uris, index : Nat, lists : Nat, todo : Seq(Subs)]
ASSUME NoneAssumption == None \notin Publishers
NewPublisher(u, i) == [uri |-> u, index |-> i, lists |-> 0, todo |-> <<>>]

Open(s) == sub[s].phase = "open"

StreamInit ==
    /\ GraphInit
    /\ logged = [u \in Uris |-> 0]
    /\ subscribers = [u \in Uris |-> <<>>]
    /\ sub = [s \in Subs |-> [phase |-> "new"]]
    /\ queue = [s \in Subs |-> <<>>]
    /\ putters = [s \in Subs |-> <<>>]
    /\ ready = <<>>
    /\ running = None
    /\ got = [s \in Subs |-> <<>>]

-------------------------------------------------------------------------------
\* qso_entangle, on the same loop.
AddEntanglement ==
    /\ running = None
    /\ Entangle
    /\ UNCHANGED streamVars

\* qso_patch: the event is logged, its index is read back from the log, and a
\* publisher task is created.  The live index is the place in the list in memory, the
\* index of a replay the place by timestamp: they agree within one life of the process,
\* which is what this module is about, since the clock only grows in it.
Patch(u) ==
    /\ running = None
    /\ logged[u] < MaxEvents
    /\ logged' = [logged EXCEPT ![u] = @ + 1]
    /\ ready' = Append(ready, NewPublisher(u, logged[u]))
    /\ UNCHANGED <<graphVars, subscribers, sub, queue, putters, running, got>>

\* The loop runs the next publisher, from its start or from the put it waited in.
RunNext ==
    /\ running = None
    /\ ready # <<>>
    /\ running' = Head(ready)
    /\ ready' = Tail(ready)
    /\ UNCHANGED <<graphVars, logged, subscribers, sub, queue, putters, got>>

\* publish_patch goes to its next list: a copy of the subscribers as they are now.
\* The list of links is read as it goes, also past a wait.
NextList ==
    /\ running # None
    /\ running.todo = <<>>
    /\ running.lists <= Len(links[running.uri])
    /\ LET u == IF running.lists = 0 THEN running.uri ELSE links[running.uri][running.lists]
       IN  running' = [running EXCEPT !.lists = @ + 1, !.todo = subscribers[u]]
    /\ UNCHANGED <<graphVars, logged, subscribers, sub, queue, putters, ready, got>>

PublishDone ==
    /\ running # None
    /\ running.todo = <<>>
    /\ running.lists > Len(links[running.uri])
    /\ running' = None
    /\ UNCHANGED <<graphVars, logged, subscribers, sub, queue, putters, ready, got>>

Full(s) == Len(queue[s]) >= QueueSize

Handed == running' = [running EXCEPT !.todo = Tail(@)]

\* _enqueue where the queue has room.
Enqueue(s) ==
    /\ ~Full(s)
    /\ queue' = [queue EXCEPT ![s] = Append(@, Payload(running))]
    /\ Handed
    /\ UNCHANGED putters

\* block: queue.put waits at the end of the line, also when it was woken and another
\* publisher took the room.
EnqueueWaits(s) ==
    /\ Full(s)
    /\ sub[s].mode = "block"
    /\ putters' = [putters EXCEPT ![s] = Append(@, running)]
    /\ running' = None
    /\ UNCHANGED queue

EnqueueDropsNewest(s) ==
    /\ Full(s)
    /\ sub[s].mode = "drop_newest"
    /\ Handed
    /\ UNCHANGED <<queue, putters>>

\* Mutant: drop_oldest drops the new payload.
EnqueueDropsOldest_Newest(s) ==
    /\ Full(s)
    /\ sub[s].mode = "drop_oldest"
    /\ Handed
    /\ UNCHANGED <<queue, putters>>

EnqueueDropsOldest(s) ==
    /\ Full(s)
    /\ sub[s].mode = "drop_oldest"
    /\ queue' = [queue EXCEPT ![s] = Append(Tail(@), Payload(running))]
    /\ Handed
    /\ UNCHANGED putters

EnqueueNext ==
    /\ running # None
    /\ running.todo # <<>>
    /\ LET s == Head(running.todo)
       IN  Enqueue(s) \/ EnqueueWaits(s) \/ EnqueueDropsNewest(s) \/ EnqueueDropsOldest(s)
    /\ UNCHANGED <<graphVars, logged, subscribers, sub, ready, got>>

-------------------------------------------------------------------------------
\* The first anext of a stream: it registers and, with include_replay, takes the log
\* as it is now; start is what its cursor says (0 without one).
Subscribe(s, u, mode, start, replay) ==
    /\ running = None
    /\ sub[s].phase = "new"
    /\ replay \/ start = logged[u]
    /\ subscribers' = [subscribers EXCEPT ![u] = Append(@, s)]
    /\ sub' = [sub EXCEPT ![s] =
          [phase |-> "open", uri |-> u, mode |-> mode, start |-> start,
           next |-> start, cutoff |-> IF replay THEN logged[u] ELSE 0]]
    /\ UNCHANGED <<graphVars, logged, queue, putters, ready, running, got>>

\* qso_subscribe_projection registers when it is called, before the client reads.
Project(s, u, mode) ==
    /\ running = None
    /\ sub[s].phase = "new"
    /\ subscribers' = [subscribers EXCEPT ![u] = Append(@, s)]
    /\ sub' = [sub EXCEPT ![s] = [phase |-> "early", uri |-> u, mode |-> mode]]
    /\ UNCHANGED <<graphVars, logged, queue, putters, ready, running, got>>

\* Its first anext: the log is read as it is by then.
Begin(s, start) ==
    /\ running = None
    /\ sub[s].phase = "early"
    /\ start <= logged[sub[s].uri]
    /\ sub' = [sub EXCEPT ![s] =
          [phase |-> "open", uri |-> @.uri, mode |-> @.mode, start |-> start,
           next |-> start, cutoff |-> logged[@.uri]]]
    /\ UNCHANGED <<graphVars, logged, subscribers, queue, putters, ready, running, got>>

Deliver(s, payload) == got' = [got EXCEPT ![s] = Append(@, payload)]

Replaying(s) == sub[s].next < sub[s].cutoff

\* An anext during the replay.
Replay(s) ==
    /\ running = None
    /\ Open(s) /\ Replaying(s)
    /\ Deliver(s, [uri |-> sub[s].uri, index |-> sub[s].next])
    /\ sub' = [sub EXCEPT ![s].next = @ + 1]
    /\ UNCHANGED <<graphVars, logged, subscribers, queue, putters, ready, running>>

\* Mutant: no cutoff after the replay.
Passes_All(s, payload) == TRUE

\* Mutant: the event right at the cutoff is skipped.
Passes_OffByOne(s, payload) == payload.index > sub[s].cutoff

\* What the cutoff lets through.
Passes(s, payload) == payload.index >= sub[s].cutoff

\* Mutant: a get wakes no publisher.
Take_NoWake(s) ==
    /\ running = None
    /\ Open(s) /\ ~Replaying(s)
    /\ queue[s] # <<>>
    /\ LET n == SelectInSeq(queue[s], LAMBDA payload : Passes(s, payload))
           gets == IF n = 0 THEN Len(queue[s]) ELSE n
       IN  /\ IF n = 0 THEN UNCHANGED got ELSE Deliver(s, queue[s][n])
           /\ queue' = [queue EXCEPT ![s] = SubSeq(@, gets + 1, Len(@))]
    /\ UNCHANGED <<graphVars, logged, subscribers, sub, putters, ready, running>>

\* An anext after it: payloads that the replay covered are skipped, the next one is
\* delivered if there is one.  Every get wakes one waiting publisher.
Take(s) ==
    /\ running = None
    /\ Open(s) /\ ~Replaying(s)
    /\ queue[s] # <<>>
    /\ LET n == SelectInSeq(queue[s], LAMBDA payload : Passes(s, payload))
           gets == IF n = 0 THEN Len(queue[s]) ELSE n
           woken == IF gets < Len(putters[s]) THEN gets ELSE Len(putters[s])
       IN  /\ IF n = 0 THEN UNCHANGED got ELSE Deliver(s, queue[s][n])
           /\ queue' = [queue EXCEPT ![s] = SubSeq(@, gets + 1, Len(@))]
           /\ putters' = [putters EXCEPT ![s] = SubSeq(@, woken + 1, Len(@))]
           /\ ready' = ready \o SubSeq(putters[s], 1, woken)
    /\ UNCHANGED <<graphVars, logged, subscribers, sub, running>>

ClosedSubs == {s \in Subs : sub[s].phase = "closed"}

\* The client closes its stream: it is unregistered, its queue stays as it is.
Close(s) ==
    /\ running = None
    /\ Open(s)
    /\ Cardinality(ClosedSubs) < MaxClosed
    /\ subscribers' = [subscribers EXCEPT ![sub[s].uri] = RemoveFirst(@, s)]
    /\ sub' = [sub EXCEPT ![s].phase = "closed"]
    /\ UNCHANGED <<graphVars, logged, queue, putters, ready, running, got>>

\* The client goes away before its first anext: the generator never ran, so neither does
\* its finally, and the stream stays registered.
Abandon(s) ==
    /\ running = None
    /\ sub[s].phase = "early"
    /\ Cardinality(ClosedSubs) < MaxClosed
    /\ sub' = [sub EXCEPT ![s].phase = "closed"]
    /\ UNCHANGED <<graphVars, logged, subscribers, queue, putters, ready, running, got>>

LoopStep == RunNext \/ NextList \/ EnqueueNext \/ PublishDone
ClientStep(s) == Replay(s) \/ Take(s) \/ (\E start \in 0..MaxEvents : Begin(s, start))

StreamNext ==
    \/ AddEntanglement
    \/ \E u \in Uris : Patch(u)
    \/ LoopStep
    \/ \E s \in Subs :
          \/ \E u \in Uris, mode \in Modes, replay \in BOOLEAN :
                \E start \in 0..logged[u] : Subscribe(s, u, mode, start, replay)
          \/ \E u \in Uris, mode \in Modes : Project(s, u, mode)
          \/ ClientStep(s) \/ Close(s) \/ Abandon(s)

StreamSpec == StreamInit /\ [][StreamNext]_vars

\* The loop never stops while a task can run, and a client that has its stream open
\* keeps reading.
FairStreamSpec == StreamSpec /\ WF_vars(LoopStep) /\ \A s \in Subs : WF_vars(ClientStep(s))
-------------------------------------------------------------------------------

OpenIn(mode) == {s \in Subs : Open(s) /\ sub[s].mode = mode}

\* The places of the events of its own object among those a client received.
Own(s) == {i \in DOMAIN got[s] : got[s][i].uri = sub[s].uri}
OwnIndices(s) == {got[s][i].index : i \in Own(s)}

\* An object linked to itself (which takes a caller that allows a cycle) hands its
\* patches to its own subscribers twice.
SelfLinked(u) == u \in Targets(u)

\* An object that gets no patches of others.
Unlinked(u) == \A v \in Uris : u \notin Targets(v)

\* The publishers on their way, wherever they are.
Waiting(s) == ToSet(putters[s])
Carrying == ToSet(ready) \cup (IF running = None THEN {} ELSE {running}) \cup UNION {Waiting(s) : s \in Subs}

\* A publisher that still has to hand event i of its object to s.
StillToCome(s, i) ==
    \E p \in Carrying :
        /\ p.uri = sub[s].uri /\ p.index = i
        /\ p.lists = 0 \/ (p.lists = 1 /\ s \in ToSet(p.todo))

\* A blocking stream loses nothing: every event from its cursor on was received, or is
\* still to be replayed, or in its queue, or in the hands of a publisher.  The change
\* from replay to live leaves no gap, whichever publishers were on their way then.
NothingLost ==
    \A s \in OpenIn("block") :
        \A i \in sub[s].start..(logged[sub[s].uri] - 1) :
            \/ i \in OwnIndices(s)
            \/ sub[s].next <= i /\ i < sub[s].cutoff
            \/ [uri |-> sub[s].uri, index |-> i] \in ToSet(queue[s])
            \/ StillToCome(s, i)

\* No client receives an event of its object twice: what the replay covered is not
\* repeated by a publisher that was late.
NoDuplicates ==
    \A s \in Subs : Open(s) /\ ~SelfLinked(sub[s].uri) =>
        \A i, j \in Own(s) : i # j => got[s][i].index # got[s][j].index

\* No client asked for backpressure by blocking: no publisher ever waits.
NoBlocking == \A s \in Subs : sub[s].phase # "new" => sub[s].mode # "block"

\* Streams that may drop never show their events out of order.  (With one blocking
\* stream among the subscribers they do: a publisher that waited is overtaken.)
DroppingKeepsOrder ==
    NoBlocking => \A s \in Subs : Open(s) /\ ~SelfLinked(sub[s].uri) =>
        \A i, j \in Own(s) : i < j => got[s][i].index < got[s][j].index

\* drop_oldest never drops the latest state: with no publisher on its way, the last
\* event of the object was received or is at hand.  (With a blocking stream among the
\* subscribers an older event may arrive late and push the latest one out, and so may
\* an event that comes over a link.)
LatestIsKept ==
    NoBlocking => \A s \in {x \in OpenIn("drop_oldest") : Unlinked(sub[x].uri)} :
        LET last == logged[sub[s].uri] - 1
        IN  \/ last < sub[s].start \/ last < sub[s].cutoff
            \/ last \in OwnIndices(s)
            \/ [uri |-> sub[s].uri, index |-> last] \in ToSet(queue[s])
            \/ StillToCome(s, last)

\* Every publication ends, unless it waits for a client that closed its stream.
Publishing(u, i) == \E p \in Carrying : p.uri = u /\ p.index = i
Orphaned(u, i) == \E s \in ClosedSubs : \E p \in Waiting(s) : p.uri = u /\ p.index = i
PublishEnds ==
    \A u \in Uris, i \in 0..(MaxEvents - 1) :
        Publishing(u, i) ~> (~Publishing(u, i) \/ Orphaned(u, i))
===============================================================================
