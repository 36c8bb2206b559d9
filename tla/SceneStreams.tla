------------------------------ MODULE SceneStreams ------------------------------
(***************************************************************************)
(* The streams built from streams (qso_subscribe_prefix and                *)
(* qso_subscribe_scene_render_v1 in api/mcp_tools), on the loop of module  *)
(* Streams.  A prefix stream replays the objects under a prefix, then      *)
(* starts one forwarder per object, each reading a live stream of its own  *)
(* into one shared queue.  A scene stream has a forwarder that reads a     *)
(* prefix stream into a second queue and renders the scene anew for every  *)
(* event its client takes.  The client may close a stream and resume with  *)
(* the last cursor token it got.                                           *)
(*                                                                         *)
(* Every object of Uris is under the prefix.  The tasks of the loop start  *)
(* in the order they were created in, and each runs until it waits.        *)
(***************************************************************************)
EXTENDS Streams

CONSTANTS
    MaxConns,    \* bound on the streams a client opens, one after the other
    Scopes       \* what a client opens, with bounds on what else happens then

ASSUME ScopesAssumption ==
    Scopes \subseteq [kind : {"prefix", "scene"}, modes : SUBSET Modes, conns : 1..MaxConns,
                      events : 1..MaxEvents, links : BOOLEAN]
ASSUME SubsAssumption == MaxConns \in Nat /\ Subs = Uris \X (1..MaxConns)
ASSUME HeldAssumption == None \notin [uri : Uris, index : Nat]

VARIABLES
    created,    \* the objects in the registry
    scope,      \* what the client of this behaviour opens
    conn,       \* its current stream
    held,       \* what each forwarder is putting into fan_in
    fan,        \* fan_in of the prefix stream
    scene,      \* fan_in of the scene stream: the token each event carries
    times,      \* how often the client got each event from its own object (history)
    frame,      \* how much of each object's log the last frame shows
    token       \* the client's last cursor token

prefixVars == <<created, scope, conn, held, fan, scene, times, frame, token>>
allVars == <<vars, prefixVars>>

kind == scope.kind

Nothing == [u \in Uris |-> 0]

SceneInit ==
    /\ StreamInit
    /\ created \in SUBSET Uris
    /\ scope \in Scopes
    /\ conn = [no |-> 0, phase |-> "off"]
    /\ held = [u \in Uris |-> None]
    /\ fan = <<>> /\ scene = <<>>
    /\ times = [u \in Uris |-> [i \in 0..(MaxEvents - 1) |-> 0]]
    /\ frame = Nothing
    /\ token = None

-------------------------------------------------------------------------------
\* The other tasks: qso_create, qso_entangle, qso_patch.
Create(u) ==
    /\ running = None
    /\ u \notin created
    /\ created' = created \cup {u}
    /\ UNCHANGED <<vars, scope, conn, held, fan, scene, times, frame, token>>

PatchNode(u) == u \in created /\ logged[u] < scope.events /\ Patch(u) /\ UNCHANGED prefixVars
LinkNodes == scope.links /\ AddEntanglement /\ UNCHANGED prefixVars

\* A task of the stream is in the loop's queue, behind conn.ahead publishers.
Queued == conn.phase = "starting" \/ (kind = "scene" /\ conn.phase = "called")

\* The loop runs the next publisher, unless it is the stream's task that is next.
RunPublisher ==
    /\ RunNext
    /\ IF Queued
         THEN conn.ahead > 0 /\ conn' = [conn EXCEPT !.ahead = @ - 1]
         ELSE UNCHANGED conn
    /\ UNCHANGED <<created, scope, held, fan, scene, times, frame, token>>

PublisherStep == (NextList \/ EnqueueNext \/ PublishDone) /\ UNCHANGED prefixVars

-------------------------------------------------------------------------------
\* The call that opens a stream: the objects are listed, the cursor is resolved.  A
\* scene stream without a cursor starts at the tail of the logs, and its forwarder is
\* put into the loop's queue.
OpenStream(mode, resume) ==
    /\ running = None
    /\ conn.phase = "off" /\ conn.no < scope.conns
    /\ resume => token # None
    /\ conn' = [no |-> conn.no + 1, phase |-> "called", mode |-> mode, uris |-> created,
                next |-> IF resume THEN token ELSE IF kind = "scene" THEN logged ELSE Nothing,
                start |-> Nothing, cut |-> Nothing, went |-> Nothing, ahead |-> Len(ready)]
    /\ times' = IF resume THEN times ELSE [u \in Uris |-> [i \in 0..(MaxEvents - 1) |-> 0]]
    /\ UNCHANGED <<vars, created, scope, held, fan, scene, frame, token>>

\* The first anext of a prefix stream reads the logs as they are now.
Reading == IF conn.phase = "called" THEN [conn EXCEPT !.phase = "replay", !.start = conn.next, !.cut = logged] ELSE conn

Unreplayed(c) == {u \in c.uris : c.next[u] < c.cut[u]}

\* After the replay the forwarders are created, at the end of the loop's queue.
GoLive(c) == [c EXCEPT !.phase = "starting", !.went = logged, !.ahead = Len(ready)]

\* The client of a prefix stream asks for the next event and gets a replayed one, or
\* waits for a live one, or learns that there is no object to wait for.
Got(u, i) == times' = [times EXCEPT ![u][i] = @ + 1]

NextRow ==
    /\ running = None
    /\ kind = "prefix" /\ conn.phase \in {"called", "replay"}
    /\ LET c == Reading
       IN  IF c.uris = {} THEN conn' = [no |-> c.no, phase |-> "off"] /\ UNCHANGED <<times, token>>
           ELSE IF Unreplayed(c) = {} THEN conn' = GoLive(c) /\ UNCHANGED <<times, token>>
           ELSE \E u \in Unreplayed(c) :
                   /\ conn' = [c EXCEPT !.next[u] = @ + 1]
                   /\ Got(u, c.next[u])
                   /\ token' = conn'.next
    /\ UNCHANGED <<vars, created, scope, held, fan, scene, frame>>

\* Mutant: the first frame is left out.
SceneStart_NoFrame ==
    /\ running = None
    /\ kind = "scene" /\ conn.phase = "called" /\ conn.ahead = 0
    /\ conn' = IF Unreplayed(Reading) = {} THEN GoLive(Reading) ELSE Reading
    /\ UNCHANGED <<vars, created, scope, held, fan, scene, times, frame, token>>

\* The forwarder of a scene stream runs until it waits, and the scene is rendered right
\* after it: the first frame.
SceneStart ==
    /\ running = None
    /\ kind = "scene" /\ conn.phase = "called" /\ conn.ahead = 0
    /\ conn' = IF Unreplayed(Reading) = {} THEN GoLive(Reading) ELSE Reading
    /\ frame' = logged
    /\ UNCHANGED <<vars, created, scope, held, fan, scene, times, token>>

\* It passes replayed events on; with the last one it goes live without waiting.
SceneRow ==
    /\ running = None
    /\ kind = "scene" /\ conn.phase = "replay"
    /\ Len(scene) < QueueSize
    /\ \E u \in Unreplayed(conn) :
          LET c == [conn EXCEPT !.next[u] = @ + 1]
          IN  /\ conn' = IF Unreplayed(c) = {} THEN GoLive(c) ELSE c
              /\ scene' = Append(scene, c.next)
    /\ UNCHANGED <<vars, created, scope, held, fan, times, frame, token>>

\* The forwarders start: each opens the live stream of its object, without a replay.
Mine(u) == <<u, conn.no>>
StartForwarders ==
    /\ running = None
    /\ conn.phase = "starting" /\ conn.ahead = 0
    /\ subscribers' = [u \in Uris |-> IF u \in conn.uris THEN Append(subscribers[u], Mine(u)) ELSE subscribers[u]]
    /\ sub' = [s \in Subs |->
          IF s[2] = conn.no /\ s[1] \in conn.uris
            THEN [phase |-> "open", uri |-> s[1], mode |-> conn.mode, start |-> logged[s[1]],
                  next |-> logged[s[1]], cutoff |-> 0]
            ELSE sub[s]]
    /\ conn' = [conn EXCEPT !.phase = "live"]
    /\ UNCHANGED <<graphVars, logged, queue, putters, ready, running, got>>
    /\ UNCHANGED <<created, scope, held, fan, scene, times, frame, token>>

Live == conn.phase = "live"

\* A forwarder takes the next event of its stream,
Forward(u) ==
    /\ Live /\ u \in conn.uris
    /\ held[u] = None
    /\ Take(Mine(u))
    /\ held' = [held EXCEPT ![u] = Last(got'[Mine(u)])]
    /\ UNCHANGED <<created, scope, conn, fan, scene, times, frame, token>>

\* Mutant: the forwarder does not wait for room.
FanPut_NoWait(u) ==
    /\ Live /\ running = None
    /\ held[u] # None
    /\ fan' = IF Len(fan) < QueueSize THEN Append(fan, [via |-> u, uri |-> held[u].uri, index |-> held[u].index]) ELSE fan
    /\ held' = [held EXCEPT ![u] = None]
    /\ UNCHANGED <<vars, created, scope, conn, scene, times, frame, token>>

\* and puts it into fan_in, where it waits for room.
FanPut(u) ==
    /\ Live /\ running = None
    /\ held[u] # None
    /\ Len(fan) < QueueSize
    /\ fan' = Append(fan, [via |-> u, uri |-> held[u].uri, index |-> held[u].index])
    /\ held' = [held EXCEPT ![u] = None]
    /\ UNCHANGED <<vars, created, scope, conn, scene, times, frame, token>>

\* Mutant: the token points at the event that was delivered.
Passed_Same(item) == [conn.next EXCEPT ![item.uri] = IF item.index > @ THEN item.index ELSE @]

\* The positions after a live event.
Passed(item) == [conn.next EXCEPT ![item.uri] = IF item.index + 1 > @ THEN item.index + 1 ELSE @]

\* The client of a prefix stream gets a live event.
NextLive ==
    /\ Live /\ running = None
    /\ kind = "prefix" /\ fan # <<>>
    /\ LET item == Head(fan)
       IN  /\ conn' = [conn EXCEPT !.next = Passed(item)]
           /\ token' = Passed(item)
           /\ IF item.via = item.uri THEN Got(item.uri, item.index) ELSE UNCHANGED times
    /\ fan' = Tail(fan)
    /\ UNCHANGED <<vars, created, scope, held, scene, frame>>

\* The forwarder of a scene stream passes it on (an event it holds while it waits for
\* room counts as still in fan_in).
SceneForward ==
    /\ Live /\ running = None
    /\ kind = "scene" /\ fan # <<>>
    /\ Len(scene) < QueueSize
    /\ conn' = [conn EXCEPT !.next = Passed(Head(fan))]
    /\ scene' = Append(scene, Passed(Head(fan)))
    /\ fan' = Tail(fan)
    /\ UNCHANGED <<vars, created, scope, held, times, frame, token>>

\* The client of a scene stream takes an event: the scene is rendered as it is now.
NextFrame ==
    /\ running = None
    /\ scene # <<>>
    /\ frame' = logged
    /\ token' = Head(scene)
    /\ scene' = Tail(scene)
    /\ UNCHANGED <<vars, created, scope, conn, held, fan, times>>

\* The client closes the stream: the forwarders are cancelled and unregistered (one after
\* the other in the code, in one step here); a publisher may still wait at their queues.
CloseStream ==
    /\ running = None
    /\ conn.phase # "off"
    /\ LET mine == {s \in Subs : s[2] = conn.no /\ Open(s)}
       IN  /\ subscribers' = [u \in Uris |-> RemoveFirst(subscribers[u], Mine(u))]
           /\ sub' = [s \in Subs |-> IF s \in mine THEN [sub[s] EXCEPT !.phase = "closed"] ELSE sub[s]]
           /\ got' = [s \in Subs |-> IF s \in mine THEN <<>> ELSE got[s]]
    /\ conn' = [no |-> conn.no, phase |-> "off"]
    /\ held' = [u \in Uris |-> None] /\ fan' = <<>> /\ scene' = <<>>
    /\ UNCHANGED <<graphVars, logged, queue, putters, ready, running>>
    /\ UNCHANGED <<created, scope, times, frame, token>>

\* What the loop runs without anybody asking, and what a client that reads asks for.
LoopRuns ==
    \/ RunPublisher \/ PublisherStep
    \/ SceneStart \/ SceneRow \/ StartForwarders \/ SceneForward
    \/ \E u \in Uris : Forward(u) \/ FanPut(u)
ClientReads == NextRow \/ NextLive \/ NextFrame

SceneNext ==
    \/ \E u \in Uris : Create(u) \/ PatchNode(u)
    \/ \E mode \in scope.modes, resume \in BOOLEAN : OpenStream(mode, resume)
    \/ LinkNodes \/ LoopRuns \/ ClientReads \/ CloseStream

SceneSpec == SceneInit /\ [][SceneNext]_allVars

\* The loop and the client never both stop while one of them has something to do.
FairSceneSpec == SceneSpec /\ WF_allVars(LoopRuns \/ ClientReads)
-------------------------------------------------------------------------------
\* A publisher that still has to hand event i of u to its own forwarder.
ToCome(u, i) ==
    \E p \in Carrying :
        /\ p.uri = u /\ p.index = i
        /\ p.lists = 0 \/ (p.lists = 1 /\ Mine(u) \in ToSet(p.todo))

OnTheWay(u, i) ==
    \/ [uri |-> u, index |-> i] \in ToSet(queue[Mine(u)]) \cup {held[u]}
    \/ [via |-> u, uri |-> u, index |-> i] \in ToSet(fan)
    \/ ToCome(u, i)

\* A blocking prefix stream misses an event only if it was published while the client was
\* still being handed the replay: after the logs were read, before the stream went live.
\* Every other event from its cursor on was received, or is to be replayed, or is in a
\* queue, or in the hands of a forwarder or publisher.
OnlyTheGapIsMissed ==
    kind = "prefix" /\ conn.phase \in {"replay", "starting", "live"} /\ conn.mode = "block" =>
        \A u \in conn.uris : \A i \in conn.start[u]..(logged[u] - 1) :
            \/ times[u][i] > 0
            \/ i < conn.cut[u] /\ i >= conn.next[u] /\ conn.phase = "replay"
            \/ i >= conn.cut[u] /\ (conn.phase = "replay" \/ i < conn.went[u])
            \/ OnTheWay(u, i)

\* Nor does a prefix client get an event of an object twice, also when it closes its
\* stream anywhere and resumes with its last token (events that come over a link, through
\* another object's stream, and objects linked to themselves aside).
NoRepeat == \A u \in Uris : ~SelfLinked(u) => \A i \in 0..(MaxEvents - 1) : times[u][i] <= 1

\* The scene catches up: once the patches stop, the last frame of a client that keeps
\* reading shows every patch of the nodes its stream was opened on, in every mode, also
\* where events were dropped, and although the prefix stream underneath has a gap.
UpToDate == kind = "scene" /\ conn.phase # "off" => \A u \in conn.uris : frame[u] = logged[u]
SceneCatchesUp == []<>UpToDate
===============================================================================
